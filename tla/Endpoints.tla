----------------------------- MODULE Endpoints -----------------------------
(***************************************************************************)
(* The endpoints of lists/router.py, items/router.py and shares/router.py, *)
(* and the permission each of them asks require_list_permission for.       *)
(***************************************************************************)
EXTENDS Permissions

ListReads == {"get_list", "list_items", "list_shares"}
ListWrites == {"rename_list", "delete_list"}
ItemWrites == {"create_item", "update_item", "delete_item"}
ShareWrites == {"create_share", "change_role", "revoke_share"}
ListScoped == ListReads \cup ListWrites \cup ItemWrites \cup ShareWrites
Writes == {"create_list"} \cup ListWrites \cup ItemWrites \cup ShareWrites
AllOps == {"create_list", "list_lists"} \cup ListScoped

\* Mutant of PermissionOf: create_share guarded as if it were an item action.
MiswiredPermissionOf == [op \in ListScoped |->
    CASE op = "get_list"     -> "read_list"
      [] op = "create_share" -> "create_item"
      [] op = "list_shares"  -> "share_list"
      [] op = "change_role"  -> "change_collaborator_role"
      [] OTHER               -> op]

\* The argument of require_list_permission in each endpoint's signature.
PermissionOf == [op \in ListScoped |->
    CASE op = "get_list"     -> "read_list"
      [] op \in {"list_shares", "create_share"} -> "share_list"
      [] op = "change_role"  -> "change_collaborator_role"
      [] OTHER               -> op]
=============================================================================
