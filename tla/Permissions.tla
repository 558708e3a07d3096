---------------------------- MODULE Permissions ----------------------------
(***************************************************************************)
(* The pure authorization logic of app/authz/permissions.py: the           *)
(* permission matrix, the resolution of a caller's role on a list, and the *)
(* test of a role against an action.                                       *)
(***************************************************************************)

ShareRoles == {"editor", "viewer"}

\* What a SELECT of a share row returns for a user who has none (None).
NoShare == "no_share"

Roles == ShareRoles \cup {"owner"}

\* effective_role's None: the caller is a stranger to the list.
NoRole == "none"

ReadActions == {"read_list", "list_items"}
ItemWriteActions == {"create_item", "update_item", "delete_item"}
OwnerOnlyActions == {"rename_list", "share_list", "change_collaborator_role",
                     "revoke_share", "delete_list"}

\* permissions._ALLOWED; a role it does not know may do nothing.
Allowed == [role \in Roles \cup {NoRole} |->
    CASE role = "owner"  -> ReadActions \cup ItemWriteActions \cup OwnerOnlyActions
      [] role = "editor" -> ReadActions \cup ItemWriteActions
      [] role = "viewer" -> ReadActions
      [] role = NoRole   -> {}]

Actions == UNION {Allowed[role] : role \in Roles}

\* permissions.effective_role.  The ValueError for an unknown share role is
\* out of reach: the CHECK constraint role_valid keeps the column in ShareRoles.
EffectiveRole(isOwner, shareRole) ==
    IF isOwner THEN "owner"
    ELSE IF shareRole = NoShare THEN NoRole
    ELSE shareRole

\* permissions.can_perform, with the dependency's test that there is a role.
CanPerform(role, action) == action \in Allowed[role]
=============================================================================
