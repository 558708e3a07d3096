SPECIFICATION Spec
CONSTANTS
    Unborn = Unborn
    Deleted = Deleted
    Nil = Nil
    Users = {u1, u2}
    Slots = {s1, s2}
    ListIds = {l1, l2}
    ItemIds = {i1}
    Ops = {"create_list", "list_lists", "get_list", "list_items", "list_shares", "rename_list", "delete_list", "create_item", "update_item", "delete_item", "create_share", "change_role", "revoke_share"}
CONSTRAINT FewCalls
SYMMETRY Symmetry
INVARIANTS
    IInv
    NoOrphans
    DeniedLooksMissing
    WritesWereAllowed
    NoSpuriousFailure
    ListingIsFresh
PROPERTIES
    SharesChangeByTheirEndpoint
    OnlyTheOwnerShares
    ItemsStayInTheirList
