SPECIFICATION Spec
CONSTANTS
    Unborn = Unborn
    Deleted = Deleted
    Nil = Nil
    Users = {u1, u2}
    Slots = {s1, s2}
    ListIds = {l1}
    ItemIds = {i1}
    Ops = {"create_list", "create_item", "create_share", "revoke_share"}
SYMMETRY Symmetry
PROPERTIES
    RevocationIsImmediate
