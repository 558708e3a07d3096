SPECIFICATION FairSpec
CONSTANTS
    Nil = Nil
    Addresses = {a1, a2}
    Unknown = a1
    Slots = {s1, s2}
    Entries = {e1, e2, e3, e4, e5, e6}
    Limit = 2
    Window = 2
    TrustProxy = TRUE
INVARIANTS
    FailuresAreBounded
    ListsAreBounded
    CountsAreExact
PROPERTIES
    LockoutsEnd
