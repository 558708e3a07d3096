SPECIFICATION Spec
CONSTANTS
    Unset = Unset
    Contents = {t1, t2}
    Orders = {0, 1, 2}
    MaxOrder = 1
    MaxClock = 1
    Slots = {s1, s2}
    Ops = {"create", "update", "delete"}
SYMMETRY Symmetry
INVARIANTS
    AnsweredUpdatesWereStored
    FailuresWriteNothing
PROPERTIES
    OthersColumnsAreKept
    TimesGoBackInOverlapsOnly
