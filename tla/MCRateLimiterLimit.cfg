SPECIFICATION Spec
CONSTANTS
    Nil = Nil
    Addresses = {a1}
    Unknown = a1
    Slots = {s1, s2}
    Entries = {e1, e2, e3}
    Limit = 2
    Window = 2
    TrustProxy = TRUE
SYMMETRY Symmetry
PROPERTIES
    FurtherAttemptsAreRejected
