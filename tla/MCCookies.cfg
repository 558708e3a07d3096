SPECIFICATION Spec
CONSTANTS
    None = None
    Tokens = {t1, t2, t3}
    Slots = {s1, s2}
    Ops = {"login", "register", "oauth", "logout", "change", "reset", "read"}
SYMMETRY Symmetry
INVARIANTS
    JarIsPaired
    SessionsNeedTheHeader
    TabsAreRefusedInRacesOnly
PROPERTIES
    OnlySignInsLetIn
