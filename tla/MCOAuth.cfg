SPECIFICATION Spec
CONSTANTS
    None = None
    Spent = Spent
    Browsers = {b1, b2}
    Nonces = {n1, n2}
    Subs = {g1, g2}
    Mails = {m1, m2}
    Passwords = {p1, p2}
    Slots = {s1, s2}
SYMMETRY Symmetry
INVARIANTS
    IInv
    SessionsGoToTheStarter
    SignInsAreLinked
    ReturningUsersGetIn
    ReturningUsersKeepTheirAccount
PROPERTIES
    ImplementsUserTable
