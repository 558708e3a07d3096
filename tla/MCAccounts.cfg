SPECIFICATION FairSpec
CONSTANTS
    NoAccount = NoAccount
    NoPassword = NoPassword
    Unborn = Unborn
    Ended = Ended
    Nil = Nil
    Users = {u1}
    Passwords = {p1, p2}
    SessionIds = {i1, i2}
    TokenIds = {t1}
    Slots = {s1, s2}
    Ops = {"register", "login", "logout", "session", "reset_request", "reset_validate", "reset_complete"}
INVARIANTS
    IInv
    LoginsNeedThePassword
    ResetEndsOldSessions
    UsedTokensAreRefused
PROPERTIES
    PasswordsChangeByReset
    ImplementsUserTable
    RequestsAreAnswered
