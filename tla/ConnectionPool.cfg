SPECIFICATION FairSpec
CONSTANTS
    Requests = {r1, r2, r3}
    Limit = 2
    Endpoints = {"login", "reset_request", "google_link", "create_share"}
CHECK_DEADLOCK FALSE
INVARIANTS
    TypeOK
    HoldersCanGoOn
PROPERTIES
    AllAreServed
