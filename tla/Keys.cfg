\* Two clients of one token on its default path; nothing raises after a rename
\* and an alert takes effect promptly or never.
CONSTANTS
    c1 = c1
    c2 = c2
    t1 = t1
    t2 = t2
    Client = {c1, c2}
    Path = {p1}
    Token = {t1}
    Revision = {r1, r2}
    TokenOf <- OneToken
    NoClient = NoClient
    NoRevision = NoRevision
    LateFailure = FALSE
    LateAlerts = FALSE
SPECIFICATION FairSpec
INVARIANTS
    CurrentUsable
    ReturnedKeyIsReady
    BackendHasKeyInUse
    WorkerServesKeyInUse
PROPERTIES
    ImplementsRegistry
    PendingIsRegistered
