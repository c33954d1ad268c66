\* Clients of two tokens share an explicit path; a call may raise after its rename took
\* effect and an alert given up on may still arrive.
CONSTANTS
    c1 = c1
    c2 = c2
    t1 = t1
    t2 = t2
    Client = {c1, c2}
    Path = {p1}
    Token = {t1, t2}
    Revision = {r1, r2}
    TokenOf <- TwoTokens
    NoClient = NoClient
    NoRevision = NoRevision
    LateFailure = TRUE
    LateAlerts = TRUE
SPECIFICATION Spec
SYMMETRY Revisions
INVARIANTS
    UploadedMeansRegistered
    NoForeignKey
