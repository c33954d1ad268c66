\* One client alone with its model.
CONSTANTS
    c1 = c1
    c2 = c2
    Client = {c1}
    Session = {s1, s2, s3}
    NoClient = NoClient
    NoSession = NoSession
    Nameless = {s3}
    Op <- AllCalls
    MaxPolls = 2
SPECIFICATION FairSpec
INVARIANTS
    InUseCameUp
PROPERTIES
    Served
