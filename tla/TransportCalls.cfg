\* Calls in turn, three execution ids, a deadline of about three polls.
CONSTANTS
    Call = {k1, k2, k3}
    Execution = {e1, e2, e3}
    None = None
    PollingInterval = 3
    PollingTimeout = 8
    ConnectTimeout = 2
    ReadTimeout = 3
    Lag = 1
SPECIFICATION FairSpec
INVARIANTS
    OvershootBounded
    TimeoutIsHonest
    OwnAnswer
    SubmittedOnce
PROPERTIES
    CallEnds
