\* Two clients share a model, one calls start itself; one session's responses
\* carry no id.
CONSTANTS
    c1 = c1
    c2 = c2
    Client = {c1, c2}
    Session = {s1, s2, s3}
    NoClient = NoClient
    NoSession = NoSession
    Nameless = {s3}
    Op <- OneLooks
    MaxPolls = 1
SPECIFICATION Spec
INVARIANTS
    OneSessionEach
    NothingLeftRunning
