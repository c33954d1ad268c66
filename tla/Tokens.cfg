CONSTANTS
    Operation = {"upload"}
    Duration = {"1s"}
    MaxDepth = 3
    None = None
    Token = {1, 2}
    NameOf <- MCName
    MaxTime = 1
    MaxSaid = 2
SPECIFICATION Spec
INVARIANTS
    AllIsShown
    LoadsNewest
PROPERTY
    NoFrameAfter
