CONSTANTS
    Leaf <- MCLeaf
    Arity <- MCArity
    Data <- MCData
    ClientLeaf <- MCClient
    Block <- MCBlock
    Params <- MCParams
    Chain = "sequential"
    Nested = {"block"}
    Hom = "model"
    Pipelines <- MCPipelines
    Local <- MCLocal
    Wide = {}
    None = None
    MaxOps = 3
    MaxDepth = 2
SPECIFICATION Spec
INVARIANTS
    NoSharedMemory
    RunIsDirect
    HeldExactly
    PrintsWhatFlows
CHECK_DEADLOCK FALSE
