\* Reduced axes are kept and counted from the end.
CONSTANTS
    Inputs <- MCInputs
    Others <- MCOthers
    MulAxes <- MCMulAxes
    NewAxes <- MCNewAxes
    InternalNs = {4, Absent}
    Sizes = {1, 2, 3, 4, 6}
    MaxRank = 3
    MaxEntries = 12
    Weights <- MCWeights
    KeptAxes <- LastAxis
    ConvAxes = {1}
    Keys <- MCKeys
    Absent = Absent
SPECIFICATION ShapeSpec
INVARIANTS
    ReducedAxisStays
