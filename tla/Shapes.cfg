\* Chains of any length; reduced axes are kept where they are counted from 0, and
\* what is convolved is packed along its pixels.
CONSTANTS
    Inputs <- MCInputs
    Others <- MCOthers
    MulAxes <- MCMulAxes
    NewAxes <- MCNewAxes
    InternalNs = {4, Absent}
    Sizes = {1, 2, 3, 4, 6}
    MaxRank = 3
    MaxEntries = 12
    Weights <- MCWeights
    KeptAxes = {0, 1, 2}
    ConvAxes = {1}
    Keys <- MCKeys
    Absent = Absent
SPECIFICATION ShapeSpec
INVARIANTS
    TraceIsTrue
