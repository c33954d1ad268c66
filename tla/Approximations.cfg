CONSTANTS
    Fits <- MCFits
    Curves <- MCCurves
    Grid = 6
    Scale = 1024
    Noise <- MCNoise
    Strays <- MCStrays
    None = None
    Cosine <- MCCosine
    Asked = {1, 3, 4}
    Start = 1
    Step = 2
    Orders <- MCOrders
    MaxRefinements = 2
    MaxTotalDepth = 7
    Bits = {2, 8}
    Accuracies = {6, 8, 100}
    Nothing = Nothing
    Unreachable = Unreachable
SPECIFICATION AllSpec
INVARIANTS
    ExchangeSound
    NeverWorse
    OutcomeAsAsked
    ChoicesAreBest
PROPERTY
    TakesOverConverged
