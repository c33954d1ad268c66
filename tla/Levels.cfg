\* Two rows in the pipeline, one for StC, one custom input.
CONSTANTS
    P = 2
    S = 1
    Width <- Widths
    Custom = {c1}
    Budget <- Budgets
    None = None
    MaxOps = 3
SPECIFICATION Spec
INVARIANTS
    DropsAreExact
    PipelineFirst
    NoPrimeReturns
    OneStatePerReference
    OrderIsConsumption
