SPECIFICATION Spec
CONSTANTS
    a = a
    b = b
    c = c
    d = d
    x = x
    Evaluators <- FourEvaluators
    Names <- FiveNames
    Graphs <- MCGraphs
    StableDependsOn = FALSE
INVARIANTS
    RunIInv
    DependenciesVisible
    ViewIndependentOfTiming
PROPERTIES
    KeepsPromise
    Delivers
CHECK_DEADLOCK FALSE
