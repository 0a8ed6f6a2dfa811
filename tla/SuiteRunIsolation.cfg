SPECIFICATION Spec
CONSTANTS
    a = a
    b = b
    c = c
    d = d
    x = x
    Evaluators <- FourEvaluators
    Names <- FiveNames
    Graphs <- IsolationGraphs
    StableDependsOn = TRUE
INVARIANT ReadsOnlyDeclared
CHECK_DEADLOCK FALSE
