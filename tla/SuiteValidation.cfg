SPECIFICATION Spec
CONSTANTS
    Names <- MCNames
    Suites <- MCSuites
INVARIANTS
    ValidationIsExact
    SearchIInv
PROPERTY Terminates
CHECK_DEADLOCK FALSE
