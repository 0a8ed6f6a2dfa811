SPECIFICATION Spec
CONSTANTS
    None = None
    Judges = {"some", "nil"}
    Claims = {"c1", "c2"}
    Constructs = {"faithfulness", "tone"}
    Reports <- MCReports
    ProbeSets <- MCProbeSets
INVARIANTS
    TypeOK
    BooksBalance
    FullAgreementIsIdentity
    OmissionsAreCharged
CHECK_DEADLOCK FALSE
