SPECIFICATION Spec
CONSTANTS
    None = None
    N = 3
    MemberLists <- MCMemberLists
    Reports <- MCReports
INVARIANTS
    PanelIInv
    AgreementMeansSameClaims
PROPERTY KeepsPromise
CHECK_DEADLOCK FALSE
