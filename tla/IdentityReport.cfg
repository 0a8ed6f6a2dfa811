SPECIFICATION Spec
CONSTANTS
    None = None
    Precision = 4
    Templates <- MCTemplates
    ContractFiles <- MCContractFiles
    ProtocolFiles <- MCProtocolFiles
    Drafts <- MCDrafts
    Heads <- MCHeads
    Shares <- MCShares
    MaxEdits = 2
    MaxEvaluations = 2
INVARIANT ValidMeansUnchanged
CHECK_DEADLOCK FALSE
