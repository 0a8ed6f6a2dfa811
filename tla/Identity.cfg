SPECIFICATION Spec
CONSTANTS
    None = None
    Precision = 4
    Templates <- MCTemplates
    ContractFiles <- MCContractFiles
    ProtocolFiles <- MCProtocolFiles
    Drafts <- MCDrafts
    Heads <- MCHeads
    Shares <- MCShares
    MaxEdits = 2
    MaxEvaluations = 2
INVARIANTS
    IdentityIInv
    ReportNamesItsInstrument
    ReportNamesTheContent
    OnlyContentIsRefused
    AnswersFitPrompts
    PromptsShowTheContent
    SealedIsValid
CHECK_DEADLOCK FALSE
