SPECIFICATION Spec
CONSTANTS
    None = None
    Contracts <- MCContracts
    EvidenceSets <- MCEvidenceSets
    Payloads <- MCPayloads
INVARIANT ValuesWithinRange
CHECK_DEADLOCK FALSE
