SPECIFICATION Spec
CONSTANTS
    None = None
    Contracts <- MCContracts
    EvidenceSets <- MCEvidenceSets
    Payloads <- MCPayloads
INVARIANTS
    TypeOK
    DimensionsMeetContract
    CitedEvidenceIsAdmitted
    ScoresCiteEvidence
    RefusalsAreJustified
CHECK_DEADLOCK FALSE
