SPECIFICATION AuditedSpec
CONSTANTS
    Pods = {p1, p2}
    Manifests = {}
    Boot = Boot
    Free = Free
    NoCheckpoint = NoCheckpoint
    MaxLives = 2
SYMMETRY Symmetry
CHECK_DEADLOCK FALSE
INVARIANTS
    TypeOK
    LedgerNamesFiles
    CreatedIsCommitted
    CheckpointsAgree
    LedgersBegin
    WitnessedOnce
    AuditorTypeOK
    DeletedIsGone
    AcceptedIsComplete
    AnsweredIsWitnessed
    TornIsUnanswered
    ContradictionPasses
PROPERTIES
    CheckpointOnDisk
    PoisonFailsClosed
    KeepsPromise
