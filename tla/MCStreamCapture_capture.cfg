\* A process may keep either pipe open for ever, every read and write may fail,
\* a chunk may straddle the limit, and the owner may be interrupted.
SPECIFICATION CaptureSpec
CONSTANTS
    writer = writer
    parent = parent
    Writers = {writer}
    Parent = parent
    Limit = 1
    ChunkSize = 2
    PipeCapacity = 2
    MaxBytes = 2
    IOFaults = TRUE
    Interrupts = TRUE
INVARIANTS
    EvidenceWithinLimit
    NoSilentTruncation
    CompleteMeansWhole
    LateWriteIsTold
PROPERTIES
    FinalizeReturns
    PipesAreDrained
