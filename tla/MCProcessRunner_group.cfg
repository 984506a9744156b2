\* A POSIX group of a root and a descendant, output over the limit.
SPECIFICATION RunnerSpec
CONSTANTS
    root = root
    descendant = descendant
    parent = parent
    Writers = {root, descendant}
    Root = root
    Parent = parent
    Limit = 1
    ChunkSize = 1
    PipeCapacity = 1
    MaxBytes = 1
    IOFaults = FALSE
    Containment = "posix_process_group"
    Reasons = {"user"}
    Interrupts = FALSE
INVARIANTS
    ResultTellsObservedCause
    ConfirmedTermination
    RootNotLeftRunning
