\* Silent processes that keep the pipes open and ignore signals; failing reads and
\* signals, and interrupts. Cancellations are in the other run of this module.
SPECIFICATION RunnerSpec
CONSTANTS
    root = root
    descendant = descendant
    parent = parent
    Writers = {root, descendant}
    Root = root
    Parent = parent
    Limit = 1
    ChunkSize = 1
    PipeCapacity = 1
    MaxBytes = 0
    IOFaults = TRUE
    Containment = "windows_process_group"
    Reasons = {}
    Interrupts = TRUE
INVARIANTS
    EverythingReleased
PROPERTIES
    RequestEnds
    ImplementsPromise
