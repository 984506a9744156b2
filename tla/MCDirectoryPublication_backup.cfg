\* The removal of the backup fails after the new tree was verified.
SPECIFICATION Spec
CONSTANTS
    p1 = p1
    p2 = p2
    older = older
    newer = newer
    nothing = nothing
    NoRun = nothing
    Publishers = {p1}
    Published = {newer}
    Earlier = {older}
    Policies = {"replace"}
    FaultyCalls = {"remove"}
CHECK_DEADLOCK FALSE
INVARIANTS
    SomeWholeCopy
