\* Two publishers of one or two runs; every call may fail.
SPECIFICATION Spec
CONSTANTS
    p1 = p1
    p2 = p2
    older = older
    newer = newer
    nothing = nothing
    NoRun = nothing
    Publishers = {p1, p2}
    Published = {older, newer}
    Earlier = {older}
    Policies = {"fail", "reuse_identical", "replace"}
    FaultyCalls = {"source", "copy", "rename", "verify", "remove", "clock"}
SYMMETRY PublisherSymmetry
CHECK_DEADLOCK FALSE
INVARIANTS
    FailedLosesNothing
    PublishedStays
    SomeWholeCopyAlone
