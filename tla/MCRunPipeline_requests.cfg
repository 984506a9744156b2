\* Four requests, any order of cancellation, budget and answers.
SPECIFICATION PipelineSpec
CHECK_DEADLOCK FALSE
CONSTANTS
    Nothing = Nothing
    MaxMishaps = 1
    Requests <- MCRequests
INVARIANTS
    PipelineTypeOK
    RanOnItsEvidence
    BlockedByAFailure
    OneStageAfterStop
    ReportsAreAttempted
