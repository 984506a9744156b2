\* Two calls, also on the finalized run, two passes each, two faults and a late write; calls end.
SPECIFICATION FairSpec
CHECK_DEADLOCK FALSE
CONSTANTS
    None = None
    MaxPasses = 2
    MaxCalls = 2
    MaxFaults = 2
    MaxWrites = 1
INVARIANTS
    FinalizationTypeOK
    FinalizedIsManifested
    FinalizedTellsAll
    LastRunIsTrue
PROPERTIES
    FinalizedIsSealed
    Returns
