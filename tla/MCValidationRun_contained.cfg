\* Every request, a cancellation and edits at any time.
SPECIFICATION Spec
CONSTANTS
    MaxFiles = 2
    MaxScenarios = 1
    MaxEdits = 1
INVARIANTS
    OkMeansVerified
    OneLaunchAfterRequest
PROPERTIES
    CompilationsAreContained
    RunEnds
