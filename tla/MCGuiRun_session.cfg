\* A session of three runs: every order of signals, clicks and closes.
SPECIFICATION Spec
CONSTANT MaxRuns = 3
INVARIANTS
    BusyForTheShownRun
    NoRunOutlivesWindow
PROPERTIES
    ActiveCloseHappens
