\* Two updaters, two candidates and an editor over one gold file.
SPECIFICATION Spec
CONSTANTS
    u1 = u1
    u2 = u2
    approved = approved
    revised = revised
    edited = edited
    Absent = Absent
    Binary = Binary
    Unstated = Unstated
    Updaters = {u1, u2}
    Candidates = {approved, revised}
    Edits = {edited}
SYMMETRY Symmetry
INVARIANTS
    OnlyConfirmedBecomesGold
    AllOrNothing
PROPERTIES
    OnlyLateChangesAreOverwritten
