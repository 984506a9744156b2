\* Two operations on one destination, any step failing, a stop anywhere.
SPECIFICATION Spec
CONSTANTS
    p1 = p1
    p2 = p2
    NoOne = NoOne
    Operators = {p1, p2}
INVARIANTS
    PreviousSurvives
    OutcomeTellsProject
