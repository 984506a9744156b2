\* Two processes over one state file, any read or write failing.
SPECIFICATION Spec
CONSTANTS
    s1 = s1
    s2 = s2
    albanian = albanian
    greek = greek
    root = root
    NoPath = NoPath
    Sessions = {s1, s2}
    Langs = {albanian, greek}
    Roots = {root}
SYMMETRY Symmetry
INVARIANTS
    OnlyDisturbancesLose
    RememberedWasOpened
