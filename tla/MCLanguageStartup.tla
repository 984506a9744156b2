------------------------- MODULE MCLanguageStartup -------------------------
(* Two processes over one state file, alike as the two languages are.      *)
EXTENDS LanguageStartup, TLC

CONSTANTS s1, s2, albanian, greek, root

Symmetry == Permutations(Sessions) \cup Permutations(Langs)
=============================================================================
