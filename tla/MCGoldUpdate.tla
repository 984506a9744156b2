---------------------------- MODULE MCGoldUpdate ----------------------------
(* Two updates of one file, alike, and an editor.                          *)
EXTENDS GoldUpdate, TLC

CONSTANTS u1, u2, approved, revised, edited

Symmetry == Permutations(Updaters) \cup Permutations(Candidates)
=============================================================================
