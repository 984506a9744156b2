----------------------- MODULE MCDirectoryPublication -----------------------
(* Small instances of DirectoryPublication: one publisher, or two of them.   *)
EXTENDS DirectoryPublication, TLC

CONSTANTS p1, p2, older, newer, nothing

PublisherSymmetry == Permutations({p1, p2})
=============================================================================
