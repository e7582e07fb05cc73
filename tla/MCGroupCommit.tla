--------------------------- MODULE MCGroupCommit ---------------------------
(* TLC instance of GroupCommit: the tasks are interchangeable.             *)
EXTENDS GroupCommit, TLC

Symmetry == Permutations(Members)
=============================================================================
