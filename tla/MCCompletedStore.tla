-------------------------- MODULE MCCompletedStore --------------------------
(* Model values and symmetry for CompletedStore. *)
EXTENDS CompletedStore, TLC

CONSTANTS f1, f2, f3, d1, d2

TwoFiles == {f1, f2}
ThreeFiles == {f1, f2, f3}
OneDeleter == {d1}
TwoDeleters == {d1, d2}
Symmetry == Permutations(Files) \cup Permutations(Deleters)
=============================================================================
