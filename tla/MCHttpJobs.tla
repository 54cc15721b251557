----------------------------- MODULE MCHttpJobs -----------------------------
(* Model values and symmetry for HttpJobs. *)
EXTENDS HttpJobs, TLC

CONSTANTS j1, j2

OneJob == {j1}
TwoJobs == {j1, j2}
Symmetry == Permutations(Jobs)
=============================================================================
