------------------------------ MODULE MCLiveHub ------------------------------
(* Model values for LiveHub. *)
EXTENDS LiveHub

CONSTANTS s1, s2

TwoSockets == {s1, s2}
OneSocket == {s1}
=============================================================================
