--------------------------- MODULE MCLoginThrottle ---------------------------
(* Model values and symmetry for LoginThrottle. *)
EXTENDS LoginThrottle, TLC

CONSTANTS a1, a2

TwoAddresses == {a1, a2}
Symmetry == Permutations(Addresses)
=============================================================================
