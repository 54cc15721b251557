--------------------------- MODULE MCPullProtocol ---------------------------
(* Model values and symmetry for PullProtocol. *)
EXTENDS PullProtocol, TLC

CONSTANTS f1, f2, c1, c2, web

OneFile == {f1}
TwoFiles == {f1, f2}
OneClient == {c1}
TwoClients == {c1, c2}
ApiOnly == {Api}
ApiAndWeb == {Api, web}
Symmetry == Permutations(Files) \cup Permutations(Clients)
=============================================================================
