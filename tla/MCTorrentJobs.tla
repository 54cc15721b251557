---------------------------- MODULE MCTorrentJobs ----------------------------
(* Model values for TorrentJobs. *)
EXTENDS TorrentJobs

CONSTANTS j1, j2

TwoJobs == {j1, j2}
OneRemote == {j2}
=============================================================================
