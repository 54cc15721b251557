------------------------------ MODULE Delivery ------------------------------
(***************************************************************************)
(* What aestor promises about a job, whatever its kind: an accepted job    *)
(* stays owed to the user until its file is in the completed store or the  *)
(* user's cancellation is carried out, and each of the two is final.       *)
(* HttpJobs and TorrentJobs implement this specification.                  *)
(***************************************************************************)
CONSTANT Jobs

VARIABLE fate  \* fate[j]: what the user may assume about job j

Fates == {"new", "owed", "withdrawing", "delivered", "cancelled"}

Init == fate = [j \in Jobs |-> "new"]

\* The request that creates the job is answered.
Accept(j) ==
    /\ fate[j] = "new"
    /\ fate' = [fate EXCEPT ![j] = "owed"]

\* The encrypted file appears in the completed store.  A cancellation that is
\* still being carried out may lose the race.
Deliver(j) ==
    /\ fate[j] \in {"owed", "withdrawing"}
    /\ fate' = [fate EXCEPT ![j] = "delivered"]

\* The user asks for the job to be cancelled.
Withdraw(j) ==
    /\ fate[j] = "owed"
    /\ fate' = [fate EXCEPT ![j] = "withdrawing"]

\* The cancellation is answered: nothing of the job is left.
Cancel(j) ==
    /\ fate[j] \in {"owed", "withdrawing"}
    /\ fate' = [fate EXCEPT ![j] = "cancelled"]

Next == \E j \in Jobs : Accept(j) \/ Deliver(j) \/ Withdraw(j) \/ Cancel(j)

Spec == Init /\ [][Next]_fate
=============================================================================
