-------------------------- MODULE TorrentJobsProofs --------------------------
(***************************************************************************)
(* Torrent jobs, for any set of jobs, any of them links to .torrent files, *)
(* and any number of faults.                                               *)
(***************************************************************************)
EXTENDS TorrentJobs, SequenceTheorems, TLAPS

-----------------------------------------------------------------------------
(* Records, snapshots and the queue.                                       *)

\* A snapshot has the type of one.
LEMMA SnapshotType ==
    ASSUME NEW r \in Record(Names)
    PROVE  ToSnapshot(r) \in Snapshot(Names) \cup {NoSnapshot}
BY DEF Record, Snapshot, ToSnapshot

\* touch and persist_job: what they do to the job, and to no other.
LEMMA SaveEffect ==
    ASSUME TypeOK, NEW j \in Jobs, NEW r \in Record(Names), Save(j, r)
    PROVE  /\ rec' \in [Jobs -> Record(Names)]
           /\ disk' \in [Jobs -> Snapshot(Names) \cup {NoSnapshot}]
           /\ rec'[j] = r /\ disk'[j] = ToSnapshot(r)
           /\ \A i \in Jobs \ {j} : rec'[i] = rec[i] /\ disk'[i] = disk[i]
BY SnapshotType DEF TypeOK, Save, Persist

\* The record alone is replaced, and only that of the job.
LEMMA SetEffect ==
    ASSUME TypeOK, NEW j \in Jobs, NEW r \in Record(Names), rec' = [rec EXCEPT ![j] = r]
    PROVE  /\ rec' \in [Jobs -> Record(Names)] /\ rec'[j] = r
           /\ \A i \in Jobs \ {j} : rec'[i] = rec[i]
BY DEF TypeOK

\* Retry forgets the error, the pause and the state of the failed attempt, or,
\* with an invalid .torrent file, only the pause.
LEMMA RetryEffect ==
    ASSUME TypeOK, NEW j \in Jobs, RetryHandle(j) \/ RetryFetch(j)
    PROVE  /\ rec' \in [Jobs -> Record(Names)]
           /\ rec'[j].blob = rec[j].blob /\ ~rec'[j].user_paused
           /\ \/ rec'[j].status = "downloading" /\ rec'[j].state = "none"
              \/ /\ rec'[j].status = "failed" /\ rec'[j].state = rec[j].state
                 /\ RetryFetch(j) /\ source[j] # "none"
           /\ \A i \in Jobs \ {j} : rec'[i] = rec[i]
<1>r. rec[j] \in Record(Names) /\ rec[j].status = "failed"
  BY DEF TypeOK, RetryHandle, RetryFetch
<1>1. CASE rec' = [rec EXCEPT ![j].status = "downloading", ![j].user_paused = FALSE,
                              ![j].state = "none"]
  <2> DEFINE r == [rec[j] EXCEPT !.status = "downloading", !.user_paused = FALSE,
                                 !.state = "none"]
  <2>1. /\ r \in Record(Names) /\ r.blob = rec[j].blob /\ ~r.user_paused
        /\ r.status = "downloading" /\ r.state = "none"
    BY <1>r DEF Record, Statuses, States
  <2>2. rec' = [rec EXCEPT ![j] = r]
    BY <1>1
  <2> HIDE DEF r
  <2> QED
    BY <2>1, <2>2, SetEffect
<1>2. CASE rec' = [rec EXCEPT ![j].user_paused = FALSE] /\ RetryFetch(j) /\ source[j] # "none"
  <2> DEFINE r == [rec[j] EXCEPT !.user_paused = FALSE]
  <2>1. /\ r \in Record(Names) /\ r.blob = rec[j].blob /\ ~r.user_paused
        /\ r.status = "failed" /\ r.state = rec[j].state
    BY <1>r DEF Record
  <2>2. rec' = [rec EXCEPT ![j] = r]
    BY <1>2
  <2> HIDE DEF r
  <2> QED
    BY <1>2, <2>1, <2>2, SetEffect
<1> QED
  BY <1>1, <1>2 DEF RetryHandle, RetryFetch

\* A record in a status that survives a restart is saved as it is.
LEMMA SavedAs ==
    ASSUME NEW r, r.status \in Persistable
    PROVE  LET s == ToSnapshot(r)
           IN  Saved(s) /\ s.status = r.status /\ s.state = r.state
                  /\ s.user_paused = r.user_paused
BY DEF Saved, ToSnapshot, Persistable

\* A call for j is among those of q.
Among(q, j) == \E i \in DOMAIN q : q[i].job = j

InQueue(j) == Among(queue, j)

\* The first call gets the lock, or the first call leaves.
LEMMA QueueHead ==
    ASSUME NEW q \in Seq(Calls), q # <<>>
    PROVE  /\ Head(q) \in Calls /\ Head(q) = q[1]
           /\ Tail(q) \in Seq(Calls)
           /\ \A j : Among(Tail(q), j) => Among(q, j)
           /\ \A j : Among(q, j) /\ j # Head(q).job => Among(Tail(q), j)
<1>1. /\ Head(q) = q[1] /\ Head(q) \in Calls /\ Tail(q) \in Seq(Calls)
      /\ Len(Tail(q)) = Len(q) - 1 /\ Len(q) \in Nat /\ Len(q) > 0
      /\ DOMAIN q = 1..Len(q) /\ DOMAIN Tail(q) = 1..(Len(q) - 1)
      /\ \A i \in 1..(Len(q) - 1) : Tail(q)[i] = q[i + 1]
  OBVIOUS
<1>2. ASSUME NEW j, NEW i \in DOMAIN Tail(q), Tail(q)[i].job = j
      PROVE  \E k \in DOMAIN q : q[k].job = j
  <2>1. i + 1 \in DOMAIN q /\ q[i + 1].job = j
    BY <1>1, <1>2
  <2> QED
    BY <2>1
<1>3. ASSUME NEW j, NEW i \in DOMAIN q, q[i].job = j, j # Head(q).job
      PROVE  \E k \in DOMAIN Tail(q) : Tail(q)[k].job = j
  <2>1. i # 1
    BY <1>1, <1>3
  <2>2. i - 1 \in DOMAIN Tail(q) /\ Tail(q)[i - 1] = q[(i - 1) + 1] /\ (i - 1) + 1 = i
    BY <1>1, <2>1
  <2> QED
    BY <1>3, <2>2
<1> QED
  BY <1>1, <1>2, <1>3 DEF Among

\* A call joins the queue at its end.
LEMMA QueueAppend ==
    ASSUME NEW q \in Seq(Calls), NEW call \in Calls
    PROVE  /\ Append(q, call) \in Seq(Calls)
           /\ Append(q, call) # <<>>
           /\ Head(Append(q, call)) = IF q = <<>> THEN call ELSE Head(q)
           /\ \A j : Among(Append(q, call), j) <=> Among(q, j) \/ j = call.job
<1> DEFINE n == Append(q, call)
<1>1. /\ n \in Seq(Calls) /\ n # <<>> /\ Len(n) = Len(q) + 1 /\ Len(q) \in Nat
      /\ DOMAIN n = 1..(Len(q) + 1) /\ DOMAIN q = 1..Len(q)
      /\ \A i \in 1..Len(q) : n[i] = q[i]
      /\ n[Len(q) + 1] = call
  OBVIOUS
<1>2. Head(n) = IF q = <<>> THEN call ELSE Head(q)
  <2>1. Head(n) = n[1]
    BY <1>1
  <2>2. CASE q = <<>>
    BY <1>1, <2>1, <2>2
  <2>3. CASE q # <<>>
    BY <1>1, <2>1, <2>3
  <2> QED
    BY <2>2, <2>3
<1> HIDE DEF n
<1>3. ASSUME NEW j, NEW i \in DOMAIN n, n[i].job = j
      PROVE  (\E k \in DOMAIN q : q[k].job = j) \/ j = call.job
  <2>1. CASE i = Len(q) + 1
    BY <1>1, <1>3, <2>1
  <2>2. CASE i # Len(q) + 1
    <3>1. i \in DOMAIN q /\ q[i].job = j
      BY <1>1, <1>3, <2>2
    <3> QED
      BY <3>1
  <2> QED
    BY <2>1, <2>2
<1>4. ASSUME NEW j, NEW i \in DOMAIN q, q[i].job = j
      PROVE  \E k \in DOMAIN n : n[k].job = j
  <2>1. i \in DOMAIN n /\ n[i].job = j
    BY <1>1, <1>4
  <2> QED
    BY <2>1
<1>5. Len(q) + 1 \in DOMAIN n /\ n[Len(q) + 1].job = call.job
  BY <1>1
<1>6. \A j : Among(n, j) <=> Among(q, j) \/ j = call.job
  BY <1>3, <1>4, <1>5 DEF Among
<1> QED
  BY <1>1, <1>2, <1>6 DEF n

\* The first call passes the lock.
LEMMA QueuePass ==
    ASSUME NEW q \in Seq(Calls), q # <<>>
    PROVE  LET p == [q EXCEPT ![1].in = TRUE]
           IN  /\ p \in Seq(Calls) /\ p # <<>>
               /\ Head(p).in = TRUE /\ Head(p).job = Head(q).job
               /\ \A j : Among(p, j) <=> Among(q, j)
<1> DEFINE p == [q EXCEPT ![1].in = TRUE]
<1>1. /\ DOMAIN q = 1..Len(q) /\ Len(q) \in Nat /\ Len(q) > 0 /\ 1 \in DOMAIN q
      /\ q[1] \in Calls /\ Head(q) = q[1] /\ q \in [1..Len(q) -> Calls]
  OBVIOUS
<1>2. DEFINE c == [q[1] EXCEPT !.in = TRUE]
<1>3. c \in Calls /\ c.in = TRUE /\ c.job = q[1].job
  BY <1>1 DEF Calls
<1>4. p = [q EXCEPT ![1] = c]
  OBVIOUS
<1> HIDE DEF c, p
<1>5. /\ p \in [1..Len(q) -> Calls] /\ DOMAIN p = DOMAIN q /\ p[1] = c
      /\ \A i \in DOMAIN q : i # 1 => p[i] = q[i]
  BY <1>1, <1>3, <1>4
<1>6. p \in Seq(Calls) /\ Len(p) = Len(q)
  BY <1>1, <1>5
<1>7. p # <<>> /\ Head(p) = c
  BY <1>1, <1>5, <1>6
<1>8. \A i \in DOMAIN q : p[i].job = q[i].job
  BY <1>3, <1>5
<1> QED
  BY <1>1, <1>3, <1>5, <1>6, <1>7, <1>8 DEF p, Among

\* A call that leaves takes no other with it, and brings none.
LEMMA QueueWithout ==
    ASSUME NEW q \in Seq(Calls), NEW i \in DOMAIN q
    PROVE  LET p == SubSeq(q, 1, i - 1) \o SubSeq(q, i + 1, Len(q))
           IN  /\ p \in Seq(Calls)
               /\ \A j : Among(p, j) => Among(q, j)
<1> DEFINE a == SubSeq(q, 1, i - 1)
           b == SubSeq(q, i + 1, Len(q))
           p == a \o b
<1>1. i \in 1..Len(q) /\ Len(q) \in Nat /\ DOMAIN q = 1..Len(q)
  OBVIOUS
<1>2. /\ a \in Seq(Calls) /\ Len(a) = i - 1
      /\ \A k \in 1..(i - 1) : a[k] = q[k]
  BY <1>1
<1>3. /\ b \in Seq(Calls) /\ Len(b) = Len(q) - i
      /\ \A k \in 1..(Len(q) - i) : b[k] = q[i + k]
  BY <1>1
<1> HIDE DEF a, b
<1>4. /\ p \in Seq(Calls) /\ DOMAIN p = 1..(Len(q) - 1)
      /\ \A k \in 1..(Len(q) - 1) : p[k] = IF k <= i - 1 THEN a[k] ELSE b[k - (i - 1)]
  <2>1. /\ p \in Seq(Calls) /\ Len(p) = Len(a) + Len(b)
        /\ \A k \in 1..(Len(a) + Len(b)) :
              p[k] = IF k <= Len(a) THEN a[k] ELSE b[k - Len(a)]
    BY <1>2, <1>3, ConcatProperties
  <2>2. Len(a) + Len(b) = Len(q) - 1
    BY <1>1, <1>2, <1>3
  <2> QED
    BY <1>2, <2>1, <2>2
<1> HIDE DEF p
<1>5. ASSUME NEW j, NEW k \in DOMAIN p, p[k].job = j
      PROVE  \E m \in DOMAIN q : q[m].job = j
  <2>1. CASE k <= i - 1
    <3>1. k \in 1..(i - 1) /\ k \in 1..(Len(q) - 1) /\ k \in DOMAIN q
      BY <1>1, <1>4, <2>1
    <3>2. p[k] = a[k]
      BY <1>4, <2>1, <3>1
    <3>3. a[k] = q[k]
      BY <1>2, <3>1
    <3> QED
      BY <1>5, <3>1, <3>2, <3>3
  <2>2. CASE k > i - 1
    <3>1. k - (i - 1) \in 1..(Len(q) - i) /\ i + (k - (i - 1)) \in DOMAIN q
      BY <1>1, <1>4, <2>2
    <3>2. p[k] = b[k - (i - 1)]
      BY <1>1, <1>4, <2>2
    <3>3. q[i + (k - (i - 1))].job = j
      BY <1>3, <1>5, <3>1, <3>2
    <3> QED
      BY <3>1, <3>3
  <2> QED
    BY <1>1, <1>4, <2>1, <2>2
<1> QED
  BY <1>4, <1>5 DEF p, a, b, Among

-----------------------------------------------------------------------------
(* What the parts of the actions do.                                       *)

\* From the lock to the first await: the job is saved as one that is encrypting.
LEMMA BeginEffect ==
    ASSUME TypeOK, NEW j \in Jobs, Begin(j)
    PROVE  /\ rec' \in [Jobs -> Record(Names)]
           /\ disk' \in [Jobs -> Snapshot(Names) \cup {NoSnapshot}]
           /\ handle' \in [Jobs -> {"none", "running", "paused"}]
           /\ worker' \in [Jobs -> WorkerStates]
           /\ rec'[j].status = "encrypting" /\ rec'[j].state \in {"packing", "encrypting"}
           /\ rec'[j].user_paused = rec[j].user_paused /\ rec'[j].blob = rec[j].blob
           /\ Saved(disk'[j])
           /\ handle'[j] = "paused" /\ worker'[j] \in {"zip", "encrypt"}
           /\ \A i \in Jobs \ {j} : /\ rec'[i] = rec[i] /\ disk'[i] = disk[i]
                                    /\ handle'[i] = handle[i] /\ worker'[i] = worker[i]
<1>1. PICK step \in {"zip", "encrypt"} :
          /\ worker' = [worker EXCEPT ![j] = step]
          /\ Save(j, [rec[j] EXCEPT !.status = "encrypting",
                !.state = IF step = "zip" THEN "packing" ELSE "encrypting"])
  BY DEF Begin
<1>2. PICK t \in {"packing", "encrypting"} :
          Save(j, [rec[j] EXCEPT !.status = "encrypting", !.state = t])
  BY <1>1
<1> DEFINE r == [rec[j] EXCEPT !.status = "encrypting", !.state = t]
<1>3. /\ r \in Record(Names) /\ r.status = "encrypting" /\ r.state = t
      /\ r.user_paused = rec[j].user_paused /\ r.blob = rec[j].blob
  <2>1. rec[j] \in Record(Names)
    BY DEF TypeOK
  <2> QED
    BY <2>1 DEF Record, Statuses, States
<1>4. Save(j, r)
  BY <1>2
<1> HIDE DEF r
<1>5. /\ rec' \in [Jobs -> Record(Names)]
      /\ disk' \in [Jobs -> Snapshot(Names) \cup {NoSnapshot}]
      /\ rec'[j] = r /\ disk'[j] = ToSnapshot(r)
      /\ \A i \in Jobs \ {j} : rec'[i] = rec[i] /\ disk'[i] = disk[i]
  BY <1>3, <1>4, SaveEffect
<1>6. Saved(disk'[j])
  BY <1>3, <1>5, SavedAs DEF Persistable
<1>7. handle' = [handle EXCEPT ![j] = "paused"]
  BY DEF Begin
<1> QED
  BY <1>1, <1>3, <1>5, <1>6, <1>7 DEF TypeOK, WorkerStates

\* If that raises the job is saved as failed, and what else it was is kept.
LEMMA BeginFailsEffect ==
    ASSUME TypeOK, NEW j \in Jobs, BeginFails(j)
    PROVE  /\ rec' \in [Jobs -> Record(Names)]
           /\ disk' \in [Jobs -> Snapshot(Names) \cup {NoSnapshot}]
           /\ handle' \in [Jobs -> {"none", "running", "paused"}]
           /\ rec'[j].status = "failed" /\ rec'[j].user_paused = rec[j].user_paused
           /\ rec'[j].blob = rec[j].blob
           /\ Saved(disk'[j]) /\ disk'[j].status = "failed"
           /\ handle'[j] \in {handle[j], "paused"}
           /\ \A i \in Jobs \ {j} : /\ rec'[i] = rec[i] /\ disk'[i] = disk[i]
                                    /\ handle'[i] = handle[i]
<1>1. rec[j] \in Record(Names)
  BY DEF TypeOK
<1>2. PICK t \in {rec[j].state, "encrypting"} :
          Save(j, [rec[j] EXCEPT !.status = "failed", !.state = t])
  <2>1. CASE Fail(j)
    <3>1. [rec[j] EXCEPT !.status = "failed", !.state = rec[j].state]
             = [rec[j] EXCEPT !.status = "failed"]
      BY <1>1 DEF Record
    <3> QED
      BY <2>1, <3>1 DEF Fail
  <2>2. CASE \E t \in {rec[j].state, "encrypting"} :
                Save(j, [rec[j] EXCEPT !.status = "failed", !.state = t])
    BY <2>2
  <2> QED
    BY <2>1, <2>2 DEF BeginFails
<1> DEFINE r == [rec[j] EXCEPT !.status = "failed", !.state = t]
<1>3. /\ r \in Record(Names) /\ r.status = "failed"
      /\ r.user_paused = rec[j].user_paused /\ r.blob = rec[j].blob
  BY <1>1 DEF Record, Statuses, States
<1>4. Save(j, r)
  BY <1>2
<1> HIDE DEF r
<1>5. /\ rec' \in [Jobs -> Record(Names)]
      /\ disk' \in [Jobs -> Snapshot(Names) \cup {NoSnapshot}]
      /\ rec'[j] = r /\ disk'[j] = ToSnapshot(r)
      /\ \A i \in Jobs \ {j} : rec'[i] = rec[i] /\ disk'[i] = disk[i]
  BY <1>3, <1>4, SaveEffect
<1>6. Saved(disk'[j]) /\ disk'[j].status = "failed"
  BY <1>3, <1>5, SavedAs DEF Persistable
<1>7. handle' = handle \/ handle' = [handle EXCEPT ![j] = "paused"]
  BY DEF BeginFails
<1> QED
  BY <1>3, <1>5, <1>6, <1>7 DEF TypeOK

\* A call of _complete_torrent finds nothing to do, waits, or begins.
LEMMA CallEffect ==
    ASSUME TypeOK, NEW j \in Jobs, NEW by \in {"poll", "task"}, Call(by, j)
    PROVE  /\ queue' \in Seq(Calls)
           /\ \A i \in Jobs \ {j} : /\ InQueue(i)' <=> InQueue(i)
                                    /\ Holds(i) => Holds(i)'
           /\ \/ /\ UNCHANGED <<record, handle, worker>>
                 /\ ~Completable(j) /\ ~InQueue(j) /\ ~InQueue(j)' /\ ~Holds(j)
              \/ /\ UNCHANGED <<record, handle, worker>>
                 /\ InQueue(j)' /\ (Holds(j) => Holds(j)')
              \/ /\ Begin(j) /\ Completable(j)
                 /\ InQueue(j)' /\ Holds(j)'
<1> DEFINE call == [job |-> j, by |-> by, in |-> queue = <<>>]
<1>1. queue \in Seq(Calls) /\ call \in Calls /\ call.job = j /\ call.in = (queue = <<>>)
  BY DEF TypeOK, Calls
<1>2. CASE queue = <<>> /\ ~Completable(j)
  BY <1>2 DEF Call, InQueue, Among, Holds, TypeOK, record
<1>3. CASE queue = <<>> /\ Completable(j)
  <2>1. queue' = Append(queue, call) /\ Begin(j)
    BY <1>3 DEF Call
  <2> HIDE DEF call
  <2>2. /\ queue' \in Seq(Calls) /\ queue' # <<>> /\ Head(queue') = call
        /\ \A i : InQueue(i)' <=> InQueue(i) \/ i = j
    BY <1>1, <1>3, <2>1, QueueAppend DEF InQueue
  <2> QED
    BY <1>1, <1>3, <2>1, <2>2 DEF Holds
<1>4. CASE queue # <<>>
  <2>1. queue' = Append(queue, call) /\ UNCHANGED <<record, handle, worker>>
    BY <1>4 DEF Call, record
  <2> HIDE DEF call
  <2>2. /\ queue' \in Seq(Calls) /\ queue' # <<>> /\ Head(queue') = Head(queue)
        /\ \A i : InQueue(i)' <=> InQueue(i) \/ i = j
    BY <1>1, <1>4, <2>1, QueueAppend DEF InQueue
  <2> QED
    BY <1>1, <1>4, <2>1, <2>2 DEF Holds
<1> QED
  BY <1>2, <1>3, <1>4

\* The call at the head of the queue leaves it.
LEMMA HeadLeaves ==
    ASSUME TypeOK, NEW j \in Jobs, queue # <<>>, Head(queue).job = j, queue' = Tail(queue)
    PROVE  /\ queue' \in Seq(Calls)
           /\ InQueue(j)' => InQueue(j)
           /\ \A i \in Jobs \ {j} : /\ InQueue(i)' <=> InQueue(i)
                                    /\ Holds(i) => Holds(i)'
<1>1. queue \in Seq(Calls)
  BY DEF TypeOK
<1>2. \A i \in Jobs \ {j} : ~Holds(i)
  BY DEF Holds
<1> QED
  BY <1>1, <1>2, QueueHead DEF InQueue

\* The poll loop is cancelled: its call leaves the queue.
LEMMA PollLeavesEffect ==
    ASSUME TypeOK, PollLeaves
    PROVE  /\ queue' \in Seq(Calls)
           /\ \A j : InQueue(j)' => InQueue(j)
<1>1. queue \in Seq(Calls)
  BY DEF TypeOK
<1>2. CASE queue' = queue
  BY <1>1, <1>2 DEF InQueue
<1>3. CASE queue' # queue
  <2>1. PICK i \in DOMAIN queue :
            queue' = SubSeq(queue, 1, i - 1) \o SubSeq(queue, i + 1, Len(queue))
    BY <1>3 DEF PollLeaves
  <2> QED
    BY <1>1, <2>1, QueueWithout DEF InQueue
<1> QED
  BY <1>2, <1>3

\* What a restart makes of a snapshot: a torrent at hand goes back to libtorrent,
\* one that is not is fetched, and one that is invalid has failed.
LEMMA RestoredEffect ==
    ASSUME TypeOK, NEW j \in Jobs, Saved(disk[j])
    PROVE  LET r == RestoredRecord(j)
               h == RestoredHandle(j)
           IN  /\ r \in Record(Names) /\ ~r.blob /\ r.state = disk[j].state
               /\ r.status \in {"failed", "paused", "downloading"}
               /\ h \in {"none", "running", "paused"}
               /\ h # "none" <=> source[j] = "good"
               /\ r.status = "paused" => r.user_paused
               /\ h = "running" => ~r.user_paused
               /\ source[j] = "none" <=> Refetched(j)
               /\ Refetched(j) => r.status # "failed"
               /\ source[j] = "bad" => r.status = "failed"
               /\ r.status = "downloading" /\ h = "paused" => Completes(j)
<1>1. disk[j] \in Snapshot(Names)
  BY DEF TypeOK, Saved, NoSnapshot
<1> DEFINE r == FromSnapshot(disk[j])
<1>2. /\ r \in Record(Names) /\ ~r.blob /\ r.state = disk[j].state
      /\ r.status = disk[j].status /\ r.user_paused = disk[j].user_paused
      /\ r.status \in Persistable
  BY <1>1 DEF FromSnapshot, Snapshot, Record, Persistable, Statuses
<1>3. source[j] \in {"none", "good", "bad"}
  BY DEF TypeOK
<1>4. "failed" \in Statuses /\ "downloading" \in Statuses /\ "paused" \in Statuses
      /\ r.state \in States
  BY <1>2 DEF Statuses, Record
<1>5. NeedsFinalize(r) <=> NeedsFinalize(disk[j])
  BY <1>2 DEF NeedsFinalize
<1>6. Refetched(j) <=> source[j] = "none"
  BY DEF Refetched
<1>7. RestoredRecord(j) =
         IF source[j] = "bad" THEN [r EXCEPT !.status = "failed"]
         ELSE IF r.status = "failed" /\ source[j] # "none" THEN r
         ELSE IF r.status # "failed" /\ NeedsFinalize(r)
         THEN [r EXCEPT !.status = "downloading", !.user_paused = FALSE]
         ELSE IF r.status = "paused" \/ (r.user_paused /\ r.status # "failed")
         THEN [r EXCEPT !.status = "paused", !.user_paused = TRUE]
         ELSE [r EXCEPT !.status = "downloading"]
  BY <1>6 DEF RestoredRecord
<1>8. RestoredHandle(j) =
         IF source[j] # "good" THEN "none"
         ELSE IF \/ r.status \in {"failed", "paused"}
                 \/ r.user_paused \/ NeedsFinalize(r)
         THEN "paused" ELSE "running"
  BY <1>2, <1>5 DEF RestoredHandle
<1>9. Completes(j) <=> source[j] = "good" /\ r.status # "failed" /\ NeedsFinalize(r)
  BY <1>2, <1>5 DEF Completes
<1> HIDE DEF r
<1>10. CASE source[j] = "bad"
  <2>1. /\ RestoredRecord(j) \in Record(Names) /\ RestoredRecord(j).status = "failed"
        /\ RestoredRecord(j).state = r.state /\ RestoredRecord(j).blob = r.blob
    BY <1>2, <1>4, <1>7, <1>10 DEF Record, Statuses, States
  <2> QED
    BY <1>2, <1>6, <1>8, <1>10, <2>1
<1>11. CASE source[j] # "bad" /\ r.status = "failed" /\ source[j] # "none"
  BY <1>2, <1>3, <1>6, <1>7, <1>8, <1>11
<1>12. CASE source[j] # "bad" /\ r.status # "failed" /\ NeedsFinalize(r)
  <2>1. /\ RestoredRecord(j) \in Record(Names) /\ RestoredRecord(j).status = "downloading"
        /\ RestoredRecord(j).state = r.state /\ RestoredRecord(j).blob = r.blob
    <3>1. RestoredRecord(j) = [r EXCEPT !.status = "downloading", !.user_paused = FALSE]
      BY <1>7, <1>12
    <3> QED
      BY <1>2, <1>4, <3>1 DEF Record, Statuses, States
  <2> QED
    BY <1>2, <1>3, <1>6, <1>8, <1>9, <1>12, <2>1
<1>13. CASE /\ source[j] # "bad" /\ r.status # "failed" /\ ~NeedsFinalize(r)
            /\ r.status = "paused" \/ r.user_paused
  <2>1. /\ RestoredRecord(j) \in Record(Names) /\ RestoredRecord(j).status = "paused"
        /\ RestoredRecord(j).state = r.state /\ RestoredRecord(j).blob = r.blob
        /\ RestoredRecord(j).user_paused
    <3>1. RestoredRecord(j) = [r EXCEPT !.status = "paused", !.user_paused = TRUE]
      BY <1>7, <1>13
    <3> QED
      BY <1>2, <1>4, <3>1 DEF Record, Statuses, States
  <2> QED
    BY <1>2, <1>3, <1>6, <1>8, <1>13, <2>1
<1>14. CASE /\ source[j] # "bad"
            /\ \/ r.status = "failed" /\ source[j] = "none"
               \/ r.status \notin {"failed", "paused"} /\ ~NeedsFinalize(r) /\ ~r.user_paused
  <2>1. /\ RestoredRecord(j) \in Record(Names) /\ RestoredRecord(j).status = "downloading"
        /\ RestoredRecord(j).state = r.state /\ RestoredRecord(j).blob = r.blob
        /\ RestoredRecord(j).user_paused = r.user_paused
    <3>1. RestoredRecord(j) = [r EXCEPT !.status = "downloading"]
      BY <1>7, <1>14
    <3> QED
      BY <1>2, <1>4, <3>1 DEF Record, Statuses, States
  <2> QED
    BY <1>2, <1>3, <1>6, <1>8, <1>14, <2>1
<1> QED
  BY <1>10, <1>11, <1>12, <1>13, <1>14

\* A status, and perhaps the pause, is saved: what becomes of the job.
LEMMA StatusSaved ==
    ASSUME TypeOK, NEW j \in Jobs, NEW s \in Persistable, NEW p \in BOOLEAN,
           \/ Save(j, [rec[j] EXCEPT !.status = s]) /\ p = rec[j].user_paused
           \/ Save(j, [rec[j] EXCEPT !.status = s, !.user_paused = p])
    PROVE  /\ rec'[j].status = s /\ rec'[j].user_paused = p
           /\ rec'[j].state = rec[j].state /\ rec'[j].blob = rec[j].blob
           /\ Saved(disk'[j]) /\ disk'[j].status = s /\ disk'[j].state = rec[j].state
           /\ \A i \in Jobs \ {j} : rec'[i] = rec[i] /\ disk'[i] = disk[i]
<1>1. rec[j] \in Record(Names)
  BY DEF TypeOK
<1>2. PICK r \in {[rec[j] EXCEPT !.status = s], [rec[j] EXCEPT !.status = s, !.user_paused = p]} :
          /\ Save(j, r)
          /\ r \in Record(Names) /\ r.status = s /\ r.user_paused = p
          /\ r.state = rec[j].state /\ r.blob = rec[j].blob
  <2>1. s \in Statuses
    BY DEF Persistable, Statuses
  <2>2. CASE Save(j, [rec[j] EXCEPT !.status = s]) /\ p = rec[j].user_paused
    <3> DEFINE r == [rec[j] EXCEPT !.status = s]
    <3>1. /\ r \in Record(Names) /\ r.status = s /\ r.user_paused = p
          /\ r.state = rec[j].state /\ r.blob = rec[j].blob
      BY <1>1, <2>1, <2>2 DEF Record
    <3> QED
      BY <2>2, <3>1
  <2>3. CASE Save(j, [rec[j] EXCEPT !.status = s, !.user_paused = p])
    <3> DEFINE r == [rec[j] EXCEPT !.status = s, !.user_paused = p]
    <3>1. /\ r \in Record(Names) /\ r.status = s /\ r.user_paused = p
          /\ r.state = rec[j].state /\ r.blob = rec[j].blob
      BY <1>1, <2>1, <2>3 DEF Record
    <3> QED
      BY <2>3, <3>1
  <2> QED
    BY <2>2, <2>3
<1> QED
  BY <1>2, SaveEffect, SavedAs

\* A failed job keeps everything but its status.
LEMMA FailEffect ==
    ASSUME TypeOK, NEW j \in Jobs, Fail(j)
    PROVE  /\ rec'[j].status = "failed" /\ rec'[j].user_paused = rec[j].user_paused
           /\ rec'[j].state = rec[j].state /\ rec'[j].blob = rec[j].blob
           /\ Saved(disk'[j]) /\ disk'[j].status = "failed" /\ disk'[j].state = rec[j].state
           /\ \A i \in Jobs \ {j} : rec'[i] = rec[i] /\ disk'[i] = disk[i]
<1>1. "failed" \in Persistable /\ rec[j].user_paused \in BOOLEAN
  BY DEF Persistable, TypeOK, Record
<1> QED
  BY <1>1, StatusSaved DEF Fail

-----------------------------------------------------------------------------
(* Types.                                                                  *)

\* flush_dirty_jobs keeps the type of the snapshots.
LEMMA FlushType ==
    ASSUME TypeOK
    PROVE  Flushed \in [Jobs -> Snapshot(Names) \cup {NoSnapshot}]
BY SnapshotType DEF TypeOK, Flushed

\* The wipe at the end of cancel keeps the types of what it changes.
LEMMA WipeType ==
    ASSUME TypeOK, NEW j \in Jobs, Wipe(j)
    PROVE  /\ phase' \in [Jobs -> Phases] /\ listed' \in SUBSET Jobs
           /\ disk' \in [Jobs -> Snapshot(Names) \cup {NoSnapshot}]
           /\ blobs' \in [Jobs -> Nat]
<1>1. blobs' \in [Jobs -> Nat]
  <2>1. blobs[j] > 0 => blobs[j] - 1 \in Nat
    BY DEF TypeOK
  <2> QED
    BY <2>1 DEF Wipe, TypeOK
<1> QED
  BY <1>1 DEF Wipe, Drop, TypeOK, Phases

\* So does the end of a process.
LEMMA DieType ==
    ASSUME TypeOK, Die
    PROVE  /\ listed' \in SUBSET Jobs /\ waiting' \in SUBSET Jobs
           /\ handle' \in [Jobs -> {"none", "running", "paused"}]
           /\ fetching' \in SUBSET Jobs /\ finished' \in SUBSET Jobs
           /\ queue' \in Seq(Calls) /\ tasks' \in [Jobs -> Nat]
           /\ worker' \in [Jobs -> WorkerStates]
           /\ rec' = rec /\ blobs' = blobs /\ torn' = torn
           /\ mode' \in {"up", "stopping", "draining", "down"}
BY DEF Die, WorkerStates, stored

\* Failing a job, and the statuses handlers give it, are well typed.
LEMMA SaveTypes ==
    ASSUME TypeOK, NEW j \in Jobs, NEW s \in Statuses, NEW p \in BOOLEAN,
           \/ Save(j, [rec[j] EXCEPT !.status = s])
           \/ Save(j, [rec[j] EXCEPT !.status = s, !.user_paused = p])
           \/ Save(j, rec[j])
           \/ Fail(j)
    PROVE  /\ rec' \in [Jobs -> Record(Names)]
           /\ disk' \in [Jobs -> Snapshot(Names) \cup {NoSnapshot}]
<1>1. rec[j] \in Record(Names) /\ "failed" \in Statuses
  BY DEF TypeOK, Statuses
<1>3. /\ [rec[j] EXCEPT !.status = s] \in Record(Names)
      /\ [rec[j] EXCEPT !.status = "failed"] \in Record(Names)
      /\ [rec[j] EXCEPT !.status = s, !.user_paused = p] \in Record(Names)
  BY <1>1 DEF Record
<1> QED
  BY <1>1, <1>3, SaveEffect DEF Fail

\* So is the queue, whether a call waits, begins or finds nothing to do.
LEMMA CallTypes ==
    ASSUME TypeOK, NEW j \in Jobs, NEW by \in {"poll", "task"}, Call(by, j)
    PROVE  /\ rec' \in [Jobs -> Record(Names)]
           /\ disk' \in [Jobs -> Snapshot(Names) \cup {NoSnapshot}]
           /\ handle' \in [Jobs -> {"none", "running", "paused"}]
           /\ worker' \in [Jobs -> WorkerStates]
           /\ queue' \in Seq(Calls)
<1>1. CASE Begin(j)
  BY <1>1, BeginEffect, CallEffect
<1>2. CASE UNCHANGED <<record, handle, worker>>
  BY <1>2, CallEffect DEF TypeOK, record
<1> QED
  BY <1>1, <1>2, CallEffect

\* Every variable keeps its type over every step.
LEMMA TypeStep == TypeOK /\ [Next]_vars => TypeOK'
<1> SUFFICES ASSUME TypeOK, [Next]_vars
             PROVE  TypeOK'
  OBVIOUS
<1> USE DEF user, record, session, completion, stored, process
<1>0. /\ "queued" \in Statuses /\ "downloading" \in Statuses /\ "paused" \in Statuses
      /\ "failed" \in Statuses /\ "cancelled" \in Statuses /\ "encrypting" \in Statuses
      /\ TRUE \in BOOLEAN /\ FALSE \in BOOLEAN
  BY DEF Statuses
<1>r. \A j \in Jobs : rec[j] \in Record(Names)
  BY DEF TypeOK
<1>1. ASSUME NEW j \in Jobs, Transfer(j)
      PROVE  TypeOK'
  BY <1>1 DEF Transfer, TypeOK
<1>2. ASSUME NEW j \in Jobs, Fetch(j)
      PROVE  TypeOK'
  <2>1. CASE FetchFail(j)
    BY <1>0, <2>1, SaveTypes DEF FetchFail, TypeOK
  <2>2. CASE FetchCancelled(j)
    <3>1. rec' \in [Jobs -> Record(Names)]
      <4>1. CASE rec' = rec
        BY <4>1 DEF TypeOK
      <4>2. CASE rec' # rec
        <5>1. rec' = [rec EXCEPT ![j] = [rec[j] EXCEPT !.status = "cancelled"]]
          BY <2>2, <4>2 DEF FetchCancelled
        <5>2. [rec[j] EXCEPT !.status = "cancelled"] \in Record(Names)
          BY <1>r DEF Record, Statuses
        <5> QED
          BY <5>1, <5>2 DEF TypeOK
      <4> QED
        BY <4>1, <4>2
    <3> QED
      BY <2>2, <3>1 DEF FetchCancelled, TypeOK
  <2>3. ASSUME NEW valid \in BOOLEAN, FetchDone(j, valid)
        PROVE  TypeOK'
    <3>1. /\ rec' \in [Jobs -> Record(Names)]
          /\ disk' \in [Jobs -> Snapshot(Names) \cup {NoSnapshot}]
      BY <1>0, <2>3, SaveTypes DEF FetchDone
    <3> QED
      BY <2>3, <3>1 DEF FetchDone, TypeOK
  <2> QED
    BY <1>2, <2>1, <2>2, <2>3 DEF Fetch
<1>3. ASSUME NEW j \in Jobs, TaskStarts(j)
      PROVE  TypeOK'
  <2>1. tasks' \in [Jobs -> Nat]
    <3>1. tasks[j] - 1 \in Nat
      BY <1>3 DEF TaskStarts, TypeOK
    <3> QED
      BY <1>3, <3>1 DEF TaskStarts, TypeOK
  <2> QED
    BY <1>3, <2>1, CallTypes DEF TaskStarts, TypeOK
<1>4. ASSUME NEW j \in Jobs, Completion(j)
      PROVE  TypeOK'
  <2>1. CASE Packed(j)
    <3>1. [rec[j] EXCEPT !.status = "encrypting", !.state = "encrypting"] \in Record(Names)
      BY <1>r DEF Record, Statuses, States
    <3> QED
      BY <2>1, <3>1, SaveEffect DEF Packed, TypeOK, WorkerStates
  <2>2. CASE Complete(j)
    <3>1. rec' = [rec EXCEPT ![j] = [rec[j] EXCEPT !.status = "completed", !.blob = TRUE]]
      BY <2>2 DEF Complete
    <3>2. [rec[j] EXCEPT !.status = "completed", !.blob = TRUE] \in Record(Names)
      BY <1>r DEF Record, Statuses
    <3>3. queue' \in Seq(Calls)
      BY <2>2, HeadLeaves DEF Complete, Holds
    <3> QED
      BY <2>2, <3>1, <3>2, <3>3 DEF Complete, TypeOK, Drop, WorkerStates
  <2>3. CASE CompleteFails(j)
    <3>1. queue' \in Seq(Calls)
      BY <2>3, HeadLeaves DEF CompleteFails, Holds
    <3> QED
      BY <1>0, <2>3, <3>1, SaveTypes DEF CompleteFails, TypeOK, WorkerStates
  <2> QED
    BY <1>4, <2>1, <2>2, <2>3 DEF Completion
<1>5. ASSUME NEW j \in Jobs, Thread(j)
      PROVE  TypeOK'
  <2>1. CASE ZipDone(j)
    BY <2>1 DEF ZipDone, TypeOK, WorkerStates
  <2>2. CASE Encrypted(j)
    BY <2>2 DEF Encrypted, Land, TypeOK, WorkerStates
  <2>3. CASE ThreadFails(j)
    BY <2>3, TorrentAssumption DEF ThreadFails, Land, TypeOK, WorkerStates
  <2> QED
    BY <1>5, <2>1, <2>2, <2>3 DEF Thread
<1>6. ASSUME NEW j \in Jobs, Request(j)
      PROVE  TypeOK'
  <2>1. CASE AddTorrent(j) \/ AddRefused(j) \/ AddRemote(j)
    <3>1. /\ rec' \in [Jobs -> Record(Names)]
          /\ disk' \in [Jobs -> Snapshot(Names) \cup {NoSnapshot}]
      BY <1>0, <2>1, SaveTypes DEF AddTorrent, AddRefused, AddRemote
    <3> QED
      BY <2>1, <3>1 DEF AddTorrent, AddRefused, AddRemote, TypeOK, Phases
  <2>2. CASE Pause(j) \/ Resume(j)
    <3>1. /\ rec' \in [Jobs -> Record(Names)]
          /\ disk' \in [Jobs -> Snapshot(Names) \cup {NoSnapshot}]
      BY <1>0, <2>2, SaveTypes DEF Pause, Resume
    <3> QED
      BY <2>2, <3>1 DEF Pause, Resume, SetHandle, TypeOK
  <2>3. CASE RetryHandle(j) \/ RetryFetch(j)
    <3>1. rec' \in [Jobs -> Record(Names)]
      BY <2>3, RetryEffect
    <3>2. /\ handle' \in [Jobs -> {"none", "running", "paused"}]
          /\ tasks' \in [Jobs -> Nat] /\ fetching' \in SUBSET Jobs
      <4>1. CASE RetryHandle(j)
        <5>1. /\ \/ handle' = [handle EXCEPT ![j] = IF handle[j] = "none" THEN "none"
                                                   ELSE "running"]
                 \/ handle' = handle
              /\ tasks' = [tasks EXCEPT ![j] = tasks[j] + 1] \/ tasks' = tasks
              /\ fetching' = fetching
          BY <4>1 DEF RetryHandle, SetHandle
        <5>2. /\ handle \in [Jobs -> {"none", "running", "paused"}]
              /\ tasks \in [Jobs -> Nat] /\ fetching \in SUBSET Jobs
          BY DEF TypeOK
        <5>3. handle' \in [Jobs -> {"none", "running", "paused"}]
          BY <5>1, <5>2
        <5>4. tasks' \in [Jobs -> Nat]
          BY <5>1, <5>2
        <5> QED
          BY <5>1, <5>2, <5>3, <5>4
      <4>2. CASE RetryFetch(j)
        BY <4>2 DEF RetryFetch, TypeOK
      <4> QED
        BY <2>3, <4>1, <4>2
    <3>3. UNCHANGED <<user, disk, source, full, finished, queue, worker, stored, process>>
      BY <2>3 DEF RetryHandle, RetryFetch
    <3> QED
      BY <3>1, <3>2, <3>3 DEF TypeOK
  <2>5. CASE Cancel(j)
    <3>1. CASE Registered(j)
      <4>1. /\ phase' = [phase EXCEPT ![j] = "doomed"] /\ waiting' = waiting \cup {j}
            /\ UNCHANGED <<listed, disk, blobs>>
        BY <2>5, <3>1 DEF Cancel
      <4>2. /\ handle' = [handle EXCEPT ![j] = "none"] /\ full' = full \ {j}
            /\ UNCHANGED <<rec, source, fetching, completion, torn, process>>
        BY <2>5 DEF Cancel
      <4> QED
        BY <4>1, <4>2 DEF TypeOK, Phases
    <3>2. CASE ~Registered(j)
      BY <2>5, <3>2, WipeType DEF Cancel, TypeOK
    <3> QED
      BY <3>1, <3>2
  <2>6. CASE CancelFinish(j)
    BY <2>6, WipeType DEF CancelFinish, TypeOK
  <2> QED
    BY <1>6, <2>1, <2>2, <2>3, <2>5, <2>6 DEF Request
<1>7. ASSUME NEW j \in Jobs, PollFails(j)
      PROVE  TypeOK'
  <2>1. /\ rec' \in [Jobs -> Record(Names)]
        /\ disk' \in [Jobs -> Snapshot(Names) \cup {NoSnapshot}]
    BY <1>0, <1>7, SaveTypes DEF PollFails
  <2> QED
    BY <1>7, <2>1, TorrentAssumption DEF PollFails, TypeOK
<1>8. ASSUME NEW j \in Jobs, CrashInComplete(j) \/ CrashInCancel(j)
      PROVE  TypeOK'
  <2>1. Die /\ faults' \in 0..MaxFaults + 1
    BY <1>8, TorrentAssumption DEF CrashInComplete, CrashInCancel, Crashes, TypeOK
  <2>2. /\ phase' \in [Jobs -> Phases]
        /\ disk' \in [Jobs -> Snapshot(Names) \cup {NoSnapshot}]
        /\ source' \in [Jobs -> {"none", "good", "bad"}] /\ full' \in SUBSET Jobs
    BY <1>8 DEF CrashInComplete, CrashInCancel, Drop, TypeOK, Phases
  <2> QED
    BY <2>1, <2>2, DieType DEF TypeOK
<1>9. CASE LockPassed
  <2> DEFINE j == Head(queue).job
  <2>1. queue \in Seq(Calls) /\ queue # <<>> /\ j \in Jobs
    BY <1>9, QueueHead DEF LockPassed, TypeOK, Calls
  <2>2. CASE Begin(j) /\ queue' = [queue EXCEPT ![1].in = TRUE]
    <3>1. queue' \in Seq(Calls)
      BY <2>1, <2>2, QueuePass
    <3> QED
      BY <1>9, <2>1, <2>2, <3>1, BeginEffect DEF LockPassed, TypeOK
  <2>3. CASE queue' = Tail(queue) /\ UNCHANGED <<record, handle, worker>>
    <3>1. queue' \in Seq(Calls)
      BY <2>1, <2>3, QueueHead
    <3> QED
      BY <1>9, <2>3, <3>1 DEF LockPassed, TypeOK
  <2> QED
    BY <1>9, <2>2, <2>3 DEF LockPassed
<1>10. CASE PollLoop
  <2>1. CASE Poll
    <3>1. \A j \in Jobs : [rec[j] EXCEPT !.state = "torrent",
                   !.status = IF rec[j].user_paused THEN "paused" ELSE "downloading"]
                       \in Record(Names)
      BY <1>r DEF Record, Statuses, States
    <3>2. rec' \in [Jobs -> Record(Names)]
      BY <2>1, <3>1 DEF Poll, TypeOK
    <3>3. finished' \in SUBSET Jobs
      BY <2>1 DEF Poll, TypeOK
    <3> QED
      BY <2>1, <3>2, <3>3 DEF Poll, TypeOK
  <2>2. CASE PollNext
    BY <2>2, CallTypes DEF PollNext, TypeOK
  <2>3. CASE Flush
    BY <2>3, FlushType DEF Flush, TypeOK
  <2> QED
    BY <1>10, <2>1, <2>2, <2>3 DEF PollLoop
<1>11. CASE Process
  <2>1. CASE Stop
    BY <2>1, PollLeavesEffect, TorrentAssumption DEF Stop, TypeOK
  <2>2. CASE StopFlush
    BY <2>2, FlushType DEF StopFlush, TypeOK
  <2>3. CASE Exit
    BY <2>3, DieType DEF Exit, TypeOK
  <2>4. CASE Crash
    BY <2>4, DieType, TorrentAssumption DEF Crash, Crashes, TypeOK
  <2>5. CASE Restart
    <3>1. \A j \in Jobs : Saved(disk[j]) =>
             /\ RestoredRecord(j) \in Record(Names)
             /\ ToSnapshot(RestoredRecord(j)) \in Snapshot(Names) \cup {NoSnapshot}
      BY RestoredEffect, SnapshotType
    <3>2. /\ rec' \in [Jobs -> Record(Names)]
          /\ disk' \in [Jobs -> Snapshot(Names) \cup {NoSnapshot}]
      BY <2>5, <3>1 DEF Restart, TypeOK
    <3>3. /\ handle' \in [Jobs -> {"none", "running", "paused"}]
          /\ tasks' \in [Jobs -> Nat]
          /\ listed' \in SUBSET Jobs /\ fetching' \in SUBSET Jobs
      BY <2>5 DEF Restart, RestoredHandle
    <3> QED
      BY <2>5, <3>2, <3>3 DEF Restart, TypeOK
  <2> QED
    BY <1>11, <2>1, <2>2, <2>3, <2>4, <2>5 DEF Process
<1>12. CASE UNCHANGED vars
  BY <1>12 DEF vars, TypeOK
<1>13. ASSUME NEW j \in Jobs, BeginFails(j),
              queue' \in Seq(Calls), tasks' \in [Jobs -> Nat], finished' \in SUBSET Jobs
       PROVE  TypeOK'
  <2>1. faults' \in 0..MaxFaults + 1
    BY <1>13, TorrentAssumption DEF BeginFails, TypeOK
  <2>2. UNCHANGED <<source, full, fetching, worker, user, stored, mode>>
    BY <1>13 DEF BeginFails
  <2>3. /\ rec' \in [Jobs -> Record(Names)]
        /\ disk' \in [Jobs -> Snapshot(Names) \cup {NoSnapshot}]
        /\ handle' \in [Jobs -> {"none", "running", "paused"}]
    BY <1>13, BeginFailsEffect
  <2> QED
    BY <1>13, <2>1, <2>2, <2>3 DEF TypeOK
<1>14. ASSUME NEW j \in Jobs, TaskFails(j)
       PROVE  TypeOK'
  <2>1. tasks[j] - 1 \in Nat
    BY <1>14 DEF TaskFails, TypeOK
  <2> QED
    BY <1>13, <1>14, <2>1 DEF TaskFails, TypeOK
<1>15. ASSUME NEW j \in Jobs, PollNextFails(j)
       PROVE  TypeOK'
  BY <1>13, <1>15 DEF PollNextFails, TypeOK
<1>16. CASE LockFails
  <2>1. queue \in Seq(Calls) /\ queue # <<>> /\ Head(queue).job \in Jobs
    BY <1>16, QueueHead DEF LockFails, TypeOK, Calls
  <2>2. Tail(queue) \in Seq(Calls)
    BY <2>1
  <2> QED
    BY <1>13, <1>16, <2>1, <2>2 DEF LockFails, TypeOK
<1> QED
  BY <1>1, <1>2, <1>3, <1>4, <1>5, <1>6, <1>7, <1>8, <1>9, <1>10, <1>11, <1>12,
     <1>14, <1>15, <1>16 DEF Next

\* Type correctness.
THEOREM TypeCorrect == Spec => []TypeOK
<1>1. Init => TypeOK
  <2> SUFFICES ASSUME Init PROVE TypeOK
    OBVIOUS
  <2>1. NewRecord("torrent") \in Record(Names)
    BY DEF NewRecord, Record, Names, Statuses, States
  <2> QED
    BY <2>1, TorrentAssumption DEF Init, TypeOK, Phases, WorkerStates
<1> QED
  BY <1>1, TypeStep, PTL DEF Spec

-----------------------------------------------------------------------------
(* The invariants of one job.                                              *)

Packs == {"packing", "encrypting"}

\* A job nobody has asked for yet left no trace, a process that is down does
\* nothing, an accepted job is saved until its blob is stored, and what the user
\* paused does not run.
BaseInv(j) ==
    /\ phase[j] = "new" =>
          /\ j \notin listed /\ j \notin waiting /\ j \notin fetching /\ j \notin finished
          /\ ~Saved(disk[j]) /\ rec[j] = NewRecord("torrent")
          /\ handle[j] = "none" /\ worker[j] = "idle" /\ ~Called(j)
          /\ source[j] = "none" /\ blobs[j] = 0 /\ j \notin torn
    /\ mode = "down" =>
          /\ j \notin listed /\ j \notin waiting /\ j \notin fetching
          /\ handle[j] = "none" /\ worker[j] = "idle"
    /\ j \in waiting => phase[j] # "accepted"
    /\ phase[j] = "accepted" => Saved(disk[j]) \/ blobs[j] > 0
    /\ phase[j] = "accepted" /\ worker[j] = "done" => blobs[j] > 0
    /\ source[j] = "none" /\ j \notin Remote => phase[j] = "new"
    /\ j \in fetching => j \in Remote
    /\ rec[j].status = "paused" => rec[j].user_paused
    /\ j \notin Remote /\ handle[j] = "running" => ~rec[j].user_paused

\* How the record, the torrent, its source and the tasks of a job agree.
AgreeInv(j) ==
    /\ worker[j] # "idle" =>
          /\ rec[j].status = "encrypting" /\ handle[j] = "paused" /\ j \in listed
          /\ phase[j] \in {"accepted", "doomed"}
    /\ j \in listed \/ Saved(disk[j]) => phase[j] \in {"accepted", "refused", "doomed"}
    /\ j \in fetching =>
          /\ handle[j] = "none" /\ source[j] = "none"
          /\ rec[j].status \in {"downloading", "paused"} /\ j \in listed \cup waiting
    /\ j \in waiting =>
          /\ handle[j] = "none" /\ rec[j].status \in {"downloading", "paused", "cancelled"}
          /\ phase[j] \in {"doomed", "cancelled"}
    /\ handle[j] # "none" => source[j] = "good"
    /\ phase[j] = "refused" => source[j] = "bad" /\ blobs[j] = 0 /\ j \notin Remote
    /\ rec[j].blob => rec[j].status = "completed"
    /\ rec[j].status = "completed" => ~Saved(disk[j]) /\ handle[j] = "none"
    /\ rec[j].status = "queued" => phase[j] \in {"new", "refused"}

\* What shows as active has something that moves it.
DrivenInv(j) == mode = "up" /\ j \in listed =>
    /\ rec[j].status = "encrypting" => Holds(j)
    /\ j \notin fetching \cup waiting /\ phase[j] # "refused" =>
          /\ rec[j].status \in {"downloading", "paused"} => handle[j] # "none"
          /\ rec[j].status = "downloading" /\ handle[j] = "paused" => j \in full \/ Called(j)

\* Whatever is packed, or will be when a call, a retry or a restart gets to it,
\* is whole.
WholeInv(j) ==
    /\ phase[j] = "accepted" /\ rec[j].status # "completed"
          /\ \/ worker[j] # "idle" \/ Called(j) \/ j \in finished
             \/ rec[j].status = "encrypting" \/ rec[j].state \in Packs
             \/ disk[j].status = "encrypting" \/ disk[j].state \in Packs
       => j \in full
    /\ j \in torn => phase[j] # "accepted"

\* The fault a process that is stopping has counted and not yet had the use of.
Owed == IF mode \in {"stopping", "draining"} THEN 1 ELSE 0

\* A blob is one of the faults, or the one of the completion that is done.
CopiesInv(j) ==
    \/ blobs[j] + Owed <= faults
    \/ /\ blobs[j] + Owed <= 1 + faults
       /\ worker[j] = "done" \/ (rec[j].status = "completed" /\ ~Saved(disk[j]))

JobInv(j) == AgreeInv(j) /\ DrivenInv(j) /\ WholeInv(j) /\ CopiesInv(j)

\* A step is none of j's business.
Same(j) ==
    /\ phase'[j] = phase[j]
    /\ j \in listed' <=> j \in listed
    /\ j \in waiting' <=> j \in waiting
    /\ rec'[j] = rec[j] /\ disk'[j] = disk[j]
    /\ source'[j] = source[j] /\ handle'[j] = handle[j]
    /\ j \in full' <=> j \in full
    /\ j \in fetching' <=> j \in fetching
    /\ j \in finished' => j \in finished
    /\ Called(j)' <=> Called(j)
    /\ Holds(j) => Holds(j)'
    /\ worker'[j] = worker[j]
    /\ blobs'[j] = blobs[j]
    /\ j \in torn' <=> j \in torn

\* Then j keeps its invariants.
LEMMA SameKeeps ==
    ASSUME TypeOK, NEW j \in Jobs, Same(j), mode' = mode,
           faults' \in Nat, faults <= faults', blobs[j] \in Nat, faults \in Nat
    PROVE  /\ BaseInv(j) => BaseInv(j)'
           /\ BaseInv(j) /\ JobInv(j) => JobInv(j)'
<1>1. BaseInv(j) => BaseInv(j)'
  BY DEF Same, BaseInv
<1>2. AgreeInv(j) => AgreeInv(j)'
  BY DEF Same, AgreeInv
<1>4. DrivenInv(j) => DrivenInv(j)'
  BY DEF Same, DrivenInv
<1>5. WholeInv(j) => WholeInv(j)'
  BY DEF Same, WholeInv
<1>6. CopiesInv(j) => CopiesInv(j)'
  BY DEF Same, CopiesInv, Owed
<1> QED
  BY <1>1, <1>2, <1>4, <1>5, <1>6 DEF JobInv

\* The last piece of a torrent.
LEMMA TransferStep ==
    ASSUME TypeOK, NEW j \in Jobs, Transfer(j)
    PROVE  /\ BaseInv(j) => BaseInv(j)'
           /\ BaseInv(j) /\ JobInv(j) => JobInv(j)'
           /\ \A i \in Jobs \ {j} : Same(i)
<1> USE DEF user, record, session, completion, stored, process
<1>1. /\ UNCHANGED <<phase, listed, waiting, rec, disk, source, handle, fetching, finished,
                     queue, tasks, worker, blobs, torn, mode, faults>>
      /\ full' = full \cup {j}
  BY DEF Transfer
<1>2. \A i \in Jobs : (Called(i)' <=> Called(i)) /\ (Holds(i)' <=> Holds(i))
  BY <1>1 DEF Called, Holds
<1>3. BaseInv(j) => BaseInv(j)'
  BY <1>1, <1>2 DEF BaseInv
<1>4. BaseInv(j) /\ JobInv(j) => JobInv(j)'
  BY <1>1, <1>2 DEF JobInv, AgreeInv, DrivenInv, WholeInv, CopiesInv, Owed
<1>5. \A i \in Jobs \ {j} : Same(i)
  BY <1>1, <1>2 DEF Same
<1> QED
  BY <1>3, <1>4, <1>5

\* The end of the fetch of a .torrent file, whichever it is.
LEMMA FetchStep ==
    ASSUME TypeOK, NEW j \in Jobs, Fetch(j)
    PROVE  /\ BaseInv(j) => BaseInv(j)'
           /\ BaseInv(j) /\ JobInv(j) => JobInv(j)'
           /\ \A i \in Jobs \ {j} : Same(i)
<1>a. /\ UNCHANGED <<user, full, completion, stored, process>>
      /\ j \in fetching /\ fetching' = fetching \ {j}
  <2>1. CASE FetchFail(j)
    BY <2>1 DEF FetchFail
  <2>2. CASE FetchCancelled(j)
    <3>1. /\ UNCHANGED <<user, disk, source, handle, full, completion, stored, process>>
          /\ j \in fetching /\ fetching' = fetching \ {j}
      BY <2>2, Zenon DEF FetchCancelled, FetchKilled
    <3> QED
      BY <3>1
  <2>3. ASSUME NEW valid \in BOOLEAN, FetchDone(j, valid)
        PROVE  /\ UNCHANGED <<user, full, completion, stored, process>>
               /\ j \in fetching /\ fetching' = fetching \ {j}
    BY <2>3 DEF FetchDone
  <2> QED
    BY <2>1, <2>2, <2>3 DEF Fetch
<1> USE DEF user, record, session, completion, stored, process
<1>0. /\ UNCHANGED <<phase, listed, waiting, full, finished, queue, tasks, worker,
                     blobs, torn, mode, faults>>
      /\ j \in fetching /\ fetching' = fetching \ {j}
  BY <1>a
<1>1. \A i \in Jobs : (Called(i)' <=> Called(i)) /\ (Holds(i)' <=> Holds(i))
  BY <1>0 DEF Called, Holds
<1>2. ASSUME NEW s \in {"downloading", "failed"}, j \notin waiting,
             Save(j, [rec[j] EXCEPT !.status = s]),
             \/ s = "failed" /\ UNCHANGED <<source, handle>>
             \/ s = "failed" /\ handle' = handle /\ source' = [source EXCEPT ![j] = "bad"]
             \/ /\ s = "downloading" /\ handle' = [handle EXCEPT ![j] = "running"]
                /\ source' = [source EXCEPT ![j] = "good"]
      PROVE  /\ BaseInv(j) => BaseInv(j)'
             /\ BaseInv(j) /\ JobInv(j) => JobInv(j)'
             /\ \A i \in Jobs \ {j} : Same(i)
  <2>1. s \in Persistable /\ rec[j].user_paused \in BOOLEAN
    BY DEF Persistable, TypeOK, Record
  <2>2. /\ rec'[j].status = s /\ rec'[j].user_paused = rec[j].user_paused
        /\ rec'[j].state = rec[j].state /\ rec'[j].blob = rec[j].blob
        /\ Saved(disk'[j]) /\ disk'[j].status = s /\ disk'[j].state = rec[j].state
        /\ \A i \in Jobs \ {j} : rec'[i] = rec[i] /\ disk'[i] = disk[i]
    BY <1>2, <2>1, StatusSaved
  <2>3. /\ \/ s = "failed" /\ handle'[j] = handle[j] /\ source'[j] \in {source[j], "bad"}
           \/ s = "downloading" /\ handle'[j] = "running" /\ source'[j] = "good"
        /\ \A i \in Jobs \ {j} : handle'[i] = handle[i] /\ source'[i] = source[i]
    BY <1>2 DEF TypeOK
  <2>4. BaseInv(j) => BaseInv(j)'
    BY <1>0, <1>1, <1>2, <2>2, <2>3 DEF BaseInv
  <2>5. BaseInv(j) /\ JobInv(j) => JobInv(j)'
    <3> SUFFICES ASSUME BaseInv(j), JobInv(j) PROVE JobInv(j)'
      OBVIOUS
    <3>1. AgreeInv(j)'
      BY <1>0, <1>1, <1>2, <2>2, <2>3 DEF BaseInv, JobInv, AgreeInv
    <3>2. DrivenInv(j)'
      BY <1>0, <1>1, <1>2, <2>2, <2>3 DEF JobInv, AgreeInv, DrivenInv
    <3>3. WholeInv(j)' /\ CopiesInv(j)'
      BY <1>0, <1>1, <1>2, <2>2, <2>3 DEF JobInv, AgreeInv, WholeInv, CopiesInv, Owed
    <3> QED
      BY <3>1, <3>2, <3>3 DEF JobInv
  <2>6. \A i \in Jobs \ {j} : Same(i)
    BY <1>0, <1>1, <2>2, <2>3 DEF Same
  <2> QED
    BY <2>4, <2>5, <2>6
<1>3. CASE FetchFail(j)
  BY <1>2, <1>3 DEF FetchFail, FetchKilled, Fail
<1>4. ASSUME NEW valid \in BOOLEAN, FetchDone(j, valid)
      PROVE  /\ BaseInv(j) => BaseInv(j)'
             /\ BaseInv(j) /\ JobInv(j) => JobInv(j)'
             /\ \A i \in Jobs \ {j} : Same(i)
  BY <1>2, <1>4 DEF FetchDone, FetchKilled, Fail
<1>5. CASE FetchCancelled(j)
  <2>1. /\ UNCHANGED <<disk, source, handle>>
        /\ j \in waiting \/ mode = "stopping"
    BY <1>5 DEF FetchCancelled, FetchKilled
  <2>2. /\ \/ rec'[j] = rec[j]
           \/ /\ rec'[j].status = "cancelled" /\ rec'[j].user_paused = rec[j].user_paused
              /\ rec'[j].state = rec[j].state /\ rec'[j].blob = rec[j].blob /\ mode = "up"
        /\ \A i \in Jobs \ {j} : rec'[i] = rec[i]
    <3>1. CASE rec' = rec
      BY <3>1
    <3>2. CASE rec' # rec
      <4> DEFINE r == [rec[j] EXCEPT !.status = "cancelled"]
      <4>1. rec' = [rec EXCEPT ![j] = r] /\ mode = "up"
        BY <1>5, <3>2 DEF FetchCancelled
      <4>2. rec[j] \in Record(Names)
        BY DEF TypeOK
      <4>3. /\ r \in Record(Names) /\ r.status = "cancelled" /\ r.blob = rec[j].blob
            /\ r.user_paused = rec[j].user_paused /\ r.state = rec[j].state
        BY <4>2 DEF Record, Statuses
      <4> HIDE DEF r
      <4> QED
        BY <4>1, <4>3, SetEffect
    <3> QED
      BY <3>1, <3>2
  <2>3. BaseInv(j) => BaseInv(j)'
    BY <1>0, <1>1, <2>1, <2>2 DEF BaseInv
  <2>4. BaseInv(j) /\ JobInv(j) => JobInv(j)'
    <3> SUFFICES ASSUME BaseInv(j), JobInv(j) PROVE JobInv(j)'
      OBVIOUS
    <3>1. AgreeInv(j)'
      BY <1>0, <1>1, <2>1, <2>2 DEF BaseInv, JobInv, AgreeInv
    <3>2. DrivenInv(j)'
      BY <1>0, <1>1, <2>1, <2>2 DEF JobInv, AgreeInv, DrivenInv
    <3>3. WholeInv(j)' /\ CopiesInv(j)'
      BY <1>0, <1>1, <2>1, <2>2 DEF JobInv, AgreeInv, WholeInv, CopiesInv, Owed
    <3> QED
      BY <3>1, <3>2, <3>3 DEF JobInv
  <2>5. \A i \in Jobs \ {j} : Same(i)
    BY <1>0, <1>1, <2>1, <2>2 DEF Same
  <2> QED
    BY <2>3, <2>4, <2>5
<1> QED
  BY <1>3, <1>4, <1>5 DEF Fetch

\* The thread packs, encrypts or fails.
LEMMA ThreadStep ==
    ASSUME TypeOK, NEW j \in Jobs, Thread(j)
    PROVE  /\ BaseInv(j) => BaseInv(j)'
           /\ BaseInv(j) /\ JobInv(j) => JobInv(j)'
           /\ \A i \in Jobs \ {j} : Same(i)
<1> USE DEF user, record, session, completion, stored, process
<1>0. UNCHANGED <<phase, listed, waiting, rec, disk, source, handle, full, fetching,
                  finished, queue, tasks, mode>>
  BY DEF Thread, ZipDone, Encrypted, ThreadFails
<1>1. \A i \in Jobs : (Called(i)' <=> Called(i)) /\ (Holds(i)' <=> Holds(i))
  BY <1>0 DEF Called, Holds
<1>2. /\ mode # "down" /\ worker[j] \in {"zip", "encrypt"}
      /\ \/ worker'[j] = "zipped" /\ blobs'[j] = blobs[j] /\ (j \in torn' <=> j \in torn)
               /\ faults' = faults
         \/ worker'[j] = "done" /\ blobs'[j] = blobs[j] + 1
               /\ (j \in torn' <=> j \in torn \/ j \notin full) /\ faults' = faults
         \/ worker'[j] = "error" /\ blobs'[j] = blobs[j] /\ (j \in torn' <=> j \in torn)
               /\ faults' = faults + 1
         \/ worker'[j] = "error" /\ blobs'[j] = blobs[j] + 1
               /\ (j \in torn' <=> j \in torn \/ j \notin full) /\ faults' = faults + 1
      /\ \A i \in Jobs \ {j} : /\ worker'[i] = worker[i] /\ blobs'[i] = blobs[i]
                               /\ (i \in torn' <=> i \in torn)
  <2>1. CASE ZipDone(j)
    BY <2>1 DEF ZipDone, TypeOK
  <2>2. CASE Encrypted(j)
    BY <2>2 DEF Encrypted, Land, TypeOK
  <2>3. CASE ThreadFails(j)
    BY <2>3 DEF ThreadFails, Land, Busy, TypeOK
  <2> QED
    BY <2>1, <2>2, <2>3 DEF Thread
<1>3. blobs[j] \in Nat /\ faults \in Nat
  BY TorrentAssumption DEF TypeOK
<1>4. BaseInv(j) => BaseInv(j)'
  BY <1>0, <1>1, <1>2, <1>3 DEF BaseInv
<1>5. BaseInv(j) /\ JobInv(j) => JobInv(j)'
  <2> SUFFICES ASSUME BaseInv(j), JobInv(j) PROVE JobInv(j)'
    OBVIOUS
  <2>1. AgreeInv(j)'
    BY <1>0, <1>1, <1>2, <1>3 DEF BaseInv, JobInv, AgreeInv
  <2>2. DrivenInv(j)'
    BY <1>0, <1>1, <1>2 DEF JobInv, AgreeInv, DrivenInv
  <2>3. WholeInv(j)'
    BY <1>0, <1>1, <1>2 DEF JobInv, AgreeInv, WholeInv
  <2>4. worker[j] # "done" /\ rec[j].status # "completed"
    BY <1>2 DEF JobInv, AgreeInv
  <2>5. CopiesInv(j)'
    BY <1>0, <1>2, <1>3, <2>4 DEF JobInv, CopiesInv, Owed
  <2> QED
    BY <2>1, <2>2, <2>3, <2>5 DEF JobInv
<1>6. \A i \in Jobs \ {j} : Same(i)
  BY <1>0, <1>1, <1>2 DEF Same
<1> QED
  BY <1>4, <1>5, <1>6

\* A call that is past the lock and finds the job complete and at rest begins.
LEMMA BeginStep ==
    ASSUME TypeOK, NEW j \in Jobs, Begin(j), Completable(j),
           Called(j) \/ j \in finished, mode # "down",
           Called(j)', Holds(j)', j \in finished' => j \in finished,
           UNCHANGED <<user, source, full, fetching, stored, process>>
    PROVE  /\ BaseInv(j) => BaseInv(j)'
           /\ BaseInv(j) /\ JobInv(j) => JobInv(j)'
<1> USE DEF user, record, session, completion, stored, process
<1>1. /\ j \in listed /\ handle[j] # "none" /\ rec[j].status \notin {"encrypting", "completed"}
  BY DEF Completable
<1>2. /\ rec'[j].status = "encrypting" /\ rec'[j].state \in {"packing", "encrypting"}
      /\ rec'[j].user_paused = rec[j].user_paused /\ rec'[j].blob = rec[j].blob
      /\ Saved(disk'[j]) /\ handle'[j] = "paused" /\ worker'[j] \in {"zip", "encrypt"}
  BY BeginEffect
<1>3. BaseInv(j) => BaseInv(j)'
  BY <1>1, <1>2 DEF BaseInv
<1>4. ASSUME BaseInv(j), JobInv(j)
      PROVE  JobInv(j)'
  <2>1. /\ worker[j] = "idle" /\ j \notin fetching /\ j \notin waiting
        /\ phase[j] \in {"accepted", "doomed"} /\ source[j] = "good"
    BY <1>1, <1>4 DEF JobInv, AgreeInv
  <2>2. AgreeInv(j)'
    BY <1>1, <1>2, <1>4, <2>1 DEF JobInv, AgreeInv
  <2>3. DrivenInv(j)'
    BY <1>1, <1>2, <1>4 DEF JobInv, DrivenInv
  <2>4. WholeInv(j)'
    BY <1>1, <1>4 DEF JobInv, WholeInv
  <2>5. CopiesInv(j)'
    BY <1>1, <1>4, <2>1 DEF JobInv, CopiesInv, Owed
  <2> QED
    BY <2>2, <2>3, <2>4, <2>5 DEF JobInv
<1> QED
  BY <1>3, <1>4

\* A call that waits, or that finds nothing to do, changes nothing of the job.
LEMMA CallStep ==
    ASSUME TypeOK, NEW j \in Jobs, Called(j) \/ j \in finished,
           Called(j)' \/ ~Completable(j), Holds(j) => Holds(j)',
           j \in finished' => j \in finished,
           UNCHANGED <<record, handle, worker>>,
           UNCHANGED <<user, source, full, fetching, stored, process>>
    PROVE  /\ BaseInv(j) => BaseInv(j)'
           /\ BaseInv(j) /\ JobInv(j) => JobInv(j)'
<1> USE DEF user, record, session, completion, stored, process
<1>1. BaseInv(j) => BaseInv(j)'
  BY DEF BaseInv
<1>2. ASSUME BaseInv(j), JobInv(j)
      PROVE  JobInv(j)'
  <2>1. AgreeInv(j)'
    BY <1>2 DEF JobInv, AgreeInv
  <2>2. DrivenInv(j)'
    BY <1>2 DEF JobInv, DrivenInv, Completable
  <2>3. WholeInv(j)' /\ CopiesInv(j)'
    BY <1>2 DEF JobInv, WholeInv, CopiesInv, Owed
  <2> QED
    BY <2>1, <2>2, <2>3 DEF JobInv
<1> QED
  BY <1>1, <1>2

\* A call from a task, or from the poll loop.
LEMMA CallsStep ==
    ASSUME TypeOK, NEW j \in Jobs, NEW by \in {"poll", "task"}, Call(by, j), mode # "down",
           \/ tasks[j] > 0 /\ tasks' = [tasks EXCEPT ![j] = @ - 1] /\ finished' = finished
           \/ j \in finished /\ finished' = finished \ {j} /\ tasks' = tasks,
           UNCHANGED <<user, source, full, fetching, stored, process>>
    PROVE  /\ BaseInv(j) => BaseInv(j)'
           /\ BaseInv(j) /\ JobInv(j) => JobInv(j)'
           /\ \A i \in Jobs \ {j} : Same(i)
<1>1. /\ Called(j) \/ j \in finished
      /\ \A i \in Jobs : i \in finished' => i \in finished
      /\ \A i \in Jobs \ {j} : tasks'[i] = tasks[i]
  BY DEF TypeOK, Called
<1>2. \A i \in Jobs : /\ Called(i) <=> tasks[i] > 0 \/ InQueue(i)
                      /\ Called(i)' <=> tasks'[i] > 0 \/ InQueue(i)'
  BY DEF Called, InQueue, Among
<1>3. /\ \A i \in Jobs \ {j} : (InQueue(i)' <=> InQueue(i)) /\ (Holds(i) => Holds(i)')
      /\ \/ /\ UNCHANGED <<record, handle, worker>>
            /\ ~Completable(j) /\ ~Holds(j)
         \/ /\ UNCHANGED <<record, handle, worker>>
            /\ InQueue(j)' /\ (Holds(j) => Holds(j)')
         \/ /\ Begin(j) /\ Completable(j)
            /\ InQueue(j)' /\ Holds(j)'
  BY CallEffect
<1>4. \A i \in Jobs \ {j} : /\ rec'[i] = rec[i] /\ disk'[i] = disk[i]
                            /\ handle'[i] = handle[i] /\ worker'[i] = worker[i]
  BY <1>3, BeginEffect DEF record
<1>5. (BaseInv(j) => BaseInv(j)') /\ (BaseInv(j) /\ JobInv(j) => JobInv(j)')
  <2>1. CASE UNCHANGED <<record, handle, worker>>
    BY <1>1, <1>2, <1>3, <2>1, BeginStep, CallStep
  <2>2. CASE Begin(j) /\ Completable(j) /\ InQueue(j)' /\ Holds(j)'
    BY <1>1, <1>2, <2>2, BeginStep
  <2> QED
    BY <1>3, <2>1, <2>2
<1>6. \A i \in Jobs \ {j} : Same(i)
  BY <1>1, <1>2, <1>3, <1>4 DEF Same, user, stored
<1> QED
  BY <1>5, <1>6

\* The first call of the queue passes the lock, or leaves.
LEMMA LockPassedStep ==
    ASSUME TypeOK, LockPassed
    PROVE  \E j \in Jobs : /\ BaseInv(j) => BaseInv(j)'
                           /\ BaseInv(j) /\ JobInv(j) => JobInv(j)'
                           /\ \A i \in Jobs \ {j} : Same(i)
<1>1. /\ queue \in Seq(Calls) /\ queue # <<>> /\ ~Head(queue).in
      /\ Head(queue).job \in Jobs
  BY QueueHead DEF LockPassed, TypeOK, Calls
<1>j. PICK j \in Jobs : j = Head(queue).job
  BY <1>1
<1>7. \/ Begin(j) /\ Completable(j) /\ queue' = [queue EXCEPT ![1].in = TRUE]
      \/ ~Completable(j) /\ queue' = Tail(queue) /\ UNCHANGED <<record, handle, worker>>
  BY <1>j DEF LockPassed
<1>2. /\ UNCHANGED <<user, source, full, fetching, stored, process>>
      /\ finished' = finished /\ tasks' = tasks /\ mode # "down"
  BY DEF LockPassed, Running
<1>3. \A i \in Jobs : /\ Called(i) <=> tasks[i] > 0 \/ InQueue(i)
                      /\ Called(i)' <=> tasks'[i] > 0 \/ InQueue(i)'
                      /\ ~Holds(i)
  BY <1>1 DEF Called, InQueue, Among, Holds
<1>4. InQueue(j)
  <2>1. 1 \in DOMAIN queue /\ queue[1].job = j
    BY <1>1, <1>j, QueueHead
  <2> QED
    BY <2>1 DEF InQueue, Among
<1>5. CASE Begin(j) /\ Completable(j) /\ queue' = [queue EXCEPT ![1].in = TRUE]
  <2>1. /\ \A i : InQueue(i)' <=> InQueue(i)
        /\ Holds(j)'
    BY <1>1, <1>j, <1>5, QueuePass DEF InQueue, Holds
  <2>2. (BaseInv(j) => BaseInv(j)') /\ (BaseInv(j) /\ JobInv(j) => JobInv(j)')
    BY <1>1, <1>j, <1>2, <1>3, <1>4, <1>5, <2>1, BeginStep
  <2>3. \A i \in Jobs \ {j} : /\ rec'[i] = rec[i] /\ disk'[i] = disk[i]
                              /\ handle'[i] = handle[i] /\ worker'[i] = worker[i]
    BY <1>1, <1>j, <1>5, BeginEffect
  <2>4. \A i \in Jobs \ {j} : Same(i)
    BY <1>2, <1>3, <2>1, <2>3 DEF Same, user, stored
  <2> QED
    BY <1>1, <1>j, <2>2, <2>4
<1>6. CASE ~Completable(j) /\ queue' = Tail(queue) /\ UNCHANGED <<record, handle, worker>>
  <2>1. \A i \in Jobs \ {j} : InQueue(i)' <=> InQueue(i)
    BY <1>1, <1>j, <1>6, HeadLeaves
  <2>2. (BaseInv(j) => BaseInv(j)') /\ (BaseInv(j) /\ JobInv(j) => JobInv(j)')
    BY <1>1, <1>j, <1>2, <1>3, <1>4, <1>6, CallStep
  <2>3. \A i \in Jobs \ {j} : Same(i)
    BY <1>2, <1>3, <1>6, <2>1 DEF Same, user, stored, record
  <2> QED
    BY <1>1, <1>j, <2>2, <2>3
<1> QED
  BY <1>5, <1>6, <1>7

\* One that fails before its first await leaves the job failed, and at rest.
LEMMA BeginFailsStep ==
    ASSUME TypeOK, NEW j \in Jobs, BeginFails(j), Completable(j),
           Called(j) \/ j \in finished, mode # "down",
           \A i \in Jobs : i \in finished' => i \in finished,
           \A i \in Jobs \ {j} : (Called(i)' <=> Called(i)) /\ (Holds(i) => Holds(i)')
    PROVE  /\ BaseInv(j) => BaseInv(j)'
           /\ BaseInv(j) /\ JobInv(j) => JobInv(j)'
           /\ \A i \in Jobs \ {j} : Same(i)
<1>1. /\ j \in listed /\ handle[j] # "none" /\ rec[j].status \notin {"encrypting", "completed"}
  BY DEF Completable
<1>2. /\ rec'[j].status = "failed" /\ rec'[j].user_paused = rec[j].user_paused
      /\ rec'[j].blob = rec[j].blob
      /\ Saved(disk'[j]) /\ disk'[j].status = "failed"
      /\ handle'[j] \in {handle[j], "paused"}
      /\ \A i \in Jobs \ {j} : /\ rec'[i] = rec[i] /\ disk'[i] = disk[i]
                               /\ handle'[i] = handle[i]
  BY BeginFailsEffect
<1>3. /\ UNCHANGED <<phase, listed, waiting, source, full, fetching, worker, blobs, torn, mode>>
      /\ faults' = faults + 1
  BY DEF BeginFails, user, stored
<1>4. faults \in Nat /\ blobs[j] \in Nat
  BY TorrentAssumption DEF TypeOK
<1>5. BaseInv(j) => BaseInv(j)'
  BY <1>1, <1>2, <1>3 DEF BaseInv
<1>6. ASSUME BaseInv(j), JobInv(j)
      PROVE  JobInv(j)'
  <2>1. /\ worker[j] = "idle" /\ j \notin fetching /\ j \notin waiting
        /\ phase[j] \in {"accepted", "doomed"} /\ source[j] = "good"
    BY <1>1, <1>6 DEF JobInv, AgreeInv
  <2>2. AgreeInv(j)'
    BY <1>1, <1>2, <1>3, <1>6, <2>1 DEF JobInv, AgreeInv
  <2>3. DrivenInv(j)'
    BY <1>2 DEF DrivenInv
  <2>4. WholeInv(j)'
    BY <1>1, <1>3, <1>6 DEF JobInv, WholeInv
  <2>5. CopiesInv(j)'
    BY <1>1, <1>3, <1>4, <1>6, <2>1 DEF JobInv, CopiesInv, Owed
  <2> QED
    BY <2>2, <2>3, <2>4, <2>5 DEF JobInv
<1>7. \A i \in Jobs \ {j} : Same(i)
  BY <1>2, <1>3 DEF Same
<1> QED
  BY <1>5, <1>6, <1>7

\* That is so for a call of a task, of the poll loop, and behind the lock.
LEMMA FailedCallStep ==
    ASSUME TypeOK, NEW j \in Jobs,
           \/ TaskFails(j)
           \/ PollNextFails(j)
           \/ LockFails /\ Head(queue).job = j
    PROVE  /\ BaseInv(j) => BaseInv(j)'
           /\ BaseInv(j) /\ JobInv(j) => JobInv(j)'
           /\ \A i \in Jobs \ {j} : Same(i)
<1>1. \A i \in Jobs : /\ Called(i) <=> tasks[i] > 0 \/ InQueue(i)
                      /\ Called(i)' <=> tasks'[i] > 0 \/ InQueue(i)'
  BY DEF Called, InQueue, Among
<1>2. CASE TaskFails(j)
  <2>1. /\ BeginFails(j) /\ Completable(j) /\ mode # "down" /\ tasks[j] > 0
        /\ UNCHANGED <<finished, queue>> /\ \A i \in Jobs \ {j} : tasks'[i] = tasks[i]
    BY <1>2 DEF TaskFails, Running, TypeOK
  <2>2. \A i \in Jobs \ {j} : (InQueue(i)' <=> InQueue(i)) /\ (Holds(i) => Holds(i)')
    BY <2>1 DEF InQueue, Holds
  <2> QED
    BY <1>1, <2>1, <2>2, BeginFailsStep
<1>3. CASE PollNextFails(j)
  <2>1. /\ BeginFails(j) /\ Completable(j) /\ mode # "down" /\ j \in finished
        /\ finished' = finished \ {j} /\ UNCHANGED <<queue, tasks>>
    BY <1>3 DEF PollNextFails
  <2>2. \A i \in Jobs \ {j} : (InQueue(i)' <=> InQueue(i)) /\ (Holds(i) => Holds(i)')
    BY <2>1 DEF InQueue, Holds
  <2> QED
    BY <1>1, <2>1, <2>2, BeginFailsStep
<1>4. CASE LockFails /\ Head(queue).job = j
  <2>1. /\ queue \in Seq(Calls) /\ queue # <<>> /\ Head(queue).job = j
        /\ BeginFails(j) /\ Completable(j) /\ mode # "down"
        /\ queue' = Tail(queue) /\ UNCHANGED <<finished, tasks>>
    BY <1>4 DEF LockFails, Running, TypeOK
  <2>2. \A i \in Jobs \ {j} : (InQueue(i)' <=> InQueue(i)) /\ (Holds(i) => Holds(i)')
    BY <2>1, HeadLeaves
  <2>3. InQueue(j)
    <3>1. 1 \in DOMAIN queue /\ queue[1].job = j
      BY <2>1, QueueHead
    <3> QED
      BY <3>1 DEF InQueue, Among
  <2> QED
    BY <1>1, <2>1, <2>2, <2>3, BeginFailsStep
<1> QED
  BY <1>2, <1>3, <1>4

\* The archive is ready, or packing or encryption failed: a status is saved.
LEMMA CompletionSaves ==
    ASSUME TypeOK, NEW j \in Jobs, Packed(j) \/ CompleteFails(j)
    PROVE  /\ BaseInv(j) => BaseInv(j)'
           /\ BaseInv(j) /\ JobInv(j) => JobInv(j)'
           /\ \A i \in Jobs \ {j} : Same(i)
<1> USE DEF user, record, session, completion, stored, process
<1>1. /\ UNCHANGED <<phase, listed, waiting, source, handle, full, fetching, finished, tasks,
                     blobs, torn, mode, faults>>
      /\ Holds(j) /\ worker[j] \in {"zipped", "error"} /\ mode # "down"
  BY DEF Packed, CompleteFails, Running
<1>2. /\ \/ /\ worker'[j] = "encrypt" /\ Holds(j)' /\ queue' = queue
            /\ rec'[j].status = "encrypting" /\ rec'[j].state = "encrypting"
         \/ /\ worker'[j] = "idle" /\ queue' = Tail(queue)
            /\ rec'[j].status = "failed" /\ rec'[j].state = rec[j].state
      /\ rec'[j].user_paused = rec[j].user_paused /\ rec'[j].blob = rec[j].blob
      /\ Saved(disk'[j])
      /\ disk'[j].status = rec'[j].status /\ disk'[j].state = rec'[j].state
      /\ \A i \in Jobs \ {j} : rec'[i] = rec[i] /\ disk'[i] = disk[i]
  <2>1. CASE Packed(j)
    <3> DEFINE r == [rec[j] EXCEPT !.status = "encrypting", !.state = "encrypting"]
    <3>1. rec[j] \in Record(Names)
      BY DEF TypeOK
    <3>2. /\ r \in Record(Names) /\ r.status = "encrypting" /\ r.state = "encrypting"
          /\ r.user_paused = rec[j].user_paused /\ r.blob = rec[j].blob
      BY <3>1 DEF Record, Statuses, States
    <3>3. Save(j, r) /\ worker' = [worker EXCEPT ![j] = "encrypt"] /\ queue' = queue
      BY <2>1 DEF Packed
    <3>4. worker'[j] = "encrypt" /\ Holds(j)'
      BY <1>1, <3>3 DEF TypeOK, Holds
    <3>5. r.status \in Persistable
      BY <3>2 DEF Persistable
    <3> HIDE DEF r
    <3> QED
      BY <3>2, <3>3, <3>4, <3>5, SaveEffect, SavedAs
  <2>2. CASE CompleteFails(j)
    BY <2>2, FailEffect DEF CompleteFails, TypeOK
  <2> QED
    BY <2>1, <2>2
<1>3. \A i \in Jobs \ {j} : worker'[i] = worker[i]
  BY DEF Packed, CompleteFails, TypeOK
<1>4. \A i \in Jobs \ {j} : (InQueue(i)' <=> InQueue(i)) /\ (Holds(i) => Holds(i)')
  BY <1>1, <1>2, HeadLeaves DEF Holds, InQueue
<1>5. /\ InQueue(j)' => InQueue(j)
      /\ \A i \in Jobs : /\ Called(i) <=> tasks[i] > 0 \/ InQueue(i)
                         /\ Called(i)' <=> tasks'[i] > 0 \/ InQueue(i)'
  <2>1. queue' = queue \/ queue' = Tail(queue)
    BY <1>2
  <2>2. InQueue(j)' => InQueue(j)
    BY <1>1, <2>1, HeadLeaves DEF Holds, InQueue
  <2> QED
    BY <2>2 DEF Called, InQueue, Among
<1>6. BaseInv(j) => BaseInv(j)'
  BY <1>1, <1>2, <1>5 DEF BaseInv
<1>7. ASSUME BaseInv(j), JobInv(j)
      PROVE  JobInv(j)'
  <2>1. AgreeInv(j)'
    BY <1>1, <1>2, <1>7 DEF JobInv, AgreeInv
  <2>2. DrivenInv(j)'
    BY <1>1, <1>2, <1>7 DEF JobInv, AgreeInv, DrivenInv
  <2>3. WholeInv(j)' /\ CopiesInv(j)'
    BY <1>1, <1>2, <1>5, <1>7 DEF JobInv, AgreeInv, WholeInv, CopiesInv, Owed
  <2> QED
    BY <2>1, <2>2, <2>3 DEF JobInv
<1>8. \A i \in Jobs \ {j} : Same(i)
  BY <1>1, <1>2, <1>3, <1>4, <1>5 DEF Same
<1> QED
  BY <1>6, <1>7, <1>8

\* The job is completed.
LEMMA CompleteStep ==
    ASSUME TypeOK, NEW j \in Jobs, Complete(j)
    PROVE  /\ BaseInv(j) => BaseInv(j)'
           /\ BaseInv(j) /\ JobInv(j) => JobInv(j)'
           /\ \A i \in Jobs \ {j} : Same(i)
<1> USE DEF user, record, session, completion, stored, process
<1>1. /\ UNCHANGED <<phase, listed, waiting, source, fetching, finished, tasks,
                     blobs, torn, mode, faults>>
      /\ Holds(j) /\ worker[j] = "done" /\ mode # "down" /\ queue' = Tail(queue)
  BY DEF Complete, Running
<1>2. /\ rec'[j].status = "completed"
      /\ rec'[j].user_paused = rec[j].user_paused
      /\ \A i \in Jobs \ {j} : rec'[i] = rec[i]
  <2> DEFINE r == [rec[j] EXCEPT !.status = "completed", !.blob = TRUE]
  <2>1. rec[j] \in Record(Names)
    BY DEF TypeOK
  <2>2. /\ r \in Record(Names) /\ r.status = "completed"
        /\ r.user_paused = rec[j].user_paused
    BY <2>1 DEF Record, Statuses
  <2>3. rec' = [rec EXCEPT ![j] = r]
    BY DEF Complete
  <2> HIDE DEF r
  <2> QED
    BY <2>2, <2>3, SetEffect
<1>3. /\ worker'[j] = "idle" /\ disk'[j] = NoSnapshot /\ handle'[j] = "none" /\ j \notin full'
      /\ \A i \in Jobs \ {j} : /\ worker'[i] = worker[i] /\ disk'[i] = disk[i]
                               /\ handle'[i] = handle[i] /\ (i \in full' <=> i \in full)
  <2>1. /\ worker' = [worker EXCEPT ![j] = "idle"] /\ disk' = [disk EXCEPT ![j] = NoSnapshot]
        /\ handle' = [handle EXCEPT ![j] = "none"] /\ full' = full \ {j}
    BY DEF Complete, Drop
  <2> QED
    BY <2>1 DEF TypeOK
<1>4. ~Saved(disk'[j]) /\ disk'[j].status = "absent" /\ disk'[j].state = "none"
  BY <1>3 DEF Saved, NoSnapshot
<1>5. \A i \in Jobs \ {j} : (InQueue(i)' <=> InQueue(i)) /\ (Holds(i) => Holds(i)')
  BY <1>1, HeadLeaves DEF Holds
<1>6. \A i \in Jobs : /\ Called(i) <=> tasks[i] > 0 \/ InQueue(i)
                      /\ Called(i)' <=> tasks'[i] > 0 \/ InQueue(i)'
  BY DEF Called, InQueue, Among
<1>7. BaseInv(j) => BaseInv(j)'
  BY <1>1, <1>2, <1>3 DEF BaseInv
<1>8. ASSUME BaseInv(j), JobInv(j)
      PROVE  JobInv(j)'
  <2>1. AgreeInv(j)'
    BY <1>1, <1>2, <1>3, <1>4, <1>8 DEF JobInv, AgreeInv
  <2>2. DrivenInv(j)'
    BY <1>1, <1>2, <1>3, <1>8 DEF JobInv, AgreeInv, DrivenInv
  <2>3. WholeInv(j)' /\ CopiesInv(j)'
    BY <1>1, <1>2, <1>4, <1>8 DEF JobInv, AgreeInv, WholeInv, CopiesInv, Owed
  <2> QED
    BY <2>1, <2>2, <2>3 DEF JobInv
<1>9. \A i \in Jobs \ {j} : Same(i)
  BY <1>1, <1>2, <1>3, <1>5, <1>6 DEF Same
<1> QED
  BY <1>7, <1>8, <1>9

\* A torrent, a refused torrent or a link is added.
LEMMA AddStep ==
    ASSUME TypeOK, NEW j \in Jobs, AddTorrent(j) \/ AddRefused(j) \/ AddRemote(j)
    PROVE  /\ BaseInv(j) => BaseInv(j)'
           /\ BaseInv(j) /\ JobInv(j) => JobInv(j)'
           /\ \A i \in Jobs \ {j} : Same(i)
<1> USE DEF user, record, session, completion, stored, process
<1>1. /\ UNCHANGED <<waiting, full, finished, queue, tasks, worker, blobs, torn, mode, faults>>
      /\ mode = "up" /\ phase[j] = "new" /\ listed' = listed \cup {j}
  BY DEF AddTorrent, AddRefused, AddRemote, Up
<1>2. \A i \in Jobs : (Called(i)' <=> Called(i)) /\ (Holds(i)' <=> Holds(i))
  BY <1>1 DEF Called, Holds
<1>3. /\ \/ /\ phase'[j] = "accepted" /\ j \notin Remote
            /\ source'[j] = "good" /\ handle'[j] = "running" /\ fetching' = fetching
         \/ /\ phase'[j] = "refused" /\ j \notin Remote
            /\ source'[j] = "bad" /\ handle' = handle /\ fetching' = fetching
         \/ /\ phase'[j] = "accepted" /\ j \in Remote
            /\ source' = source /\ handle' = handle /\ fetching' = fetching \cup {j}
      /\ \A i \in Jobs \ {j} : /\ phase'[i] = phase[i] /\ source'[i] = source[i]
                               /\ handle'[i] = handle[i]
                               /\ (i \in fetching' <=> i \in fetching)
                               /\ (i \in listed' <=> i \in listed)
  BY DEF AddTorrent, AddRefused, AddRemote, TypeOK
<1>4. /\ rec'[j].user_paused = rec[j].user_paused
      /\ rec'[j].state = rec[j].state /\ rec'[j].blob = rec[j].blob
      /\ phase'[j] = "accepted" => rec'[j].status = "downloading"
      /\ phase'[j] = "refused" => rec'[j].status = rec[j].status
      /\ disk'[j] = ToSnapshot(rec'[j])
      /\ \A i \in Jobs \ {j} : rec'[i] = rec[i] /\ disk'[i] = disk[i]
  <2>1. PICK r \in {rec[j], [rec[j] EXCEPT !.status = "downloading"]} :
           /\ Save(j, r)
           /\ phase'[j] = "accepted" => r = [rec[j] EXCEPT !.status = "downloading"]
           /\ phase'[j] = "refused" => r = rec[j]
    <3>1. CASE AddRefused(j)
      BY <3>1 DEF AddRefused, TypeOK
    <3>2. CASE AddTorrent(j) \/ AddRemote(j)
      BY <3>2 DEF AddTorrent, AddRemote, TypeOK
    <3> QED
      BY <3>1, <3>2
  <2>2. rec[j] \in Record(Names)
    BY DEF TypeOK
  <2>3. /\ r \in Record(Names) /\ r.user_paused = rec[j].user_paused
        /\ r.state = rec[j].state /\ r.blob = rec[j].blob
        /\ phase'[j] = "accepted" => r.status = "downloading"
        /\ phase'[j] = "refused" => r.status = rec[j].status
    BY <2>1, <2>2 DEF Record, Statuses
  <2> QED
    BY <2>1, <2>3, SaveEffect
<1>5. ASSUME BaseInv(j)
      PROVE  /\ rec[j].status = "queued" /\ rec[j].state = "none"
             /\ ~rec[j].user_paused /\ ~rec[j].blob
             /\ j \notin listed /\ j \notin waiting /\ j \notin fetching /\ j \notin finished
             /\ handle[j] = "none" /\ worker[j] = "idle" /\ ~Called(j)
             /\ source[j] = "none" /\ blobs[j] = 0 /\ j \notin torn /\ ~Saved(disk[j])
  BY <1>1, <1>5 DEF BaseInv, NewRecord
<1>6. ASSUME BaseInv(j)
      PROVE  Saved(disk'[j]) /\ disk'[j].status # "encrypting" /\ disk'[j].state = "none"
  <2>1. rec'[j].status \in Persistable
    BY <1>3, <1>4, <1>5, <1>6 DEF Persistable
  <2> QED
    BY <1>3, <1>4, <1>5, <1>6, <2>1, SavedAs
<1>7. BaseInv(j) => BaseInv(j)'
  BY <1>1, <1>3, <1>4, <1>5, <1>6 DEF BaseInv
<1>8. ASSUME BaseInv(j), JobInv(j)
      PROVE  JobInv(j)'
  <2>1. faults \in Nat
    BY TorrentAssumption DEF TypeOK
  <2>2. source'[j] = "none" => j \in Remote
    BY <1>3
  <2>3. AgreeInv(j)'
    BY <1>1, <1>3, <1>4, <1>5, <1>6, <1>8, <2>2 DEF JobInv, AgreeInv
  <2>4. DrivenInv(j)'
    BY <1>1, <1>3, <1>4, <1>5, <1>8 DEF DrivenInv
  <2>5. WholeInv(j)' /\ CopiesInv(j)'
    BY <1>1, <1>2, <1>3, <1>4, <1>5, <1>6, <1>8, <2>1
    DEF JobInv, WholeInv, CopiesInv, Owed, Packs
  <2> QED
    BY <2>3, <2>4, <2>5 DEF JobInv
<1>9. \A i \in Jobs \ {j} : Same(i)
  BY <1>1, <1>2, <1>3, <1>4 DEF Same
<1> QED
  BY <1>7, <1>8, <1>9

\* The web UI offers Resume for a paused job only.
OfferedOnly == ~StaleClicks

\* Pause and Resume.
LEMMA PauseStep ==
    ASSUME TypeOK, NEW j \in Jobs, Pause(j) \/ Resume(j)
    PROVE  /\ BaseInv(j) => BaseInv(j)'
           /\ OfferedOnly /\ BaseInv(j) /\ JobInv(j) => JobInv(j)'
           /\ \A i \in Jobs \ {j} : Same(i)
<1> USE DEF user, record, session, completion, stored, process
<1>1. /\ UNCHANGED <<phase, listed, waiting, source, full, fetching, finished, queue, tasks,
                     worker, blobs, torn, mode, faults>>
      /\ mode = "up" /\ j \in listed
  BY DEF Pause, Resume, Up
<1>2. \A i \in Jobs : (Called(i)' <=> Called(i)) /\ (Holds(i)' <=> Holds(i))
  BY <1>1 DEF Called, Holds
<1>3. /\ \/ /\ rec'[j].status = "paused" /\ rec'[j].user_paused
            /\ handle'[j] = IF handle[j] = "none" THEN "none" ELSE "paused"
            /\ rec[j].status \in {"queued", "downloading"}
         \/ /\ rec'[j].status = "downloading" /\ ~rec'[j].user_paused
            /\ handle'[j] = IF handle[j] = "none" THEN "none" ELSE "running"
            /\ OfferedOnly => rec[j].status = "paused"
      /\ rec'[j].state = rec[j].state /\ rec'[j].blob = rec[j].blob
      /\ Saved(disk'[j]) /\ disk'[j].status = rec'[j].status /\ disk'[j].state = rec[j].state
      /\ \A i \in Jobs \ {j} : /\ rec'[i] = rec[i] /\ disk'[i] = disk[i]
                               /\ handle'[i] = handle[i]
  <2>0. "paused" \in Persistable /\ "downloading" \in Persistable /\ TRUE \in BOOLEAN
        /\ FALSE \in BOOLEAN
    BY DEF Persistable
  <2>1. CASE Pause(j)
    <3>1. /\ Save(j, [rec[j] EXCEPT !.status = "paused", !.user_paused = TRUE])
          /\ rec[j].status \in {"queued", "downloading"}
          /\ handle' = [handle EXCEPT ![j] = IF handle[j] = "none" THEN "none" ELSE "paused"]
      BY <2>1 DEF Pause, SetHandle
    <3>2. handle \in [Jobs -> {"none", "running", "paused"}]
      BY DEF TypeOK
    <3> QED
      BY <2>0, <3>1, <3>2, StatusSaved
  <2>2. CASE Resume(j)
    BY <2>0, <2>2, StatusSaved DEF Resume, SetHandle, TypeOK, OfferedOnly
  <2> QED
    BY <2>1, <2>2
<1>4. BaseInv(j) => BaseInv(j)'
  BY <1>1, <1>3 DEF BaseInv
<1>5. ASSUME OfferedOnly, BaseInv(j), JobInv(j)
      PROVE  JobInv(j)'
  <2>1. AgreeInv(j)'
    BY <1>1, <1>3, <1>5 DEF JobInv, AgreeInv, BaseInv
  <2>3. DrivenInv(j)'
    BY <1>1, <1>2, <1>3, <1>5 DEF JobInv, AgreeInv, BaseInv, DrivenInv
  <2>4. WholeInv(j)' /\ CopiesInv(j)'
    BY <1>1, <1>2, <1>3, <1>5 DEF JobInv, AgreeInv, WholeInv, CopiesInv, Owed
  <2> QED
    BY <2>1, <2>3, <2>4 DEF JobInv
<1>6. \A i \in Jobs \ {j} : Same(i)
  BY <1>1, <1>2, <1>3 DEF Same
<1> QED
  BY <1>4, <1>5, <1>6

\* Retry.
LEMMA RetryStep ==
    ASSUME TypeOK, NEW j \in Jobs, RetryHandle(j) \/ RetryFetch(j)
    PROVE  /\ BaseInv(j) => BaseInv(j)'
           /\ BaseInv(j) /\ JobInv(j) => JobInv(j)'
           /\ \A i \in Jobs \ {j} : Same(i)
<1> USE DEF user, record, session, completion, stored, process
<1>1. /\ UNCHANGED <<phase, listed, waiting, disk, source, full, finished, queue, worker,
                     blobs, torn, mode, faults>>
      /\ mode = "up" /\ j \in listed /\ rec[j].status = "failed"
  BY DEF RetryHandle, RetryFetch, Up
<1>2. /\ rec'[j].blob = rec[j].blob /\ ~rec'[j].user_paused
      /\ \/ rec'[j].status = "downloading" /\ rec'[j].state = "none"
         \/ rec'[j].status = "failed" /\ rec'[j].state = rec[j].state
      /\ \A i \in Jobs \ {j} : rec'[i] = rec[i]
  BY RetryEffect
<1>3. /\ \/ /\ handle[j] # "none" /\ handle' = handle /\ tasks'[j] = tasks[j] + 1
            /\ j \in full \/ rec[j].state \in Packs
            /\ fetching' = fetching /\ rec'[j].status = "downloading"
         \/ /\ handle[j] # "none" /\ handle'[j] = "running" /\ tasks' = tasks
            /\ fetching' = fetching /\ rec'[j].status = "downloading"
         \/ /\ handle[j] = "none" /\ handle' = handle /\ tasks' = tasks
            /\ source[j] = "none" /\ fetching' = fetching \cup {j}
            /\ rec'[j].status = "downloading"
         \/ /\ handle[j] = "none" /\ handle' = handle /\ tasks' = tasks
            /\ source[j] # "none" /\ fetching' = fetching
            /\ rec'[j].status = "failed"
      /\ \A i \in Jobs \ {j} : /\ handle'[i] = handle[i] /\ tasks'[i] = tasks[i]
                               /\ (i \in fetching' <=> i \in fetching)
  <2>0. /\ handle \in [Jobs -> {"none", "running", "paused"}]
        /\ tasks \in [Jobs -> Nat] /\ fetching \in SUBSET Jobs
        /\ rec \in [Jobs -> Record(Names)]
    BY DEF TypeOK
  <2>1. CASE RetryHandle(j)
    <3>1. /\ handle[j] # "none" /\ fetching' = fetching
          /\ \/ /\ Ready(j) /\ tasks' = [tasks EXCEPT ![j] = tasks[j] + 1] /\ handle' = handle
             \/ /\ handle' = [handle EXCEPT ![j] = IF handle[j] = "none" THEN "none"
                                                   ELSE "running"]
                /\ tasks' = tasks
      BY <2>1 DEF RetryHandle, SetHandle
    <3>2. rec'[j].status = "downloading"
      <4>1. rec' = [[[rec EXCEPT ![j].status = "downloading"] EXCEPT ![j].user_paused = FALSE]
                       EXCEPT ![j].state = "none"]
        BY <2>1 DEF RetryHandle
      <4> QED
        BY <2>0, <4>1 DEF Record
    <3> QED
      BY <2>0, <3>1, <3>2 DEF Ready, Packs
  <2>2. CASE RetryFetch(j)
    <3>1. /\ handle[j] = "none" /\ handle' = handle /\ tasks' = tasks
          /\ \/ /\ source[j] = "none" /\ fetching' = fetching \cup {j}
                /\ rec' = [rec EXCEPT ![j].status = "downloading", ![j].user_paused = FALSE,
                                    ![j].state = "none"]
             \/ /\ source[j] # "none" /\ fetching' = fetching
                /\ rec' = [rec EXCEPT ![j].user_paused = FALSE]
      BY <2>2 DEF RetryFetch
    <3>2. /\ source[j] = "none" => rec'[j].status = "downloading"
          /\ source[j] # "none" => rec'[j].status = "failed"
      BY <1>1, <2>0, <3>1 DEF Record
    <3> QED
      BY <2>0, <3>1, <3>2
  <2> QED
    BY <2>1, <2>2
<1>4. /\ \A i \in Jobs \ {j} : Called(i)' <=> Called(i)
      /\ Called(j) => Called(j)'
      /\ tasks' = tasks => (Called(j)' <=> Called(j))
      /\ tasks'[j] = tasks[j] + 1 => Called(j)'
      /\ \A i \in Jobs : Holds(i)' <=> Holds(i)
  BY <1>1, <1>3 DEF Called, Holds, TypeOK
<1>5. BaseInv(j) => BaseInv(j)'
  BY <1>1, <1>2, <1>3 DEF BaseInv
<1>6. ASSUME BaseInv(j), JobInv(j)
      PROVE  JobInv(j)'
  <2>0. j \notin waiting /\ phase[j] # "new" /\ (source[j] = "none" => j \in Remote)
        /\ ~rec[j].blob /\ worker[j] = "idle"
    BY <1>1, <1>6 DEF JobInv, AgreeInv, BaseInv
  <2>1. AgreeInv(j)'
    BY <1>1, <1>2, <1>3, <1>6, <2>0 DEF JobInv, AgreeInv
  <2>3. DrivenInv(j)'
    BY <1>1, <1>2, <1>3, <1>4, <1>6, <2>0 DEF JobInv, DrivenInv
  <2>4. WholeInv(j)'
    <3>1. ASSUME phase[j] = "accepted", j \in full \/ rec[j].state \in Packs
          PROVE  j \in full
      BY <1>1, <1>6, <3>1 DEF JobInv, WholeInv
    <3> QED
      BY <1>1, <1>2, <1>3, <1>4, <1>6, <2>0, <3>1 DEF JobInv, WholeInv, Packs
  <2>5. CopiesInv(j)'
    BY <1>1, <1>2, <1>6 DEF JobInv, CopiesInv, Owed
  <2> QED
    BY <2>1, <2>3, <2>4, <2>5 DEF JobInv
<1>7. \A i \in Jobs \ {j} : Same(i)
  BY <1>1, <1>2, <1>3, <1>4 DEF Same
<1> QED
  BY <1>5, <1>6, <1>7

\* Cancel, at once or after the fetch task has ended.
LEMMA CancelStep ==
    ASSUME TypeOK, NEW j \in Jobs, Cancel(j) \/ CancelFinish(j)
    PROVE  /\ BaseInv(j) => BaseInv(j)'
           /\ BaseInv(j) /\ JobInv(j) => JobInv(j)'
           /\ \A i \in Jobs \ {j} : Same(i)
<1>a. /\ UNCHANGED <<rec, source, fetching, completion, torn, process>>
      /\ mode = "up"
      /\ \/ Cancellable(j) /\ handle' = [handle EXCEPT ![j] = "none"] /\ full' = full \ {j}
         \/ /\ j \in waiting /\ j \notin fetching
            /\ UNCHANGED <<handle, full>>
      /\ \/ /\ Registered(j)
            /\ waiting' = waiting \cup {j}
            /\ phase' = [phase EXCEPT ![j] = "doomed"]
            /\ UNCHANGED <<listed, disk, blobs>>
         \/ Wipe(j) /\ ~Registered(j) /\ waiting' = waiting
         \/ Wipe(j) /\ j \in waiting /\ j \notin fetching /\ waiting' = waiting \ {j}
  <2>1. CASE Cancel(j)
    BY <2>1 DEF Cancel, Up
  <2>2. CASE CancelFinish(j)
    BY <2>2 DEF CancelFinish, Up, session
  <2> QED
    BY <2>1, <2>2
<1> USE DEF user, record, session, completion, stored, process
<1>1. /\ UNCHANGED <<rec, source, fetching, finished, queue, tasks, worker, torn, mode, faults>>
      /\ mode = "up"
  BY <1>a
<1>2. \A i \in Jobs : (Called(i)' <=> Called(i)) /\ (Holds(i)' <=> Holds(i))
  BY <1>1 DEF Called, Holds
<1>3. /\ \/ /\ j \in listed /\ rec[j].status \notin {"completed", "encrypting"}
            /\ handle'[j] = "none"
         \/ /\ j \in waiting /\ j \notin fetching /\ handle'[j] = handle[j]
      /\ \A i \in Jobs \ {j} : handle'[i] = handle[i] /\ (i \in full' <=> i \in full)
  BY <1>a DEF Cancellable, TypeOK
<1>4. /\ \/ /\ j \in fetching /\ j \notin waiting /\ j \in waiting'
            /\ phase'[j] = "doomed"
            /\ listed' = listed /\ disk' = disk /\ blobs' = blobs
         \/ /\ j \notin listed' /\ disk'[j] = NoSnapshot
            /\ phase'[j] = IF phase[j] = "refused" THEN "refused" ELSE "cancelled"
            /\ rec[j].blob \/ blobs'[j] = blobs[j]
            /\ \/ (j \notin fetching \/ j \in waiting) /\ waiting' = waiting
               \/ j \in waiting /\ j \notin fetching /\ j \notin waiting'
      /\ \A i \in Jobs \ {j} : /\ phase'[i] = phase[i] /\ disk'[i] = disk[i]
                               /\ blobs'[i] = blobs[i]
                               /\ (i \in listed' <=> i \in listed)
                               /\ (i \in waiting' <=> i \in waiting)
  BY <1>a DEF Wipe, Drop, Registered, TypeOK
<1>5. ~Saved(NoSnapshot)
  BY DEF Saved, NoSnapshot
<1>6. BaseInv(j) => BaseInv(j)'
  BY <1>1, <1>3, <1>4 DEF BaseInv
<1>7. ASSUME BaseInv(j), JobInv(j)
      PROVE  JobInv(j)'
  <2>1. /\ worker[j] = "idle" /\ ~rec[j].blob /\ rec[j].status \notin {"completed", "encrypting"}
        /\ phase[j] # "new" /\ (source[j] = "none" => j \in Remote)
    BY <1>1, <1>3, <1>7 DEF JobInv, AgreeInv, BaseInv
  <2>2. AgreeInv(j)'
    BY <1>1, <1>3, <1>4, <1>5, <1>7, <2>1 DEF JobInv, AgreeInv
  <2>3. DrivenInv(j)'
    BY <1>1, <1>3, <1>4, <1>7, <2>1 DEF JobInv, AgreeInv, DrivenInv
  <2>4. WholeInv(j)'
    BY <1>4 DEF WholeInv
  <2>5. CopiesInv(j)'
    BY <1>1, <1>4, <1>7, <2>1 DEF JobInv, CopiesInv, Owed
  <2> QED
    BY <2>2, <2>3, <2>4, <2>5 DEF JobInv
<1>8. \A i \in Jobs \ {j} : Same(i)
  BY <1>1, <1>2, <1>3, <1>4 DEF Same
<1> QED
  BY <1>6, <1>7, <1>8

\* A handle raises: its job has failed.
LEMMA PollFailsStep ==
    ASSUME TypeOK, NEW j \in Jobs, PollFails(j)
    PROVE  /\ BaseInv(j) => BaseInv(j)'
           /\ BaseInv(j) /\ JobInv(j) => JobInv(j)'
           /\ \A i \in Jobs \ {j} : Same(i)
<1> USE DEF user, record, session, completion, stored, process
<1>1. /\ UNCHANGED <<phase, listed, waiting, source, handle, full, fetching, finished, queue,
                     tasks, worker, blobs, torn, mode>>
      /\ mode = "up" /\ faults' = faults + 1 /\ Fail(j)
      /\ j \in listed /\ handle[j] # "none"
      /\ rec[j].status \notin {"completed", "encrypting"}
  BY DEF PollFails, Up, Polled
<1>2. \A i \in Jobs : (Called(i)' <=> Called(i)) /\ (Holds(i)' <=> Holds(i))
  BY <1>1 DEF Called, Holds
<1>3. /\ rec'[j].status = "failed" /\ rec'[j].user_paused = rec[j].user_paused
      /\ rec'[j].state = rec[j].state /\ rec'[j].blob = rec[j].blob
      /\ Saved(disk'[j]) /\ disk'[j].status = "failed" /\ disk'[j].state = rec[j].state
      /\ \A i \in Jobs \ {j} : rec'[i] = rec[i] /\ disk'[i] = disk[i]
  BY <1>1, FailEffect
<1>4. faults \in Nat /\ blobs[j] \in Nat
  BY TorrentAssumption DEF TypeOK
<1>5. BaseInv(j) => BaseInv(j)'
  BY <1>1, <1>2, <1>3 DEF BaseInv
<1>6. ASSUME BaseInv(j), JobInv(j)
      PROVE  JobInv(j)'
  <2>1. AgreeInv(j)'
    BY <1>1, <1>3, <1>6 DEF JobInv, AgreeInv
  <2>2. DrivenInv(j)'
    BY <1>1, <1>3, <1>6 DEF JobInv, DrivenInv
  <2>3. worker[j] = "idle"
    BY <1>1, <1>6 DEF JobInv, AgreeInv
  <2>4. WholeInv(j)' /\ CopiesInv(j)'
    BY <1>1, <1>2, <1>3, <1>4, <1>6, <2>3 DEF JobInv, WholeInv, CopiesInv, Owed
  <2> QED
    BY <2>1, <2>2, <2>4 DEF JobInv
<1>7. \A i \in Jobs \ {j} : Same(i)
  BY <1>1, <1>2, <1>3 DEF Same
<1> QED
  BY <1>5, <1>6, <1>7

\* One round of the poll loop, for any of the jobs.
LEMMA PollStep ==
    ASSUME TypeOK, NEW j \in Jobs, Poll
    PROVE  /\ BaseInv(j) => BaseInv(j)'
           /\ BaseInv(j) /\ JobInv(j) => JobInv(j)'
<1> USE DEF user, record, session, completion, stored, process
<1>1. /\ UNCHANGED <<phase, listed, waiting, disk, source, handle, full, fetching, queue,
                     tasks, worker, blobs, torn, mode, faults>>
      /\ mode = "up"
  BY DEF Poll, Up
<1>2. (Called(j)' <=> Called(j)) /\ (Holds(j)' <=> Holds(j))
  BY <1>1 DEF Called, Holds
<1>3. CASE j \notin Polled
  <2>1. rec'[j] = rec[j] /\ j \notin finished'
    BY <1>3 DEF Poll
  <2>2. BaseInv(j) => BaseInv(j)'
    BY <1>1, <1>2, <2>1 DEF BaseInv
  <2>3. ASSUME JobInv(j)
        PROVE  JobInv(j)'
    <3>1. AgreeInv(j)' /\ DrivenInv(j)'
      BY <1>1, <1>2, <2>1, <2>3 DEF JobInv, AgreeInv, DrivenInv
    <3>2. WholeInv(j)' /\ CopiesInv(j)'
      BY <1>1, <1>2, <2>1, <2>3 DEF JobInv, WholeInv, CopiesInv, Owed
    <3> QED
      BY <3>1, <3>2 DEF JobInv
  <2> QED
    BY <2>2, <2>3
<1>4. CASE j \in Polled
  <2>1. /\ j \in listed /\ handle[j] # "none"
        /\ rec[j].status \notin {"completed", "failed", "cancelled", "encrypting"}
    BY <1>4 DEF Polled
  <2>2. /\ rec'[j].status = IF rec[j].user_paused THEN "paused" ELSE "downloading"
        /\ rec'[j].state = "torrent" /\ rec'[j].user_paused = rec[j].user_paused
        /\ rec'[j].blob = rec[j].blob
    <3>1. rec'[j] = [rec[j] EXCEPT !.state = "torrent",
                        !.status = IF rec[j].user_paused THEN "paused" ELSE "downloading"]
      BY <1>4 DEF Poll
    <3>2. rec[j] \in Record(Names)
      BY DEF TypeOK
    <3> QED
      BY <3>1, <3>2 DEF Record
  <2>3. j \in finished' => j \in full
    BY DEF Poll
  <2>4. BaseInv(j) => BaseInv(j)'
    BY <1>1, <1>2, <2>1, <2>2 DEF BaseInv
  <2>5. ASSUME BaseInv(j), JobInv(j)
        PROVE  JobInv(j)'
    <3>1. /\ phase[j] \in {"accepted", "doomed"} /\ rec[j].status \in {"downloading", "paused"}
          /\ worker[j] = "idle" /\ j \notin fetching /\ j \notin waiting
      <4>1. rec[j].status \in Statuses
        BY DEF TypeOK, Record
      <4> QED
        BY <2>1, <2>5, <4>1 DEF JobInv, AgreeInv, Statuses
    <3>2. AgreeInv(j)'
      BY <1>1, <2>1, <2>2, <2>5, <3>1 DEF JobInv, AgreeInv
    <3>4. DrivenInv(j)'
      BY <1>1, <1>2, <2>1, <2>2, <2>5, <3>1 DEF BaseInv, JobInv, DrivenInv
    <3>5. WholeInv(j)'
      BY <1>1, <1>2, <2>1, <2>2, <2>3, <2>5 DEF JobInv, WholeInv, Packs
    <3>6. CopiesInv(j)'
      BY <1>1, <2>1, <2>5 DEF JobInv, CopiesInv, Owed
    <3> QED
      BY <3>2, <3>4, <3>5, <3>6 DEF JobInv
  <2> QED
    BY <2>4, <2>5
<1> QED
  BY <1>3, <1>4

\* Every record that survives a restart is written, periodically and on shutdown.
LEMMA FlushStep ==
    ASSUME TypeOK, NEW j \in Jobs, Flush \/ StopFlush
    PROVE  /\ BaseInv(j) => BaseInv(j)'
           /\ BaseInv(j) /\ JobInv(j) => JobInv(j)'
<1> USE DEF user, record, session, completion, stored, process
<1>1. /\ UNCHANGED <<phase, listed, waiting, rec, source, handle, full, fetching, finished, queue,
                     tasks, worker, blobs, torn, faults>>
      /\ \/ mode = "up" /\ mode' = "up"
         \/ mode = "stopping" /\ mode' = "draining"
  BY DEF Flush, StopFlush, Up
<1>2. (Called(j)' <=> Called(j)) /\ (Holds(j)' <=> Holds(j))
  BY <1>1 DEF Called, Holds
<1>3. \/ disk'[j] = disk[j]
      \/ /\ j \in listed /\ Saved(disk'[j]) /\ rec[j].status # "completed"
         /\ disk'[j].status = rec[j].status /\ disk'[j].state = rec[j].state
  <2>1. disk' = Flushed
    BY DEF Flush, StopFlush
  <2>2. CASE j \in listed /\ rec[j].status \in Persistable
    <3>1. disk'[j] = ToSnapshot(rec[j])
      BY <2>1, <2>2 DEF Flushed
    <3> QED
      BY <2>2, <3>1, SavedAs DEF Persistable
  <2>3. CASE ~(j \in listed /\ rec[j].status \in Persistable)
    BY <2>1, <2>3 DEF Flushed
  <2> QED
    BY <2>2, <2>3
<1>4. BaseInv(j) => BaseInv(j)'
  BY <1>1, <1>2, <1>3 DEF BaseInv
<1>5. ASSUME BaseInv(j), JobInv(j)
      PROVE  JobInv(j)'
  <2>1. AgreeInv(j)'
    BY <1>1, <1>3, <1>5 DEF JobInv, AgreeInv
  <2>2. DrivenInv(j)'
    BY <1>1, <1>2, <1>5 DEF JobInv, DrivenInv
  <2>3. WholeInv(j)'
    BY <1>1, <1>2, <1>3, <1>5 DEF JobInv, WholeInv
  <2>4. CopiesInv(j)'
    BY <1>1, <1>3, <1>5 DEF JobInv, CopiesInv, Owed
  <2> QED
    BY <2>1, <2>2, <2>3, <2>4 DEF JobInv
<1> QED
  BY <1>4, <1>5

\* The poll loop is stopped.
LEMMA StopStep ==
    ASSUME TypeOK, NEW j \in Jobs, Stop
    PROVE  /\ BaseInv(j) => BaseInv(j)'
           /\ BaseInv(j) /\ JobInv(j) => JobInv(j)'
<1> USE DEF user, record, session, completion, stored, process
<1>1. /\ UNCHANGED <<phase, listed, waiting, rec, disk, source, handle, full, fetching,
                     tasks, worker, blobs, torn>>
      /\ mode = "up" /\ mode' = "stopping" /\ faults' = faults + 1 /\ finished' = {}
  BY DEF Stop, Up
<1>2. InQueue(j)' => InQueue(j)
  BY PollLeavesEffect DEF Stop
<1>3. Called(j)' => Called(j)
  BY <1>1, <1>2 DEF Called, InQueue, Among
<1>4. faults \in Nat /\ blobs[j] \in Nat
  BY TorrentAssumption DEF TypeOK
<1>5. BaseInv(j) => BaseInv(j)'
  BY <1>1, <1>3 DEF BaseInv
<1>6. ASSUME BaseInv(j), JobInv(j)
      PROVE  JobInv(j)'
  <2>1. AgreeInv(j)' /\ DrivenInv(j)'
    BY <1>1, <1>6 DEF JobInv, AgreeInv, DrivenInv
  <2>2. WholeInv(j)'
    BY <1>1, <1>3, <1>6 DEF JobInv, WholeInv
  <2>3. CopiesInv(j)'
    BY <1>1, <1>4, <1>6 DEF JobInv, CopiesInv, Owed
  <2> QED
    BY <2>1, <2>2, <2>3 DEF JobInv
<1> QED
  BY <1>5, <1>6

\* The process ends: by itself, or in a crash that may have come in the middle of
\* the completion or of the cancellation of a job.
LEMMA DieStep ==
    ASSUME TypeOK, NEW j \in Jobs,
           Exit \/ Crash \/ \E k \in Jobs : CrashInComplete(k) \/ CrashInCancel(k)
    PROVE  /\ BaseInv(j) => BaseInv(j)'
           /\ BaseInv(j) /\ JobInv(j) => JobInv(j)'
<1> USE DEF user, record, session, completion, stored, process
<1>1. /\ Die
      /\ \/ mode = "draining" /\ faults' = faults
         \/ mode # "down" /\ faults' = faults + 1
  BY DEF Exit, Crash, CrashInComplete, CrashInCancel, Crashes
<1>2. /\ rec' = rec /\ blobs' = blobs /\ torn' = torn
      /\ mode' = "down" /\ listed' = {} /\ waiting' = {} /\ fetching' = {} /\ finished' = {}
      /\ handle'[j] = "none" /\ worker'[j] = "idle"
      /\ tasks'[j] = 0 /\ queue' = <<>>
  BY <1>1 DEF Die
<1>3. ~Called(j)'
  BY <1>2 DEF Called
<1>4. faults \in Nat /\ blobs[j] \in Nat
  BY TorrentAssumption DEF TypeOK
<1>5. \/ /\ phase'[j] = phase[j] /\ disk'[j] = disk[j] /\ source'[j] = source[j]
         /\ j \in full' <=> j \in full
      \/ /\ phase'[j] = phase[j] /\ disk'[j] = NoSnapshot /\ source'[j] = source[j]
         /\ j \in full' <=> j \in full
         /\ worker[j] = "done"
      \/ /\ phase'[j] = IF phase[j] = "accepted" THEN "doomed" ELSE phase[j]
         /\ disk'[j] \in {disk[j], NoSnapshot}
         /\ source'[j] \in {source[j], IF j \in Remote THEN "none" ELSE "bad"}
         /\ j \in listed \/ j \in waiting
  <2>1. CASE Exit \/ Crash
    BY <2>1 DEF Exit, Crash
  <2>2. ASSUME NEW k \in Jobs, CrashInComplete(k)
        PROVE  \/ /\ phase'[j] = phase[j] /\ disk'[j] = disk[j] /\ source'[j] = source[j]
                  /\ j \in full' <=> j \in full
               \/ /\ phase'[j] = phase[j] /\ disk'[j] = NoSnapshot /\ source'[j] = source[j]
                  /\ j \in full' <=> j \in full
                  /\ worker[j] = "done"
    BY <2>2 DEF CrashInComplete, Drop, TypeOK
  <2>3. ASSUME NEW k \in Jobs, CrashInCancel(k), j # k
        PROVE  /\ phase'[j] = phase[j] /\ disk'[j] = disk[j] /\ source'[j] = source[j]
               /\ j \in full' <=> j \in full
    BY <2>3 DEF CrashInCancel, Drop, TypeOK
  <2>4. ASSUME CrashInCancel(j)
        PROVE  /\ phase'[j] = IF phase[j] = "accepted" THEN "doomed" ELSE phase[j]
               /\ disk'[j] \in {disk[j], NoSnapshot}
               /\ source'[j] \in {source[j], IF j \in Remote THEN "none" ELSE "bad"}
               /\ j \in listed \/ j \in waiting
    BY <2>4 DEF CrashInCancel, Cancellable, Drop, TypeOK
  <2> QED
    BY <2>1, <2>2, <2>3, <2>4
<1>6. ~Saved(NoSnapshot) /\ NoSnapshot.status = "absent" /\ NoSnapshot.state = "none"
  BY DEF Saved, NoSnapshot
<1>7. BaseInv(j) => BaseInv(j)'
  BY <1>2, <1>3, <1>5, <1>6 DEF BaseInv
<1>8. ASSUME BaseInv(j), JobInv(j)
      PROVE  JobInv(j)'
  <2>1. AgreeInv(j)'
    BY <1>2, <1>5, <1>6, <1>8 DEF JobInv, AgreeInv, BaseInv
  <2>2. DrivenInv(j)'
    BY <1>2, <1>8 DEF JobInv, DrivenInv
  <2>3. WholeInv(j)'
    BY <1>2, <1>3, <1>5, <1>6, <1>8 DEF JobInv, WholeInv, Packs
  <2>4. CopiesInv(j)'
    BY <1>1, <1>2, <1>4, <1>8 DEF JobInv, CopiesInv, Owed
  <2> QED
    BY <2>1, <2>2, <2>3, <2>4 DEF JobInv
<1> QED
  BY <1>7, <1>8

\* A restart takes up what the work dirs hold.
LEMMA RestartStep ==
    ASSUME TypeOK, NEW j \in Jobs, Restart
    PROVE  /\ BaseInv(j) => BaseInv(j)'
           /\ BaseInv(j) /\ JobInv(j) => JobInv(j)'
<1> USE DEF user, record, session, completion, stored, process
<1>1. /\ UNCHANGED <<phase, waiting, source, full, finished, queue, worker, blobs, torn, faults>>
      /\ mode = "down" /\ mode' = "up"
  BY DEF Restart
<1>2. /\ j \in listed' <=> Saved(disk[j])
      /\ j \in fetching' <=> Saved(disk[j]) /\ source[j] = "none"
  BY DEF Restart, Refetched
<1>3. CASE ~Saved(disk[j])
  <2>1. rec'[j] = rec[j] /\ disk'[j] = disk[j] /\ handle'[j] = "none" /\ tasks'[j] = 0
    BY <1>3 DEF Restart, RestoredHandle, Completes
  <2>2. Called(j)' => Called(j)
    BY <1>1, <2>1 DEF Called
  <2>3. BaseInv(j) => BaseInv(j)'
    BY <1>1, <1>2, <1>3, <2>1, <2>2 DEF BaseInv
  <2>4. ASSUME BaseInv(j), JobInv(j)
        PROVE  JobInv(j)'
    <3>1. AgreeInv(j)' /\ DrivenInv(j)'
      BY <1>1, <1>2, <1>3, <2>1, <2>4 DEF JobInv, BaseInv, AgreeInv, DrivenInv
    <3>2. WholeInv(j)'
      BY <1>1, <2>1, <2>2, <2>4 DEF JobInv, WholeInv
    <3>3. CopiesInv(j)'
      BY <1>1, <2>1, <2>4 DEF JobInv, CopiesInv, Owed
    <3> QED
      BY <3>1, <3>2, <3>3 DEF JobInv
  <2> QED
    BY <2>3, <2>4
<1>4. CASE Saved(disk[j])
  <2>1. /\ rec'[j] = RestoredRecord(j) /\ disk'[j] = ToSnapshot(RestoredRecord(j))
        /\ handle'[j] = RestoredHandle(j)
        /\ Completes(j) => tasks'[j] = 1
    BY <1>4 DEF Restart
  <2>2. /\ ~rec'[j].blob /\ rec'[j].state = disk[j].state
        /\ rec'[j].status \in {"failed", "paused", "downloading"}
        /\ handle'[j] \in {"none", "running", "paused"}
        /\ handle'[j] # "none" <=> source[j] = "good"
        /\ rec'[j].status = "paused" => rec'[j].user_paused
        /\ handle'[j] = "running" => ~rec'[j].user_paused
        /\ source[j] = "none" => rec'[j].status # "failed"
        /\ source[j] = "bad" => rec'[j].status = "failed"
        /\ rec'[j].status = "downloading" /\ handle'[j] = "paused" => Completes(j)
        /\ source[j] \in {"none", "good", "bad"}
    BY <1>4, <2>1, RestoredEffect DEF TypeOK
  <2>3. /\ Saved(disk'[j]) /\ disk'[j].status = rec'[j].status /\ disk'[j].state = disk[j].state
    BY <2>1, <2>2, SavedAs DEF Persistable
  <2>4. /\ Called(j)' => Called(j) \/ Completes(j)
        /\ Completes(j) => Called(j)'
        /\ Completes(j) => disk[j].status = "encrypting" \/ disk[j].state \in Packs
    <3>1. ~Completes(j) => tasks'[j] = 0
      BY DEF Restart
    <3> QED
      BY <1>1, <2>1, <3>1 DEF Called, Completes, NeedsFinalize, Packs
  <2>5. BaseInv(j) => BaseInv(j)'
    BY <1>1, <1>2, <1>4, <2>2, <2>3 DEF BaseInv
  <2>6. ASSUME BaseInv(j), JobInv(j)
        PROVE  JobInv(j)'
    <3>1. rec[j].status # "completed" /\ worker[j] = "idle"
      BY <1>1, <1>4, <2>6 DEF JobInv, BaseInv, AgreeInv
    <3>2. AgreeInv(j)'
      BY <1>1, <1>2, <1>4, <2>2, <2>3, <2>6, <3>1 DEF JobInv, BaseInv, AgreeInv
    <3>3. DrivenInv(j)'
      BY <1>1, <1>2, <1>4, <2>2, <2>4, <2>6 DEF DrivenInv
    <3>4. WholeInv(j)'
      BY <1>1, <2>2, <2>3, <2>4, <2>6, <3>1 DEF JobInv, WholeInv
    <3>5. CopiesInv(j)'
      BY <1>1, <2>6, <3>1 DEF JobInv, CopiesInv, Owed
    <3> QED
      BY <3>2, <3>3, <3>4, <3>5 DEF JobInv
  <2> QED
    BY <2>5, <2>6
<1> QED
  BY <1>3, <1>4

\* Every step either is about one job, or treats all jobs alike.
LEMMA NextStep ==
    ASSUME TypeOK, Next
    PROVE  \A j \in Jobs : /\ BaseInv(j) => BaseInv(j)'
                           /\ OfferedOnly /\ BaseInv(j) /\ JobInv(j) => JobInv(j)'
<1> DEFINE Keeps(j) == /\ BaseInv(j) => BaseInv(j)'
                       /\ OfferedOnly /\ BaseInv(j) /\ JobInv(j) => JobInv(j)'
           AllKeep == \A j \in Jobs : Keeps(j)
<1>1. ASSUME NEW k \in Jobs, Keeps(k), \A i \in Jobs \ {k} : Same(i),
             mode' = mode, faults' \in {faults, faults + 1}
      PROVE  AllKeep
  <2>1. /\ faults \in Nat /\ faults' \in Nat /\ faults <= faults'
        /\ \A j \in Jobs : blobs[j] \in Nat
    BY <1>1, TorrentAssumption DEF TypeOK
  <2>2. \A j \in Jobs \ {k} : Keeps(j)
    BY <1>1, <2>1, SameKeeps
  <2> QED
    BY <1>1, <2>2
<1>2. ASSUME NEW k \in Jobs, TaskStarts(k)
      PROVE  AllKeep
  <2>1. /\ Call("task", k) /\ mode # "down" /\ mode' = mode /\ faults' = faults
        /\ tasks[k] > 0 /\ tasks' = [tasks EXCEPT ![k] = @ - 1] /\ finished' = finished
        /\ UNCHANGED <<user, source, full, fetching, stored, process>>
    BY <1>2 DEF TaskStarts, Running, process
  <2>2. Keeps(k) /\ \A i \in Jobs \ {k} : Same(i)
    BY <2>1, CallsStep
  <2> QED
    BY <1>1, <2>1, <2>2
<1>3. ASSUME PollNext
      PROVE  AllKeep
  <2>1. PICK k \in finished : finished' = finished \ {k} /\ Call("poll", k)
    BY <1>3 DEF PollNext
  <2>2. /\ k \in Jobs /\ mode # "down" /\ mode' = mode /\ faults' = faults /\ tasks' = tasks
        /\ UNCHANGED <<user, source, full, fetching, stored, process>>
    BY <1>3 DEF PollNext, TypeOK, process
  <2>3. Keeps(k) /\ \A i \in Jobs \ {k} : Same(i)
    BY <2>1, <2>2, CallsStep
  <2> QED
    BY <1>1, <2>2, <2>3
<1>4. ASSUME LockPassed
      PROVE  AllKeep
  <2>1. mode' = mode /\ faults' = faults
    BY <1>4 DEF LockPassed, process
  <2>2. PICK k \in Jobs : Keeps(k) /\ \A i \in Jobs \ {k} : Same(i)
    BY <1>4, LockPassedStep
  <2> QED
    BY <1>1, <2>1, <2>2
<1>5. ASSUME NEW k \in Jobs, Transfer(k) \/ Fetch(k) \/ Thread(k)
      PROVE  AllKeep
  <2>1. mode' = mode /\ faults' \in {faults, faults + 1}
    <3>1. CASE Transfer(k)
      BY <3>1 DEF Transfer, process
    <3>2. CASE Thread(k)
      BY <3>2 DEF Thread, ZipDone, Encrypted, ThreadFails, process
    <3>3. CASE FetchFail(k)
      BY <3>3 DEF FetchFail, process
    <3>4. CASE FetchCancelled(k)
      <4>1. UNCHANGED <<user, disk, source, handle, full, completion, stored, process>>
        BY <3>4, Zenon DEF FetchCancelled
      <4> QED
        BY <4>1 DEF process
    <3>5. ASSUME NEW valid \in BOOLEAN, FetchDone(k, valid)
          PROVE  mode' = mode /\ faults' = faults
      BY <3>5 DEF FetchDone, process
    <3> QED
      BY <1>5, <3>1, <3>2, <3>3, <3>4, <3>5 DEF Fetch
  <2>2. Keeps(k) /\ \A i \in Jobs \ {k} : Same(i)
    BY <1>5, TransferStep, FetchStep, ThreadStep
  <2> QED
    BY <1>1, <2>1, <2>2
<1>6. ASSUME NEW k \in Jobs, Completion(k)
      PROVE  AllKeep
  <2>1. mode' = mode /\ faults' = faults
    BY <1>6 DEF Completion, Packed, Complete, CompleteFails, process
  <2>2. Keeps(k) /\ \A i \in Jobs \ {k} : Same(i)
    BY <1>6, CompletionSaves, CompleteStep DEF Completion
  <2> QED
    BY <1>1, <2>1, <2>2
<1>7. ASSUME NEW k \in Jobs, Request(k)
      PROVE  AllKeep
  <2>1. mode' = mode /\ faults' = faults
    BY <1>7 DEF Request, AddTorrent, AddRefused, AddRemote, Pause, Resume, RetryHandle,
                RetryFetch, Cancel, CancelFinish, process
  <2>2. Keeps(k) /\ \A i \in Jobs \ {k} : Same(i)
    <3>1. CASE AddTorrent(k) \/ AddRefused(k) \/ AddRemote(k)
      BY <3>1, AddStep
    <3>2. CASE Pause(k) \/ Resume(k)
      BY <3>2, PauseStep
    <3>3. CASE RetryHandle(k) \/ RetryFetch(k)
      BY <3>3, RetryStep
    <3>4. CASE Cancel(k) \/ CancelFinish(k)
      BY <3>4, CancelStep
    <3> QED
      BY <1>7, <3>1, <3>2, <3>3, <3>4 DEF Request
  <2> QED
    BY <1>1, <2>1, <2>2
<1>8. ASSUME NEW k \in Jobs, PollFails(k)
      PROVE  AllKeep
  <2>1. mode' = mode /\ faults' = faults + 1
    BY <1>8 DEF PollFails
  <2>2. Keeps(k) /\ \A i \in Jobs \ {k} : Same(i)
    BY <1>8, PollFailsStep
  <2> QED
    BY <1>1, <2>1, <2>2
<1>9. ASSUME Poll \/ Flush \/ Stop \/ StopFlush \/ Restart
      PROVE  AllKeep
  BY <1>9, PollStep, FlushStep, StopStep, RestartStep
<1>10. ASSUME Exit \/ Crash \/ \E k \in Jobs : CrashInComplete(k) \/ CrashInCancel(k)
       PROVE  AllKeep
  BY <1>10, DieStep
<1>11. ASSUME NEW k \in Jobs,
              TaskFails(k) \/ PollNextFails(k) \/ (LockFails /\ Head(queue).job = k)
       PROVE  AllKeep
  <2>1. mode' = mode /\ faults' = faults + 1
    BY <1>11 DEF TaskFails, PollNextFails, LockFails, BeginFails
  <2>2. Keeps(k) /\ \A i \in Jobs \ {k} : Same(i)
    BY <1>11, FailedCallStep
  <2> QED
    BY <1>1, <2>1, <2>2
<1>12. ASSUME LockFails
       PROVE  AllKeep
  <2>1. Head(queue).job \in Jobs
    BY <1>12, QueueHead DEF LockFails, TypeOK, Calls
  <2> QED
    BY <1>11, <1>12, <2>1
<1> HIDE DEF AllKeep
<1>13. AllKeep
  <2>1. ASSUME NEW k \in Jobs,
               \/ Transfer(k) \/ Fetch(k) \/ TaskStarts(k) \/ Completion(k) \/ Thread(k)
               \/ Request(k) \/ CrashInComplete(k) \/ CrashInCancel(k)
               \/ TaskFails(k) \/ PollFails(k) \/ PollNextFails(k)
        PROVE  AllKeep
    BY <1>2, <1>5, <1>6, <1>7, <1>8, <1>10, <1>11, <2>1
  <2>2. CASE LockPassed \/ LockFails \/ PollLoop \/ Process
    BY <1>3, <1>4, <1>9, <1>10, <1>12, <2>2 DEF PollLoop, Process
  <2> QED
    BY <2>1, <2>2 DEF Next
<1> QED
  BY <1>13 DEF AllKeep

Base == \A j \in Jobs : BaseInv(j)

Inv == \A j \in Jobs : JobInv(j)

\* What holds however the clicks of the user arrive.
LEMMA BaseHolds == Spec => [](TypeOK /\ Base)
<1>1. Init => Base
  BY DEF Init, Base, BaseInv, Called, NoSnapshot, Saved, NewRecord
<1>2. TypeOK /\ Base /\ [Next]_vars => Base'
  <2> SUFFICES ASSUME TypeOK, Base, [Next]_vars PROVE Base'
    OBVIOUS
  <2>1. CASE Next
    BY <2>1, NextStep DEF Base
  <2>2. CASE UNCHANGED vars
    BY <2>2 DEF vars, user, record, session, completion, stored, process, Base, BaseInv, Called
  <2> QED
    BY <2>1, <2>2
<1> QED
  BY <1>1, <1>2, TypeCorrect, TypeStep, PTL DEF Spec

\* What holds if Resume reaches paused jobs only.
LEMMA InvHolds == OfferedOnly => (Spec => [](TypeOK /\ Base /\ Inv))
<1>1. Init => Inv
  <2> SUFFICES ASSUME Init, NEW j \in Jobs PROVE JobInv(j)
    BY DEF Inv
  <2>1. /\ phase[j] = "new" /\ j \notin listed /\ j \notin waiting /\ j \notin fetching
        /\ rec[j].status = "queued" /\ ~rec[j].blob /\ ~Saved(disk[j])
        /\ source[j] = "none" /\ handle[j] = "none" /\ worker[j] = "idle"
        /\ blobs[j] = 0 /\ j \notin torn /\ mode = "up" /\ faults = 0
    BY DEF Init, NewRecord, NoSnapshot, Saved
  <2> QED
    BY <2>1 DEF JobInv, AgreeInv, DrivenInv, WholeInv, CopiesInv, Owed
<1>2. OfferedOnly /\ TypeOK /\ Base /\ Inv /\ [Next]_vars => Inv'
  <2> SUFFICES ASSUME OfferedOnly, TypeOK, Base, Inv, [Next]_vars PROVE Inv'
    OBVIOUS
  <2>1. CASE Next
    BY <2>1, NextStep DEF Base, Inv
  <2>2. CASE UNCHANGED vars
    BY <2>2 DEF vars, user, record, session, completion, stored, process, Inv, JobInv, AgreeInv,
                DrivenInv, WholeInv, CopiesInv, Owed, Called, Holds
  <2> QED
    BY <2>1, <2>2
<1>3. SUFFICES ASSUME OfferedOnly PROVE Spec => [](TypeOK /\ Base /\ Inv)
  OBVIOUS
<1>4. TypeOK /\ Base /\ Inv /\ [Next]_vars => Inv'
  BY <1>2, <1>3
<1> QED
  BY <1>1, <1>4, BaseHolds, PTL DEF Spec

-----------------------------------------------------------------------------
(* The properties.                                                         *)

\* An accepted job has a snapshot or a blob at every instant, however the clicks
\* of the user arrive: add saves it before it answers, and _finalize_path drops
\* the snapshot only when the blob is in the store.
THEOREM NoJobLostHolds == Spec => []NoJobLost
<1>1. TypeOK /\ Base => NoJobLost
  BY DEF Base, BaseInv, NoJobLost
<1> QED
  BY <1>1, BaseHolds, PTL

\* Nothing moves under a thread that packs or encrypts: _complete_torrent paused
\* the torrent, and cancel refuses a job that is being encrypted.
THEOREM ContentAtRestHolds == OfferedOnly => (Spec => []ContentAtRest)
<1>1. TypeOK /\ Base /\ Inv => ContentAtRest
  BY DEF Base, BaseInv, Inv, JobInv, AgreeInv, DrivenInv, ContentAtRest, Busy
<1> QED
  BY <1>1, InvHolds, PTL

\* What lands in the store is whole: the poll loop, retry and restore call for a
\* completion only when the content is there or was being packed.
THEOREM OnlyWholeContentHolds == OfferedOnly => (Spec => []OnlyWholeContent)
<1>1. TypeOK /\ Base /\ Inv => OnlyWholeContent
  BY DEF Inv, JobInv, WholeInv, OnlyWholeContent, TypeOK
<1> QED
  BY <1>1, InvHolds, PTL

\* One blob a job, and one more for every fault, whatever the number of calls.
THEOREM CopiesExplainedHolds == OfferedOnly => (Spec => []CopiesExplained)
<1>1. TypeOK /\ Base /\ Inv => CopiesExplained
  <2> SUFFICES ASSUME TypeOK, Inv, NEW j \in Jobs PROVE blobs[j] <= 1 + faults
    BY DEF CopiesExplained
  <2>1. blobs[j] \in Nat /\ faults \in Nat
    BY TorrentAssumption DEF TypeOK
  <2> QED
    BY <2>1 DEF Inv, JobInv, CopiesInv, Owed
<1> QED
  BY <1>1, InvHolds, PTL

\* A torrent that shows as paused transfers nothing, whatever is clicked: a job
\* shows as paused only if the user paused it, and a handle that runs belongs to a
\* job that the user did not pause or has resumed.
THEOREM PausedHolds == Spec => []PausedTransfersNothing
<1>1. TypeOK /\ Base => PausedTransfersNothing
  BY DEF Base, BaseInv, PausedTransfersNothing, TypeOK
<1> QED
  BY <1>1, BaseHolds, PTL

\* A job that shows as active has something that will move it.
THEOREM DrivenHolds == OfferedOnly => (Spec => []DrivenWhileActive)
<1>1. TypeOK /\ Base /\ Inv => DrivenWhileActive
  <2> SUFFICES ASSUME TypeOK, Inv, NEW j \in listed \ (fetching \cup waiting),
                      mode = "up", phase[j] # "refused"
               PROVE  /\ rec[j].status = "encrypting" => Holds(j)
                      /\ rec[j].status = "paused" => handle[j] # "none"
                      /\ rec[j].status = "downloading" =>
                            \/ handle[j] = "running"
                            \/ handle[j] = "paused" /\ (j \in full \/ Called(j))
    BY DEF DrivenWhileActive
  <2>1. j \in Jobs /\ handle[j] \in {"none", "running", "paused"}
    BY DEF TypeOK
  <2> QED
    BY <2>1 DEF Inv, JobInv, DrivenInv
<1> QED
  BY <1>1, InvHolds, PTL

-----------------------------------------------------------------------------
(* Torrent jobs implement Delivery.                                        *)

FateOf(j) == IF blobs[j] > 0 THEN "delivered" ELSE Told[phase[j]]

\* A step that changes the fate of one job the way Delivery allows is one of its
\* steps.
LEMMA FateMoves ==
    ASSUME NEW j \in Jobs, \A i \in Jobs \ {j} : FateOf(i)' = FateOf(i),
           \/ FateOf(j)' = FateOf(j)
           \/ FateOf(j) = "new" /\ FateOf(j)' = "owed"
           \/ FateOf(j) \in {"owed", "withdrawing"} /\ FateOf(j)' \in {"delivered", "cancelled"}
           \/ FateOf(j) = "owed" /\ FateOf(j)' = "withdrawing"
    PROVE  [Promise!Next]_Fate
<1>1. Fate' = [i \in Jobs |-> FateOf(i)'] /\ Fate[j] = FateOf(j)
  BY DEF Fate, FateOf
<1>2. Fate' = [Fate EXCEPT ![j] = FateOf(j)']
  BY <1>1 DEF Fate, FateOf
<1>3. CASE FateOf(j)' = FateOf(j)
  BY <1>1, <1>3 DEF Fate, FateOf
<1>4. CASE FateOf(j)' # FateOf(j)
  BY <1>1, <1>2, <1>4 DEF Promise!Next, Promise!Accept, Promise!Deliver,
     Promise!Withdraw, Promise!Cancel
<1> QED
  BY <1>3, <1>4

\* What the user was told of one job may change; the blobs of it stay.
LEMMA ToldMoves ==
    ASSUME TypeOK, NEW j \in Jobs, blobs'[j] = blobs[j],
           \A i \in Jobs \ {j} : phase'[i] = phase[i] /\ blobs'[i] = blobs[i],
           \/ phase'[j] = phase[j]
           \/ phase[j] = "new" /\ phase'[j] \in {"accepted", "refused"}
           \/ phase[j] = "accepted" /\ phase'[j] \in {"doomed", "cancelled"}
           \/ phase[j] = "doomed" /\ phase'[j] = "cancelled"
    PROVE  [Promise!Next]_Fate
<1>1. \A i \in Jobs \ {j} : FateOf(i)' = FateOf(i)
  BY DEF FateOf, Told
<1> QED
  BY <1>1, FateMoves DEF FateOf, Told

\* Most steps tell the user nothing, and store nothing.
LEMMA Silent ==
    ASSUME phase' = phase, blobs' = blobs
    PROVE  [Promise!Next]_Fate
BY DEF Fate, Told

\* Every step of the system is a step of Delivery or leaves every fate alone.
LEMMA FateStep ==
    ASSUME TypeOK, Base, Inv, [Next]_vars
    PROVE  [Promise!Next]_Fate
<1> USE DEF user, stored
<1>1. ASSUME NEW j \in Jobs,
             \/ Transfer(j) \/ TaskStarts(j) \/ Completion(j) \/ CrashInComplete(j)
             \/ TaskFails(j) \/ PollFails(j) \/ PollNextFails(j)
      PROVE  [Promise!Next]_Fate
  <2>1. phase' = phase /\ blobs' = blobs
    BY <1>1 DEF Transfer, TaskStarts, Completion, Packed, Complete, CompleteFails, PollFails,
                TaskFails, PollNextFails, BeginFails, CrashInComplete, Crashes, Die
  <2> QED
    BY <2>1, Silent
<1>2. ASSUME NEW j \in Jobs, Fetch(j)
      PROVE  [Promise!Next]_Fate
  <2>1. CASE FetchFail(j)
    BY <2>1, Silent DEF FetchFail
  <2>2. CASE FetchCancelled(j)
    <3>1. UNCHANGED <<user, disk, source, handle, full, completion, stored, process>>
      BY <2>2, Zenon DEF FetchCancelled
    <3> QED
      BY <3>1, Silent
  <2>3. ASSUME NEW valid \in BOOLEAN, FetchDone(j, valid)
        PROVE  [Promise!Next]_Fate
    BY <2>3, Silent DEF FetchDone
  <2> QED
    BY <1>2, <2>1, <2>2, <2>3 DEF Fetch
<1>3. ASSUME NEW j \in Jobs, Thread(j)
      PROVE  [Promise!Next]_Fate
  <2>1. worker[j] # "idle" /\ phase' = phase
    BY <1>3 DEF Thread, ZipDone, Encrypted, ThreadFails, Busy
  <2>2. phase[j] \in {"accepted", "doomed"}
    BY <2>1 DEF Inv, JobInv, AgreeInv
  <2>3. /\ blobs'[j] = blobs[j] \/ blobs'[j] > 0
        /\ \A i \in Jobs \ {j} : blobs'[i] = blobs[i]
    <3>1. CASE ZipDone(j)
      BY <3>1 DEF ZipDone
    <3>2. CASE Encrypted(j) \/ ThreadFails(j)
      BY <3>2 DEF Encrypted, ThreadFails, Land, TypeOK
    <3> QED
      BY <1>3, <3>1, <3>2 DEF Thread
  <2>4. \A i \in Jobs \ {j} : FateOf(i)' = FateOf(i)
    BY <2>1, <2>3 DEF FateOf, Told
  <2> QED
    BY <2>1, <2>2, <2>3, <2>4, FateMoves DEF FateOf, Told
<1>4. ASSUME NEW j \in Jobs, Request(j)
      PROVE  [Promise!Next]_Fate
  <2>1. CASE AddTorrent(j) \/ AddRefused(j) \/ AddRemote(j)
    <3>1. /\ phase[j] = "new" /\ phase'[j] \in {"accepted", "refused"} /\ blobs' = blobs
          /\ \A i \in Jobs \ {j} : phase'[i] = phase[i]
      BY <2>1 DEF AddTorrent, AddRefused, AddRemote, TypeOK
    <3> QED
      BY <3>1, ToldMoves
  <2>2. CASE Pause(j) \/ Resume(j) \/ RetryHandle(j) \/ RetryFetch(j)
    <3>1. phase' = phase /\ blobs' = blobs
      BY <2>2 DEF Pause, Resume, RetryHandle, RetryFetch
    <3> QED
      BY <3>1, Silent
  <2>3. CASE Cancel(j) /\ Registered(j)
    <3>1. /\ phase'[j] = "doomed" /\ blobs' = blobs /\ j \in listed
          /\ \A i \in Jobs \ {j} : phase'[i] = phase[i]
      BY <2>3 DEF Cancel, Cancellable, TypeOK
    <3>2. phase[j] \in {"accepted", "doomed"}
      <4>1. phase[j] \in {"accepted", "refused", "doomed"} /\ source[j] = "none"
        BY <2>3, <3>1 DEF Inv, JobInv, AgreeInv, Registered
      <4> QED
        BY <4>1 DEF Inv, JobInv, AgreeInv
    <3> QED
      BY <3>1, <3>2, ToldMoves
  <2>4. CASE (Cancel(j) /\ ~Registered(j)) \/ CancelFinish(j)
    <3>1. /\ Wipe(j)
          /\ \/ j \in listed /\ rec[j].status # "completed"
             \/ j \in waiting
      BY <2>4 DEF Cancel, CancelFinish, Cancellable
    <3>2. ~rec[j].blob /\ phase[j] \in {"accepted", "refused", "doomed", "cancelled"}
      BY <3>1 DEF Inv, JobInv, AgreeInv
    <3>3. /\ phase'[j] = IF phase[j] = "refused" THEN "refused" ELSE "cancelled"
          /\ blobs' = blobs
          /\ \A i \in Jobs \ {j} : phase'[i] = phase[i]
      BY <3>1, <3>2 DEF Wipe, TypeOK
    <3> QED
      BY <3>2, <3>3, ToldMoves
  <2> QED
    BY <1>4, <2>1, <2>2, <2>3, <2>4 DEF Request
<1>5. ASSUME NEW j \in Jobs, CrashInCancel(j)
      PROVE  [Promise!Next]_Fate
  <2>1. /\ phase'[j] = phase[j] \/ (phase[j] = "accepted" /\ phase'[j] = "doomed")
        /\ \A i \in Jobs \ {j} : phase'[i] = phase[i]
        /\ blobs' = blobs
    BY <1>5 DEF CrashInCancel, Crashes, Die, TypeOK
  <2> QED
    BY <2>1, ToldMoves
<1>6. CASE LockPassed \/ LockFails \/ PollLoop \/ Process \/ UNCHANGED vars
  <2>1. phase' = phase /\ blobs' = blobs
    BY <1>6 DEF LockPassed, LockFails, BeginFails, PollLoop, Poll, PollNext, Flush, Process, Stop, StopFlush, Exit,
                Crash, Crashes, Restart, Die, vars
  <2> QED
    BY <2>1, Silent
<1> QED
  BY <1>1, <1>2, <1>3, <1>4, <1>5, <1>6 DEF Next

\* An accepted torrent is delivered or cancelled, and neither is taken back.
THEOREM DeliversHolds == OfferedOnly => (Spec => Delivers)
<1> SUFFICES ASSUME OfferedOnly PROVE Spec => Delivers
  OBVIOUS
<1>1. Init => Promise!Init
  BY DEF Init, Promise!Init, Fate, Told
<1>2. TypeOK /\ Base /\ Inv /\ [Next]_vars => [Promise!Next]_Fate
  BY FateStep
<1> QED
  BY <1>1, <1>2, InvHolds, PTL DEF Spec, Delivers, Promise!Spec
=============================================================================
