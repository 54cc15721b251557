--------------------------- MODULE HttpJobsProofs ---------------------------
(***************************************************************************)
(* Theorems about HttpJobs, for every set of jobs, every bound on faults   *)
(* and both values of StaleClicks unless a theorem says otherwise.         *)
(***************************************************************************)
EXTENDS HttpJobs, TLAPS

\* A saved snapshot is a snapshot, whatever the record's status.
LEMMA SnapshotType ==
    ASSUME NEW r \in Record(Names)
    PROVE  ToSnapshot(r) \in Snapshot(Names) \cup {NoSnapshot}
BY DEF Record, Snapshot, ToSnapshot, Persistable, Statuses, States

\* touch and persist_job keep the types of the records and the snapshots.
LEMMA SaveType ==
    ASSUME TypeOK, NEW j \in Jobs, NEW r \in Record(Names), Save(j, r)
    PROVE  /\ rec' \in [Jobs -> Record(Names)]
           /\ disk' \in [Jobs -> Snapshot(Names) \cup {NoSnapshot}]
BY SnapshotType DEF TypeOK, Save, Persist

\* flush_dirty_jobs keeps the type of the snapshots.
LEMMA FlushType ==
    ASSUME TypeOK
    PROVE  Flushed \in [Jobs -> Snapshot(Names) \cup {NoSnapshot}]
BY SnapshotType DEF TypeOK, Flushed

\* What a restart makes of a snapshot is a record in a status of its own, and
\* still paused if the snapshot says so.
LEMMA RestoredType ==
    ASSUME TypeOK, NEW j \in Jobs, Saved(disk[j])
    PROVE  /\ RestoredRecord(j) \in Record(Names)
           /\ RestoredRecord(j).status \in {"failed", "encrypting", "paused", "downloading"}
           /\ disk[j].user_paused => RestoredRecord(j).user_paused
<1>1. disk[j] \in Snapshot(Names)
  BY DEF TypeOK, Saved, NoSnapshot
<1>2. /\ FromSnapshot(disk[j]) \in Record(Names)
      /\ FromSnapshot(disk[j]).status = disk[j].status
      /\ FromSnapshot(disk[j]).user_paused = disk[j].user_paused
  BY <1>1 DEF FromSnapshot, Snapshot, Record, Persistable, Statuses
<1>3. \A s \in Statuses, p \in BOOLEAN :
        /\ [FromSnapshot(disk[j]) EXCEPT !.status = s] \in Record(Names)
        /\ [FromSnapshot(disk[j]) EXCEPT !.status = s, !.user_paused = p] \in Record(Names)
        /\ [FromSnapshot(disk[j]) EXCEPT !.status = s].status = s
        /\ [FromSnapshot(disk[j]) EXCEPT !.status = s, !.user_paused = p].status = s
        /\ [FromSnapshot(disk[j]) EXCEPT !.status = s].user_paused = disk[j].user_paused
        /\ [FromSnapshot(disk[j]) EXCEPT !.status = s, !.user_paused = p].user_paused = p
  BY <1>2 DEF Record
<1>4. CASE disk[j].status = "failed"
  BY <1>2, <1>4 DEF RestoredRecord
<1>5. CASE disk[j].status # "failed" /\ Encryptable(j)
  BY <1>2, <1>3, <1>5 DEF RestoredRecord, Statuses
<1>6. CASE disk[j].status # "failed" /\ ~Encryptable(j)
  BY <1>2, <1>3, <1>6 DEF RestoredRecord, Statuses
<1> QED
  BY <1>4, <1>5, <1>6

\* Writing or removing a file keeps the type of the work dirs.
LEMMA PutType ==
    ASSUME NEW fs \in [Jobs -> [Names -> Content]], NEW j \in Jobs,
           NEW n \in Names, NEW c \in Content
    PROVE  Put(fs, j, n, c) \in [Jobs -> [Names -> Content]]
BY DEF Put

\* The wipe at the end of cancel keeps the types of what it changes.
LEMMA WipeType ==
    ASSUME TypeOK, NEW j \in Jobs, Wipe(j)
    PROVE  /\ phase' \in [Jobs -> {"new", "accepted", "doomed", "cancelled"}]
           /\ listed' \in SUBSET Jobs
           /\ disk' \in [Jobs -> Snapshot(Names) \cup {NoSnapshot}]
           /\ files' \in [Jobs -> [Names -> Content]]
           /\ blobs' \in [Jobs -> Nat]
<1>1. blobs' \in [Jobs -> Nat]
  <2>1. blobs[j] > 0 => blobs[j] - 1 \in Nat
    BY DEF TypeOK
  <2> QED
    BY <2>1 DEF Wipe, TypeOK
<1> QED
  BY <1>1 DEF Wipe, Drop, TypeOK, NoFiles, Content

-----------------------------------------------------------------------------
\* Every step of the system keeps the types.
LEMMA TypeStep ==
    ASSUME TypeOK, [Next]_vars
    PROVE  TypeOK'
<1> USE DEF DlPlaces, FinPlaces, WorkerStates, Content, NoFiles
<1>1. ASSUME NEW j \in Jobs, Download(j)
      PROVE  TypeOK'
  <2> rec[j] \in Record(Names) /\ rec[j].name \in Names /\ rec[j].user_paused \in BOOLEAN
    BY DEF TypeOK, Record
  <2>1. CASE LoopTop(j)
    <3>1. PICK s \in {"paused", "downloading"} : Save(j, [rec[j] EXCEPT !.status = s])
      BY <2>1 DEF LoopTop
    <3>2. [rec[j] EXCEPT !.status = s] \in Record(Names)
      BY DEF Record, Statuses
    <3> QED
      BY <2>1, <3>1, <3>2, SaveType DEF LoopTop, TypeOK
  <2>2. CASE PauseTaken(j)
    <3>1. [rec[j] EXCEPT !.status = "paused"] \in Record(Names)
      BY DEF Record, Statuses
    <3> QED
      BY <2>2, <3>1, SaveType DEF PauseTaken, TypeOK
  <2>3. CASE StreamEnd(j)
    <3>1. [rec[j] EXCEPT !.status = "encrypting", !.state = "encrypting"] \in Record(Names)
      BY DEF Record, Statuses, States
    <3>2. PICK c \in {"short", "full"} :
             files' = Put(files, j, rec[j].name, c) /\ BeginFinalize(j, c)
      BY <2>3 DEF StreamEnd
    <3>3. files' \in [Jobs -> [Names -> Content]]
      BY <3>2 DEF Put, TypeOK
    <3>4. /\ rec' \in [Jobs -> Record(Names)]
          /\ disk' \in [Jobs -> Snapshot(Names) \cup {NoSnapshot}]
          /\ worker' \in [Jobs -> WorkerStates]
      BY <3>1, <3>2, SaveType DEF BeginFinalize, TypeOK
    <3> QED
      BY <2>3, <3>3, <3>4 DEF StreamEnd, TypeOK
  <2>4. CASE DlError(j)
    <3>1. [rec[j] EXCEPT !.status = "failed"] \in Record(Names)
      BY DEF Record, Statuses
    <3> QED
      BY <2>4, <3>1, SaveType DEF DlError, Fail, TypeOK
  <2>5. ASSUME NEW code \in {200, 206}, NEW n \in Names, Open(j, code, n)
        PROVE  TypeOK'
    <3>1. [rec[j] EXCEPT !.name = n] \in Record(Names)
      BY DEF Record
    <3>2. /\ rec' \in [Jobs -> Record(Names)]
          /\ disk' \in [Jobs -> Snapshot(Names) \cup {NoSnapshot}]
      BY <2>5, <3>1, SaveType DEF Open, TypeOK
    <3>3. \A c \in Content : Resumed(c) \in Content
      BY DEF Resumed
    <3>4. files[j] \in [Names -> Content]
      BY DEF TypeOK
    <3>5. Opened(j, code, n) \in [Names -> Content]
      BY <3>3, <3>4 DEF Opened, TypeOK
    <3>6. files' \in [Jobs -> [Names -> Content]]
      BY <2>5, <3>5 DEF Open, TypeOK
    <3> QED
      BY <2>5, <3>2, <3>6 DEF Open, TypeOK
  <2>6. ASSUME NEW c \in {"part", "full"}, Chunk(j, c)
        PROVE  TypeOK'
    <3>1. [rec[j] EXCEPT !.state = "http"] \in Record(Names)
      BY DEF Record, States
    <3> QED
      BY <2>6, <3>1 DEF Chunk, Put, TypeOK
  <2> QED
    BY <1>1, <2>1, <2>2, <2>3, <2>4, <2>5, <2>6 DEF Download
<1>2. ASSUME NEW j \in Jobs, Finalization(j)
      PROVE  TypeOK'
  <2> rec[j] \in Record(Names) /\ rec[j].name \in Names
    BY DEF TypeOK, Record
  <2>0. LeaveFinalize(j) => dl' \in [Jobs -> DlPlaces] /\ fin' \in [Jobs -> FinPlaces]
    BY DEF LeaveFinalize, TypeOK
  <2>1. CASE FinStart(j)
    <3>1. [rec[j] EXCEPT !.status = "encrypting", !.state = "encrypting"] \in Record(Names)
      BY DEF Record, Statuses, States
    <3> QED
      BY <2>1, <3>1, SaveType DEF FinStart, BeginFinalize, Dest, TypeOK
  <2>2. CASE Complete(j)
    <3>1. Completed(j) \in Record(Names)
      BY DEF Completed, Record, Statuses, Names
    <3> QED
      BY <2>0, <2>2, <3>1 DEF Complete, Drop, TypeOK
  <2>3. CASE FinalizeFail(j)
    <3>1. [rec[j] EXCEPT !.status = "failed"] \in Record(Names)
      BY DEF Record, Statuses
    <3> QED
      BY <2>0, <2>3, <3>1, SaveType DEF FinalizeFail, Fail, TypeOK
  <2> QED
    BY <1>2, <2>1, <2>2, <2>3 DEF Finalization
<1>3. ASSUME NEW j \in Jobs, Thread(j)
      PROVE  TypeOK'
  <2>1. CASE WorkerDone(j)
    BY <2>1 DEF WorkerDone, Land, TypeOK
  <2>2. CASE WorkerFail(j)
    <3>1. /\ blobs' \in [Jobs -> Nat] /\ torn' \in SUBSET Jobs
          /\ faults' \in 0..MaxFaults
      BY <2>2, MaxFaultsAssumption DEF WorkerFail, Land, TypeOK
    <3>2. worker' \in [Jobs -> WorkerStates]
      BY <2>2 DEF WorkerFail, TypeOK
    <3> QED
      BY <2>2, <3>1, <3>2 DEF WorkerFail, TypeOK
  <2> QED
    BY <1>3, <2>1, <2>2 DEF Thread
<1>4. ASSUME NEW j \in Jobs, Request(j)
      PROVE  TypeOK'
  <2> rec[j] \in Record(Names) /\ rec[j].name \in Names
    BY DEF TypeOK, Record
  <2>1. CASE Add(j)
    <3>1. [NewRecord("url") EXCEPT !.status = "downloading"] \in Record(Names)
      BY DEF NewRecord, Record, Statuses, States, Names
    <3> QED
      BY <2>1, <3>1, SaveType DEF Add, TypeOK
  <2>2. CASE Pause(j)
    <3>1. [rec[j] EXCEPT !.status = "paused", !.user_paused = TRUE] \in Record(Names)
      BY DEF Record, Statuses
    <3> QED
      BY <2>2, <3>1, SaveType DEF Pause, TypeOK
  <2>3. CASE Resume(j)
    <3>1. [rec[j] EXCEPT !.status = "downloading", !.user_paused = FALSE] \in Record(Names)
      BY DEF Record, Statuses
    <3> QED
      BY <2>3, <3>1, SaveType DEF Resume, TypeOK
  <2>4. CASE Retry(j)
    <3>1. /\ [rec[j] EXCEPT !.status = "encrypting", !.user_paused = FALSE] \in Record(Names)
          /\ [rec[j] EXCEPT !.status = "downloading", !.user_paused = FALSE,
                            !.state = "http"] \in Record(Names)
      BY DEF Record, Statuses, States
    <3>2. rec' \in [Jobs -> Record(Names)]
      BY <2>4, <3>1 DEF Retry, TypeOK
    <3>3. files' \in [Jobs -> [Names -> Content]]
      <4>1. files' = files \/ files' = Put(files, j, rec[j].name, "none")
        BY <2>4 DEF Retry
      <4>2. files \in [Jobs -> [Names -> Content]]
        BY DEF TypeOK
      <4> HIDE DEF Content
      <4>3. Put(files, j, rec[j].name, "none") \in [Jobs -> [Names -> Content]]
        <5>1. "none" \in Content
          BY DEF Content
        <5> QED
          BY <4>2, <5>1, PutType
      <4> QED
        BY <4>1, <4>2, <4>3
    <3>4. dl' \in [Jobs -> DlPlaces] /\ fin' \in [Jobs -> FinPlaces]
      BY <2>4 DEF Retry, TypeOK
    <3> QED
      BY <2>4, <3>2, <3>3, <3>4 DEF Retry, TypeOK
  <2>5. CASE Cancel(j)
    <3>1. CASE Wipe(j)
      BY <2>5, <3>1, WipeType DEF Cancel, TypeOK
    <3>2. CASE ~Wipe(j)
      BY <2>5, <3>2 DEF Cancel, TypeOK
    <3> QED
      BY <3>1, <3>2
  <2> QED
    BY <1>4, <2>1, <2>2, <2>3, <2>4, <2>5 DEF Request
<1>5. ASSUME NEW j \in Jobs, TaskCancelled(j)
      PROVE  TypeOK'
  <2>1. rec[j] \in Record(Names)
    BY DEF TypeOK
  <2>2. [rec[j] EXCEPT !.status = "cancelled"] \in Record(Names)
    BY <2>1 DEF Record, Statuses
  <2> QED
    BY <1>5, <2>2 DEF TaskCancelled, TypeOK
<1>6. ASSUME NEW j \in Jobs, CancelFinish(j)
      PROVE  TypeOK'
  BY <1>6, WipeType DEF CancelFinish, TypeOK
<1>7. ASSUME NEW j \in Jobs, CrashInComplete(j)
      PROVE  TypeOK'
  BY <1>7, MaxFaultsAssumption DEF CrashInComplete, Die, Drop, TypeOK
<1>8. ASSUME NEW j \in Jobs, CrashInCancel(j)
      PROVE  TypeOK'
  <2>1. phase' \in [Jobs -> {"new", "accepted", "doomed", "cancelled"}]
    BY <1>8 DEF CrashInCancel, TypeOK
  <2>2. disk' \in [Jobs -> Snapshot(Names) \cup {NoSnapshot}]
    BY <1>8 DEF CrashInCancel, Drop, TypeOK
  <2>3. files' \in [Jobs -> [Names -> Content]]
    BY <1>8 DEF CrashInCancel, TypeOK
  <2> QED
    BY <1>8, <2>1, <2>2, <2>3, MaxFaultsAssumption DEF CrashInCancel, TypeOK
<1>9. CASE Process
  <2>1. CASE Flush \/ StopFlush
    BY <2>1, FlushType DEF Flush, StopFlush, TypeOK
  <2>2. CASE Stop
    BY <2>2, MaxFaultsAssumption DEF Stop, TypeOK
  <2>3. CASE Exit \/ Crash
    BY <2>3, MaxFaultsAssumption DEF Exit, Crash, Die, TypeOK
  <2>4. CASE Restart
    <3>1. \A j \in Jobs : Saved(disk[j]) =>
             /\ RestoredRecord(j) \in Record(Names)
             /\ ToSnapshot(RestoredRecord(j)) \in Snapshot(Names) \cup {NoSnapshot}
      BY RestoredType, SnapshotType
    <3> QED
      BY <2>4, <3>1 DEF Restart, TypeOK
  <2> QED
    BY <1>9, <2>1, <2>2, <2>3, <2>4 DEF Process
<1>10. CASE UNCHANGED vars
  BY <1>10 DEF vars, TypeOK
<1> QED
  BY <1>1, <1>2, <1>3, <1>4, <1>5, <1>6, <1>7, <1>8, <1>9, <1>10 DEF Next

\* The types hold initially.
LEMMA InitType == Init => TypeOK
BY MaxFaultsAssumption DEF Init, TypeOK, NewRecord, Record, Statuses, States, Names,
   NoFiles, Content, DlPlaces, FinPlaces, WorkerStates

\* Every variable has its type in every state the download manager reaches.
THEOREM TypeCorrect == Spec => []TypeOK
<1>1. TypeOK /\ [Next]_vars => TypeOK'
  BY TypeStep
<1> QED
  BY <1>1, InitType, PTL DEF Spec

-----------------------------------------------------------------------------
(* The invariant, job by job.  It holds for both values of StaleClicks.    *)

NoTask(j) == dl[j] = "none" /\ fin[j] = "none"

JobInv(j) ==
    \* one coroutine at a time, and alone with the thread
    /\ dl[j] = "none" \/ fin[j] = "none"
    /\ worker[j] # "idle" => dl[j] \in {"none", "encrypt"} /\ fin[j] # "start"
    \* a status in which Retry is allowed, or nothing, means that all has ended
    /\ rec[j].status \in {"failed", "completed", "cancelled"} => NoTask(j)
    /\ rec[j].status \in {"failed", "completed"} => worker[j] = "idle"
    \* a job not yet created has left no trace
    /\ phase[j] = "new" => /\ NoTask(j) /\ worker[j] = "idle" /\ ~Saved(disk[j])
                           /\ j \notin listed /\ j \notin waiting
    /\ mode = "down" => /\ NoTask(j) /\ worker[j] = "idle"
                        /\ j \notin listed /\ j \notin waiting
    \* an accepted job is safe, and job.json is dropped only after the blob landed
    /\ j \in waiting => phase[j] # "accepted"
    /\ phase[j] = "accepted" => Saved(disk[j]) \/ blobs[j] > 0
    /\ phase[j] = "accepted" /\ worker[j] = "done" => blobs[j] > 0
    \* a pause is known to the record, and to whatever snapshot there is
    /\ j \in held => /\ phase[j] # "new" /\ rec[j].user_paused
                     /\ Saved(disk[j]) => disk[j].user_paused

\* With requests made only where the web UI offers them, encryption is a
\* status of its own, and a cancelled job is quiet.
Encrypts(j) == dl[j] = "encrypt" \/ fin[j] # "none" \/ worker[j] # "idle"

OfferedInv(j) ==
    /\ Encrypts(j) => rec[j].status = "encrypting"
    /\ j \in waiting => ~Encrypts(j) /\ rec[j].status \in {"downloading", "paused", "cancelled"}
    /\ rec[j].blob => rec[j].status = "completed"
    /\ rec[j].status = "queued" => phase[j] = "new"
    /\ phase[j] = "cancelled" =>
          /\ j \notin listed /\ ~Saved(disk[j]) /\ files[j] = NoFiles
          /\ ~Encrypts(j) /\ (dl[j] # "none" => j \in waiting)
    /\ Shows(j, "downloading") \/ Shows(j, "paused") \/ Shows(j, "encrypting")
          => dl[j] # "none" \/ fin[j] # "none" \/ j \in waiting

-----------------------------------------------------------------------------
\* Nothing that JobInv and OfferedInv read of job i changes, except perhaps
\* the mode of the process.
Same(i) ==
    /\ phase'[i] = phase[i] /\ (i \in held' <=> i \in held)
    /\ (i \in listed' <=> i \in listed)
    /\ rec'[i] = rec[i] /\ disk'[i] = disk[i] /\ files'[i] = files[i]
    /\ dl'[i] = dl[i] /\ fin'[i] = fin[i] /\ (i \in waiting' <=> i \in waiting)
    /\ worker'[i] = worker[i] /\ blobs'[i] = blobs[i]

\* A step that leaves job i and the mode alone keeps its invariants.
LEMMA Frame ==
    ASSUME NEW i \in Jobs, Same(i), mode' = mode
    PROVE  /\ JobInv(i) => JobInv(i)'
           /\ OfferedInv(i) => OfferedInv(i)'
<1>1. JobInv(i) => JobInv(i)'
  BY DEF Same, JobInv, NoTask
<1>2. OfferedInv(i) => OfferedInv(i)'
  BY DEF Same, OfferedInv, Encrypts, Shows
<1> QED
  BY <1>1, <1>2

\* touch and persist_job: what they do to the job, and to no other.
LEMMA SaveEffect ==
    ASSUME TypeOK, NEW j \in Jobs, NEW r, Save(j, r)
    PROVE  /\ rec'[j] = r /\ disk'[j] = ToSnapshot(r)
           /\ \A i \in Jobs \ {j} : rec'[i] = rec[i] /\ disk'[i] = disk[i]
BY DEF TypeOK, Save, Persist

\* A record in a status that survives a restart is saved as it is.
LEMMA SnapshotSaves ==
    ASSUME NEW r
    PROVE  /\ r.status \in Persistable =>
                 Saved(ToSnapshot(r)) /\ ToSnapshot(r).user_paused = r.user_paused
           /\ Saved(ToSnapshot(r)) => ToSnapshot(r).user_paused = r.user_paused
           /\ ~Saved(NoSnapshot)
BY DEF Saved, ToSnapshot, NoSnapshot, Persistable

\* The start of _finalize_path: the job is saved as one that is encrypting.
LEMMA BeginEffect ==
    ASSUME TypeOK, NEW j \in Jobs, NEW c, BeginFinalize(j, c)
    PROVE  /\ rec'[j].status = "encrypting" /\ rec'[j].blob = rec[j].blob
           /\ rec'[j].user_paused = rec[j].user_paused
           /\ Saved(disk'[j]) /\ disk'[j].user_paused = rec[j].user_paused
           /\ worker'[j] = c
           /\ \A i \in Jobs \ {j} :
                 rec'[i] = rec[i] /\ disk'[i] = disk[i] /\ worker'[i] = worker[i]
<1> DEFINE r == [rec[j] EXCEPT !.status = "encrypting", !.state = "encrypting"]
<1>1. /\ r.status = "encrypting" /\ r.blob = rec[j].blob
      /\ r.user_paused = rec[j].user_paused
  <2>1. rec[j] \in Record(Names)
    BY DEF TypeOK
  <2> QED
    BY <2>1 DEF Record
<1>2. Save(j, r) /\ worker' = [worker EXCEPT ![j] = c]
  BY DEF BeginFinalize
<1> HIDE DEF r
<1>3. rec'[j] = r /\ Saved(disk'[j]) /\ disk'[j].user_paused = r.user_paused
  BY <1>1, <1>2, SaveEffect, SnapshotSaves DEF Persistable
<1> QED
  BY <1>1, <1>2, <1>3, SaveEffect DEF TypeOK

\* A coroutine leaves _finalize_path; no other coroutine drives the job.
LEMMA LeaveEffect ==
    ASSUME TypeOK, NEW j \in Jobs, JobInv(j), LeaveFinalize(j)
    PROVE  /\ dl'[j] = "none" /\ fin'[j] = "none"
           /\ dl[j] = "encrypt" \/ fin[j] = "encrypt"
           /\ \A i \in Jobs \ {j} : dl'[i] = dl[i] /\ fin'[i] = fin[i]
BY DEF TypeOK, JobInv, LeaveFinalize

\* The wipe at the end of cancel: what it does to the job, and to no other.
LEMMA WipeEffect ==
    ASSUME TypeOK, NEW j \in Jobs, Wipe(j)
    PROVE  /\ phase'[j] = "cancelled" /\ j \notin listed' /\ ~Saved(disk'[j])
           /\ files'[j] = NoFiles
           /\ ~rec[j].blob => blobs'[j] = blobs[j]
           /\ \A i \in Jobs \ {j} :
                 /\ phase'[i] = phase[i] /\ (i \in listed' <=> i \in listed)
                 /\ disk'[i] = disk[i] /\ files'[i] = files[i] /\ blobs'[i] = blobs[i]
BY DEF TypeOK, Wipe, Drop, Saved, NoSnapshot

\* A process that is gone has no coroutine, thread or list.
LEMMA DieEffect ==
    ASSUME NEW j \in Jobs, Die
    PROVE  /\ mode' = "down" /\ NoTask(j)' /\ worker'[j] = "idle"
           /\ j \notin listed' /\ j \notin waiting'
           /\ phase' = phase /\ held' = held /\ rec' = rec /\ blobs' = blobs
BY DEF Die, NoTask

\* flush_dirty_jobs saves what it saves as it is, and drops nothing.
LEMMA FlushEffect ==
    ASSUME TypeOK, NEW j \in Jobs
    PROVE  /\ Saved(disk[j]) => Saved(Flushed[j])
           /\ j \notin listed => Flushed[j] = disk[j]
           /\ \/ Flushed[j] = disk[j]
              \/ Flushed[j].user_paused = rec[j].user_paused
<1>1. CASE j \in listed /\ rec[j].status \in Persistable
  BY <1>1, SnapshotSaves DEF Flushed
<1>2. CASE ~(j \in listed /\ rec[j].status \in Persistable)
  BY <1>2 DEF Flushed
<1> QED
  BY <1>1, <1>2

-----------------------------------------------------------------------------
Inv == TypeOK /\ \A j \in Jobs : JobInv(j)

\* The steps of the download task of a job keep the invariant of the job.
LEMMA DownloadStep ==
    ASSUME Inv, NEW j \in Jobs, Download(j)
    PROVE  JobInv(j)' /\ \A i \in Jobs \ {j} : Same(i) /\ mode' = mode
<1> rec[j] \in Record(Names)
  BY DEF Inv, TypeOK
<1> TypeOK /\ JobInv(j)
  BY DEF Inv
<1>1. CASE LoopTop(j)
  <2>1. PICK s \in {"paused", "downloading"} :
           /\ Save(j, [rec[j] EXCEPT !.status = s])
           /\ s = "paused" => dl'[j] = "wait"
           /\ s = "downloading" => dl'[j] = "connect" /\ ~rec[j].user_paused
    BY <1>1 DEF LoopTop, TypeOK
  <2>2. /\ rec'[j].status = s /\ rec'[j].user_paused = rec[j].user_paused
        /\ Saved(disk'[j]) /\ disk'[j].user_paused = rec[j].user_paused
    BY <2>1, SaveEffect, SnapshotSaves DEF Record, Persistable
  <2>3. dl[j] # "none" /\ dl[j] # "encrypt" /\ dl'[j] \in {"wait", "connect"}
    BY <1>1, <2>1 DEF LoopTop
  <2>4. UNCHANGED <<phase, held, listed, files, fin, waiting, worker, blobs, mode>>
    BY <1>1 DEF LoopTop
  <2>5. JobInv(j)'
    BY <2>1, <2>2, <2>3, <2>4 DEF JobInv, NoTask
  <2>6. \A i \in Jobs \ {j} : Same(i)
    BY <1>1, <2>1, <2>4, SaveEffect DEF LoopTop, Same, TypeOK
  <2> QED
    BY <2>4, <2>5, <2>6
<1>2. CASE PauseTaken(j)
  <2>0. Save(j, [rec[j] EXCEPT !.status = "paused"])
    BY <1>2 DEF PauseTaken
  <2>1. /\ rec'[j].status = "paused" /\ rec'[j].user_paused = rec[j].user_paused
        /\ Saved(disk'[j]) /\ disk'[j].user_paused = rec[j].user_paused
    BY <2>0, SaveEffect, SnapshotSaves DEF Record, Persistable
  <2>2. dl[j] = "stream" /\ dl'[j] = "wait"
    BY <1>2 DEF PauseTaken, TypeOK
  <2>3. UNCHANGED <<phase, held, listed, files, fin, waiting, worker, blobs, mode>>
    BY <1>2 DEF PauseTaken
  <2>4. JobInv(j)'
    BY <2>1, <2>2, <2>3 DEF JobInv, NoTask
  <2>5. \A i \in Jobs \ {j} : Same(i)
    BY <1>2, <2>3, SaveEffect DEF PauseTaken, Same, TypeOK
  <2> QED
    BY <2>3, <2>4, <2>5
<1>3. CASE StreamEnd(j)
  <2>1. PICK c \in {"short", "full"} :
           files' = Put(files, j, rec[j].name, c) /\ BeginFinalize(j, c)
    BY <1>3 DEF StreamEnd
  <2>2. dl[j] = "stream" /\ dl'[j] = "encrypt"
    BY <1>3 DEF StreamEnd, TypeOK
  <2>3. UNCHANGED <<phase, held, listed, fin, waiting, blobs, mode>>
    BY <1>3 DEF StreamEnd
  <2>4. JobInv(j)'
    BY <2>1, <2>2, <2>3, BeginEffect DEF JobInv, NoTask, Content
  <2>5. \A i \in Jobs \ {j} : Same(i)
    BY <1>3, <2>1, <2>3, BeginEffect DEF StreamEnd, Put, Same, TypeOK
  <2> QED
    BY <2>3, <2>4, <2>5
<1>4. CASE DlError(j)
  <2>1. /\ rec'[j].status = "failed" /\ rec'[j].user_paused = rec[j].user_paused
        /\ Saved(disk'[j]) /\ disk'[j].user_paused = rec[j].user_paused
    BY <1>4, SaveEffect, SnapshotSaves DEF DlError, Fail, Record, Persistable
  <2>2. dl[j] \in {"connect", "stream"} /\ dl'[j] = "none"
    BY <1>4 DEF DlError, TypeOK
  <2>3. UNCHANGED <<phase, held, listed, files, fin, waiting, worker, blobs, mode>>
    BY <1>4 DEF DlError
  <2>4. JobInv(j)'
    BY <2>1, <2>2, <2>3 DEF JobInv, NoTask
  <2>5. \A i \in Jobs \ {j} : Same(i)
    BY <1>4, <2>3, SaveEffect DEF DlError, Fail, Same, TypeOK
  <2> QED
    BY <2>3, <2>4, <2>5
<1>5. ASSUME NEW code \in {200, 206}, NEW n \in Names, Open(j, code, n)
      PROVE  JobInv(j)' /\ \A i \in Jobs \ {j} : Same(i) /\ mode' = mode
  <2>1. \/ UNCHANGED <<rec, disk>>
        \/ Save(j, [rec[j] EXCEPT !.name = n])
    BY <1>5 DEF Open
  <2>2. dl[j] = "connect" /\ dl'[j] = "stream"
    BY <1>5 DEF Open, TypeOK
  <2>3. rec[j].status \in Persistable
    BY <2>2 DEF JobInv, NoTask, Record, Statuses, Persistable
  <2>4. /\ rec'[j].status = rec[j].status /\ rec'[j].user_paused = rec[j].user_paused
        /\ Saved(disk[j]) => Saved(disk'[j])
        /\ disk'[j] = disk[j] \/ disk'[j].user_paused = rec[j].user_paused
    <3>1. CASE UNCHANGED <<rec, disk>>
      BY <3>1
    <3>2. CASE Save(j, [rec[j] EXCEPT !.name = n])
      BY <2>3, <3>2, SaveEffect, SnapshotSaves DEF Record
    <3> QED
      BY <2>1, <3>1, <3>2
  <2>5. UNCHANGED <<phase, held, listed, fin, waiting, worker, blobs, mode>>
    BY <1>5 DEF Open
  <2>6. JobInv(j)'
    BY <2>2, <2>4, <2>5 DEF JobInv, NoTask
  <2>7. \A i \in Jobs \ {j} : files'[i] = files[i] /\ dl'[i] = dl[i]
    BY <1>5 DEF Open, TypeOK
  <2>8. \A i \in Jobs \ {j} : Same(i)
    BY <2>1, <2>5, <2>7, SaveEffect DEF Same
  <2> QED
    BY <2>5, <2>6, <2>8
<1>6. ASSUME NEW c \in {"part", "full"}, Chunk(j, c)
      PROVE  JobInv(j)' /\ \A i \in Jobs \ {j} : Same(i) /\ mode' = mode
  <2>1. rec'[j].status = rec[j].status /\ rec'[j].user_paused = rec[j].user_paused
    BY <1>6 DEF Chunk, TypeOK, Record
  <2>2. UNCHANGED <<phase, held, listed, disk, dl, fin, waiting, worker, blobs, mode>>
    BY <1>6 DEF Chunk
  <2>3. JobInv(j)'
    BY <2>1, <2>2 DEF JobInv, NoTask
  <2>4. \A i \in Jobs \ {j} : Same(i)
    BY <1>6, <2>2 DEF Chunk, Put, Same, TypeOK
  <2> QED
    BY <2>2, <2>3, <2>4
<1> QED
  BY <1>1, <1>2, <1>3, <1>4, <1>5, <1>6 DEF Download

\* So do the steps that end an encryption.
LEMMA FinalizationStep ==
    ASSUME Inv, NEW j \in Jobs, Finalization(j)
    PROVE  JobInv(j)' /\ \A i \in Jobs \ {j} : Same(i) /\ mode' = mode
<1> rec[j] \in Record(Names)
  BY DEF Inv, TypeOK
<1> TypeOK /\ JobInv(j)
  BY DEF Inv
<1>1. CASE FinStart(j)
  <2>1. BeginFinalize(j, Dest(j)) /\ Dest(j) \in Content
    BY <1>1 DEF FinStart, Dest, TypeOK, Record
  <2>2. fin[j] = "start" /\ fin'[j] = "encrypt"
    BY <1>1 DEF FinStart, TypeOK
  <2>3. UNCHANGED <<phase, held, listed, files, dl, waiting, blobs, mode>>
    BY <1>1 DEF FinStart
  <2>4. JobInv(j)'
    BY <2>1, <2>2, <2>3, BeginEffect DEF JobInv, NoTask, Content
  <2>5. \A i \in Jobs \ {j} : Same(i)
    BY <1>1, <2>1, <2>3, BeginEffect DEF FinStart, Same, TypeOK
  <2> QED
    BY <2>3, <2>4, <2>5
<1>2. CASE Complete(j)
  <2>1. /\ rec'[j].status = "completed" /\ rec'[j].user_paused = rec[j].user_paused
        /\ ~Saved(disk'[j])
    BY <1>2 DEF Complete, Completed, Drop, Saved, NoSnapshot, Record, TypeOK
  <2>2. worker[j] = "done" /\ worker'[j] = "idle"
    BY <1>2 DEF Complete, TypeOK
  <2>3. UNCHANGED <<phase, held, listed, waiting, blobs, mode>>
    BY <1>2 DEF Complete
  <2>4. LeaveFinalize(j)
    BY <1>2 DEF Complete
  <2>5. JobInv(j)'
    BY <2>1, <2>2, <2>3, <2>4, LeaveEffect DEF JobInv, NoTask
  <2>6. \A i \in Jobs \ {j} : Same(i)
    BY <1>2, <2>3, <2>4, LeaveEffect DEF Complete, Drop, Same, TypeOK
  <2> QED
    BY <2>3, <2>5, <2>6
<1>3. CASE FinalizeFail(j)
  <2>1. /\ rec'[j].status = "failed" /\ rec'[j].user_paused = rec[j].user_paused
        /\ Saved(disk'[j]) /\ disk'[j].user_paused = rec[j].user_paused
    BY <1>3, SaveEffect, SnapshotSaves DEF FinalizeFail, Fail, Record, Persistable
  <2>2. worker[j] = "error" /\ worker'[j] = "idle"
    BY <1>3 DEF FinalizeFail, TypeOK
  <2>3. UNCHANGED <<phase, held, listed, files, waiting, blobs, mode>>
    BY <1>3 DEF FinalizeFail
  <2>4. LeaveFinalize(j)
    BY <1>3 DEF FinalizeFail
  <2>5. JobInv(j)'
    BY <2>1, <2>2, <2>3, <2>4, LeaveEffect DEF JobInv, NoTask
  <2>6. \A i \in Jobs \ {j} : Same(i)
    BY <1>3, <2>3, <2>4, LeaveEffect, SaveEffect DEF FinalizeFail, Fail, Same, TypeOK
  <2> QED
    BY <2>3, <2>5, <2>6
<1> QED
  BY <1>1, <1>2, <1>3 DEF Finalization

\* So do the steps of the worker thread.
LEMMA ThreadStep ==
    ASSUME Inv, NEW j \in Jobs, Thread(j)
    PROVE  JobInv(j)' /\ \A i \in Jobs \ {j} : Same(i) /\ mode' = mode
<1> TypeOK /\ JobInv(j)
  BY DEF Inv
<1>1. /\ worker[j] # "idle" /\ worker[j] # "done"
      /\ worker'[j] \in {"done", "error"}
      /\ worker'[j] = "done" => blobs'[j] > 0
      /\ blobs[j] > 0 => blobs'[j] > 0
  BY DEF Thread, WorkerDone, WorkerFail, Land, Busy, Content, TypeOK
<1>2. UNCHANGED <<phase, held, listed, rec, disk, files, dl, fin, waiting, mode>>
  BY DEF Thread, WorkerDone, WorkerFail
<1>3. JobInv(j)'
  BY <1>1, <1>2 DEF JobInv, NoTask
<1>4. \A i \in Jobs \ {j} : Same(i)
  BY <1>2 DEF Thread, WorkerDone, WorkerFail, Land, Same, TypeOK
<1> QED
  BY <1>2, <1>3, <1>4

\* So do the requests.
LEMMA RequestStep ==
    ASSUME Inv, NEW j \in Jobs, Request(j)
    PROVE  JobInv(j)' /\ \A i \in Jobs \ {j} : Same(i) /\ mode' = mode
<1> rec[j] \in Record(Names)
  BY DEF Inv, TypeOK
<1> TypeOK /\ JobInv(j)
  BY DEF Inv
<1>1. CASE Add(j)
  <2>0. Save(j, [NewRecord("url") EXCEPT !.status = "downloading"])
    BY <1>1 DEF Add
  <2>1. /\ rec'[j].status = "downloading" /\ Saved(disk'[j])
    BY <2>0, SaveEffect, SnapshotSaves DEF NewRecord, Persistable
  <2>2. phase[j] = "new" /\ phase'[j] = "accepted" /\ dl'[j] = "top" /\ mode = "up"
    BY <1>1 DEF Add, TypeOK
  <2>3. UNCHANGED <<held, files, fin, waiting, worker, blobs, mode>>
    BY <1>1 DEF Add
  <2>4. JobInv(j)'
    <3>1. j \notin held'
      BY <2>2, <2>3 DEF JobInv
    <3> QED
      BY <2>1, <2>2, <2>3, <3>1 DEF JobInv, NoTask
  <2>5. \A i \in Jobs \ {j} : Same(i)
    BY <1>1, <2>0, <2>3, SaveEffect DEF Add, Same, TypeOK
  <2> QED
    BY <2>3, <2>4, <2>5
<1>2. CASE Pause(j)
  <2>0. Save(j, [rec[j] EXCEPT !.status = "paused", !.user_paused = TRUE])
    BY <1>2 DEF Pause
  <2>1. /\ rec'[j].status = "paused" /\ rec'[j].user_paused /\ Saved(disk'[j])
        /\ disk'[j].user_paused
    <3> DEFINE r == [rec[j] EXCEPT !.status = "paused", !.user_paused = TRUE]
    <3>1. r.status = "paused" /\ r.user_paused = TRUE
      BY DEF Record
    <3>2. Save(j, r)
      BY <2>0
    <3> HIDE DEF r
    <3> QED
      BY <3>1, <3>2, SaveEffect, SnapshotSaves DEF Persistable
  <2>2. mode = "up" /\ j \in listed
    BY <1>2 DEF Pause
  <2>3. /\ UNCHANGED <<phase, listed, files, dl, fin, waiting, worker, blobs, mode>>
        /\ held' = held \cup {j}
    BY <1>2 DEF Pause
  <2>4. JobInv(j)'
    BY <2>1, <2>2, <2>3 DEF JobInv, NoTask
  <2>5. \A i \in Jobs \ {j} : Same(i)
    BY <2>0, <2>3, SaveEffect DEF Same
  <2> QED
    BY <2>3, <2>4, <2>5
<1>3. CASE Resume(j)
  <2>0. Save(j, [rec[j] EXCEPT !.status = "downloading", !.user_paused = FALSE])
    BY <1>3 DEF Resume
  <2>1. /\ rec'[j].status = "downloading" /\ Saved(disk'[j])
    <3> DEFINE r == [rec[j] EXCEPT !.status = "downloading", !.user_paused = FALSE]
    <3>1. r.status = "downloading" /\ r.user_paused = FALSE
      BY DEF Record
    <3>2. Save(j, r)
      BY <2>0
    <3> HIDE DEF r
    <3> QED
      BY <3>1, <3>2, SaveEffect, SnapshotSaves DEF Persistable
  <2>2. mode = "up" /\ j \in listed
    BY <1>3 DEF Resume
  <2>3. /\ UNCHANGED <<phase, listed, files, dl, fin, waiting, worker, blobs, mode>>
        /\ held' = held \ {j}
    BY <1>3 DEF Resume
  <2>4. JobInv(j)'
    BY <2>1, <2>2, <2>3 DEF JobInv, NoTask
  <2>5. \A i \in Jobs \ {j} : Same(i)
    BY <2>0, <2>3, SaveEffect DEF Same
  <2> QED
    BY <2>3, <2>4, <2>5
<1>4. CASE Retry(j)
  <2>1. /\ mode = "up" /\ j \in listed /\ rec[j].status = "failed"
        /\ NoTask(j) /\ worker[j] = "idle"
    BY <1>4 DEF Retry, JobInv
  <2>2. /\ rec'[j].status \in {"encrypting", "downloading"}
        /\ \A i \in Jobs \ {j} : rec'[i] = rec[i]
    <3>1. \/ rec' = [rec EXCEPT ![j].status = "encrypting", ![j].user_paused = FALSE]
          \/ rec' = [rec EXCEPT ![j].status = "downloading", ![j].user_paused = FALSE,
                                ![j].state = "http"]
      BY <1>4 DEF Retry
    <3> QED
      BY <3>1 DEF TypeOK, Record
  <2>3. /\ \/ dl'[j] = "top" /\ fin'[j] = fin[j]
           \/ fin'[j] = "start" /\ dl'[j] = dl[j]
        /\ \A i \in Jobs \ {j} : dl'[i] = dl[i] /\ fin'[i] = fin[i]
    BY <1>4 DEF Retry, TypeOK
  <2>4. /\ UNCHANGED <<phase, listed, disk, waiting, worker, blobs, mode>>
        /\ held' = held \ {j}
    BY <1>4 DEF Retry
  <2>5. JobInv(j)'
    BY <2>1, <2>2, <2>3, <2>4 DEF JobInv, NoTask
  <2>6. \A i \in Jobs \ {j} : files'[i] = files[i]
    <3>1. files' = files \/ files' = Put(files, j, rec[j].name, "none")
      BY <1>4 DEF Retry
    <3> QED
      BY <3>1 DEF Put, TypeOK
  <2>7. \A i \in Jobs \ {j} : Same(i)
    BY <2>2, <2>3, <2>4, <2>6 DEF Same
  <2> QED
    BY <2>4, <2>5, <2>7
<1>5. CASE Cancel(j)
  <2>1. UNCHANGED <<held, rec, dl, fin, worker, mode>> /\ mode = "up" /\ j \in listed
    BY <1>5 DEF Cancel
  <2>2. CASE Wipe(j)
    <3>1. Wipe(j) /\ UNCHANGED waiting
      BY <1>5, <2>2 DEF Cancel, Wipe, TypeOK
    <3>2. JobInv(j)'
      BY <2>1, <3>1, WipeEffect DEF JobInv, NoTask
    <3>3. \A i \in Jobs \ {j} : Same(i)
      BY <2>1, <3>1, WipeEffect DEF Same
    <3> QED
      BY <2>1, <3>2, <3>3
  <2>3. CASE ~Wipe(j)
    <3>1. /\ waiting' = waiting \cup {j} /\ phase' = [phase EXCEPT ![j] = "doomed"]
          /\ UNCHANGED <<listed, disk, files, blobs>>
      BY <1>5, <2>3 DEF Cancel
    <3>2. JobInv(j)'
      BY <2>1, <3>1 DEF JobInv, NoTask, TypeOK
    <3>3. \A i \in Jobs \ {j} : Same(i)
      BY <2>1, <3>1 DEF Same, TypeOK
    <3> QED
      BY <2>1, <3>2, <3>3
  <2> QED
    BY <2>2, <2>3
<1> QED
  BY <1>1, <1>2, <1>3, <1>4, <1>5 DEF Request

\* So do the two steps in which a cancellation is carried out.
LEMMA CancelStep ==
    ASSUME Inv, NEW j \in Jobs, TaskCancelled(j) \/ CancelFinish(j)
    PROVE  JobInv(j)' /\ \A i \in Jobs \ {j} : Same(i) /\ mode' = mode
<1> TypeOK /\ JobInv(j)
  BY DEF Inv
<1>1. CASE TaskCancelled(j)
  <2>1. dl[j] # "none" /\ dl'[j] = "none"
    BY <1>1 DEF TaskCancelled, Killed, TypeOK
  <2>2. /\ rec'[j].status \in {rec[j].status, "cancelled"}
        /\ rec'[j].user_paused = rec[j].user_paused
    BY <1>1 DEF TaskCancelled, TypeOK, Record
  <2>3. UNCHANGED <<phase, held, listed, disk, files, fin, waiting, worker, blobs, mode>>
    BY <1>1 DEF TaskCancelled
  <2>4. JobInv(j)'
    BY <2>1, <2>2, <2>3 DEF JobInv, NoTask
  <2>5. \A i \in Jobs \ {j} : Same(i)
    BY <1>1, <2>3 DEF TaskCancelled, Same, TypeOK
  <2> QED
    BY <2>3, <2>4, <2>5
<1>2. CASE CancelFinish(j)
  <2>1. Wipe(j) /\ waiting' = waiting \ {j} /\ mode = "up"
    BY <1>2 DEF CancelFinish
  <2>2. UNCHANGED <<held, rec, dl, fin, worker, mode>>
    BY <1>2 DEF CancelFinish
  <2>3. JobInv(j)'
    BY <2>1, <2>2, WipeEffect DEF JobInv, NoTask
  <2>4. \A i \in Jobs \ {j} : Same(i)
    BY <2>1, <2>2, WipeEffect DEF Same
  <2> QED
    BY <2>2, <2>3, <2>4
<1> QED
  BY <1>1, <1>2

\* A stop, a crash and a restart change every job; each keeps the invariant.
LEMMA ProcessStep ==
    ASSUME Inv, NEW j \in Jobs, Process
    PROVE  JobInv(j)'
<1> TypeOK /\ JobInv(j)
  BY DEF Inv
<1>1. CASE Flush \/ StopFlush
  <2>1. disk' = Flushed /\ mode' # "down"
    BY <1>1 DEF Flush, StopFlush
  <2>2. UNCHANGED <<phase, held, listed, rec, files, dl, fin, waiting, worker, blobs>>
    BY <1>1 DEF Flush, StopFlush
  <2> QED
    BY <2>1, <2>2, FlushEffect DEF JobInv, NoTask
<1>2. CASE Stop
  BY <1>2 DEF Stop, JobInv, NoTask
<1>3. CASE Exit \/ Crash
  <2>1. Die /\ UNCHANGED disk
    BY <1>3 DEF Exit, Crash
  <2> QED
    BY <2>1, DieEffect DEF JobInv, NoTask
<1>4. CASE Restart
  <2>1. /\ mode = "down" /\ mode' = "up"
        /\ UNCHANGED <<phase, held, files, waiting, worker, blobs>>
    BY <1>4 DEF Restart
  <2>2. CASE Saved(disk[j])
    <3>1. /\ rec'[j] = RestoredRecord(j) /\ disk'[j] = ToSnapshot(RestoredRecord(j))
          /\ dl'[j] = IF RestoredRecord(j).status \in {"paused", "downloading"}
                        THEN "top" ELSE "none"
          /\ fin'[j] = IF RestoredRecord(j).status = "encrypting" THEN "start" ELSE "none"
      BY <1>4, <2>2 DEF Restart
    <3>2. RestoredRecord(j).status \in {"failed", "encrypting", "paused", "downloading"}
      BY <2>2, RestoredType
    <3>3. Saved(disk'[j]) /\ disk'[j].user_paused = rec'[j].user_paused
      <4>1. rec'[j].status \in Persistable /\ disk'[j] = ToSnapshot(rec'[j])
        BY <3>1, <3>2 DEF Persistable
      <4> QED
        BY <4>1, SnapshotSaves
    <3>4. j \in held' => rec'[j].user_paused
      BY <2>1, <2>2, <3>1, RestoredType DEF JobInv
    <3> QED
      BY <2>1, <2>2, <3>1, <3>2, <3>3, <3>4 DEF JobInv, NoTask
  <2>3. CASE ~Saved(disk[j])
    <3>1. /\ rec'[j] = rec[j] /\ disk'[j] = disk[j]
          /\ dl'[j] = "none" /\ fin'[j] = "none" /\ j \notin listed'
      BY <1>4, <2>3 DEF Restart
    <3> QED
      BY <2>1, <2>3, <3>1 DEF JobInv, NoTask
  <2> QED
    BY <2>2, <2>3
<1> QED
  BY <1>1, <1>2, <1>3, <1>4 DEF Process

\* So does a crash between the steps of a handler for some job i.
LEMMA CrashStep ==
    ASSUME Inv, NEW j \in Jobs, NEW i \in Jobs, CrashInComplete(i) \/ CrashInCancel(i)
    PROVE  JobInv(j)'
<1> TypeOK /\ JobInv(j) /\ JobInv(i)
  BY DEF Inv
<1>1. CASE CrashInComplete(i)
  <2>1. Die /\ disk' = Drop(disk, i) /\ worker[i] = "done"
    BY <1>1 DEF CrashInComplete
  <2>2. Saved(disk[j]) => Saved(disk'[j]) \/ i = j
    BY <2>1 DEF Drop, TypeOK
  <2>3. Saved(disk'[j]) => disk'[j] = disk[j]
    BY <2>1 DEF Drop, Saved, NoSnapshot, TypeOK
  <2> QED
    BY <2>1, <2>2, <2>3, DieEffect DEF JobInv, NoTask
<1>2. CASE CrashInCancel(i)
  <2>1. /\ mode' = "down" /\ NoTask(j)' /\ worker'[j] = "idle"
        /\ j \notin listed' /\ j \notin waiting'
        /\ held' = held /\ rec' = rec /\ blobs' = blobs
    BY <1>2 DEF CrashInCancel, NoTask
  <2>2. IF i = j THEN phase'[j] # "accepted" /\ (phase'[j] = "new" => phase[j] = "new")
                 ELSE phase'[j] = phase[j]
    BY <1>2 DEF CrashInCancel, TypeOK
  <2>3. /\ i # j => disk'[j] = disk[j]
        /\ Saved(disk'[j]) => disk'[j] = disk[j]
    BY <1>2 DEF CrashInCancel, Drop, Saved, NoSnapshot, TypeOK
  <2> QED
    BY <2>1, <2>2, <2>3 DEF JobInv, NoTask
<1> QED
  BY <1>1, <1>2

\* Every step of the system keeps the invariant of every job.
LEMMA InvStep ==
    ASSUME Inv, [Next]_vars
    PROVE  Inv'
<1>1. TypeOK'
  BY TypeStep DEF Inv
<1>2. ASSUME NEW j \in Jobs,
             JobInv(j)' /\ \A i \in Jobs \ {j} : Same(i) /\ mode' = mode
      PROVE  \A i \in Jobs : JobInv(i)'
  BY <1>2, Frame DEF Inv
<1>3. ASSUME NEW j \in Jobs,
             Download(j) \/ Finalization(j) \/ Thread(j) \/ Request(j)
               \/ TaskCancelled(j) \/ CancelFinish(j)
      PROVE  \A i \in Jobs : JobInv(i)'
  BY <1>2, <1>3, DownloadStep, FinalizationStep, ThreadStep, RequestStep, CancelStep
<1>4. ASSUME NEW j \in Jobs, CrashInComplete(j) \/ CrashInCancel(j)
      PROVE  \A i \in Jobs : JobInv(i)'
  BY <1>4, CrashStep
<1>5. ASSUME Process
      PROVE  \A i \in Jobs : JobInv(i)'
  BY <1>5, ProcessStep
<1>6. ASSUME UNCHANGED vars
      PROVE  \A i \in Jobs : JobInv(i)'
  BY <1>6, Frame DEF vars, Inv, Same
<1>7. \A i \in Jobs : JobInv(i)'
  BY <1>3, <1>4, <1>5, <1>6 DEF Next
<1> QED
  BY <1>1, <1>7 DEF Inv

\* The invariant holds initially.
LEMMA InitInv == Init => Inv
<1>1. Init => TypeOK
  BY InitType
<1> QED
  BY <1>1 DEF Init, Inv, JobInv, NoTask, NewRecord, Saved, NoSnapshot

\* The invariant holds in every reachable state.
LEMMA InvHolds == Spec => []Inv
<1>1. Inv /\ [Next]_vars => Inv'
  BY InvStep
<1> QED
  BY <1>1, InitInv, PTL DEF Spec

\* At most one coroutine drives a job, and none downloads while a thread reads
\* its file, whatever users click and whenever the process restarts.
THEOREM OneDriverHolds == Spec => []OneDriver
<1>1. Inv => OneDriver
  BY DEF Inv, JobInv, OneDriver
<1> QED
  BY <1>1, InvHolds, PTL

\* An accepted job is on disk or delivered at every instant.
THEOREM NoJobLostHolds == Spec => []NoJobLost
<1>1. Inv => NoJobLost
  BY DEF Inv, JobInv, NoJobLost
<1> QED
  BY <1>1, InvHolds, PTL

\* A step fetches bytes of a job only by Chunk, which the task takes only
\* while the record does not say that it is paused.
LEMMA FetchStep ==
    ASSUME Inv, [Next]_vars, NEW j \in Jobs, Fetches(j)
    PROVE  j \notin held
<1> TypeOK /\ JobInv(j)
  BY DEF Inv
<1>1. PICK n \in Names :
         /\ files[j][n] \in {"empty", "part"} /\ files'[j][n] \in {"part", "full"}
         /\ files'[j][n] # files[j][n] /\ rec'[j].name = rec[j].name
  BY DEF Fetches
<1>2. files'[j] # files[j] /\ files'[j] # NoFiles
  BY <1>1 DEF NoFiles
<1>3. ASSUME NEW i \in Jobs, NEW code \in {200, 206}, NEW m \in Names, Open(i, code, m)
      PROVE  FALSE
  <2>1. CASE i # j
    BY <1>2, <1>3, <2>1 DEF Open, TypeOK
  <2>2. CASE i = j /\ m = rec[j].name
    <3>1. files'[j] = [k \in Names |->
              CASE k = m /\ code = 200 -> "empty"
                [] k = m /\ code = 206 -> Resumed(files[j][k])
                [] OTHER -> files[j][k]]
      BY <1>3, <2>2 DEF Open, Opened, TypeOK
    <3>2. files'[j][n] \in {"empty", files[j][n], Resumed(files[j][n])}
      BY <3>1
    <3> QED
      BY <1>1, <3>2 DEF Resumed
  <2>3. CASE i = j /\ m # rec[j].name
    <3>1. Save(j, [rec[j] EXCEPT !.name = m])
      BY <1>3, <2>3 DEF Open
    <3>2. rec[j] \in Record(Names)
      BY DEF TypeOK
    <3> QED
      BY <1>1, <2>3, <3>1, <3>2, SaveEffect DEF Record
  <2> QED
    BY <2>1, <2>2, <2>3
<1>4. ASSUME NEW i \in Jobs, NEW c \in {"part", "full"}, Chunk(i, c)
      PROVE  j \notin held
  <2>1. i = j
    BY <1>2, <1>4 DEF Chunk, Put, TypeOK
  <2>2. ~rec[j].user_paused
    BY <1>4, <2>1 DEF Chunk
  <2>3. j \in held => rec[j].user_paused
    BY DEF JobInv
  <2> QED
    BY <2>2, <2>3
<1>5. ASSUME NEW i \in Jobs, Download(i)
      PROVE  j \notin held
  <2>1. LoopTop(i) \/ PauseTaken(i) \/ DlError(i) => files' = files
    BY DEF LoopTop, PauseTaken, DlError
  <2>2. StreamEnd(i) => \/ files'[j][n] = files[j][n]
                        \/ files'[j][n] = "short"
    BY DEF StreamEnd, Dest, Put, TypeOK
  <2> QED
    BY <1>1, <1>2, <1>3, <1>4, <1>5, <2>1, <2>2 DEF Download
<1>6. ASSUME NEW i \in Jobs,
             \/ Finalization(i) \/ Thread(i) \/ TaskCancelled(i) \/ CancelFinish(i)
             \/ CrashInComplete(i) \/ CrashInCancel(i)
      PROVE  FALSE
  <2>1. files'[j] \in {files[j], NoFiles}
    BY <1>6 DEF Finalization, FinStart, Complete, FinalizeFail, Thread, WorkerDone,
       WorkerFail, TaskCancelled, CancelFinish, Wipe, CrashInComplete, CrashInCancel, TypeOK
  <2> QED
    BY <1>2, <2>1
<1>7. ASSUME NEW i \in Jobs, Request(i)
      PROVE  FALSE
  <2>1. CASE Retry(i)
    <3>1. files' = files \/ files' = Put(files, i, rec[i].name, "none")
      BY <2>1 DEF Retry
    <3>2. files'[j][n] \in {files[j][n], "none"}
      BY <3>1 DEF Put, TypeOK
    <3> QED
      BY <1>1, <3>2
  <2>2. CASE ~Retry(i)
    <3>1. files'[j] \in {files[j], NoFiles}
      BY <1>7, <2>2 DEF Request, Add, Pause, Resume, Cancel, Wipe, TypeOK
    <3> QED
      BY <1>2, <3>1
  <2> QED
    BY <2>1, <2>2
<1>8. Process \/ UNCHANGED vars => files' = files
  BY DEF Process, Flush, Stop, StopFlush, Exit, Crash, Restart, vars
<1> QED
  BY <1>2, <1>5, <1>6, <1>7, <1>8 DEF Next

\* No byte of a job is fetched between its user's pause and the next resume or
\* retry, over any number of stops, crashes and restarts.
THEOREM PauseHolds == Spec => NoBytesWhilePaused
<1>1. Inv /\ [Next]_vars => [\A j \in Jobs : Fetches(j) => j \notin held]_vars
  BY FetchStep
<1> QED
  BY <1>1, InvHolds, PTL DEF Spec, NoBytesWhilePaused
=============================================================================
