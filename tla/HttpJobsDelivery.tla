------------------------- MODULE HttpJobsDelivery -------------------------
(***************************************************************************)
(* HTTP jobs implement Delivery when Resume is requested only where the    *)
(* web UI offers it: what a user is told about a job stays true.           *)
(***************************************************************************)
EXTENDS HttpJobsProofs

OfferedOnly == StaleClicks = FALSE

Full == Inv /\ \A j \in Jobs : OfferedInv(j)

\* A coroutine drives only a job that was accepted, and that cancel has not
\* finished with; no blob of it has been recorded yet.
LEMMA Driven ==
    ASSUME Full, NEW j \in Jobs,
           (dl[j] # "none" /\ j \notin waiting) \/ fin[j] # "none"
    PROVE  /\ phase[j] # "new" /\ phase[j] # "cancelled"
           /\ j \notin waiting
           /\ ~rec[j].blob
           /\ rec[j].status \notin {"failed", "completed", "cancelled", "queued"}
BY DEF Full, Inv, TypeOK, JobInv, OfferedInv, NoTask, Encrypts, Record

\* What a step of a coroutine has to establish.
LEMMA TaskKeeps ==
    ASSUME NEW j \in Jobs, phase[j] # "new", phase[j] # "cancelled", j \notin waiting,
           UNCHANGED <<phase, listed, waiting, mode>>,
           rec'[j].blob => rec'[j].status = "completed",
           rec'[j].status # "queued",
           Encrypts(j)' => rec'[j].status = "encrypting",
           \/ dl'[j] # "none" \/ fin'[j] # "none"
           \/ rec'[j].status \in {"failed", "completed"}
    PROVE  OfferedInv(j)'
BY DEF OfferedInv, Shows

\* The steps of the download task keep OfferedInv.
LEMMA DownloadOffered ==
    ASSUME Full, NEW j \in Jobs, Download(j)
    PROVE  OfferedInv(j)'
<1> /\ TypeOK /\ JobInv(j) /\ OfferedInv(j)
    /\ rec[j] \in Record(Names)
  BY DEF Full, Inv, TypeOK
<1>1. dl[j] # "none" /\ j \notin waiting
  BY DEF Download, LoopTop, PauseTaken, StreamEnd, DlError, Open, Chunk, DlRuns, Killed
<1>2. /\ phase[j] # "new" /\ phase[j] # "cancelled" /\ ~rec[j].blob /\ fin[j] = "none"
      /\ rec[j].status \notin {"failed", "completed", "cancelled", "queued"}
  BY <1>1, Driven DEF JobInv
<1>3. UNCHANGED <<phase, listed, fin, waiting, mode>>
  BY DEF Download, LoopTop, PauseTaken, StreamEnd, DlError, Open, Chunk
<1>4. CASE LoopTop(j)
  <2>1. PICK s \in {"paused", "downloading"} : Save(j, [rec[j] EXCEPT !.status = s])
    BY <1>4 DEF LoopTop
  <2>2. rec'[j].status = s /\ rec'[j].blob = rec[j].blob
    BY <2>1, SaveEffect DEF Record
  <2>3. /\ dl[j] \in {"top", "wait"} /\ dl'[j] \in {"wait", "connect"}
        /\ worker' = worker
    BY <1>4 DEF LoopTop, TypeOK
  <2>4. ~Encrypts(j)'
    BY <1>2, <1>3, <2>3 DEF Encrypts, JobInv
  <2> QED
    BY <1>1, <1>2, <1>3, <2>2, <2>3, <2>4, TaskKeeps
<1>5. CASE PauseTaken(j)
  <2>1. Save(j, [rec[j] EXCEPT !.status = "paused"])
    BY <1>5 DEF PauseTaken
  <2>2. rec'[j].status = "paused" /\ rec'[j].blob = rec[j].blob
    BY <2>1, SaveEffect DEF Record
  <2>3. dl[j] = "stream" /\ dl'[j] = "wait" /\ worker' = worker
    BY <1>5 DEF PauseTaken, TypeOK
  <2>4. ~Encrypts(j)'
    BY <1>2, <1>3, <2>3 DEF Encrypts, JobInv
  <2> QED
    BY <1>1, <1>2, <1>3, <2>2, <2>3, <2>4, TaskKeeps
<1>6. CASE StreamEnd(j)
  <2>1. /\ dl'[j] = "encrypt"
        /\ \E c \in {"short", "full"} : BeginFinalize(j, c)
    BY <1>6 DEF StreamEnd, TypeOK
  <2> QED
    BY <1>1, <1>2, <1>3, <2>1, BeginEffect, TaskKeeps
<1>7. CASE DlError(j)
  <2>1. Save(j, [rec[j] EXCEPT !.status = "failed"])
    BY <1>7 DEF DlError, Fail
  <2>2. rec'[j].status = "failed" /\ rec'[j].blob = rec[j].blob
    BY <2>1, SaveEffect DEF Record
  <2>3. dl[j] \in {"connect", "stream"} /\ dl'[j] = "none" /\ worker' = worker
    BY <1>7 DEF DlError, TypeOK
  <2>4. ~Encrypts(j)'
    BY <1>2, <1>3, <2>3 DEF Encrypts, JobInv
  <2> QED
    BY <1>1, <1>2, <1>3, <2>2, <2>3, <2>4, TaskKeeps
<1>8. ASSUME NEW code \in {200, 206}, NEW n \in Names, Open(j, code, n)
      PROVE  OfferedInv(j)'
  <2>1. rec' = rec \/ Save(j, [rec[j] EXCEPT !.name = n])
    BY <1>8 DEF Open
  <2>2. rec'[j].status = rec[j].status /\ rec'[j].blob = rec[j].blob
    BY <2>1, SaveEffect DEF Record
  <2>3. dl[j] = "connect" /\ dl'[j] = "stream" /\ worker' = worker
    BY <1>8 DEF Open, TypeOK
  <2>4. ~Encrypts(j)'
    BY <1>2, <1>3, <2>3 DEF Encrypts, JobInv
  <2> QED
    BY <1>1, <1>2, <1>3, <2>2, <2>3, <2>4, TaskKeeps
<1>9. ASSUME NEW c \in {"part", "full"}, Chunk(j, c)
      PROVE  OfferedInv(j)'
  <2>1. rec'[j].status = rec[j].status /\ rec'[j].blob = rec[j].blob
    BY <1>9 DEF Chunk, TypeOK, Record
  <2>2. dl[j] = "stream" /\ dl' = dl /\ worker' = worker
    BY <1>9 DEF Chunk
  <2>3. ~Encrypts(j)'
    BY <1>2, <1>3, <2>2 DEF Encrypts, JobInv
  <2> QED
    BY <1>1, <1>2, <1>3, <2>1, <2>2, <2>3, TaskKeeps
<1> QED
  BY <1>4, <1>5, <1>6, <1>7, <1>8, <1>9 DEF Download

\* So do the steps that end an encryption.
LEMMA FinalizationOffered ==
    ASSUME Full, NEW j \in Jobs, Finalization(j)
    PROVE  OfferedInv(j)'
<1> /\ TypeOK /\ JobInv(j) /\ OfferedInv(j)
    /\ rec[j] \in Record(Names)
  BY DEF Full, Inv, TypeOK
<1>1. (dl[j] # "none" /\ j \notin waiting) \/ fin[j] # "none"
  BY DEF Finalization, FinStart, Complete, FinalizeFail, LeaveFinalize, Killed
<1>2. /\ phase[j] # "new" /\ phase[j] # "cancelled" /\ j \notin waiting /\ ~rec[j].blob
  BY <1>1, Driven
<1>3. UNCHANGED <<phase, listed, waiting, mode>>
  BY DEF Finalization, FinStart, Complete, FinalizeFail
<1>4. CASE FinStart(j)
  <2>1. BeginFinalize(j, Dest(j)) /\ fin'[j] = "encrypt"
    BY <1>4 DEF FinStart, TypeOK
  <2> QED
    BY <1>2, <1>3, <2>1, BeginEffect, TaskKeeps
<1>5. CASE Complete(j)
  <2>1. rec'[j].status = "completed" /\ worker'[j] = "idle"
    BY <1>5 DEF Complete, Completed, Record, TypeOK
  <2>2. LeaveFinalize(j)
    BY <1>5 DEF Complete
  <2> QED
    BY <1>2, <1>3, <2>1, <2>2, LeaveEffect, TaskKeeps DEF Encrypts
<1>6. CASE FinalizeFail(j)
  <2>1. Save(j, [rec[j] EXCEPT !.status = "failed"]) /\ worker'[j] = "idle"
    BY <1>6 DEF FinalizeFail, Fail, TypeOK
  <2>2. rec'[j].status = "failed" /\ rec'[j].blob = rec[j].blob
    BY <2>1, SaveEffect DEF Record
  <2>3. LeaveFinalize(j)
    BY <1>6 DEF FinalizeFail
  <2> QED
    BY <1>2, <1>3, <2>1, <2>2, <2>3, LeaveEffect, TaskKeeps DEF Encrypts
<1> QED
  BY <1>4, <1>5, <1>6 DEF Finalization

\* So do the steps of the worker thread.
LEMMA ThreadOffered ==
    ASSUME Full, NEW j \in Jobs, Thread(j)
    PROVE  OfferedInv(j)'
<1>1. worker[j] # "idle"
  BY DEF Thread, WorkerDone, WorkerFail, Busy, Content
<1>2. UNCHANGED <<phase, listed, rec, disk, files, dl, fin, waiting, mode>>
  BY DEF Thread, WorkerDone, WorkerFail
<1> QED
  BY <1>1, <1>2 DEF Full, OfferedInv, Encrypts, Shows

\* So do the requests, if Resume is made only for a paused job.
LEMMA RequestOffered ==
    ASSUME OfferedOnly, Full, NEW j \in Jobs, Request(j)
    PROVE  OfferedInv(j)'
<1> /\ TypeOK /\ JobInv(j) /\ OfferedInv(j)
    /\ rec[j] \in Record(Names)
  BY DEF Full, Inv, TypeOK
<1>1. CASE Add(j)
  <2>1. Save(j, [NewRecord("url") EXCEPT !.status = "downloading"])
    BY <1>1 DEF Add
  <2>2. rec'[j].status = "downloading" /\ ~rec'[j].blob
    BY <2>1, SaveEffect DEF NewRecord
  <2>3. phase[j] = "new" /\ phase'[j] = "accepted" /\ dl'[j] = "top"
    BY <1>1 DEF Add, TypeOK
  <2>4. UNCHANGED <<fin, waiting, worker>>
    BY <1>1 DEF Add
  <2> QED
    BY <2>2, <2>3, <2>4 DEF OfferedInv, Encrypts, Shows, JobInv, NoTask
<1>2. CASE Pause(j) \/ Resume(j)
  <2>1. /\ mode = "up" /\ j \in listed /\ ~rec[j].blob
        /\ rec[j].status \in {"downloading", "paused"}
    BY <1>2 DEF Pause, Resume, OfferedOnly, JobInv, OfferedInv
  <2>2. PICK s \in {"downloading", "paused"}, p \in BOOLEAN :
           Save(j, [rec[j] EXCEPT !.status = s, !.user_paused = p])
    BY <1>2 DEF Pause, Resume
  <2>3. rec'[j].status = s /\ rec'[j].blob = rec[j].blob
    <3> DEFINE r == [rec[j] EXCEPT !.status = s, !.user_paused = p]
    <3>1. r.status = s /\ r.blob = rec[j].blob
      BY DEF Record
    <3>2. Save(j, r)
      BY <2>2
    <3> HIDE DEF r
    <3> QED
      BY <3>1, <3>2, SaveEffect
  <2>4. UNCHANGED <<phase, listed, dl, fin, waiting, worker, mode>>
    BY <1>2 DEF Pause, Resume
  <2> QED
    BY <2>1, <2>3, <2>4 DEF OfferedInv, Encrypts, Shows
<1>3. CASE Retry(j)
  <2>1. /\ mode = "up" /\ j \in listed /\ rec[j].status = "failed"
        /\ NoTask(j) /\ worker[j] = "idle"
    BY <1>3 DEF Retry, JobInv
  <2>2. /\ \/ rec'[j].status = "encrypting" /\ fin'[j] = "start"
           \/ rec'[j].status = "downloading" /\ dl'[j] = "top" /\ fin'[j] = fin[j]
        /\ rec'[j].blob = rec[j].blob
    <3>1. \/ /\ rec' = [rec EXCEPT ![j].status = "encrypting", ![j].user_paused = FALSE]
             /\ fin'[j] = "start"
          \/ /\ rec' = [rec EXCEPT ![j].status = "downloading", ![j].user_paused = FALSE,
                                   ![j].state = "http"]
             /\ dl'[j] = "top" /\ fin'[j] = fin[j]
      BY <1>3 DEF Retry, TypeOK
    <3> QED
      BY <3>1 DEF TypeOK, Record
  <2>3. UNCHANGED <<phase, listed, waiting, worker, mode>>
    BY <1>3 DEF Retry
  <2>4. phase[j] # "new" /\ phase[j] # "cancelled" /\ j \notin waiting /\ ~rec[j].blob
    BY <2>1 DEF JobInv, OfferedInv
  <2> QED
    BY <2>1, <2>2, <2>3, <2>4, TaskKeeps DEF Encrypts, NoTask
<1>4. CASE Cancel(j)
  <2>1. /\ UNCHANGED <<rec, dl, fin, worker, mode>> /\ mode = "up" /\ j \in listed
        /\ rec[j].status \notin {"completed", "encrypting"}
    BY <1>4 DEF Cancel
  <2>2. ~Encrypts(j) /\ ~Encrypts(j)' /\ ~rec[j].blob /\ phase[j] # "new"
    BY <2>1 DEF OfferedInv, Encrypts, JobInv
  <2>3. CASE Registered(j)
    <3>1. waiting' = waiting \cup {j} /\ phase' = [phase EXCEPT ![j] = "doomed"]
      BY <1>4, <2>3 DEF Cancel
    <3>2. rec[j].status \in {"downloading", "paused", "cancelled"}
      BY <2>1, <2>2, <2>3 DEF Registered, JobInv, NoTask, OfferedInv, Record, Statuses
    <3> QED
      BY <2>1, <2>2, <3>1, <3>2 DEF OfferedInv, Shows, TypeOK
  <2>4. CASE ~Registered(j)
    <3>1. Wipe(j) /\ waiting' = waiting
      BY <1>4, <2>4 DEF Cancel
    <3> QED
      BY <2>1, <2>2, <2>4, <3>1, WipeEffect DEF OfferedInv, Shows, Registered
  <2> QED
    BY <2>3, <2>4
<1> QED
  BY <1>1, <1>2, <1>3, <1>4 DEF Request

\* So do the two steps in which a cancellation is carried out.
LEMMA CancelOffered ==
    ASSUME Full, NEW j \in Jobs, TaskCancelled(j) \/ CancelFinish(j)
    PROVE  OfferedInv(j)'
<1> /\ TypeOK /\ JobInv(j) /\ OfferedInv(j)
    /\ rec[j] \in Record(Names)
  BY DEF Full, Inv, TypeOK
<1>1. CASE TaskCancelled(j)
  <2>1. /\ dl[j] # "none" /\ dl'[j] = "none" /\ (j \in waiting \/ mode = "stopping")
        /\ UNCHANGED <<phase, listed, disk, files, fin, waiting, worker, mode>>
    BY <1>1 DEF TaskCancelled, Killed, TypeOK
  <2>2. CASE mode = "up"
    <3>1. /\ rec'[j].status \in {rec[j].status, "cancelled"}
          /\ rec'[j].blob = rec[j].blob
      BY <1>1 DEF TaskCancelled, TypeOK, Record
    <3>2. ~rec[j].blob
      BY <2>1 DEF JobInv, OfferedInv, NoTask
    <3> QED
      BY <2>1, <2>2, <3>1, <3>2 DEF OfferedInv, Encrypts, Shows
  <2>3. CASE mode # "up"
    <3>1. rec' = rec
      BY <1>1, <2>3 DEF TaskCancelled
    <3> QED
      BY <2>1, <2>3, <3>1 DEF OfferedInv, Encrypts, Shows
  <2> QED
    BY <2>2, <2>3
<1>2. CASE CancelFinish(j)
  <2>1. /\ Wipe(j) /\ waiting' = waiting \ {j} /\ dl[j] = "none" /\ j \in waiting
        /\ UNCHANGED <<rec, dl, fin, worker, mode>>
    BY <1>2 DEF CancelFinish
  <2> QED
    BY <2>1, WipeEffect DEF OfferedInv, Encrypts, Shows
<1> QED
  BY <1>1, <1>2

\* So do stops and restarts.
LEMMA ProcessOffered ==
    ASSUME Full, NEW j \in Jobs, Process
    PROVE  OfferedInv(j)'
<1> /\ TypeOK /\ JobInv(j) /\ OfferedInv(j)
  BY DEF Full, Inv
<1>1. CASE Flush \/ StopFlush
  <2>1. disk' = Flushed /\ (mode' = mode \/ mode' = "draining")
    BY <1>1 DEF Flush, StopFlush
  <2>2. UNCHANGED <<phase, listed, rec, files, dl, fin, waiting, worker>>
    BY <1>1 DEF Flush, StopFlush
  <2> QED
    BY <2>1, <2>2, FlushEffect DEF OfferedInv, Encrypts, Shows
<1>2. CASE Stop
  BY <1>2 DEF Stop, OfferedInv, Encrypts, Shows
<1>3. CASE Exit \/ Crash
  <2>1. Die /\ UNCHANGED <<disk, files>>
    BY <1>3 DEF Exit, Crash
  <2> QED
    BY <2>1, DieEffect DEF OfferedInv, Encrypts, Shows, NoTask
<1>4. CASE Restart
  <2>1. /\ mode = "down"
        /\ UNCHANGED <<phase, files, waiting, worker>>
    BY <1>4 DEF Restart
  <2>2. CASE Saved(disk[j])
    <3>1. /\ rec'[j] = RestoredRecord(j)
          /\ dl'[j] = IF RestoredRecord(j).status \in {"paused", "downloading"}
                        THEN "top" ELSE "none"
          /\ fin'[j] = IF RestoredRecord(j).status = "encrypting" THEN "start" ELSE "none"
      BY <1>4, <2>2 DEF Restart
    <3>2. /\ RestoredRecord(j).status \in {"failed", "encrypting", "paused", "downloading"}
          /\ ~RestoredRecord(j).blob
      <4>1. ~FromSnapshot(disk[j]).blob
        BY DEF FromSnapshot
      <4>2. \A s \in Statuses, p \in BOOLEAN :
              /\ ~[FromSnapshot(disk[j]) EXCEPT !.status = s].blob
              /\ ~[FromSnapshot(disk[j]) EXCEPT !.status = s, !.user_paused = p].blob
        BY DEF FromSnapshot
      <4>3. ~RestoredRecord(j).blob
        BY <4>1, <4>2 DEF RestoredRecord, Statuses
      <4> QED
        BY <2>2, <4>3, RestoredType
    <3>3. phase[j] # "new" /\ phase[j] # "cancelled"
      BY <2>2 DEF JobInv, OfferedInv
    <3> QED
      BY <2>1, <3>1, <3>2, <3>3 DEF OfferedInv, Encrypts, Shows, JobInv, NoTask
  <2>3. CASE ~Saved(disk[j])
    <3>1. /\ rec'[j] = rec[j] /\ disk'[j] = disk[j]
          /\ dl'[j] = "none" /\ fin'[j] = "none" /\ j \notin listed'
      BY <1>4, <2>3 DEF Restart
    <3> QED
      BY <2>1, <2>3, <3>1 DEF OfferedInv, Encrypts, Shows, JobInv
  <2> QED
    BY <2>2, <2>3
<1> QED
  BY <1>1, <1>2, <1>3, <1>4 DEF Process

\* So does a crash between the steps of a handler for some job i.
LEMMA CrashOffered ==
    ASSUME Full, NEW j \in Jobs, NEW i \in Jobs, CrashInComplete(i) \/ CrashInCancel(i)
    PROVE  OfferedInv(j)'
<1> /\ TypeOK /\ JobInv(j) /\ OfferedInv(j)
  BY DEF Full, Inv
<1>1. /\ mode' = "down" /\ NoTask(j)' /\ worker'[j] = "idle"
      /\ j \notin listed' /\ j \notin waiting' /\ rec' = rec
  BY DieEffect DEF CrashInComplete, CrashInCancel, NoTask
<1>2. /\ Saved(disk'[j]) => Saved(disk[j])
      /\ files'[j] \in {files[j], NoFiles}
  BY DEF CrashInComplete, CrashInCancel, Drop, Saved, NoSnapshot, TypeOK
<1>3. \/ phase'[j] = phase[j]
      \/ phase[j] = "accepted" /\ phase'[j] = "doomed"
  BY DEF CrashInComplete, Die, CrashInCancel, TypeOK
<1> QED
  BY <1>1, <1>2, <1>3 DEF OfferedInv, Encrypts, Shows, NoTask

\* Every step of the system keeps the invariants of every job.
LEMMA FullStep ==
    ASSUME OfferedOnly, Full, [Next]_vars
    PROVE  Full'
<1>1. Inv'
  BY InvStep DEF Full
<1>2. ASSUME NEW j \in Jobs,
             OfferedInv(j)' /\ \A i \in Jobs \ {j} : Same(i) /\ mode' = mode
      PROVE  \A i \in Jobs : OfferedInv(i)'
  BY <1>2, Frame DEF Full
<1>3. ASSUME NEW j \in Jobs,
             Download(j) \/ Finalization(j) \/ Thread(j) \/ Request(j)
               \/ TaskCancelled(j) \/ CancelFinish(j)
      PROVE  \A i \in Jobs : OfferedInv(i)'
  <2>1. Inv
    BY DEF Full
  <2>2. \A i \in Jobs \ {j} : Same(i) /\ mode' = mode
    BY <1>3, <2>1, DownloadStep, FinalizationStep, ThreadStep, RequestStep, CancelStep
  <2>3. OfferedInv(j)'
    BY <1>3, DownloadOffered, FinalizationOffered, ThreadOffered, RequestOffered,
       CancelOffered
  <2> QED
    BY <1>2, <2>2, <2>3
<1>4. ASSUME NEW j \in Jobs, CrashInComplete(j) \/ CrashInCancel(j)
      PROVE  \A i \in Jobs : OfferedInv(i)'
  BY <1>4, CrashOffered
<1>5. ASSUME Process
      PROVE  \A i \in Jobs : OfferedInv(i)'
  BY <1>5, ProcessOffered
<1>6. ASSUME UNCHANGED vars
      PROVE  \A i \in Jobs : OfferedInv(i)'
  BY <1>6, Frame DEF vars, Full, Same
<1>7. \A i \in Jobs : OfferedInv(i)'
  BY <1>3, <1>4, <1>5, <1>6 DEF Next
<1> QED
  BY <1>1, <1>7 DEF Full

\* The invariants hold in every reachable state.
LEMMA FullHolds == OfferedOnly => (Spec => []Full)
<1> SUFFICES ASSUME OfferedOnly PROVE Spec => []Full
  OBVIOUS
<1>1. Init => Full
  <2>1. Init => Inv
    BY InitInv
  <2> QED
    BY <2>1 DEF Init, Full, OfferedInv, Encrypts, Shows, NewRecord
<1>2. Full /\ [Next]_vars => Full'
  BY FullStep
<1> QED
  BY <1>1, <1>2, PTL DEF Spec

-----------------------------------------------------------------------------
\* A step that changes the fate of one job in a way Delivery allows is a step
\* of Delivery.
LEMMA FateMoves ==
    ASSUME NEW j \in Jobs, \A i \in Jobs \ {j} : FateOf(i)' = FateOf(i),
           \/ FateOf(j)' = FateOf(j)
           \/ FateOf(j) = "new" /\ FateOf(j)' = "owed"
           \/ FateOf(j) \in {"owed", "withdrawing"} /\ FateOf(j)' \in {"delivered", "cancelled"}
           \/ FateOf(j) = "owed" /\ FateOf(j)' = "withdrawing"
    PROVE  [Promise!Next]_Fate
<1>1. Fate' = [i \in Jobs |-> FateOf(i)'] /\ Fate[j] = FateOf(j)
  BY DEF Fate
<1>2. Fate' = [Fate EXCEPT ![j] = FateOf(j)']
  BY <1>1 DEF Fate
<1>3. CASE FateOf(j)' = FateOf(j)
  BY <1>1, <1>3 DEF Fate
<1>4. CASE FateOf(j)' # FateOf(j)
  BY <1>1, <1>2, <1>4 DEF Promise!Next, Promise!Accept, Promise!Deliver,
     Promise!Withdraw, Promise!Cancel
<1> QED
  BY <1>3, <1>4

\* Every step of the system is a step of Delivery or leaves every fate alone.
LEMMA FateStep ==
    ASSUME OfferedOnly, Full, [Next]_vars
    PROVE  [Promise!Next]_Fate
<1> TypeOK /\ \A j \in Jobs : JobInv(j) /\ OfferedInv(j)
  BY DEF Full, Inv
<1>1. ASSUME NEW j \in Jobs,
             Download(j) \/ Finalization(j) \/ TaskCancelled(j) \/ CrashInComplete(j)
               \/ Process \/ UNCHANGED vars
      PROVE  Fate' = Fate
  <2>1. phase' = phase /\ blobs' = blobs
    BY <1>1 DEF Download, LoopTop, PauseTaken, StreamEnd, DlError, Open, Chunk,
       Finalization, FinStart, Complete, FinalizeFail, TaskCancelled, CrashInComplete,
       Process, Flush, Stop, StopFlush, Exit, Crash, Restart, Die, vars
  <2> QED
    BY <2>1 DEF Fate, FateOf, Told
<1>2. ASSUME NEW j \in Jobs, Thread(j)
      PROVE  [Promise!Next]_Fate
  <2>1. worker[j] # "idle" /\ phase' = phase
    BY <1>2 DEF Thread, WorkerDone, WorkerFail, Busy, Content
  <2>2. phase[j] \in {"accepted", "doomed"}
    BY <2>1 DEF TypeOK, JobInv, OfferedInv, Encrypts
  <2>3. /\ blobs'[j] = blobs[j] \/ blobs'[j] > 0
        /\ \A i \in Jobs \ {j} : blobs'[i] = blobs[i]
    BY <1>2 DEF Thread, WorkerDone, WorkerFail, Land, TypeOK
  <2>4. \A i \in Jobs \ {j} : FateOf(i)' = FateOf(i)
    BY <2>1, <2>3 DEF FateOf, Told
  <2> QED
    BY <2>1, <2>2, <2>3, <2>4, FateMoves DEF FateOf, Told
<1>3. ASSUME NEW j \in Jobs, Request(j) \/ CancelFinish(j)
      PROVE  [Promise!Next]_Fate
  <2>1. CASE Add(j)
    <3>1. /\ phase[j] = "new" /\ phase'[j] = "accepted" /\ blobs' = blobs
          /\ \A i \in Jobs \ {j} : phase'[i] = phase[i]
      BY <2>1 DEF Add, TypeOK
    <3>2. \A i \in Jobs \ {j} : FateOf(i)' = FateOf(i)
      BY <3>1 DEF FateOf, Told
    <3> QED
      BY <3>1, <3>2, FateMoves DEF FateOf, Told
  <2>2. CASE Pause(j) \/ Resume(j) \/ Retry(j)
    <3>1. phase' = phase /\ blobs' = blobs
      BY <2>2 DEF Pause, Resume, Retry
    <3> QED
      BY <3>1 DEF Fate, FateOf, Told
  <2>3. CASE Cancel(j) /\ ~Wipe(j)
    <3>1. /\ j \in listed /\ phase'[j] = "doomed" /\ blobs' = blobs
          /\ \A i \in Jobs \ {j} : phase'[i] = phase[i]
      BY <2>3 DEF Cancel, TypeOK
    <3>2. phase[j] \in {"accepted", "doomed"}
      BY <3>1 DEF TypeOK, JobInv, OfferedInv
    <3>3. \A i \in Jobs \ {j} : FateOf(i)' = FateOf(i)
      BY <3>1 DEF FateOf, Told
    <3> QED
      BY <3>1, <3>2, <3>3, FateMoves DEF FateOf, Told
  <2>4. CASE (Cancel(j) \/ CancelFinish(j)) /\ Wipe(j)
    <3>1. ~rec[j].blob /\ phase[j] # "new"
      BY <2>4 DEF Cancel, CancelFinish, JobInv, OfferedInv
    <3>2. /\ phase'[j] = "cancelled" /\ blobs'[j] = blobs[j]
          /\ \A i \in Jobs \ {j} : phase'[i] = phase[i] /\ blobs'[i] = blobs[i]
      BY <2>4, <3>1, WipeEffect
    <3>3. phase[j] \in {"accepted", "doomed", "cancelled"}
      BY <3>1 DEF TypeOK
    <3>4. \A i \in Jobs \ {j} : FateOf(i)' = FateOf(i)
      BY <3>2 DEF FateOf, Told
    <3> QED
      BY <3>2, <3>3, <3>4, FateMoves DEF FateOf, Told
  <2> QED
    BY <1>3, <2>1, <2>2, <2>3, <2>4 DEF Request, CancelFinish
<1>4. ASSUME NEW j \in Jobs, CrashInCancel(j)
      PROVE  [Promise!Next]_Fate
  <2>1. /\ phase'[j] = phase[j] \/ (phase[j] = "accepted" /\ phase'[j] = "doomed")
        /\ \A i \in Jobs \ {j} : phase'[i] = phase[i]
        /\ blobs' = blobs
    BY <1>4 DEF CrashInCancel, TypeOK
  <2>2. \A i \in Jobs \ {j} : FateOf(i)' = FateOf(i)
    BY <2>1 DEF FateOf, Told
  <2> QED
    BY <2>1, <2>2, FateMoves DEF FateOf, Told
<1>5. CASE \E j \in Jobs : Download(j) \/ Finalization(j) \/ TaskCancelled(j)
                             \/ CrashInComplete(j)
  BY <1>1, <1>5
<1>6. CASE Process \/ UNCHANGED vars
  <2>1. phase' = phase /\ blobs' = blobs
    BY <1>6 DEF Process, Flush, Stop, StopFlush, Exit, Crash, Restart, Die, vars
  <2> QED
    BY <2>1 DEF Fate, FateOf, Told
<1> QED
  BY <1>2, <1>3, <1>4, <1>5, <1>6 DEF Next

\* HTTP jobs implement Delivery: an accepted job is delivered or cancelled, and
\* neither is taken back.
THEOREM DeliversHolds == OfferedOnly => (Spec => Delivers)
<1> SUFFICES ASSUME OfferedOnly PROVE Spec => Delivers
  OBVIOUS
<1>1. Init => Promise!Init
  BY DEF Init, Promise!Init, Fate, FateOf, Told
<1>2. Full /\ [Next]_vars => [Promise!Next]_Fate
  BY FateStep
<1> QED
  BY <1>1, <1>2, FullHolds, PTL DEF Spec, Delivers, Promise!Spec

\* Nothing of a cancelled job comes back.
THEOREM CancelledStaysGoneHolds == OfferedOnly => (Spec => []CancelledStaysGone)
<1>1. Full => CancelledStaysGone
  BY DEF Full, OfferedInv, CancelledStaysGone
<1> QED
  BY <1>1, FullHolds, PTL

\* A job that shows itself active is driven.
THEOREM DrivenHolds == OfferedOnly => (Spec => []DrivenWhileActive)
<1>1. Full => DrivenWhileActive
  BY DEF Full, Inv, TypeOK, OfferedInv, Shows, Registered, DrivenWhileActive
<1> QED
  BY <1>1, FullHolds, PTL

-----------------------------------------------------------------------------
(* The file behind an encryption is what a response that ended has left.   *)

Ended == {"short", "full"}

\* A record or snapshot that says "encrypting" is written only when the response
\* has ended, and nothing writes to the file while either says so: what restart
\* and retry read from them is true of the file, as long as it exists.
WholeInv(j) ==
    /\ rec[j].state \in {"none", "http", "encrypting"}
    /\ rec[j].status = "encrypting" => Dest(j) \in Ended
    /\ rec[j].status = "failed" /\ rec[j].state = "encrypting" => Dest(j) \in {"none"} \cup Ended
    /\ rec[j].status \in {"downloading", "paused"} => rec[j].state # "encrypting"
    /\ dl[j] \notin {"none", "encrypt"} => rec[j].status # "encrypting"
    /\ disk[j].state \in {"none", "http", "encrypting"}
    /\ disk[j].status = "encrypting" =>
          rec[j].status = "encrypting" /\ files[j][disk[j].name] \in Ended
    /\ disk[j].state = "encrypting" =>
          /\ disk[j].status \in {"encrypting", "failed"}
          /\ files[j][disk[j].name] \in {"none"} \cup Ended
          /\ dl[j] \notin {"connect", "stream"}
    /\ worker[j] \in Content => worker[j] \in Ended

Whole == Full /\ torn = {} /\ \A j \in Jobs : WholeInv(j)

\* A step that leaves the job alone keeps it.
LEMMA WholeFrame ==
    ASSUME NEW i \in Jobs, Same(i), WholeInv(i)
    PROVE  WholeInv(i)'
BY DEF Same, WholeInv, Dest

\* The task of a job that is downloaded: nothing says that it is encrypting.
LEMMA Downloading ==
    ASSUME Full, NEW j \in Jobs, WholeInv(j), j \notin waiting,
           dl[j] \notin {"none", "encrypt"}
    PROVE  /\ rec[j].status \in {"downloading", "paused"}
           /\ rec[j].state \in {"none", "http"}
           /\ worker[j] \notin Content
           /\ disk[j].status # "encrypting"
           /\ dl[j] \in {"connect", "stream"} => disk[j].state # "encrypting"
<1>1. rec[j] \in Record(Names) /\ JobInv(j) /\ OfferedInv(j)
  BY DEF Full, Inv, TypeOK
<1>2. rec[j].status \in {"downloading", "paused"}
  BY <1>1, Driven DEF WholeInv, Record, Statuses
<1> QED
  BY <1>1, <1>2 DEF WholeInv, JobInv, Content

\* A job is saved in a status other than encrypting.
LEMMA WholeSaved ==
    ASSUME TypeOK, NEW j \in Jobs, NEW r, Save(j, r),
           r.status \in {"downloading", "paused", "failed"},
           r.state \in {"none", "http", "encrypting"},
           r.state = "encrypting" =>
              /\ r.status = "failed" /\ files'[j][r.name] \in {"none"} \cup Ended
              /\ dl'[j] \notin {"connect", "stream"},
           worker'[j] \in Content => worker'[j] \in Ended
    PROVE  WholeInv(j)'
<1>1. rec'[j] = r /\ disk'[j] = ToSnapshot(r)
  BY SaveEffect
<1>2. /\ disk'[j].status = r.status /\ disk'[j].state = r.state
      /\ disk'[j].name = r.name
  BY <1>1 DEF ToSnapshot, Persistable
<1> QED
  BY <1>1, <1>2 DEF WholeInv, Dest

\* The encryption of such a file begins.
LEMMA WholeBegun ==
    ASSUME TypeOK, NEW j \in Jobs, NEW c \in Ended, BeginFinalize(j, c),
           files'[j][rec[j].name] = c, dl'[j] \in {"none", "encrypt"}
    PROVE  WholeInv(j)'
<1> DEFINE r == [rec[j] EXCEPT !.status = "encrypting", !.state = "encrypting"]
<1>1. r.status = "encrypting" /\ r.state = "encrypting" /\ r.name = rec[j].name
  <2>1. rec[j] \in Record(Names)
    BY DEF TypeOK
  <2> QED
    BY <2>1 DEF Record
<1>2. Save(j, r) /\ worker'[j] = c
  BY DEF BeginFinalize, TypeOK
<1> HIDE DEF r
<1>3. rec'[j] = r /\ disk'[j] = ToSnapshot(r)
  BY <1>2, SaveEffect
<1>4. /\ disk'[j].status = r.status /\ disk'[j].state = r.state
      /\ disk'[j].name = r.name
  BY <1>1, <1>3 DEF ToSnapshot, Persistable
<1> QED
  BY <1>1, <1>2, <1>3, <1>4 DEF WholeInv, Dest

\* The steps of the download task keep WholeInv.
LEMMA DownloadWhole ==
    ASSUME Full, NEW j \in Jobs, WholeInv(j), Download(j)
    PROVE  WholeInv(j)' /\ torn' = torn
<1> TypeOK /\ rec[j] \in Record(Names)
  BY DEF Full, Inv, TypeOK
<1>1. dl[j] \in {"top", "wait", "connect", "stream"} /\ j \notin waiting /\ torn' = torn
  BY DEF Download, LoopTop, PauseTaken, StreamEnd, DlError, Open, Chunk, DlRuns, Killed
<1>2. /\ rec[j].status \in {"downloading", "paused"}
      /\ rec[j].state \in {"none", "http"}
      /\ worker[j] \notin Content
      /\ disk[j].status # "encrypting"
      /\ dl[j] \in {"connect", "stream"} => disk[j].state # "encrypting"
  BY <1>1, Downloading
<1>3. CASE LoopTop(j) \/ PauseTaken(j) \/ DlError(j)
  <2>1. PICK s \in {"downloading", "paused", "failed"} :
            Save(j, [rec[j] EXCEPT !.status = s])
    BY <1>3 DEF LoopTop, PauseTaken, DlError, Fail
  <2> DEFINE r == [rec[j] EXCEPT !.status = s]
  <2>2. r.status = s /\ r.state = rec[j].state /\ Save(j, r)
    BY <2>1 DEF Record
  <2>3. worker' = worker
    BY <1>3 DEF LoopTop, PauseTaken, DlError
  <2> HIDE DEF r
  <2> QED
    BY <1>1, <1>2, <2>2, <2>3, WholeSaved
<1>4. CASE StreamEnd(j)
  <2>1. PICK c \in Ended : BeginFinalize(j, c) /\ files' = Put(files, j, rec[j].name, c)
    BY <1>4 DEF StreamEnd, Ended
  <2>2. files'[j][rec[j].name] = c /\ dl'[j] = "encrypt"
    BY <1>4, <2>1 DEF StreamEnd, Put, TypeOK, Record
  <2> QED
    BY <1>1, <2>1, <2>2, WholeBegun
<1>5. ASSUME NEW code \in {200, 206}, NEW n \in Names, Open(j, code, n)
      PROVE  WholeInv(j)'
  <2>1. dl[j] = "connect" /\ dl'[j] = "stream" /\ worker' = worker
    BY <1>5 DEF Open, TypeOK
  <2>2. CASE Save(j, [rec[j] EXCEPT !.name = n])
    <3> DEFINE r == [rec[j] EXCEPT !.name = n]
    <3>1. r.status = rec[j].status /\ r.state = rec[j].state /\ Save(j, r)
      BY <2>2 DEF Record
    <3> HIDE DEF r
    <3> QED
      BY <1>2, <2>1, <3>1, WholeSaved
  <2>3. CASE UNCHANGED <<rec, disk>>
    BY <1>2, <2>1, <2>3 DEF WholeInv
  <2> QED
    BY <1>5, <2>2, <2>3 DEF Open
<1>6. ASSUME NEW c \in {"part", "full"}, Chunk(j, c)
      PROVE  WholeInv(j)'
  <2>1. dl[j] = "stream" /\ UNCHANGED <<dl, worker, disk>>
    BY <1>6 DEF Chunk
  <2>2. rec'[j].status = rec[j].status /\ rec'[j].state = "http"
    BY <1>6 DEF Chunk, TypeOK, Record
  <2> QED
    BY <1>2, <2>1, <2>2 DEF WholeInv
<1> QED
  BY <1>1, <1>3, <1>4, <1>5, <1>6 DEF Download

\* So do the steps that end an encryption.
LEMMA FinalizationWhole ==
    ASSUME Full, NEW j \in Jobs, WholeInv(j), Finalization(j)
    PROVE  WholeInv(j)' /\ torn' = torn
<1> /\ TypeOK /\ JobInv(j) /\ OfferedInv(j)
    /\ rec[j] \in Record(Names)
  BY DEF Full, Inv, TypeOK
<1>1. torn' = torn
  BY DEF Finalization, FinStart, Complete, FinalizeFail
<1>2. Encrypts(j)
  BY DEF Finalization, FinStart, Complete, FinalizeFail, LeaveFinalize, Encrypts
<1>3. rec[j].status = "encrypting" /\ Dest(j) \in Ended
  BY <1>2 DEF OfferedInv, WholeInv
<1>4. CASE FinStart(j)
  <2>1. BeginFinalize(j, Dest(j)) /\ files' = files /\ dl' = dl /\ fin[j] = "start"
    BY <1>4 DEF FinStart
  <2>2. dl'[j] = "none"
    BY <2>1 DEF JobInv
  <2> QED
    BY <1>1, <1>3, <2>1, <2>2, WholeBegun DEF Dest
<1>5. CASE Complete(j)
  <2>1. /\ LeaveFinalize(j) /\ worker'[j] = "idle" /\ disk'[j] = NoSnapshot
        /\ rec'[j].status = "completed" /\ rec'[j].state = rec[j].state
    BY <1>5 DEF Complete, Completed, Drop, Record, TypeOK
  <2>2. dl'[j] = "none"
    BY <2>1, LeaveEffect
  <2> QED
    BY <1>1, <2>1, <2>2 DEF WholeInv, NoSnapshot, Content
<1>6. CASE FinalizeFail(j)
  <2>1. /\ LeaveFinalize(j) /\ worker'[j] = "idle" /\ files' = files
        /\ Save(j, [rec[j] EXCEPT !.status = "failed"])
    BY <1>6 DEF FinalizeFail, Fail, TypeOK
  <2>2. dl'[j] = "none"
    BY <2>1, LeaveEffect
  <2> DEFINE r == [rec[j] EXCEPT !.status = "failed"]
  <2>3. /\ r.status = "failed" /\ r.state = rec[j].state /\ r.name = rec[j].name
        /\ Save(j, r)
    BY <2>1 DEF Record
  <2> HIDE DEF r
  <2>4. files'[j][r.name] \in Ended
    BY <1>3, <2>1, <2>3 DEF Dest
  <2>5. r.state \in {"none", "http", "encrypting"} /\ worker'[j] \notin Content
    BY <2>1, <2>3 DEF WholeInv, Content
  <2> QED
    BY <1>1, <2>2, <2>3, <2>4, <2>5, WholeSaved
<1> QED
  BY <1>4, <1>5, <1>6 DEF Finalization

\* A thread puts only such a file in the store.
LEMMA ThreadWhole ==
    ASSUME NEW j \in Jobs, WholeInv(j), Thread(j), TypeOK
    PROVE  WholeInv(j)' /\ torn' = torn
<1>1. worker[j] \in Ended /\ worker'[j] \in {"done", "error"}
  BY DEF Thread, WorkerDone, WorkerFail, Busy, WholeInv, TypeOK
<1>2. UNCHANGED <<rec, disk, files, dl>>
  BY DEF Thread, WorkerDone, WorkerFail
<1>3. torn' = torn
  BY <1>1 DEF Thread, WorkerDone, WorkerFail, Land, Ended
<1> QED
  BY <1>1, <1>2, <1>3 DEF WholeInv, Dest, Content

\* So do the requests, if Resume is made only for a paused job.
LEMMA RequestWhole ==
    ASSUME OfferedOnly, Full, NEW j \in Jobs, WholeInv(j), Request(j)
    PROVE  WholeInv(j)' /\ torn' = torn
<1> /\ TypeOK /\ JobInv(j) /\ OfferedInv(j)
    /\ rec[j] \in Record(Names)
  BY DEF Full, Inv, TypeOK
<1>0. torn' = torn
  BY DEF Request, Add, Pause, Resume, Retry, Cancel
<1>1. CASE Add(j)
  <2> DEFINE r == [NewRecord("url") EXCEPT !.status = "downloading"]
  <2>1. Save(j, r) /\ worker' = worker /\ r.status = "downloading" /\ r.state = "none"
    BY <1>1 DEF Add, NewRecord
  <2> HIDE DEF r
  <2>2. worker'[j] \in Content => worker'[j] \in Ended
    BY <2>1 DEF WholeInv
  <2> QED
    BY <1>0, <2>1, <2>2, WholeSaved
<1>2. CASE Pause(j) \/ Resume(j)
  <2>1. rec[j].status \in {"downloading", "paused"} /\ UNCHANGED <<files, dl, worker>>
    BY <1>2 DEF Pause, Resume, OfferedOnly, JobInv, OfferedInv
  <2>2. PICK s \in {"downloading", "paused"}, p \in BOOLEAN :
           Save(j, [rec[j] EXCEPT !.status = s, !.user_paused = p])
    BY <1>2 DEF Pause, Resume
  <2> DEFINE r == [rec[j] EXCEPT !.status = s, !.user_paused = p]
  <2>3. r.status = s /\ r.state = rec[j].state /\ Save(j, r)
    BY <2>2 DEF Record
  <2> HIDE DEF r
  <2>4. /\ rec[j].state \in {"none", "http"}
        /\ worker'[j] \in Content => worker'[j] \in Ended
    BY <2>1 DEF WholeInv
  <2> QED
    BY <1>0, <2>3, <2>4, WholeSaved
<1>3. CASE Retry(j)
  <2>1. /\ rec[j].status = "failed" /\ UNCHANGED <<disk, worker>>
        /\ NoTask(j) /\ disk[j].status # "encrypting"
    BY <1>3 DEF Retry, JobInv, WholeInv
  <2>2. CASE rec[j].state = "encrypting" /\ Dest(j) # "none"
    <3>1. /\ rec' = [rec EXCEPT ![j].status = "encrypting", ![j].user_paused = FALSE]
          /\ UNCHANGED <<files, dl>>
      BY <1>3, <2>2 DEF Retry
    <3>2. /\ rec'[j].status = "encrypting" /\ rec'[j].state = rec[j].state
          /\ rec'[j].name = rec[j].name
      BY <3>1 DEF TypeOK, Record
    <3> QED
      BY <1>0, <2>1, <2>2, <3>1, <3>2 DEF WholeInv, Dest, NoTask
  <2>3. CASE ~(rec[j].state = "encrypting" /\ Dest(j) # "none")
    <3>1. /\ rec' = [rec EXCEPT ![j].status = "downloading",
                                ![j].user_paused = FALSE, ![j].state = "http"]
          /\ files' = Put(files, j, rec[j].name, "none") /\ dl'[j] = "top"
      BY <1>3, <2>3 DEF Retry, TypeOK
    <3>2. rec'[j].status = "downloading" /\ rec'[j].state = "http"
      BY <3>1 DEF TypeOK, Record
    <3>3. \A n \in Names : files'[j][n] \in {files[j][n], "none"}
      BY <3>1 DEF Put, TypeOK
    <3>4. disk[j].state = "encrypting" => disk[j].name \in Names
      BY DEF TypeOK, Snapshot, NoSnapshot
    <3> QED
      BY <1>0, <2>1, <3>1, <3>2, <3>3, <3>4 DEF WholeInv
  <2> QED
    BY <2>2, <2>3
<1>4. CASE Cancel(j)
  <2>1. UNCHANGED <<rec, dl, worker>>
    BY <1>4 DEF Cancel
  <2>2. CASE Registered(j)
    <3>1. UNCHANGED <<disk, files>>
      BY <1>4, <2>2 DEF Cancel
    <3> QED
      BY <1>0, <2>1, <3>1 DEF WholeInv, Dest
  <2>3. CASE ~Registered(j)
    <3>1. /\ rec[j].status # "encrypting" /\ files'[j] = NoFiles /\ disk'[j] = NoSnapshot
      BY <1>4, <2>3 DEF Cancel, Wipe, Drop, TypeOK
    <3>2. Dest(j)' = "none"
      BY <2>1, <3>1 DEF Dest, NoFiles, Record
    <3> QED
      BY <1>0, <2>1, <3>1, <3>2 DEF WholeInv, NoSnapshot
  <2> QED
    BY <2>2, <2>3
<1> QED
  BY <1>1, <1>2, <1>3, <1>4 DEF Request

\* So do the two steps in which a cancellation is carried out.
LEMMA CancelWhole ==
    ASSUME Full, NEW j \in Jobs, WholeInv(j), TaskCancelled(j) \/ CancelFinish(j)
    PROVE  WholeInv(j)' /\ torn' = torn
<1> /\ TypeOK /\ JobInv(j) /\ OfferedInv(j)
    /\ rec[j] \in Record(Names)
  BY DEF Full, Inv, TypeOK
<1>1. CASE TaskCancelled(j)
  <2>1. /\ dl[j] # "none" /\ dl'[j] = "none" /\ (j \in waiting \/ mode # "up")
        /\ UNCHANGED <<disk, files, worker, torn>>
    BY <1>1 DEF TaskCancelled, Killed, TypeOK
  <2>2. CASE rec' = rec
    BY <2>1, <2>2 DEF WholeInv, Dest
  <2>3. CASE rec' # rec
    <3>1. /\ rec'[j].status = "cancelled" /\ rec'[j].state = rec[j].state /\ mode = "up"
      BY <1>1, <2>3 DEF TaskCancelled, TypeOK, Record
    <3>2. disk[j].status # "encrypting"
      BY <2>1, <3>1 DEF WholeInv, OfferedInv
    <3> QED
      BY <2>1, <3>1, <3>2 DEF WholeInv
  <2> QED
    BY <2>2, <2>3
<1>2. CASE CancelFinish(j)
  <2>1. /\ UNCHANGED <<rec, dl, worker, torn>> /\ j \in waiting
        /\ files'[j] = NoFiles /\ disk'[j] = NoSnapshot
    BY <1>2 DEF CancelFinish, Wipe, Drop, TypeOK
  <2>2. rec[j].status # "encrypting"
    BY <2>1 DEF OfferedInv
  <2>3. Dest(j)' = "none"
    BY <2>1 DEF Dest, NoFiles, Record
  <2> QED
    BY <2>1, <2>2, <2>3 DEF WholeInv, NoSnapshot
<1> QED
  BY <1>1, <1>2

\* So does a crash between the steps of a handler for some job i.
LEMMA CrashWhole ==
    ASSUME Full, NEW j \in Jobs, NEW i \in Jobs, WholeInv(j),
           CrashInComplete(i) \/ CrashInCancel(i)
    PROVE  WholeInv(j)' /\ torn' = torn
<1> /\ TypeOK /\ JobInv(j) /\ OfferedInv(j)
    /\ rec[j] \in Record(Names)
  BY DEF Full, Inv, TypeOK
<1>1. /\ dl'[j] = "none" /\ worker'[j] = "idle" /\ rec' = rec /\ torn' = torn
      /\ disk'[j] \in {disk[j], NoSnapshot}
  BY DEF CrashInComplete, CrashInCancel, Die, Drop, TypeOK
<1>2. CASE files'[j] = files[j]
  BY <1>1, <1>2 DEF WholeInv, Dest, Content, NoSnapshot
<1>3. CASE files'[j] # files[j]
  <2>1. i = j /\ CrashInCancel(j) /\ files'[j] = NoFiles
    BY <1>3 DEF CrashInComplete, CrashInCancel, TypeOK
  <2>2. rec[j].status # "encrypting"
    BY <2>1 DEF CrashInCancel, OfferedInv
  <2>3. /\ Dest(j)' = "none"
        /\ disk[j].state = "encrypting" => files'[j][disk[j].name] = "none"
    BY <1>1, <2>1 DEF Dest, NoFiles, Record, TypeOK, Snapshot, NoSnapshot
  <2>4. disk[j].status # "encrypting"
    BY <2>2 DEF WholeInv
  <2> QED
    BY <1>1, <2>2, <2>3, <2>4 DEF WholeInv, Content, NoSnapshot
<1> QED
  BY <1>2, <1>3

\* A restart takes up an encryption only of such a file.
LEMMA RestoredWhole ==
    ASSUME TypeOK, NEW j \in Jobs, WholeInv(j), Saved(disk[j])
    PROVE  /\ RestoredRecord(j).state = disk[j].state
           /\ RestoredRecord(j).name = disk[j].name
           /\ RestoredRecord(j).status = "encrypting" => disk[j].status = "encrypting"
           /\ RestoredRecord(j).status \in {"downloading", "paused"}
                 => disk[j].state # "encrypting"
           /\ RestoredRecord(j).status = "failed" => disk[j].status = "failed"
<1>1. disk[j] \in Snapshot(Names)
  BY DEF TypeOK, Saved, NoSnapshot
<1> DEFINE r == FromSnapshot(disk[j])
<1>2. /\ r.state = disk[j].state /\ r.name = disk[j].name /\ r.status = disk[j].status
      /\ r \in Record(Names)
  BY <1>1 DEF FromSnapshot, Snapshot, Record, Persistable, Statuses
<1>3. \A s \in Statuses, p \in BOOLEAN :
         /\ [r EXCEPT !.status = s].status = s
         /\ [r EXCEPT !.status = s].state = r.state
         /\ [r EXCEPT !.status = s].name = r.name
         /\ [r EXCEPT !.status = s, !.user_paused = p].status = s
         /\ [r EXCEPT !.status = s, !.user_paused = p].state = r.state
         /\ [r EXCEPT !.status = s, !.user_paused = p].name = r.name
  <2> HIDE DEF r
  <2> QED
    BY <1>2 DEF Record
<1>4. Statuses = {"queued", "downloading", "paused", "encrypting",
                  "completed", "failed", "cancelled"}
  BY DEF Statuses
<1>5. CASE r.status = "failed"
  <2>1. RestoredRecord(j) = r
    BY <1>5 DEF RestoredRecord
  <2> QED
    BY <1>2, <1>5, <2>1
<1>6. CASE r.status # "failed" /\ Encryptable(j)
  <2>1. RestoredRecord(j) = [r EXCEPT !.status = "encrypting"]
    BY <1>6 DEF RestoredRecord
  <2>2. disk[j].status = "encrypting"
    BY <1>2, <1>6 DEF Encryptable, WholeInv
  <2> HIDE DEF r
  <2> QED
    BY <1>2, <1>3, <1>4, <2>1, <2>2
<1>7. CASE r.status # "failed" /\ ~Encryptable(j)
  <2>1. \/ RestoredRecord(j) = [r EXCEPT !.status = "paused", !.user_paused = TRUE]
        \/ RestoredRecord(j) = [r EXCEPT !.status = "downloading"]
    BY <1>7 DEF RestoredRecord
  <2>2. disk[j].state # "encrypting"
    BY <1>2, <1>7 DEF Encryptable, WholeInv, Ended
  <2>3. "paused" \in Statuses /\ "downloading" \in Statuses /\ TRUE \in BOOLEAN
    BY <1>4
  <2> HIDE DEF r
  <2>4. /\ RestoredRecord(j).state = r.state /\ RestoredRecord(j).name = r.name
        /\ RestoredRecord(j).status \in {"paused", "downloading"}
    <3>1. CASE RestoredRecord(j) = [r EXCEPT !.status = "paused", !.user_paused = TRUE]
      BY <1>3, <2>3, <3>1
    <3>2. CASE RestoredRecord(j) = [r EXCEPT !.status = "downloading"]
      BY <1>3, <2>3, <3>2
    <3> QED
      BY <2>1, <3>1, <3>2
  <2> QED
    BY <1>2, <2>2, <2>4
<1> QED
  BY <1>5, <1>6, <1>7

\* Stops, saves, crashes and restarts keep WholeInv.
LEMMA ProcessWhole ==
    ASSUME Full, NEW j \in Jobs, WholeInv(j), Process
    PROVE  WholeInv(j)' /\ torn' = torn
<1> /\ TypeOK /\ JobInv(j) /\ OfferedInv(j)
    /\ rec[j] \in Record(Names)
  BY DEF Full, Inv, TypeOK
<1>0. torn' = torn
  BY DEF Process, Flush, Stop, StopFlush, Exit, Crash, Restart, Die
<1>1. CASE Flush \/ StopFlush
  <2>1. disk'[j] = Flushed[j] /\ UNCHANGED <<rec, files, dl, worker>>
    BY <1>1 DEF Flush, StopFlush
  <2>2. CASE Flushed[j] = disk[j]
    BY <1>0, <2>1, <2>2 DEF WholeInv, Dest
  <2>3. CASE Flushed[j] # disk[j]
    <3>1. /\ j \in listed /\ rec[j].status \in Persistable
          /\ disk'[j] = [status |-> rec[j].status, user_paused |-> rec[j].user_paused,
                         state |-> rec[j].state, name |-> rec[j].name]
      BY <2>1, <2>3 DEF Flushed, ToSnapshot
    <3>2. rec[j].status \in {"downloading", "paused", "encrypting", "failed"}
      BY <3>1 DEF Persistable, OfferedInv, JobInv
    <3>3. dl[j] \in {"connect", "stream"} => rec[j].status # "failed"
      BY DEF JobInv, NoTask
    <3> QED
      BY <1>0, <2>1, <3>1, <3>2, <3>3 DEF WholeInv, Dest
  <2> QED
    BY <2>2, <2>3
<1>2. CASE Stop
  BY <1>0, <1>2 DEF Stop, WholeInv, Dest
<1>3. CASE Exit \/ Crash
  <2>1. Die /\ UNCHANGED <<disk, files>>
    BY <1>3 DEF Exit, Crash
  <2>2. dl'[j] = "none" /\ worker'[j] = "idle" /\ rec' = rec
    BY <2>1 DEF Die
  <2> QED
    BY <1>0, <2>1, <2>2 DEF WholeInv, Dest, Content
<1>4. CASE Restart
  <2>1. mode = "down" /\ UNCHANGED <<files, worker>>
    BY <1>4 DEF Restart
  <2>2. worker[j] = "idle"
    BY <2>1 DEF JobInv
  <2>3. CASE Saved(disk[j])
    <3> DEFINE r == RestoredRecord(j)
    <3>1. /\ rec'[j] = r /\ disk'[j] = ToSnapshot(r)
          /\ dl'[j] = IF r.status \in {"paused", "downloading"} THEN "top" ELSE "none"
      BY <1>4, <2>3 DEF Restart
    <3>2. /\ r \in Record(Names)
          /\ r.status \in {"failed", "encrypting", "paused", "downloading"}
      BY <2>3, RestoredType
    <3>3. /\ r.state = disk[j].state /\ r.name = disk[j].name
          /\ r.status = "encrypting" => disk[j].status = "encrypting"
          /\ r.status \in {"downloading", "paused"} => disk[j].state # "encrypting"
      BY <2>3, RestoredWhole
    <3> HIDE DEF r
    <3>4. disk'[j].status = r.status /\ disk'[j].state = r.state /\ disk'[j].name = r.name
      BY <3>1, <3>2 DEF ToSnapshot, Persistable
    <3> QED
      BY <1>0, <2>1, <2>2, <3>1, <3>2, <3>3, <3>4 DEF WholeInv, Dest, Content
  <2>4. CASE ~Saved(disk[j])
    <3>1. rec'[j] = rec[j] /\ disk'[j] = disk[j] /\ dl'[j] = "none"
      BY <1>4, <2>4 DEF Restart
    <3> QED
      BY <1>0, <2>1, <2>2, <3>1 DEF WholeInv, Dest, Content
  <2> QED
    BY <2>3, <2>4
<1> QED
  BY <1>1, <1>2, <1>3, <1>4 DEF Process

\* Every step of the system keeps WholeInv of every job and tears no file.
LEMMA WholeStep ==
    ASSUME OfferedOnly, Whole, [Next]_vars
    PROVE  Whole'
<1> Full /\ Inv /\ TypeOK /\ \A j \in Jobs : WholeInv(j)
  BY DEF Whole, Full, Inv
<1>1. Full'
  BY FullStep
<1>2. ASSUME NEW j \in Jobs,
             \/ Download(j) \/ Finalization(j) \/ Thread(j) \/ Request(j)
             \/ TaskCancelled(j) \/ CancelFinish(j)
      PROVE  torn' = torn /\ \A i \in Jobs : WholeInv(i)'
  <2>1. \A i \in Jobs \ {j} : Same(i)
    BY <1>2, DownloadStep, FinalizationStep, ThreadStep, RequestStep, CancelStep
  <2>2. WholeInv(j)' /\ torn' = torn
    BY <1>2, DownloadWhole, FinalizationWhole, ThreadWhole, RequestWhole, CancelWhole
  <2> QED
    BY <2>1, <2>2, WholeFrame
<1>3. ASSUME NEW j \in Jobs, CrashInComplete(j) \/ CrashInCancel(j)
      PROVE  torn' = torn /\ \A i \in Jobs : WholeInv(i)'
  BY <1>3, CrashWhole
<1>4. ASSUME Process
      PROVE  torn' = torn /\ \A i \in Jobs : WholeInv(i)'
  <2>1. torn' = torn
    BY <1>4 DEF Process, Flush, Stop, StopFlush, Exit, Crash, Restart, Die
  <2> QED
    BY <1>4, <2>1, ProcessWhole
<1>5. ASSUME UNCHANGED vars
      PROVE  torn' = torn /\ \A i \in Jobs : WholeInv(i)'
  BY <1>5, WholeFrame DEF vars, Same
<1>6. torn' = torn /\ \A i \in Jobs : WholeInv(i)'
  BY <1>2, <1>3, <1>4, <1>5 DEF Next
<1> QED
  BY <1>1, <1>6 DEF Whole

\* Only what a response that ended has left is put in the store: restart and retry, which judge by a
\* saved state and by the existence of the file, are never mistaken.
THEOREM OnlyWholeFilesHolds == OfferedOnly => (Spec => []OnlyWholeFiles)
<1> SUFFICES ASSUME OfferedOnly PROVE Spec => []OnlyWholeFiles
  OBVIOUS
<1>1. Init /\ Full => Whole
  BY DEF Init, Whole, WholeInv, NewRecord, NoSnapshot, Content
<1>2. Whole /\ [Next]_vars => Whole'
  BY WholeStep
<1>3. Whole => OnlyWholeFiles
  BY DEF Whole, OnlyWholeFiles
<1> QED
  BY <1>1, <1>2, <1>3, FullHolds, PTL DEF Spec
=============================================================================
