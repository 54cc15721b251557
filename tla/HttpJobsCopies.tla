---------------------------- MODULE HttpJobsCopies ----------------------------
(***************************************************************************)
(* How often a job can land in the completed store: for each copy beyond   *)
(* the first there was a fault, whatever users click.                      *)
(***************************************************************************)
EXTENDS HttpJobsProofs

\* The attempt under way has put its blob into the store; the thread that did
\* it or the record of the completed job still stands for it.
Landed(j) == IF worker[j] = "done" \/ rec[j].blob THEN 1 ELSE 0

\* A job that is complete stays so until it is forgotten or restored: it has no
\* coroutine, and Retry is not allowed.
Over(j) == /\ phase[j] # "new" /\ NoTask(j) /\ worker[j] = "idle"
           /\ rec[j].status # "failed"

\* Every blob but that of the present attempt is paid for by a fault.  A stop is
\* counted when it begins, and is spent when the process exits.
CopyInv(j) ==
    /\ mode = "down" => blobs[j] <= faults
    /\ mode = "up" => blobs[j] <= faults + Landed(j)
    /\ mode \in {"stopping", "draining"} => blobs[j] + 1 <= faults + Landed(j)
    /\ rec[j].blob => Over(j)

CopiesInv == Inv /\ \A j \in Jobs : CopyInv(j)

-----------------------------------------------------------------------------
\* The numbers and flags that CopyInv adds up and compares.
LEMMA CopyTypes ==
    ASSUME TypeOK, NEW j \in Jobs
    PROVE  /\ blobs[j] \in Nat /\ faults \in Nat /\ rec[j].blob \in BOOLEAN
           /\ rec[j] \in Record(Names) /\ Landed(j) \in 0..1
           /\ mode \in {"up", "stopping", "draining", "down"}
BY MaxFaultsAssumption DEF TypeOK, Record, Landed

\* A step in which nothing lands and no attempt begins or ends.
LEMMA CopyKept ==
    ASSUME TypeOK, TypeOK', NEW j \in Jobs, CopyInv(j), mode' = mode, faults <= faults',
           blobs'[j] <= blobs[j], rec'[j].blob = rec[j].blob,
           worker'[j] = "done" <=> worker[j] = "done",
           rec[j].blob => Over(j)'
    PROVE  CopyInv(j)'
<1>1. /\ blobs[j] \in Nat /\ faults \in Nat /\ blobs'[j] \in Nat /\ faults' \in Nat
      /\ Landed(j) \in 0..1
  BY CopyTypes, MaxFaultsAssumption DEF TypeOK
<1>2. Landed(j)' = Landed(j)
  BY DEF Landed
<1> QED
  BY <1>1, <1>2 DEF CopyInv

\* Another job's step: all it can change is the number of faults.
LEMMA CopyFrame ==
    ASSUME TypeOK, TypeOK', NEW j \in Jobs, CopyInv(j), Same(j), mode' = mode,
           faults <= faults'
    PROVE  CopyInv(j)'
<1>1. rec[j].blob => Over(j)'
  BY DEF CopyInv, Same, Over, NoTask
<1>2. blobs[j] \in Nat
  BY CopyTypes
<1> QED
  BY <1>1, <1>2, CopyKept DEF Same

\* The process is gone, by a fault that has been counted.
LEMMA CopyDown ==
    ASSUME TypeOK, TypeOK', NEW j \in Jobs, CopyInv(j), mode # "down", mode' = "down",
           mode = "up" => faults + 1 <= faults', faults <= faults',
           rec' = rec, blobs' = blobs, NoTask(j)', worker'[j] = "idle",
           phase[j] # "new" => phase'[j] # "new"
    PROVE  CopyInv(j)'
<1>1. /\ blobs[j] \in Nat /\ faults \in Nat /\ Landed(j) \in 0..1
      /\ mode \in {"up", "stopping", "draining", "down"} /\ faults' \in Nat
  BY CopyTypes, MaxFaultsAssumption DEF TypeOK
<1>2. blobs[j] <= faults'
  BY <1>1 DEF CopyInv
<1>3. rec[j].blob => Over(j)'
  BY DEF CopyInv, Over
<1> QED
  BY <1>2, <1>3 DEF CopyInv

-----------------------------------------------------------------------------
\* The steps of the download task: nothing lands.
LEMMA CopyDownload ==
    ASSUME CopiesInv, TypeOK', NEW j \in Jobs, Download(j)
    PROVE  CopyInv(j)' /\ faults' = faults
<1> /\ TypeOK /\ CopyInv(j) /\ JobInv(j) /\ rec[j] \in Record(Names)
    /\ blobs[j] \in Nat /\ faults \in Nat
  BY CopyTypes DEF CopiesInv, Inv
<1>1. dl[j] # "none" /\ ~rec[j].blob
  BY DEF CopyInv, Over, NoTask, Download, LoopTop, PauseTaken, StreamEnd, DlError,
     Open, Chunk
<1>2. UNCHANGED <<blobs, faults, mode>>
  BY DEF Download, LoopTop, PauseTaken, StreamEnd, DlError, Open, Chunk
<1>3. rec'[j].blob = rec[j].blob
  <2>1. CASE LoopTop(j)
    BY <2>1, SaveEffect DEF LoopTop, Record
  <2>2. CASE PauseTaken(j)
    BY <2>2, SaveEffect DEF PauseTaken, Record
  <2>3. CASE StreamEnd(j)
    <3>1. PICK c \in {"short", "full"} : BeginFinalize(j, c)
      BY <2>3 DEF StreamEnd
    <3> QED
      BY <3>1, BeginEffect
  <2>4. CASE DlError(j)
    BY <2>4, SaveEffect DEF DlError, Fail, Record
  <2>5. ASSUME NEW code \in {200, 206}, NEW n \in Names, Open(j, code, n)
        PROVE  rec'[j].blob = rec[j].blob
    <3>1. UNCHANGED rec \/ Save(j, [rec[j] EXCEPT !.name = n])
      BY <2>5 DEF Open
    <3> QED
      BY <3>1, SaveEffect DEF Record
  <2>6. ASSUME NEW c \in {"part", "full"}, Chunk(j, c)
        PROVE  rec'[j].blob = rec[j].blob
    BY <2>6 DEF Chunk, TypeOK, Record
  <2> QED
    BY <2>1, <2>2, <2>3, <2>4, <2>5, <2>6 DEF Download
<1>4. worker'[j] = "done" <=> worker[j] = "done"
  <2>1. CASE StreamEnd(j)
    <3>1. dl[j] = "stream" /\ worker[j] = "idle"
      BY <2>1 DEF StreamEnd, JobInv
    <3>2. PICK c \in {"short", "full"} : BeginFinalize(j, c)
      BY <2>1 DEF StreamEnd
    <3> QED
      BY <3>1, <3>2, BeginEffect
  <2>2. CASE ~StreamEnd(j)
    <3>1. worker' = worker
      BY <2>2 DEF Download, LoopTop, PauseTaken, DlError, Open, Chunk
    <3> QED
      BY <3>1
  <2> QED
    BY <2>1, <2>2
<1> QED
  BY <1>1, <1>2, <1>3, <1>4, CopyKept

\* The steps of an encryption: its blob passes from the thread to the record.
LEMMA CopyFinalization ==
    ASSUME CopiesInv, TypeOK', NEW j \in Jobs, Finalization(j)
    PROVE  CopyInv(j)' /\ faults' = faults
<1> /\ TypeOK /\ CopyInv(j) /\ JobInv(j) /\ rec[j] \in Record(Names)
    /\ blobs[j] \in Nat /\ faults \in Nat
  BY CopyTypes DEF CopiesInv, Inv
<1>0. UNCHANGED <<blobs, faults, mode, phase>>
  BY DEF Finalization, FinStart, Complete, FinalizeFail
<1>1. CASE FinStart(j)
  <2>1. ~rec[j].blob /\ worker[j] = "idle"
    BY <1>1 DEF FinStart, CopyInv, Over, NoTask, JobInv
  <2>2. rec'[j].blob = rec[j].blob /\ worker'[j] # "done"
    <3>1. BeginFinalize(j, Dest(j)) /\ Dest(j) \in Content
      BY <1>1 DEF FinStart, Dest, TypeOK, Record
    <3> QED
      BY <3>1, BeginEffect DEF Content
  <2> QED
    BY <1>0, <2>1, <2>2, CopyKept
<1>2. CASE Complete(j)
  <2>1. /\ worker[j] = "done" /\ worker'[j] = "idle" /\ NoTask(j)' /\ phase[j] # "new"
    BY <1>2, LeaveEffect DEF Complete, NoTask, TypeOK, JobInv
  <2>2. rec'[j].blob /\ rec'[j].status = "completed"
    BY <1>2 DEF Complete, Completed, TypeOK, Record
  <2>3. Landed(j) = 1 /\ Landed(j)' = 1
    BY <2>1, <2>2 DEF Landed
  <2> QED
    BY <1>0, <2>1, <2>2, <2>3 DEF CopyInv, Over
<1>3. CASE FinalizeFail(j)
  <2>1. worker[j] = "error" /\ worker'[j] = "idle"
    BY <1>3 DEF FinalizeFail, TypeOK
  <2>2. rec'[j].blob = rec[j].blob
    BY <1>3, SaveEffect DEF FinalizeFail, Fail, Record
  <2>3. ~rec[j].blob
    BY <2>1 DEF CopyInv, Over
  <2> QED
    BY <1>0, <2>1, <2>2, <2>3, CopyKept
<1> QED
  BY <1>0, <1>1, <1>2, <1>3 DEF Finalization

\* The thread: it lands one blob, and a blob whose attempt then fails is paid
\* for by that failure.
LEMMA CopyThread ==
    ASSUME CopiesInv, TypeOK', NEW j \in Jobs, Thread(j)
    PROVE  CopyInv(j)' /\ faults <= faults'
<1> /\ TypeOK /\ CopyInv(j) /\ blobs[j] \in Nat /\ faults \in Nat
    /\ mode \in {"up", "stopping", "draining", "down"}
  BY CopyTypes DEF CopiesInv, Inv
<1>1. mode' = mode /\ rec' = rec /\ mode # "down"
  BY DEF Thread, WorkerDone, WorkerFail, Running
<1>2. worker[j] \notin {"idle", "done"} /\ ~rec[j].blob
  BY DEF Thread, WorkerDone, WorkerFail, Busy, Content, CopyInv, Over
<1>3. \/ worker'[j] = "done" /\ blobs'[j] = blobs[j] + 1 /\ faults' = faults
      \/ worker'[j] = "error" /\ blobs'[j] = blobs[j] /\ faults' = faults
      \/ worker'[j] = "error" /\ blobs'[j] = blobs[j] /\ faults' = faults + 1
      \/ worker'[j] = "error" /\ blobs'[j] = blobs[j] + 1 /\ faults' = faults + 1
  BY DEF Thread, WorkerDone, WorkerFail, Land, TypeOK
<1>4. Landed(j) = 0 /\ (worker'[j] = "done" => Landed(j)' = 1)
      /\ (worker'[j] = "error" => Landed(j)' = 0)
  BY <1>1, <1>2 DEF Landed
<1> QED
  BY <1>1, <1>2, <1>3, <1>4 DEF CopyInv

\* The requests: Retry is refused for a job that is complete, and Cancel takes
\* blobs away only.
LEMMA CopyRequest ==
    ASSUME CopiesInv, TypeOK', NEW j \in Jobs, Request(j)
    PROVE  CopyInv(j)' /\ faults' = faults
<1> /\ TypeOK /\ CopyInv(j) /\ JobInv(j) /\ rec[j] \in Record(Names)
    /\ blobs[j] \in Nat /\ faults \in Nat
  BY CopyTypes DEF CopiesInv, Inv
<1>0. UNCHANGED <<worker, faults, mode>>
  BY DEF Request, Add, Pause, Resume, Retry, Cancel
<1>1. CASE Add(j)
  <2>1. ~rec[j].blob /\ blobs' = blobs
    BY <1>1 DEF Add, CopyInv, Over
  <2>2. rec'[j].blob = rec[j].blob
    <3>1. rec[j].blob = FALSE /\ rec'[j].blob = FALSE
      BY <1>1, <2>1, CopyTypes, SaveEffect DEF Add, NewRecord
    <3> QED
      BY <3>1
  <2> QED
    BY <1>0, <2>1, <2>2, CopyKept
<1>2. CASE Pause(j)
  <2>1. rec'[j].blob = rec[j].blob /\ rec'[j].status = "paused"
    <3> DEFINE r == [rec[j] EXCEPT !.status = "paused", !.user_paused = TRUE]
    <3>1. r.blob = rec[j].blob /\ r.status = "paused"
      BY DEF Record
    <3>2. Save(j, r)
      BY <1>2 DEF Pause
    <3> HIDE DEF r
    <3> QED
      BY <3>1, <3>2, SaveEffect
  <2>2. UNCHANGED <<phase, dl, fin, blobs>>
    BY <1>2 DEF Pause
  <2>3. rec[j].blob => Over(j)'
    BY <1>0, <2>1, <2>2 DEF CopyInv, Over, NoTask
  <2> QED
    BY <1>0, <2>1, <2>2, <2>3, CopyKept
<1>3. CASE Resume(j)
  <2>1. rec'[j].blob = rec[j].blob /\ rec'[j].status = "downloading"
    <3> DEFINE r == [rec[j] EXCEPT !.status = "downloading", !.user_paused = FALSE]
    <3>1. r.blob = rec[j].blob /\ r.status = "downloading"
      BY DEF Record
    <3>2. Save(j, r)
      BY <1>3 DEF Resume
    <3> HIDE DEF r
    <3> QED
      BY <3>1, <3>2, SaveEffect
  <2>2. UNCHANGED <<phase, dl, fin, blobs>>
    BY <1>3 DEF Resume
  <2>3. rec[j].blob => Over(j)'
    BY <1>0, <2>1, <2>2 DEF CopyInv, Over, NoTask
  <2> QED
    BY <1>0, <2>1, <2>2, <2>3, CopyKept
<1>4. CASE Retry(j)
  <2>1. ~rec[j].blob /\ blobs' = blobs
    BY <1>4 DEF Retry, CopyInv, Over
  <2>2. rec'[j].blob = rec[j].blob
    BY <1>4 DEF Retry, TypeOK, Record
  <2> QED
    BY <1>0, <2>1, <2>2, CopyKept
<1>5. CASE Cancel(j)
  <2>1. UNCHANGED <<rec, dl, fin>> /\ phase'[j] # "new"
    BY <1>5 DEF Cancel, Wipe, TypeOK
  <2>2. blobs'[j] <= blobs[j]
    BY <1>5 DEF Cancel, Wipe, TypeOK
  <2> QED
    BY <1>0, <2>1, <2>2, CopyKept DEF CopyInv, Over, NoTask
<1> QED
  BY <1>0, <1>1, <1>2, <1>3, <1>4, <1>5 DEF Request

\* The two steps in which a cancellation is carried out.
LEMMA CopyCancel ==
    ASSUME CopiesInv, TypeOK', NEW j \in Jobs, TaskCancelled(j) \/ CancelFinish(j)
    PROVE  CopyInv(j)' /\ faults' = faults
<1> /\ TypeOK /\ CopyInv(j) /\ JobInv(j) /\ rec[j] \in Record(Names)
    /\ blobs[j] \in Nat /\ faults \in Nat
  BY CopyTypes DEF CopiesInv, Inv
<1>1. CASE TaskCancelled(j)
  <2>1. dl[j] # "none" /\ ~rec[j].blob
    BY <1>1 DEF TaskCancelled, Killed, CopyInv, Over, NoTask
  <2>2. rec'[j].blob = rec[j].blob
    BY <1>1 DEF TaskCancelled, TypeOK, Record
  <2> QED
    BY <1>1, <2>1, <2>2, CopyKept DEF TaskCancelled
<1>2. CASE CancelFinish(j)
  <2>1. UNCHANGED <<rec, dl, fin, worker, faults, mode>> /\ phase'[j] # "new"
    BY <1>2 DEF CancelFinish, Wipe, TypeOK
  <2>2. blobs'[j] <= blobs[j]
    BY <1>2 DEF CancelFinish, Wipe, TypeOK
  <2> QED
    BY <2>1, <2>2, CopyKept DEF CopyInv, Over, NoTask
<1> QED
  BY <1>1, <1>2

\* Stop, exit, crash and restart.
LEMMA CopyProcess ==
    ASSUME CopiesInv, TypeOK', NEW j \in Jobs, Process
    PROVE  CopyInv(j)'
<1> /\ TypeOK /\ CopyInv(j) /\ JobInv(j) /\ rec[j] \in Record(Names)
    /\ blobs[j] \in Nat /\ faults \in Nat /\ Landed(j) \in 0..1
    /\ mode \in {"up", "stopping", "draining", "down"}
  BY CopyTypes DEF CopiesInv, Inv
<1>1. CASE Flush \/ Stop \/ StopFlush
  <2>1. UNCHANGED <<phase, rec, dl, fin, worker, blobs>>
    BY <1>1 DEF Flush, Stop, StopFlush
  <2>2. \/ mode = "up" /\ mode' = "up" /\ faults' = faults
        \/ mode = "up" /\ mode' = "stopping" /\ faults' = faults + 1
        \/ mode = "stopping" /\ mode' = "draining" /\ faults' = faults
    BY <1>1 DEF Flush, Stop, StopFlush
  <2>3. Landed(j)' = Landed(j) /\ (rec'[j].blob => Over(j)')
    BY <2>1 DEF Landed, CopyInv, Over, NoTask
  <2> QED
    BY <2>1, <2>2, <2>3 DEF CopyInv
<1>2. CASE Exit \/ Crash
  <2>1. Die /\ mode # "down"
    BY <1>2 DEF Exit, Crash, Running
  <2>2. /\ mode = "up" => faults + 1 <= faults'
        /\ faults <= faults'
    BY <1>2 DEF Exit, Crash
  <2> QED
    BY <2>1, <2>2, DieEffect, CopyDown
<1>3. CASE Restart
  <2>1. mode = "down" /\ mode' = "up" /\ UNCHANGED <<phase, worker, blobs, faults>>
    BY <1>3 DEF Restart
  <2>2. rec'[j].blob => Over(j)'
    <3>1. CASE Saved(disk[j])
      <4>1. rec'[j] = RestoredRecord(j)
        BY <1>3, <3>1 DEF Restart
      <4>2. disk[j].status \in Persistable
        BY <3>1 DEF TypeOK, Saved, Snapshot, NoSnapshot
      <4>3. ~RestoredRecord(j).blob
        BY DEF RestoredRecord, FromSnapshot
      <4> QED
        BY <4>1, <4>3
    <3>2. CASE ~Saved(disk[j])
      <4>1. /\ rec'[j] = rec[j] /\ dl'[j] = "none" /\ fin'[j] = "none"
        BY <1>3, <3>2 DEF Restart
      <4> QED
        BY <2>1, <4>1 DEF CopyInv, Over, NoTask
    <3> QED
      BY <3>1, <3>2
  <2>3. Landed(j)' \in 0..1
    BY DEF Landed
  <2> QED
    BY <2>1, <2>2, <2>3 DEF CopyInv
<1> QED
  BY <1>1, <1>2, <1>3 DEF Process

\* A crash between the steps of a handler for some job i.
LEMMA CopyCrash ==
    ASSUME CopiesInv, TypeOK', NEW j \in Jobs, NEW i \in Jobs,
           CrashInComplete(i) \/ CrashInCancel(i)
    PROVE  CopyInv(j)'
<1> TypeOK /\ CopyInv(j)
  BY DEF CopiesInv, Inv
<1>1. CASE CrashInComplete(i)
  <2>1. Die /\ mode # "down" /\ faults + 1 <= faults' /\ faults <= faults'
    BY <1>1, CopyTypes DEF CrashInComplete, Running
  <2> QED
    BY <2>1, DieEffect, CopyDown
<1>2. CASE CrashInCancel(i)
  <2>1. /\ mode = "up" /\ mode' = "down"
        /\ faults + 1 <= faults' /\ faults <= faults'
        /\ rec' = rec /\ blobs' = blobs /\ NoTask(j)' /\ worker'[j] = "idle"
    BY <1>2, CopyTypes DEF CrashInCancel, NoTask
  <2>2. phase[j] # "new" => phase'[j] # "new"
    BY <1>2 DEF CrashInCancel, TypeOK
  <2> QED
    BY <2>1, <2>2, CopyDown
<1> QED
  BY <1>1, <1>2

\* Every step of the system keeps the account of every job.
LEMMA CopiesStep ==
    ASSUME CopiesInv, [Next]_vars
    PROVE  CopiesInv'
<1> TypeOK /\ Inv /\ faults \in Nat
  BY MaxFaultsAssumption DEF CopiesInv, Inv, TypeOK
<1>1. Inv' /\ TypeOK'
  BY InvStep DEF Inv
<1>2. ASSUME NEW j \in Jobs, CopyInv(j)', faults <= faults',
             \A i \in Jobs \ {j} : Same(i) /\ mode' = mode
      PROVE  \A i \in Jobs : CopyInv(i)'
  BY <1>1, <1>2, CopyFrame DEF CopiesInv
<1>3. ASSUME NEW j \in Jobs,
             Download(j) \/ Finalization(j) \/ Thread(j) \/ Request(j)
               \/ TaskCancelled(j) \/ CancelFinish(j)
      PROVE  \A i \in Jobs : CopyInv(i)'
  <2>1. \A i \in Jobs \ {j} : Same(i) /\ mode' = mode
    BY <1>3, DownloadStep, FinalizationStep, ThreadStep, RequestStep, CancelStep
  <2>2. CopyInv(j)' /\ faults <= faults'
    BY <1>1, <1>3, CopyDownload, CopyFinalization, CopyThread, CopyRequest, CopyCancel
  <2> QED
    BY <1>2, <2>1, <2>2
<1>4. ASSUME NEW j \in Jobs, CrashInComplete(j) \/ CrashInCancel(j)
      PROVE  \A i \in Jobs : CopyInv(i)'
  BY <1>1, <1>4, CopyCrash
<1>5. ASSUME Process
      PROVE  \A i \in Jobs : CopyInv(i)'
  BY <1>1, <1>5, CopyProcess
<1>6. ASSUME UNCHANGED vars
      PROVE  \A i \in Jobs : CopyInv(i)'
  BY <1>1, <1>6, CopyFrame DEF vars, CopiesInv, Same
<1> QED
  BY <1>1, <1>3, <1>4, <1>5, <1>6 DEF Next, CopiesInv

\* Each blob of a job beyond the first is due to a fault.
THEOREM CopiesExplainedHolds == Spec => []CopiesExplained
<1>1. Init => CopiesInv
  BY InitInv, MaxFaultsAssumption DEF Init, CopiesInv, CopyInv, Landed, NewRecord
<1>2. CopiesInv /\ [Next]_vars => CopiesInv'
  BY CopiesStep
<1>3. CopiesInv => CopiesExplained
  <2> SUFFICES ASSUME CopiesInv, NEW j \in Jobs
               PROVE  blobs[j] <= 1 + faults
    BY DEF CopiesExplained
  <2> QED
    BY CopyTypes DEF CopiesInv, Inv, CopyInv
<1> QED
  BY <1>1, <1>2, <1>3, PTL DEF Spec
=============================================================================
