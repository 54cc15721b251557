------------------------------ MODULE HttpJobs ------------------------------
(***************************************************************************)
(* HTTP jobs of services/download_manager.py.  Each job is driven by one   *)
(* coroutine: `dl' is _http_download, started when the job is added,       *)
(* retried or restored; `fin' is the _finalize closure that retry and      *)
(* restore start when only the encryption is left.  Both end in            *)
(* _finalize_path, which hands append_completed to a worker thread.  The   *)
(* request handlers run between the awaits of these coroutines on the same *)
(* event loop; the worker thread runs beside them, and the process may     *)
(* stop or die at any moment.                                              *)
(***************************************************************************)
EXTENDS Naturals, JobRecord

CONSTANTS
    Jobs,         \* ids of the jobs users create
    MaxFaults,    \* bound on crashes, stops and failed encryptions
    StaleClicks   \* may Resume reach a job the web UI no longer offers it for?

ASSUME MaxFaultsAssumption == MaxFaults \in Nat
ASSUME StaleClicksAssumption == StaleClicks \in BOOLEAN

VARIABLES
    phase,    \* phase[j]: what the user asked: new, accepted, doomed, cancelled
    held,     \* jobs the user has paused, and not resumed or retried since
    listed,   \* keys of Store.jobs
    rec,      \* rec[j]: the JobRecord object (kept when it leaves Store.jobs)
    disk,     \* disk[j]: job.json in the work dir
    files,    \* files[j][n]: the file called n in the work dir
    dl,       \* dl[j]: where _http_download of j stands
    fin,      \* fin[j]: where the _finalize closure of j stands
    waiting,  \* jobs whose cancel handler is suspended at `await task'
    worker,   \* worker[j]: the thread running append_completed for j
    blobs,    \* blobs[j]: blobs of j in the completed store
    torn,     \* jobs of which an unfinished download was put in the store
    mode,     \* the process: up, stopping, draining, down
    faults

vars == <<phase, held, listed, rec, disk, files, dl, fin, waiting, worker,
          blobs, torn, mode, faults>>

\* File names: guessed from the URL, taken from Content-Disposition, and the
\* id a completed job is renamed to.
Names == {"url", "cd", "fid"}

\* empty: just opened for writing; the source is not.  short: what a response that
\* ended normally has left before the end of the source.
Content == {"none", "empty", "part", "short", "full"}

\* top: created, not yet run; connect: awaiting the response; stream: awaiting
\* a chunk; wait: asleep in the pause loop; encrypt: awaiting the thread.
DlPlaces == {"none", "top", "connect", "stream", "wait", "encrypt"}
FinPlaces == {"none", "start", "encrypt"}

\* idle, or busy with a source file of that content, or finished.
WorkerStates == {"idle", "done", "error"} \cup Content
Busy(j) == worker[j] \in Content

Dest(j) == files[j][rec[j].name]      \* content of work_dir / job.name
NoFiles == [n \in Names |-> "none"]
Put(fs, j, n, c) == [fs EXCEPT ![j] = [@ EXCEPT ![n] = c]]

Running == mode \in {"up", "stopping", "draining"}

\* A CancelledError is on its way to the task: by cancel or by stop.
Killed(j) == dl[j] # "none" /\ (j \in waiting \/ mode = "stopping")

\* j is a key of _http_tasks (cancel pops it, the task itself at its end).
Registered(j) == dl[j] # "none" /\ j \notin waiting

\* The task of j may take its next step.
DlRuns(j) == Running /\ ~Killed(j)

Init ==
    /\ phase = [j \in Jobs |-> "new"]
    /\ held = {}
    /\ listed = {}
    /\ rec = [j \in Jobs |-> NewRecord("url")]
    /\ disk = [j \in Jobs |-> NoSnapshot]
    /\ files = [j \in Jobs |-> NoFiles]
    /\ dl = [j \in Jobs |-> "none"]
    /\ fin = [j \in Jobs |-> "none"]
    /\ waiting = {}
    /\ worker = [j \in Jobs |-> "idle"]
    /\ blobs = [j \in Jobs |-> 0]
    /\ torn = {}
    /\ mode = "up"
    /\ faults = 0

-----------------------------------------------------------------------------
(* The download task.                                                      *)

\* Set the record and write the snapshot: touch and persist_job.
Save(j, r) ==
    /\ rec' = [rec EXCEPT ![j] = r]
    /\ disk' = Persist(disk, j, r)

\* One turn of the loop of _http_download up to its next await: a paused job
\* goes (back) to sleep, any other opens the request.
LoopTop(j) ==
    /\ DlRuns(j)
    /\ \/ /\ dl[j] = "top" /\ rec[j].user_paused
          /\ Save(j, [rec[j] EXCEPT !.status = "paused"])
          /\ dl' = [dl EXCEPT ![j] = "wait"]
       \/ /\ dl[j] \in {"top", "wait"} /\ ~rec[j].user_paused
          /\ Save(j, [rec[j] EXCEPT !.status = "downloading"])
          /\ dl' = [dl EXCEPT ![j] = "connect"]
    /\ UNCHANGED <<phase, held, listed, files, fin, waiting, worker, blobs, torn,
                   mode, faults>>

\* What a response that goes on from c makes of it, before its first chunk.
Resumed(c) == IF c = "short" THEN "part" ELSE c

\* The work dir of j once the file is open for the body of the answer: 206
\* appends to what is there, 200 starts over.  The file is renamed to n unless
\* there is one of that name.
Opened(j, code, n) ==
    LET old   == rec[j].name
        clash == n # old /\ files[j][n] # "none"
        unlinked == code = 200 /\ Dest(j) \in {"part", "short", "full"}
    IN  [m \in Names |->
            CASE m = n /\ code = 200 -> "empty"
              [] m = n /\ code = 206 -> Resumed(files[j][IF clash THEN n ELSE old])
              [] m = old /\ m # n    -> IF clash /\ ~unlinked THEN files[j][old] ELSE "none"
              [] OTHER -> files[j][m]]

\* The server answers.  A Range request was sent iff bytes exist (none can be
\* appended to a full file: that is a 416).  Content-Disposition may rename the
\* file, and saves the record.
Open(j, code, n) ==
    /\ DlRuns(j) /\ dl[j] = "connect"
    /\ n \in {rec[j].name, "cd"}
    /\ code = 206 => Dest(j) \in {"part", "short"}
    /\ files' = [files EXCEPT ![j] = Opened(j, code, n)]
    /\ IF n = rec[j].name THEN UNCHANGED <<rec, disk>>
                          ELSE Save(j, [rec[j] EXCEPT !.name = n])
    /\ dl' = [dl EXCEPT ![j] = "stream"]
    /\ UNCHANGED <<phase, held, listed, fin, waiting, worker, blobs, torn,
                   mode, faults>>

\* A chunk arrives (the last one if c = "full") and is written, ...
Chunk(j, c) ==
    /\ DlRuns(j) /\ dl[j] = "stream"
    /\ ~rec[j].user_paused
    /\ c \in {"part", "full"} /\ Dest(j) # "full"
    /\ files' = Put(files, j, rec[j].name, c)
    /\ rec' = [rec EXCEPT ![j].state = "http"]
    /\ UNCHANGED <<phase, held, listed, disk, dl, fin, waiting, worker, blobs, torn,
                   mode, faults>>

\* ... unless the job was paused meanwhile: the task keeps the partial file
\* and goes to sleep (_UserPaused).
PauseTaken(j) ==
    /\ DlRuns(j) /\ dl[j] = "stream"
    /\ rec[j].user_paused /\ Dest(j) # "full"
    /\ Save(j, [rec[j] EXCEPT !.status = "paused"])
    /\ dl' = [dl EXCEPT ![j] = "wait"]
    /\ UNCHANGED <<phase, held, listed, files, fin, waiting, worker, blobs, torn,
                   mode, faults>>

\* Mutant: the snapshot is dropped when the encryption begins.
BeginFinalizeDropsEarly(j, c) ==
    /\ rec' = [rec EXCEPT ![j].status = "encrypting", ![j].state = "encrypting"]
    /\ disk' = Drop(disk, j)
    /\ worker' = [worker EXCEPT ![j] = c]

\* _finalize_path up to its first await, by either coroutine, for a file of content c.
BeginFinalize(j, c) ==
    /\ Save(j, [rec[j] EXCEPT !.status = "encrypting", !.state = "encrypting"])
    /\ worker' = [worker EXCEPT ![j] = c]

\* The response ends, with the source or before it: what was downloaded is not
\* compared with total_bytes.  No chunk is left to notice a pause.
StreamEnd(j) ==
    LET c == IF Dest(j) = "full" THEN "full" ELSE "short"
    IN  /\ DlRuns(j) /\ dl[j] = "stream"
        /\ files' = Put(files, j, rec[j].name, c)
        /\ BeginFinalize(j, c)
        /\ dl' = [dl EXCEPT ![j] = "encrypt"]
        /\ UNCHANGED <<phase, held, listed, fin, waiting, blobs, torn, mode, faults>>

\* The finalization left over from an earlier attempt starts.
FinStart(j) ==
    /\ Running /\ fin[j] = "start"
    /\ BeginFinalize(j, Dest(j))
    /\ fin' = [fin EXCEPT ![j] = "encrypt"]
    /\ UNCHANGED <<phase, held, listed, files, dl, waiting, blobs, torn, mode, faults>>

\* The coroutine that awaits the thread of j ends.
LeaveFinalize(j) ==
    \/ /\ dl[j] = "encrypt" /\ ~Killed(j)
       /\ dl' = [dl EXCEPT ![j] = "none"]
       /\ UNCHANGED fin
    \/ /\ fin[j] = "encrypt"
       /\ fin' = [fin EXCEPT ![j] = "none"]
       /\ UNCHANGED dl

Completed(j) == [rec[j] EXCEPT !.status = "completed", !.name = "fid", !.blob = TRUE]

\* The rest of _finalize_path once the file is in the store.
Complete(j) ==
    /\ Running /\ worker[j] = "done"
    /\ LeaveFinalize(j)
    /\ worker' = [worker EXCEPT ![j] = "idle"]
    /\ rec' = [rec EXCEPT ![j] = Completed(j)]
    /\ disk' = Drop(disk, j)
    /\ files' = [files EXCEPT ![j] = NoFiles]
    /\ UNCHANGED <<phase, held, listed, waiting, blobs, torn, mode, faults>>

\* _fail_job: the error of a request, of a response or of the thread.
Fail(j) == Save(j, [rec[j] EXCEPT !.status = "failed"])

\* Mutant: the closures of retry and restore have no except clause.
FinalizeFailSilent(j) ==
    /\ Running /\ worker[j] = "error"
    /\ LeaveFinalize(j)
    /\ worker' = [worker EXCEPT ![j] = "idle"]
    /\ IF fin[j] = "encrypt" THEN UNCHANGED <<rec, disk>> ELSE Fail(j)
    /\ UNCHANGED <<phase, held, listed, files, waiting, blobs, torn, mode, faults>>

FinalizeFail(j) ==
    /\ Running /\ worker[j] = "error"
    /\ LeaveFinalize(j)
    /\ worker' = [worker EXCEPT ![j] = "idle"]
    /\ Fail(j)
    /\ UNCHANGED <<phase, held, listed, files, waiting, blobs, torn, mode, faults>>

DlError(j) ==
    /\ DlRuns(j) /\ dl[j] \in {"connect", "stream"}
    /\ Fail(j)
    /\ dl' = [dl EXCEPT ![j] = "none"]
    /\ UNCHANGED <<phase, held, listed, files, fin, waiting, worker, blobs, torn,
                   mode, faults>>

\* Mutant: the pause loop swallows the CancelledError.
TaskCancelledNotAsleep(j) ==
    /\ Running /\ Killed(j) /\ dl[j] # "wait"
    /\ dl' = [dl EXCEPT ![j] = "none"]
    /\ rec' = IF dl[j] = "top" \/ mode # "up" THEN rec
              ELSE [rec EXCEPT ![j].status = "cancelled"]
    /\ UNCHANGED <<phase, held, listed, disk, files, fin, waiting, worker, blobs,
                   torn, mode, faults>>

\* The CancelledError is delivered.  A task that never ran has no handler for
\* it; on shutdown the record is left for the restart.
TaskCancelled(j) ==
    /\ Running /\ Killed(j)
    /\ dl' = [dl EXCEPT ![j] = "none"]
    /\ rec' = IF dl[j] = "top" \/ mode # "up" THEN rec
              ELSE [rec EXCEPT ![j].status = "cancelled"]
    /\ UNCHANGED <<phase, held, listed, disk, files, fin, waiting, worker, blobs,
                   torn, mode, faults>>

-----------------------------------------------------------------------------
(* The worker thread: append_completed, then write_duration.               *)

Land(j) ==
    /\ blobs' = [blobs EXCEPT ![j] = @ + 1]
    /\ torn' = IF worker[j] \in {"short", "full"} THEN torn ELSE torn \cup {j}

WorkerDone(j) ==
    /\ Running /\ Busy(j) /\ worker[j] # "none"
    /\ Land(j)
    /\ worker' = [worker EXCEPT ![j] = "done"]
    /\ UNCHANGED <<phase, held, listed, rec, disk, files, dl, fin, waiting, mode, faults>>

\* A failure of the disk, before the blob is in place or after it (the
\* manifest line, the duration); or the source file is gone.
WorkerFail(j) ==
    /\ Running /\ Busy(j)
    /\ worker' = [worker EXCEPT ![j] = "error"]
    /\ \/ /\ worker[j] = "none" /\ UNCHANGED <<blobs, torn, faults>>
       \/ /\ faults < MaxFaults /\ faults' = faults + 1
          /\ UNCHANGED <<blobs, torn>>
       \/ /\ faults < MaxFaults /\ faults' = faults + 1
          /\ worker[j] # "none" /\ Land(j)
    /\ UNCHANGED <<phase, held, listed, rec, disk, files, dl, fin, waiting, mode>>

-----------------------------------------------------------------------------
(* Request handlers; the API is served while the process is up.            *)

\* _add_http: register, save, start the task.
Add(j) ==
    /\ mode = "up" /\ phase[j] = "new"
    /\ phase' = [phase EXCEPT ![j] = "accepted"]
    /\ listed' = listed \cup {j}
    /\ Save(j, [NewRecord("url") EXCEPT !.status = "downloading"])
    /\ dl' = [dl EXCEPT ![j] = "top"]
    /\ UNCHANGED <<held, files, fin, waiting, worker, blobs, torn, mode, faults>>

\* Mutant: a failed job can be paused, too.
PauseFailed(j) ==
    /\ mode = "up" /\ j \in listed
    /\ rec[j].status \in {"queued", "downloading", "failed"}
    /\ Save(j, [rec[j] EXCEPT !.status = "paused", !.user_paused = TRUE])
    /\ held' = held \cup {j}
    /\ UNCHANGED <<phase, listed, files, dl, fin, waiting, worker, blobs, torn,
                   mode, faults>>

\* Mutant: pause leaves the saving to the next flush.
PauseUnsaved(j) ==
    /\ mode = "up" /\ j \in listed
    /\ rec[j].status \in {"queued", "downloading"}
    /\ rec' = [rec EXCEPT ![j].status = "paused", ![j].user_paused = TRUE]
    /\ held' = held \cup {j}
    /\ UNCHANGED <<phase, listed, disk, files, dl, fin, waiting, worker, blobs, torn,
                   mode, faults>>

Pause(j) ==
    /\ mode = "up" /\ j \in listed
    /\ rec[j].status \in {"queued", "downloading"}
    /\ Save(j, [rec[j] EXCEPT !.status = "paused", !.user_paused = TRUE])
    /\ held' = held \cup {j}
    /\ UNCHANGED <<phase, listed, files, dl, fin, waiting, worker, blobs, torn,
                   mode, faults>>

\* Mutant: resume sets the status and forgets the flag.
ResumeKeepsFlag(j) ==
    /\ mode = "up" /\ j \in listed
    /\ StaleClicks \/ rec[j].status = "paused"
    /\ Save(j, [rec[j] EXCEPT !.status = "downloading"])
    /\ held' = held \ {j}
    /\ UNCHANGED <<phase, listed, files, dl, fin, waiting, worker, blobs, torn,
                   mode, faults>>

\* The handler's own guard is the third conjunct; the web UI shows the button
\* for a paused job only, but acts on a status that may be out of date.
Resume(j) ==
    /\ mode = "up" /\ j \in listed
    /\ StaleClicks \/ rec[j].status = "paused"
    /\ rec[j].user_paused \/ rec[j].status = "paused"
    /\ Save(j, [rec[j] EXCEPT !.status = "downloading", !.user_paused = FALSE])
    /\ held' = held \ {j}
    /\ UNCHANGED <<phase, listed, files, dl, fin, waiting, worker, blobs, torn,
                   mode, faults>>

\* Mutants: a job can be retried while it is encrypted, or when it is complete.
RetryOf(j, statuses) ==
    /\ mode = "up" /\ j \in listed
    /\ rec[j].status \in statuses /\ ~Registered(j)
    /\ IF rec[j].state = "encrypting" /\ Dest(j) # "none"
         THEN /\ rec' = [rec EXCEPT ![j].status = "encrypting"]
              /\ fin' = [fin EXCEPT ![j] = "start"]
              /\ UNCHANGED <<files, dl>>
         ELSE /\ rec' = [rec EXCEPT ![j].status = "downloading", ![j].state = "http"]
              /\ dl' = [dl EXCEPT ![j] = "top"]
              /\ UNCHANGED <<files, fin>>
    /\ held' = held \ {j}
    /\ UNCHANGED <<phase, listed, disk, waiting, worker, blobs, torn, mode, faults>>

RetryEncrypting(j) == RetryOf(j, {"failed", "encrypting"})
RetryCompleted(j) == RetryOf(j, {"failed", "completed"})

\* retry and _retry_http: encrypt again if only that failed, else start over.
\* Nothing is saved until the new coroutine runs.
Retry(j) ==
    /\ mode = "up" /\ j \in listed
    /\ rec[j].status = "failed" /\ ~Registered(j)
    /\ IF rec[j].state = "encrypting" /\ Dest(j) # "none"
         THEN /\ rec' = [rec EXCEPT ![j].status = "encrypting", ![j].user_paused = FALSE]
              /\ fin' = [fin EXCEPT ![j] = "start"]
              /\ UNCHANGED <<files, dl>>
         ELSE /\ rec' = [rec EXCEPT ![j].status = "downloading",
                                    ![j].user_paused = FALSE, ![j].state = "http"]
              /\ files' = Put(files, j, rec[j].name, "none")
              /\ dl' = [dl EXCEPT ![j] = "top"]
              /\ UNCHANGED fin
    /\ held' = held \ {j}
    /\ UNCHANGED <<phase, listed, disk, waiting, worker, blobs, torn, mode, faults>>

\* The end of cancel: wipe the work dir and a completed blob, leave the list.
Wipe(j) ==
    /\ phase' = [phase EXCEPT ![j] = "cancelled"]
    /\ listed' = listed \ {j}
    /\ disk' = Drop(disk, j)
    /\ files' = [files EXCEPT ![j] = NoFiles]
    /\ blobs' = IF rec[j].blob /\ blobs[j] > 0 THEN [blobs EXCEPT ![j] = @ - 1] ELSE blobs

\* Mutant: cancel accepts a job that is being encrypted.
CancelEncrypting(j) ==
    /\ mode = "up" /\ j \in listed
    /\ rec[j].status # "completed"
    /\ IF Registered(j)
         THEN /\ waiting' = waiting \cup {j}
              /\ phase' = [phase EXCEPT ![j] = "doomed"]
              /\ UNCHANGED <<listed, disk, files, blobs>>
         ELSE /\ Wipe(j)
              /\ UNCHANGED waiting
    /\ UNCHANGED <<held, rec, dl, fin, worker, torn, mode, faults>>

\* cancel, up to `await task' if the job has a task, to its end otherwise.
Cancel(j) ==
    /\ mode = "up" /\ j \in listed
    /\ rec[j].status \notin {"completed", "encrypting"}
    /\ IF Registered(j)
         THEN /\ waiting' = waiting \cup {j}
              /\ phase' = [phase EXCEPT ![j] = "doomed"]
              /\ UNCHANGED <<listed, disk, files, blobs>>
         ELSE /\ Wipe(j)
              /\ UNCHANGED waiting
    /\ UNCHANGED <<held, rec, dl, fin, worker, torn, mode, faults>>

\* cancel resumes: the task has ended.
CancelFinish(j) ==
    /\ mode = "up" /\ j \in waiting /\ dl[j] = "none"
    /\ Wipe(j)
    /\ waiting' = waiting \ {j}
    /\ UNCHANGED <<held, rec, dl, fin, worker, torn, mode, faults>>

-----------------------------------------------------------------------------
(* The process.                                                            *)

\* Mutant: every listed job is flushed, whatever its status.
FlushedAll == [j \in Jobs |->
    IF j \in listed
      THEN [status |-> rec[j].status, user_paused |-> rec[j].user_paused,
            state |-> rec[j].state, name |-> rec[j].name]
      ELSE disk[j]]

\* flush_dirty_jobs: called by the poll loop now and then, and by stop.
\* Every change of a record marks it dirty.
Flushed == [j \in Jobs |->
    IF j \in listed /\ rec[j].status \in Persistable THEN ToSnapshot(rec[j])
                                                     ELSE disk[j]]

Flush ==
    /\ mode = "up"
    /\ disk' = Flushed
    /\ UNCHANGED <<phase, held, listed, rec, files, dl, fin, waiting, worker, blobs,
                   torn, mode, faults>>

\* stop: every task of _http_tasks is cancelled and awaited.  Requests still
\* being served are waited for before the shutdown begins.
Stop ==
    /\ mode = "up" /\ waiting = {}
    /\ faults < MaxFaults /\ faults' = faults + 1
    /\ mode' = "stopping"
    /\ UNCHANGED <<phase, held, listed, rec, disk, files, dl, fin, waiting, worker,
                   blobs, torn>>

StopFlush ==
    /\ mode = "stopping" /\ \A j \in Jobs : dl[j] = "none"
    /\ disk' = Flushed
    /\ mode' = "draining"
    /\ UNCHANGED <<phase, held, listed, rec, files, dl, fin, waiting, worker, blobs,
                   torn, faults>>

\* What a process leaves behind: the disk and nothing else.
Die ==
    /\ mode' = "down"
    /\ listed' = {}
    /\ dl' = [j \in Jobs |-> "none"]
    /\ fin' = [j \in Jobs |-> "none"]
    /\ waiting' = {}
    /\ worker' = [j \in Jobs |-> "idle"]
    /\ UNCHANGED <<phase, held, rec, blobs, torn>>

\* The interpreter joins its threads and drops the remaining coroutines.
Exit ==
    /\ mode = "draining" /\ \A j \in Jobs : ~Busy(j)
    /\ Die
    /\ UNCHANGED <<disk, files, faults>>

\* The process dies (the kernel, a power cut, the egress guard's os._exit),
Crash ==
    /\ Running
    /\ faults < MaxFaults /\ faults' = faults + 1
    /\ Die
    /\ UNCHANGED <<disk, files>>

\* between drop_persisted_job and rmtree in _finalize_path,
CrashInComplete(j) ==
    /\ Running /\ worker[j] = "done" /\ (dl[j] = "encrypt" \/ fin[j] = "encrypt")
    /\ ~Killed(j)
    /\ faults < MaxFaults /\ faults' = faults + 1
    /\ disk' = Drop(disk, j)
    /\ Die
    /\ UNCHANGED files

\* or halfway through the rmtree of cancel.
CrashInCancel(j) ==
    /\ mode = "up"
    /\ \/ j \in waiting /\ dl[j] = "none"
       \/ /\ j \in listed /\ ~Registered(j)
          /\ rec[j].status \notin {"completed", "encrypting"}
    /\ faults < MaxFaults /\ faults' = faults + 1
    /\ mode' = "down" /\ listed' = {} /\ waiting' = {}
    /\ dl' = [i \in Jobs |-> "none"]
    /\ fin' = [i \in Jobs |-> "none"]
    /\ worker' = [i \in Jobs |-> "idle"]
    /\ phase' = [phase EXCEPT ![j] = IF @ = "accepted" THEN "doomed" ELSE @]
    /\ disk' \in {disk, Drop(disk, j)}
    /\ files' \in {files, [files EXCEPT ![j] = NoFiles]}
    /\ UNCHANGED <<held, rec, blobs, torn>>

\* Mutant: any file in the work dir is taken for a complete one.
EncryptableByFile(j) == files[j][disk[j].name] # "none"

\* The loop `for job in jobs' of _restore_jobs and _restore_http for each job
\* that has a snapshot: a failed job is only listed, a job whose file is
\* complete is encrypted, any other gets its task back, paused or not.
Encryptable(j) ==
    /\ disk[j].status = "encrypting" \/ disk[j].state \in {"encrypting", "packing"}
    /\ files[j][disk[j].name] # "none"

RestoredRecord(j) ==
    LET r == FromSnapshot(disk[j])
    IN  IF r.status = "failed" THEN r
        ELSE IF Encryptable(j) THEN [r EXCEPT !.status = "encrypting"]
        ELSE IF r.status = "paused" \/ r.user_paused
        THEN [r EXCEPT !.status = "paused", !.user_paused = TRUE]
        ELSE [r EXCEPT !.status = "downloading"]

Restart ==
    LET found == {j \in Jobs : Saved(disk[j])}
    IN  /\ mode = "down"
        /\ mode' = "up"
        /\ listed' = found
        /\ rec' = [j \in Jobs |-> IF j \in found THEN RestoredRecord(j) ELSE rec[j]]
        /\ disk' = [j \in Jobs |-> IF j \in found THEN ToSnapshot(RestoredRecord(j))
                                                  ELSE disk[j]]
        /\ fin' = [j \in Jobs |->
              IF j \in found /\ RestoredRecord(j).status = "encrypting"
                THEN "start" ELSE "none"]
        /\ dl' = [j \in Jobs |->
              IF j \in found /\ RestoredRecord(j).status \in {"paused", "downloading"}
                THEN "top" ELSE "none"]
        /\ UNCHANGED <<phase, held, files, waiting, worker, blobs, torn, faults>>

-----------------------------------------------------------------------------
Download(j) ==
    \/ LoopTop(j) \/ PauseTaken(j) \/ StreamEnd(j) \/ DlError(j)
    \/ \E code \in {200, 206}, n \in Names : Open(j, code, n)
    \/ \E c \in {"part", "full"} : Chunk(j, c)

Finalization(j) == FinStart(j) \/ Complete(j) \/ FinalizeFail(j)

Thread(j) == WorkerDone(j) \/ WorkerFail(j)

Request(j) == Add(j) \/ Pause(j) \/ Resume(j) \/ Retry(j) \/ Cancel(j)

Process == Flush \/ Stop \/ StopFlush \/ Exit \/ Crash \/ Restart

Next ==
    \/ \E j \in Jobs :
          \/ Download(j) \/ Finalization(j) \/ Thread(j) \/ Request(j)
          \/ TaskCancelled(j) \/ CancelFinish(j)
          \/ CrashInComplete(j) \/ CrashInCancel(j)
    \/ Process

Spec == Init /\ [][Next]_vars

(* The event loop resumes every coroutine that can run, threads end, and a *)
(* process that is stopping carries on.  Nothing is assumed of the remote  *)
(* server (the client has no timeout), of users, or of restarts.           *)
Fairness ==
    /\ \A j \in Jobs :
        /\ WF_vars(FinStart(j)) /\ WF_vars(Complete(j) \/ FinalizeFail(j))
        /\ WF_vars(Thread(j)) /\ WF_vars(LoopTop(j))
        /\ WF_vars(TaskCancelled(j)) /\ WF_vars(CancelFinish(j))
    /\ WF_vars(StopFlush) /\ WF_vars(Exit)

FairSpec == Spec /\ Fairness

-----------------------------------------------------------------------------
(* Properties.                                                             *)

\* Every variable has its type.
TypeOK ==
    /\ phase \in [Jobs -> {"new", "accepted", "doomed", "cancelled"}]
    /\ held \in SUBSET Jobs
    /\ listed \in SUBSET Jobs
    /\ rec \in [Jobs -> Record(Names)]
    /\ disk \in [Jobs -> Snapshot(Names) \cup {NoSnapshot}]
    /\ files \in [Jobs -> [Names -> Content]]
    /\ dl \in [Jobs -> DlPlaces]
    /\ fin \in [Jobs -> FinPlaces]
    /\ waiting \in SUBSET Jobs
    /\ worker \in [Jobs -> WorkerStates]
    /\ blobs \in [Jobs -> Nat]
    /\ torn \in SUBSET Jobs
    /\ mode \in {"up", "stopping", "draining", "down"}
    /\ faults \in 0..MaxFaults

\* The work dir of a job has one owner: never two coroutines drive a job, and
\* while a thread still works on its file no task downloads into it.  (Retry
\* starts coroutines that _http_tasks does not know about.)
OneDriver ==
    \A j \in Jobs :
        /\ dl[j] = "none" \/ fin[j] = "none"
        /\ worker[j] # "idle" => dl[j] \in {"none", "encrypt"} /\ fin[j] # "start"

\* "Active/failed jobs are also snapshotted ... so the queue can resume after
\* a container restart": at every instant at which the process can die, an
\* accepted job has a snapshot or its file is in the completed store.
NoJobLost ==
    \A j \in Jobs : phase[j] = "accepted" => Saved(disk[j]) \/ blobs[j] > 0

\* Only what a response that ended normally has left is put in the store, although
\* restart and retry judge by the saved state and the mere existence of the file
\* whether to encrypt it.
OnlyWholeFiles == torn = {}

\* A listed job that claims to be active is driven by a coroutine: it is not
\* one that shows "downloading" or "paused" and never moves again.
DrivenWhileActive ==
    \A j \in listed :
        rec[j].status \in {"downloading", "paused", "encrypting"} /\ mode = "up"
            => Registered(j) \/ fin[j] # "none" \/ j \in waiting

\* Nothing of a cancelled job comes back: no entry, no snapshot that a restart
\* would load, no partial file.
CancelledStaysGone ==
    \A j \in Jobs : phase[j] = "cancelled" =>
        j \notin listed /\ ~Saved(disk[j]) /\ files[j] = NoFiles

\* Each blob of a job beyond the first is due to a fault of its own: a crash
\* or stop before job.json was dropped, or a failure after the blob landed.
CopiesExplained == \A j \in Jobs : blobs[j] <= 1 + faults

\* Once cancel has returned, the file of the job does not appear in the
\* completed store.
NoLandingAfterCancel ==
    [][\A j \in Jobs : phase[j] = "cancelled" => blobs'[j] <= blobs[j]]_vars

\* A byte of j is fetched.
Fetches(j) == \E n \in Names :
    /\ files[j][n] \in {"empty", "part"} /\ files'[j][n] \in {"part", "full"}
    /\ files'[j][n] # files[j][n] /\ rec'[j].name = rec[j].name

\* No byte of a job is fetched after its user has paused it and before he resumes
\* or retries it, whatever stops, crashes and restarts come in between.
NoBytesWhilePaused ==
    [][\A j \in Jobs : Fetches(j) => j \notin held]_vars

\* j is on the list of a running process with status s.
Shows(j, s) == mode = "up" /\ j \in listed /\ rec[j].status = s

\* An encryption ends, in success or failure, unless the process goes first.
EncryptingEnds == \A j \in Jobs : Shows(j, "encrypting") ~> ~Shows(j, "encrypting")

\* A cancel handler that waits for its task gets to its end.
CancelEnds == \A j \in Jobs : j \in waiting ~> j \notin waiting

\* A job that shows "downloading" is asking the server for data, however it
\* was paused, resumed and retried before.
DownloadingDownloads ==
    \A j \in Jobs : Shows(j, "downloading")
        ~> dl[j] \in {"connect", "stream"} \/ ~Shows(j, "downloading")

\* A shutdown ends: no task and no thread holds it up.
StopEnds == mode = "stopping" ~> mode = "down"

(* A job is delivered when a blob of it is in the store.                   *)
Told == [new |-> "new", accepted |-> "owed", doomed |-> "withdrawing",
         cancelled |-> "cancelled"]

FateOf(j) == IF blobs[j] > 0 THEN "delivered" ELSE Told[phase[j]]

Fate == [j \in Jobs |-> FateOf(j)]

Promise == INSTANCE Delivery WITH fate <- Fate

\* HTTP jobs implement Delivery.
Delivers == Promise!Spec
=============================================================================
