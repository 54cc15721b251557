----------------------------- MODULE TorrentJobs -----------------------------
(***************************************************************************)
(* Torrent jobs of services/download_manager.py: magnet links and uploaded *)
(* .torrent files, which are given to libtorrent at once, and links to     *)
(* .torrent files, which a task fetches first.  libtorrent transfers on    *)
(* its own; the poll loop looks at every handle, then calls                *)
(* _complete_torrent for each finished one.  Retry and restore call it     *)
(* from tasks of their own.  One asyncio.Lock serialises all these calls:  *)
(* it is held while a thread packs and encrypts, and served in the order   *)
(* of arrival.                                                             *)
(***************************************************************************)
EXTENDS Naturals, Sequences, JobRecord

CONSTANTS
    Jobs,         \* ids of the jobs users create
    Remote,       \* those whose source is a link to a .torrent file
    MaxFaults,    \* bound on crashes, stops, lost handles and failed completions
    StaleClicks   \* may Resume reach a job the web UI no longer offers it for?

ASSUME TorrentAssumption ==
    /\ Remote \subseteq Jobs
    /\ MaxFaults \in Nat /\ StaleClicks \in BOOLEAN

VARIABLES
    phase,     \* phase[j]: what the user asked of j
    listed,    \* keys of Store.jobs
    waiting,   \* jobs whose cancel handler is suspended at `await task'
    rec,       \* rec[j]: the JobRecord object
    disk,      \* disk[j]: job.json in the work dir
    source,    \* source[j]: is what add_torrent needs at hand, and is it valid?
    handle,    \* handle[j]: the libtorrent handle in _handles
    full,      \* jobs whose content is complete (and libtorrent reports it)
    fetching,  \* jobs whose _fetch_torrent_then_add task runs
    finished,  \* the poll loop: finished jobs it still has to complete
    queue,     \* calls of _complete_torrent; the first one is next, or holds the lock
    tasks,     \* tasks[j]: completion tasks of j that have not run yet
    worker,    \* worker[j]: the thread that packs, then encrypts, the content
    blobs,     \* blobs[j]: blobs of j in the completed store
    torn,      \* jobs of which something else than the whole content was stored
    mode,      \* the process: up, stopping, draining, down
    faults

user == <<phase, listed, waiting>>
record == <<rec, disk>>
session == <<source, handle, full, fetching>>
completion == <<finished, queue, tasks, worker>>
stored == <<blobs, torn>>
process == <<mode, faults>>
vars == <<user, record, session, completion, stored, process>>

Phases == {"new", "accepted", "refused", "doomed", "cancelled"}
Names == {"torrent"}
Calls == [job : Jobs, by : {"poll", "task"}, in : BOOLEAN]
WorkerStates == {"idle", "zip", "zipped", "encrypt", "done", "error"}
Busy(j) == worker[j] \in {"zip", "encrypt"}

Polling == \E i \in DOMAIN queue : queue[i].by = "poll"

\* The lock is free and the poll loop has jobs to complete: it goes on to the
\* next one without giving up the event loop.
PollHasLoop == finished # {} /\ queue = <<>>

Running == mode \in {"up", "stopping", "draining"} /\ ~PollHasLoop
Up == mode = "up" /\ ~PollHasLoop

\* The call for j that is past the lock.
Holds(j) == queue # <<>> /\ Head(queue).in /\ Head(queue).job = j

Init ==
    /\ phase = [j \in Jobs |-> "new"]
    /\ listed = {} /\ waiting = {}
    /\ rec = [j \in Jobs |-> NewRecord("torrent")]
    /\ disk = [j \in Jobs |-> NoSnapshot]
    /\ source = [j \in Jobs |-> "none"]
    /\ handle = [j \in Jobs |-> "none"]
    /\ full = {} /\ fetching = {}
    /\ finished = {} /\ queue = <<>>
    /\ tasks = [j \in Jobs |-> 0]
    /\ worker = [j \in Jobs |-> "idle"]
    /\ blobs = [j \in Jobs |-> 0]
    /\ torn = {}
    /\ mode = "up" /\ faults = 0

Save(j, r) ==
    /\ rec' = [rec EXCEPT ![j] = r]
    /\ disk' = Persist(disk, j, r)

\* _fail_job
Fail(j) == Save(j, [rec[j] EXCEPT !.status = "failed"])

-----------------------------------------------------------------------------
(* libtorrent, and the task that fetches a .torrent file.                  *)

\* The last piece of j arrives.
Transfer(j) ==
    /\ mode \in {"up", "stopping"} /\ handle[j] = "running" /\ j \notin full
    /\ full' = full \cup {j}
    /\ UNCHANGED <<user, record, source, handle, fetching, completion, stored, process>>

\* A CancelledError is on its way to the task: by cancel or by stop.
FetchKilled(j) == j \in fetching /\ (j \in waiting \/ mode = "stopping")

\* j is a key of _http_tasks (cancel pops it).
Registered(j) == j \in fetching \ waiting

\* The file has arrived and is added to the session, whatever the user did
\* meanwhile; if it is not a torrent it stays in the work dir all the same.
FetchDone(j, valid) ==
    /\ Running /\ j \in fetching /\ ~FetchKilled(j)
    /\ fetching' = fetching \ {j}
    /\ source' = [source EXCEPT ![j] = IF valid THEN "good" ELSE "bad"]
    /\ IF valid
         THEN /\ handle' = [handle EXCEPT ![j] = "running"]
              /\ Save(j, [rec[j] EXCEPT !.status = "downloading"])
         ELSE Fail(j) /\ UNCHANGED handle
    /\ UNCHANGED <<user, full, completion, stored, process>>

FetchFail(j) ==
    /\ Running /\ j \in fetching /\ ~FetchKilled(j)
    /\ fetching' = fetching \ {j}
    /\ Fail(j)
    /\ UNCHANGED <<user, source, handle, full, completion, stored, process>>

\* Mutant: the record of a fetch that is cut off is saved as cancelled.
FetchCancelledSaves(j) ==
    /\ Running /\ FetchKilled(j)
    /\ fetching' = fetching \ {j}
    /\ Save(j, [rec[j] EXCEPT !.status = "cancelled"])
    /\ UNCHANGED <<user, source, handle, full, completion, stored, process>>

\* On shutdown, and if the task never ran, the record stays what it was.
FetchCancelled(j) ==
    /\ Running /\ FetchKilled(j)
    /\ fetching' = fetching \ {j}
    /\ rec' \in {rec} \cup (IF mode = "up" THEN {[rec EXCEPT ![j].status = "cancelled"]} ELSE {})
    /\ UNCHANGED <<user, disk, source, handle, full, completion, stored, process>>

-----------------------------------------------------------------------------
(* Completion: _complete_torrent and _finalize_path.                       *)

\* The conditions of _complete_torrent behind the lock.
Completable(j) ==
    /\ j \in listed /\ handle[j] # "none"
    /\ rec[j].status \notin {"encrypting", "completed"}

\* From there to the first await: content that is a directory is packed first,
\* to an archive that replaces whatever an earlier attempt has left of one.
Begin(j) ==
    /\ handle' = [handle EXCEPT ![j] = "paused"]
    /\ \E step \in {"zip", "encrypt"} :
          /\ worker' = [worker EXCEPT ![j] = step]
          /\ Save(j, [rec[j] EXCEPT !.status = "encrypting",
                !.state = IF step = "zip" THEN "packing" ELSE "encrypting"])

\* Or the session or the disk raises before that await: the error is caught
\* inside the lock, which is then free.  It may come when MaxFaults is used up, so
\* that one fault can make the calls and another end them.
BeginFails(j) ==
    /\ faults <= MaxFaults /\ faults' = faults + 1
    /\ \/ UNCHANGED handle /\ Fail(j)
       \/ /\ handle' = [handle EXCEPT ![j] = "paused"]
          /\ \E state \in {rec[j].state, "encrypting"} :
                Save(j, [rec[j] EXCEPT !.status = "failed", !.state = state])
    /\ UNCHANGED <<source, full, fetching, worker, user, stored, mode>>

\* A call of _complete_torrent: it queues, unless the lock is free.
Call(by, j) ==
    LET call == [job |-> j, by |-> by, in |-> queue = <<>>]
    IN  IF queue = <<>> /\ ~Completable(j)
          THEN UNCHANGED <<record, handle, queue, worker>>
          ELSE /\ queue' = Append(queue, call)
               /\ IF call.in THEN Begin(j) ELSE UNCHANGED <<record, handle, worker>>

\* Mutant: a call that had to wait does not look at the job again.
LockPassedUnchecked ==
    /\ Running /\ queue # <<>> /\ ~Head(queue).in
    /\ Begin(Head(queue).job)
    /\ queue' = [queue EXCEPT ![1].in = TRUE]
    /\ UNCHANGED <<user, source, full, fetching, finished, tasks, stored, process>>

\* Mutant: the early return does not release the lock.
LockPassedKeeps ==
    /\ Running /\ queue # <<>> /\ ~Head(queue).in
    /\ Completable(Head(queue).job)
    /\ Begin(Head(queue).job)
    /\ queue' = [queue EXCEPT ![1].in = TRUE]
    /\ UNCHANGED <<user, source, full, fetching, finished, tasks, stored, process>>

\* The first call of the queue gets the lock.
LockPassed ==
    /\ Running /\ queue # <<>> /\ ~Head(queue).in
    /\ IF Completable(Head(queue).job)
         THEN /\ Begin(Head(queue).job)
              /\ queue' = [queue EXCEPT ![1].in = TRUE]
         ELSE /\ queue' = Tail(queue)
              /\ UNCHANGED <<record, handle, worker>>
    /\ UNCHANGED <<user, source, full, fetching, finished, tasks, stored, process>>

LockFails ==
    /\ Running /\ queue # <<>> /\ ~Head(queue).in
    /\ Completable(Head(queue).job) /\ BeginFails(Head(queue).job)
    /\ queue' = Tail(queue)
    /\ UNCHANGED <<finished, tasks>>

\* A task made by retry or restore runs.
TaskStarts(j) ==
    /\ Running /\ tasks[j] > 0
    /\ tasks' = [tasks EXCEPT ![j] = @ - 1]
    /\ Call("task", j)
    /\ UNCHANGED <<user, source, full, fetching, finished, stored, process>>

TaskFails(j) ==
    /\ Running /\ tasks[j] > 0 /\ queue = <<>>
    /\ Completable(j) /\ BeginFails(j)
    /\ tasks' = [tasks EXCEPT ![j] = @ - 1]
    /\ UNCHANGED <<finished, queue>>

\* The archive is ready and goes to _finalize_path.
Packed(j) ==
    /\ Running /\ Holds(j) /\ worker[j] = "zipped"
    /\ worker' = [worker EXCEPT ![j] = "encrypt"]
    /\ Save(j, [rec[j] EXCEPT !.status = "encrypting", !.state = "encrypting"])
    /\ UNCHANGED <<user, session, finished, queue, tasks, stored, process>>

\* The file is in the store: the record is completed, the work dir is removed,
\* the torrent leaves the session, the lock is released.
Complete(j) ==
    /\ Running /\ Holds(j) /\ worker[j] = "done"
    /\ worker' = [worker EXCEPT ![j] = "idle"]
    /\ queue' = Tail(queue)
    /\ rec' = [rec EXCEPT ![j].status = "completed", ![j].blob = TRUE]
    /\ disk' = Drop(disk, j)
    /\ handle' = [handle EXCEPT ![j] = "none"]
    /\ full' = full \ {j}
    /\ UNCHANGED <<user, source, fetching, finished, tasks, stored, process>>

\* Mutant: the error leaves the job as it was.
CompleteFailsSilently(j) ==
    /\ Running /\ Holds(j) /\ worker[j] = "error"
    /\ worker' = [worker EXCEPT ![j] = "idle"]
    /\ queue' = Tail(queue)
    /\ UNCHANGED <<user, record, session, finished, tasks, stored, process>>

\* Packing or encryption failed; the torrent stays in the session, paused.
CompleteFails(j) ==
    /\ Running /\ Holds(j) /\ worker[j] = "error"
    /\ worker' = [worker EXCEPT ![j] = "idle"]
    /\ queue' = Tail(queue)
    /\ Fail(j)
    /\ UNCHANGED <<user, session, finished, tasks, stored, process>>

\* The thread: _zip_dir, then append_completed and write_duration.
ZipDone(j) ==
    /\ mode # "down" /\ worker[j] = "zip"
    /\ worker' = [worker EXCEPT ![j] = "zipped"]
    /\ UNCHANGED <<user, record, session, finished, queue, tasks, stored, process>>

Land(j) ==
    /\ blobs' = [blobs EXCEPT ![j] = @ + 1]
    /\ torn' = IF j \in full THEN torn ELSE torn \cup {j}

Encrypted(j) ==
    /\ mode # "down" /\ worker[j] = "encrypt"
    /\ Land(j)
    /\ worker' = [worker EXCEPT ![j] = "done"]
    /\ UNCHANGED <<user, record, session, finished, queue, tasks, process>>

\* A full disk, say; the blob may be in place already.
ThreadFails(j) ==
    /\ mode # "down" /\ Busy(j)
    /\ faults < MaxFaults /\ faults' = faults + 1
    /\ worker' = [worker EXCEPT ![j] = "error"]
    /\ \/ UNCHANGED stored
       \/ worker[j] = "encrypt" /\ Land(j)
    /\ UNCHANGED <<user, record, session, finished, queue, tasks, mode>>

-----------------------------------------------------------------------------
(* The poll loop.                                                          *)

Polled == {j \in listed : handle[j] # "none"
              /\ rec[j].status \notin {"completed", "failed", "cancelled", "encrypting"}}

\* _poll_once up to its first await.  A paused job is never finished.
Poll ==
    /\ Up /\ finished = {} /\ ~Polling
    /\ rec' = [j \in Jobs |->
          IF j \notin Polled THEN rec[j]
          ELSE [rec[j] EXCEPT !.state = "torrent",
                   !.status = IF rec[j].user_paused THEN "paused" ELSE "downloading"]]
    /\ finished' = {j \in Polled \cap full : ~rec[j].user_paused}
    /\ UNCHANGED <<user, disk, session, queue, tasks, worker, stored, process>>

\* A handle raises instead of giving its status.
PollFails(j) ==
    /\ Up /\ finished = {} /\ ~Polling /\ j \in Polled
    /\ faults < MaxFaults /\ faults' = faults + 1
    /\ Fail(j)
    /\ UNCHANGED <<user, session, completion, stored, mode>>

\* The loop over the finished jobs goes on to the next one.
PollNext ==
    /\ mode = "up" /\ ~Polling
    /\ \E j \in finished : finished' = finished \ {j} /\ Call("poll", j)
    /\ UNCHANGED <<user, source, full, fetching, tasks, stored, process>>

PollNextFails(j) ==
    /\ mode = "up" /\ queue = <<>> /\ j \in finished
    /\ Completable(j) /\ BeginFails(j)
    /\ finished' = finished \ {j}
    /\ UNCHANGED <<queue, tasks>>

\* Mutant: every listed job is flushed, whatever its status.
FlushedAll == [j \in Jobs |->
    IF j \in listed
      THEN [status |-> rec[j].status, user_paused |-> rec[j].user_paused,
            state |-> rec[j].state, name |-> rec[j].name]
      ELSE disk[j]]

\* flush_dirty_jobs
Flushed == [j \in Jobs |->
    IF j \in listed /\ rec[j].status \in Persistable THEN ToSnapshot(rec[j]) ELSE disk[j]]

Flush ==
    /\ Up /\ finished = {} /\ ~Polling
    /\ disk' = Flushed
    /\ UNCHANGED <<user, rec, session, completion, stored, process>>

-----------------------------------------------------------------------------
(* The request handlers.                                                   *)

\* A magnet link or a valid .torrent file.
AddTorrent(j) ==
    /\ Up /\ phase[j] = "new" /\ j \notin Remote
    /\ phase' = [phase EXCEPT ![j] = "accepted"]
    /\ listed' = listed \cup {j}
    /\ source' = [source EXCEPT ![j] = "good"]
    /\ handle' = [handle EXCEPT ![j] = "running"]
    /\ Save(j, [rec[j] EXCEPT !.status = "downloading"])
    /\ UNCHANGED <<waiting, full, fetching, completion, stored, process>>

\* One that libtorrent refuses: the request is refused too, but the job was
\* listed and saved before.
AddRefused(j) ==
    /\ Up /\ phase[j] = "new" /\ j \notin Remote
    /\ phase' = [phase EXCEPT ![j] = "refused"]
    /\ listed' = listed \cup {j}
    /\ source' = [source EXCEPT ![j] = "bad"]
    /\ Save(j, rec[j])
    /\ UNCHANGED <<waiting, handle, full, fetching, completion, stored, process>>

\* A link to a .torrent file.
AddRemote(j) ==
    /\ Up /\ phase[j] = "new" /\ j \in Remote
    /\ phase' = [phase EXCEPT ![j] = "accepted"]
    /\ listed' = listed \cup {j}
    /\ fetching' = fetching \cup {j}
    /\ Save(j, [rec[j] EXCEPT !.status = "downloading"])
    /\ UNCHANGED <<waiting, source, handle, full, completion, stored, process>>

SetHandle(j, h) == handle' = [handle EXCEPT ![j] = IF @ = "none" THEN "none" ELSE h]

Pause(j) ==
    /\ Up /\ j \in listed
    /\ rec[j].status \in {"queued", "downloading"}
    /\ Save(j, [rec[j] EXCEPT !.status = "paused", !.user_paused = TRUE])
    /\ SetHandle(j, "paused")
    /\ UNCHANGED <<user, source, full, fetching, completion, stored, process>>

Resume(j) ==
    /\ Up /\ j \in listed
    /\ StaleClicks \/ rec[j].status = "paused"
    /\ rec[j].user_paused \/ rec[j].status = "paused"
    /\ Save(j, [rec[j] EXCEPT !.status = "downloading", !.user_paused = FALSE])
    /\ SetHandle(j, "running")
    /\ UNCHANGED <<user, source, full, fetching, completion, stored, process>>

\* Mutant: whatever was transferred before the job failed is completed.
ReadyWhenSeen(j) == rec[j].state # "none"

\* Only packing and encryption are left to do.
Ready(j) == j \in full \/ rec[j].state \in {"packing", "encrypting"}

\* retry and _retry_torrent of a job libtorrent knows: complete it again if its
\* content is there, else go on with the transfer.  Nothing is saved.
RetryHandle(j) ==
    /\ Up /\ j \in listed
    /\ rec[j].status = "failed" /\ handle[j] # "none"
    /\ rec' = [rec EXCEPT ![j].status = "downloading", ![j].user_paused = FALSE,
                          ![j].state = "none"]
    /\ IF Ready(j)
         THEN /\ tasks' = [tasks EXCEPT ![j] = @ + 1]
              /\ UNCHANGED handle
         ELSE SetHandle(j, "running") /\ UNCHANGED tasks
    /\ UNCHANGED <<user, disk, source, full, fetching, finished, queue, worker,
                   stored, process>>

\* Of one it does not know: fetch the .torrent file again.  With an invalid one
\* at hand retry raises, and the job stays failed.
RetryFetch(j) ==
    /\ Up /\ j \in listed
    /\ rec[j].status = "failed" /\ handle[j] = "none" /\ ~Registered(j)
    /\ IF source[j] = "none"
         THEN /\ fetching' = fetching \cup {j}
              /\ rec' = [rec EXCEPT ![j].status = "downloading", ![j].user_paused = FALSE,
                                    ![j].state = "none"]
         ELSE /\ rec' = [rec EXCEPT ![j].user_paused = FALSE]
              /\ UNCHANGED fetching
    /\ UNCHANGED <<user, disk, source, handle, full, completion, stored, process>>

\* The end of cancel.
Wipe(j) ==
    /\ phase' = [phase EXCEPT ![j] = IF @ = "refused" THEN @ ELSE "cancelled"]
    /\ listed' = listed \ {j}
    /\ disk' = Drop(disk, j)
    /\ blobs' = IF rec[j].blob /\ blobs[j] > 0 THEN [blobs EXCEPT ![j] = @ - 1] ELSE blobs

\* Mutant: cancel also takes a job that is being packed or encrypted.
CancellableEncrypting(j) == j \in listed /\ rec[j].status # "completed"

Cancellable(j) == j \in listed /\ rec[j].status \notin {"completed", "encrypting"}

\* cancel: the torrent and its content leave the session; then the fetch task
\* is cancelled and awaited, if there is one.
Cancel(j) ==
    /\ Up /\ Cancellable(j)
    /\ handle' = [handle EXCEPT ![j] = "none"]
    /\ full' = full \ {j}
    /\ IF Registered(j)
         THEN /\ waiting' = waiting \cup {j}
              /\ phase' = [phase EXCEPT ![j] = "doomed"]
              /\ UNCHANGED <<listed, disk, blobs>>
         ELSE Wipe(j) /\ UNCHANGED waiting
    /\ UNCHANGED <<rec, source, fetching, completion, torn, process>>

CancelFinish(j) ==
    /\ Up /\ j \in waiting /\ j \notin fetching
    /\ Wipe(j)
    /\ waiting' = waiting \ {j}
    /\ UNCHANGED <<rec, session, completion, torn, process>>

-----------------------------------------------------------------------------
(* The process.                                                            *)

\* The call of the poll loop, if it has one, leaves the lock or the queue.
PollLeaves ==
    \/ ~Polling /\ queue' = queue
    \/ \E i \in DOMAIN queue :
          /\ queue[i].by = "poll"
          /\ queue' = SubSeq(queue, 1, i - 1) \o SubSeq(queue, i + 1, Len(queue))

\* stop cancels the poll loop; completion tasks and threads go on.
Stop ==
    /\ Up /\ waiting = {}
    /\ faults < MaxFaults /\ faults' = faults + 1
    /\ mode' = "stopping"
    /\ finished' = {}
    /\ PollLeaves
    /\ UNCHANGED <<user, record, session, tasks, worker, stored>>

\* The fetch tasks have ended: everything is saved, the session is closed.
StopFlush ==
    /\ mode = "stopping" /\ fetching = {}
    /\ disk' = Flushed
    /\ mode' = "draining"
    /\ UNCHANGED <<user, rec, session, completion, stored, faults>>

\* What a process leaves behind.
Die ==
    /\ mode' = "down"
    /\ listed' = {} /\ waiting' = {}
    /\ handle' = [j \in Jobs |-> "none"]
    /\ fetching' = {}
    /\ finished' = {} /\ queue' = <<>>
    /\ tasks' = [j \in Jobs |-> 0]
    /\ worker' = [j \in Jobs |-> "idle"]
    /\ UNCHANGED <<rec, stored>>

\* The interpreter joins its threads and drops the remaining coroutines.
Exit ==
    /\ mode = "draining" /\ \A j \in Jobs : ~Busy(j)
    /\ Die
    /\ UNCHANGED <<phase, disk, source, full, faults>>

Crashes == mode # "down" /\ faults < MaxFaults /\ faults' = faults + 1 /\ Die

Crash == Crashes /\ UNCHANGED <<phase, disk, source, full>>

\* Between drop_persisted_job and rmtree in _finalize_path,
CrashInComplete(j) ==
    /\ Running /\ Holds(j) /\ worker[j] = "done"
    /\ disk' = Drop(disk, j)
    /\ Crashes
    /\ UNCHANGED <<phase, source, full>>

\* or halfway through the rmtree of cancel.
CrashInCancel(j) ==
    /\ Up /\ \/ j \in waiting /\ j \notin fetching
             \/ Cancellable(j) /\ ~Registered(j)
    /\ phase' = [phase EXCEPT ![j] = IF @ = "accepted" THEN "doomed" ELSE @]
    /\ disk' \in {disk, Drop(disk, j)}
    /\ full' = full \ {j}
    /\ source' \in {source,
                    [source EXCEPT ![j] = IF j \in Remote THEN "none" ELSE "bad"]}
    /\ Crashes

\* A job whose packing or encryption was interrupted: it is completed again.
NeedsFinalize(s) == s.status = "encrypting" \/ s.state \in {"packing", "encrypting"}

\* Mutant: a paused job comes back running.
RestoredHandleRuns(j) ==
    IF ~Saved(disk[j]) \/ source[j] # "good" THEN "none"
    ELSE IF NeedsFinalize(disk[j]) \/ disk[j].status = "failed" THEN "paused" ELSE "running"

\* _restore_torrent and _reattach_torrent: what add_torrent takes comes back,
RestoredHandle(j) ==
    IF ~Saved(disk[j]) \/ source[j] # "good" THEN "none"
    ELSE IF \/ disk[j].status \in {"failed", "paused"}
            \/ disk[j].user_paused \/ NeedsFinalize(disk[j])
    THEN "paused" ELSE "running"

\* Mutant: an interrupted fetch is forgotten.
NeverRefetched(j) == FALSE

\* what was not fetched yet is fetched, and a job without either has failed.
Refetched(j) == Saved(disk[j]) /\ source[j] = "none"

Completes(j) ==
    /\ Saved(disk[j]) /\ source[j] = "good"
    /\ disk[j].status # "failed" /\ NeedsFinalize(disk[j])

RestoredRecord(j) ==
    LET r == FromSnapshot(disk[j])
    IN  IF source[j] = "bad" THEN [r EXCEPT !.status = "failed"]
        ELSE IF r.status = "failed" /\ ~Refetched(j) THEN r
        ELSE IF r.status # "failed" /\ NeedsFinalize(r)
        THEN [r EXCEPT !.status = "downloading", !.user_paused = FALSE]
        ELSE IF r.status = "paused" \/ (r.user_paused /\ r.status # "failed")
        THEN [r EXCEPT !.status = "paused", !.user_paused = TRUE]
        ELSE [r EXCEPT !.status = "downloading"]

Restart ==
    LET found == {j \in Jobs : Saved(disk[j])}
    IN  /\ mode = "down"
        /\ mode' = "up"
        /\ listed' = found
        /\ rec' = [j \in Jobs |-> IF j \in found THEN RestoredRecord(j) ELSE rec[j]]
        /\ disk' = [j \in Jobs |-> IF j \in found THEN ToSnapshot(RestoredRecord(j))
                                                  ELSE disk[j]]
        /\ handle' = [j \in Jobs |-> RestoredHandle(j)]
        /\ fetching' = {j \in Jobs : Refetched(j)}
        /\ tasks' = [j \in Jobs |-> IF Completes(j) THEN 1 ELSE 0]
        /\ UNCHANGED <<phase, waiting, source, full, finished, queue, worker, stored, faults>>

-----------------------------------------------------------------------------
Fetch(j) == FetchFail(j) \/ FetchCancelled(j) \/ \E valid \in BOOLEAN : FetchDone(j, valid)

Completion(j) == Packed(j) \/ Complete(j) \/ CompleteFails(j)

Thread(j) == ZipDone(j) \/ Encrypted(j) \/ ThreadFails(j)

Request(j) ==
    \/ AddTorrent(j) \/ AddRefused(j) \/ AddRemote(j)
    \/ Pause(j) \/ Resume(j) \/ RetryHandle(j) \/ RetryFetch(j)
    \/ Cancel(j) \/ CancelFinish(j)

PollLoop == Poll \/ PollNext \/ Flush

Process == Stop \/ StopFlush \/ Exit \/ Crash \/ Restart

Next ==
    \/ \E j \in Jobs :
          \/ Transfer(j) \/ Fetch(j) \/ TaskStarts(j) \/ Completion(j) \/ Thread(j)
          \/ Request(j) \/ CrashInComplete(j) \/ CrashInCancel(j)
          \/ TaskFails(j) \/ PollFails(j) \/ PollNextFails(j)
    \/ LockPassed \/ LockFails \/ PollLoop \/ Process

Spec == Init /\ [][Next]_vars

(* The event loop goes on with every call and with the poll loop, and      *)
(* threads end.  Nothing is assumed of peers, of the server of a .torrent  *)
(* file, of users, of cancellations, of the shutdown or of restarts.       *)
Fairness ==
    /\ WF_vars(Poll) /\ WF_vars(PollNext) /\ WF_vars(LockPassed)
    /\ \A j \in Jobs :
        /\ WF_vars(TaskStarts(j)) /\ WF_vars(Completion(j)) /\ WF_vars(Thread(j))

FairSpec == Spec /\ Fairness

-----------------------------------------------------------------------------
(* Properties.                                                             *)

\* Every variable has its type.
TypeOK ==
    /\ phase \in [Jobs -> Phases]
    /\ listed \in SUBSET Jobs /\ waiting \in SUBSET Jobs
    /\ rec \in [Jobs -> Record(Names)]
    /\ disk \in [Jobs -> Snapshot(Names) \cup {NoSnapshot}]
    /\ source \in [Jobs -> {"none", "good", "bad"}]
    /\ handle \in [Jobs -> {"none", "running", "paused"}]
    /\ full \in SUBSET Jobs /\ fetching \in SUBSET Jobs /\ finished \in SUBSET Jobs
    /\ queue \in Seq(Calls)
    /\ tasks \in [Jobs -> Nat]
    /\ worker \in [Jobs -> WorkerStates]
    /\ blobs \in [Jobs -> Nat] /\ torn \in SUBSET Jobs
    /\ mode \in {"up", "stopping", "draining", "down"}
    /\ faults \in 0..MaxFaults + 1

\* While a thread reads the content of a job nothing changes or removes it: the
\* torrent does not run, the job is not wiped, and no other call has the lock.
ContentAtRest ==
    \A j \in Jobs : Busy(j) =>
        /\ handle[j] # "running" /\ phase[j] # "cancelled"
        /\ mode = "up" => Holds(j)

\* What lands in the store is the whole content, also after a retry or a restart
\* that goes by the saved state; a cancellation cut off by a crash excepted.
OnlyWholeContent == \A j \in torn : phase[j] # "accepted"

\* "so the queue can resume after a container restart": an accepted job has a
\* snapshot or its file is in the completed store, at every instant.
NoJobLost ==
    \A j \in Jobs : phase[j] = "accepted" => Saved(disk[j]) \/ blobs[j] > 0

\* Every blob of a job beyond the first is due to a fault of its own, although
\* the poll loop, retries and restores may all call for the same completion.
CopiesExplained == \A j \in Jobs : blobs[j] <= 1 + faults

\* A torrent that shows as paused transfers nothing, over stops and restarts and
\* whichever way it came to be paused.  (Not so if its .torrent file was still
\* being fetched: the fetch starts it.)
PausedTransfersNothing ==
    \A j \in listed \ Remote : rec[j].status = "paused" => handle[j] # "running"

\* A job that shows as active has something that will move it: a fetch, a
\* cancellation, a torrent that transfers, or content that a call or the next
\* poll will complete.
Called(j) == tasks[j] > 0 \/ \E i \in DOMAIN queue : queue[i].job = j

DrivenWhileActive ==
    \A j \in listed \ (fetching \cup waiting) : mode = "up" /\ phase[j] # "refused" =>
        /\ rec[j].status = "encrypting" => Holds(j)
        /\ rec[j].status = "paused" => handle[j] # "none"
        /\ rec[j].status = "downloading" =>
              \/ handle[j] = "running"
              \/ handle[j] = "paused" /\ (j \in full \/ Called(j))

\* "Reattach paused so Retry can pack/encrypt without re-fetching": a restart
\* leaves a failed job failed, until the user retries it.
FailedWaitsForRetry ==
    [][\A j \in Jobs : mode = "down" /\ mode' = "up" /\ phase[j] = "accepted"
          /\ disk[j].status = "failed" => rec'[j].status = "failed"]_vars

Shows(j, s) == mode = "up" /\ j \in listed /\ rec[j].status = s

\* An encryption ends, however many jobs wait for the lock.
EncryptingEnds == \A j \in Jobs : Shows(j, "encrypting") ~> ~Shows(j, "encrypting")

\* A torrent whose content is there does not stay "downloading": the poll loop
\* or a task gets to it, whatever else is being packed.
FinishedIsCompleted ==
    \A j \in Jobs : Shows(j, "downloading") /\ j \in full ~> ~Shows(j, "downloading")

(* A job is delivered when a blob of it is in the store.                   *)
Told == [new |-> "new", refused |-> "new", accepted |-> "owed",
         doomed |-> "withdrawing", cancelled |-> "cancelled"]

Fate == [j \in Jobs |-> IF blobs[j] > 0 THEN "delivered" ELSE Told[phase[j]]]

Promise == INSTANCE Delivery WITH fate <- Fate

\* Torrent jobs implement Delivery.
Delivers == Promise!Spec
=============================================================================
