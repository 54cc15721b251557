# aestor, in TLA+

aestor downloads files (plain HTTP, magnet links, `.torrent` files), encrypts
each finished download for one RSA key and keeps the encrypted blob until a
paired pull client has fetched, decrypted and deleted it. The repository has no
README and no tests: its documents are docstrings, comments and the messages of
the API. This directory holds models of its stateful parts, the TLC runs that
check them and the theorems TLAPS has proved about them.

Paths below are relative to the repository; `DM` is
`backend/app/services/download_manager.py`, `ST` is
`backend/app/services/store.py`.

## 1. Inventory

| Part | State it keeps | Operations | Hard behaviour |
|---|---|---|---|
| Download manager, HTTP jobs (`DM`) | a task per job, the partial file in the work dir | add, pause, resume, retry, cancel, restore, stop; the coroutine `_http_download`; `_finalize_path` in a worker thread | handlers run between the awaits of the coroutine, the thread beside both; a stop or a crash anywhere |
| Download manager, torrent jobs (`DM`) | libtorrent handles, fetch tasks, the completion lock, the poll loop | the same, plus `_poll_once`, `_complete_torrent`, `_fetch_torrent_then_add`, `_zip_dir` | three kinds of callers compete for one lock; status read before an await and used after it |
| libtorrent session (external) | torrents and their content | add, pause, resume, remove, status | transfers on its own |
| Job registry (`ST`, class `Store`; `JobRecord`) | `Store.jobs`, `<work_dir>/job.json` | add, remove, persist, drop, flush, load | snapshot and record differ between two saves |
| Completed store (`ST`) | blobs, `<id>.json`, `manifest.db`, `manifest.db.tmp` | append_completed, write_duration, delete_completed | appends and rewrites of one manifest by several threads, without a lock |
| Encryption (`services/encryption.py`) | none | encrypt_file, decrypt_file, manifest lines | framing without an end marker |
| Pairing (`services/pairing.py`) | `pair.json`: one client id, its reported status | pair, override, require_client, update_status | an override displaces a client that is in the middle of a file |
| Pull client (`scripts/pull.py`) | its list of files, temp blob, plaintext | pair, list, download, decrypt, delete | lost and late replies, kills, a server that dies |
| Live updates (`services/live.py`) | set of sockets | connect, broadcast, `_send_one`, listen, stop | snapshots built in threads and sent later; the loop works on a copy of the set; one page that does not read holds up all |
| Login throttle, sessions (`auth.py`) | failures per address | assert_login_allowed, record, clear | window boundaries |
| REST API (`main.py`) | none of its own | one endpoint per operation | which thread an operation runs on |
| Web UI (`static/app.js`) | one socket, a retry timer | connect, render | reconnects |
| Egress monitor (`services/egress.py`) | last public address | refresh | ends the process with `os._exit` |
| Notifications, country lookup, settings | nothing another part reads | | |

How they interact. Every request handler, coroutine and the poll loop runs on one
asyncio event loop and is interrupted only at an `await`. Threads (`to_thread`)
run `_zip_dir`, `append_completed`, `write_duration`, the deletions asked for in
the web UI and the snapshots of the live hub. The jobs hand their file to the
completed store and keep no other reference to it; the pull client sees the
store through the manifest only. `job.json`, the work dirs and the completed dir
are what survives the process.

What makes the parts correct:

* jobs: an accepted job ends in the completed store or is cancelled, whatever stops
  and crashes come in between; one driver per work dir; nothing is encrypted whose
  download is still to go on; a cancelled job leaves nothing; a pause holds; whatever
  shows as active is being driven; encryptions, cancellations and stops end;
* completed store: blobs, durations and manifest lines agree; a deletion leaves
  nothing; no line without its blob;
* pull: no completed file is lost between server and client; nothing is wiped
  before it was decrypted; one client per file; every file gets there in the end;
* live updates: a page in the hub gets to see the present state, one that is gone
  leaves, one that is not gone stays; login throttle: never more than the
  allowed failures within any window, and no address blocked without them.

## 2. Modules

| Module | What it is |
|---|---|
| `JobRecord` | `JobRecord` and its snapshot: statuses, `persist_job`, `drop_persisted_job`, `from_persist_dict`; shared by the two job modules |
| `Delivery` | abstract specification: the fate of a job as its user may assume it (owed, withdrawing, delivered, cancelled) |
| `HttpJobs` | HTTP jobs: download coroutine, finalization, worker thread, handlers, process |
| `TorrentJobs` | torrent jobs: session, `.torrent` fetch, completion lock, poll loop, handlers, process |
| `CompletedStore` | `append_completed`, `write_duration`, `delete_completed` step by step |
| `PullProtocol` | pull clients, pairing and pull API; EXTENDS `CompletedStore`, whose steps are steps of the composed system |
| `BlobFormat` | the format of an encrypted blob, as operators: what `decrypt_file` accepts and writes |
| `LiveHub` | live updates: the hub's loop, the handlers of the sockets, pages that stall and go |
| `LoginThrottle` | the sliding window of failed logins |
| `MC*` | model values, small sets and symmetry for TLC |
| `HttpJobsProofs`, `HttpJobsCopies`, `HttpJobsDelivery`, `TorrentJobsProofs`, `CompletedStoreProofs`, `PullProtocolProofs`, `LiveHubProofs`, `LoginThrottleProofs` | theorems and proofs |

`HttpJobs` and `TorrentJobs` are shown to implement `Delivery` by
`INSTANCE Delivery WITH fate <- Fate` (property `Delivers` of each): a job is
delivered when a blob of it is in the store, else its fate is what its requests
were answered.

### HttpJobs

`dl[j]` is the place of `_http_download` in its own code (`top`, `connect`,
`stream`, the pause loop `wait`, `encrypt`), `fin[j]` that of the `_finalize`
closure which retry and restore start, `worker[j]` the thread that runs
`append_completed`. The handlers are one action each; cancel is two
(`Cancel` up to `await task`, `CancelFinish` after it) because the loop runs in
between. A step of a coroutine runs from one `await` to the next, with every
save on the way. `files[j]` maps the names a file may have (guessed from the
URL, taken from Content-Disposition) to what the file holds (`empty`, `part`,
`short`, `full`): bytes are abstracted to what the resume logic and the encryption
can tell apart. A response may end before the last byte, which the code does not
notice (`StreamEnd`): what it has left is `short`, and as good as whole to
everything that follows. `phase[j]` records what the user asked, `held` the jobs he
has paused and not yet resumed or retried, both for the properties. Saving and
dropping a snapshot is taken to succeed: `persist_job` and `drop_persisted_job`
swallow an `OSError` (`ST:295`, `ST:304`), and if the disk does not work nothing can
be said of what a restart finds.

`Stop`/`StopFlush`/`Exit` are the shutdown: cancel and await the tasks of
`_http_tasks`, flush, let the interpreter join its threads. `Crash` may happen
anywhere, and two extra actions cut the compound file operations in half
(`CrashInComplete`, `CrashInCancel`). `Restart` is `_restore_jobs`.

`StaleClicks`: `resume` decides on `user_paused`, which outlives the paused
status; the web UI offers Resume for status `paused` only (`static/app.js:756`),
but acts on a state that may be out of date. With `StaleClicks = FALSE` Resume
arrives only for a job that is paused when it arrives, with TRUE for any.

### TorrentJobs

`handle[j]` is the entry of `_handles` (none, running, paused) and `full` the
jobs whose content libtorrent has completed. The completion lock is `queue`, the
calls of `_complete_torrent` in the order in which `asyncio.Lock` serves them;
the first one is past the lock when its `in` is TRUE. `tasks[j]` counts
completion tasks that `create_task` has made and that have not run. `Poll` is one
`_poll_once` up to its first await and leaves the jobs to complete in `finished`;
as long as the lock is free the poll loop goes on with them without giving up
the event loop (`PollHasLoop` disables every other step of the loop meanwhile).
A magnet link and an uploaded file behave alike once accepted and are one kind of
job; a link to a `.torrent` file (`Remote`) is the other. `AddRefused` is an
upload that libtorrent rejects: the request fails, yet the job was listed.
`BeginFails` is an error between the lock and the first await of a completion, in
whichever caller (`LockFails`, `TaskFails`, `PollNextFails`). What an interrupted
packing leaves of its archive is not represented: the next one removes or replaces
it (`DM:827`), and before that nothing reads it.

### CompletedStore

A thread that has the manifest open keeps what it opened while
`manifest.db.tmp` replaces the name: a handle is the name (`main`, `tmp`, `old`)
under which the opened file is found now. A rewrite opens the manifest
(`OpenSource`), truncates the `.tmp` (`OpenTmp`), reads (`ReadManifest`), writes
(`WriteTmp`) and renames (`Rename`), and what others do in between counts. A manifest
is the set of ids it has lines for; one that does not exist is empty. `Torn` stands
for a line that two writers into one `.tmp` may garble, `Stub` for the beginning of a
line at the end of the file, left by a write that failed (`AppFail`, `DelFail`): what
is appended next becomes part of it and is lost. Neither belongs to a file. The lines
of a rewrite go out with one flush, or in part if it fails, which is what Python does
up to its buffer of 8 KiB; that a longer manifest is written piece by piece, with
other steps in between, is left out. `del[d]` is the place of deleter `d` in
`delete_completed`. The code has no lock, so `Overlap = TRUE` is the program;
`overlapped` records whether changes have met, and `Consistent` and `DeleteCleans`
speak of behaviours in which they have not yet. `Overlap = FALSE` is for the
properties of `PullProtocol` that need it.

### PullProtocol

`cl[c]` is the place of a client in `run` and `process_one`; `got` is the blob it
has fetched and `plain` the plaintext under its final name, both as `BlobFormat`
has them. `out[c][f]` is what earlier attempts at a file left in the output
directory. `req[c]` is the DELETE request a client waits for, `late` are the ones
nobody waits for any more. Deletions through the pull API run on the event loop,
so nothing else is served meanwhile (`Serving`); deletions of the web UI run in
threads, and a blob may be overwritten while it is being sent. `Lossy` lets
requests, replies and connections be lost or time out, `Cuts` lets a response end
between two chunks of a blob (the HTTP library accepts a short body), `Kill` ends
a client without its except clause, even in the middle of a decryption,
`ServerCrash` the server.

### BlobFormat

A chunk is the place it was sealed for, because nonce and additional data bind it
to its key and place and nothing else opens it; `Damaged` is one that opens
nowhere. `Accepted` and `Plain` are the loop of `decrypt_file`: it writes each chunk
before it reads the next and takes the end of the file for the end of the blob.

### LiveHub

`version` counts the changes of jobs and files; a snapshot is the version it is of.
Its building is two steps, because it runs in a thread: when the state changed in
between, its parts may be of several versions and it counts as the oldest of them
(`Built`), or it has failed: iterating over `Store.jobs` while a job comes or goes
raises, as does the stat of a file that goes. `conn[s]` is the place of the endpoint
`live_ws` of a socket (`connect`, `_send_one`, `listen`), `loop` that of `_loop`;
`todo` and `stale` are the local lists of `broadcast`. A send to a page that does not
read (`stuck`) waits; the page reads again (`Drain`) or the server's ping ends the
connection (`PingOut`). The hub's lock is not modelled: it is never held across an
await.

### LoginThrottle

The endpoint `login` has no await, so a login is one step. `Goes(q, k)` says that
the `while` loop of `assert_login_allowed` takes `k` entries. `failures[a]`, all
failures of an address since it last logged in, is what the queue is compared
with. The clock is taken not to be set back.

## 3. Runs

The runs take from seconds to three minutes. Deadlock is checked in the job
runs and in `login_window`, whose last step is always a refused or a successful
login. In the store and pull runs it is not: file ids are never reused, so with a
finite set of them the system comes to rest; nor in the hub runs, which end with
the process.

| Run | Bounds | Shows |
|---|---|---|
| `http_one` | 1 job, 3 faults, no stale clicks | refinement of `Delivery`, only files whose response has ended, no job lost, explained copies, one driver, no byte between a pause and the next resume or retry, driven while active, nothing left of a cancelled job; `EncryptingEnds`, `CancelEnds`, `DownloadingDownloads`, `StopEnds` under fairness |
| `http_cancel_lands` (violation) | 1 job, 1 fault | a resumed encryption becomes cancellable: its file lands after the cancel was answered |
| `torrent_two` | 2 jobs (one `Remote`), 1 fault and 1 completion that raises | refinement, content at rest while it is packed, whole content only, no job lost, explained copies, pause holds, driven while active; encryptions end and finished torrents are completed under fairness |
| `torrent_refetch` (violation) | the same | a restart retries a failed `.torrent` fetch by itself |
| `store_changes` | 2 files, 2 deleters, 1 fault, overlapping | no line without its blob, but for files somebody asked to delete; as long as changes have not overlapped, blobs, durations and lines agree and deletions clean up |
| `store_lost_line` (violation) | 2 files, 1 deleter | an append during a rewrite loses its line |
| `pull_faults` | 1 file of 2 chunks, 2 clients, web and API deleters, 1 crash or error, 1 kill, lossy, cuts, not overlapping | nothing wiped through the API before it was decrypted, one owner per file, nothing but the beginning of a file in an output directory |
| `pull_reliable` | 2 files, 2 clients, 1 kill, reliable network | no file lost; every completed file is pulled or deleted by the web user, under fairness |
| `pull_lost_reply` (violation) | 1 file, 1 client, lossy | a DELETE that times out is executed although the client has dropped its copy |
| `live_hub` | 2 pages, 2 versions | who is gone leaves the hub, an open page leaves it only through a failed snapshot of its own, a page in the hub gets to see the present state, under fairness |
| `live_dropped` (violation) | 1 page, 2 versions | a page that a failed snapshot took out of the hub stays connected and is not pushed to again |
| `login_window` | 2 addresses, 2 failures, window 2, 8 instants | never more than the allowed failures within any window; an address is blocked exactly when it has used them up |

Why these bounds are enough. HTTP jobs share nothing but the event loop and the
process: two of them interact in no way one does not show, and the theorems cover any
number; those which they prove for stale clicks as well are checked here without.
Torrent jobs share the completion lock, so there are two; with one fault a job can
fail and be retried, or both can be restored into the lock's queue; one more call may
raise when it gets the lock (`BeginFails`), so that both things can happen. Three
faults let an HTTP job fail to encrypt, be retried and be interrupted again. Two
files are what a rewrite needs to lose or spoil somebody else's line, so that one is
deleted and the other must stay whole; two deleters are what it takes to share the
`.tmp`, and one fault cuts off one of them, or the append between them. Two clients
are what an override needs, two chunks what it takes to cut a blob within; that
changes of the manifest do not overlap in `pull_faults` keeps it small, and the
theorems do without. Two pages show whatever one does to another through the loop,
and two versions an older snapshot after a newer one: the loop and the handlers build
one each. Eight instants hold three windows, so that failures leave the queue and
others take their place. `MaxFaults` and `MaxKills` bound crashes, stops, failed
threads and kills; counters of blobs are bounded through them.

What the violations say about the code:

* `http_cancel_lands`: pause a download just as its response ends. The coroutine
  begins to encrypt with `user_paused` still set; `resume` (`DM:1012`) accepts
  the job because of it and sets it back to `downloading`; `cancel` no longer sees
  an encryption, wipes the work dir and answers. The thread then puts the file in
  the completed store.
* `torrent_refetch`: `_reattach_torrent` ignores its `paused` argument for a job
  whose `.torrent` was never fetched and sets even a failed one to `downloading`
  (`DM:379`).
* `store_lost_line`: the blob stays, but the pull client never learns of it
  (`ST:435`-`449`).
* `live_dropped`: `_send_one` treats every exception as a broken connection
  (`services/live.py:105`); when only the snapshot could not be built, the socket is
  forgotten and open, so the page (`static/app.js`), which polls and reconnects
  only after a close event, shows what it has until it is reloaded or its user
  clicks: most clicks ask for a snapshot themselves.
* `pull_lost_reply`: the except clause of `process_one` cannot tell a refused
  DELETE from one whose answer was lost (`scripts/pull.py:497`).

More behaviours that contradict no document but are worth knowing: a response that
ends early without an error is encrypted as the file (`DM:640`; `OnlyWholeFiles`
therefore counts what it left as whole); a manifest line that is cut by a failed
write swallows the next one that is appended (`Consistent` counts it among the files
a fault has hit); a job paused while its `.torrent` is fetched is started by the
fetch and shows as paused while it transfers (`PausedTransfersNothing` therefore
excludes `Remote` jobs); a refused upload stays in the list as queued
(`DrivenWhileActive` excludes it). With `Cuts`, a blob cut at a chunk boundary
decrypts without an error, is taken for the whole file and the server's copy is
deleted: `NoDataLost` does not hold then, nor when the server dies or fails in the
middle of a DELETE.

### Fairness

`FairSpec` of the job modules assumes weak fairness of steps of the event loop
that are due without outside help: a coroutine whose await is over, the poll loop, the
lock (first come, first served, which is why weak fairness is enough), and for HTTP
jobs a delivered CancelledError and the steps of the shutdown; and that worker
threads end, in success or failure. It assumes nothing of servers and peers (the
HTTP client has no timeout), of users or of restarts, so no property says that a
download finishes. `PullFairSpec` assumes that the client process and the
server's handlers go on with what they have begun, and that the client is started.
`FairSpec` of `LiveHub` assumes that threads end, that the loop and the handlers go
on, and that a page which does not read either reads again or is disconnected by
uvicorn's ping timeout. A send is assumed strongly fair: it waits in the transport
and goes on with the first moment in which the page reads, however often the page
stalls.

## 4. Proofs

Every safety and action property of a passing run, the two refinements of
`Delivery` among them, is also a theorem that TLAPS checks for every value of the
constants: any number of jobs, files, clients, deleters and chunks, any finite number
of pages, any bound on faults. A theorem that needs more says so in its statement.

* `HttpJobsProofs`: `TypeCorrect`, `OneDriverHolds`, `NoJobLostHolds` and
  `PauseHolds` (an action property). The properties are not inductive by themselves.
  `JobInv(j)` adds what ties the places of the coroutines to the record: a status in
  which retry is allowed, or none at all, means that every coroutine of the job has
  ended; a finished thread has put a blob in the store; a job that its user holds is
  paused in its record, and in its snapshot if there is one; nothing is left of a job
  not yet created. The step lemma has one case per action; `Frame` disposes of the
  jobs an action does not touch.
* `HttpJobsCopies`: `CopiesExplainedHolds`. Every blob but that of the present
  attempt is paid for by a fault. `CopyInv(j)` keeps that account: a landed blob is
  owed to the thread that has finished or to the record that points to it, a stop
  is paid when it begins and used up when the process exits, and a job that points
  to its blob has no coroutine and cannot be retried.
* `HttpJobsDelivery`, under `OfferedOnly == StaleClicks = FALSE`: `DeliversHolds`
  (every step of `HttpJobs` is a step of `Delivery` or a stutter),
  `CancelledStaysGoneHolds`, `DrivenHolds` and `OnlyWholeFilesHolds`.
  `OfferedInv(j)` adds that an encryption shows as one, so that no handler wipes
  beneath it, and that a cancelled job is quiet; `WholeInv(j)` that the file which
  a coroutine or the record names is whole wherever the next step may encrypt it.
  The assumption is needed. `http_cancel_lands` is the counterexample to
  `Delivers`; a cut file is encrypted after a pause at the end of the response, a
  stale Resume, and a cancel in whose removal of the work dir the process dies:
  restored, the job fails to download, and retry takes what is left for the file.
* `TorrentJobsProofs`: `TypeCorrect`, `NoJobLostHolds` and `PausedHolds` for any
  clicks; under `OfferedOnly` also `ContentAtRestHolds`, `OnlyWholeContentHolds`,
  `CopiesExplainedHolds`, `DrivenHolds` and `DeliversHolds`. `BaseInv(j)` holds always
  (no trace of a job not yet created, a process that is down does nothing, an
  accepted job is on disk until its blob is in the store). `JobInv(j)` says what a
  call of `_complete_torrent` that is past the lock finds: its job shows
  `encrypting`, so that no handler touches its handle or its content (`AgreeInv`);
  whatever shows as active is held by a handle, a fetch, a task or a call
  (`DrivenInv`); what is packed or retried is whole (`WholeInv`); each blob but one
  is paid for by a fault, where `Owed` is the fault that a stop has still to use up
  (`CopiesInv`). Nothing need be known of the order of the lock's queue, only what
  it says of one job; `Same(i)` disposes of the jobs that a step does not touch. With
  `StaleClicks = TRUE`, TLC refutes each of the five. Of `Delivers`, for example: a
  torrent that is complete and has failed is retried and paused, its completion
  begins all the same, a stale Resume shows it as downloading, a cancel is answered,
  and the thread puts it in the completed store.
* `CompletedStoreProofs`, all with overlapping changes: `StoreTypeCorrect` and
  `LineHasBlobHolds`. `StoreInv` extends `LineHasBlob` from the manifest to
  everything that may still become the manifest: the copies in the memory of
  deleters, the `.tmp` file and the appends about to happen. `ConsistentHolds` and
  `DeleteCleansHolds` speak of the time before changes first overlap, for which
  `store_lost_line` is the reason: until then (`SoFarSerial`) `SerialInv` says that a
  deletion is alone and that what it has written is up to date, `FilesInv` what each
  file has at each place of its addition and deletion, `GoneInv` (with overlap too)
  that an unlinked blob does not come back.
* `PullProtocolProofs`: `PullTypeCorrect`; `PullImplementsStore` (every step of the
  composed system is a step of `CompletedStore` or leaves it alone, so that what is
  proved of the store holds under the clients: `PullLineHasBlob`);
  `WipedAfterDecryptHolds`, `OnlyAuthenticHolds` and `OneOwnerHolds`, with losses, cuts,
  kills, server crashes and overlapping deletions. `ClientInv` is what a client has
  to show for where it stands; `OnlyAuthentic` rests on lemmas about the operators of
  `BlobFormat` (what `decrypt_file` writes is a beginning of the file, for any number
  of chunks). `OwnerInv`: a client is told that a file is done only while it is
  paired and the blob is gone, and no client that is paired later holds that file.
  `NoDataLostHolds` needs `Reliable`: nothing that was said is lost, no response is
  cut, the server neither crashes nor fails, and deletions of the web user do not
  overlap (or there are none). `pull_lost_reply` and section 3 say what happens
  otherwise. `GotInv`, `AddedInv` and `SafeInv` follow the file from the
  store through the hands of the client to its output directory, while others
  displace it and kills interrupt it.
* `LiveHubProofs`: `TypeCorrect`, `GoneLeavesHolds` and `OnlyFailuresDropHolds`, for
  any finite number of pages. What is needed beside the properties: the loop puts
  a socket aside only when it is gone for good, and pushes no failed snapshot.
* `LoginThrottleProofs`: `TypeCorrect`, `AtMostPerWindowHolds` and
  `BlockedExactlyHolds`, for any window, limit and set of addresses. `Kept` says that
  the queue is the right end of the failures, in their order, and that what left it
  is older than the window; a failure is recorded while fewer than the limit are in
  the queue, so the one the limit before it has left. `CountIs` turns the failures
  within the window into a length.

Assumptions on the constants are the `ASSUME`s of the modules; TLC evaluates
them in every run.

Only model-checked, because they need fairness and ENABLED, which the prover does
not reach: `EncryptingEnds`, `CancelEnds`, `DownloadingDownloads` and `StopEnds` of
HTTP jobs, `EncryptingEnds` and `FinishedIsCompleted` of torrent jobs,
`PulledEventually`, `EventuallyCurrent`. The five properties of the violation runs
are false of the code and have no theorem.

## 5. Not modelled

* Progress, rates, peers, names shown to the user, notifications, the country
  database and the settings: data no decision reads. HTTP sessions, bearer tokens
  and cryptography: delegated to libraries.
* HTTP: versions of the remote file between two ranges, the crash window
  between a rename and its save (it costs a repeated download).
* Torrents: fastresume and the recheck after a restart (they delay a completion), the
  half-written archive of an interrupted packing,
  two jobs of one torrent, an auto-managed torrent that the session starts by
  itself.
* Saves and drops of `job.json` that fail.
* Completed store: leftover `<id>.tmp` files, the contents of lines, manifests longer
  than the write buffer.
* Pairing: `last_seen`, reported status, `clear`.
* Encryption: the format of manifest lines, blobs of the older version.
* Live updates: the page itself (`static/app.js`), whose reconnects are sockets that
  are opened again; the contents of a snapshot. Login: sessions, passwords, and a
  clock that is set back (the throttle then blocks for longer).
* Egress monitor: its effect is a crash of the process; the lookup is I/O.

## 6. Plan

Done, in this order because it is the order of importance: `JobRecord`,
`Delivery`, `HttpJobs` with its proofs, `CompletedStore` with its proofs,
`PullProtocol`, `TorrentJobs`, `BlobFormat`, `LiveHub` and `LoginThrottle` with
their proofs. The proofs of `TorrentJobs` and `PullProtocol`, and those
of the safety properties that had been left to TLC, came last.

What is left, in this order:

1. Hypotheses: whether `NoDataLost` needs that nothing is lost in a part of it (a
   lost request loses no file, a lost answer does).
2. The non-temporal halves of the liveness properties: what a step of a fair
   action achieves wherever its guard holds.
3. `BlobFormat`: that a blob which is accepted and not whole is one cut between two
   chunks, the exact extent of what `Cuts` does to `NoDataLost`.
