--------------------------- MODULE CompletedStore ---------------------------
(***************************************************************************)
(* The completed store of services/store.py: the directory of encrypted    *)
(* blobs, the manifest with one encrypted line per blob, and the .json     *)
(* file with a job's duration.  Encryption threads add to it, web requests *)
(* (in threads) and the pull API (on the event loop) delete from it; all   *)
(* of them run side by side, without a lock, and can be cut off by a crash.*)
(*                                                                         *)
(* The manifest is rewritten by writing a copy to manifest.db.tmp, which   *)
(* then replaces it; a thread that has opened either file keeps what it    *)
(* opened.  A handle is therefore the name under which the opened file is  *)
(* found now: "main", "tmp", or "old" once it has been replaced.           *)
(***************************************************************************)
EXTENDS Naturals

CONSTANTS
    Files,      \* ids given to completed files
    Deleters,   \* threads that execute delete_completed
    MaxFaults,  \* bound on crashes and failed calls
    Overlap     \* may changes of the manifest overlap?

ASSUME StoreAssumption == MaxFaults \in Nat /\ Overlap \in BOOLEAN

VARIABLES
    blob,    \* blob[f]: completed_dir/<f>: none, whole, or wiped (overwritten)
    meta,    \* files that have a .json
    main,    \* lines of the manifest
    tmp,     \* lines of manifest.db.tmp, or Absent
    app,     \* app[f]: the thread that adds f
    del,     \* del[d]: what deleter d is doing
    asked,   \* files some request asked to delete
    hit,     \* files a fault has cut off, or whose line is behind a cut one
    faults,
    overlapped   \* have changes of the manifest overlapped?

store == <<blob, meta, main, tmp, app, del, asked, hit, faults, overlapped>>

\* Torn: a garbled line, left by a rewrite that does not start from an empty file.
\* Stub: the beginning of a line at the end of the file, left by a write that
\* failed; what is appended next becomes part of it.  Both are nobody's: that they
\* may begin with a file's id, and go when that file is deleted, is left out.
Torn == "torn"
Stub == "stub"
ASSUME TornAssumption == Torn \notin Files /\ Stub \notin Files
Lines == Files \cup {Torn, Stub}
Absent == {"absent"}
ASSUME AbsentAssumption == "absent" \notin Files

\* new: nothing yet; landed: the blob is in place; opened: so is the handle on
\* the manifest; lined: the line is written; done: so is the duration.
AppPlaces == {"new", "landed", "opened", "lined", "done", "failed"}

Handles == {"none", "main", "tmp", "old"}

\* The steps of delete_completed, in their order; idle is between two calls.
DelPlaces == {"idle", "wipe", "unlink", "meta", "source", "open", "read", "write",
              "replace"}

\* src, dst: handles on the manifest that is read and the copy that is written;
\* copy: the lines that were read, or that src holds since it was replaced.
NoCall(f) == [at |-> "idle", file |-> f, copy |-> {}, src |-> "none", dst |-> "none"]

StoreInit ==
    /\ blob = [f \in Files |-> "none"]
    /\ meta = {}
    /\ main = {}
    /\ tmp = Absent
    /\ app = [f \in Files |-> [at |-> "new", dst |-> "none"]]
    /\ \E f \in Files : del = [d \in Deleters |-> NoCall(f)]
    /\ asked = {}
    /\ hit = {}
    /\ faults = 0
    /\ overlapped = FALSE

\* Some change of the manifest or of a file is under way.
Adding(f) == app[f].at \in {"landed", "opened", "lined"}
Rewriting(d) == del[d].at \in {"source", "open", "read", "write", "replace"}
Deleting(d) == del[d].at # "idle"

\* A change begins, and meets another one if `busy'.
Begins(busy) ==
    /\ busy => Overlap
    /\ overlapped' = (overlapped \/ busy)

-----------------------------------------------------------------------------
(* append_completed and write_duration.                                    *)

AppStep(f, from, to) == app[f].at = from /\ app' = [app EXCEPT ![f].at = to]

\* The encrypted copy, written under another name, gets its final one.
Land(f) ==
    /\ Begins(\E d \in Deleters : Deleting(d))
    /\ AppStep(f, "new", "landed")
    /\ blob' = [blob EXCEPT ![f] = "whole"]
    /\ UNCHANGED <<meta, main, tmp, del, asked, hit, faults>>

\* Mutant: the thread's line does not wait for its blob.
OpenManifestEarly(f) ==
    /\ app[f].at \in {"new", "landed"}
    /\ app' = [app EXCEPT ![f] = [at |-> "opened", dst |-> "main"]]
    /\ UNCHANGED <<blob, meta, main, tmp, del, asked, hit, faults, overlapped>>

\* append_completed: the manifest is opened for appending, ...
OpenManifest(f) ==
    /\ app[f].at = "landed"
    /\ app' = [app EXCEPT ![f] = [at |-> "opened", dst |-> "main"]]
    /\ UNCHANGED <<blob, meta, main, tmp, del, asked, hit, faults, overlapped>>

\* A file that holds m after a line, or the beginning of one, is appended.
Appended(m, line) ==
    IF Stub \notin m THEN m \cup {line}
    ELSE IF line = Stub THEN m ELSE (m \ {Stub}) \cup {Torn}

\* The file that f has open gets it.  Of a replaced one only a deleter that is
\* about to read from the same file sees that.
AppendLine(f, line) ==
    \/ /\ app[f].dst = "main"
       /\ main' = Appended(main, line) /\ UNCHANGED del
    \/ /\ app[f].dst = "old" /\ UNCHANGED main
       /\ \E readers \in SUBSET {d \in Deleters : del[d].src = "old"} :
             del' = [d \in Deleters |->
                IF d \in readers THEN [del[d] EXCEPT !.copy = Appended(@, line)] ELSE del[d]]

\* ... and the line goes to the end of the file that was opened.
WriteLine(f) ==
    /\ app[f].at = "opened"
    /\ app' = [app EXCEPT ![f] = [at |-> "lined", dst |-> "none"]]
    /\ AppendLine(f, f)
    /\ hit' = IF app[f].dst = "main" /\ Stub \in main THEN hit \cup {f} ELSE hit
    /\ UNCHANGED <<blob, meta, tmp, asked, faults, overlapped>>

WriteDuration(f) ==
    /\ AppStep(f, "lined", "done")
    /\ meta' = meta \cup {f}
    /\ UNCHANGED <<blob, main, tmp, del, asked, hit, faults, overlapped>>

\* The disk is full, say: the exception ends the thread and fails the job.  The
\* beginning of the line may have been written.
AppFail(f) ==
    /\ Adding(f)
    /\ faults < MaxFaults /\ faults' = faults + 1
    /\ app' = [app EXCEPT ![f] = [at |-> "failed", dst |-> "none"]]
    /\ hit' = hit \cup {f}
    /\ \/ UNCHANGED <<main, del>>
       \/ app[f].at = "opened" /\ AppendLine(f, Stub)
    /\ UNCHANGED <<blob, meta, tmp, asked, overlapped>>

-----------------------------------------------------------------------------
(* delete_completed.                                                       *)

Exists(f) == blob[f] # "none" \/ f \in meta \/ f \in main

\* The call is made for a file that was once listed; it ends at once, with
\* False, if nothing of the file exists.
Delete(d, f) ==
    /\ del[d].at = "idle"
    /\ Begins((\E e \in Deleters : Deleting(e)) \/ (\E g \in Files : Adding(g)))
    /\ app[f].at # "new"
    /\ Exists(f)
    /\ del' = [del EXCEPT ![d] = [NoCall(f) EXCEPT !.at = "wipe"]]
    /\ asked' = asked \cup {f}
    /\ UNCHANGED <<blob, meta, main, tmp, app, hit, faults>>

Goes(d, from, to) == del[d].at = from /\ del' = [del EXCEPT ![d].at = to]

\* secure_delete overwrites the blob, ...
Wipe(d) ==
    /\ Goes(d, "wipe", "unlink")
    /\ blob' = [blob EXCEPT ![del[d].file] = IF @ = "whole" THEN "wiped" ELSE @]
    /\ UNCHANGED <<meta, main, tmp, app, asked, hit, faults, overlapped>>

\* ... then removes it.
Unlink(d) ==
    /\ Goes(d, "unlink", "meta")
    /\ blob' = [blob EXCEPT ![del[d].file] = "none"]
    /\ UNCHANGED <<meta, main, tmp, app, asked, hit, faults, overlapped>>

UnlinkMeta(d) ==
    /\ Goes(d, "meta", "source")
    /\ meta' = meta \ {del[d].file}
    /\ UNCHANGED <<blob, main, tmp, app, asked, hit, faults, overlapped>>

\* _rewrite_manifest_without: the manifest is opened for reading, ...
OpenSource(d) ==
    /\ del[d].at = "source"
    /\ del' = [del EXCEPT ![d] = [@ EXCEPT !.at = "open", !.src = "main"]]
    /\ UNCHANGED <<blob, meta, main, tmp, app, asked, hit, faults, overlapped>>

\* Mutant: what an earlier rewrite has left of the temporary file is kept.
OpenTmpKeeps(d) ==
    /\ del[d].at = "open"
    /\ del' = [del EXCEPT ![d] = [@ EXCEPT !.at = "read", !.dst = "tmp"]]
    /\ tmp' = IF tmp = Absent THEN {} ELSE tmp
    /\ UNCHANGED <<blob, meta, main, app, asked, hit, faults, overlapped>>

\* ... the temporary file is created, or truncated if it is there, ...
OpenTmp(d) ==
    /\ del[d].at = "open"
    /\ del' = [del EXCEPT ![d] = [@ EXCEPT !.at = "read", !.dst = "tmp"]]
    /\ tmp' = {}
    /\ UNCHANGED <<blob, meta, main, app, asked, hit, faults, overlapped>>

\* The file that d has open for reading.
Source(d) == IF del[d].src = "main" THEN main ELSE del[d].copy

\* Mutant: the copy keeps the line.
ReadManifestKeeps(d) ==
    /\ del[d].at = "read"
    /\ del' = [del EXCEPT ![d] = [@ EXCEPT !.at = "write", !.src = "none",
                                                !.copy = Source(d)]]
    /\ UNCHANGED <<blob, meta, main, tmp, app, asked, hit, faults, overlapped>>

\* ... the lines of the others are read, ...
ReadManifest(d) ==
    /\ del[d].at = "read"
    /\ del' = [del EXCEPT ![d] = [@ EXCEPT !.at = "write", !.src = "none",
                                                !.copy = Source(d) \ {del[d].file}]]
    /\ UNCHANGED <<blob, meta, main, tmp, app, asked, hit, faults, overlapped>>

\* What a file that holds `old' may hold after `new' is written at its start:
\* of what was there the end may survive, whole lines and a torn one.
Overwritten(old, new) ==
    IF old = {} THEN {new}
    ELSE {kept \cup rest : kept \in {new, new \ {Stub}}, rest \in SUBSET (old \cup {Torn})}

\* The file that d has open for writing gets the lines.
Write(d, lines) ==
    \/ /\ del[d].dst = "tmp" /\ tmp' \in Overwritten(tmp, lines)
       /\ UNCHANGED main
    \/ /\ del[d].dst = "main" /\ main' \in Overwritten(main, lines)
       /\ UNCHANGED tmp
    \/ /\ del[d].dst = "old"
       /\ UNCHANGED <<main, tmp>>

\* ... and written to it by one flush, ...
WriteTmp(d) ==
    /\ del[d].at = "write"
    /\ Write(d, del[d].copy)
    /\ del' = [del EXCEPT ![d] = [NoCall(@.file) EXCEPT !.at = "replace"]]
    /\ UNCHANGED <<blob, meta, app, asked, hit, faults, overlapped>>

Renamed(h) == CASE h = "main" -> "old" [] h = "tmp" -> "main" [] OTHER -> h

\* What becomes of the handles of d when the temporary file replaces the manifest.
Moved(d) ==
    [del[d] EXCEPT !.src = Renamed(@), !.dst = Renamed(@),
                   !.copy = IF del[d].src = "main" THEN main ELSE @]

\* The renaming succeeds: who has either file open has it under its new name.
Replace(d) ==
    /\ main' = tmp
    /\ tmp' = Absent
    /\ app' = [f \in Files |-> [app[f] EXCEPT !.dst = Renamed(@)]]
    /\ del' = [e \in Deleters |-> IF e = d THEN NoCall(del[d].file) ELSE Moved(e)]
    /\ UNCHANGED <<blob, meta, asked, hit, faults, overlapped>>

\* Mutant: the missing file replaces the manifest.
ReplaceMissing(d) ==
    /\ main' = tmp /\ del' = [del EXCEPT ![d] = NoCall(@.file)]
    /\ hit' = hit \cup {del[d].file}
    /\ UNCHANGED <<blob, meta, tmp, app, asked, faults, overlapped>>

\* There is nothing to rename: the call ends with an error.
ReplaceFails(d) ==
    /\ del' = [del EXCEPT ![d] = NoCall(@.file)]
    /\ hit' = hit \cup {del[d].file}
    /\ UNCHANGED <<blob, meta, main, tmp, app, asked, faults, overlapped>>

\* ... and replaces the manifest, unless another deleter has renamed it meanwhile.
Rename(d) ==
    /\ del[d].at = "replace"
    /\ IF tmp = Absent THEN ReplaceFails(d) ELSE Replace(d)

\* An error anywhere ends the call; of the lines some may have been written, the
\* last one not to its end.
DelFail(d) ==
    /\ Deleting(d)
    /\ faults < MaxFaults /\ faults' = faults + 1
    /\ del' = [del EXCEPT ![d] = NoCall(@.file)]
    /\ hit' = hit \cup {del[d].file}
    /\ \/ UNCHANGED <<main, tmp>>
       \/ /\ del[d].at = "write"
          /\ \E some \in SUBSET del[d].copy : Write(d, some \cup {Stub})
    /\ UNCHANGED <<blob, meta, app, asked, overlapped>>

-----------------------------------------------------------------------------
\* The process dies; what it leaves is the directory.
StoreCrash ==
    /\ faults < MaxFaults /\ faults' = faults + 1
    /\ app' = [f \in Files |->
          IF Adding(f) THEN [at |-> "failed", dst |-> "none"] ELSE app[f]]
    /\ del' = [d \in Deleters |-> NoCall(del[d].file)]
    /\ hit' = hit \cup {f \in Files : Adding(f)}
                  \cup {del[d].file : d \in {e \in Deleters : Deleting(e)}}
    /\ UNCHANGED <<blob, meta, main, tmp, asked, overlapped>>

AppendCompleted(f) == OpenManifest(f) \/ WriteLine(f) \/ WriteDuration(f)

Deletion(d) ==
    \/ Wipe(d) \/ Unlink(d) \/ UnlinkMeta(d)
    \/ OpenSource(d) \/ OpenTmp(d) \/ ReadManifest(d) \/ WriteTmp(d) \/ Rename(d)

StoreNext ==
    \/ \E f \in Files : Land(f) \/ AppendCompleted(f) \/ AppFail(f)
    \/ \E d \in Deleters : Deletion(d) \/ DelFail(d) \/ \E f \in Files : Delete(d, f)
    \/ StoreCrash

StoreSpec == StoreInit /\ [][StoreNext]_store

\* Threads and the event loop go on with what they have begun.
StoreFairness ==
    /\ \A f \in Files : WF_store(AppendCompleted(f))
    /\ \A d \in Deleters : WF_store(Deletion(d))

StoreFairSpec == StoreSpec /\ StoreFairness

-----------------------------------------------------------------------------
(* Properties.                                                             *)

\* Every variable has its type.
StoreTypeOK ==
    /\ blob \in [Files -> {"none", "whole", "wiped"}]
    /\ meta \in SUBSET Files
    /\ main \in SUBSET Lines
    /\ tmp \in (SUBSET Lines) \cup {Absent}
    /\ app \in [Files -> [at : AppPlaces, dst : Handles]]
    /\ del \in [Deleters -> [at : DelPlaces, file : Files, copy : SUBSET Lines,
                             src : Handles, dst : Handles]]
    /\ asked \in SUBSET Files
    /\ hit \in SUBSET Files
    /\ faults \in 0..MaxFaults
    /\ overlapped \in BOOLEAN

\* However changes overlap and whatever a crash leaves: what the pull client is
\* told of and nobody asked to delete is there, and whole.
LineHasBlob == \A f \in main \cap Files : f \notin asked => blob[f] = "whole"

\* As long as changes have not overlapped: when none is under way, the blobs, the
\* durations and the lines of the manifest are those of the files that were added
\* and not deleted, but for the files a fault has hit.
Consistent ==
    /\ ~overlapped
    /\ \A f \in Files : ~Adding(f)
    /\ \A d \in Deleters : ~Deleting(d)
    => /\ hit = {} => main \subseteq Files
       /\ \A f \in Files \ hit :
             IF app[f].at = "done" /\ f \notin asked
               THEN blob[f] = "whole" /\ f \in meta /\ f \in main
               ELSE ~Exists(f)

\* A deletion that is answered has removed all of the file, even if an earlier
\* attempt was cut off halfway, as long as changes have not overlapped.
DeleteCleans ==
    [][\A d \in Deleters :
         del[d].at = "replace" /\ del'[d].at = "idle" /\ faults' = faults /\ ~overlapped
            => ~Exists(del[d].file)']_store

\* "append encrypted manifest line": a file that was added and that nobody asked
\* to delete is on the manifest, the only place where the pull client looks.
CompletedListed ==
    \A f \in Files : app[f].at = "done" /\ f \notin asked => f \in main
=============================================================================
