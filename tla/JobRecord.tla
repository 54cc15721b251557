------------------------------ MODULE JobRecord ------------------------------
(***************************************************************************)
(* The job record of services/store.py (class JobRecord), its snapshot     *)
(* <work_dir>/job.json, and the two store operations every handler uses on *)
(* it.  Only the fields a decision of the program reads are kept: status,  *)
(* user_paused, state, name (the name of the file in work_dir) and whether *)
(* completed_file_id is set.  Progress, rates, peers and timestamps are    *)
(* display data.                                                           *)
(***************************************************************************)

Statuses == {"queued", "downloading", "paused", "encrypting",
             "completed", "failed", "cancelled"}

\* Statuses whose snapshot survives a restart (_PERSISTABLE).
Persistable == {"queued", "downloading", "paused", "encrypting", "failed"}

\* job.state: None, "http", a libtorrent state name, "packing", "encrypting".
States == {"none", "http", "torrent", "packing", "encrypting"}

Record(Names) ==
    [status : Statuses, user_paused : BOOLEAN, state : States,
     name : Names, blob : BOOLEAN]

\* JobRecord.__init__
NewRecord(name) ==
    [status |-> "queued", user_paused |-> FALSE, state |-> "none",
     name |-> name, blob |-> FALSE]

\* What to_persist_dict keeps of a record; completed_file_id is not kept.
Snapshot(Names) ==
    [status : Persistable, user_paused : BOOLEAN, state : States, name : Names]

\* No job.json in the work dir.
NoSnapshot ==
    [status |-> "absent", user_paused |-> FALSE, state |-> "none", name |-> "none"]

Saved(s) == s.status # "absent"

\* to_persist_dict, for a record that persist_job agrees to write; a record
\* in any other status has its job.json removed instead.
ToSnapshot(r) ==
    IF r.status \in Persistable
      THEN [status |-> r.status, user_paused |-> r.user_paused,
            state |-> r.state, name |-> r.name]
      ELSE NoSnapshot

\* from_persist_dict
FromSnapshot(s) ==
    [status |-> s.status, user_paused |-> s.user_paused, state |-> s.state,
     name |-> s.name, blob |-> FALSE]

\* persist_job(job j with record r): the directory of snapshots afterwards.
\* The write goes to a temporary file that replaces job.json, so that a crash
\* leaves the old snapshot or the new one; the work dir is created if missing.
\* The disk is taken to work: persist_job and drop_persisted_job swallow an
\* OSError, and then the snapshot on disk stays what it was.
Persist(snapshots, j, r) == [snapshots EXCEPT ![j] = ToSnapshot(r)]

\* drop_persisted_job
Drop(snapshots, j) == [snapshots EXCEPT ![j] = NoSnapshot]
=============================================================================
