---------------------------- MODULE PullProtocol ----------------------------
(***************************************************************************)
(* The pull clients of scripts/pull.py, the pairing of services/pairing.py *)
(* and the pull API of main.py, on top of the completed store.  A client   *)
(* pairs, lists the manifest, and for each line fetches the blob, decrypts *)
(* it and asks the server to delete it; a client that was displaced by an  *)
(* override goes on until its requests are refused.  Requests and replies  *)
(* may be lost or late, clients may be killed, the server may die.         *)
(*                                                                         *)
(* A deletion that comes through the pull API runs on the event loop, so   *)
(* that no other request is served before it ends; the deletions asked for *)
(* in the web UI run in threads of their own.                              *)
(***************************************************************************)
EXTENDS CompletedStore, FiniteSets

CONSTANTS
    Clients,   \* client ids (one pull process each)
    Api,       \* the deleter that is the event loop
    Nobody,    \* no client is paired
    Nothing,   \* a client has no file in the works
    Chunks,    \* chunks of each file
    MaxKills,  \* bound on killed clients
    Lossy,     \* may requests, replies and connections be lost or time out?
    Cuts       \* may a response end early, between two chunks of the blob?

ASSUME PullAssumption ==
    /\ Api \in Deleters /\ Nobody \notin Clients /\ Nothing \notin Files
    /\ Chunks \in Nat \ {0}
    /\ MaxKills \in Nat /\ Lossy \in BOOLEAN /\ Cuts \in BOOLEAN

VARIABLES
    paired,     \* client_id of pair.json
    cl,         \* cl[c]: where the process of c stands
    req,        \* req[c]: the DELETE request c waits for
    late,       \* DELETE requests nobody waits for any more, still to be served
    out,        \* out[c][f]: what earlier attempts at f left in the output dir
    done,       \* done[c]: files c has reported as done
    decrypted,  \* files some client has decrypted
    dropped,    \* files whose deletion was asked for in the web UI
    kills

client == <<paired, cl, req, late, out, done, decrypted, dropped, kills>>
pull == <<store, client>>

ClientPlaces == {"off", "list", "next", "fetch", "decrypt", "delete", "reply"}

Blob == INSTANCE BlobFormat
Whole == Blob!Sealed(Chunks)
Copies == {Whole} \cup Blob!Cut(Chunks) \cup Blob!Spoilt(Chunks)

Requests == {"none", "sent", "served", "ok", "refused"}

\* got: the fetched blob; plain: what is in plain_path, if there is such a file.
Off == [at |-> "off", file |-> Nothing, todo |-> {}, got |-> Whole, plain |-> {}]

PullInit ==
    /\ StoreInit
    /\ paired = Nobody
    /\ cl = [c \in Clients |-> Off]
    /\ req = [c \in Clients |-> "none"]
    /\ late = {}
    /\ out = [c \in Clients |-> [f \in Files |-> {}]]
    /\ done = [c \in Clients |-> {}]
    /\ decrypted = {}
    /\ dropped = {}
    /\ kills = 0

\* The event loop takes the next request.
Serving == ~Deleting(Api)

-----------------------------------------------------------------------------
(* The client process.                                                     *)

\* pair: only an override displaces another client; a client that is refused
\* exits.  It exits as well if the answer is lost.
Start(c, override) ==
    /\ cl[c].at = "off" /\ Serving
    /\ override \/ paired \in {Nobody, c}
    /\ paired' = c
    /\ \/ cl' = [cl EXCEPT ![c].at = "list"]
       \/ Lossy /\ UNCHANGED cl
    /\ UNCHANGED <<store, req, late, out, done, decrypted, dropped, kills>>

\* The manifest is served to the paired client only.  A garbled line fails by
\* itself, or makes all of it unreadable: then, or as long as there is nothing to
\* fetch, the client lists again.
List(c) ==
    /\ cl[c].at = "list" /\ Serving
    /\ paired = c /\ main # {}
    /\ cl' = [cl EXCEPT ![c].at = "next", ![c].todo = main \cap Files]
    /\ UNCHANGED <<store, paired, req, late, out, done, decrypted, dropped, kills>>

\* Every file of the list was tried.
Relist(c) ==
    /\ cl[c].at = "next" /\ cl[c].todo = {}
    /\ cl' = [cl EXCEPT ![c].at = "list"]
    /\ UNCHANGED <<store, paired, req, late, out, done, decrypted, dropped, kills>>

\* The next file is asked for: a displaced client and a missing blob are refused,
Fetch(c, f) ==
    /\ cl[c].at = "next" /\ f \in cl[c].todo /\ Serving
    /\ cl' = [cl EXCEPT ![c] =
          IF paired = c /\ blob[f] # "none"
            THEN [cl[c] EXCEPT !.at = "fetch", !.file = f, !.todo = @ \ {f},
                               !.got = IF blob[f] = "whole" THEN Whole ELSE Blob!Wiped]
            ELSE [cl[c] EXCEPT !.todo = @ \ {f}]]
    /\ UNCHANGED <<store, paired, req, late, out, done, decrypted, dropped, kills>>

\* and what is sent is overwritten if the file is being deleted.
Fetched(c) ==
    /\ cl[c].at = "fetch"
    /\ \E b \in {cl[c].got} \cup (IF blob[cl[c].file] # "whole" THEN Blob!Spoilt(Chunks) ELSE {})
                           \cup (IF Cuts THEN Blob!Cut(Chunks) ELSE {}) :
          cl' = [cl EXCEPT ![c].at = "decrypt", ![c].got = b]
    /\ UNCHANGED <<store, paired, req, late, out, done, decrypted, dropped, kills>>

\* The except clause of process_one: the plaintext of this attempt is removed.
GiveUp(c) == cl' = [cl EXCEPT ![c] = [Off EXCEPT !.at = "next", !.todo = cl[c].todo]]

FetchLost(c) ==
    /\ Lossy /\ cl[c].at = "fetch"
    /\ GiveUp(c)
    /\ UNCHANGED <<store, paired, req, late, out, done, decrypted, dropped, kills>>

\* Mutant: a decrypted file is done, and the remote one is forgotten.
DecryptKeepsRemote(c) ==
    /\ cl[c].at = "decrypt"
    /\ GiveUp(c)
    /\ decrypted' = decrypted \cup {cl[c].file}
    /\ UNCHANGED <<store, paired, req, late, out, done, dropped, kills>>

\* Mutant: what the exception has left is kept, and the remote file deleted.
DecryptUnchecked(c) ==
    /\ cl[c].at = "decrypt"
    /\ cl' = [cl EXCEPT ![c].at = "delete", ![c].plain = {cl[c].got}]
    /\ decrypted' = decrypted \cup {cl[c].file}
    /\ UNCHANGED <<store, paired, req, late, out, done, dropped, kills>>

\* decrypt_file stops at a chunk that does not authenticate, and takes the end
\* of the file for the end of the blob.
Decrypt(c) ==
    /\ cl[c].at = "decrypt"
    /\ IF Blob!Accepted(cl[c].got)
         THEN /\ cl' = [cl EXCEPT ![c].at = "delete", ![c].plain = {Blob!Plain(cl[c].got)}]
              /\ decrypted' = decrypted \cup {cl[c].file}
         ELSE GiveUp(c) /\ UNCHANGED decrypted
    /\ UNCHANGED <<store, paired, req, late, out, done, dropped, kills>>

\* Mutant: the deletion is asked for before the blob is decrypted.
AskDeleteEarly(c) ==
    /\ cl[c].at \in {"decrypt", "delete"}
    /\ cl' = [cl EXCEPT ![c].at = "reply"]
    /\ req' = [req EXCEPT ![c] = "sent"]
    /\ UNCHANGED <<store, paired, late, out, done, decrypted, dropped, kills>>

AskDelete(c) ==
    /\ cl[c].at = "delete"
    /\ cl' = [cl EXCEPT ![c].at = "reply"]
    /\ req' = [req EXCEPT ![c] = "sent"]
    /\ UNCHANGED <<store, paired, late, out, done, decrypted, dropped, kills>>

\* The answer to DELETE: the file is done, ...
Done(c) ==
    /\ cl[c].at = "reply" /\ req[c] = "ok"
    /\ out' = [out EXCEPT ![c][cl[c].file] = @ \cup cl[c].plain]
    /\ done' = [done EXCEPT ![c] = @ \cup {cl[c].file}]
    /\ req' = [req EXCEPT ![c] = "none"]
    /\ GiveUp(c)
    /\ UNCHANGED <<store, paired, late, decrypted, dropped, kills>>

\* Mutant: a refused deletion is as good as an executed one.
RefusedIsDone(c) ==
    /\ cl[c].at = "reply" /\ req[c] = "refused"
    /\ done' = [done EXCEPT ![c] = @ \cup {cl[c].file}]
    /\ req' = [req EXCEPT ![c] = "none"]
    /\ GiveUp(c)
    /\ UNCHANGED <<store, paired, late, out, decrypted, dropped, kills>>

\* ... or the attempt has failed: it was refused,
Refused(c) ==
    /\ cl[c].at = "reply" /\ req[c] = "refused"
    /\ req' = [req EXCEPT ![c] = "none"]
    /\ GiveUp(c)
    /\ UNCHANGED <<store, paired, late, out, done, decrypted, dropped, kills>>

\* Mutant: a client that asked for nothing leaves a request, too.
OrphanAlways(c) ==
    /\ req' = [req EXCEPT ![c] = "none"]
    /\ late' = late \cup {<<c, cl[c].file>>}

\* What becomes of a request whose client no longer waits: one that was not
\* served yet may still be, or is lost.
Orphan(c) ==
    /\ req' = [req EXCEPT ![c] = "none"]
    /\ \/ req[c] = "sent" /\ late' = late \cup {<<c, cl[c].file>>}
       \/ UNCHANGED late

\* or the answer did not come in time.
TimedOut(c) ==
    /\ Lossy /\ cl[c].at = "reply"
    /\ Orphan(c)
    /\ GiveUp(c)
    /\ UNCHANGED <<store, paired, out, done, decrypted, dropped, kills>>

\* The process is killed or interrupted, which runs no except clause: what was
\* written so far of the plaintext stays under its final name.
Kill(c) ==
    /\ cl[c].at # "off"
    /\ kills < MaxKills /\ kills' = kills + 1
    /\ Orphan(c)
    /\ \E left \in {cl[c].plain} \cup
             (IF cl[c].at = "decrypt" THEN {{p} : p \in Blob!PlainSoFar(cl[c].got)} ELSE {}) :
          out' = [out EXCEPT ![c] = [f \in Files |->
                    IF f = cl[c].file THEN @[f] \cup left ELSE @[f]]]
    /\ cl' = [cl EXCEPT ![c] = Off]
    /\ UNCHANGED <<store, paired, done, decrypted, dropped>>

-----------------------------------------------------------------------------
(* The server.                                                             *)

\* api_delete_file for client c: refused if c is not paired or nothing of the
\* file exists, else delete_completed starts.
Accepts(c, f) == paired = c /\ Exists(f)

ServeDelete(c) ==
    /\ cl[c].at = "reply" /\ req[c] = "sent" /\ Serving
    /\ IF Accepts(c, cl[c].file)
         THEN /\ Delete(Api, cl[c].file)
              /\ req' = [req EXCEPT ![c] = "served"]
         ELSE /\ req' = [req EXCEPT ![c] = "refused"]
              /\ UNCHANGED store
    /\ UNCHANGED <<paired, cl, late, out, done, decrypted, dropped, kills>>

\* The same for a request nobody waits for.
ServeLate(c, f) ==
    /\ <<c, f>> \in late /\ Serving
    /\ late' = late \ {<<c, f>>}
    /\ IF Accepts(c, f) THEN Delete(Api, f) ELSE UNCHANGED store
    /\ UNCHANGED <<paired, cl, req, out, done, decrypted, dropped, kills>>

\* delete_completed goes on, and its end is answered, ...
Answer(a) ==
    req' = [c \in Clients |-> IF req[c] = "served" THEN a ELSE req[c]]

ServeStep ==
    /\ \/ /\ \/ Wipe(Api) \/ Unlink(Api) \/ UnlinkMeta(Api) \/ OpenSource(Api)
             \/ OpenTmp(Api) \/ ReadManifest(Api) \/ WriteTmp(Api)
          /\ UNCHANGED req
       \/ Rename(Api) /\ Answer(IF tmp = Absent THEN "refused" ELSE "ok")
    /\ UNCHANGED <<paired, cl, late, out, done, decrypted, dropped, kills>>

\* ... and so is the error that ends it.
ServeFails ==
    /\ DelFail(Api) /\ Answer("refused")
    /\ UNCHANGED <<paired, cl, late, out, done, decrypted, dropped, kills>>

\* Encryption threads and the deletions of the web UI.
Adds(f) == (Land(f) \/ AppendCompleted(f) \/ AppFail(f)) /\ UNCHANGED client

WebDelete(d, f) ==
    /\ d # Api /\ Delete(d, f)
    /\ dropped' = dropped \cup {f}
    /\ UNCHANGED <<paired, cl, req, late, out, done, decrypted, kills>>

WebStep(d) == d # Api /\ Deletion(d) /\ UNCHANGED client

WebFails(d) == d # Api /\ DelFail(d) /\ UNCHANGED client

\* The server dies and is started again: every connection is gone.
ServerCrash ==
    /\ StoreCrash
    /\ late' = {}
    /\ req' = [c \in Clients |-> IF req[c] = "none" THEN "none" ELSE "refused"]
    /\ cl' = [c \in Clients |->
          IF cl[c].at = "fetch" THEN [Off EXCEPT !.at = "next", !.todo = cl[c].todo]
                                ELSE cl[c]]
    /\ UNCHANGED <<paired, out, done, decrypted, dropped, kills>>

-----------------------------------------------------------------------------
ClientStep(c) ==
    \/ List(c) \/ Relist(c) \/ Fetched(c) \/ Decrypt(c) \/ AskDelete(c)
    \/ Done(c) \/ Refused(c)
    \/ \E f \in Files : Fetch(c, f)

PullNext ==
    \/ \E c \in Clients :
          \/ ClientStep(c) \/ FetchLost(c) \/ TimedOut(c) \/ Kill(c) \/ ServeDelete(c)
          \/ \E override \in BOOLEAN : Start(c, override)
          \/ \E f \in Files : ServeLate(c, f)
    \/ ServeStep \/ ServeFails
    \/ \E f \in Files : Adds(f)
    \/ \E d \in Deleters : WebStep(d) \/ WebFails(d) \/ \E f \in Files : WebDelete(d, f)
    \/ ServerCrash

PullSpec == PullInit /\ [][PullNext]_pull

(* Processes and the server go on with what they have begun; a client is   *)
(* started once, without an override, if it can be.                        *)
PullFairness ==
    /\ \A c \in Clients : /\ WF_pull(ClientStep(c)) /\ WF_pull(ServeDelete(c))
                          /\ WF_pull(Start(c, FALSE))
    /\ WF_pull(ServeStep)
    /\ \A d \in Deleters : WF_pull(WebStep(d))
    /\ \A f \in Files : WF_pull(AppendCompleted(f) /\ UNCHANGED client)

PullFairSpec == PullSpec /\ PullFairness

-----------------------------------------------------------------------------
(* Properties.                                                             *)

\* Every variable has its type.
PullTypeOK ==
    /\ StoreTypeOK
    /\ paired \in Clients \cup {Nobody}
    /\ cl \in [Clients -> [at : ClientPlaces, file : Files \cup {Nothing},
                           todo : SUBSET Files, got : Copies,
                           plain : {{}} \cup {{b} : b \in Copies}]]
    /\ req \in [Clients -> Requests]
    /\ late \in SUBSET (Clients \X Files)
    /\ out \in [Clients -> [Files -> SUBSET Copies]]
    /\ done \in [Clients -> SUBSET Files]
    /\ decrypted \in SUBSET Files
    /\ dropped \in SUBSET Files
    /\ kills \in 0..MaxKills

\* The pull API wipes no file before some client has decrypted it, whoever is
\* paired then and however late the request is.
WipedAfterDecrypt == asked \subseteq dropped \cup decrypted

\* However clients displace one another, at most one of them reports a file as
\* its own.
OneOwner == \A f \in Files : Cardinality({c \in Clients : f \in done[c]}) <= 1

\* Whatever is left in an output directory is the beginning of the file, though
\* clients be killed while they decrypt and blobs be wiped while they are sent.
OnlyAuthentic ==
    \A c \in Clients, f \in Files : \A p \in out[c][f] : Blob!Accepted(p)

HasCopy(c, f) == Whole \in out[c][f] \/ (cl[c].file = f /\ Whole \in cl[c].plain)

\* A file that was added and that the web user did not delete exists whole, in
\* the store or decrypted in the output directory of a client.
NoDataLost ==
    \A f \in Files : app[f].at = "done" /\ f \notin dropped =>
        blob[f] = "whole" \/ \E c \in Clients : HasCopy(c, f)

\* A file in the completed store reaches the output directory of a client, unless
\* the web user deletes it first.
PulledEventually ==
    \A f \in Files : app[f].at = "done" ~>
        f \in dropped \/ \E c \in Clients : Whole \in out[c][f]
=============================================================================
