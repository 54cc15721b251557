------------------------------- MODULE LiveHub -------------------------------
(***************************************************************************)
(* Live updates, services/live.py: the hub keeps the set of connected web  *)
(* sockets and its loop pushes snapshots of the whole state to them.  Each *)
(* socket has a handler, the endpoint live_ws, which sends a first snapshot*)
(* and one more for each request of the page.  Loop and handlers run on    *)
(* the event loop; snapshots are built in threads, from jobs and files     *)
(* that change meanwhile.  The hub's lock is never held across an await    *)
(* and changes nothing.                                                    *)
(***************************************************************************)
EXTENDS Naturals, SequencesExt

CONSTANTS
    Sockets,      \* sockets that pages open; one that is gone may be opened again
    MaxVersion    \* bound on the changes of jobs and files

ASSUME SocketsAssumption == IsFiniteSet(Sockets)
ASSUME MaxVersionAssumption == MaxVersion \in Nat \ {0}

VARIABLES
    version,   \* the state of jobs and files
    sock,      \* sock[s]: off, open, stuck (its peer does not read), closed
    conn,      \* conn[s]: where the handler of s stands
    snap,      \* snap[s]: the version its snapshot is of, of its oldest part
    clients,   \* _clients
    loop,      \* where _loop stands
    payload,   \* the version its snapshot is of
    todo,      \* the sockets it has still to send it to
    stale,     \* the ones it could not send it to
    shown      \* shown[s]: the version the page of s was sent last

vars == <<version, sock, conn, snap, clients, loop, payload, todo, stale, shown>>

hubVars == <<clients, loop, payload, todo, stale>>

\* build: awaiting the thread that builds the snapshot, ready: it is back.
\* A loop that is over was cancelled by stop.
ConnPlaces == {"none", "build", "ready", "listen"}
LoopPlaces == {"sleep", "build", "ready", "push", "over"}

Versions == 1..MaxVersion
NoVersion == 0             \* nothing was sent yet, or nothing is being built
Failed == MaxVersion + 1   \* an exception instead of a snapshot

Init ==
    /\ version = 1
    /\ sock = [s \in Sockets |-> "off"]
    /\ conn = [s \in Sockets |-> "none"]
    /\ snap = [s \in Sockets |-> NoVersion]
    /\ clients = {}
    /\ loop = "sleep"
    /\ payload = NoVersion
    /\ todo = <<>>
    /\ stale = {}
    /\ shown = [s \in Sockets |-> NoVersion]

\* What a snapshot that was begun at version v shows in all of its parts: if jobs
\* and files have changed since, the parts that were read first may be older than
\* the present.  Or it is an exception: a job that comes or goes fails the iteration
\* over Store.jobs, a file that goes its stat.
Built(v) == IF version = v THEN {v} ELSE (v..version) \cup {Failed}

-----------------------------------------------------------------------------
(* The world: jobs, pages and the server that holds their connections.     *)

Change ==
    /\ version < MaxVersion
    /\ version' = version + 1
    /\ UNCHANGED <<sock, conn, snap, shown, hubVars>>

Peer(s, from, to) ==
    /\ sock[s] = from
    /\ sock' = [sock EXCEPT ![s] = to]
    /\ UNCHANGED <<version, conn, snap, shown, hubVars>>

Stall(s) == Peer(s, "open", "stuck")
Drain(s) == Peer(s, "stuck", "open")

\* The page goes or the connection breaks.
Close(s) == Peer(s, "open", "closed")

\* A ping of the server is not answered.
PingOut(s) == Peer(s, "stuck", "closed")

-----------------------------------------------------------------------------
(* The handler of a socket.                                                *)

\* The thread of _send_one begins to build.
Ask(s) ==
    /\ conn' = [conn EXCEPT ![s] = "build"]
    /\ snap' = [snap EXCEPT ![s] = version]

\* connect up to its first await of a thread.
Connect(s) ==
    /\ loop # "over" /\ conn[s] = "none" /\ sock[s] = "off"
    /\ s \notin stale \cup ToSet(todo)          \* a new socket
    /\ sock' = [sock EXCEPT ![s] = "open"]
    /\ clients' = clients \cup {s}
    /\ Ask(s)
    /\ UNCHANGED <<version, loop, payload, todo, stale, shown>>

Build(s) ==
    /\ conn[s] = "build"
    /\ \E v \in Built(snap[s]) : snap' = [snap EXCEPT ![s] = v]
    /\ conn' = [conn EXCEPT ![s] = "ready"]
    /\ UNCHANGED <<version, sock, shown, hubVars>>

\* Mutant: _send_one sends whatever the thread returned.
SendOneUncaught(s) ==
    /\ conn[s] = "ready" /\ sock[s] = "open"
    /\ conn' = [conn EXCEPT ![s] = "listen"]
    /\ snap' = [snap EXCEPT ![s] = NoVersion]
    /\ shown' = [shown EXCEPT ![s] = snap[s]]
    /\ UNCHANGED <<version, sock, hubVars>>

\* The rest of _send_one.  A socket that is stuck holds it up; whatever fails
\* takes the socket out of the hub, and listen goes on.
SendOne(s) ==
    /\ conn[s] = "ready" /\ sock[s] # "stuck"
    /\ conn' = [conn EXCEPT ![s] = "listen"]
    /\ snap' = [snap EXCEPT ![s] = NoVersion]
    /\ IF snap[s] # Failed /\ sock[s] = "open"
         THEN /\ shown' = [shown EXCEPT ![s] = snap[s]]
              /\ UNCHANGED clients
         ELSE /\ clients' = clients \ {s}
              /\ UNCHANGED shown
    /\ UNCHANGED <<version, sock, loop, payload, todo, stale>>

\* The page asks for a snapshot: listen calls _send_one.
Refresh(s) ==
    /\ conn[s] = "listen" /\ sock[s] = "open"
    /\ Ask(s)
    /\ UNCHANGED <<version, sock, shown, hubVars>>

\* Mutant: listen does not take its socket out of the hub.
LeaveListed(s) ==
    /\ conn[s] = "listen" /\ sock[s] = "closed"
    /\ conn' = [conn EXCEPT ![s] = "none"]
    /\ sock' = [sock EXCEPT ![s] = "off"]
    /\ shown' = [shown EXCEPT ![s] = NoVersion]
    /\ UNCHANGED <<version, snap, hubVars>>

\* listen receives the disconnect, and its `finally' runs.
Leave(s) ==
    /\ conn[s] = "listen" /\ sock[s] = "closed"
    /\ clients' = clients \ {s}
    /\ conn' = [conn EXCEPT ![s] = "none"]
    /\ sock' = [sock EXCEPT ![s] = "off"]
    /\ shown' = [shown EXCEPT ![s] = NoVersion]
    /\ UNCHANGED <<version, snap, loop, payload, todo, stale>>

-----------------------------------------------------------------------------
(* The loop of the hub.                                                    *)

LoopBegin ==
    /\ loop = "sleep" /\ clients # {}
    /\ loop' = "build"
    /\ payload' = version
    /\ UNCHANGED <<version, sock, conn, snap, clients, todo, stale, shown>>

\* Mutant: an exception ends the loop.
LoopBuildFatal ==
    /\ loop = "build"
    /\ payload' \in Built(payload)
    /\ loop' = IF payload' = Failed THEN "over" ELSE "ready"
    /\ UNCHANGED <<version, sock, conn, snap, clients, todo, stale, shown>>

\* The exception is logged and the loop sleeps.
LoopBuild ==
    /\ loop = "build"
    /\ payload' \in Built(payload)
    /\ loop' = IF payload' = Failed THEN "sleep" ELSE "ready"
    /\ UNCHANGED <<version, sock, conn, snap, clients, todo, stale, shown>>

\* The list of clients is copied, in the order of the set.
LoopCopy ==
    /\ loop = "ready"
    /\ loop' = "push"
    /\ todo' \in SetToSeqs(clients)
    /\ UNCHANGED <<version, sock, conn, snap, clients, payload, stale, shown>>

\* The next socket of the list; a stuck one holds up the whole broadcast, one
\* that is gone is put aside.
PushExcept(broken) ==
    /\ loop = "push" /\ todo # <<>>
    /\ LET s == Head(todo)
       IN  /\ sock[s] # "stuck"
           /\ IF sock[s] = "open" /\ s \notin broken
                THEN /\ shown' = [shown EXCEPT ![s] = payload]
                     /\ UNCHANGED stale
                ELSE /\ stale' = stale \cup {s}
                     /\ UNCHANGED shown
    /\ todo' = Tail(todo)
    /\ UNCHANGED <<version, sock, conn, snap, clients, loop, payload>>

\* Mutant: a second send fails while the handler of the socket is sending.
PushExclusive == PushExcept({s \in Sockets : conn[s] = "ready"})

Push == PushExcept({})

\* The stale sockets are taken out of the hub, and the loop sleeps.
Pushed ==
    /\ loop = "push" /\ todo = <<>>
    /\ clients' = clients \ stale
    /\ stale' = {}
    /\ payload' = NoVersion
    /\ loop' = "sleep"
    /\ UNCHANGED <<version, sock, conn, snap, todo, shown>>

\* stop, at the end of the process: the server has closed its connections and
\* waited for their handlers.  The loop is cancelled wherever it stands.
Stop ==
    /\ loop # "over" /\ \A s \in Sockets : conn[s] = "none"
    /\ loop' = "over"
    /\ todo' = <<>> /\ stale' = {} /\ clients' = {} /\ payload' = NoVersion
    /\ UNCHANGED <<version, sock, conn, snap, shown>>

-----------------------------------------------------------------------------
Handler(s) == Connect(s) \/ Build(s) \/ SendOne(s) \/ Refresh(s) \/ Leave(s)

Loop == LoopBegin \/ LoopBuild \/ LoopCopy \/ Push \/ Pushed

Next ==
    \/ Change
    \/ \E s \in Sockets : Stall(s) \/ Drain(s) \/ Close(s) \/ PingOut(s) \/ Handler(s)
    \/ Loop \/ Stop

Spec == Init /\ [][Next]_vars

(* Threads end, the event loop resumes what is due, and the server closes  *)
(* a connection whose peer does not answer its pings.  A send that waits   *)
(* for its peer goes on when the peer reads, be it for a moment: strong    *)
(* fairness.  Nobody has to open a page, to ask for a refresh or to stop.  *)
Fairness ==
    /\ \A s \in Sockets :
        /\ WF_vars(Build(s)) /\ SF_vars(SendOne(s)) /\ WF_vars(Leave(s))
        /\ WF_vars(Drain(s) \/ PingOut(s))
    /\ WF_vars(LoopBegin) /\ WF_vars(LoopBuild) /\ WF_vars(LoopCopy)
    /\ SF_vars(Push) /\ WF_vars(Pushed)

FairSpec == Spec /\ Fairness

-----------------------------------------------------------------------------
(* Properties.                                                             *)

\* Every variable has its type; in particular no page is ever sent the result
\* of a build that failed.
TypeOK ==
    /\ version \in Versions
    /\ sock \in [Sockets -> {"off", "open", "stuck", "closed"}]
    /\ conn \in [Sockets -> ConnPlaces]
    /\ snap \in [Sockets -> Versions \cup {NoVersion, Failed}]
    /\ clients \in SUBSET Sockets
    /\ loop \in LoopPlaces
    /\ payload \in Versions \cup {NoVersion, Failed}
    /\ todo \in Seq(Sockets)
    /\ stale \in SUBSET Sockets
    /\ shown \in [Sockets -> Versions \cup {NoVersion}]

\* A socket in the hub has a handler that will take it out: the loop, which
\* goes on with a list of clients that is out of date, keeps none that is gone.
GoneLeaves == \A s \in clients : conn[s] # "none"

\* An open socket leaves the hub for one reason only, a snapshot of its own
\* handler that could not be built: not by a failed broadcast, by the troubles
\* of another page, nor because an earlier connection was found gone.
OnlyFailuresDrop ==
    [][\A s \in clients \ clients' :
          sock[s] = "open" => conn[s] = "ready" /\ snap[s] = Failed]_vars

Current(s) == shown[s] = version

\* A page that is in the hub gets to see the present state, whatever snapshots
\* failed, were mixed of two states, came late or overtook one another, and whoever else is stuck.
EventuallyCurrent ==
    \A s \in Sockets :
        s \in clients /\ ~Current(s) ~> Current(s) \/ s \notin clients

\* "Always push while clients are connected for smooth speed graphs" (comment
\* of _loop): a page with an open socket gets to see the present state.
ConnectedIsPushed ==
    \A s \in Sockets :
        sock[s] = "open" /\ ~Current(s) ~> Current(s) \/ sock[s] # "open"
=============================================================================
