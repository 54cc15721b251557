---------------------------- MODULE LiveHubProofs ----------------------------
(***************************************************************************)
(* The hub's book-keeping, for any number of pages: who is in the hub, and *)
(* who is taken out of it.                                                 *)
(***************************************************************************)
EXTENDS LiveHub, FiniteSetTheorems, TLAPS

\* What the loop has put aside is gone for good: the same socket does not come
\* back while its name is on the list.
StaleIsGone == \A s \in stale : sock[s] \in {"off", "closed"}

\* A failed build is not pushed.
PushesState == loop \in {"ready", "push"} => payload \in Versions \cup {NoVersion}

Inv == TypeOK /\ GoneLeaves /\ StaleIsGone /\ PushesState

\* The list of clients, in whatever order the set is iterated.
LEMMA CopyType ==
    ASSUME NEW S \in SUBSET Sockets, NEW q \in SetToSeqs(S)
    PROVE  q \in Seq(Sockets)
<1>1. Cardinality(S) \in Nat
  BY SocketsAssumption, FS_Subset, FS_CardinalityType
<1>2. q \in [1..Cardinality(S) -> S]
  BY DEF SetToSeqs
<1> QED
  BY <1>1, <1>2

\* A build is of some version, or failed.
LEMMA BuiltType ==
    ASSUME version \in Versions, NEW v \in Versions \cup {NoVersion, Failed}, NEW b \in Built(v)
    PROVE  b \in Versions \cup {NoVersion, Failed}
<1>1. CASE b \in {v, Failed}
  BY <1>1
<1>2. CASE b \in v..version
  <2>1. /\ MaxVersion \in Nat /\ version \in 1..MaxVersion
        /\ v \in 0..(MaxVersion + 1)
    BY MaxVersionAssumption DEF Versions, NoVersion, Failed
  <2>2. b \in 0..MaxVersion
    BY <1>2, <2>1
  <2> QED BY <2>1, <2>2 DEF Versions, NoVersion
<1> QED BY <1>1, <1>2 DEF Built

-----------------------------------------------------------------------------
\* The world changes the state of connections and the version only.
LEMMA WorldStep ==
    ASSUME Inv, Change \/ \E s \in Sockets : Stall(s) \/ Drain(s) \/ Close(s) \/ PingOut(s)
    PROVE  Inv'
<1> USE DEF Inv, hubVars
<1>1. CASE Change
  <2>1. version' \in Versions
    BY <1>1, MaxVersionAssumption DEF Change, TypeOK, Versions
  <2> QED
    BY <1>1, <2>1 DEF Change, TypeOK, GoneLeaves, StaleIsGone, PushesState
<1>2. ASSUME NEW s \in Sockets, Stall(s) \/ Drain(s) \/ Close(s) \/ PingOut(s)
      PROVE  Inv'
  <2>1. /\ sock[s] \in {"open", "stuck"}
        /\ \E to \in {"open", "stuck", "closed"} : sock' = [sock EXCEPT ![s] = to]
        /\ UNCHANGED <<version, conn, snap, shown, hubVars>>
    BY <1>2 DEF Stall, Drain, Close, PingOut, Peer
  <2>2. TypeOK' /\ GoneLeaves' /\ PushesState'
    BY <2>1 DEF TypeOK, GoneLeaves, PushesState
  <2>3. s \notin stale
    BY <2>1 DEF StaleIsGone
  <2> QED
    BY <2>1, <2>2, <2>3 DEF TypeOK, StaleIsGone
<1> QED
  BY <1>1, <1>2

\* A handler enters its own socket into the hub and takes it out at its end.
LEMMA HandlerStep ==
    ASSUME Inv, NEW s \in Sockets, Handler(s)
    PROVE  Inv'
<1> USE DEF Inv, hubVars, ConnPlaces
<1>1. CASE Connect(s)
  <2>1. TypeOK'
    BY <1>1 DEF Connect, Ask, TypeOK
  <2> QED
    BY <1>1, <2>1 DEF Connect, Ask, TypeOK, GoneLeaves, StaleIsGone, PushesState
<1>2. CASE Build(s)
  <2>1. PICK v \in Built(snap[s]) : snap' = [snap EXCEPT ![s] = v]
    BY <1>2 DEF Build
  <2>2. v \in Versions \cup {NoVersion, Failed}
    BY <2>1, BuiltType DEF TypeOK
  <2>3. TypeOK'
    BY <1>2, <2>1, <2>2 DEF Build, TypeOK
  <2> QED
    BY <1>2, <2>3 DEF Build, TypeOK, GoneLeaves, StaleIsGone, PushesState
<1>3. CASE SendOne(s)
  <2>1. TypeOK'
    <3>1. snap[s] # Failed => snap[s] \in Versions \cup {NoVersion}
      BY DEF TypeOK
    <3>2. shown' \in [Sockets -> Versions \cup {NoVersion}]
      BY <1>3, <3>1 DEF SendOne, TypeOK
    <3> QED
      BY <1>3, <3>2 DEF SendOne, TypeOK
  <2> QED
    BY <1>3, <2>1 DEF SendOne, TypeOK, GoneLeaves, StaleIsGone, PushesState
<1>4. CASE Refresh(s)
  <2>1. TypeOK'
    BY <1>4 DEF Refresh, Ask, TypeOK
  <2> QED
    BY <1>4, <2>1 DEF Refresh, Ask, TypeOK, GoneLeaves, StaleIsGone, PushesState
<1>5. CASE Leave(s)
  <2>1. TypeOK'
    BY <1>5 DEF Leave, TypeOK
  <2> QED
    BY <1>5, <2>1 DEF Leave, TypeOK, GoneLeaves, StaleIsGone, PushesState
<1> QED
  BY <1>1, <1>2, <1>3, <1>4, <1>5 DEF Handler

\* The loop takes sockets out of the hub only; it never enters one.
LEMMA LoopStep ==
    ASSUME Inv, Loop \/ Stop
    PROVE  Inv'
<1> USE DEF Inv, LoopPlaces
<1>1. CASE LoopBegin
  BY <1>1 DEF LoopBegin, TypeOK, GoneLeaves, StaleIsGone, PushesState
<1>2. CASE LoopBuild
  <2>1. /\ payload' \in Versions \cup {NoVersion, Failed}
        /\ loop' = "ready" => payload' # Failed
    BY <1>2, BuiltType DEF LoopBuild, TypeOK
  <2> QED
    BY <1>2, <2>1 DEF LoopBuild, TypeOK, GoneLeaves, StaleIsGone, PushesState
<1>3. CASE LoopCopy
  <2>1. todo' \in Seq(Sockets)
    BY <1>3, CopyType DEF LoopCopy, TypeOK
  <2> QED
    BY <1>3, <2>1 DEF LoopCopy, TypeOK, GoneLeaves, StaleIsGone, PushesState
<1>4. CASE Push
  <2> DEFINE s == Head(todo)
  <2>1. s \in Sockets /\ todo' \in Seq(Sockets) /\ sock[s] # "stuck"
    BY <1>4 DEF Push, PushExcept, TypeOK
  <2>2. UNCHANGED <<version, sock, conn, snap, clients, loop, payload>>
    BY <1>4 DEF Push, PushExcept
  <2>3. \/ shown' = [shown EXCEPT ![s] = payload] /\ UNCHANGED stale
        \/ sock[s] # "open" /\ stale' = stale \cup {s} /\ UNCHANGED shown
    BY <1>4 DEF Push, PushExcept
  <2>4. CASE stale' = stale \cup {s} /\ sock[s] # "open" /\ UNCHANGED shown
    BY <2>1, <2>2, <2>4 DEF TypeOK, GoneLeaves, StaleIsGone, PushesState
  <2>5. CASE shown' = [shown EXCEPT ![s] = payload] /\ UNCHANGED stale
    <3>1. payload \in Versions \cup {NoVersion}
      BY <1>4 DEF Push, PushExcept, PushesState
    <3> QED
      BY <2>1, <2>2, <2>5, <3>1 DEF TypeOK, GoneLeaves, StaleIsGone, PushesState
  <2> QED
    BY <2>3, <2>4, <2>5
<1>5. CASE Pushed
  BY <1>5 DEF Pushed, TypeOK, GoneLeaves, StaleIsGone, PushesState
<1>6. CASE Stop
  <2>1. todo' = <<>> /\ clients' = {} /\ stale' = {}
    BY <1>6 DEF Stop
  <2> QED
    BY <1>6, <2>1 DEF Stop, TypeOK, GoneLeaves, StaleIsGone, PushesState
<1> QED
  BY <1>1, <1>2, <1>3, <1>4, <1>5, <1>6 DEF Loop

\* Every step keeps the invariant.
LEMMA InvStep ==
    ASSUME Inv, [Next]_vars
    PROVE  Inv'
<1>1. CASE UNCHANGED vars
  BY <1>1 DEF vars, Inv, TypeOK, GoneLeaves, StaleIsGone, PushesState
<1> QED
  BY <1>1, WorldStep, HandlerStep, LoopStep DEF Next

\* The invariant holds in every reachable state.
LEMMA InvHolds == Spec => []Inv
<1>1. Init => Inv
  BY MaxVersionAssumption DEF Init, Inv, TypeOK, GoneLeaves, StaleIsGone, PushesState,
     Versions, NoVersion, ConnPlaces, LoopPlaces
<1>2. Inv /\ [Next]_vars => Inv'
  BY InvStep
<1> QED
  BY <1>1, <1>2, PTL DEF Spec

-----------------------------------------------------------------------------
\* Every variable keeps its type: no page is sent the result of a failed build.
THEOREM TypeCorrect == Spec => []TypeOK
<1>1. Inv => TypeOK
  BY DEF Inv
<1> QED
  BY <1>1, InvHolds, PTL

\* Nobody who is gone stays in the hub.
THEOREM GoneLeavesHolds == Spec => []GoneLeaves
<1>1. Inv => GoneLeaves
  BY DEF Inv
<1> QED
  BY <1>1, InvHolds, PTL

\* A step that takes the open socket s out of the hub is SendOne(s) with a
\* snapshot that could not be built.
LEMMA DropStep ==
    ASSUME Inv, [Next]_vars, NEW s \in clients \ clients', sock[s] = "open"
    PROVE  conn[s] = "ready" /\ snap[s] = Failed
<1>1. ASSUME NEW r \in Sockets, Handler(r)
      PROVE  conn[s] = "ready" /\ snap[s] = Failed
  <2>1. CASE SendOne(r)
    BY <2>1 DEF SendOne
  <2>2. CASE Leave(r)
    BY <2>2 DEF Leave
  <2>3. CASE Connect(r) \/ Build(r) \/ Refresh(r)
    BY <2>3 DEF Connect, Build, Refresh, hubVars
  <2> QED
    BY <1>1, <2>1, <2>2, <2>3 DEF Handler
<1>2. ASSUME Loop
      PROVE  FALSE
  <2>1. CASE Pushed
    BY <2>1 DEF Pushed, Inv, StaleIsGone
  <2>2. CASE LoopBegin \/ LoopBuild \/ LoopCopy \/ Push
    BY <2>2 DEF LoopBegin, LoopBuild, LoopCopy, Push, PushExcept
  <2> QED
    BY <1>2, <2>1, <2>2 DEF Loop
<1>3. ASSUME Stop
      PROVE  FALSE
  BY <1>3 DEF Stop, Inv, TypeOK, GoneLeaves
<1>4. ASSUME Change \/ (\E r \in Sockets : Stall(r) \/ Drain(r) \/ Close(r) \/ PingOut(r))
               \/ UNCHANGED vars
      PROVE  FALSE
  BY <1>4 DEF Change, Stall, Drain, Close, PingOut, Peer, hubVars, vars
<1> QED
  BY <1>1, <1>2, <1>3, <1>4 DEF Next

\* An open socket leaves the hub only through a failed build of its own handler.
THEOREM OnlyFailuresDropHolds == Spec => OnlyFailuresDrop
<1>1. Inv /\ [Next]_vars
        => [\A s \in clients \ clients' :
              sock[s] = "open" => conn[s] = "ready" /\ snap[s] = Failed]_vars
  BY DropStep
<1> QED
  BY <1>1, InvHolds, PTL DEF Spec, OnlyFailuresDrop
=============================================================================
