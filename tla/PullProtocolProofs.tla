------------------------- MODULE PullProtocolProofs -------------------------
(***************************************************************************)
(* Theorems about PullProtocol, for any number of files, clients, deleters *)
(* and chunks and every bound on faults and kills; those that need more    *)
(* say so.                                                                 *)
(***************************************************************************)
EXTENDS PullProtocol, CompletedStoreProofs, FiniteSetTheorems, Sequences

-----------------------------------------------------------------------------
(* Blobs.                                                                  *)

\* What encrypt_file makes of n chunks: chunk i at place i, and all of it opens.
LEMMA SealedBlob ==
    ASSUME NEW n \in Nat
    PROVE  /\ Blob!Sealed(n) \in Seq(Nat) /\ Len(Blob!Sealed(n)) = n
           /\ DOMAIN Blob!Sealed(n) = 1..n
           /\ \A i \in 1..n : Blob!Sealed(n)[i] = i
           /\ Blob!Accepted(Blob!Sealed(n))
<1>1. /\ Blob!Sealed(n) \in Seq(Nat) /\ Len(Blob!Sealed(n)) = n
      /\ DOMAIN Blob!Sealed(n) = 1..n
      /\ \A i \in 1..n : Blob!Sealed(n)[i] = i
  BY DEF Blob!Sealed
<1> QED BY <1>1 DEF Blob!Accepted, Blob!Opens

\* The beginnings of the file are among the copies a client may get.
LEMMA BeginningIsCopy ==
    ASSUME NEW n \in 0..Chunks
    PROVE  Blob!Sealed(n) \in Copies
<1>1. CASE n = Chunks
  BY <1>1 DEF Copies, Whole
<1>2. CASE n # Chunks
  <2>1. n \in 0..(Chunks - 1)
    BY <1>2, PullAssumption
  <2> QED BY <2>1 DEF Copies, Blob!Cut
<1> QED BY <1>1, <1>2

\* A copy is a beginning of the file, with an unreadable chunk at its end if it
\* is spoilt.
LEMMA CopyShape ==
    ASSUME NEW b \in Copies
    PROVE  \E n \in 0..Chunks : \/ b = Blob!Sealed(n)
                               \/ (n < Chunks /\ b = Append(Blob!Sealed(n), Blob!Damaged))
<1> Chunks \in Nat \ {0}
  BY PullAssumption
<1>1. CASE b = Whole
  BY <1>1 DEF Whole
<1>2. CASE b \in Blob!Cut(Chunks)
  <2>1. PICK n \in 0..(Chunks - 1) : b = Blob!Sealed(n)
    BY <1>2, Zenon DEF Blob!Cut
  <2> QED BY <2>1
<1>3. CASE b \in Blob!Spoilt(Chunks)
  <2>1. PICK c \in Blob!Cut(Chunks) : b = Append(c, Blob!Damaged)
    BY <1>3, Zenon DEF Blob!Spoilt
  <2>2. PICK n \in 0..(Chunks - 1) : c = Blob!Sealed(n)
    BY Zenon DEF Blob!Cut
  <2> QED BY <2>1, <2>2
<1> QED BY <1>1, <1>2, <1>3 DEF Copies

\* decrypt_file reads a copy up to where it stops being the file.
LEMMA ReadableLen ==
    ASSUME NEW b \in Copies
    PROVE  \E n \in 0..Chunks :
              /\ b \in Seq(Nat) /\ n \in 0..Len(b)
              /\ \A i \in 1..n : Blob!Opens(b, i)
              /\ n < Len(b) => ~Blob!Opens(b, n + 1) /\ ~Blob!Accepted(b)
              /\ n = Len(b) => b = Blob!Sealed(n)
<1> Chunks \in Nat \ {0}
  BY PullAssumption
<1>1. PICK n \in 0..Chunks : \/ b = Blob!Sealed(n)
                             \/ (n < Chunks /\ b = Append(Blob!Sealed(n), Blob!Damaged))
  BY CopyShape
<1>2. CASE b = Blob!Sealed(n)
  <2>1. b \in Seq(Nat) /\ Len(b) = n /\ \A i \in 1..n : b[i] = i
    BY <1>2, SealedBlob
  <2> QED BY <1>2, <2>1 DEF Blob!Opens
<1>3. CASE b = Append(Blob!Sealed(n), Blob!Damaged)
  <2> DEFINE c == Blob!Sealed(n)
  <2>0. c \in Seq(Nat) /\ Len(c) = n /\ \A i \in 1..n : c[i] = i
    BY SealedBlob
  <2> HIDE DEF c
  <2>1. /\ b \in Seq(Nat) /\ Len(b) = n + 1 /\ b[n + 1] = 0
        /\ \A i \in 1..n : b[i] = i
    <3>1. b = Append(c, 0)
      BY <1>3 DEF c, Blob!Damaged
    <3> QED BY <2>0, <3>1
  <2>2. ~Blob!Opens(b, n + 1) /\ n + 1 \in DOMAIN b
    BY <2>1 DEF Blob!Opens
  <2>3. ~Blob!Accepted(b)
    BY <2>2 DEF Blob!Accepted
  <2>4. \A i \in 1..n : Blob!Opens(b, i)
    BY <2>1 DEF Blob!Opens
  <2>5. n \in 0..Len(b) /\ n # Len(b)
    BY <2>1
  <2> QED BY <2>1, <2>2, <2>3, <2>4, <2>5, Zenon
<1> QED BY <1>1, <1>2, <1>3

\* What is written is a beginning of the file, all of the copy if no chunk of it
\* fails.
LEMMA PlainIsBeginning ==
    ASSUME NEW b \in Copies
    PROVE  /\ \E n \in 0..Chunks : /\ Blob!Plain(b) = Blob!Sealed(n)
                                  /\ b \in Seq(Nat) /\ n \in 0..Len(b)
                                  /\ \A i \in 1..n : b[i] = i
           /\ Blob!Accepted(b) => Blob!Plain(b) = b
<1> Chunks \in Nat \ {0}
  BY PullAssumption
<1> DEFINE Stop(k) == /\ \A i \in 1..k : Blob!Opens(b, i)
                      /\ k < Len(b) => ~Blob!Opens(b, k + 1)
           stop == CHOOSE k \in 0..Len(b) : Stop(k)
<1>1. PICK n \in 0..Chunks :
              /\ b \in Seq(Nat) /\ n \in 0..Len(b)
              /\ \A i \in 1..n : Blob!Opens(b, i)
              /\ n < Len(b) => ~Blob!Opens(b, n + 1) /\ ~Blob!Accepted(b)
              /\ n = Len(b) => b = Blob!Sealed(n)
  BY ReadableLen
<1>2. stop \in 0..Len(b) /\ Stop(stop)
  <2>1. \E k \in 0..Len(b) : Stop(k)
    BY <1>1
  <2> QED BY <2>1
<1>3. stop = n
  <2>1. Len(b) \in Nat
    BY <1>1
  <2>2. ~(stop < n)
    BY <1>1, <1>2, <2>1
  <2>3. ~(n < stop)
    BY <1>1, <1>2, <2>1
  <2> QED BY <1>1, <1>2, <2>1, <2>2, <2>3
<1>4. Blob!Plain(b) = SubSeq(b, 1, n)
  BY <1>3 DEF Blob!Plain
<1>5. SubSeq(b, 1, n) = Blob!Sealed(n)
  BY <1>1 DEF Blob!Opens, Blob!Sealed
<1>6. Blob!Accepted(b) => n = Len(b)
  BY <1>1
<1>7. \A i \in 1..n : b[i] = i
  BY <1>1 DEF Blob!Opens
<1> QED BY <1>1, <1>4, <1>5, <1>6, <1>7

\* So is what a killed client leaves of it.
LEMMA SoFarIsBeginning ==
    ASSUME NEW b \in Copies, NEW p \in Blob!PlainSoFar(b)
    PROVE  \E n \in 0..Chunks : p = Blob!Sealed(n)
<1> Chunks \in Nat \ {0}
  BY PullAssumption
<1>1. PICK n \in 0..Chunks : /\ Blob!Plain(b) = Blob!Sealed(n)
                             /\ b \in Seq(Nat) /\ n \in 0..Len(b)
                             /\ \A i \in 1..n : b[i] = i
  BY PlainIsBeginning
<1>2. Len(Blob!Plain(b)) = n
  BY <1>1, SealedBlob
<1>3. PICK k \in 0..n : p = SubSeq(b, 1, k)
  BY <1>2 DEF Blob!PlainSoFar
<1>4. p = Blob!Sealed(k)
  BY <1>1, <1>3 DEF Blob!Sealed
<1> QED BY <1>4

\* A blob that was overwritten before its unlink opens nowhere; the whole blob is
\* among the copies.
LEMMA WipedIsCopy == Blob!Wiped \in Blob!Spoilt(Chunks) /\ Whole \in Copies
<1> Chunks \in Nat \ {0}
  BY PullAssumption
<1>1. Blob!Wiped = Append(Blob!Sealed(0), Blob!Damaged)
  BY DEF Blob!Wiped, Blob!Sealed
<1>2. Blob!Sealed(0) \in Blob!Cut(Chunks)
  BY DEF Blob!Cut
<1> QED BY <1>1, <1>2, Zenon DEF Blob!Spoilt, Copies

-----------------------------------------------------------------------------
(* Types, and what a client has to show for where it stands.               *)

Plaintexts == {{}} \cup {{b} : b \in Copies}

ClientState == [at : ClientPlaces, file : Files \cup {Nothing}, todo : SUBSET Files,
                got : Copies, plain : Plaintexts]

Busy(c) == cl[c].at \in {"fetch", "decrypt", "delete", "reply"}

\* A client asks for the deletion of what it has decrypted, and of nothing else.
ClientOK(c) ==
    /\ Busy(c) => cl[c].file \in Files
    /\ cl[c].at \in {"delete", "reply"} => cl[c].file \in decrypted
    /\ req[c] # "none" => cl[c].at = "reply"
    /\ \A p \in cl[c].plain : Blob!Accepted(p)

ClientInv ==
    /\ \A c \in Clients : ClientOK(c)
    /\ \A c \in Clients, f \in Files : <<c, f>> \in late => f \in decrypted

\* The types of clients and requests, in the form in which the steps use them.
LEMMA ClientsTyped ==
    ASSUME PullTypeOK
    PROVE  cl \in [Clients -> ClientState] /\ req \in [Clients -> Requests]
BY DEF PullTypeOK, ClientState, Plaintexts

\* At the start no client runs.
LEMMA PullInitInv == PullInit => PullTypeOK /\ ClientInv
<1> SUFFICES ASSUME PullInit PROVE PullTypeOK /\ ClientInv
  OBVIOUS
<1>1. StoreTypeOK
  BY TypeInit DEF PullInit
<1>2. cl \in [Clients -> ClientState]
  BY WipedIsCopy DEF PullInit, Off, ClientState, ClientPlaces, Plaintexts
<1>3. PullTypeOK
  BY <1>1, <1>2, PullAssumption DEF PullInit, PullTypeOK, ClientState, Plaintexts, Requests
<1>4. ClientInv
  BY DEF PullInit, ClientInv, ClientOK, Busy, Off
<1> QED BY <1>3, <1>4

\* A client that has nothing in its hands, wherever it stands.
LEMMA OffTyped ==
    ASSUME NEW place \in ClientPlaces, NEW files \in SUBSET Files
    PROVE  /\ Off \in ClientState
           /\ [Off EXCEPT !.at = place, !.todo = files] \in ClientState
BY WipedIsCopy DEF Off, ClientState, ClientPlaces, Plaintexts

\* The client goes on with the next file, and has nothing in its hands.
LEMMA GiveUpEffect ==
    ASSUME PullTypeOK, NEW c \in Clients, GiveUp(c)
    PROVE  /\ cl' \in [Clients -> ClientState]
           /\ cl'[c].at = "next" /\ cl'[c].file = Nothing /\ cl'[c].plain = {}
           /\ \A e \in Clients : e # c => cl'[e] = cl[e]
<1>1. [Off EXCEPT !.at = "next", !.todo = cl[c].todo] \in ClientState
  BY OffTyped DEF PullTypeOK, ClientPlaces
<1> QED BY <1>1 DEF GiveUp, PullTypeOK, ClientState, Plaintexts, Off

\* Every step is one of the store, or leaves it alone.
LEMMA PullStoreStep ==
    ASSUME ClientInv, [PullNext]_pull
    PROVE  [StoreNext]_store
<1>1. CASE UNCHANGED pull
  BY <1>1 DEF pull, store
<1>2. ASSUME NEW c \in Clients, ServeDelete(c) PROVE [StoreNext]_store
  <2>1. cl[c].file \in Files
    BY <1>2 DEF ServeDelete, ClientInv, ClientOK, Busy
  <2> QED BY <1>2, <2>1, PullAssumption DEF ServeDelete, StoreNext
<1>3. ASSUME NEW c \in Clients, NEW f \in Files, ServeLate(c, f) PROVE [StoreNext]_store
  BY <1>3, PullAssumption DEF ServeLate, StoreNext
<1>4. ASSUME NEW c \in Clients,
             \/ List(c) \/ Relist(c) \/ Fetched(c) \/ Decrypt(c) \/ AskDelete(c)
             \/ Done(c) \/ Refused(c) \/ \E f \in Files : Fetch(c, f)
             \/ FetchLost(c) \/ TimedOut(c) \/ Kill(c)
             \/ \E override \in BOOLEAN : Start(c, override)
      PROVE  UNCHANGED store
  BY <1>4 DEF List, Relist, Fetched, Decrypt, AskDelete, Done, Refused, Fetch, FetchLost,
     TimedOut, Kill, Start
<1>5. CASE ServeStep
  BY <1>5, PullAssumption DEF ServeStep, StoreNext, Deletion
<1>6. ASSUME NEW f \in Files, Adds(f) PROVE [StoreNext]_store
  BY <1>6 DEF Adds, StoreNext
<1>7. ASSUME NEW d \in Deleters, WebStep(d) \/ WebFails(d) \/ \E f \in Files : WebDelete(d, f)
      PROVE  [StoreNext]_store
  BY <1>7 DEF WebStep, WebFails, WebDelete, StoreNext
<1>8. CASE ServerCrash
  BY <1>8 DEF ServerCrash, StoreNext
<1>9. CASE ServeFails
  BY <1>9, PullAssumption DEF ServeFails, StoreNext
<1> QED
  BY <1>1, <1>2, <1>3, <1>4, <1>5, <1>6, <1>7, <1>8, <1>9 DEF PullNext, ClientStep

\* What a step of client c does not touch.
LEMMA OtherClient ==
    ASSUME ClientInv, NEW c \in Clients, decrypted \subseteq decrypted',
           cl'[c] = cl[c], req'[c] \in {req[c], "none"}
    PROVE  ClientOK(c)'
BY DEF ClientInv, ClientOK, Busy

\* A step of client c that keeps the types and what c has to show, and leaves
\* the other clients alone.
LEMMA OneClientStep ==
    ASSUME PullTypeOK, ClientInv, StoreTypeOK', NEW c \in Clients,
           cl' \in [Clients -> ClientState], \A e \in Clients : e # c => cl'[e] = cl[e],
           NEW r \in Requests, req' = [req EXCEPT ![c] = r],
           ClientOK(c)',
           \/ late' \subseteq late
           \/ cl[c].at = "reply" /\ late' = late \cup {<<c, cl[c].file>>},
           decrypted \subseteq decrypted', decrypted' \in SUBSET Files,
           paired' \in {c, paired}, out' \in [Clients -> [Files -> SUBSET Copies]],
           done' \in [Clients -> SUBSET Files], dropped' = dropped, kills' \in 0..MaxKills
    PROVE  PullTypeOK' /\ ClientInv'
<1>1. \A e \in Clients : ClientOK(e)'
  BY OtherClient DEF PullTypeOK
<1>2. \A e \in Clients, f \in Files : <<e, f>> \in late' => f \in decrypted'
  <2>1. CASE late' \subseteq late
    BY <2>1 DEF ClientInv
  <2>2. CASE cl[c].at = "reply" /\ late' = late \cup {<<c, cl[c].file>>}
    BY <2>2 DEF ClientInv, ClientOK
  <2> QED BY <2>1, <2>2
<1>3. late' \in SUBSET (Clients \X Files)
  <2>1. cl[c].at = "reply" => cl[c].file \in Files
    BY DEF ClientInv, ClientOK, Busy
  <2> QED BY <2>1 DEF PullTypeOK
<1>4. req' \in [Clients -> Requests]
  BY DEF PullTypeOK
<1> QED BY <1>1, <1>2, <1>3, <1>4 DEF PullTypeOK, ClientInv, ClientState, Plaintexts

\* What a killed client leaves in its output directory.
LEMMA KillLeaves ==
    ASSUME PullTypeOK, ClientInv, NEW c \in Clients, Kill(c)
    PROVE  /\ out' \in [Clients -> [Files -> SUBSET Copies]]
           /\ \A e \in Clients, f \in Files : out[e][f] \subseteq out'[e][f]
           /\ \A e \in Clients, f \in Files : \A p \in out'[e][f] :
                 p \in out[e][f] \/ Blob!Accepted(p)
<1> cl[c] \in ClientState
  BY ClientsTyped
<1>1. PICK left \in {cl[c].plain} \cup
             (IF cl[c].at = "decrypt" THEN {{p} : p \in Blob!PlainSoFar(cl[c].got)} ELSE {}) :
          out' = [out EXCEPT ![c] = [f \in Files |->
                    IF f = cl[c].file THEN @[f] \cup left ELSE @[f]]]
  BY DEF Kill
<1>2. left \in SUBSET Copies /\ \A p \in left : Blob!Accepted(p)
  <2>1. CASE left = cl[c].plain
    BY <2>1 DEF ClientInv, ClientOK, ClientState, Plaintexts
  <2>2. CASE left \in {{p} : p \in Blob!PlainSoFar(cl[c].got)}
    <3>1. PICK p \in Blob!PlainSoFar(cl[c].got) : left = {p}
      BY <2>2
    <3>2. PICK n \in 0..Chunks : p = Blob!Sealed(n)
      BY SoFarIsBeginning DEF ClientState
    <3>3. n \in Nat
      BY PullAssumption
    <3> QED BY <3>1, <3>2, <3>3, BeginningIsCopy, SealedBlob
  <2> QED BY <2>1, <2>2
<1>3. out' = [out EXCEPT ![c] = [f \in Files |->
                    IF f = cl[c].file THEN out[c][f] \cup left ELSE out[c][f]]]
  BY <1>1
<1> QED BY <1>2, <1>3 DEF PullTypeOK

\* Every step of clients, network, server and threads preserves the types and
\* what a client has to show.
LEMMA PullInvStep ==
    ASSUME PullTypeOK, ClientInv, StoreTypeOK', [PullNext]_pull
    PROVE  PullTypeOK' /\ ClientInv'
<1> cl \in [Clients -> ClientState] /\ req \in [Clients -> Requests]
  BY ClientsTyped
<1> DEFINE Good == PullTypeOK' /\ ClientInv'
<1> USE DEF Requests
<1>1. CASE UNCHANGED pull
  BY <1>1 DEF pull, store, client, PullTypeOK, ClientInv, ClientOK, Busy
<1>2. ASSUME NEW c \in Clients, cl' \in [Clients -> ClientState],
             \A e \in Clients : e # c => cl'[e] = cl[e], ClientOK(c)',
             UNCHANGED <<req, late, out, done, decrypted, dropped, kills>>,
             paired' \in {c, paired}
      PROVE  Good
  <2>1. req' = [req EXCEPT ![c] = req[c]] /\ req[c] \in Requests
    BY <1>2 DEF PullTypeOK
  <2> HIDE DEF Requests
  <2> QED BY <1>2, <2>1, OneClientStep DEF PullTypeOK
<1>3. ASSUME NEW c \in Clients, NEW override \in BOOLEAN, Start(c, override) PROVE Good
  <2>1. cl' \in [Clients -> ClientState] /\ \A e \in Clients : e # c => cl'[e] = cl[e]
    BY <1>3 DEF Start, ClientState, ClientPlaces
  <2>2. /\ cl'[c].at \in {"off", "list"} /\ cl'[c].plain = cl[c].plain
        /\ req'[c] = req[c] /\ cl[c].at = "off"
    BY <1>3 DEF Start, ClientState
  <2>3. ClientOK(c)'
    BY <2>2 DEF ClientInv, ClientOK, Busy
  <2> QED BY <1>2, <1>3, <2>1, <2>3 DEF Start
<1>4. ASSUME NEW c \in Clients, List(c) PROVE Good
  <2>1. main \cap Files \in SUBSET Files
    OBVIOUS
  <2>2. cl' \in [Clients -> ClientState] /\ \A e \in Clients : e # c => cl'[e] = cl[e]
    <3>1. cl' = [cl EXCEPT ![c] = [@ EXCEPT !.at = "next", !.todo = main \cap Files]]
      BY <1>4 DEF List
    <3>2. [cl[c] EXCEPT !.at = "next", !.todo = main \cap Files] \in ClientState
      BY <2>1 DEF ClientState, ClientPlaces
    <3> QED BY <3>1, <3>2
  <2>3. /\ cl'[c].at = "next" /\ cl'[c].plain = cl[c].plain
        /\ req'[c] = req[c] /\ cl[c].at = "list"
    BY <1>4 DEF List, ClientState
  <2>4. ClientOK(c)'
    BY <2>3 DEF ClientInv, ClientOK, Busy
  <2> QED BY <1>2, <1>4, <2>2, <2>4 DEF List
<1>5. ASSUME NEW c \in Clients, Relist(c) PROVE Good
  <2>1. cl' \in [Clients -> ClientState] /\ \A e \in Clients : e # c => cl'[e] = cl[e]
    BY <1>5 DEF Relist, ClientState, ClientPlaces
  <2>2. /\ cl'[c].at = "list" /\ cl'[c].plain = cl[c].plain
        /\ req'[c] = req[c] /\ cl[c].at = "next"
    BY <1>5 DEF Relist, ClientState
  <2>3. ClientOK(c)'
    BY <2>2 DEF ClientInv, ClientOK, Busy
  <2> QED BY <1>2, <1>5, <2>1, <2>3 DEF Relist
<1>6. ASSUME NEW c \in Clients, NEW f \in Files, Fetch(c, f) PROVE Good
  <2> DEFINE got == IF blob[f] = "whole" THEN Whole ELSE Blob!Wiped
  <2>1. got \in Copies
    BY WipedIsCopy DEF Copies
  <2> DEFINE r == IF paired = c /\ blob[f] # "none"
                    THEN [cl[c] EXCEPT !.at = "fetch", !.file = f, !.todo = @ \ {f},
                                       !.got = got]
                    ELSE [cl[c] EXCEPT !.todo = @ \ {f}]
  <2>2. cl' = [cl EXCEPT ![c] = r]
    BY <1>6 DEF Fetch
  <2> HIDE DEF got
  <2>3. r \in ClientState
    BY <2>1 DEF ClientState, ClientPlaces
  <2>7. /\ r.at \in {cl[c].at, "fetch"} /\ r.plain = cl[c].plain
        /\ r.at = "fetch" => r.file = f \/ cl[c].at = "fetch"
    BY DEF ClientState
  <2> HIDE DEF r
  <2>4. /\ cl' \in [Clients -> ClientState] /\ \A e \in Clients : e # c => cl'[e] = cl[e]
        /\ cl'[c] = r
    BY <2>2, <2>3 DEF ClientState
  <2>5. /\ cl'[c].at \in {"next", "fetch"} /\ cl'[c].plain = cl[c].plain
        /\ cl'[c].at = "fetch" => cl'[c].file = f
        /\ req'[c] = req[c] /\ cl[c].at = "next"
    BY <1>6, <2>4, <2>7 DEF Fetch
  <2>6. ClientOK(c)'
    BY <2>5 DEF ClientInv, ClientOK, Busy
  <2> QED BY <1>2, <1>6, <2>4, <2>6 DEF Fetch
<1>7. ASSUME NEW c \in Clients, Fetched(c) PROVE Good
  <2>1. PICK b \in Copies : cl' = [cl EXCEPT ![c].at = "decrypt", ![c].got = b]
    BY <1>7 DEF Fetched, PullTypeOK, Copies
  <2>2. cl' \in [Clients -> ClientState] /\ \A e \in Clients : e # c => cl'[e] = cl[e]
    <3>1. cl' = [cl EXCEPT ![c] = [@ EXCEPT !.at = "decrypt", !.got = b]]
      BY <2>1
    <3>2. [cl[c] EXCEPT !.at = "decrypt", !.got = b] \in ClientState
      BY DEF ClientState, ClientPlaces
    <3> QED BY <3>1, <3>2
  <2>3. /\ cl'[c].at = "decrypt" /\ cl'[c].plain = cl[c].plain /\ cl'[c].file = cl[c].file
        /\ req'[c] = req[c] /\ cl[c].at = "fetch"
    BY <1>7, <2>1 DEF Fetched, ClientState
  <2>4. ClientOK(c)'
    BY <2>3 DEF ClientInv, ClientOK, Busy
  <2> QED BY <1>2, <1>7, <2>2, <2>4 DEF Fetched
<1>8. ASSUME NEW c \in Clients, FetchLost(c) PROVE Good
  <2>1. /\ req'[c] = req[c] /\ cl[c].at = "fetch"
        /\ cl'[c].at = "next" /\ cl'[c].plain = {}
    BY <1>8, GiveUpEffect DEF FetchLost
  <2>2. ClientOK(c)'
    BY <2>1 DEF ClientInv, ClientOK, Busy
  <2> QED BY <1>2, <1>8, <2>2, GiveUpEffect DEF FetchLost
<1>9. ASSUME NEW c \in Clients, Decrypt(c) PROVE Good
  <2> DEFINE b == cl[c].got
  <2>0. cl[c].at = "decrypt" /\ b \in Copies /\ req[c] = "none"
    BY <1>9 DEF Decrypt, ClientState, ClientInv, ClientOK
  <2>1. CASE Blob!Accepted(b)
    <3>1. Blob!Plain(b) = b
      BY <2>0, <2>1, PlainIsBeginning
    <3>2. cl' = [cl EXCEPT ![c] = [@ EXCEPT !.at = "delete", !.plain = {b}]]
      BY <1>9, <2>1, <3>1 DEF Decrypt
    <3>3. {b} \in Plaintexts
      BY <2>0 DEF Plaintexts
    <3> HIDE DEF b
    <3>4. [cl[c] EXCEPT !.at = "delete", !.plain = {b}] \in ClientState
      BY <3>3 DEF ClientState, ClientPlaces
    <3>5. /\ cl' \in [Clients -> ClientState] /\ \A e \in Clients : e # c => cl'[e] = cl[e]
          /\ cl'[c].at = "delete" /\ cl'[c].plain = {b} /\ cl'[c].file = cl[c].file
      BY <3>2, <3>4 DEF ClientState
    <3>6. decrypted' = decrypted \cup {cl[c].file} /\ cl[c].file \in Files
      BY <1>9, <2>0, <2>1 DEF Decrypt, ClientInv, ClientOK, Busy, b
    <3>7. ClientOK(c)'
      BY <1>9, <2>0, <2>1, <3>5, <3>6 DEF Decrypt, ClientOK, Busy
    <3>8. req' = [req EXCEPT ![c] = "none"] /\ decrypted' \in SUBSET Files
      BY <1>9, <2>0, <3>6 DEF Decrypt, PullTypeOK
    <3> QED
      BY <1>9, <3>5, <3>6, <3>7, <3>8, OneClientStep DEF Decrypt, PullTypeOK
  <2>2. CASE ~Blob!Accepted(b)
    <3>1. GiveUp(c) /\ UNCHANGED decrypted
      BY <1>9, <2>2 DEF Decrypt
    <3>2. ClientOK(c)'
      BY <1>9, <2>0, <3>1, GiveUpEffect DEF Decrypt, ClientOK, Busy
    <3> QED BY <1>2, <1>9, <3>1, <3>2, GiveUpEffect DEF Decrypt
  <2> QED BY <2>1, <2>2
<1>10. ASSUME NEW c \in Clients, AskDelete(c) PROVE Good
  <2>1. cl' \in [Clients -> ClientState] /\ \A e \in Clients : e # c => cl'[e] = cl[e]
    BY <1>10 DEF AskDelete, ClientState, ClientPlaces
  <2>2. /\ cl'[c].at = "reply" /\ cl'[c].plain = cl[c].plain /\ cl'[c].file = cl[c].file
        /\ cl[c].at = "delete"
    BY <1>10 DEF AskDelete, ClientState
  <2>3. ClientOK(c)'
    BY <1>10, <2>2 DEF AskDelete, ClientInv, ClientOK, Busy
  <2> QED BY <1>10, <2>1, <2>3, OneClientStep DEF AskDelete, PullTypeOK
\* The client has its answer, or waits for it no longer.
<1>11. ASSUME NEW c \in Clients, GiveUp(c), req' = [req EXCEPT ![c] = "none"],
              \/ UNCHANGED late
              \/ cl[c].at = "reply" /\ late' = late \cup {<<c, cl[c].file>>},
              UNCHANGED <<decrypted, paired, dropped, kills>>,
              out' \in [Clients -> [Files -> SUBSET Copies]],
              done' \in [Clients -> SUBSET Files]
       PROVE  Good
  <2>1. ClientOK(c)'
    BY <1>11, GiveUpEffect DEF ClientOK, Busy
  <2> QED BY <1>11, <2>1, GiveUpEffect, OneClientStep DEF PullTypeOK
<1>12. ASSUME NEW c \in Clients, Done(c) PROVE Good
  <2>1. cl[c].file \in Files /\ cl[c].plain \in SUBSET Copies
    BY <1>12 DEF Done, ClientInv, ClientOK, Busy, ClientState, Plaintexts
  <2>2. out' \in [Clients -> [Files -> SUBSET Copies]]
    BY <1>12, <2>1 DEF Done, PullTypeOK
  <2>3. done' \in [Clients -> SUBSET Files]
    BY <1>12, <2>1 DEF Done, PullTypeOK
  <2> QED BY <1>11, <1>12, <2>2, <2>3 DEF Done
<1>13. ASSUME NEW c \in Clients, Refused(c) PROVE Good
  BY <1>11, <1>13 DEF Refused, PullTypeOK
<1>14. ASSUME NEW c \in Clients, Orphan(c)
       PROVE  /\ req' = [req EXCEPT ![c] = "none"]
              /\ \/ UNCHANGED late
                 \/ cl[c].at = "reply" /\ late' = late \cup {<<c, cl[c].file>>}
  BY <1>14 DEF Orphan, ClientInv, ClientOK
<1>15. ASSUME NEW c \in Clients, TimedOut(c) PROVE Good
  BY <1>11, <1>14, <1>15 DEF TimedOut, PullTypeOK
<1>16. ASSUME NEW c \in Clients, Kill(c) PROVE Good
  <2>1. cl' = [cl EXCEPT ![c] = Off] /\ Off \in ClientState
    BY <1>16, OffTyped DEF Kill, ClientPlaces
  <2>2. /\ cl' \in [Clients -> ClientState] /\ \A e \in Clients : e # c => cl'[e] = cl[e]
        /\ cl'[c] = Off
    BY <2>1
  <2>3. out' \in [Clients -> [Files -> SUBSET Copies]]
    BY <1>16, KillLeaves DEF PullTypeOK
  <2>4. ClientOK(c)'
    BY <1>14, <1>16, <2>2 DEF Kill, ClientOK, Busy, Off, PullTypeOK
  <2>5. kills' \in 0..MaxKills
    BY <1>16, PullAssumption DEF Kill, PullTypeOK
  <2> QED BY <1>14, <1>16, <2>2, <2>3, <2>4, <2>5, OneClientStep DEF Kill, PullTypeOK
\* The server takes a request.
<1>17. ASSUME NEW c \in Clients, ServeDelete(c) PROVE Good
  <2>1. PICK a \in {"served", "refused"} : req' = [req EXCEPT ![c] = a]
    BY <1>17 DEF ServeDelete
  <2>2. UNCHANGED <<paired, cl, late, out, done, decrypted, dropped, kills>>
        /\ cl[c].at = "reply"
    BY <1>17 DEF ServeDelete
  <2>3. ClientOK(c)'
    BY <2>2 DEF ClientInv, ClientOK, Busy
  <2> QED BY <2>1, <2>2, <2>3, OneClientStep DEF PullTypeOK
\* The server, for no client in particular.
<1>18. ASSUME UNCHANGED <<paired, cl, out, done, decrypted, kills>>, late' \subseteq late,
              req' \in [Clients -> Requests],
              \A c \in Clients : req'[c] # "none" => req[c] # "none",
              dropped' \in SUBSET Files
       PROVE  Good
  <2>1. PullTypeOK'
    BY <1>18 DEF PullTypeOK
  <2>2. ClientInv'
    BY <1>18 DEF ClientInv, ClientOK, Busy
  <2> QED BY <2>1, <2>2
<1>19. ASSUME NEW c \in Clients, NEW f \in Files, ServeLate(c, f) PROVE Good
  BY <1>18, <1>19 DEF ServeLate, PullTypeOK
<1>20. CASE ServeStep
  <2>1. req' \in [Clients -> Requests] /\ \A c \in Clients : req'[c] # "none" => req[c] # "none"
    BY <1>20 DEF ServeStep, Answer
  <2> QED BY <1>18, <1>20, <2>1 DEF ServeStep, PullTypeOK
<1>25. CASE ServeFails
  <2>1. req' \in [Clients -> Requests] /\ \A c \in Clients : req'[c] # "none" => req[c] # "none"
    BY <1>25 DEF ServeFails, Answer
  <2> QED BY <1>18, <1>25, <2>1 DEF ServeFails, PullTypeOK
<1>21. ASSUME NEW f \in Files, Adds(f) PROVE Good
  BY <1>18, <1>21 DEF Adds, client, PullTypeOK
<1>22. ASSUME NEW d \in Deleters, WebStep(d) \/ WebFails(d) PROVE Good
  BY <1>18, <1>22 DEF WebStep, WebFails, client, PullTypeOK
<1>23. ASSUME NEW d \in Deleters, NEW f \in Files, WebDelete(d, f) PROVE Good
  BY <1>18, <1>23 DEF WebDelete, PullTypeOK
<1>24. CASE ServerCrash
  <2> DEFINE Cut(c) == [Off EXCEPT !.at = "next", !.todo = cl[c].todo]
  <2>1. ASSUME NEW c \in Clients PROVE Cut(c) \in ClientState
    <3>1. cl[c].todo \in SUBSET Files
      BY DEF ClientState
    <3>2. "next" \in ClientPlaces
      BY DEF ClientPlaces
    <3> QED BY <3>1, <3>2, OffTyped
  <2>2. \A c \in Clients : Cut(c).at = "next" /\ Cut(c).plain = {}
    BY DEF Off
  <2>3. \A c \in Clients : cl'[c] = IF cl[c].at = "fetch" THEN Cut(c) ELSE cl[c]
    BY <1>24 DEF ServerCrash
  <2> HIDE DEF Cut
  <2>4. cl' \in [Clients -> ClientState]
    <3>1. cl' = [c \in Clients |-> IF cl[c].at = "fetch" THEN Cut(c) ELSE cl[c]]
      BY <1>24 DEF ServerCrash, Cut
    <3> QED BY <2>1, <3>1
  <2>5. req' \in [Clients -> Requests] /\ \A c \in Clients : req'[c] # "none" => req[c] # "none"
    BY <1>24 DEF ServerCrash
  <2>6. PullTypeOK'
    BY <1>24, <2>4, <2>5 DEF ServerCrash, PullTypeOK, ClientState, Plaintexts
  <2>7. \A c \in Clients : ClientOK(c)'
    BY <1>24, <2>2, <2>3, <2>5 DEF ServerCrash, ClientInv, ClientOK, Busy
  <2> QED BY <1>24, <2>6, <2>7 DEF ServerCrash, ClientInv
<1> QED
  BY <1>1, <1>3, <1>4, <1>5, <1>6, <1>7, <1>8, <1>9, <1>10, <1>12, <1>13, <1>15, <1>16,
     <1>17, <1>19, <1>20, <1>21, <1>22, <1>23, <1>24, <1>25 DEF PullNext, ClientStep

-----------------------------------------------------------------------------
\* What holds whatever is lost, cut or killed.
PullInv == StoreInv /\ GoneInv /\ PullTypeOK /\ ClientInv

\* PullInv is an invariant of the composed system.
LEMMA PullInvariant == PullSpec => []PullInv
<1>1. PullInit => PullInv
  BY TypeInit, LineInit, GoneInit, PullInitInv DEF PullInv, StoreInv, PullInit
<1>2. PullInv /\ [PullNext]_pull => PullInv'
  <2> SUFFICES ASSUME PullInv, [PullNext]_pull PROVE PullInv'
    OBVIOUS
  <2>1. [StoreNext]_store
    BY PullStoreStep DEF PullInv
  <2>2. StoreInv' /\ GoneInv'
    BY <2>1, TypeStep, TmpOpenStep, LineStep, GoneStep DEF PullInv, StoreInv
  <2>3. PullTypeOK' /\ ClientInv'
    BY <2>2, PullInvStep DEF PullInv, StoreInv
  <2> QED BY <2>2, <2>3 DEF PullInv
<1> QED BY <1>1, <1>2, PTL DEF PullSpec

\* Type correctness of the pull protocol.
THEOREM PullTypeCorrect == PullSpec => []PullTypeOK
BY PullInvariant, PTL DEF PullInv

\* Under the clients and the pull API the store is the store: what is proved of
\* StoreSpec holds of it.
THEOREM PullImplementsStore == PullSpec => StoreSpec
<1>1. PullInit => StoreInit
  BY DEF PullInit
<1>2. PullInv /\ [PullNext]_pull => [StoreNext]_store
  BY PullStoreStep DEF PullInv
<1> QED BY <1>1, <1>2, PullInvariant, PTL DEF PullSpec, StoreSpec

\* A pull client that lists the manifest finds the blob of every file that
\* nobody asked to delete.
THEOREM PullLineHasBlob == PullSpec => []LineHasBlob
BY PullImplementsStore, LineHasBlobHolds, PTL

-----------------------------------------------------------------------------
(* What is deleted was decrypted.                                          *)

\* At the start nothing is asked to be deleted.
LEMMA WipedInit == PullInit => WipedAfterDecrypt
BY DEF PullInit, StoreInit, WipedAfterDecrypt

\* The pull API begins a deletion only for a request, of which ClientInv knows that
\* its file was decrypted.
LEMMA WipedStep ==
    ASSUME ClientInv, WipedAfterDecrypt, [PullNext]_pull
    PROVE  WipedAfterDecrypt'
<1> USE DEF WipedAfterDecrypt
<1>1. CASE UNCHANGED <<asked, dropped, decrypted>>
  BY <1>1
<1>2. ASSUME NEW c \in Clients, Decrypt(c) PROVE WipedAfterDecrypt'
  BY <1>2 DEF Decrypt, store
<1>3. ASSUME NEW c \in Clients, ServeDelete(c) PROVE WipedAfterDecrypt'
  BY <1>3 DEF ServeDelete, Delete, store, ClientInv, ClientOK
<1>4. ASSUME NEW c \in Clients, NEW f \in Files, ServeLate(c, f) PROVE WipedAfterDecrypt'
  BY <1>4 DEF ServeLate, Delete, store, ClientInv
<1>5. ASSUME NEW d \in Deleters, NEW f \in Files, WebDelete(d, f) PROVE WipedAfterDecrypt'
  BY <1>5 DEF WebDelete, Delete
<1>6. ASSUME NEW d \in Deleters, Deletion(d) \/ DelFail(d) PROVE UNCHANGED asked
  BY <1>6 DEF Deletion, Wipe, Unlink, UnlinkMeta, OpenSource, OpenTmp, ReadManifest, WriteTmp,
     Rename, Replace, ReplaceFails, DelFail
<1>7. CASE ServeStep
  <2>1. Deletion(Api)
    BY <1>7 DEF ServeStep, Deletion
  <2> QED BY <1>1, <1>6, <1>7, <2>1, PullAssumption DEF ServeStep
<1>12. CASE ServeFails
  BY <1>1, <1>6, <1>12, PullAssumption DEF ServeFails
<1>8. ASSUME NEW d \in Deleters, WebStep(d) \/ WebFails(d) PROVE WipedAfterDecrypt'
  BY <1>1, <1>6, <1>8 DEF WebStep, WebFails, client
<1>9. ASSUME NEW f \in Files, Adds(f) PROVE WipedAfterDecrypt'
  BY <1>9 DEF Adds, client, Land, AppendCompleted, OpenManifest, WriteLine, WriteDuration,
     AppFail
<1>10. CASE ServerCrash
  BY <1>10 DEF ServerCrash, StoreCrash
<1>11. ASSUME NEW c \in Clients,
              \/ List(c) \/ Relist(c) \/ Fetched(c) \/ AskDelete(c)
              \/ Done(c) \/ Refused(c) \/ \E f \in Files : Fetch(c, f)
              \/ FetchLost(c) \/ TimedOut(c) \/ Kill(c)
              \/ \E override \in BOOLEAN : Start(c, override)
       PROVE  UNCHANGED <<asked, dropped, decrypted>>
  BY <1>11 DEF List, Relist, Fetched, AskDelete, Done, Refused, Fetch, FetchLost,
     TimedOut, Kill, Start, store
<1> QED
  BY <1>1, <1>2, <1>3, <1>4, <1>5, <1>7, <1>8, <1>9, <1>10, <1>11, <1>12
     DEF PullNext, ClientStep, pull, store, client

\* However late a request of a pull client is, whoever is paired when it comes
\* and wherever the server dies: the pull API wipes only what was decrypted.
THEOREM WipedAfterDecryptHolds == PullSpec => []WipedAfterDecrypt
<1>1. PullInv /\ WipedAfterDecrypt /\ [PullNext]_pull => WipedAfterDecrypt'
  BY WipedStep DEF PullInv
<1> QED BY <1>1, WipedInit, PullInvariant, PTL DEF PullSpec

-----------------------------------------------------------------------------
(* What is in an output directory is the beginning of a file.               *)

\* A plaintext is moved to its final name only when its blob was accepted; what a
\* kill leaves behind is what decrypt_file had written so far.
LEMMA AuthenticStep ==
    ASSUME PullTypeOK, ClientInv, OnlyAuthentic, [PullNext]_pull
    PROVE  OnlyAuthentic'
<1> USE DEF OnlyAuthentic
<1>1. CASE UNCHANGED out
  BY <1>1
<1>2. ASSUME NEW c \in Clients, Done(c) PROVE OnlyAuthentic'
  <2>1. \A p \in cl[c].plain : Blob!Accepted(p)
    BY DEF ClientInv, ClientOK
  <2>2. \A e \in Clients, f \in Files : out'[e][f] \in {out[e][f], out[e][f] \cup cl[c].plain}
    BY <1>2 DEF Done, PullTypeOK
  <2> QED BY <2>1, <2>2
<1>3. ASSUME NEW c \in Clients, Kill(c) PROVE OnlyAuthentic'
  BY <1>3, KillLeaves
<1> QED
  BY <1>1, <1>2, <1>3
     DEF PullNext, ClientStep, pull, client, List, Relist, Fetched, Decrypt, AskDelete, Refused,
     Fetch, FetchLost, TimedOut, Start, ServeDelete, ServeLate, ServeStep, ServeFails, Adds,
     WebStep, WebFails, WebDelete, ServerCrash

\* Killed while it decrypts, or sent a blob that is being wiped, a client leaves
\* nothing but the beginning of the file in its output directory.
THEOREM OnlyAuthenticHolds == PullSpec => []OnlyAuthentic
<1>1. PullInit => OnlyAuthentic
  BY DEF PullInit, OnlyAuthentic
<1>2. PullInv /\ OnlyAuthentic /\ [PullNext]_pull => OnlyAuthentic'
  BY AuthenticStep DEF PullInv
<1> QED BY <1>1, <1>2, PullInvariant, PTL DEF PullSpec

-----------------------------------------------------------------------------
(* One owner of a file.  A client is told that a file is done only while it *)
(* is the paired one and the blob is gone.  Whoever is paired after it was  *)
(* started anew, so that it holds nothing, and there is nothing to fetch.   *)

Finished(c, f) == f \in done[c] \/ (req[c] = "ok" /\ cl[c].file = f)

Holds(c, f) == Busy(c) /\ cl[c].file = f

\* The call whose answer a client waits for is the one that is being executed.
ServedInv ==
    \A c \in Clients : req[c] = "served" =>
        Deleting(Api) /\ paired = c /\ del[Api].file = cl[c].file

OwnerInv ==
    /\ \A c, e \in Clients, f \in Files : Finished(c, f) /\ Finished(e, f) => c = e
    /\ \A c \in Clients, f \in Files : Finished(c, f) => blob[f] = "none" /\ app[f].at # "new"
    /\ \A c, e \in Clients, f \in Files :
          Finished(c, f) /\ paired = e /\ e # c => ~Holds(e, f)

\* What other threads do leaves the call of the event loop alone.
LEMMA ApiKept ==
    ASSUME StoreTypeOK,
           \/ \E f \in Files : Adds(f)
           \/ \E d \in Deleters : WebStep(d) \/ WebFails(d) \/ \E f \in Files : WebDelete(d, f)
    PROVE  del'[Api].at = del[Api].at /\ del'[Api].file = del[Api].file
<1> Api \in Deleters
  BY PullAssumption
<1> DEFINE Kept == del'[Api].at = del[Api].at /\ del'[Api].file = del[Api].file
<1>1. ASSUME NEW f \in Files, Adds(f) PROVE Kept
  BY <1>1, AddMovesNoDeleter DEF Adds, AppendCompleted
<1>2. ASSUME NEW d \in Deleters, d # Api, tmp # Absent, Replace(d) PROVE Kept
  BY <1>2, ReplaceStep
<1>3. ASSUME NEW d \in Deleters, d # Api,
             \/ Wipe(d) \/ Unlink(d) \/ UnlinkMeta(d) \/ OpenSource(d) \/ OpenTmp(d)
             \/ ReadManifest(d) \/ WriteTmp(d) \/ ReplaceFails(d) \/ DelFail(d)
             \/ \E f \in Files : Delete(d, f)
      PROVE  Kept
  BY <1>3 DEF Wipe, Unlink, UnlinkMeta, OpenSource, OpenTmp, ReadManifest, WriteTmp, Goes,
     ReplaceFails, DelFail, Delete, StoreTypeOK
<1>4. ASSUME NEW d \in Deleters, WebStep(d) PROVE Kept
  BY <1>2, <1>3, <1>4 DEF WebStep, Deletion, Rename
<1>5. ASSUME NEW d \in Deleters, WebFails(d) \/ \E f \in Files : WebDelete(d, f) PROVE Kept
  BY <1>3, <1>5 DEF WebFails, WebDelete
<1> QED BY <1>1, <1>4, <1>5

\* A client that waits stays where it is, or is not waiting any more.
LEMMA WaitingKept ==
    ASSUME PullTypeOK, ClientInv, PullNext, NEW c \in Clients, req'[c] = "served"
    PROVE  cl'[c].file = cl[c].file
<1>1. ASSUME NEW e \in Clients, e # c, GiveUp(e) PROVE cl'[c] = cl[c]
  BY <1>1 DEF GiveUp, PullTypeOK
<1>2. ASSUME NEW e \in Clients, GiveUp(e), req' = [req EXCEPT ![e] = "none"]
      PROVE  cl'[c] = cl[c]
  BY <1>1, <1>2 DEF PullTypeOK
<1>3. ASSUME NEW e \in Clients, UNCHANGED req, cl[e].at # "reply",
             \A g \in Clients : g # e => cl'[g] = cl[g]
      PROVE  cl'[c] = cl[c]
  BY <1>3 DEF ClientInv, ClientOK
<1>4. ASSUME NEW e \in Clients,
             \/ List(e) \/ Relist(e) \/ Fetched(e) \/ FetchLost(e) \/ Decrypt(e)
             \/ \E f \in Files : Fetch(e, f)
             \/ \E override \in BOOLEAN : Start(e, override)
      PROVE  cl'[c] = cl[c]
  <2>1. /\ UNCHANGED req /\ cl[e].at # "reply"
        /\ \A g \in Clients : g # e => cl'[g] = cl[g]
    BY <1>4 DEF List, Relist, Fetched, FetchLost, Decrypt, Fetch, Start, GiveUp, PullTypeOK
  <2> QED BY <1>3, <2>1
<1>5. ASSUME NEW e \in Clients, AskDelete(e) PROVE cl'[c].file = cl[c].file
  BY <1>5 DEF AskDelete, PullTypeOK
<1>6. ASSUME NEW e \in Clients, Done(e) \/ Refused(e) \/ TimedOut(e) PROVE cl'[c] = cl[c]
  BY <1>2, <1>6 DEF Done, Refused, TimedOut, Orphan
<1>7. ASSUME NEW e \in Clients, Kill(e) PROVE cl'[c] = cl[c]
  BY <1>7 DEF Kill, Orphan, PullTypeOK
<1>8. CASE ServerCrash
  BY <1>8 DEF ServerCrash
<1>9. ASSUME NEW e \in Clients, ServeDelete(e) \/ \E f \in Files : ServeLate(e, f)
      PROVE  cl' = cl
  BY <1>9 DEF ServeDelete, ServeLate
<1>10. CASE ServeStep \/ ServeFails
  BY <1>10 DEF ServeStep, ServeFails
<1>11. ASSUME \/ \E f \in Files : Adds(f)
              \/ \E d \in Deleters : WebStep(d) \/ WebFails(d) \/ \E f \in Files : WebDelete(d, f)
       PROVE  cl' = cl
  BY <1>11 DEF Adds, WebDelete, WebStep, WebFails, client
<1>12. ASSUME NEW e \in Clients,
              \/ ClientStep(e) \/ FetchLost(e) \/ TimedOut(e) \/ Kill(e) \/ ServeDelete(e)
              \/ \E override \in BOOLEAN : Start(e, override)
              \/ \E f \in Files : ServeLate(e, f)
       PROVE  cl'[c].file = cl[c].file
  BY <1>4, <1>5, <1>6, <1>7, <1>9, <1>12 DEF ClientStep
<1> QED BY <1>8, <1>10, <1>11, <1>12 DEF PullNext

\* A call that is being executed is that of the client that waits for it.
LEMMA ServedStep ==
    ASSUME StoreTypeOK, PullTypeOK, ClientInv, ServedInv, [PullNext]_pull
    PROVE  ServedInv'
<1> SUFFICES ASSUME PullNext, NEW c \in Clients, req'[c] = "served"
             PROVE  Deleting(Api)' /\ paired' = c /\ del'[Api].file = cl'[c].file
  BY DEF ServedInv, pull, store, client, Deleting
<1> cl'[c].file = cl[c].file
  BY WaitingKept
\* c was waiting for the call before, and the call goes on.
<1>1. ASSUME req[c] = "served", paired' = paired, del'[Api].at # "idle",
             del'[Api].file = del[Api].file
      PROVE  Deleting(Api)' /\ paired' = c /\ del'[Api].file = cl'[c].file
  BY <1>1 DEF ServedInv, Deleting
<1>2. ASSUME req[c] = "served", paired' = paired, UNCHANGED del
      PROVE  Deleting(Api)' /\ paired' = c /\ del'[Api].file = cl'[c].file
  BY <1>1, <1>2 DEF ServedInv, Deleting
<1>3. ASSUME NEW e \in Clients,
             List(e) \/ Relist(e) \/ Fetched(e) \/ FetchLost(e) \/ Decrypt(e) \/ AskDelete(e)
             \/ \E f \in Files : Fetch(e, f)
      PROVE  req[c] = "served" /\ paired' = paired /\ UNCHANGED del
  BY <1>3 DEF List, Relist, Fetched, FetchLost, Decrypt, AskDelete, Fetch, PullTypeOK, store
<1>4. ASSUME NEW e \in Clients, Done(e) \/ Refused(e) \/ TimedOut(e) \/ Kill(e)
      PROVE  req[c] = "served" /\ paired' = paired /\ UNCHANGED del
  BY <1>4 DEF Done, Refused, TimedOut, Kill, Orphan, PullTypeOK, store
<1>5. ASSUME NEW e \in Clients, NEW override \in BOOLEAN, Start(e, override) PROVE FALSE
  BY <1>5 DEF Start, Serving, ServedInv
<1>6. ASSUME NEW e \in Clients, ServeDelete(e)
      PROVE  Deleting(Api)' /\ paired' = c /\ del'[Api].file = cl'[c].file
  <2>1. e = c
    BY <1>6 DEF ServeDelete, Serving, ServedInv, PullTypeOK
  <2>2. paired = c /\ Delete(Api, cl[c].file)
    BY <1>6, <2>1 DEF ServeDelete, Accepts, PullTypeOK
  <2>3. del'[Api].at = "wipe" /\ del'[Api].file = cl[c].file
    BY <2>2, PullAssumption DEF Delete, NoCall, StoreTypeOK
  <2> QED BY <1>6, <2>2, <2>3 DEF ServeDelete, Deleting
<1>7. ASSUME NEW e \in Clients, NEW f \in Files, ServeLate(e, f) PROVE FALSE
  BY <1>7 DEF ServeLate, Serving, ServedInv
<1>8. CASE ServeStep
  <2>1. CASE UNCHANGED req
    <3>1. req[c] = "served" /\ del[Api].at # "idle"
      BY <2>1 DEF ServedInv, Deleting
    <3>2. \/ Wipe(Api) \/ Unlink(Api) \/ UnlinkMeta(Api) \/ OpenSource(Api)
          \/ OpenTmp(Api) \/ ReadManifest(Api) \/ WriteTmp(Api)
      BY <1>8, <2>1, <3>1 DEF ServeStep, Answer
    <3>3. del'[Api].at # "idle" /\ del'[Api].file = del[Api].file
      <4> Api \in Deleters
        BY PullAssumption
      <4>1. CASE Wipe(Api) \/ Unlink(Api) \/ UnlinkMeta(Api)
        BY <4>1 DEF Wipe, Unlink, UnlinkMeta, Goes, StoreTypeOK
      <4>2. CASE OpenSource(Api)
        BY <4>2 DEF OpenSource, StoreTypeOK
      <4>3. CASE OpenTmp(Api)
        BY <4>3 DEF OpenTmp, StoreTypeOK
      <4>4. CASE ReadManifest(Api)
        BY <4>4 DEF ReadManifest, StoreTypeOK
      <4>5. CASE WriteTmp(Api)
        BY <4>5 DEF WriteTmp, NoCall, StoreTypeOK
      <4> QED BY <3>2, <4>1, <4>2, <4>3, <4>4, <4>5
    <3> QED BY <1>1, <1>8, <3>1, <3>3 DEF ServeStep
  <2>2. CASE \E a \in {"refused", "ok"} : Answer(a)
    BY <2>2 DEF Answer
  <2> QED BY <1>8, <2>1, <2>2 DEF ServeStep
<1>9. ASSUME \/ \E f \in Files : Adds(f)
             \/ \E d \in Deleters : WebStep(d) \/ WebFails(d) \/ \E f \in Files : WebDelete(d, f)
      PROVE  Deleting(Api)' /\ paired' = c /\ del'[Api].file = cl'[c].file
  <2>1. UNCHANGED <<req, paired>>
    BY <1>9 DEF Adds, WebDelete, WebStep, WebFails, client
  <2> QED BY <1>1, <1>9, <2>1, ApiKept DEF ServedInv, Deleting
<1>10. CASE ServerCrash
  BY <1>10 DEF ServerCrash
<1>11. CASE ServeFails
  BY <1>11 DEF ServeFails, Answer
<1> QED
  BY <1>2, <1>3, <1>4, <1>5, <1>6, <1>7, <1>8, <1>9, <1>10, <1>11 DEF PullNext, ClientStep

\* A step that finishes no file, and after which the paired client holds only
\* what it held before or what was there to fetch.
LEMMA OwnerKept ==
    ASSUME StoreTypeOK, OwnerInv, [StoreNext]_store,
           \A c \in Clients, f \in Files : Finished(c, f)' => Finished(c, f),
           \A c \in Clients, f \in Files :
              paired' = c /\ Holds(c, f)' => paired = c /\ (Holds(c, f) \/ blob[f] # "none")
    PROVE  OwnerInv'
<1>1. ASSUME NEW c \in Clients, NEW f \in Files, Finished(c, f)'
      PROVE  blob'[f] = "none" /\ app'[f].at # "new"
  <2>1. blob[f] = "none" /\ app[f].at # "new"
    BY <1>1 DEF OwnerInv
  <2> QED BY <2>1, BlobGone, NeverNewAgain DEF store
<1> QED BY <1>1 DEF OwnerInv

\* Nobody gets to hold a file that is done for another client.
LEMMA OwnerStep ==
    ASSUME StoreInv, GoneInv, PullTypeOK, ClientInv, ServedInv, OwnerInv, [PullNext]_pull
    PROVE  OwnerInv'
<1> StoreTypeOK
  BY DEF StoreInv
<1> [StoreNext]_store
  BY PullStoreStep
<1> cl \in [Clients -> ClientState] /\ req \in [Clients -> Requests]
  BY ClientsTyped
<1> USE DEF Requests
<1>1. ASSUME UNCHANGED <<done, req, cl, paired>> PROVE OwnerInv'
  <2>1. \A c \in Clients, f \in Files : /\ Finished(c, f)' => Finished(c, f)
                                        /\ Holds(c, f)' => Holds(c, f)
    BY <1>1 DEF Finished, Holds, Busy
  <2> QED BY <1>1, <2>1, OwnerKept
\* A step of client c, which was not waiting, and that fetches only what is there.
<1>2. ASSUME NEW c \in Clients, UNCHANGED <<done, req, paired>>, cl[c].at # "reply",
             \A e \in Clients : e # c => cl'[e] = cl[e],
             \A f \in Files : paired = c /\ Holds(c, f)' => Holds(c, f) \/ blob[f] # "none"
      PROVE  OwnerInv'
  <2>1. \A e \in Clients, f \in Files : Finished(e, f)' => Finished(e, f)
    BY <1>2 DEF Finished, ClientInv, ClientOK
  <2>2. \A e \in Clients, f \in Files : Holds(e, f)' /\ e # c => Holds(e, f)
    BY <1>2 DEF Holds, Busy
  <2> QED BY <1>2, <2>1, <2>2, OwnerKept
<1>3. ASSUME NEW c \in Clients, NEW override \in BOOLEAN, Start(c, override)
      PROVE  OwnerInv'
  <2>1. /\ UNCHANGED <<done, req>> /\ cl[c].at = "off" /\ paired' = c
        /\ \A e \in Clients : e # c => cl'[e] = cl[e]
        /\ cl'[c].at \in {"off", "list"}
    BY <1>3 DEF Start, ClientState
  <2>2. \A e \in Clients, f \in Files : Finished(e, f)' => Finished(e, f)
    BY <2>1 DEF Finished, ClientInv, ClientOK
  <2>3. \A f \in Files : ~Holds(c, f)'
    BY <2>1 DEF Holds, Busy
  <2> QED BY <2>1, <2>2, <2>3, OwnerKept
<1>4. ASSUME NEW c \in Clients, List(c) \/ Relist(c) PROVE OwnerInv'
  <2>1. /\ UNCHANGED <<done, req, paired>> /\ cl[c].at # "reply"
        /\ \A e \in Clients : e # c => cl'[e] = cl[e]
        /\ cl'[c].at \in {"list", "next"}
    BY <1>4 DEF List, Relist, ClientState
  <2> QED BY <1>2, <2>1 DEF Holds, Busy
<1>5. ASSUME NEW c \in Clients, NEW f \in Files, Fetch(c, f) PROVE OwnerInv'
  <2>1. CASE paired = c /\ blob[f] # "none"
    <3>1. /\ UNCHANGED <<done, req, paired>> /\ cl[c].at # "reply"
          /\ \A e \in Clients : e # c => cl'[e] = cl[e]
          /\ cl'[c].file = f
      BY <1>5, <2>1 DEF Fetch, ClientState
    <3> QED BY <1>2, <2>1, <3>1 DEF Holds, Busy
  <2>2. CASE ~(paired = c /\ blob[f] # "none")
    <3>1. /\ UNCHANGED <<done, req, paired>> /\ cl[c].at # "reply"
          /\ \A e \in Clients : e # c => cl'[e] = cl[e]
          /\ cl'[c].at = "next"
      BY <1>5, <2>2 DEF Fetch, ClientState
    <3> QED BY <1>2, <3>1 DEF Holds, Busy
  <2> QED BY <2>1, <2>2
<1>6. ASSUME NEW c \in Clients, Fetched(c) PROVE OwnerInv'
  <2>1. /\ UNCHANGED <<done, req, paired>> /\ cl[c].at = "fetch"
        /\ \A e \in Clients : e # c => cl'[e] = cl[e]
        /\ cl'[c].file = cl[c].file
    BY <1>6 DEF Fetched, ClientState
  <2> QED BY <1>2, <2>1 DEF Holds, Busy
<1>7. ASSUME NEW c \in Clients, GiveUp(c), UNCHANGED <<done, req, paired>>, cl[c].at # "reply"
      PROVE  OwnerInv'
  BY <1>2, <1>7, GiveUpEffect DEF Holds, Busy
<1>8. ASSUME NEW c \in Clients, Decrypt(c) PROVE OwnerInv'
  <2>1. CASE GiveUp(c)
    BY <1>7, <1>8, <2>1 DEF Decrypt
  <2>2. CASE cl' = [cl EXCEPT ![c].at = "delete", ![c].plain = {Blob!Plain(cl[c].got)}]
    <3>1. /\ \A e \in Clients : e # c => cl'[e] = cl[e]
          /\ cl'[c].file = cl[c].file
      BY <2>2 DEF ClientState
    <3> QED BY <1>2, <1>8, <3>1 DEF Decrypt, Holds, Busy
  <2> QED BY <1>8, <2>1, <2>2 DEF Decrypt
<1>9. ASSUME NEW c \in Clients, AskDelete(c) PROVE OwnerInv'
  <2>1. /\ UNCHANGED <<done, paired>> /\ cl[c].at = "delete" /\ req'[c] = "sent"
        /\ \A e \in Clients : e # c => cl'[e] = cl[e] /\ req'[e] = req[e]
        /\ cl'[c].file = cl[c].file
    BY <1>9 DEF AskDelete, ClientState
  <2>2. \A e \in Clients, f \in Files : /\ Finished(e, f)' => Finished(e, f)
                                        /\ Holds(e, f)' => Holds(e, f)
    BY <2>1 DEF Finished, Holds, Busy
  <2> QED BY <2>1, <2>2, OwnerKept
<1>10. ASSUME NEW c \in Clients, UNCHANGED paired, req' = [req EXCEPT ![c] = "none"],
              \A e \in Clients : e # c => cl'[e] = cl[e],
              cl'[c].at \in {"next", "off"},
              \A e \in Clients, f \in Files : f \in done'[e] => Finished(e, f)
       PROVE  OwnerInv'
  <2>1. \A e \in Clients, f \in Files : /\ Finished(e, f)' => Finished(e, f)
                                        /\ Holds(e, f)' => Holds(e, f)
    BY <1>10 DEF Finished, Holds, Busy
  <2> QED BY <1>10, <2>1, OwnerKept
<1>11. ASSUME NEW c \in Clients, Done(c) PROVE OwnerInv'
  <2>1. \A e \in Clients, f \in Files : f \in done'[e] => Finished(e, f)
    BY <1>11 DEF Done, Finished, PullTypeOK
  <2> QED BY <1>10, <1>11, <2>1, GiveUpEffect DEF Done
<1>12. ASSUME NEW c \in Clients, Refused(c) \/ TimedOut(c) PROVE OwnerInv'
  <2>1. GiveUp(c) /\ req' = [req EXCEPT ![c] = "none"] /\ UNCHANGED <<done, paired>>
    BY <1>12 DEF Refused, TimedOut, Orphan
  <2> QED BY <1>10, <2>1, GiveUpEffect DEF Finished
<1>13. ASSUME NEW c \in Clients, Kill(c) PROVE OwnerInv'
  <2>1. /\ \A e \in Clients : e # c => cl'[e] = cl[e]
        /\ cl'[c].at = "off"
        /\ req' = [req EXCEPT ![c] = "none"] /\ UNCHANGED <<done, paired>>
    BY <1>13 DEF Kill, Orphan, Off
  <2> QED BY <1>10, <2>1 DEF Finished
<1>14. ASSUME NEW c \in Clients, ServeDelete(c) PROVE OwnerInv'
  <2>1. /\ UNCHANGED <<done, cl, paired>> /\ req'[c] # "ok"
        /\ \A e \in Clients : e # c => req'[e] = req[e]
    BY <1>14 DEF ServeDelete
  <2>2. \A e \in Clients, f \in Files : /\ Finished(e, f)' => Finished(e, f)
                                        /\ Holds(e, f)' => Holds(e, f)
    BY <2>1 DEF Finished, Holds, Busy
  <2> QED BY <2>1, <2>2, OwnerKept
<1>15. ASSUME NEW c \in Clients, NEW f \in Files, ServeLate(c, f) PROVE OwnerInv'
  BY <1>1, <1>15 DEF ServeLate
\* The deletion ends: its client is the paired one, and has finished the file.
<1>16. CASE Rename(Api) /\ Answer("ok") /\ UNCHANGED <<paired, cl, done>>
  <2>1. /\ blob[del[Api].file] = "none" /\ app[del[Api].file].at # "new"
    BY <1>16, PullAssumption DEF Rename, GoneInv, AfterUnlink, Deleting
  <2>2. ASSUME NEW c \in Clients, NEW f \in Files, Finished(c, f)', ~Finished(c, f)
        PROVE  paired = c /\ Holds(c, f) /\ f = del[Api].file
    <3>1. req[c] = "served" /\ cl[c].file = f
      BY <1>16, <2>2 DEF Finished, Answer
    <3> QED BY <3>1 DEF ServedInv, Holds, Busy, ClientInv, ClientOK
  <2>3. \A c \in Clients, f \in Files : Holds(c, f)' <=> Holds(c, f)
    BY <1>16 DEF Holds, Busy
  <2>4. \A c, e \in Clients, f \in Files : Finished(c, f)' /\ Finished(e, f)' => c = e
    BY <2>2 DEF OwnerInv
  <2>5. \A c \in Clients, f \in Files :
           Finished(c, f)' => blob'[f] = "none" /\ app'[f].at # "new"
    <3>1. \A c \in Clients, f \in Files :
             Finished(c, f)' => blob[f] = "none" /\ app[f].at # "new"
      BY <2>1, <2>2 DEF OwnerInv
    <3> QED BY <3>1, BlobGone, NeverNewAgain DEF store
  <2>6. \A c, e \in Clients, f \in Files :
           Finished(c, f)' /\ paired' = e /\ e # c => ~Holds(e, f)'
    BY <1>16, <2>2, <2>3 DEF OwnerInv
  <2> QED BY <2>4, <2>5, <2>6 DEF OwnerInv
<1>17. ASSUME UNCHANGED <<done, cl, paired>>,
              \A c \in Clients : req'[c] = "ok" => req[c] = "ok"
       PROVE  OwnerInv'
  <2>1. \A c \in Clients, f \in Files : /\ Finished(c, f)' => Finished(c, f)
                                        /\ Holds(c, f)' => Holds(c, f)
    BY <1>17 DEF Finished, Holds, Busy
  <2> QED BY <1>17, <2>1, OwnerKept
<1>18. CASE ServeStep
  <2>1. UNCHANGED <<paired, cl, done>>
    BY <1>18 DEF ServeStep
  <2>2. CASE UNCHANGED req
    BY <1>1, <2>1, <2>2
  <2>3. CASE Answer("refused")
    BY <1>17, <2>1, <2>3 DEF Answer
  <2> QED BY <1>16, <1>18, <2>1, <2>2, <2>3 DEF ServeStep
<1>23. CASE ServeFails
  BY <1>17, <1>23 DEF ServeFails, Answer
<1>19. ASSUME \/ \E f \in Files : Adds(f)
              \/ \E d \in Deleters : WebStep(d) \/ WebFails(d) \/ \E f \in Files : WebDelete(d, f)
       PROVE  OwnerInv'
  BY <1>1, <1>19 DEF Adds, WebDelete, WebStep, WebFails, client
<1>20. CASE ServerCrash
  <2>1. /\ UNCHANGED <<done, paired>>
        /\ \A c \in Clients : req'[c] # "ok"
        /\ \A c \in Clients : cl'[c].at = "next" \/ cl'[c] = cl[c]
    BY <1>20 DEF ServerCrash, Off
  <2>2. \A c \in Clients, f \in Files : /\ Finished(c, f)' => Finished(c, f)
                                        /\ Holds(c, f)' => Holds(c, f)
    BY <2>1 DEF Finished, Holds, Busy
  <2> QED BY <2>1, <2>2, OwnerKept
<1>21. ASSUME NEW c \in Clients, FetchLost(c) PROVE OwnerInv'
  BY <1>7, <1>21 DEF FetchLost
<1>22. CASE UNCHANGED pull
  BY <1>1, <1>22 DEF pull, client
<1> QED
  BY <1>3, <1>4, <1>5, <1>6, <1>8, <1>9, <1>11, <1>12, <1>13, <1>14, <1>15, <1>18, <1>19,
     <1>20, <1>21, <1>22, <1>23 DEF PullNext, ClientStep

\* Both are invariants of the composed system.
LEMMA OwnerInvariant == PullSpec => [](ServedInv /\ OwnerInv)
<1>1. PullInit => ServedInv /\ OwnerInv
  BY DEF PullInit, ServedInv, OwnerInv, Finished
<1>2. PullInv /\ ServedInv /\ OwnerInv /\ [PullNext]_pull => (ServedInv /\ OwnerInv)'
  BY ServedStep, OwnerStep DEF PullInv, StoreInv
<1> QED BY <1>1, <1>2, PullInvariant, PTL DEF PullSpec

\* However many clients displace one another, and whatever requests, answers and
\* connections are lost: a file is done for one of them at most.
THEOREM OneOwnerHolds == PullSpec => []OneOwner
<1>1. OwnerInv => OneOwner
  <2> SUFFICES ASSUME OwnerInv, NEW f \in Files
               PROVE  Cardinality({c \in Clients : f \in done[c]}) <= 1
    BY DEF OneOwner
  <2> DEFINE S == {c \in Clients : f \in done[c]}
  <2>1. \A c, e \in S : c = e
    BY DEF OwnerInv, Finished
  <2>2. CASE S = {}
    BY <2>2, FS_EmptySet
  <2>3. CASE \E c : S = {c}
    <3>1. PICK c : S = {c}
      BY <2>3
    <3>2. Cardinality(S) = 1
      BY <3>1, FS_Singleton, Zenon
    <3> QED BY <3>2
  <2>4. S = {} \/ \E c : S = {c}
    <3>1. SUFFICES ASSUME NEW c \in S PROVE S = {c}
      OBVIOUS
    <3> HIDE DEF S
    <3> QED BY <2>1
  <2> QED BY <2>2, <2>3, <2>4
<1> QED BY <1>1, OwnerInvariant, PTL

-----------------------------------------------------------------------------
(* No file is lost as long as nothing that was said is lost either: no      *)
(* request, answer or connection, no end of a blob, and no process of the   *)
(* server; and as long as no deletion of the web user overlaps another.     *)
(* Clients may be killed, displaced and started again.                      *)

Reliable ==
    /\ Lossy = FALSE /\ Cuts = FALSE /\ MaxFaults = 0
    /\ Overlap = FALSE \/ Deleters = {Api}

\* The file of c is in its output directory, or will be once the answer comes.
Safe(c, f) ==
    \/ Whole \in out[c][f]
    \/ cl[c].at = "reply" /\ cl[c].file = f /\ req[c] \in {"served", "ok"}

\* What a client takes for the file is the file.
GotInv ==
    \A c \in Clients :
        /\ cl[c].at \in {"fetch", "decrypt"} /\ Blob!Accepted(cl[c].got) => cl[c].got = Whole
        /\ cl[c].at \in {"delete", "reply"} => cl[c].plain = {Whole}

AddedInv == \A f \in Files : app[f].at # "new" => Held(f)

SafeInv ==
    /\ \A f \in asked \ dropped : \E c \in Clients : Safe(c, f)
    /\ \A c \in Clients, f \in Files : <<c, f>> \in late => Whole \in out[c][f]

\* The temporary file is there when the event loop renames it.
AloneInv ==
    /\ del[Api].at \in {"read", "write"} => del[Api].dst = "tmp"
    /\ del[Api].at = "replace" => tmp # Absent

\* If the event loop is the only deleter, nobody renames the tmp file but it.
LEMMA AloneStep ==
    ASSUME Deleters = {Api}, StoreTypeOK, TmpOpen, AloneInv, [StoreNext]_store
    PROVE  AloneInv'
<1> USE DEF AloneInv
<1> Api \in Deleters
  BY PullAssumption
<1>1. CASE UNCHANGED store
  BY <1>1 DEF store
<1>2. ASSUME del'[Api].at \notin {"read", "write", "replace"} PROVE AloneInv'
  BY <1>2
<1>3. CASE Wipe(Api) \/ Unlink(Api) \/ UnlinkMeta(Api) \/ OpenSource(Api) \/ DelFail(Api)
           \/ (tmp # Absent /\ Replace(Api)) \/ ReplaceFails(Api) \/ StoreCrash
           \/ \E f \in Files : Delete(Api, f)
  <2>1. CASE tmp # Absent /\ Replace(Api)
    BY <1>2, <2>1, ReplaceStep
  <2>2. CASE Wipe(Api) \/ Unlink(Api) \/ UnlinkMeta(Api)
    BY <1>2, <2>2 DEF Wipe, Unlink, UnlinkMeta, Goes, StoreTypeOK
  <2>3. CASE OpenSource(Api)
    BY <1>2, <2>3 DEF OpenSource, StoreTypeOK
  <2>4. CASE DelFail(Api) \/ ReplaceFails(Api)
    BY <1>2, <2>4 DEF DelFail, ReplaceFails, NoCall, StoreTypeOK
  <2>5. CASE StoreCrash
    BY <1>2, <2>5 DEF StoreCrash, NoCall
  <2>6. ASSUME NEW f \in Files, Delete(Api, f) PROVE AloneInv'
    BY <1>2, <2>6 DEF Delete, NoCall, StoreTypeOK
  <2> QED BY <1>3, <2>1, <2>2, <2>3, <2>4, <2>5, <2>6
<1>4. CASE OpenTmp(Api)
  BY <1>4 DEF OpenTmp, StoreTypeOK
<1>5. CASE ReadManifest(Api)
  BY <1>5 DEF ReadManifest, StoreTypeOK
<1>6. CASE WriteTmp(Api)
  <2>1. tmp # Absent
    BY <1>6 DEF WriteTmp, TmpOpen
  <2>2. tmp' # Absent
    BY <1>6, <2>1, WriteStep DEF WriteTmp, StoreTypeOK
  <2> QED BY <1>6, <2>2 DEF WriteTmp, NoCall, StoreTypeOK
<1>7. ASSUME NEW f \in Files, \/ Land(f) \/ OpenManifest(f) \/ WriteLine(f)
                              \/ WriteDuration(f) \/ AppFail(f)
      PROVE  AloneInv'
  <2>1. UNCHANGED tmp
    BY <1>7 DEF Land, OpenManifest, WriteLine, WriteDuration, AppFail
  <2> QED BY <1>7, <2>1, AddMovesNoDeleter
<1> QED BY StepCases, <1>1, <1>3, <1>4, <1>5, <1>6, <1>7

\* Where changes must not overlap they have not.
LEMMA NeverOverlapped ==
    ASSUME Overlap = FALSE
    PROVE  StoreSpec => []~overlapped
<1>1. StoreInit => ~overlapped
  BY DEF StoreInit
<1>2. ~overlapped /\ [StoreNext]_store => ~overlapped'
  <2> SUFFICES ASSUME ~overlapped, [StoreNext]_store PROVE ~overlapped'
    OBVIOUS
  <2>1. CASE UNCHANGED overlapped
    BY <2>1
  <2>2. ASSUME NEW busy, Begins(busy) PROVE ~overlapped'
    BY <2>2 DEF Begins
  <2>3. ASSUME NEW f \in Files, Land(f) PROVE ~overlapped'
    BY <2>2, <2>3 DEF Land
  <2>4. ASSUME NEW d \in Deleters, NEW f \in Files, Delete(d, f) PROVE ~overlapped'
    BY <2>2, <2>4 DEF Delete
  <2>5. ASSUME NEW f \in Files, OpenManifest(f) \/ WriteLine(f) \/ WriteDuration(f) \/ AppFail(f)
        PROVE  UNCHANGED overlapped
    BY <2>5 DEF OpenManifest, WriteLine, WriteDuration, AppFail
  <2>6. ASSUME NEW d \in Deleters,
               \/ Wipe(d) \/ Unlink(d) \/ UnlinkMeta(d) \/ OpenSource(d) \/ OpenTmp(d)
               \/ ReadManifest(d) \/ WriteTmp(d) \/ DelFail(d) \/ Replace(d) \/ ReplaceFails(d)
        PROVE  UNCHANGED overlapped
    BY <2>6 DEF Wipe, Unlink, UnlinkMeta, OpenSource, OpenTmp, ReadManifest, WriteTmp, DelFail,
       Replace, ReplaceFails
  <2>7. StoreCrash \/ UNCHANGED store => UNCHANGED overlapped
    BY DEF StoreCrash, store
  <2> QED BY StepCases, <2>1, <2>3, <2>4, <2>5, <2>6, <2>7
<1> QED BY <1>1, <1>2, PTL DEF StoreSpec

\* The rename of a deletion through the API does not fail, so the request that
\* began it is answered.
LEMMA RenameSucceeds ==
    ASSUME Reliable
    PROVE  PullSpec => [](del[Api].at = "replace" => tmp # Absent)
<1>1. CASE Overlap = FALSE
  <2>1. StoreInv /\ SoFarSerial /\ ~overlapped => (del[Api].at = "replace" => tmp # Absent)
    <3> SUFFICES ASSUME StoreTypeOK, SerialInv, del[Api].at = "replace" PROVE tmp # Absent
      BY DEF StoreInv, SoFarSerial
    <3>1. tmp = main \ {del[Api].file} /\ tmp \in SUBSET Lines
      BY PullAssumption DEF SerialInv, StoreTypeOK
    <3> QED BY <3>1, LinesNotAbsent
  <2>2. StoreSpec => []~overlapped
    BY <1>1, NeverOverlapped
  <2> QED BY <2>1, <2>2, PullImplementsStore, Invariant, SerialInvariant, PTL
<1>2. CASE Deleters = {Api}
  <2>1. StoreInit => AloneInv
    BY PullAssumption DEF StoreInit, AloneInv, NoCall
  <2>2. StoreInv /\ AloneInv /\ [StoreNext]_store => AloneInv'
    BY <1>2, AloneStep DEF StoreInv
  <2>3. AloneInv => (del[Api].at = "replace" => tmp # Absent)
    BY DEF AloneInv
  <2>4. StoreSpec => []AloneInv
    BY <2>1, <2>2, Invariant, PTL DEF StoreSpec
  <2> QED BY <2>3, <2>4, PullImplementsStore, PTL
<1> QED BY <1>1, <1>2 DEF Reliable

\* decrypt_file rejects an overwritten blob.
LEMMA WipedFails == ~Blob!Accepted(Blob!Wiped)
BY DEF Blob!Wiped, Blob!Damaged, Blob!Accepted, Blob!Opens

\* decrypt_file rejects a blob that was overwritten while it was sent.
LEMMA SpoiltFails ==
    ASSUME NEW b \in Blob!Spoilt(Chunks)
    PROVE  ~Blob!Accepted(b)
<1> Chunks \in Nat \ {0}
  BY PullAssumption
<1>1. PICK c \in Blob!Cut(Chunks) : b = Append(c, Blob!Damaged)
  BY Zenon DEF Blob!Spoilt
<1>2. PICK n \in 0..(Chunks - 1) : c = Blob!Sealed(n)
  BY Zenon DEF Blob!Cut
<1>3. c \in Seq(Nat) /\ Len(c) = n
  BY <1>2, SealedBlob
<1>4. n + 1 \in DOMAIN b /\ b[n + 1] = 0
  BY <1>1, <1>3 DEF Blob!Damaged
<1> QED BY <1>4 DEF Blob!Accepted, Blob!Opens

\* At the start there are no files, so none is lost.
LEMMA CopyInit == PullInit => GotInv /\ AddedInv /\ SafeInv
BY DEF PullInit, StoreInit, GotInv, AddedInv, SafeInv, Off

\* No fault of the server is left.
LEMMA NoFaults ==
    ASSUME Reliable, StoreTypeOK
    PROVE  ~StoreCrash /\ (\A f \in Files : ~AppFail(f)) /\ \A d \in Deleters : ~DelFail(d)
BY DEF Reliable, StoreTypeOK, StoreCrash, AppFail, DelFail

\* The blob of a file that was added is whole unless somebody asks to delete it.
LEMMA AddedStep ==
    ASSUME StoreTypeOK, LineInv, AddedInv, [StoreNext]_store
    PROVE  AddedInv'
<1>1. CASE UNCHANGED store
  BY <1>1 DEF store, AddedInv, Held
<1>2. CASE StoreNext
  <2> SUFFICES ASSUME NEW f \in Files, app'[f].at # "new" PROVE Held(f)'
    BY DEF AddedInv
  <2>1. CASE app[f].at # "new"
    BY <1>2, <2>1, HeldKept DEF AddedInv
  <2>2. CASE app[f].at = "new"
    <3>1. CASE Land(f)
      BY <3>1 DEF Land, StoreTypeOK, Held
    <3>2. ASSUME NEW g \in Files, \/ Land(g) /\ g # f
                                  \/ OpenManifest(g) \/ WriteLine(g)
                                  \/ WriteDuration(g) \/ AppFail(g)
          PROVE  app'[f] = app[f]
      BY <2>2, <3>2 DEF Land, AppStep, OpenManifest, WriteLine, WriteDuration, AppFail, Adding,
         StoreTypeOK
    <3>3. ASSUME NEW d \in Deleters, tmp # Absent, Replace(d) PROVE app'[f].at = app[f].at
      BY <3>3, ReplaceStep
    <3>4. CASE StoreCrash
      BY <2>2, <3>4 DEF StoreCrash, Adding, StoreTypeOK
    <3> QED
      BY <1>2, <2>2, StepCases, <3>1, <3>2, <3>3, <3>4
         DEF Wipe, Unlink, UnlinkMeta, OpenSource, OpenTmp, ReadManifest, WriteTmp, DelFail,
             ReplaceFails, Delete
  <2> QED BY <2>1, <2>2
<1> QED BY <1>1, <1>2

\* A response is the whole blob or one that decrypt_file rejects.
LEMMA GotStep ==
    ASSUME Reliable, StoreTypeOK, PullTypeOK, ClientInv, GotInv, [PullNext]_pull
    PROVE  GotInv'
<1> cl \in [Clients -> ClientState]
  BY ClientsTyped
<1> DEFINE Got(c) ==
      /\ cl[c].at \in {"fetch", "decrypt"} /\ Blob!Accepted(cl[c].got) => cl[c].got = Whole
      /\ cl[c].at \in {"delete", "reply"} => cl[c].plain = {Whole}
<1>1. CASE UNCHANGED cl
  BY <1>1 DEF GotInv
<1>2. ASSUME NEW c \in Clients, \A e \in Clients : e # c => cl'[e] = cl[e], Got(c)'
      PROVE  GotInv'
  BY <1>2 DEF GotInv
<1>3. ASSUME NEW c \in Clients, \A e \in Clients : e # c => cl'[e] = cl[e],
             cl'[c].at \in {"off", "list", "next"}
      PROVE  GotInv'
  BY <1>2, <1>3
<1>4. ASSUME NEW c \in Clients, GiveUp(c) PROVE GotInv'
  BY <1>3, <1>4, GiveUpEffect
<1>5. ASSUME NEW c \in Clients, NEW override \in BOOLEAN, Start(c, override) PROVE GotInv'
  BY <1>3, <1>5 DEF Start, ClientState
<1>6. ASSUME NEW c \in Clients, List(c) \/ Relist(c) PROVE GotInv'
  BY <1>3, <1>6 DEF List, Relist, ClientState
<1>7. ASSUME NEW c \in Clients, NEW f \in Files, Fetch(c, f) PROVE GotInv'
  <2>1. \A e \in Clients : e # c => cl'[e] = cl[e]
    BY <1>7 DEF Fetch, ClientState
  <2>2. \/ cl'[c].at = "fetch" /\ cl'[c].got \in {Whole, Blob!Wiped}
        \/ cl'[c].at = "next"
    BY <1>7 DEF Fetch, ClientState
  <2> QED BY <1>2, <2>1, <2>2, WipedFails
<1>8. ASSUME NEW c \in Clients, Fetched(c) PROVE GotInv'
  <2>1. PICK b \in {cl[c].got} \cup Blob!Spoilt(Chunks) :
            cl' = [cl EXCEPT ![c].at = "decrypt", ![c].got = b]
    BY <1>8 DEF Fetched, Reliable
  <2>2. /\ \A e \in Clients : e # c => cl'[e] = cl[e]
        /\ cl'[c].at = "decrypt" /\ cl'[c].got = b
    BY <2>1 DEF ClientState
  <2>3. Blob!Accepted(b) => b = Whole
    BY <1>8, SpoiltFails DEF Fetched, GotInv
  <2> QED BY <1>2, <2>2, <2>3
<1>9. ASSUME NEW c \in Clients, Decrypt(c) PROVE GotInv'
  <2>1. CASE Blob!Accepted(cl[c].got)
    <3>1. cl[c].got = Whole /\ Blob!Plain(Whole) = Whole
      BY <1>9, <2>1, WipedIsCopy, PlainIsBeginning DEF Decrypt, GotInv
    <3>2. cl' = [cl EXCEPT ![c].at = "delete", ![c].plain = {Whole}]
      BY <1>9, <2>1, <3>1 DEF Decrypt
    <3>3. /\ \A e \in Clients : e # c => cl'[e] = cl[e]
          /\ cl'[c].at = "delete" /\ cl'[c].plain = {Whole}
      BY <3>2 DEF ClientState
    <3> QED BY <1>2, <3>3
  <2>2. CASE ~Blob!Accepted(cl[c].got)
    BY <1>4, <1>9, <2>2 DEF Decrypt
  <2> QED BY <2>1, <2>2
<1>10. ASSUME NEW c \in Clients, AskDelete(c) PROVE GotInv'
  <2>1. /\ \A e \in Clients : e # c => cl'[e] = cl[e]
        /\ cl[c].at = "delete" /\ cl'[c].at = "reply" /\ cl'[c].plain = cl[c].plain
    BY <1>10 DEF AskDelete, ClientState
  <2> QED BY <1>2, <2>1 DEF GotInv
<1>11. ASSUME NEW c \in Clients, Kill(c) PROVE GotInv'
  <2>1. \A e \in Clients : e # c => cl'[e] = cl[e]
    BY <1>11 DEF Kill
  <2>2. cl'[c].at = "off"
    BY <1>11 DEF Kill, Off
  <2> QED BY <1>3, <2>1, <2>2
<1>12. ASSUME NEW c \in Clients, Done(c) \/ Refused(c) \/ FetchLost(c) \/ TimedOut(c)
       PROVE  GotInv'
  BY <1>4, <1>12 DEF Done, Refused, FetchLost, TimedOut
<1>13. ASSUME NEW c \in Clients, ServeDelete(c) \/ \E f \in Files : ServeLate(c, f)
       PROVE  UNCHANGED cl
  BY <1>13 DEF ServeDelete, ServeLate
<1>14. ASSUME \/ ServeStep \/ ServeFails \/ \E f \in Files : Adds(f)
              \/ \E d \in Deleters : WebStep(d) \/ WebFails(d) \/ \E f \in Files : WebDelete(d, f)
       PROVE  UNCHANGED cl
  BY <1>14 DEF ServeStep, ServeFails, Adds, WebStep, WebFails, WebDelete, client
<1>15. ~ServerCrash
  BY NoFaults DEF ServerCrash
<1>16. CASE UNCHANGED pull
  BY <1>1, <1>16 DEF pull, client
<1> QED
  BY <1>1, <1>5, <1>6, <1>7, <1>8, <1>9, <1>10, <1>11, <1>12, <1>13, <1>14, <1>15, <1>16
     DEF PullNext, ClientStep

\* Whoever asks for a deletion has the file, and moves it to its final name when
\* the answer comes; nothing else removes it.
LEMMA SafeStep ==
    ASSUME Reliable, StoreTypeOK, PullTypeOK, ClientInv, GotInv, SafeInv,
           del[Api].at = "replace" => tmp # Absent, [PullNext]_pull
    PROVE  SafeInv'
<1> cl \in [Clients -> ClientState] /\ req \in [Clients -> Requests]
  BY ClientsTyped
<1> USE DEF Requests
\* Nobody asks for another deletion, and what was safe is safe.
<1>1. ASSUME asked' \ dropped' \subseteq asked \ dropped,
             \A c \in Clients, f \in Files : Safe(c, f) => Safe(c, f)',
             \A c \in Clients, f \in Files : out[c][f] \subseteq out'[c][f],
             late' \subseteq late
      PROVE  SafeInv'
  <2>1. asked \subseteq Files
    BY DEF StoreTypeOK
  <2> QED BY <1>1, <2>1 DEF SafeInv
<1>2. ASSUME UNCHANGED <<out, late>>, asked' \ dropped' \subseteq asked \ dropped,
             \A c \in Clients : cl'[c] = cl[c] \/ cl[c].at # "reply",
             \A c \in Clients : req'[c] = req[c] \/ cl[c].at # "reply"
      PROVE  SafeInv'
  BY <1>1, <1>2 DEF Safe
<1>3. ASSUME NEW c \in Clients,
             \/ List(c) \/ Relist(c) \/ Fetched(c) \/ Decrypt(c) \/ AskDelete(c)
             \/ \E f \in Files : Fetch(c, f)
             \/ \E override \in BOOLEAN : Start(c, override)
      PROVE  SafeInv'
  <2>1. UNCHANGED <<asked, dropped, out, late>> /\ cl[c].at # "reply"
    BY <1>3 DEF List, Relist, Fetched, Decrypt, AskDelete, Fetch, Start, store
  <2>2. \A e \in Clients : e # c => cl'[e] = cl[e] /\ req'[e] = req[e]
    BY <1>3 DEF List, Relist, Fetched, Decrypt, AskDelete, Fetch, Start, GiveUp
  <2> QED BY <1>2, <2>1, <2>2
<1>4. ASSUME NEW c \in Clients, Done(c) PROVE SafeInv'
  <2>1. cl[c].plain = {Whole} /\ cl[c].file \in Files
    BY <1>4 DEF Done, GotInv, ClientInv, ClientOK, Busy
  <2>2. /\ UNCHANGED <<asked, dropped, late>>
        /\ Whole \in out'[c][cl[c].file]
        /\ \A e \in Clients, f \in Files : out[e][f] \subseteq out'[e][f]
        /\ \A e \in Clients : e # c => cl'[e] = cl[e] /\ req'[e] = req[e]
    BY <1>4, <2>1, GiveUpEffect DEF Done, store, PullTypeOK
  <2> QED BY <1>1, <2>2 DEF Safe
<1>5. ASSUME NEW c \in Clients, Refused(c) PROVE SafeInv'
  <2>1. /\ UNCHANGED <<asked, dropped, late, out>> /\ req[c] = "refused"
        /\ \A e \in Clients : e # c => cl'[e] = cl[e] /\ req'[e] = req[e]
    BY <1>5, GiveUpEffect DEF Refused, store
  <2> QED BY <1>1, <2>1 DEF Safe
<1>6. ASSUME NEW c \in Clients, FetchLost(c) \/ TimedOut(c) PROVE FALSE
  BY <1>6 DEF FetchLost, TimedOut, Reliable
<1>7. ASSUME NEW c \in Clients, Kill(c) PROVE SafeInv'
  <2>1. /\ UNCHANGED <<asked, dropped>>
        /\ \A e \in Clients, f \in Files : out[e][f] \subseteq out'[e][f]
        /\ \A e \in Clients : e # c => cl'[e] = cl[e] /\ req'[e] = req[e]
    BY <1>7, KillLeaves DEF Kill, Orphan, store
  <2>2. cl[c].at = "reply" => Whole \in out'[c][cl[c].file]
    <3> SUFFICES ASSUME cl[c].at = "reply" PROVE Whole \in out'[c][cl[c].file]
      OBVIOUS
    <3>1. cl[c].plain = {Whole} /\ cl[c].file \in Files
      BY DEF GotInv, ClientInv, ClientOK, Busy
    <3>2. out' = [out EXCEPT ![c] = [f \in Files |->
                    IF f = cl[c].file THEN out[c][f] \cup cl[c].plain ELSE out[c][f]]]
      BY <1>7 DEF Kill
    <3> QED BY <3>1, <3>2 DEF PullTypeOK
  <2>3. \A f \in asked' \ dropped' : \E e \in Clients : Safe(e, f)'
    <3>1. asked \subseteq Files
      BY DEF StoreTypeOK
    <3>2. \A e \in Clients, f \in Files : Safe(e, f) => Safe(e, f)'
      BY <2>1, <2>2 DEF Safe
    <3> QED BY <2>1, <3>1, <3>2 DEF SafeInv
  <2>4. \A e \in Clients, f \in Files : <<e, f>> \in late' => Whole \in out'[e][f]
    <3>1. \/ UNCHANGED late
          \/ req[c] = "sent" /\ late' = late \cup {<<c, cl[c].file>>}
      BY <1>7 DEF Kill, Orphan
    <3>2. req[c] = "sent" => cl[c].at = "reply"
      BY DEF ClientInv, ClientOK
    <3> QED BY <2>1, <2>2, <3>1, <3>2 DEF SafeInv
  <2> QED BY <2>3, <2>4 DEF SafeInv
\* A deletion is accepted from a client that has the file.
<1>8. ASSUME NEW c \in Clients, ServeDelete(c) PROVE SafeInv'
  <2>1. UNCHANGED <<dropped, late, out, cl>> /\ cl[c].at = "reply" /\ req[c] = "sent"
    BY <1>8 DEF ServeDelete
  <2>2. \A e \in Clients : e # c => req'[e] = req[e]
    BY <1>8 DEF ServeDelete
  <2>3. \A e \in Clients, f \in Files : Safe(e, f) => Safe(e, f)'
    BY <2>1, <2>2 DEF Safe
  <2>4. CASE UNCHANGED store
    BY <1>1, <2>1, <2>3, <2>4 DEF store
  <2>5. CASE Delete(Api, cl[c].file) /\ req' = [req EXCEPT ![c] = "served"]
    <3>1. asked' = asked \cup {cl[c].file} /\ asked \subseteq Files
      BY <2>5 DEF Delete, StoreTypeOK
    <3>2. Safe(c, cl[c].file)'
      BY <2>1, <2>5 DEF Safe
    <3> QED BY <2>1, <2>3, <3>1, <3>2 DEF SafeInv
  <2> QED BY <1>8, <2>4, <2>5 DEF ServeDelete
<1>9. ASSUME NEW c \in Clients, NEW f \in Files, ServeLate(c, f) PROVE SafeInv'
  <2>1. /\ UNCHANGED <<dropped, out, cl, req>> /\ late' \subseteq late
        /\ asked' \subseteq asked \cup {f}
    BY <1>9 DEF ServeLate, Delete, store
  <2>2. Safe(c, f)'
    BY <1>9, <2>1 DEF ServeLate, SafeInv, Safe
  <2>3. \A e \in Clients, g \in Files : Safe(e, g) => Safe(e, g)'
    BY <2>1 DEF Safe
  <2>4. asked \subseteq Files
    BY DEF StoreTypeOK
  <2> QED BY <2>1, <2>2, <2>3, <2>4 DEF SafeInv
<1>10. ASSUME NEW d \in Deleters, Deletion(d) PROVE UNCHANGED asked
  BY <1>10 DEF Deletion, Wipe, Unlink, UnlinkMeta, OpenSource, OpenTmp, ReadManifest, WriteTmp,
     Rename, Replace, ReplaceFails
<1>11. CASE ServeStep
  <2>1. UNCHANGED <<asked, dropped, late, out, cl>>
    <3>1. Deletion(Api)
      BY <1>11 DEF ServeStep, Deletion
    <3> QED BY <1>10, <1>11, <3>1, PullAssumption DEF ServeStep
  <2>2. \A c \in Clients : req[c] \in {"served", "ok"} => req'[c] \in {"served", "ok"}
    <3>1. CASE UNCHANGED req
      BY <3>1
    <3>2. CASE Rename(Api) /\ Answer(IF tmp = Absent THEN "refused" ELSE "ok")
      <4>1. Answer("ok")
        BY <3>2 DEF Rename
      <4> QED BY <4>1 DEF Answer
    <3> QED BY <1>11, <3>1, <3>2 DEF ServeStep
  <2> QED BY <1>1, <2>1, <2>2 DEF Safe
<1>12. ASSUME NEW f \in Files, Adds(f) PROVE SafeInv'
  <2>1. UNCHANGED <<asked, dropped, out, late, cl, req>>
    BY <1>12 DEF Adds, client, Land, AppendCompleted, OpenManifest, WriteLine, WriteDuration,
       AppFail
  <2> QED BY <1>2, <2>1
<1>13. ASSUME NEW d \in Deleters, WebStep(d) PROVE SafeInv'
  BY <1>2, <1>10, <1>13 DEF WebStep, client
<1>14. ASSUME NEW d \in Deleters, NEW f \in Files, WebDelete(d, f) PROVE SafeInv'
  <2>1. UNCHANGED <<out, late, cl, req>> /\ asked' \ dropped' \subseteq asked \ dropped
    BY <1>14 DEF WebDelete, Delete
  <2> QED BY <1>2, <2>1
<1>15. ~ServerCrash /\ ~ServeFails /\ \A d \in Deleters : ~WebFails(d)
  BY NoFaults, PullAssumption DEF ServerCrash, ServeFails, WebFails
<1>16. CASE UNCHANGED pull
  BY <1>2, <1>16 DEF pull, store, client
<1> QED
  BY <1>3, <1>4, <1>5, <1>6, <1>7, <1>8, <1>9, <1>11, <1>12, <1>13, <1>14, <1>15, <1>16
     DEF PullNext, ClientStep

\* If nothing is lost on the way and the server does not die: a file that was
\* added and that the web user did not delete is whole, in the store or in the
\* output directory of a client, though clients be killed or displaced anywhere.
THEOREM NoDataLostHolds ==
    ASSUME Reliable
    PROVE  PullSpec => []NoDataLost
<1> DEFINE CopyInv == GotInv /\ AddedInv /\ SafeInv
<1>1. PullInv /\ CopyInv /\ (del[Api].at = "replace" => tmp # Absent) /\ [PullNext]_pull
        => CopyInv'
  <2> SUFFICES ASSUME PullInv, CopyInv, del[Api].at = "replace" => tmp # Absent,
                      [PullNext]_pull
               PROVE  CopyInv'
    OBVIOUS
  <2>1. [StoreNext]_store
    BY PullStoreStep DEF PullInv
  <2>2. AddedInv'
    BY <2>1, AddedStep DEF PullInv, StoreInv
  <2> QED BY <2>2, GotStep, SafeStep DEF PullInv, StoreInv
<1>2. PullInv /\ CopyInv => NoDataLost
  <2> SUFFICES ASSUME PullInv, CopyInv,
                      NEW f \in Files, app[f].at = "done", f \notin dropped,
                      blob[f] # "whole"
               PROVE  \E c \in Clients : HasCopy(c, f)
    BY DEF NoDataLost
  <2>1. f \in asked
    BY DEF AddedInv, Held
  <2>2. PICK c \in Clients : Safe(c, f)
    BY <2>1 DEF SafeInv
  <2>3. HasCopy(c, f)
    BY <2>2 DEF Safe, HasCopy, GotInv
  <2> QED BY <2>3
<1> HIDE DEF CopyInv
<1>3. PullInit => CopyInv
  BY CopyInit DEF CopyInv
<1> QED BY <1>1, <1>2, <1>3, PullInvariant, RenameSucceeds, PTL DEF PullSpec
=============================================================================
