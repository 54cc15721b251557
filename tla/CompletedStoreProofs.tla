------------------------ MODULE CompletedStoreProofs ------------------------
(***************************************************************************)
(* What holds of the completed store for any number of files, deleters and *)
(* faults, however changes of the manifest overlap, and what more holds as *)
(* long as they have not.                                                  *)
(***************************************************************************)
EXTENDS CompletedStore, TLAPS

\* The actions of a thread that adds f, and of deleter d.
LEMMA StepCases ==
    ASSUME StoreNext
    PROVE  \/ \E f \in Files : \/ Land(f) \/ OpenManifest(f) \/ WriteLine(f)
                              \/ WriteDuration(f) \/ AppFail(f)
           \/ \E d \in Deleters : \/ Wipe(d) \/ Unlink(d) \/ UnlinkMeta(d) \/ OpenSource(d)
                                 \/ OpenTmp(d) \/ ReadManifest(d) \/ WriteTmp(d) \/ DelFail(d)
                                 \/ (tmp # Absent /\ Replace(d)) \/ ReplaceFails(d)
           \/ \E d \in Deleters, f \in Files : Delete(d, f)
           \/ StoreCrash
BY DEF StoreNext, AppendCompleted, Deletion, Rename

\* A handle on manifest.db.tmp is a handle on a file that is there.
TmpOpen == \A d \in Deleters : del[d].dst = "tmp" => tmp # Absent

Calls == [at : DelPlaces, file : Files, copy : SUBSET Lines, src : Handles, dst : Handles]

\* A file that is not there differs from one with any lines in it.
LEMMA LinesNotAbsent == \A c \in SUBSET Lines : c # Absent
BY AbsentAssumption DEF Absent, Lines, Torn, Stub

\* A rewrite leaves lines only.
LEMMA OverwrittenLines ==
    ASSUME NEW old \in SUBSET Lines, NEW new \in SUBSET Lines,
           NEW c \in Overwritten(old, new)
    PROVE  c \in SUBSET Lines /\ c \cap Files \subseteq old \cup new
BY TornAssumption DEF Overwritten, Lines

\* So does an append.
LEMMA AppendedLines ==
    ASSUME NEW m \in SUBSET Lines, NEW line \in Lines
    PROVE  Appended(m, line) \in SUBSET Lines /\ Appended(m, line) \cap Files \subseteq m \cup {line}
BY TornAssumption DEF Appended, Lines

\* What was opened as manifest.db.tmp is the manifest after the rename, and
\* nothing is open under the name of the tmp file any more.
LEMMA RenamedHandle ==
    ASSUME NEW h \in Handles
    PROVE  Renamed(h) \in Handles /\ (Renamed(h) = "main" <=> h = "tmp")
                                 /\ Renamed(h) # "tmp"
BY DEF Renamed, Handles

\* An append adds a line to the manifest, or to what a deleter is about to read.
LEMMA AppendStep ==
    ASSUME StoreTypeOK, NEW f \in Files, NEW line \in Lines, AppendLine(f, line)
    PROVE  /\ main' \in SUBSET Lines /\ main' \cap Files \subseteq main \cup {line}
           /\ del' \in [Deleters -> Calls]
           /\ \A d \in Deleters :
                 /\ del'[d].at = del[d].at /\ del'[d].file = del[d].file
                 /\ del'[d].src = del[d].src /\ del'[d].dst = del[d].dst
                 /\ del'[d].copy \cap Files \subseteq del[d].copy \cup {line}
<1> USE DEF StoreTypeOK
<1>1. CASE main' = Appended(main, line) /\ UNCHANGED del
  BY <1>1, AppendedLines DEF Calls
<1>2. CASE UNCHANGED main /\ \E readers \in SUBSET Deleters :
              del' = [d \in Deleters |->
                IF d \in readers THEN [del[d] EXCEPT !.copy = Appended(@, line)] ELSE del[d]]
  <2>1. PICK readers \in SUBSET Deleters :
              del' = [d \in Deleters |->
                IF d \in readers THEN [del[d] EXCEPT !.copy = Appended(@, line)] ELSE del[d]]
    BY <1>2
  <2>2. ASSUME NEW d \in Deleters
        PROVE  /\ del'[d] \in Calls
               /\ del'[d].at = del[d].at /\ del'[d].file = del[d].file
               /\ del'[d].src = del[d].src /\ del'[d].dst = del[d].dst
               /\ del'[d].copy \cap Files \subseteq del[d].copy \cup {line}
    <3>1. del[d] \in Calls /\ del[d].copy \in SUBSET Lines
      BY DEF Calls
    <3>2. /\ Appended(del[d].copy, line) \in SUBSET Lines
          /\ Appended(del[d].copy, line) \cap Files \subseteq del[d].copy \cup {line}
      BY <3>1, AppendedLines
    <3>3. CASE d \in readers
      <4>1. del'[d] = [del[d] EXCEPT !.copy = Appended(del[d].copy, line)]
        BY <2>1, <3>3
      <4> QED BY <3>1, <3>2, <4>1 DEF Calls
    <3>4. CASE d \notin readers
      BY <2>1, <3>1, <3>4
    <3> QED BY <3>3, <3>4
  <2>3. del' \in [Deleters -> Calls]
    BY <2>1, <2>2
  <2> QED BY <1>2, <2>2, <2>3
<1>3. {d \in Deleters : del[d].src = "old"} \subseteq Deleters
  OBVIOUS
<1> QED BY <1>1, <1>2, <1>3 DEF AppendLine

\* A write puts lines where they belong and neither makes nor removes a file.
LEMMA WriteStep ==
    ASSUME StoreTypeOK, TmpOpen, NEW d \in Deleters, NEW lines \in SUBSET Lines,
           Write(d, lines)
    PROVE  /\ main' \in SUBSET Lines /\ main' \cap Files \subseteq main \cup lines
           /\ tmp' \in (SUBSET Lines) \cup {Absent}
           /\ tmp # Absent => tmp' # Absent
           /\ tmp' # Absent => tmp' \cap Files \subseteq tmp \cup lines
<1> USE DEF StoreTypeOK
<1>1. CASE del[d].dst = "tmp" /\ tmp' \in Overwritten(tmp, lines) /\ UNCHANGED main
  <2>1. tmp \in SUBSET Lines
    BY <1>1 DEF TmpOpen
  <2>2. tmp' \in SUBSET Lines /\ tmp' \cap Files \subseteq tmp \cup lines
    BY <1>1, <2>1, OverwrittenLines
  <2> QED BY <1>1, <2>2, LinesNotAbsent
<1>2. CASE main' \in Overwritten(main, lines) /\ UNCHANGED tmp
  BY <1>2, OverwrittenLines
<1>3. CASE UNCHANGED <<main, tmp>>
  BY <1>3
<1> QED BY <1>1, <1>2, <1>3 DEF Write

\* A rename leaves every deleter where it is, but for the one that renames.
LEMMA ReplaceStep ==
    ASSUME StoreTypeOK, NEW d \in Deleters, tmp # Absent, Replace(d)
    PROVE  /\ app' \in [Files -> [at : AppPlaces, dst : Handles]]
           /\ del' \in [Deleters -> Calls]
           /\ \A f \in Files : app'[f].at = app[f].at
           /\ \A e \in Deleters :
                 /\ del'[e].file = del[e].file
                 /\ del'[e].at = IF e = d THEN "idle" ELSE del[e].at
                 /\ del'[e].dst # "tmp"
                 /\ del'[e].copy \subseteq del[e].copy \cup main
<1> USE DEF StoreTypeOK
<1>1. app' \in [Files -> [at : AppPlaces, dst : Handles]] /\ \A f \in Files : app'[f].at = app[f].at
  BY RenamedHandle DEF Replace
<1>2. ASSUME NEW e \in Deleters
      PROVE  /\ del'[e] \in Calls
             /\ del'[e].file = del[e].file
             /\ del'[e].at = IF e = d THEN "idle" ELSE del[e].at
             /\ del'[e].dst # "tmp"
             /\ del'[e].copy \subseteq del[e].copy \cup main
  <2>1. CASE e = d
    BY <2>1 DEF Replace, NoCall, Calls, DelPlaces, Handles
  <2>2. CASE e # d
    <3>1. del'[e] = [del[e] EXCEPT !.src = Renamed(@), !.dst = Renamed(@),
                                   !.copy = IF del[e].src = "main" THEN main ELSE @]
      BY <2>2 DEF Replace, Moved
    <3>2. Renamed(del[e].src) \in Handles /\ Renamed(del[e].dst) \in Handles
             /\ Renamed(del[e].dst) # "tmp"
      BY RenamedHandle
    <3>3. del[e] \in Calls
      BY DEF Calls
    <3>4. /\ del'[e].file = del[e].file /\ del'[e].at = del[e].at
          /\ del'[e].src = Renamed(del[e].src) /\ del'[e].dst = Renamed(del[e].dst)
          /\ del'[e].copy = IF del[e].src = "main" THEN main ELSE del[e].copy
      BY <3>1, <3>3 DEF Calls
    <3>5. del'[e] \in Calls
      BY <3>1, <3>2, <3>3 DEF Calls
    <3> QED BY <2>2, <3>2, <3>4, <3>5
  <2> QED BY <2>1, <2>2
<1>3. del' \in [Deleters -> Calls]
  BY <1>2 DEF Replace
<1> QED BY <1>1, <1>2, <1>3

\* What a deleter reads are lines.
LEMMA SourceLines ==
    ASSUME StoreTypeOK, NEW d \in Deleters
    PROVE  Source(d) \in SUBSET Lines /\ Source(d) \subseteq main \cup del[d].copy
BY DEF StoreTypeOK, Source

\* At the start nothing is open and there is no manifest.
LEMMA TypeInit == StoreInit => StoreTypeOK /\ TmpOpen
<1> SUFFICES ASSUME StoreInit PROVE StoreTypeOK /\ TmpOpen
  OBVIOUS
<1>1. PICK f \in Files : del = [d \in Deleters |-> NoCall(f)]
  BY DEF StoreInit
<1>2. NoCall(f) \in Calls /\ NoCall(f).dst # "tmp"
  BY DEF NoCall, Calls, DelPlaces, Handles
<1>3. del \in [Deleters -> Calls] /\ TmpOpen
  BY <1>1, <1>2 DEF TmpOpen
<1>4. app \in [Files -> [at : AppPlaces, dst : Handles]]
  BY DEF StoreInit, AppPlaces, Handles
<1>5. main \in SUBSET Lines /\ tmp \in (SUBSET Lines) \cup {Absent}
  BY DEF StoreInit
<1>6. del \in [Deleters -> [at : DelPlaces, file : Files, copy : SUBSET Lines,
                          src : Handles, dst : Handles]]
  BY <1>3 DEF Calls
<1>7. blob \in [Files -> {"none", "whole", "wiped"}] /\ faults \in 0..MaxFaults
  BY StoreAssumption DEF StoreInit
<1> QED BY <1>3, <1>4, <1>5, <1>6, <1>7 DEF StoreInit, StoreTypeOK

\* Every step of a thread, of the store and a crash preserve the types.
LEMMA TypeStep == StoreTypeOK /\ TmpOpen /\ [StoreNext]_store => StoreTypeOK'
<1> SUFFICES ASSUME StoreTypeOK, TmpOpen, [StoreNext]_store PROVE StoreTypeOK'
  OBVIOUS
<1> USE DEF StoreTypeOK
<1>1. CASE UNCHANGED store
  BY <1>1 DEF store
<1>2. ASSUME NEW f \in Files, Land(f) PROVE StoreTypeOK'
  BY <1>2 DEF Land, Begins, AppStep, AppPlaces, Deleting
<1>3. ASSUME NEW f \in Files, OpenManifest(f) PROVE StoreTypeOK'
  BY <1>3 DEF OpenManifest, AppPlaces, Handles
<1>4. ASSUME NEW f \in Files, WriteLine(f) PROVE StoreTypeOK'
  <2>1. f \in Lines
    BY DEF Lines
  <2>2. main' \in SUBSET Lines /\ del' \in [Deleters -> Calls]
    BY <1>4, <2>1, AppendStep DEF WriteLine
  <2> QED BY <1>4, <2>2 DEF WriteLine, AppPlaces, Handles, Calls
<1>5. ASSUME NEW f \in Files, WriteDuration(f) PROVE StoreTypeOK'
  BY <1>5 DEF WriteDuration, AppStep, AppPlaces
<1>6. ASSUME NEW f \in Files, AppFail(f) PROVE StoreTypeOK'
  <2>1. main' \in SUBSET Lines /\ del' \in [Deleters -> Calls]
    <3>1. CASE UNCHANGED <<main, del>>
      BY <3>1 DEF Calls
    <3>2. CASE AppendLine(f, Stub)
      <4>1. Stub \in Lines
        BY DEF Lines
      <4> QED BY <3>2, <4>1, AppendStep
    <3> QED BY <1>6, <3>1, <3>2 DEF AppFail
  <2> QED BY <1>6, <2>1, StoreAssumption DEF AppFail, AppPlaces, Handles, Calls
<1>7. ASSUME NEW d \in Deleters, Wipe(d) PROVE StoreTypeOK'
  BY <1>7 DEF Wipe, Goes, DelPlaces
<1>8. ASSUME NEW d \in Deleters, Unlink(d) PROVE StoreTypeOK'
  BY <1>8 DEF Unlink, Goes, DelPlaces
<1>9. ASSUME NEW d \in Deleters, UnlinkMeta(d) PROVE StoreTypeOK'
  BY <1>9 DEF UnlinkMeta, Goes, DelPlaces
<1>10. ASSUME NEW d \in Deleters, OpenSource(d) PROVE StoreTypeOK'
  <2>1. del' = [del EXCEPT ![d] = [@ EXCEPT !.at = "open", !.src = "main"]]
    BY <1>10 DEF OpenSource
  <2>2. [del[d] EXCEPT !.at = "open", !.src = "main"] \in Calls
    BY DEF Calls, DelPlaces, Handles
  <2>3. del' \in [Deleters -> Calls]
    BY <2>1, <2>2 DEF Calls
  <2> QED BY <1>10, <2>3 DEF OpenSource, Calls
<1>11. ASSUME NEW d \in Deleters, OpenTmp(d) PROVE StoreTypeOK'
  <2>1. tmp' \in (SUBSET Lines) \cup {Absent}
    <3>1. {} \in SUBSET Lines
      OBVIOUS
    <3> QED BY <1>11, <3>1 DEF OpenTmp
  <2>2. del' = [del EXCEPT ![d] = [@ EXCEPT !.at = "read", !.dst = "tmp"]]
    BY <1>11 DEF OpenTmp
  <2>3. [del[d] EXCEPT !.at = "read", !.dst = "tmp"] \in Calls
    BY DEF Calls, DelPlaces, Handles
  <2>4. del' \in [Deleters -> Calls]
    BY <2>2, <2>3 DEF Calls
  <2> QED BY <1>11, <2>1, <2>4 DEF OpenTmp, Calls
<1>12. ASSUME NEW d \in Deleters, ReadManifest(d) PROVE StoreTypeOK'
  <2>1. Source(d) \ {del[d].file} \in SUBSET Lines
    BY SourceLines
  <2> DEFINE lines == Source(d) \ {del[d].file}
  <2>2. del' = [del EXCEPT ![d] = [@ EXCEPT !.at = "write", !.src = "none", !.copy = lines]]
    BY <1>12 DEF ReadManifest
  <2>3. [del[d] EXCEPT !.at = "write", !.src = "none", !.copy = lines] \in Calls
    BY <2>1 DEF Calls, DelPlaces, Handles
  <2>4. del' \in [Deleters -> Calls]
    BY <2>2, <2>3 DEF Calls
  <2> QED BY <1>12, <2>4 DEF ReadManifest, Calls
<1>13. ASSUME NEW d \in Deleters, WriteTmp(d) PROVE StoreTypeOK'
  <2>1. main' \in SUBSET Lines /\ tmp' \in (SUBSET Lines) \cup {Absent}
    BY <1>13, WriteStep DEF WriteTmp
  <2> QED BY <1>13, <2>1 DEF WriteTmp, NoCall, DelPlaces, Handles
<1>14. ASSUME NEW d \in Deleters, tmp # Absent, Replace(d) PROVE StoreTypeOK'
  <2>1. main' \in SUBSET Lines /\ tmp' \in (SUBSET Lines) \cup {Absent}
    BY <1>14 DEF Replace
  <2> QED BY <1>14, <2>1, ReplaceStep DEF Replace, Calls
<1>15. ASSUME NEW d \in Deleters, ReplaceFails(d) PROVE StoreTypeOK'
  BY <1>15 DEF ReplaceFails, NoCall, DelPlaces, Handles
<1>16. ASSUME NEW d \in Deleters, DelFail(d) PROVE StoreTypeOK'
  <2>1. main' \in SUBSET Lines /\ tmp' \in (SUBSET Lines) \cup {Absent}
    <3>1. CASE UNCHANGED <<main, tmp>>
      BY <3>1
    <3>2. ASSUME NEW some \in SUBSET del[d].copy, Write(d, some \cup {Stub})
          PROVE  main' \in SUBSET Lines /\ tmp' \in (SUBSET Lines) \cup {Absent}
      <4>1. some \cup {Stub} \in SUBSET Lines
        BY DEF Lines
      <4> QED BY <3>2, <4>1, WriteStep
    <3> QED BY <1>16, <3>1, <3>2 DEF DelFail
  <2> QED BY <1>16, <2>1, StoreAssumption DEF DelFail, NoCall, DelPlaces, Handles
<1>17. ASSUME NEW d \in Deleters, NEW f \in Files, Delete(d, f) PROVE StoreTypeOK'
  BY <1>17 DEF Delete, Begins, Deleting, Adding, NoCall, DelPlaces, Handles
<1>18. CASE StoreCrash
  BY <1>18, StoreAssumption DEF StoreCrash, NoCall, AppPlaces, DelPlaces, Handles
<1> QED
  BY StepCases, <1>1, <1>2, <1>3, <1>4, <1>5, <1>6, <1>7, <1>8, <1>9, <1>10,
     <1>11, <1>12, <1>13, <1>14, <1>15, <1>16, <1>17, <1>18

\* Only a rename takes manifest.db.tmp away, and it renames the handles with it.
LEMMA TmpOpenStep == StoreTypeOK /\ TmpOpen /\ [StoreNext]_store => TmpOpen'
<1> SUFFICES ASSUME StoreTypeOK, TmpOpen, [StoreNext]_store PROVE TmpOpen'
  OBVIOUS
<1>1. ASSUME tmp # Absent => tmp' # Absent,
             \A e \in Deleters : del'[e].dst = "tmp" => del[e].dst = "tmp" \/ tmp' # Absent
      PROVE  TmpOpen'
  BY <1>1 DEF TmpOpen
<1>2. CASE UNCHANGED store
  BY <1>2 DEF store, TmpOpen
<1>3. ASSUME NEW f \in Files,
             Land(f) \/ OpenManifest(f) \/ WriteLine(f) \/ WriteDuration(f) \/ AppFail(f)
      PROVE  TmpOpen'
  <2>1. f \in Lines /\ Stub \in Lines
    BY DEF Lines
  <2>2. CASE UNCHANGED del
    BY <1>1, <1>3, <2>2 DEF Land, OpenManifest, WriteLine, WriteDuration, AppFail
  <2>3. CASE AppendLine(f, f) \/ AppendLine(f, Stub)
    <3>1. \A e \in Deleters : del'[e].dst = del[e].dst
      BY <2>1, <2>3, AppendStep
    <3> QED BY <1>1, <1>3, <3>1 DEF Land, OpenManifest, WriteLine, WriteDuration, AppFail
  <2> QED BY <1>3, <2>2, <2>3 DEF Land, OpenManifest, WriteLine, WriteDuration, AppFail
<1>4. ASSUME NEW d \in Deleters,
             Wipe(d) \/ Unlink(d) \/ UnlinkMeta(d) \/ OpenSource(d) \/ ReadManifest(d)
      PROVE  TmpOpen'
  <2>1. CASE Wipe(d) \/ Unlink(d) \/ UnlinkMeta(d)
    BY <2>1 DEF Wipe, Unlink, UnlinkMeta, Goes, TmpOpen, StoreTypeOK
  <2>2. CASE OpenSource(d)
    BY <2>2 DEF OpenSource, TmpOpen, StoreTypeOK
  <2>3. CASE ReadManifest(d)
    BY <2>3 DEF ReadManifest, TmpOpen, StoreTypeOK
  <2> QED BY <1>4, <2>1, <2>2, <2>3
<1>5. ASSUME NEW d \in Deleters, OpenTmp(d) PROVE TmpOpen'
  BY <1>5 DEF OpenTmp, TmpOpen, Absent
<1>6. ASSUME NEW d \in Deleters, WriteTmp(d) PROVE TmpOpen'
  <2>1. tmp # Absent => tmp' # Absent
    <3>1. del[d].copy \in SUBSET Lines
      BY DEF StoreTypeOK
    <3> QED BY <1>6, <3>1, WriteStep DEF WriteTmp
  <2> QED BY <1>1, <1>6, <2>1 DEF WriteTmp, NoCall, StoreTypeOK
<1>7. ASSUME NEW d \in Deleters, DelFail(d) PROVE TmpOpen'
  <2>1. tmp # Absent => tmp' # Absent
    <3>1. CASE UNCHANGED tmp
      BY <3>1
    <3>2. ASSUME NEW some \in SUBSET del[d].copy, Write(d, some \cup {Stub})
          PROVE  tmp # Absent => tmp' # Absent
      <4>1. some \cup {Stub} \in SUBSET Lines
        BY DEF Lines, StoreTypeOK
      <4> QED BY <3>2, <4>1, WriteStep
    <3> QED BY <1>7, <3>1, <3>2 DEF DelFail
  <2> QED BY <1>1, <1>7, <2>1 DEF DelFail, NoCall, StoreTypeOK
<1>8. ASSUME NEW d \in Deleters, tmp # Absent, Replace(d) PROVE TmpOpen'
  BY <1>8, ReplaceStep DEF TmpOpen
<1>9. ASSUME NEW d \in Deleters, NEW f \in Files, ReplaceFails(d) \/ Delete(d, f)
      PROVE  TmpOpen'
  BY <1>9 DEF ReplaceFails, Delete, TmpOpen, StoreTypeOK, NoCall
<1>10. ASSUME NEW d \in Deleters, ReplaceFails(d) PROVE TmpOpen'
  BY <1>10 DEF ReplaceFails, TmpOpen, StoreTypeOK, NoCall
<1>11. CASE StoreCrash
  BY <1>11 DEF StoreCrash, TmpOpen, NoCall
<1> QED
  BY StepCases, <1>2, <1>3, <1>4, <1>5, <1>6, <1>7, <1>8, <1>9, <1>10, <1>11

-----------------------------------------------------------------------------
(* A line of a file nobody asked to delete is found only where its blob is  *)
(* whole: in the manifest, in the temporary file, in a copy in memory, in a *)
(* replaced manifest that is still to be read, or in the hands of the       *)
(* thread that adds the file.                                               *)

Held(f) == blob[f] = "whole" \/ f \in asked

\* No line without its blob, in the manifest and in all that may become it: the
\* tmp file, what the deleters have read or hold open, the lines about to be added.
LineInv ==
    /\ \A f \in Files : f \in main => Held(f)
    /\ \A f \in Files : tmp # Absent /\ f \in tmp => Held(f)
    /\ \A d \in Deleters, f \in Files : f \in del[d].copy => Held(f)
    /\ \A f \in Files : Adding(f) => Held(f)
    /\ \A d \in Deleters : Deleting(d) => del[d].file \in asked

\* At the start there is no line anywhere.
LEMMA LineInit == StoreInit => LineInv
BY DEF StoreInit, LineInv, NoCall, Adding, Deleting

\* What was asked for stays asked for, and what a fault has hit stays hit.
LEMMA HistoryGrows ==
    ASSUME [StoreNext]_store
    PROVE  asked \subseteq asked' /\ hit \subseteq hit'
<1>1. ASSUME NEW f \in Files, \/ Land(f) \/ OpenManifest(f) \/ WriteLine(f)
                              \/ WriteDuration(f) \/ AppFail(f)
      PROVE  asked \subseteq asked' /\ hit \subseteq hit'
  BY <1>1 DEF Land, Begins, OpenManifest, WriteLine, WriteDuration, AppFail
<1>2. ASSUME NEW d \in Deleters, \/ Wipe(d) \/ Unlink(d) \/ UnlinkMeta(d) \/ OpenSource(d)
                                 \/ OpenTmp(d) \/ ReadManifest(d) \/ WriteTmp(d) \/ DelFail(d)
                                 \/ Replace(d) \/ ReplaceFails(d)
                                 \/ \E f \in Files : Delete(d, f)
      PROVE  asked \subseteq asked' /\ hit \subseteq hit'
  BY <1>2 DEF Wipe, Unlink, UnlinkMeta, OpenSource, OpenTmp, ReadManifest, WriteTmp, DelFail,
     Replace, ReplaceFails, Delete, Begins
<1>3. CASE StoreCrash
  BY <1>3 DEF StoreCrash
<1>4. CASE UNCHANGED store
  BY <1>4 DEF store
<1> QED BY StepCases, <1>1, <1>2, <1>3, <1>4

\* Changes that have overlapped remain so.
LEMMA OverlapStays == [StoreNext]_store /\ ~overlapped' => ~overlapped
<1> SUFFICES ASSUME [StoreNext]_store, ~overlapped' PROVE ~overlapped
  OBVIOUS
<1>1. CASE overlapped' = overlapped
  BY <1>1
<1>2. ASSUME NEW busy, Begins(busy) PROVE ~overlapped
  BY <1>2 DEF Begins
<1>3. ASSUME NEW f \in Files, \/ OpenManifest(f) \/ WriteLine(f)
                              \/ WriteDuration(f) \/ AppFail(f)
      PROVE  overlapped' = overlapped
  BY <1>3 DEF OpenManifest, WriteLine, WriteDuration, AppFail
<1>4. ASSUME NEW d \in Deleters, \/ Wipe(d) \/ Unlink(d) \/ UnlinkMeta(d) \/ OpenSource(d)
                                 \/ OpenTmp(d) \/ ReadManifest(d) \/ WriteTmp(d) \/ DelFail(d)
                                 \/ Replace(d) \/ ReplaceFails(d)
      PROVE  overlapped' = overlapped
  BY <1>4 DEF Wipe, Unlink, UnlinkMeta, OpenSource, OpenTmp, ReadManifest, WriteTmp, DelFail,
     Replace, ReplaceFails
<1>5. ASSUME NEW f \in Files, Land(f) PROVE ~overlapped
  BY <1>2, <1>5 DEF Land
<1>6. ASSUME NEW d \in Deleters, NEW f \in Files, Delete(d, f) PROVE ~overlapped
  BY <1>2, <1>6 DEF Delete
<1>7. StoreCrash => overlapped' = overlapped
  BY DEF StoreCrash
<1>8. UNCHANGED store => overlapped' = overlapped
  BY DEF store
<1> QED BY StepCases, <1>1, <1>3, <1>4, <1>5, <1>6, <1>7, <1>8

\* A blob disappears only when its deletion was asked for.
LEMMA HeldKept ==
    ASSUME StoreTypeOK, LineInv, StoreNext, NEW f \in Files, Held(f)
    PROVE  Held(f)'
<1> USE DEF Held
<1>1. asked \subseteq asked'
  BY HistoryGrows
<1>2. CASE UNCHANGED blob
  BY <1>1, <1>2
<1>3. ASSUME NEW g \in Files, Land(g) PROVE Held(f)'
  BY <1>3 DEF Land, StoreTypeOK
<1>4. ASSUME NEW d \in Deleters, Wipe(d) \/ Unlink(d) PROVE Held(f)'
  <2>1. del[d].file \in asked
    BY <1>4 DEF LineInv, Wipe, Unlink, Goes, Deleting
  <2> QED BY <1>1, <1>4, <2>1 DEF Wipe, Unlink, StoreTypeOK
<1>5. ASSUME NEW g \in Files, OpenManifest(g) \/ WriteLine(g) \/ WriteDuration(g) \/ AppFail(g)
      PROVE  UNCHANGED blob
  BY <1>5 DEF OpenManifest, WriteLine, WriteDuration, AppFail
<1>6. ASSUME NEW d \in Deleters,
             \/ UnlinkMeta(d) \/ OpenSource(d) \/ OpenTmp(d) \/ ReadManifest(d) \/ WriteTmp(d)
             \/ DelFail(d) \/ Replace(d) \/ ReplaceFails(d) \/ \E g \in Files : Delete(d, g)
      PROVE  UNCHANGED blob
  BY <1>6 DEF UnlinkMeta, OpenSource, OpenTmp, ReadManifest, WriteTmp, DelFail, Replace,
     ReplaceFails, Delete
<1>7. CASE StoreCrash
  BY <1>2, <1>7 DEF StoreCrash
<1> QED BY StepCases, <1>2, <1>3, <1>4, <1>5, <1>6, <1>7

\* A step moves lines between the manifest, its copies and the tmp file; a new
\* line is that of a blob that has landed.
LEMMA LineStep ==
    StoreTypeOK /\ TmpOpen /\ LineInv /\ [StoreNext]_store => LineInv'
<1> SUFFICES ASSUME StoreTypeOK, TmpOpen, LineInv, [StoreNext]_store PROVE LineInv'
  OBVIOUS
<1>1. CASE UNCHANGED store
  BY <1>1 DEF store, LineInv, Held, Adding, Deleting
<1>2. CASE StoreNext
  <2> \A f \in Files : Held(f) => Held(f)'
    BY <1>2, HeldKept
  <2>0. asked \subseteq asked'
    BY HistoryGrows
  <2> HIDE DEF Held
  <2> USE DEF LineInv, StoreTypeOK
  <2>1. ASSUME NEW f \in Files, Land(f) PROVE LineInv'
    <3>1. Held(f)'
      BY <2>1 DEF Land, Held
    <3> QED BY <2>1, <3>1 DEF Land, AppStep, Adding, Deleting
  <2>2. ASSUME NEW f \in Files,
               OpenManifest(f) \/ WriteLine(f) \/ WriteDuration(f) \/ AppFail(f)
        PROVE  LineInv'
    <3>1. Adding(f) /\ UNCHANGED <<tmp, asked>>
      BY <2>2 DEF OpenManifest, WriteLine, WriteDuration, AppFail, AppStep, Adding
    <3>2. \A g \in Files : Adding(g)' => Adding(g)
      BY <2>2 DEF OpenManifest, WriteLine, WriteDuration, AppFail, AppStep, Adding
    <3>3. /\ main' \cap Files \subseteq main \cup {f}
          /\ \A d \in Deleters : /\ del'[d].at = del[d].at /\ del'[d].file = del[d].file
                                 /\ del'[d].copy \cap Files \subseteq del[d].copy \cup {f}
      <4>1. CASE UNCHANGED <<main, del>>
        BY <4>1
      <4>2. CASE AppendLine(f, f)
        <5>1. f \in Lines
          BY DEF Lines
        <5> QED BY <4>2, <5>1, AppendStep
      <4>3. CASE AppendLine(f, Stub)
        <5>1. Stub \in Lines /\ Stub \notin Files
          BY TornAssumption DEF Lines
        <5>2. /\ main' \cap Files \subseteq main \cup {Stub}
              /\ \A d \in Deleters : /\ del'[d].at = del[d].at /\ del'[d].file = del[d].file
                                     /\ del'[d].copy \cap Files \subseteq del[d].copy \cup {Stub}
          BY <4>3, <5>1, AppendStep
        <5> QED BY <5>1, <5>2
      <4> QED BY <2>2, <4>1, <4>2, <4>3 DEF OpenManifest, WriteLine, WriteDuration, AppFail
    <3> QED BY <3>1, <3>2, <3>3 DEF Deleting
  <2>3. ASSUME NEW d \in Deleters, Wipe(d) \/ Unlink(d) \/ UnlinkMeta(d)
        PROVE  LineInv'
    BY <2>3 DEF Wipe, Unlink, UnlinkMeta, Goes, Adding, Deleting
  <2>4. ASSUME UNCHANGED app,
               main' \cap Files \subseteq
                 {f \in Files : Held(f)},
               tmp' # Absent => tmp' \cap Files \subseteq {f \in Files : Held(f)},
               \A e \in Deleters : /\ del'[e].file = del[e].file
                                   /\ del'[e].copy \cap Files \subseteq {f \in Files : Held(f)}
                                   /\ Deleting(e)' => Deleting(e)
        PROVE  LineInv'
    BY <2>0, <2>4 DEF Adding
  <2>5. ASSUME NEW d \in Deleters, OpenSource(d) PROVE LineInv'
    <3>1. \A e \in Deleters : del'[e].file = del[e].file /\ del'[e].copy = del[e].copy
                                 /\ (Deleting(e)' => Deleting(e))
      BY <2>5 DEF OpenSource, Deleting
    <3> QED BY <2>4, <2>5, <3>1 DEF OpenSource
  <2>6. ASSUME NEW d \in Deleters, OpenTmp(d) PROVE LineInv'
    <3>1. \A e \in Deleters : del'[e].file = del[e].file /\ del'[e].copy = del[e].copy
                                 /\ (Deleting(e)' => Deleting(e))
      BY <2>6 DEF OpenTmp, Deleting
    <3> QED BY <2>4, <2>6, <3>1 DEF OpenTmp
  <2>7. ASSUME NEW d \in Deleters, ReadManifest(d) PROVE LineInv'
    <3>1. \A e \in Deleters : /\ del'[e].file = del[e].file
                              /\ del'[e].copy \subseteq del[e].copy \cup main
                              /\ Deleting(e)' => Deleting(e)
      BY <2>7, SourceLines DEF ReadManifest, Deleting
    <3> QED BY <2>4, <2>7, <3>1 DEF ReadManifest
  <2>8. ASSUME NEW d \in Deleters, WriteTmp(d) \/ DelFail(d) PROVE LineInv'
    <3>1. \A e \in Deleters : /\ del'[e].file = del[e].file
                              /\ del'[e].copy \subseteq del[e].copy
                              /\ Deleting(e)' => Deleting(e)
      BY <2>8 DEF WriteTmp, DelFail, NoCall, Deleting
    <3>2. /\ main' \cap Files \subseteq main \cup del[d].copy
          /\ tmp' # Absent => tmp # Absent \/ UNCHANGED tmp \/ del[d].dst = "tmp"
          /\ tmp' # Absent => tmp' \cap Files \subseteq tmp \cup del[d].copy
      <4>1. CASE UNCHANGED <<main, tmp>>
        BY <4>1
      <4>2. ASSUME NEW lines \in SUBSET Lines, Write(d, lines),
                   lines \cap Files \subseteq del[d].copy
            PROVE  /\ main' \cap Files \subseteq main \cup del[d].copy
                   /\ tmp' # Absent => UNCHANGED tmp \/ del[d].dst = "tmp"
                   /\ tmp' # Absent => tmp' \cap Files \subseteq tmp \cup del[d].copy
        BY <4>2, WriteStep DEF Write
      <4>3. del[d].copy \in SUBSET Lines
        OBVIOUS
      <4>4. \A some \in SUBSET del[d].copy : /\ some \cup {Stub} \in SUBSET Lines
                                            /\ (some \cup {Stub}) \cap Files \subseteq del[d].copy
        BY <4>3, TornAssumption DEF Lines
      <4> QED BY <2>8, <4>1, <4>2, <4>3, <4>4 DEF WriteTmp, DelFail
    <3>3. tmp' # Absent => tmp # Absent
      BY <3>2 DEF TmpOpen
    <3> QED BY <2>4, <2>8, <3>1, <3>2, <3>3 DEF WriteTmp, DelFail
  <2>9. ASSUME NEW d \in Deleters, tmp # Absent, Replace(d) PROVE LineInv'
    <3>1. /\ UNCHANGED asked /\ main' = tmp /\ tmp' = Absent
          /\ \A f \in Files : Adding(f)' => Adding(f)
      BY <2>9, ReplaceStep DEF Replace, Adding
    <3>2. \A e \in Deleters : /\ del'[e].file = del[e].file
                              /\ del'[e].copy \subseteq del[e].copy \cup main
                              /\ Deleting(e)' => Deleting(e)
      BY <2>9, ReplaceStep DEF Deleting
    <3>3. \A f \in Files : f \in main' => Held(f)'
      BY <2>9, <3>1
    <3>4. \A f \in Files : Adding(f)' => Held(f)'
      BY <3>1
    <3>5. ASSUME NEW e \in Deleters, NEW f \in Files, f \in del'[e].copy
          PROVE  Held(f)'
      <4>1. f \in del[e].copy \cup main
        BY <3>2, <3>5
      <4> QED BY <4>1
    <3>6. ASSUME NEW e \in Deleters, Deleting(e)' PROVE del'[e].file \in asked'
      <4>1. Deleting(e) /\ del'[e].file = del[e].file
        BY <3>2, <3>6
      <4> QED BY <3>1, <4>1
    <3> QED BY <3>1, <3>3, <3>4, <3>5, <3>6
  <2>10. ASSUME NEW d \in Deleters, ReplaceFails(d) PROVE LineInv'
    <3>1. \A e \in Deleters : /\ del'[e].file = del[e].file
                              /\ del'[e].copy \subseteq del[e].copy
                              /\ Deleting(e)' => Deleting(e)
      BY <2>10 DEF ReplaceFails, Deleting, NoCall
    <3> QED BY <2>4, <2>10, <3>1 DEF ReplaceFails
  <2>11. ASSUME NEW d \in Deleters, NEW f \in Files, Delete(d, f) PROVE LineInv'
    <3>1. /\ UNCHANGED <<main, tmp, app>> /\ asked' = asked \cup {f}
          /\ \A e \in Deleters : /\ del'[e].copy \subseteq del[e].copy
                                 /\ IF e = d THEN del'[e].file = f ELSE del'[e] = del[e]
      BY <2>11 DEF Delete, NoCall
    <3> QED BY <3>1 DEF Adding, Deleting
  <2>12. CASE StoreCrash
    <3>1. /\ UNCHANGED <<main, tmp, asked>>
          /\ \A f \in Files : Adding(f)' => Adding(f)
      BY <2>12 DEF StoreCrash, Adding
    <3>2. \A e \in Deleters : del'[e].copy = {} /\ ~Deleting(e)'
      BY <2>12 DEF StoreCrash, Deleting, NoCall
    <3> QED BY <3>1, <3>2
  <2> QED
    BY <1>2, StepCases, <2>1, <2>2, <2>3, <2>5, <2>6, <2>7, <2>8, <2>9, <2>10, <2>11, <2>12
<1> QED BY <1>1, <1>2

-----------------------------------------------------------------------------
\* What holds however additions and deletions overlap.
StoreInv == StoreTypeOK /\ TmpOpen /\ LineInv

\* StoreInv is an invariant of the store.
LEMMA Invariant == StoreSpec => []StoreInv
<1>1. StoreInit => StoreInv
  BY TypeInit, LineInit DEF StoreInv
<1>2. StoreInv /\ [StoreNext]_store => StoreInv'
  BY TypeStep, TmpOpenStep, LineStep DEF StoreInv
<1> QED BY <1>1, <1>2, PTL DEF StoreSpec

\* Type correctness of the completed store.
THEOREM StoreTypeCorrect == StoreSpec => []StoreTypeOK
BY Invariant, PTL DEF StoreInv

\* Whatever append_completed and delete_completed do at the same time, and
\* wherever the process dies: a line of the manifest whose file nobody asked to
\* delete has a whole blob.
THEOREM LineHasBlobHolds == StoreSpec => []LineHasBlob
<1>1. StoreInv => LineHasBlob
  BY DEF StoreInv, LineInv, LineHasBlob, Held
<1> QED BY <1>1, Invariant, PTL

-----------------------------------------------------------------------------
(* A blob that a deletion has removed does not come back: only a file that  *)
(* is new lands, and no call deletes a new file.                           *)

AfterUnlink == {"meta", "source", "open", "read", "write", "replace"}

\* A deletion is of a file that was added, and from its unlink on the blob is gone.
GoneInv ==
    \A d \in Deleters :
        /\ Deleting(d) => app[del[d].file].at # "new"
        /\ del[d].at \in AfterUnlink => blob[del[d].file] = "none"

\* An addition never starts again.
LEMMA NeverNewAgain ==
    ASSUME StoreTypeOK, StoreNext, NEW f \in Files, app[f].at # "new"
    PROVE  app'[f].at # "new"
<1> USE DEF StoreTypeOK
<1>1. ASSUME NEW d \in Deleters, tmp # Absent, Replace(d) PROVE app'[f].at = app[f].at
  BY <1>1, ReplaceStep
<1>2. CASE StoreCrash
  BY <1>2 DEF StoreCrash
<1>3. ASSUME NEW g \in Files, \/ Land(g) \/ OpenManifest(g) \/ WriteLine(g)
                              \/ WriteDuration(g) \/ AppFail(g)
      PROVE  app'[f].at # "new"
  <2>1. CASE Land(g) \/ WriteDuration(g)
    BY <2>1 DEF Land, WriteDuration, AppStep
  <2>2. CASE OpenManifest(g) \/ WriteLine(g) \/ AppFail(g)
    BY <2>2 DEF OpenManifest, WriteLine, AppFail
  <2> QED BY <1>3, <2>1, <2>2
<1>4. ASSUME NEW d \in Deleters,
             \/ Wipe(d) \/ Unlink(d) \/ UnlinkMeta(d) \/ OpenSource(d) \/ OpenTmp(d)
             \/ ReadManifest(d) \/ WriteTmp(d) \/ DelFail(d) \/ ReplaceFails(d)
             \/ \E g \in Files : Delete(d, g)
      PROVE  UNCHANGED app
  BY <1>4 DEF Wipe, Unlink, UnlinkMeta, OpenSource, OpenTmp, ReadManifest, WriteTmp, DelFail,
     ReplaceFails, Delete
<1> QED BY StepCases, <1>1, <1>2, <1>3, <1>4

\* A blob that is gone stays gone.
LEMMA BlobGone ==
    ASSUME StoreTypeOK, StoreNext, NEW f \in Files, app[f].at # "new", blob[f] = "none"
    PROVE  blob'[f] = "none"
<1> USE DEF StoreTypeOK
<1>1. ASSUME NEW g \in Files, Land(g) PROVE blob'[f] = "none"
  BY <1>1 DEF Land, AppStep
<1>2. ASSUME NEW d \in Deleters, Wipe(d) \/ Unlink(d) PROVE blob'[f] = "none"
  BY <1>2 DEF Wipe, Unlink
<1>3. ASSUME NEW g \in Files, OpenManifest(g) \/ WriteLine(g) \/ WriteDuration(g) \/ AppFail(g)
      PROVE  UNCHANGED blob
  BY <1>3 DEF OpenManifest, WriteLine, WriteDuration, AppFail
<1>4. ASSUME NEW d \in Deleters,
             \/ UnlinkMeta(d) \/ OpenSource(d) \/ OpenTmp(d) \/ ReadManifest(d) \/ WriteTmp(d)
             \/ DelFail(d) \/ Replace(d) \/ ReplaceFails(d) \/ \E g \in Files : Delete(d, g)
      PROVE  UNCHANGED blob
  BY <1>4 DEF UnlinkMeta, OpenSource, OpenTmp, ReadManifest, WriteTmp, DelFail, Replace,
     ReplaceFails, Delete
<1> QED BY StepCases, <1>1, <1>2, <1>3, <1>4 DEF StoreCrash

\* A step of an addition moves no deleter.
LEMMA AddMovesNoDeleter ==
    ASSUME StoreTypeOK, NEW f \in Files,
           Land(f) \/ OpenManifest(f) \/ WriteLine(f) \/ WriteDuration(f) \/ AppFail(f)
    PROVE  \A d \in Deleters : /\ del'[d].at = del[d].at /\ del'[d].file = del[d].file
                               /\ del'[d].src = del[d].src /\ del'[d].dst = del[d].dst
<1>1. f \in Lines /\ Stub \in Lines
  BY DEF Lines
<1>2. CASE AppendLine(f, f) \/ AppendLine(f, Stub)
  BY <1>1, <1>2, AppendStep
<1>3. CASE UNCHANGED del
  BY <1>3
<1> QED BY <1>2, <1>3 DEF Land, OpenManifest, WriteLine, WriteDuration, AppFail

\* What a step does to the place and the file of a deleter.
LEMMA DeleterStep ==
    ASSUME StoreTypeOK, StoreNext, NEW d \in Deleters
    PROVE  \/ del'[d].at = del[d].at /\ del'[d].file = del[d].file
           \/ del'[d].at = "idle" /\ del'[d].file = del[d].file
           \/ \E f \in Files : Delete(d, f)
           \/ Wipe(d) \/ Unlink(d) \/ UnlinkMeta(d) \/ OpenSource(d) \/ OpenTmp(d)
           \/ ReadManifest(d) \/ WriteTmp(d)
<1> USE DEF StoreTypeOK
<1>1. ASSUME NEW e \in Deleters, tmp # Absent, Replace(e)
      PROVE  /\ del'[d].file = del[d].file
             /\ IF e = d THEN del'[d].at = "idle" ELSE del'[d].at = del[d].at
  BY <1>1, ReplaceStep
<1>2. ASSUME NEW e \in Deleters, ReplaceFails(e) \/ DelFail(e)
      PROVE  /\ del'[d].file = del[d].file
             /\ IF e = d THEN del'[d].at = "idle" ELSE del'[d].at = del[d].at
  BY <1>2 DEF ReplaceFails, DelFail, NoCall
<1>3. CASE StoreCrash
  BY <1>3 DEF StoreCrash, NoCall
<1>4. ASSUME NEW e \in Deleters, e # d,
             \/ Wipe(e) \/ Unlink(e) \/ UnlinkMeta(e) \/ OpenSource(e) \/ OpenTmp(e)
             \/ ReadManifest(e) \/ WriteTmp(e) \/ \E f \in Files : Delete(e, f)
      PROVE  del'[d] = del[d]
  BY <1>4 DEF Wipe, Unlink, UnlinkMeta, OpenSource, OpenTmp, ReadManifest, WriteTmp, Goes, Delete
<1> QED BY StepCases, <1>1, <1>2, <1>3, <1>4, AddMovesNoDeleter

\* At the start no deletion is under way.
LEMMA GoneInit == StoreInit => GoneInv
BY DEF StoreInit, GoneInv, NoCall, Deleting, AfterUnlink

\* No step brings back the blob that a deletion has unlinked.
LEMMA GoneStep == StoreTypeOK /\ GoneInv /\ [StoreNext]_store => GoneInv'
<1> SUFFICES ASSUME StoreTypeOK, GoneInv, [StoreNext]_store PROVE GoneInv'
  OBVIOUS
<1>1. CASE UNCHANGED store
  BY <1>1 DEF store, GoneInv, Deleting
<1>2. CASE StoreNext
  <2> SUFFICES ASSUME NEW d \in Deleters
               PROVE  /\ Deleting(d)' => app'[del'[d].file].at # "new"
                      /\ del'[d].at \in AfterUnlink => blob'[del'[d].file] = "none"
    BY DEF GoneInv
  <2> DEFINE f == del[d].file
  <2>1. f \in Files
    BY DEF StoreTypeOK
  <2>2. Deleting(d) => app'[f].at # "new"
    BY <1>2, <2>1, NeverNewAgain DEF GoneInv
  <2>3. del[d].at \in AfterUnlink => blob'[f] = "none"
    BY <1>2, <2>1, BlobGone DEF GoneInv, AfterUnlink, Deleting
  <2>4. CASE del'[d].at = del[d].at /\ del'[d].file = del[d].file
    BY <2>2, <2>3, <2>4 DEF Deleting
  <2>5. CASE del'[d].at = "idle"
    BY <2>5 DEF Deleting, AfterUnlink
  <2>6. ASSUME NEW g \in Files, Delete(d, g)
        PROVE  del'[d].at = "wipe" /\ del'[d].file = g /\ app'[g].at # "new"
    BY <2>6 DEF Delete, NoCall, StoreTypeOK
  <2>7. CASE Wipe(d)
    <3>1. del'[d].at = "unlink" /\ del'[d].file = f /\ Deleting(d)
      BY <2>7 DEF Wipe, Goes, StoreTypeOK, Deleting
    <3> QED BY <2>2, <3>1 DEF AfterUnlink
  <2>8. CASE Unlink(d)
    <3>1. del'[d].at = "meta" /\ del'[d].file = f /\ Deleting(d) /\ blob'[f] = "none"
      BY <2>1, <2>8 DEF Unlink, Goes, StoreTypeOK, Deleting
    <3> QED BY <2>2, <3>1 DEF AfterUnlink
  <2>9. CASE UnlinkMeta(d) \/ OpenSource(d) \/ OpenTmp(d) \/ ReadManifest(d) \/ WriteTmp(d)
    <3>1. del[d].at \in AfterUnlink
      BY <2>9 DEF UnlinkMeta, OpenSource, OpenTmp, ReadManifest, WriteTmp, Goes, AfterUnlink
    <3>2. del'[d].file = f
      <4>1. CASE UnlinkMeta(d)
        BY <4>1 DEF UnlinkMeta, Goes, StoreTypeOK
      <4>2. CASE OpenSource(d)
        BY <4>2 DEF OpenSource, StoreTypeOK
      <4>3. CASE OpenTmp(d)
        BY <4>3 DEF OpenTmp, StoreTypeOK
      <4>4. CASE ReadManifest(d)
        BY <4>4 DEF ReadManifest, StoreTypeOK
      <4>5. CASE WriteTmp(d)
        BY <4>5 DEF WriteTmp, NoCall, StoreTypeOK
      <4> QED BY <2>9, <4>1, <4>2, <4>3, <4>4, <4>5
    <3> QED BY <2>2, <2>3, <3>1, <3>2 DEF AfterUnlink, Deleting
  <2> QED
    BY <1>2, DeleterStep, <2>4, <2>5, <2>6, <2>7, <2>8, <2>9 DEF Deleting, AfterUnlink
<1> QED BY <1>1, <1>2

-----------------------------------------------------------------------------
(* As long as changes have not overlapped, one deletion at a time or some   *)
(* additions: every step finds what the last one left.                      *)

\* A deletion is alone, and what it has rewritten of the manifest is up to date.
SerialInv ==
    /\ hit = {} => main \subseteq Files
    /\ \A f \in Files : app[f].at = "opened" => app[f].dst = "main"
    /\ \A d \in Deleters :
        /\ Deleting(d) => /\ \A e \in Deleters : Deleting(e) => e = d
                          /\ \A f \in Files : ~Adding(f)
        /\ Rewriting(d) => del[d].file \notin meta
        /\ del[d].at \in {"open", "read"} => del[d].src = "main"
        /\ del[d].at \in {"read", "write"} => tmp = {} /\ del[d].dst = "tmp"
        /\ del[d].at = "write" => del[d].copy = main \ {del[d].file}
        /\ del[d].at = "replace" => tmp = main \ {del[d].file}

\* What is there of a file, as far as its addition has come.
FileInv(f) ==
    /\ app[f].at # "failed"
    /\ app[f].at = "new" => blob[f] = "none" /\ f \notin asked
    /\ app[f].at \in {"new", "landed", "opened"} => f \notin main
    /\ app[f].at \in {"new", "landed", "opened", "lined"} => f \notin meta
    /\ Adding(f) => blob[f] = "whole" /\ f \notin asked
    /\ app[f].at = "lined" => f \in main
    /\ app[f].at = "done" /\ f \notin asked => blob[f] = "whole" /\ f \in meta /\ f \in main
    /\ app[f].at = "done" /\ f \in asked =>
          ~Exists(f) \/ \E d \in Deleters : Deleting(d) /\ del[d].file = f

FilesInv == \A f \in Files \ hit : FileInv(f)

\* At the start there are no files and nobody changes anything.
LEMMA SerialInit == StoreInit => SerialInv /\ FilesInv
BY TornAssumption
   DEF StoreInit, SerialInv, FilesInv, FileInv, NoCall, Adding, Deleting, Rewriting, Exists

\* An addition that has met no deletion.
LEMMA AddAlone ==
    ASSUME ~overlapped', StoreTypeOK, SerialInv, NEW f \in Files,
           \/ Land(f) \/ OpenManifest(f) \/ WriteLine(f) \/ WriteDuration(f) \/ AppFail(f)
    PROVE  /\ \A d \in Deleters : ~Deleting(d) /\ ~Deleting(d)'
           /\ UNCHANGED <<asked, tmp>>
           /\ \A g \in Files : g # f => app'[g] = app[g] /\ blob'[g] = blob[g]
                                        /\ (g \in main' <=> g \in main)
           /\ hit' = {} => main' \subseteq main \cup {f}
<1>1. \A d \in Deleters : ~Deleting(d)
  <2>1. CASE Land(f)
    BY <2>1 DEF Land, Begins
  <2>2. CASE \/ OpenManifest(f) \/ WriteLine(f) \/ WriteDuration(f) \/ AppFail(f)
    <3>1. Adding(f)
      BY <2>2 DEF OpenManifest, WriteLine, WriteDuration, AppFail, AppStep, Adding
    <3> QED BY <3>1 DEF SerialInv
  <2> QED BY <2>1, <2>2
<1>2. \A d \in Deleters : ~Deleting(d)'
  BY <1>1, AddMovesNoDeleter DEF Deleting
<1>3. UNCHANGED <<asked, tmp>>
  BY DEF Land, OpenManifest, WriteLine, WriteDuration, AppFail
<1>4. \A g \in Files : g # f => app'[g] = app[g] /\ blob'[g] = blob[g]
  BY DEF Land, OpenManifest, WriteLine, WriteDuration, AppFail, AppStep, StoreTypeOK
<1>5. /\ \A g \in Files : g # f => (g \in main' <=> g \in main)
      /\ hit' = {} => main' \subseteq main \cup {f}
  <2>1. CASE UNCHANGED main
    BY <2>1
  <2>2. CASE WriteLine(f) /\ main' = Appended(main, f)
    <3>1. app[f].dst = "main"
      BY <2>2 DEF WriteLine, SerialInv
    <3>2. Stub \in main => f \in hit'
      BY <2>2, <3>1 DEF WriteLine
    <3> QED BY <2>2, <3>2, TornAssumption DEF Appended
  <2>3. CASE AppFail(f) /\ main' = Appended(main, Stub)
    <3>1. f \in hit'
      BY <2>3 DEF AppFail
    <3> QED BY <2>3, <3>1, TornAssumption DEF Appended
  <2> QED
    BY <2>1, <2>2, <2>3 DEF Land, OpenManifest, WriteLine, WriteDuration, AppFail, AppendLine
<1> QED BY <1>1, <1>2, <1>3, <1>4, <1>5

\* As long as nothing overlaps, a step meets no half-finished change of another
\* thread.
LEMMA SerialStep ==
    ~overlapped' /\ StoreTypeOK /\ SerialInv /\ [StoreNext]_store => SerialInv'
<1> SUFFICES ASSUME ~overlapped', StoreTypeOK, SerialInv, [StoreNext]_store
             PROVE  SerialInv'
  OBVIOUS
<1>0. hit \subseteq hit'
  BY HistoryGrows
<1>1. CASE UNCHANGED store
  BY <1>1 DEF store, SerialInv, Adding, Deleting, Rewriting
<1>2. ASSUME NEW f \in Files,
             \/ Land(f) \/ OpenManifest(f) \/ WriteLine(f) \/ WriteDuration(f) \/ AppFail(f)
      PROVE  SerialInv'
  <2>1. \A d \in Deleters : del'[d].at = "idle"
    BY <1>2, AddAlone DEF Deleting
  <2>2. hit' = {} => main' \subseteq Files
    BY <1>0, <1>2, AddAlone DEF SerialInv
  <2>3. app'[f].at = "opened" => app'[f].dst = "main"
    <3>1. CASE Land(f) \/ WriteDuration(f)
      <4>1. CASE Land(f)
        BY <4>1 DEF StoreTypeOK, Land, AppStep
      <4>2. CASE WriteDuration(f)
        BY <4>2 DEF StoreTypeOK, WriteDuration, AppStep
      <4> QED BY <3>1, <4>1, <4>2
    <3>2. CASE OpenManifest(f) \/ WriteLine(f) \/ AppFail(f)
      BY <3>2 DEF StoreTypeOK, OpenManifest, WriteLine, AppFail
    <3> QED BY <1>2, <3>1, <3>2
  <2>4. \A g \in Files : app'[g].at = "opened" => app'[g].dst = "main"
    <3>1. \A g \in Files : g # f => app'[g] = app[g]
      BY <1>2, AddAlone
    <3> QED BY <2>3, <3>1 DEF SerialInv
  <2> QED BY <2>1, <2>2, <2>4 DEF SerialInv, Deleting, Rewriting
<1>3. ASSUME NEW d \in Deleters, Deleting(d),
             \A e \in Deleters : e # d => del'[e].at = del[e].at,
             \A f \in Files : app'[f].at = app[f].at,
             hit' = {} => main' \subseteq Files,
             /\ Rewriting(d)' => del'[d].file \notin meta'
             /\ del'[d].at \in {"open", "read"} => del'[d].src = "main"
             /\ del'[d].at \in {"read", "write"} => tmp' = {} /\ del'[d].dst = "tmp"
             /\ del'[d].at = "write" => del'[d].copy = main' \ {del'[d].file}
             /\ del'[d].at = "replace" => tmp' = main' \ {del'[d].file}
      PROVE  SerialInv'
  <2>1. \A e \in Deleters : e # d => del'[e].at = "idle"
    BY <1>3 DEF SerialInv, Deleting
  <2>2. \A f \in Files : ~Adding(f)'
    BY <1>3 DEF SerialInv, Adding
  <2> QED BY <1>3, <2>1, <2>2 DEF SerialInv, Deleting, Rewriting, Adding
<1>4. ASSUME NEW d \in Deleters, Wipe(d) \/ Unlink(d) PROVE SerialInv'
  <2>1. /\ Deleting(d) /\ UNCHANGED <<main, app, hit>>
        /\ del'[d].at \in {"unlink", "meta"}
        /\ \A e \in Deleters : e # d => del'[e].at = del[e].at
    BY <1>4 DEF Wipe, Unlink, Goes, Deleting, StoreTypeOK
  <2> QED BY <1>3, <2>1 DEF SerialInv, Rewriting
<1>5. ASSUME NEW d \in Deleters, UnlinkMeta(d) PROVE SerialInv'
  <2>1. /\ Deleting(d) /\ UNCHANGED <<main, app, hit>>
        /\ del'[d].at = "source" /\ del'[d].file \notin meta'
        /\ \A e \in Deleters : e # d => del'[e].at = del[e].at
    BY <1>5 DEF UnlinkMeta, Goes, Deleting, StoreTypeOK
  <2> QED BY <1>3, <2>1 DEF SerialInv, Rewriting
<1>6. ASSUME NEW d \in Deleters, OpenSource(d) PROVE SerialInv'
  <2>1. /\ Deleting(d) /\ Rewriting(d) /\ UNCHANGED <<main, meta, app, hit>>
        /\ del'[d].at = "open" /\ del'[d].file = del[d].file /\ del'[d].src = "main"
        /\ \A e \in Deleters : e # d => del'[e].at = del[e].at
    BY <1>6 DEF OpenSource, Deleting, Rewriting, StoreTypeOK
  <2> QED BY <1>3, <2>1 DEF SerialInv
<1>7. ASSUME NEW d \in Deleters, OpenTmp(d) PROVE SerialInv'
  <2>1. /\ Deleting(d) /\ Rewriting(d) /\ UNCHANGED <<main, meta, app, hit>>
        /\ del[d].at = "open"
        /\ del'[d].at = "read" /\ del'[d].file = del[d].file /\ del'[d].src = del[d].src
        /\ tmp' = {} /\ del'[d].dst = "tmp"
        /\ \A e \in Deleters : e # d => del'[e].at = del[e].at
    BY <1>7 DEF OpenTmp, Deleting, Rewriting, StoreTypeOK
  <2> QED BY <1>3, <2>1 DEF SerialInv
<1>8. ASSUME NEW d \in Deleters, ReadManifest(d) PROVE SerialInv'
  <2>1. /\ Deleting(d) /\ Rewriting(d) /\ UNCHANGED <<main, meta, app, hit, tmp>>
        /\ del[d].at = "read"
        /\ del'[d].at = "write" /\ del'[d].file = del[d].file /\ del'[d].dst = del[d].dst
        /\ del'[d].copy = Source(d) \ {del[d].file}
        /\ \A e \in Deleters : e # d => del'[e].at = del[e].at
    BY <1>8 DEF ReadManifest, Deleting, Rewriting, StoreTypeOK
  <2>2. Source(d) = main
    BY <2>1 DEF SerialInv, Source
  <2> QED BY <1>3, <2>1, <2>2 DEF SerialInv
<1>9. ASSUME NEW d \in Deleters, WriteTmp(d) PROVE SerialInv'
  <2>1. /\ Deleting(d) /\ Rewriting(d) /\ UNCHANGED <<meta, app, hit>>
        /\ del[d].at = "write"
        /\ del'[d].at = "replace" /\ del'[d].file = del[d].file
        /\ \A e \in Deleters : e # d => del'[e].at = del[e].at
    BY <1>9 DEF WriteTmp, NoCall, Deleting, Rewriting, StoreTypeOK
  <2>2. tmp = {} /\ del[d].dst = "tmp" /\ del[d].copy = main \ {del[d].file}
    BY <2>1 DEF SerialInv
  <2>3. main' = main /\ tmp' = del[d].copy
    BY <1>9, <2>2 DEF WriteTmp, Write, Overwritten
  <2> QED BY <1>3, <2>1, <2>2, <2>3 DEF SerialInv
<1>10. ASSUME NEW d \in Deleters, tmp # Absent, Rename(d), Replace(d) PROVE SerialInv'
  <2>1. del[d].at = "replace" /\ Deleting(d)
    BY <1>10 DEF Rename, Deleting
  <2>2. main' = main \ {del[d].file} /\ hit' = hit
    BY <1>10, <2>1 DEF Replace, SerialInv
  <2>3. del'[d].at = "idle" /\ \A e \in Deleters : e # d => del'[e].at = del[e].at
    BY <1>10, ReplaceStep
  <2>4. \A f \in Files : app'[f].at = app[f].at
    BY <1>10, ReplaceStep
  <2> QED BY <1>3, <2>1, <2>2, <2>3, <2>4 DEF SerialInv, Rewriting
<1>11. ASSUME NEW d \in Deleters, del[d].at = "replace", ReplaceFails(d) PROVE SerialInv'
  <2>1. /\ Deleting(d) /\ UNCHANGED <<main, app>> /\ del'[d].at = "idle"
        /\ \A e \in Deleters : e # d => del'[e].at = del[e].at
    BY <1>11 DEF ReplaceFails, NoCall, Deleting, StoreTypeOK
  <2> QED BY <1>0, <1>3, <2>1 DEF SerialInv, Rewriting
<1>12. ASSUME NEW d \in Deleters, DelFail(d) PROVE SerialInv'
  <2>1. /\ Deleting(d) /\ UNCHANGED app /\ del'[d].at = "idle" /\ hit' # {}
        /\ \A e \in Deleters : e # d => del'[e].at = del[e].at
    BY <1>12 DEF DelFail, NoCall, StoreTypeOK
  <2> QED BY <1>3, <2>1 DEF Rewriting
<1>13. ASSUME NEW d \in Deleters, NEW f \in Files, Delete(d, f) PROVE SerialInv'
  <2>1. /\ \A e \in Deleters : del[e].at = "idle"
        /\ \A g \in Files : ~Adding(g)
        /\ UNCHANGED <<main, app, hit>>
    BY <1>13 DEF Delete, Begins, Deleting
  <2>2. del'[d].at = "wipe" /\ \A e \in Deleters : e # d => del'[e].at = "idle"
    BY <1>13, <2>1 DEF Delete, NoCall, StoreTypeOK
  <2> QED BY <2>1, <2>2 DEF SerialInv, Deleting, Rewriting, Adding
<1>14. CASE StoreCrash
  <2>1. /\ \A e \in Deleters : del'[e].at = "idle"
        /\ UNCHANGED main
        /\ \A g \in Files : app'[g].at # "opened"
    BY <1>14 DEF StoreCrash, NoCall, Adding
  <2> QED BY <1>0, <2>1 DEF SerialInv, Deleting, Rewriting
<1>15. ASSUME NEW d \in Deleters, Rename(d) PROVE SerialInv'
  BY <1>10, <1>11, <1>15 DEF Rename
<1> QED
  BY <1>1, <1>2, <1>4, <1>5, <1>6, <1>7, <1>8, <1>9, <1>12, <1>13, <1>14, <1>15
     DEF StoreNext, AppendCompleted, Deletion

\* A step of a deletion leaves the other files as they were.
LEMMA OtherFile ==
    ASSUME NEW f \in Files, FileInv(f),
           \A e \in Deleters : Deleting(e) /\ del[e].file = f => Deleting(e)' /\ del'[e].file = f,
           app'[f].at = app[f].at, blob'[f] = blob[f], f \in meta' <=> f \in meta,
           f \in main' <=> f \in main, f \in asked' <=> f \in asked
    PROVE  FileInv(f)'
BY DEF FileInv, Adding, Exists

\* A file that is being deleted, or that a deletion has left nothing of.
LEMMA DeletedFile ==
    ASSUME NEW f \in Files, app[f].at = "done", f \in asked, app'[f].at = app[f].at,
           f \in asked',
           \/ \E d \in Deleters : Deleting(d)' /\ del'[d].file = f
           \/ ~Exists(f)'
    PROVE  FileInv(f)'
BY DEF FileInv, Adding

\* The addition of a file that no fault cuts off.
LEMMA AddFileStep ==
    ASSUME StoreTypeOK, SerialInv, NEW f \in Files, FileInv(f), f \notin hit',
           Land(f) \/ OpenManifest(f) \/ WriteLine(f) \/ WriteDuration(f)
    PROVE  FileInv(f)'
<1> USE DEF StoreTypeOK, FileInv, Adding
<1>1. CASE Land(f)
  BY <1>1 DEF Land, AppStep
<1>2. CASE OpenManifest(f)
  BY <1>2 DEF OpenManifest
<1>3. CASE WriteLine(f)
  <2>1. app[f].dst = "main"
    BY <1>3 DEF WriteLine, SerialInv
  <2>2. Stub \notin main
    BY <1>3, <2>1 DEF WriteLine
  <2>3. main' = main \cup {f}
    BY <1>3, <2>1, <2>2 DEF WriteLine, AppendLine, Appended
  <2> QED BY <1>3, <2>3 DEF WriteLine
<1>4. CASE WriteDuration(f)
  BY <1>4 DEF WriteDuration, AppStep
<1> QED BY <1>1, <1>2, <1>3, <1>4

\* As long as nothing overlaps, each file has what the place of its addition or
\* deletion says.
LEMMA FilesStep ==
    ~overlapped' /\ StoreTypeOK /\ TmpOpen /\ SerialInv /\ GoneInv /\ LineInv /\ FilesInv
        /\ [StoreNext]_store => FilesInv'
<1> SUFFICES ASSUME ~overlapped', StoreTypeOK, TmpOpen, SerialInv, GoneInv, LineInv, FilesInv,
                    [StoreNext]_store,
                    NEW f \in Files, f \notin hit'
             PROVE  FileInv(f)'
  BY DEF FilesInv
<1>1. f \notin hit /\ FileInv(f)
  BY HistoryGrows DEF FilesInv
<1>2. CASE UNCHANGED store
  BY <1>1, <1>2 DEF store, FileInv, Adding, Deleting, Exists
<1>3. ASSUME NEW g \in Files,
             \/ Land(g) \/ OpenManifest(g) \/ WriteLine(g) \/ WriteDuration(g) \/ AppFail(g)
      PROVE  FileInv(f)'
  <2>1. CASE g = f
    <3>1. ~AppFail(f)
      BY <2>1 DEF AppFail
    <3> QED BY <1>1, <1>3, <2>1, <3>1, AddFileStep
  <2>2. CASE g # f
    <3>1. /\ app'[f] = app[f] /\ blob'[f] = blob[f] /\ UNCHANGED asked
          /\ (f \in main' <=> f \in main) /\ \A d \in Deleters : ~Deleting(d)
      BY <1>3, <2>2, AddAlone
    <3>2. f \in meta' <=> f \in meta
      BY <1>3, <2>2 DEF Land, OpenManifest, WriteLine, WriteDuration, AppFail
    <3> QED BY <1>1, <3>1, <3>2, OtherFile
  <2> QED BY <2>1, <2>2
<1>4. ASSUME NEW d \in Deleters, Deleting(d), UNCHANGED asked,
             del'[d].file = del[d].file,
             \A e \in Deleters : e # d => del'[e].at = del[e].at /\ del'[e].file = del[e].file,
             app'[f].at = app[f].at,
             f # del[d].file => /\ blob'[f] = blob[f]
                                /\ f \in meta' <=> f \in meta
                                /\ f \in main' <=> f \in main,
             f = del[d].file => Deleting(d)' \/ ~Exists(f)'
      PROVE  FileInv(f)'
  <2>1. CASE f # del[d].file
    <3>1. \A e \in Deleters : Deleting(e) /\ del[e].file = f
                                 => Deleting(e)' /\ del'[e].file = f
      BY <1>4, <2>1 DEF Deleting
    <3> QED BY <1>1, <1>4, <2>1, <3>1, OtherFile
  <2>2. CASE f = del[d].file
    <3>1. f \in asked
      BY <1>4, <2>2 DEF LineInv
    <3>2. app[f].at # "new" /\ ~Adding(f) /\ app[f].at # "failed"
      BY <1>1, <1>4, <2>2 DEF GoneInv, SerialInv, FileInv
    <3>3. app[f].at = "done"
      BY <3>2 DEF Adding, StoreTypeOK, AppPlaces
    <3> QED BY <1>4, <2>2, <3>1, <3>3, DeletedFile
  <2> QED BY <2>1, <2>2
<1>5. ASSUME NEW d \in Deleters, Wipe(d) \/ Unlink(d) \/ UnlinkMeta(d) PROVE FileInv(f)'
  <2>1. /\ Deleting(d) /\ UNCHANGED <<asked, app, main>> /\ Deleting(d)'
        /\ del'[d].file = del[d].file
        /\ \A e \in Deleters : e # d => del'[e].at = del[e].at /\ del'[e].file = del[e].file
    BY <1>5 DEF Wipe, Unlink, UnlinkMeta, Goes, Deleting, StoreTypeOK
  <2>2. f # del[d].file => blob'[f] = blob[f] /\ (f \in meta' <=> f \in meta)
    BY <1>5 DEF Wipe, Unlink, UnlinkMeta, StoreTypeOK
  <2> QED BY <1>4, <2>1, <2>2
<1>6. ASSUME NEW d \in Deleters, OpenSource(d) \/ OpenTmp(d) \/ ReadManifest(d)
      PROVE  FileInv(f)'
  <2>1. Deleting(d) /\ UNCHANGED <<asked, app, main, meta, blob>>
    BY <1>6 DEF OpenSource, OpenTmp, ReadManifest, Deleting
  <2>2. /\ Deleting(d)' /\ del'[d].file = del[d].file
        /\ \A e \in Deleters : e # d => del'[e].at = del[e].at /\ del'[e].file = del[e].file
    <3>1. CASE OpenSource(d)
      BY <3>1 DEF OpenSource, Deleting, StoreTypeOK
    <3>2. CASE OpenTmp(d)
      BY <3>2 DEF OpenTmp, Deleting, StoreTypeOK
    <3>3. CASE ReadManifest(d)
      BY <3>3 DEF ReadManifest, Deleting, StoreTypeOK
    <3> QED BY <1>6, <3>1, <3>2, <3>3
  <2> QED BY <1>4, <2>1, <2>2
<1>7. ASSUME NEW d \in Deleters, WriteTmp(d) PROVE FileInv(f)'
  <2>1. /\ del[d].at = "write" /\ UNCHANGED <<asked, app, meta, blob>> /\ Deleting(d)'
        /\ del'[d].file = del[d].file
        /\ \A e \in Deleters : e # d => del'[e].at = del[e].at /\ del'[e].file = del[e].file
    BY <1>7 DEF WriteTmp, NoCall, Deleting, StoreTypeOK
  <2>2. main' = main
    BY <1>7, <2>1 DEF SerialInv, WriteTmp, Write
  <2> QED BY <1>4, <2>1, <2>2 DEF Deleting
<1>8. ASSUME NEW d \in Deleters, Rename(d), tmp # Absent, Replace(d) PROVE FileInv(f)'
  <2>1. del[d].at = "replace" /\ UNCHANGED <<blob, meta, asked>>
    BY <1>8 DEF Rename, Replace
  <2>2. main' = main \ {del[d].file}
    BY <1>8, <2>1 DEF Replace, SerialInv
  <2>3. /\ del'[d].file = del[d].file
        /\ \A e \in Deleters : e # d => del'[e].at = del[e].at /\ del'[e].file = del[e].file
    BY <1>8, ReplaceStep
  <2>4. app'[f].at = app[f].at
    BY <1>8, ReplaceStep
  <2>5. f = del[d].file => ~Exists(f)'
    <3>1. blob[del[d].file] = "none" /\ del[d].file \notin meta
      BY <2>1 DEF GoneInv, AfterUnlink, SerialInv, Rewriting
    <3> QED BY <2>1, <2>2, <3>1 DEF Exists
  <2> QED BY <1>4, <2>1, <2>2, <2>3, <2>4, <2>5 DEF Deleting
<1>9. ASSUME NEW d \in Deleters, Rename(d), tmp = Absent PROVE FALSE
  <2>1. tmp = main \ {del[d].file} /\ main \in SUBSET Lines
    BY <1>9 DEF Rename, SerialInv, StoreTypeOK
  <2> QED BY <1>9, <2>1, LinesNotAbsent
<1>10. ASSUME NEW d \in Deleters, Rename(d) PROVE FileInv(f)'
  BY <1>8, <1>9, <1>10 DEF Rename
<1>11. ASSUME NEW d \in Deleters, DelFail(d) PROVE FileInv(f)'
  <2>1. /\ f # del[d].file /\ UNCHANGED <<blob, meta, app, asked>>
        /\ \A e \in Deleters : e # d => del'[e] = del[e]
    BY <1>11 DEF DelFail, StoreTypeOK
  <2>2. UNCHANGED main
    BY <1>11 DEF DelFail, Write, SerialInv
  <2>3. \A e \in Deleters : Deleting(e) /\ del[e].file = f => Deleting(e)' /\ del'[e].file = f
    BY <2>1 DEF Deleting
  <2> QED BY <1>1, <2>1, <2>2, <2>3, OtherFile
<1>12. ASSUME NEW d \in Deleters, NEW g \in Files, Delete(d, g) PROVE FileInv(f)'
  <2>1. /\ UNCHANGED <<blob, meta, main, app>> /\ asked' = asked \cup {g}
        /\ del[d].at = "idle" /\ ~Adding(g) /\ app[g].at # "new"
        /\ Deleting(d)' /\ del'[d].file = g
        /\ \A e \in Deleters : e # d => del'[e] = del[e]
    BY <1>12 DEF Delete, Begins, NoCall, StoreTypeOK, Deleting
  <2>2. CASE f # g
    BY <1>1, <2>1, <2>2, OtherFile DEF Deleting
  <2>3. CASE f = g
    <3>1. app[f].at = "done"
      BY <1>1, <2>1, <2>3 DEF FileInv, Adding, StoreTypeOK, AppPlaces
    <3> QED BY <2>1, <2>3, <3>1 DEF FileInv, Adding
  <2> QED BY <2>2, <2>3
<1>13. CASE StoreCrash
  <2>1. /\ ~Adding(f) /\ \A d \in Deleters : Deleting(d) => del[d].file # f
        /\ app'[f] = app[f] /\ UNCHANGED <<blob, meta, main, asked>>
    BY <1>13 DEF StoreCrash
  <2> QED BY <1>1, <2>1, OtherFile
<1> QED
  BY <1>2, <1>3, <1>5, <1>6, <1>7, <1>10, <1>11, <1>12, <1>13
     DEF StoreNext, AppendCompleted, Deletion

-----------------------------------------------------------------------------
(* What the store promises as long as changes have not overlapped.          *)

\* What was unlinked stays away, in every execution.
LEMMA GoneInvariant == StoreSpec => []GoneInv
<1>1. StoreInv /\ GoneInv /\ [StoreNext]_store => GoneInv'
  BY GoneStep DEF StoreInv
<1> QED BY <1>1, GoneInit, Invariant, PTL DEF StoreSpec

\* No overlap yet: every change finds what the one before has left.
SoFarSerial == overlapped \/ (SerialInv /\ FilesInv)

\* Until changes overlap both hold, in every execution.
LEMMA SerialInvariant == StoreSpec => []SoFarSerial
<1>1. StoreInit => SoFarSerial
  BY SerialInit DEF SoFarSerial
<1>2. StoreInv /\ GoneInv /\ SoFarSerial /\ [StoreNext]_store => SoFarSerial'
  <2> SUFFICES ASSUME StoreInv, GoneInv, SoFarSerial, [StoreNext]_store, ~overlapped'
               PROVE  (SerialInv /\ FilesInv)'
    BY DEF SoFarSerial
  <2>1. SerialInv /\ FilesInv
    BY OverlapStays DEF SoFarSerial
  <2> QED BY <2>1, SerialStep, FilesStep DEF StoreInv
<1> QED BY <1>1, <1>2, Invariant, GoneInvariant, PTL DEF StoreSpec

\* As long as changes have not overlapped, and whatever crashes and failures
\* there are: at rest the blobs, the durations and the manifest are those of the
\* files that were added and not deleted, but for the files a fault has cut off.
THEOREM ConsistentHolds == StoreSpec => []Consistent
<1>1. StoreInv /\ SoFarSerial => Consistent
  <2> SUFFICES ASSUME StoreTypeOK, SerialInv, FilesInv,
                      \A f \in Files : ~Adding(f), \A d \in Deleters : ~Deleting(d)
               PROVE  /\ hit = {} => main \subseteq Files
                      /\ \A f \in Files \ hit :
                            IF app[f].at = "done" /\ f \notin asked
                              THEN blob[f] = "whole" /\ f \in meta /\ f \in main
                              ELSE ~Exists(f)
    BY DEF Consistent, StoreInv, SoFarSerial
  <2>1. hit = {} => main \subseteq Files
    BY DEF SerialInv
  <2>2. ASSUME NEW f \in Files, f \notin hit
        PROVE  IF app[f].at = "done" /\ f \notin asked
                 THEN blob[f] = "whole" /\ f \in meta /\ f \in main
                 ELSE ~Exists(f)
    <3>1. FileInv(f)
      BY <2>2 DEF FilesInv
    <3>2. app[f].at \in {"new", "done"}
      BY <3>1 DEF FileInv, Adding, StoreTypeOK, AppPlaces
    <3> QED BY <3>1, <3>2 DEF FileInv, Exists
  <2> QED BY <2>1, <2>2
<1> QED BY <1>1, Invariant, SerialInvariant, PTL

\* As long as changes have not overlapped, a call of delete_completed that is
\* answered has removed the blob, the duration and the line, even those an earlier
\* call that was cut off has left.
THEOREM DeleteCleansHolds == StoreSpec => DeleteCleans
<1>1. StoreInv /\ GoneInv /\ SoFarSerial /\ [StoreNext]_store
         => [\A d \in Deleters :
               del[d].at = "replace" /\ del'[d].at = "idle" /\ faults' = faults /\ ~overlapped
                  => ~Exists(del[d].file)']_store
  <2> SUFFICES ASSUME StoreTypeOK, GoneInv, SerialInv, StoreNext, NEW d \in Deleters,
                      del[d].at = "replace", del'[d].at = "idle", faults' = faults
               PROVE  ~Exists(del[d].file)'
    BY DEF StoreInv, SoFarSerial
  <2>0. /\ Deleting(d) /\ \A e \in Deleters : Deleting(e) => e = d
        /\ blob[del[d].file] = "none" /\ del[d].file \notin meta
        /\ tmp = main \ {del[d].file} /\ tmp # Absent /\ del[d].file \in Files
    <3>1. tmp = main \ {del[d].file} /\ main \in SUBSET Lines
      BY DEF SerialInv, StoreTypeOK
    <3>2. tmp # Absent
      BY <3>1, LinesNotAbsent
    <3> QED
      BY <3>1, <3>2 DEF SerialInv, GoneInv, AfterUnlink, Rewriting, Deleting, StoreTypeOK
  <2>1. ASSUME NEW e \in Deleters, Deletion(e) PROVE e = d /\ Replace(d)
    <3>1. Deleting(e)
      BY <2>1 DEF Deletion, Wipe, Unlink, UnlinkMeta, OpenSource, OpenTmp, ReadManifest,
         WriteTmp, Rename, Goes, Deleting
    <3>2. e = d
      BY <2>0, <3>1
    <3>3. Rename(d)
      BY <2>1, <3>2 DEF Deletion, Wipe, Unlink, UnlinkMeta, OpenSource, OpenTmp, ReadManifest,
         WriteTmp, Goes
    <3> QED BY <2>0, <3>2, <3>3 DEF Rename
  <2>2. CASE Replace(d)
    <3>1. /\ blob' = blob /\ meta' = meta /\ main' = tmp
          /\ del'[d].file = del[d].file
      BY <2>0, <2>2, ReplaceStep DEF Replace
    <3> QED BY <2>0, <3>1 DEF Exists
  <2>3. ASSUME NEW f \in Files, Land(f) \/ AppendCompleted(f) \/ AppFail(f) PROVE FALSE
    BY <2>3, AddMovesNoDeleter DEF AppendCompleted
  <2>4. ASSUME NEW e \in Deleters, NEW f \in Files, Delete(e, f) PROVE FALSE
    <3>1. del'[d] = del[d]
      BY <2>4 DEF Delete, StoreTypeOK
    <3> QED BY <3>1
  <2>5. ~StoreCrash /\ \A e \in Deleters : ~DelFail(e)
    BY StoreAssumption DEF StoreCrash, DelFail, StoreTypeOK
  <2> QED BY <2>1, <2>2, <2>3, <2>4, <2>5 DEF StoreNext
<1> QED BY <1>1, Invariant, GoneInvariant, SerialInvariant, PTL DEF StoreSpec, DeleteCleans
=============================================================================
