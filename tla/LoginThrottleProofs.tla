------------------------- MODULE LoginThrottleProofs -------------------------
(***************************************************************************)
(* The login throttle keeps its promise, for any window, any limit and any *)
(* number of addresses.                                                    *)
(***************************************************************************)
EXTENDS LoginThrottle, FiniteSetTheorems, TLAPS

\* What is proved of one address, its queue q and failures f at the time n: the
\* queue is the right end of the failures, which are in the order of their times,
\* and what was taken from it is older than the window.
Kept(q, f, n) ==
    /\ Len(q) <= MaxFailures
    /\ Len(q) <= Len(f)
    /\ \A i \in 1..Len(q) : q[i] = f[Len(f) - Len(q) + i]
    /\ \A i \in 1..(Len(f) - Len(q)) : n > f[i] + Window
    /\ \A i \in 1..Len(f) : f[i] <= n
    /\ \A i, j \in 1..Len(f) : i <= j => f[i] <= f[j]
    /\ \A i \in 1..Len(f) : i + MaxFailures <= Len(f)
          => f[i + MaxFailures] > f[i] + Window

Types ==
    /\ now \in 0..MaxTime
    /\ queue \in [Addresses -> Seq(0..MaxTime)]
    /\ failures \in [Addresses -> Seq(0..MaxTime)]

Inv == Types /\ \A a \in Addresses : Kept(queue[a], failures[a], now)

-----------------------------------------------------------------------------
(* One address.                                                            *)

\* The left end of a queue goes, the rest keeps its order.
LEMMA RestIs ==
    ASSUME NEW T, NEW q \in Seq(T), NEW k \in 0..Len(q)
    PROVE  /\ Rest(q, k) \in Seq(T)
           /\ Len(Rest(q, k)) = Len(q) - k
           /\ \A i \in 1..Len(Rest(q, k)) : Rest(q, k)[i] = q[k + i]
BY DEF Rest

\* A failure is recorded at the right end.
LEMMA AppendIs ==
    ASSUME NEW T, NEW q \in Seq(T), NEW t \in T
    PROVE  /\ Append(q, t) \in Seq(T)
           /\ Len(Append(q, t)) = Len(q) + 1
           /\ \A i \in 1..Len(q) : Append(q, t)[i] = q[i]
           /\ Append(q, t)[Len(q) + 1] = t
OBVIOUS

\* Time goes by: what is older than the window remains so.
LEMMA KeptLater ==
    ASSUME NEW q \in Seq(Nat), NEW f \in Seq(Nat), NEW n \in Nat, NEW m \in Nat,
           Kept(q, f, n), n <= m
    PROVE  Kept(q, f, m)
<1>1. \A i \in 1..Len(f) : f[i] \in Nat
  OBVIOUS
<1>2. \A i \in 1..(Len(f) - Len(q)) : i \in 1..Len(f)
  OBVIOUS
<1>3. \A i \in 1..(Len(f) - Len(q)) : m > f[i] + Window
  BY <1>1, <1>2, ThrottleAssumption DEF Kept
<1>4. \A i \in 1..Len(f) : f[i] <= m
  BY <1>1 DEF Kept
<1> QED
  BY <1>3, <1>4 DEF Kept

\* The loop of assert_login_allowed takes from the queue what is too old, and no
\* more.
LEMMA KeptPruned ==
    ASSUME NEW q \in Seq(Nat), NEW f \in Seq(Nat), NEW k \in 0..Len(q),
           Types, Kept(q, f, now), Goes(q, k)
    PROVE  Kept(Rest(q, k), f, now)
<1>1. Len(q) \in Nat /\ Len(f) \in Nat /\ Len(q) <= Len(f)
  BY DEF Kept
<1>2. /\ Len(Rest(q, k)) = Len(q) - k
      /\ \A i \in 1..Len(Rest(q, k)) : Rest(q, k)[i] = q[k + i]
  BY RestIs
<1>3. ASSUME NEW i \in 1..(Len(f) - (Len(q) - k))
      PROVE  now > f[i] + Window
  <2>1. CASE i <= Len(f) - Len(q)
    BY <1>1, <2>1 DEF Kept
  <2>2. CASE i > Len(f) - Len(q)
    <3>1. i - (Len(f) - Len(q)) \in 1..k
      BY <1>1, <2>2
    <3>2. q[i - (Len(f) - Len(q))] = f[i]
      BY <1>1, <3>1 DEF Kept
    <3> QED
      BY <3>1, <3>2 DEF Goes, Expired
  <2> QED
    BY <1>1, <2>1, <2>2
<1>4. ASSUME NEW i \in 1..(Len(q) - k)
      PROVE  q[k + i] = f[Len(f) - (Len(q) - k) + i]
  BY <1>1 DEF Kept
<1>5. Len(q) - k <= MaxFailures /\ Len(q) - k <= Len(f)
  BY <1>1, ThrottleAssumption DEF Kept
<1> QED
  BY <1>2, <1>3, <1>4, <1>5 DEF Kept

\* A failure is recorded while fewer than MaxFailures are left in the queue, so
\* the one MaxFailures before it is among those that are too old.
LEMMA KeptAppended ==
    ASSUME NEW q \in Seq(Nat), NEW f \in Seq(Nat), NEW t \in Nat,
           Kept(q, f, t), ~Full(q)
    PROVE  Kept(Append(q, t), Append(f, t), t)
<1> DEFINE nq == Append(q, t)
           nf == Append(f, t)
<1>1. Len(q) \in Nat /\ Len(f) \in Nat /\ Len(q) <= Len(f) /\ Len(q) < MaxFailures
  BY ThrottleAssumption DEF Kept, Full
<1>2. /\ Len(nq) = Len(q) + 1 /\ nq[Len(q) + 1] = t
      /\ \A i \in 1..Len(q) : nq[i] = q[i]
  BY AppendIs
<1>3. /\ Len(nf) = Len(f) + 1 /\ nf[Len(f) + 1] = t
      /\ \A i \in 1..Len(f) : nf[i] = f[i]
  BY AppendIs
<1>4. \A i \in 1..Len(f) : f[i] \in Nat
  OBVIOUS
<1> HIDE DEF nq, nf
<1>5. ASSUME NEW i \in 1..Len(nq)
      PROVE  nq[i] = nf[Len(nf) - Len(nq) + i]
  <2>1. CASE i = Len(q) + 1
    BY <1>1, <1>2, <1>3, <2>1
  <2>2. CASE i # Len(q) + 1
    <3>1. i \in 1..Len(q) /\ Len(f) - Len(q) + i \in 1..Len(f)
      BY <1>1, <1>2, <2>2
    <3>2. q[i] = f[Len(f) - Len(q) + i] /\ Len(nf) - Len(nq) + i = Len(f) - Len(q) + i
      BY <1>1, <1>2, <1>3, <3>1 DEF Kept
    <3> QED
      BY <1>2, <1>3, <3>1, <3>2
  <2> QED
    BY <2>1, <2>2
<1>6. ASSUME NEW i \in 1..(Len(nf) - Len(nq))
      PROVE  t > nf[i] + Window
  <2>1. i \in 1..(Len(f) - Len(q)) /\ i \in 1..Len(f)
    BY <1>1, <1>2, <1>3
  <2> QED
    BY <1>3, <2>1 DEF Kept
<1>7. ASSUME NEW i \in 1..Len(nf)
      PROVE  nf[i] <= t
  <2>1. CASE i = Len(f) + 1
    BY <1>3, <2>1
  <2>2. CASE i # Len(f) + 1
    <3>1. i \in 1..Len(f)
      BY <1>1, <1>3, <2>2
    <3> QED
      BY <1>3, <3>1 DEF Kept
  <2> QED
    BY <2>1, <2>2
<1>8. ASSUME NEW i \in 1..Len(nf), i + MaxFailures <= Len(nf)
      PROVE  nf[i + MaxFailures] > nf[i] + Window
  <2>1. i \in 1..Len(f)
    BY <1>1, <1>3, <1>8, ThrottleAssumption
  <2>2. CASE i + MaxFailures <= Len(f)
    <3>1. i + MaxFailures \in 1..Len(f)
      BY <1>1, <2>1, <2>2, ThrottleAssumption
    <3> QED
      BY <1>3, <2>1, <2>2, <3>1 DEF Kept
  <2>3. CASE i + MaxFailures = Len(f) + 1
    <3>1. i \in 1..(Len(f) - Len(q))
      BY <1>1, <2>1, <2>3, ThrottleAssumption
    <3>2. t > f[i] + Window
      BY <3>1 DEF Kept
    <3> QED
      BY <1>3, <2>1, <2>3, <3>2
  <2>4. i + MaxFailures \in Nat /\ i + MaxFailures <= Len(f) + 1
    BY <1>1, <1>3, <1>8, <2>1, ThrottleAssumption
  <2>5. i + MaxFailures <= Len(f) \/ i + MaxFailures = Len(f) + 1
    BY <1>1, <2>4
  <2> QED
    BY <2>2, <2>3, <2>5
<1>9. Len(nq) <= MaxFailures /\ Len(nq) <= Len(nf)
  BY <1>1, <1>2, <1>3, ThrottleAssumption
<1>10. ASSUME NEW i \in 1..Len(nf), NEW j \in 1..Len(nf), i <= j
       PROVE  nf[i] <= nf[j]
  <2>1. CASE j = Len(f) + 1
    BY <1>3, <1>7, <2>1
  <2>2. CASE j # Len(f) + 1
    <3>1. i \in 1..Len(f) /\ j \in 1..Len(f)
      BY <1>1, <1>3, <1>10, <2>2
    <3> QED
      BY <1>3, <1>10, <3>1 DEF Kept
  <2> QED
    BY <2>1, <2>2
<1> QED
  BY <1>5, <1>6, <1>7, <1>8, <1>9, <1>10 DEF Kept, nq, nf

-----------------------------------------------------------------------------
(* The steps.                                                              *)

\* The clock is the only thing addresses share.
LEMMA AllKept ==
    ASSUME Inv, Types', now <= now', NEW a \in Addresses,
           Kept(queue'[a], failures'[a], now'),
           \A b \in Addresses \ {a} :
               queue'[b] = queue[b] /\ failures'[b] = failures[b]
    PROVE  Inv'
<1>1. ASSUME NEW b \in Addresses \ {a}
      PROVE  Kept(queue'[b], failures'[b], now')
  <2>1. queue[b] \in Seq(Nat) /\ failures[b] \in Seq(Nat) /\ now \in Nat /\ now' \in Nat
    BY ThrottleAssumption DEF Inv, Types
  <2>2. Kept(queue[b], failures[b], now)
    BY DEF Inv
  <2> QED
    BY <2>1, <2>2, KeptLater
<1> QED
  BY <1>1 DEF Inv

\* Every step keeps the invariant.
LEMMA Step ==
    ASSUME Inv, [Next]_vars
    PROVE  Inv'
<1>1. CASE Tick
  <2>1. Types' /\ now <= now' /\ now \in Nat /\ now' \in Nat
    BY <1>1, ThrottleAssumption DEF Tick, Inv, Types
  <2>2. ASSUME NEW b \in Addresses
        PROVE  Kept(queue[b], failures[b], now')
    <3>1. queue[b] \in Seq(Nat) /\ failures[b] \in Seq(Nat)
      BY ThrottleAssumption DEF Inv, Types
    <3> QED
      BY <2>1, <3>1, KeptLater DEF Inv
  <2> QED
    BY <1>1, <2>1, <2>2 DEF Tick, Inv
<1>2. ASSUME NEW a \in Addresses, Refuse(a)
      PROVE  Inv'
  <2>1. PICK k \in 0..Len(queue[a]) :
            /\ Goes(queue[a], k)
            /\ queue' = [queue EXCEPT ![a] = Rest(@, k)]
            /\ now' = now /\ failures' = failures
    BY <1>2 DEF Refuse
  <2>2. /\ queue[a] \in Seq(0..MaxTime) /\ queue[a] \in Seq(Nat)
        /\ failures[a] \in Seq(Nat) /\ now \in Nat
    BY ThrottleAssumption DEF Inv, Types
  <2>3. Rest(queue[a], k) \in Seq(0..MaxTime)
    BY <2>2, RestIs
  <2>4. Types'
    BY <2>1, <2>3 DEF Inv, Types
  <2>5. Kept(Rest(queue[a], k), failures[a], now)
    BY <2>1, <2>2, KeptPruned DEF Inv
  <2>6. Kept(queue'[a], failures'[a], now')
    BY <2>1, <2>5 DEF Inv, Types
  <2> QED
    BY <2>1, <2>2, <2>4, <2>6, AllKept DEF Inv, Types
<1>3. ASSUME NEW a \in Addresses, Fail(a)
      PROVE  Inv'
  <2>1. PICK k \in 0..Len(queue[a]), t \in {now, now + 1} :
            /\ t <= MaxTime
            /\ Goes(queue[a], k) /\ ~Full(Rest(queue[a], k))
            /\ now' = t
            /\ queue' = [queue EXCEPT ![a] = Append(Rest(@, k), t)]
            /\ failures' = [failures EXCEPT ![a] = Append(@, t)]
    BY <1>3 DEF Fail
  <2>2. /\ queue[a] \in Seq(0..MaxTime) /\ queue[a] \in Seq(Nat)
        /\ failures[a] \in Seq(0..MaxTime) /\ failures[a] \in Seq(Nat)
        /\ now \in Nat /\ t \in Nat /\ now <= t /\ t \in 0..MaxTime
    BY <2>1, ThrottleAssumption DEF Inv, Types
  <2>3. Rest(queue[a], k) \in Seq(0..MaxTime) /\ Rest(queue[a], k) \in Seq(Nat)
    BY <2>2, RestIs
  <2>4. Append(Rest(queue[a], k), t) \in Seq(0..MaxTime)
        /\ Append(failures[a], t) \in Seq(0..MaxTime)
    BY <2>2, <2>3, AppendIs
  <2>5. Types'
    BY <2>1, <2>2, <2>4 DEF Inv, Types
  <2>6. Kept(Rest(queue[a], k), failures[a], t)
    BY <2>1, <2>2, <2>3, KeptPruned, KeptLater DEF Inv
  <2>7. Kept(Append(Rest(queue[a], k), t), Append(failures[a], t), t)
    BY <2>1, <2>2, <2>3, <2>6, KeptAppended
  <2>8. Kept(queue'[a], failures'[a], now')
    BY <2>1, <2>7 DEF Inv, Types
  <2> QED
    BY <2>1, <2>2, <2>5, <2>8, AllKept DEF Inv, Types
<1>4. ASSUME NEW a \in Addresses, Login(a)
      PROVE  Inv'
  <2>1. /\ Types' /\ queue'[a] = <<>> /\ failures'[a] = <<>> /\ now' = now
        /\ now \in Nat
    BY <1>4, ThrottleAssumption DEF Login, Inv, Types
  <2>2. Kept(<<>>, <<>>, now)
    BY ThrottleAssumption DEF Kept
  <2>3. \A b \in Addresses \ {a} : queue'[b] = queue[b] /\ failures'[b] = failures[b]
    BY <1>4 DEF Login, Inv, Types
  <2> QED
    BY <2>1, <2>2, <2>3, AllKept
<1>5. CASE UNCHANGED vars
  BY <1>5 DEF vars, Inv, Types
<1> QED
  BY <1>1, <1>2, <1>3, <1>4, <1>5 DEF Next

\* The invariant holds in every reachable state.
LEMMA InvHolds == Spec => []Inv
<1>1. Init => Inv
  BY ThrottleAssumption DEF Init, Inv, Types, Kept
<1>2. Inv /\ [Next]_vars => Inv'
  BY Step
<1> QED
  BY <1>1, <1>2, PTL DEF Spec

\* Every variable keeps its type and no queue outgrows the limit.
THEOREM TypeCorrect == Spec => []TypeOK
<1>1. Inv => TypeOK
  BY DEF Inv, Types, Kept, TypeOK
<1> QED
  BY <1>1, InvHolds, PTL

\* No address has more than MaxFailures passwords looked at within any window,
\* however its attempts are spread.
THEOREM AtMostPerWindowHolds == Spec => []AtMostPerWindow
<1>1. Inv => AtMostPerWindow
  BY DEF Inv, Kept, AtMostPerWindow
<1> QED
  BY <1>1, InvHolds, PTL

-----------------------------------------------------------------------------
(* What the queue says of the failures.                                    *)

\* A queue within its limit blocks only while it is full and its oldest entry is
\* not yet too old.
LEMMA BlockedIs ==
    ASSUME NEW a \in Addresses, queue[a] \in Seq(Nat), Len(queue[a]) <= MaxFailures
    PROVE  Blocked(a) <=> Len(queue[a]) = MaxFailures /\ ~Expired(queue[a][1])
<1> DEFINE q == queue[a]
<1>1. ASSUME NEW k \in 0..Len(q)
      PROVE  Full(Rest(q, k)) <=> k = 0 /\ Len(q) = MaxFailures
  BY RestIs, ThrottleAssumption DEF Full
<1>2. Len(q) = MaxFailures => (Goes(q, 0) <=> ~Expired(q[1]))
  BY ThrottleAssumption DEF Goes
<1>3. 0 \in 0..Len(q)
  OBVIOUS
<1> QED
  BY <1>1, <1>2, <1>3 DEF Blocked

\* How many numbers lie above lo and up to hi.
LEMMA CountAbove ==
    ASSUME NEW lo \in Nat, NEW hi \in Nat, lo <= hi
    PROVE  IsFiniteSet((lo + 1)..hi) /\ Cardinality((lo + 1)..hi) = hi - lo
<1>1. lo + 1 \in Int /\ hi \in Int
  OBVIOUS
<1>2. /\ IsFiniteSet((lo + 1)..hi)
      /\ Cardinality((lo + 1)..hi) = IF lo + 1 > hi THEN 0 ELSE hi - (lo + 1) + 1
  BY <1>1, FS_Interval
<1> QED
  BY <1>2

\* The failures within the window are counted by the queue: all of them are in
\* it, and all of it is recent once its oldest entry is.
LEMMA CountIs ==
    ASSUME NEW q \in Seq(Nat), NEW f \in Seq(Nat), NEW n \in Nat, Kept(q, f, n),
           NEW R, R = {i \in DOMAIN f : n <= f[i] + Window}
    PROVE  Cardinality(R) >= MaxFailures
              <=> Len(q) = MaxFailures /\ ~(n > q[1] + Window)
<1>1. PICK m \in Nat : Len(f) = m + Len(q) /\ m = Len(f) - Len(q)
  BY DEF Kept
<1>2. /\ Len(q) \in Nat /\ Len(f) \in Nat /\ Len(q) <= MaxFailures
      /\ MaxFailures \in Nat /\ MaxFailures > 0 /\ Window \in Nat
  BY ThrottleAssumption DEF Kept
<1>3. ASSUME NEW i \in 1..Len(f)
      PROVE  f[i] \in Nat /\ (i \in R <=> n <= f[i] + Window)
  OBVIOUS
<1>4. R \subseteq 1..Len(f)
  OBVIOUS
<1>5. R \subseteq (m + 1)..Len(f)
  <2>1. ASSUME NEW i \in R
        PROVE  i \in (m + 1)..Len(f)
    <3>1. i \in 1..Len(f) /\ n <= f[i] + Window /\ f[i] \in Nat
      BY <1>3, <1>4
    <3>2. i \in 1..m => n > f[i] + Window
      BY <1>1 DEF Kept
    <3> QED
      BY <1>1, <1>2, <3>1, <3>2
  <2> QED
    BY <2>1
<1>6. IsFiniteSet((m + 1)..Len(f)) /\ Cardinality((m + 1)..Len(f)) = Len(q)
  <2>1. m <= Len(f) /\ Len(f) - m = Len(q)
    BY <1>1, <1>2
  <2> QED
    BY <1>1, <1>2, <2>1, CountAbove
<1>7. IsFiniteSet(R) /\ Cardinality(R) <= Len(q)
  BY <1>5, <1>6, FS_Subset
<1>8. Cardinality(R) \in Nat
  BY <1>7, FS_CardinalityType
<1>9. ASSUME Len(q) = MaxFailures
      PROVE  m + 1 \in 1..Len(f) /\ q[1] = f[m + 1]
  <2>1. 1 \in 1..Len(q) /\ m + 1 \in 1..Len(f)
    BY <1>1, <1>2, <1>9
  <2> QED
    BY <1>1, <2>1 DEF Kept
<1>10. ASSUME Len(q) = MaxFailures, ~(n > q[1] + Window)
       PROVE  Cardinality(R) >= MaxFailures
  <2>1. m + 1 \in 1..Len(f) /\ n <= f[m + 1] + Window
    BY <1>2, <1>3, <1>9, <1>10
  <2>2. ASSUME NEW i \in (m + 1)..Len(f)
        PROVE  i \in R
    <3>1. i \in 1..Len(f) /\ m + 1 <= i
      BY <1>1, <1>2
    <3>2. f[m + 1] <= f[i]
      BY <2>1, <3>1 DEF Kept
    <3> QED
      BY <1>2, <1>3, <2>1, <3>1, <3>2
  <2>3. Cardinality((m + 1)..Len(f)) <= Cardinality(R)
    BY <1>7, <2>2, FS_Subset
  <2> QED
    BY <1>2, <1>6, <1>8, <1>10, <2>3
<1>11. ASSUME Cardinality(R) >= MaxFailures
       PROVE  Len(q) = MaxFailures /\ ~(n > q[1] + Window)
  <2>1. Len(q) = MaxFailures
    BY <1>2, <1>7, <1>8, <1>11
  <2>2. m + 1 \in 1..Len(f) /\ q[1] = f[m + 1]
    BY <1>9, <2>1
  <2>3. ASSUME m + 1 \notin R
        PROVE  FALSE
    <3> DEFINE k == m + 1
    <3>1. k \in Nat /\ k <= Len(f) /\ Len(f) - k = Len(q) - 1
      BY <1>1, <1>2, <2>2
    <3>2. R \subseteq (k + 1)..Len(f)
      <4>1. ASSUME NEW i \in R
            PROVE  i \in (k + 1)..Len(f)
        <5>1. i \in (m + 1)..Len(f) /\ i # m + 1
          BY <1>5, <2>3
        <5> QED
          BY <1>1, <1>2, <5>1
      <4> QED
        BY <4>1
    <3> HIDE DEF k
    <3>3. IsFiniteSet((k + 1)..Len(f)) /\ Cardinality((k + 1)..Len(f)) = Len(q) - 1
      BY <1>2, <3>1, CountAbove
    <3>4. Cardinality(R) <= Cardinality((k + 1)..Len(f))
      BY <3>2, <3>3, FS_Subset
    <3> QED
      BY <1>2, <1>8, <1>11, <2>1, <3>3, <3>4
  <2>4. n <= f[m + 1] + Window
    BY <1>3, <2>2, <2>3
  <2> QED
    BY <1>2, <1>3, <2>1, <2>2, <2>4
<1> QED
  BY <1>10, <1>11

\* An address is refused exactly when MaxFailures of its failures are not older
\* than the window, though its queue is pruned only when it tries to log in.
THEOREM BlockedExactlyHolds == Spec => []BlockedExactly
<1>1. ASSUME Inv, NEW a \in Addresses
      PROVE  Blocked(a) <=> Cardinality(Recent(a)) >= MaxFailures
  <2>1. /\ queue[a] \in Seq(Nat) /\ failures[a] \in Seq(Nat) /\ now \in Nat
        /\ Kept(queue[a], failures[a], now)
    BY <1>1, ThrottleAssumption DEF Inv, Types
  <2>2. Len(queue[a]) <= MaxFailures
    BY <2>1 DEF Kept
  <2>3. Recent(a) = {i \in DOMAIN failures[a] : now <= failures[a][i] + Window}
    BY DEF Recent
  <2>4. Cardinality(Recent(a)) >= MaxFailures
           <=> Len(queue[a]) = MaxFailures /\ ~(now > queue[a][1] + Window)
    BY <2>1, <2>3, CountIs
  <2> QED
    BY <2>1, <2>2, <2>4, BlockedIs DEF Expired
<1>2. Inv => BlockedExactly
  BY <1>1 DEF BlockedExactly
<1> QED
  BY <1>2, InvHolds, PTL
=============================================================================
