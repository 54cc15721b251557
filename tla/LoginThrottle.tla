---------------------------- MODULE LoginThrottle ----------------------------
(***************************************************************************)
(* The login throttle of auth.py: per address the times of the failed      *)
(* logins that are not older than the window.  The endpoint login has no   *)
(* await, so a login is one step of the event loop.                        *)
(***************************************************************************)
EXTENDS Naturals, Sequences, FiniteSets

CONSTANTS
    Addresses,
    Window,        \* _LOGIN_WINDOW_S
    MaxFailures,   \* _LOGIN_MAX_FAILURES
    MaxTime        \* bound on the clock

ASSUME ThrottleAssumption ==
    Window \in Nat /\ MaxFailures \in Nat \ {0} /\ MaxTime \in Nat

VARIABLES
    now,       \* time.time(), which is taken not to go back
    queue,     \* _login_failures
    failures   \* all failures of an address since it last logged in

vars == <<now, queue, failures>>

Init ==
    /\ now = 0
    /\ queue = [a \in Addresses |-> <<>>]
    /\ failures = [a \in Addresses |-> <<>>]

\* Mutant: >= for >.
ExpiredAtOnce(t) == now >= t + Window

Expired(t) == now > t + Window

\* The loop of assert_login_allowed takes k times from the left of q.
Goes(q, k) ==
    /\ \A i \in 1..k : Expired(q[i])
    /\ k < Len(q) => ~Expired(q[k + 1])

Rest(q, k) == SubSeq(q, k + 1, Len(q))

\* Mutant: > for >=.
FullLate(q) == Len(q) > MaxFailures

Full(q) == Len(q) >= MaxFailures

-----------------------------------------------------------------------------
Tick ==
    /\ now < MaxTime
    /\ now' = now + 1
    /\ UNCHANGED <<queue, failures>>

\* 429: the password is not looked at.
Refuse(a) ==
    \E k \in 0..Len(queue[a]) :
        /\ Goes(queue[a], k) /\ Full(Rest(queue[a], k))
        /\ queue' = [queue EXCEPT ![a] = Rest(@, k)]
        /\ UNCHANGED <<now, failures>>

\* A wrong password.  The clock is read again for the record.
Fail(a) ==
    \E k \in 0..Len(queue[a]), t \in {now, now + 1} :
        /\ t <= MaxTime
        /\ Goes(queue[a], k) /\ ~Full(Rest(queue[a], k))
        /\ now' = t
        /\ queue' = [queue EXCEPT ![a] = Append(Rest(@, k), t)]
        /\ failures' = [failures EXCEPT ![a] = Append(@, t)]

\* Mutant: the failures are not forgotten.
LoginKeeps(a) ==
    \E k \in 0..Len(queue[a]) :
        /\ Goes(queue[a], k) /\ ~Full(Rest(queue[a], k))
        /\ queue' = [queue EXCEPT ![a] = Rest(@, k)]
        /\ failures' = [failures EXCEPT ![a] = <<>>]
        /\ UNCHANGED now

\* The right one.
Login(a) ==
    \E k \in 0..Len(queue[a]) :
        /\ Goes(queue[a], k) /\ ~Full(Rest(queue[a], k))
        /\ queue' = [queue EXCEPT ![a] = <<>>]
        /\ failures' = [failures EXCEPT ![a] = <<>>]
        /\ UNCHANGED now

Next == Tick \/ \E a \in Addresses : Refuse(a) \/ Fail(a) \/ Login(a)

Spec == Init /\ [][Next]_vars

-----------------------------------------------------------------------------
(* Properties.                                                             *)

\* Every variable has its type; no queue outgrows the limit.
TypeOK ==
    /\ now \in 0..MaxTime
    /\ queue \in [Addresses -> Seq(0..MaxTime)]
    /\ failures \in [Addresses -> Seq(0..MaxTime)]
    /\ \A a \in Addresses : Len(queue[a]) <= MaxFailures

\* However its attempts are spread, an address that does not log in never tries
\* more than MaxFailures passwords within any Window: a failure and the one
\* MaxFailures later are more than a Window apart.
AtMostPerWindow ==
    \A a \in Addresses :
        \A i \in 1..Len(failures[a]) : i + MaxFailures <= Len(failures[a])
            => failures[a][i + MaxFailures] > failures[a][i] + Window

\* What assert_login_allowed would make of the queue now.
Blocked(a) ==
    \E k \in 0..Len(queue[a]) : Goes(queue[a], k) /\ Full(Rest(queue[a], k))

Recent(a) == {i \in DOMAIN failures[a] : now <= failures[a][i] + Window}

\* The queue, pruned by attempts at arbitrary times, blocks an address exactly
\* when MaxFailures of its failures are not older than the window.
BlockedExactly ==
    \A a \in Addresses : Blocked(a) <=> Cardinality(Recent(a)) >= MaxFailures
=============================================================================
