----------------------------- MODULE RateLimiter -----------------------------
(***************************************************************************)
(* jirachi/ratelimit: a sliding-window limiter.  `attempts' maps a key     *)
(* (remote address, target user, acting user) to the moments of the        *)
(* attempts it granted.  Every handler that calls Allow holds the mutex    *)
(* for the whole call, so Allow is one action; the clock advances between  *)
(* calls, and any number of calls may see the same instant.                *)
(***************************************************************************)
EXTENDS Integers, FiniteSets

CONSTANTS
    Keys,       \* what the limiter is keyed by
    Window,     \* length of the window, in ticks of the clock
    Max,        \* attempts granted per window
    MaxTime,    \* bound of the model: last instant of the clock
    MaxCalls    \* bound of the model: number of granted calls per key

ASSUME WindowAssumption == Window \in Nat
ASSUME MaxAssumption == Max \in Nat
ASSUME BoundsAssumption == MaxTime \in Nat /\ MaxCalls \in Nat

VARIABLES
    now,        \* time.Now(): monotonic
    attempts,   \* the slice kept for each key, as a set of numbered attempts
    granted,    \* history: every attempt the limiter ever granted
    calls       \* history: how many it granted, so that each has a number

vars == <<now, attempts, granted, calls>>

\* Two attempts may carry the same time; their number tells them apart.
Attempt == [at : 0..MaxTime, no : 1..MaxCalls]

TypeOK ==
    /\ now \in 0..MaxTime
    /\ attempts \in [Keys -> SUBSET Attempt]
    /\ granted \in [Keys -> SUBSET Attempt]
    /\ calls \in [Keys -> 0..MaxCalls]

Init ==
    /\ now = 0
    /\ attempts = [k \in Keys |-> {}]
    /\ granted = [k \in Keys |-> {}]
    /\ calls = [k \in Keys |-> 0]

------------------------------------------------------------------------------
\* Slips of the pruning loop: `not before' for `after', and a window cut short.
ValidNotBefore(k) == {a \in attempts[k] : a.at >= now - Window}
ValidCutShort(k) == {a \in attempts[k] : a.at > now - Window + 1}

\* The attempts the pruning loop keeps: t.After(now - window) is strict, so
\* an attempt exactly one window old is forgotten.
Valid(k) == {a \in attempts[k] : a.at > now - Window}

\* len(rl.attempts[key]) >= rl.max, after pruning.
Full(k) == Cardinality(Valid(k)) >= Max

\* Allow returns false: the pruned slice is kept, nothing is recorded.
Deny(k) ==
    /\ Full(k)
    /\ attempts' = [attempts EXCEPT ![k] = Valid(k)]
    /\ UNCHANGED <<now, granted, calls>>

Record(k, t) ==
    LET a == [at |-> t, no |-> calls[k] + 1]
    IN  /\ calls[k] < MaxCalls
        /\ calls' = [calls EXCEPT ![k] = @ + 1]
        /\ attempts' = [attempts EXCEPT ![k] = Valid(k) \cup {a}]
        /\ granted' = [granted EXCEPT ![k] = @ \cup {a}]
        /\ UNCHANGED now

\* Slips of the append: one attempt too many, and the expiry stored for the time.
GrantOneTooMany(k) == Cardinality(Valid(k)) <= Max /\ Record(k, now)
GrantStoresExpiry(k) == ~Full(k) /\ Record(k, now + Window)

\* Allow returns true: the attempt is appended to the pruned slice.
Grant(k) == ~Full(k) /\ Record(k, now)

Allow(k) == Deny(k) \/ Grant(k)

Tick ==
    /\ now < MaxTime
    /\ now' = now + 1
    /\ UNCHANGED <<attempts, granted, calls>>

Next == Tick \/ \E k \in Keys : Allow(k)

Spec == Init /\ [][Next]_vars

------------------------------------------------------------------------------
\* The attempts granted in the window of length Window that ends at t.
InWindow(k, t) == {g \in granted[k] : t - Window < g.at /\ g.at <= t}

\* What the limiter is for: whatever the window looked at, not only those that
\* start when the code prunes, no more than Max attempts were granted in it.
AtMostMaxPerWindow ==
    \A k \in Keys, t \in 0..MaxTime : Cardinality(InWindow(k, t)) <= Max

\* Pruning only forgets: a granted attempt that still counts is never lost, and
\* nothing is counted that was not granted.
RemembersWhatCounts ==
    \A k \in Keys : InWindow(k, now) \subseteq attempts[k] /\ attempts[k] \subseteq granted[k]

\* A call made now would be refused only if Max attempts were really granted
\* within the window that ends now: the limiter never refuses early.
RefusesOnlyWhenFull ==
    \A k \in Keys : Full(k) => Cardinality(InWindow(k, now)) >= Max

==============================================================================
