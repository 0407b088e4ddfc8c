-------------------------- MODULE RateLimiterProofs --------------------------
(***************************************************************************)
(* The sliding window never overflows, for every window length, limit,     *)
(* number of keys and length of run.                                       *)
(***************************************************************************)
EXTENDS RateLimiter, FiniteSetTheorems, TLAPS

\* What the window property needs to be inductive: nothing is granted in the
\* future, the history is finite, and the slice holds whatever still counts.
History ==
    \A k \in Keys :
        /\ IsFiniteSet(granted[k])
        /\ \A g \in granted[k] : g.at <= now

IInv == TypeOK /\ History /\ RemembersWhatCounts /\ AtMostMaxPerWindow

\* A fresh limiter has granted nothing.
LEMMA InitIInv == Init => IInv
<1> SUFFICES ASSUME Init PROVE IInv
  OBVIOUS
<1>1. TypeOK
  BY BoundsAssumption DEF Init, TypeOK
<1>2. History
  BY FS_EmptySet DEF Init, History
<1>3. RemembersWhatCounts
  BY DEF Init, RemembersWhatCounts, InWindow
<1>4. AtMostMaxPerWindow
  <2> SUFFICES ASSUME NEW k \in Keys, NEW t \in 0..MaxTime
               PROVE  Cardinality(InWindow(k, t)) <= Max
    BY DEF AtMostMaxPerWindow
  <2>1. InWindow(k, t) = {}
    BY DEF Init, InWindow
  <2> QED
    BY <2>1, FS_EmptySet, MaxAssumption
<1> QED
  BY <1>1, <1>2, <1>3, <1>4 DEF IInv

\* Every window ending now or later lies within what Allow counts: this is why
\* it is enough to compare the pruned slice with the limit.
LEMMA LaterWindows ==
    ASSUME TypeOK, RemembersWhatCounts, History,
           NEW k \in Keys, NEW t \in 0..MaxTime, t >= now
    PROVE  /\ InWindow(k, t) \subseteq Valid(k)
           /\ IsFiniteSet(Valid(k))
           /\ Cardinality(Valid(k)) \in Nat
<1>1. InWindow(k, t) \subseteq Valid(k)
  <2> SUFFICES ASSUME NEW g \in granted[k], t - Window < g.at
               PROVE  g \in attempts[k] /\ g.at > now - Window
    BY DEF InWindow, Valid
  <2>1. g \in Attempt /\ g.at \in Int /\ now \in Int /\ g.at <= now
    BY BoundsAssumption DEF TypeOK, Attempt, History
  <2>2. now - Window < g.at
    BY <2>1, WindowAssumption, BoundsAssumption
  <2>3. g \in InWindow(k, now)
    BY <2>1, <2>2 DEF InWindow
  <2> QED
    BY <2>2, <2>3, <2>1, WindowAssumption DEF RemembersWhatCounts
<1>2. Valid(k) \subseteq granted[k]
  BY DEF Valid, RemembersWhatCounts
<1>3. IsFiniteSet(Valid(k))
  BY <1>2, FS_Subset DEF History
<1> QED
  BY <1>1, <1>3, FS_CardinalityType

\* Types and history survive every step.
LEMMA TypeStep == TypeOK /\ [Next]_vars => TypeOK'
<1> SUFFICES ASSUME TypeOK, [Next]_vars PROVE TypeOK'
  OBVIOUS
<1>1. CASE Tick
  BY <1>1, BoundsAssumption DEF Tick, TypeOK
<1>2. ASSUME NEW k \in Keys, Deny(k) PROVE TypeOK'
  BY <1>2 DEF Deny, TypeOK, Valid
<1>3. ASSUME NEW k \in Keys, Grant(k) PROVE TypeOK'
  <2>1. calls[k] + 1 \in 1..MaxCalls
    BY <1>3, BoundsAssumption DEF Grant, Record, TypeOK
  <2>2. [at |-> now, no |-> calls[k] + 1] \in Attempt
    BY <2>1 DEF TypeOK, Attempt
  <2>3. Valid(k) \subseteq Attempt
    BY DEF Valid, TypeOK
  <2> QED
    BY <1>3, <2>1, <2>2, <2>3, BoundsAssumption DEF Grant, Record, TypeOK
<1>4. CASE UNCHANGED vars
  BY <1>4 DEF vars, TypeOK
<1> QED
  BY <1>1, <1>2, <1>3, <1>4 DEF Next, Allow

LEMMA HistoryStep == TypeOK /\ History /\ [Next]_vars => History'
<1> SUFFICES ASSUME TypeOK, History, [Next]_vars PROVE History'
  OBVIOUS
<1>1. CASE Tick
  BY <1>1, BoundsAssumption DEF Tick, TypeOK, History, Attempt
<1>2. ASSUME NEW k \in Keys, Deny(k) PROVE History'
  BY <1>2 DEF Deny, History
<1>3. ASSUME NEW k \in Keys, Grant(k) PROVE History'
  <2> DEFINE a == [at |-> now, no |-> calls[k] + 1]
  <2>1. IsFiniteSet(granted[k] \cup {a})
    BY FS_AddElement DEF History
  <2>2. a.at = now
    OBVIOUS
  <2>3. granted' = [granted EXCEPT ![k] = granted[k] \cup {a}] /\ now' = now
    BY <1>3 DEF Grant, Record
  <2> QED
    BY <2>1, <2>2, <2>3, BoundsAssumption DEF TypeOK, History
<1>4. CASE UNCHANGED vars
  BY <1>4 DEF vars, History
<1> QED
  BY <1>1, <1>2, <1>3, <1>4 DEF Next, Allow

LEMMA RemembersStep ==
    TypeOK /\ History /\ RemembersWhatCounts /\ [Next]_vars => RemembersWhatCounts'
<1> SUFFICES ASSUME TypeOK, History, RemembersWhatCounts, [Next]_vars
             PROVE  RemembersWhatCounts'
  OBVIOUS
<1>1. CASE Tick
  <2> SUFFICES ASSUME NEW k \in Keys
               PROVE  InWindow(k, now)' \subseteq attempts[k] /\ attempts[k] \subseteq granted[k]
    BY <1>1 DEF Tick, RemembersWhatCounts
  <2>1. now + 1 \in 0..MaxTime /\ now + 1 >= now /\ now' = now + 1 /\ granted' = granted
    BY <1>1, BoundsAssumption DEF Tick, TypeOK
  <2>2. InWindow(k, now)' = InWindow(k, now + 1)
    BY <2>1 DEF InWindow
  <2>3. InWindow(k, now + 1) \subseteq Valid(k)
    BY <2>1, LaterWindows
  <2> QED
    BY <2>2, <2>3 DEF Valid, RemembersWhatCounts
<1>2. ASSUME NEW k \in Keys, Deny(k) PROVE RemembersWhatCounts'
  <2>1. InWindow(k, now) \subseteq Valid(k)
    BY LaterWindows, BoundsAssumption DEF TypeOK
  <2> QED
    BY <1>2, <2>1 DEF Deny, RemembersWhatCounts, TypeOK, InWindow, Valid
<1>3. ASSUME NEW k \in Keys, Grant(k) PROVE RemembersWhatCounts'
  <2> DEFINE a == [at |-> now, no |-> calls[k] + 1]
  <2>1. InWindow(k, now) \subseteq Valid(k)
    BY LaterWindows, BoundsAssumption DEF TypeOK
  <2>2. /\ granted' = [granted EXCEPT ![k] = granted[k] \cup {a}]
        /\ attempts' = [attempts EXCEPT ![k] = Valid(k) \cup {a}]
        /\ now' = now
    BY <1>3 DEF Grant, Record
  <2> HIDE DEF a
  <2> SUFFICES ASSUME NEW j \in Keys
               PROVE  InWindow(j, now)' \subseteq attempts'[j] /\ attempts'[j] \subseteq granted'[j]
    BY DEF RemembersWhatCounts
  <2>3. CASE j = k
    <3>1. attempts'[j] = Valid(k) \cup {a} /\ granted'[j] = granted[k] \cup {a}
      BY <2>2, <2>3 DEF TypeOK
    <3>2. InWindow(j, now)' \subseteq InWindow(k, now) \cup {a}
      BY <2>2, <3>1, <2>3 DEF InWindow
    <3> QED
      BY <2>1, <3>1, <3>2 DEF Valid, RemembersWhatCounts
  <2>4. CASE j # k
    BY <2>2, <2>4 DEF TypeOK, InWindow, RemembersWhatCounts
  <2> QED
    BY <2>3, <2>4
<1>4. CASE UNCHANGED vars
  BY <1>4 DEF vars, RemembersWhatCounts, InWindow
<1> QED
  BY <1>1, <1>2, <1>3, <1>4 DEF Next, Allow

\* The only step that fills a window is Grant, and it fills only windows that
\* end now or later; those hold the pruned slice and the new attempt at most.
LEMMA WindowStep == IInv /\ [Next]_vars => AtMostMaxPerWindow'
<1> SUFFICES ASSUME IInv, [Next]_vars PROVE AtMostMaxPerWindow'
  OBVIOUS
<1> USE DEF IInv
<1>1. CASE Tick
  BY <1>1 DEF Tick, AtMostMaxPerWindow, InWindow
<1>2. ASSUME NEW k \in Keys, Deny(k) PROVE AtMostMaxPerWindow'
  BY <1>2 DEF Deny, AtMostMaxPerWindow, InWindow
<1>3. ASSUME NEW k \in Keys, Grant(k) PROVE AtMostMaxPerWindow'
  <2> DEFINE a == [at |-> now, no |-> calls[k] + 1]
  <2>1. granted' = [granted EXCEPT ![k] = granted[k] \cup {a}]
    BY <1>3 DEF Grant, Record
  <2>2. a.at = now
    OBVIOUS
  <2> HIDE DEF a
  <2> SUFFICES ASSUME NEW j \in Keys, NEW t \in 0..MaxTime
               PROVE  Cardinality(InWindow(j, t)') <= Max
    BY DEF AtMostMaxPerWindow, InWindow
  <2>3. CASE j # k
    <3>1. InWindow(j, t)' = InWindow(j, t)
      BY <2>1, <2>3 DEF TypeOK, InWindow
    <3> QED
      BY <3>1 DEF AtMostMaxPerWindow
  <2>4. CASE j = k /\ ~(t >= now)
    <3>1. ~(now <= t)
      BY <2>4, BoundsAssumption DEF TypeOK
    <3>2. InWindow(j, t)' = InWindow(j, t)
      BY <2>1, <2>2, <2>4, <3>1 DEF TypeOK, InWindow
    <3> QED
      BY <3>2 DEF AtMostMaxPerWindow
  <2>5. CASE j = k /\ t >= now
    <3>1. /\ InWindow(k, t) \subseteq Valid(k)
          /\ IsFiniteSet(Valid(k))
          /\ Cardinality(Valid(k)) \in Nat
      BY <2>5, LaterWindows
    <3>2. InWindow(j, t)' \subseteq Valid(k) \cup {a}
      BY <2>1, <2>5, <3>1 DEF TypeOK, InWindow
    <3>3. /\ IsFiniteSet(Valid(k) \cup {a})
          /\ Cardinality(Valid(k) \cup {a}) <= Cardinality(Valid(k)) + 1
          /\ Cardinality(Valid(k) \cup {a}) \in Nat
      <4>1. /\ IsFiniteSet(Valid(k) \cup {a})
            /\ Cardinality(Valid(k) \cup {a}) =
                 IF a \in Valid(k) THEN Cardinality(Valid(k)) ELSE Cardinality(Valid(k)) + 1
        BY <3>1, FS_AddElement
      <4> QED
        BY <3>1, <4>1
    <3>4. Cardinality(Valid(k)) + 1 <= Max
      <4>1. ~(Cardinality(Valid(k)) >= Max)
        BY <1>3 DEF Grant, Full
      <4> QED
        BY <4>1, <3>1, MaxAssumption
    <3>5. /\ Cardinality(InWindow(j, t)') <= Cardinality(Valid(k) \cup {a})
          /\ Cardinality(InWindow(j, t)') \in Nat
      BY <3>2, <3>3, FS_Subset, FS_CardinalityType
    <3> QED
      BY <3>1, <3>3, <3>4, <3>5, MaxAssumption
  <2> QED
    BY <2>3, <2>4, <2>5
<1>4. CASE UNCHANGED vars
  BY <1>4 DEF vars, AtMostMaxPerWindow, InWindow
<1> QED
  BY <1>1, <1>2, <1>3, <1>4 DEF Next, Allow

\* The clock, the slices and the numbers of grants keep their types.
THEOREM LimiterTypes == Spec => []TypeOK
<1>1. Init => TypeOK
  BY InitIInv DEF IInv
<1> QED
  BY <1>1, TypeStep, PTL DEF Spec

\* No window of length Window, wherever it ends, ever holds more than Max
\* granted attempts.
THEOREM WindowNeverOverflows == Spec => []AtMostMaxPerWindow
<1>1. IInv /\ [Next]_vars => IInv'
  BY TypeStep, HistoryStep, RemembersStep, WindowStep DEF IInv
<1>2. Spec => []IInv
  BY <1>1, InitIInv, PTL DEF Spec
<1>3. IInv => AtMostMaxPerWindow
  BY DEF IInv
<1> QED
  BY <1>2, <1>3, PTL

\* The slice always holds exactly what it has to: no attempt that still counts
\* is forgotten and none is invented.
THEOREM PruningOnlyForgets == Spec => []RemembersWhatCounts
<1>1. IInv /\ [Next]_vars => IInv'
  BY TypeStep, HistoryStep, RemembersStep, WindowStep DEF IInv
<1>2. IInv => RemembersWhatCounts
  BY DEF IInv
<1> QED
  BY <1>1, <1>2, InitIInv, PTL DEF Spec

\* The limiter never refuses early: what it counts is what the window holds.
THEOREM NeverRefusesEarly == Spec => []RefusesOnlyWhenFull
<1>1. IInv => RefusesOnlyWhenFull
  <2> SUFFICES ASSUME IInv, NEW k \in Keys
               PROVE  Valid(k) = InWindow(k, now)
    BY DEF RefusesOnlyWhenFull, Full
  <2>1. InWindow(k, now) \subseteq Valid(k)
    BY LaterWindows, BoundsAssumption DEF IInv, TypeOK
  <2>2. Valid(k) \subseteq InWindow(k, now)
    <3> SUFFICES ASSUME NEW a \in attempts[k], a.at > now - Window
                 PROVE  a \in granted[k] /\ now - Window < a.at /\ a.at <= now
      BY DEF Valid, InWindow
    <3>1. a \in granted[k] /\ a.at <= now
      BY DEF IInv, RemembersWhatCounts, History
    <3>2. a.at \in Int /\ now \in Int
      BY <3>1 DEF IInv, TypeOK, Attempt
    <3> QED
      BY <3>1, <3>2, WindowAssumption
  <2> QED
    BY <2>1, <2>2
<1>2. IInv /\ [Next]_vars => IInv'
  BY TypeStep, HistoryStep, RemembersStep, WindowStep DEF IInv
<1> QED
  BY <1>1, <1>2, InitIInv, PTL DEF Spec

==============================================================================
