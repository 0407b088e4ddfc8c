------------------------ MODULE ConnectionPoolProofs ------------------------
(* Proofs about ConnectionPool, for any number of requests, connections and *)
(* rows.                                                                    *)
EXTENDS ConnectionPool, FiniteSetTheorems, SequenceTheorems, TLAPS

\* What the pool itself keeps: the line of waiting requests agrees with their
\* stages, Holding ties the connections of a request to its stage, and nobody
\* waits while one is free.
Line ==
    /\ user \in [Conns -> Requests \cup {Nobody}]
    /\ stage \in [Requests -> Stages]
    /\ queue \in Seq(Requests) /\ Distinct(queue)
    /\ \A r \in Requests : stage[r] \in Waiting <=> Has(queue, r)

PoolInv == Line /\ Holding /\ NoIdleConnWhileWaiting

\* What the row locks keep: a row is not locked by a request without connection.
RowInv ==
    /\ locker \in [Rows -> Requests \cup {Nobody}]
    /\ wants \in [Requests -> Rows \cup {NoRow}]
    /\ \A r \in Requests : stage[r] = "locks" <=> wants[r] # NoRow
    /\ LockedByConnected

\* With both, everything that holds up a stalled pool has a connection of it.
IInv == PoolInv /\ RowInv

\* What RemoveAt leaves of a sequence.
LEMMA Removed ==
    ASSUME NEW S, NEW q \in Seq(S), NEW i \in 1..Len(q)
    PROVE  /\ RemoveAt(q, i) \in Seq(S)
           /\ Len(RemoveAt(q, i)) = Len(q) - 1
           /\ \A j \in 1..(Len(q) - 1) :
                 RemoveAt(q, i)[j] = IF j < i THEN q[j] ELSE q[j + 1]
<1>1. /\ SubSeq(q, 1, i - 1) \in Seq(S)
      /\ Len(SubSeq(q, 1, i - 1)) = i - 1
      /\ \A j \in 1..(i - 1) : SubSeq(q, 1, i - 1)[j] = q[j]
  OBVIOUS
<1>2. /\ SubSeq(q, i + 1, Len(q)) \in Seq(S)
      /\ Len(SubSeq(q, i + 1, Len(q))) = Len(q) - i
      /\ \A j \in 1..(Len(q) - i) : SubSeq(q, i + 1, Len(q))[j] = q[j + i]
  OBVIOUS
<1> DEFINE a == SubSeq(q, 1, i - 1)
           b == SubSeq(q, i + 1, Len(q))
<1>3. RemoveAt(q, i) = a \o b
  BY DEF RemoveAt
<1>4. a \in Seq(S) /\ Len(a) = i - 1 /\ \A j \in 1..(i - 1) : a[j] = q[j]
  BY <1>1
<1>5. b \in Seq(S) /\ Len(b) = Len(q) - i /\ \A j \in 1..(Len(q) - i) : b[j] = q[j + i]
  BY <1>2
<1> HIDE DEF a, b
<1>6. /\ a \o b \in Seq(S)
      /\ Len(a \o b) = Len(a) + Len(b)
      /\ \A j \in 1..(Len(a) + Len(b)) :
            (a \o b)[j] = IF j <= Len(a) THEN a[j] ELSE b[j - Len(a)]
  BY <1>4, <1>5, ConcatProperties
<1>7. Len(q) \in Nat
  BY LenProperties
<1>8. ASSUME NEW j \in 1..(Len(q) - 1)
      PROVE  (a \o b)[j] = IF j < i THEN q[j] ELSE q[j + 1]
  <2>1. CASE j < i
    BY <2>1, <1>4, <1>5, <1>6, <1>7
  <2>2. CASE ~(j < i)
    <3> DEFINE k == j - (i - 1)
    <3>1. k \in 1..(Len(q) - i) /\ k + i = j + 1
      BY <2>2, <1>7
    <3>2. (a \o b)[j] = b[k]
      BY <2>2, <1>4, <1>5, <1>6, <1>7
    <3>3. b[k] = q[k + i]
      BY <3>1, <1>5
    <3> QED  BY <3>1, <3>2, <3>3, <2>2
  <2> QED  BY <2>1, <2>2
<1> QED  BY <1>3, <1>4, <1>5, <1>6, <1>7, <1>8

\* The line of waiting requests: who joins it, who is served, who leaves it.
LEMMA Joins ==
    ASSUME NEW q \in Seq(Requests), NEW r \in Requests, Distinct(q), ~Has(q, r)
    PROVE  /\ Append(q, r) \in Seq(Requests) /\ Distinct(Append(q, r))
           /\ \A x : Has(Append(q, r), x) <=> x = r \/ Has(q, x)
<1> DEFINE p == Append(q, r)
<1>1. /\ p \in Seq(Requests) /\ Len(p) = Len(q) + 1 /\ p[Len(q) + 1] = r
      /\ \A i \in 1..Len(q) : p[i] = q[i]
  BY AppendProperties
<1>2. Len(q) \in Nat
  BY LenProperties
<1> HIDE DEF p
<1>3. Distinct(p)
  BY <1>1, <1>2 DEF Distinct, Has
<1>4. ASSUME NEW x PROVE Has(p, x) <=> x = r \/ Has(q, x)
  BY <1>1, <1>2 DEF Has
<1> QED  BY <1>1, <1>3, <1>4 DEF p

LEMMA Leaves ==
    ASSUME NEW q \in Seq(Requests), NEW i \in 1..Len(q), Distinct(q)
    PROVE  /\ RemoveAt(q, i) \in Seq(Requests) /\ Distinct(RemoveAt(q, i))
           /\ \A x : Has(RemoveAt(q, i), x) <=> x # q[i] /\ Has(q, x)
<1> DEFINE p == RemoveAt(q, i)
<1>1. /\ p \in Seq(Requests) /\ Len(p) = Len(q) - 1
      /\ \A j \in 1..(Len(q) - 1) : p[j] = IF j < i THEN q[j] ELSE q[j + 1]
  BY Removed
<1>2. Len(q) \in Nat
  BY LenProperties
<1> HIDE DEF p
<1>3. Distinct(p)
  <2> SUFFICES ASSUME NEW j \in 1..(Len(q) - 1), NEW k \in 1..(Len(q) - 1), p[j] = p[k]
               PROVE  j = k
    BY <1>1 DEF Distinct
  <2> DEFINE jj == IF j < i THEN j ELSE j + 1
             kk == IF k < i THEN k ELSE k + 1
  <2>1. jj \in 1..Len(q) /\ kk \in 1..Len(q) /\ p[j] = q[jj] /\ p[k] = q[kk]
    BY <1>1, <1>2
  <2>2. jj = kk
    BY <2>1 DEF Distinct
  <2> QED  BY <2>2, <1>2
<1>4. ASSUME NEW x, Has(p, x) PROVE x # q[i] /\ Has(q, x)
  BY <1>1, <1>2, <1>4 DEF Has, Distinct
<1>5. ASSUME NEW x, x # q[i], Has(q, x) PROVE Has(p, x)
  <2>1. PICK j \in 1..Len(q) : q[j] = x
    BY <1>5 DEF Has
  <2>2. CASE j < i
    BY <2>1, <2>2, <1>1, <1>2 DEF Has
  <2>3. CASE j > i
    <3>1. j - 1 \in 1..(Len(q) - 1) /\ p[j - 1] = x
      BY <2>1, <2>3, <1>1, <1>2
    <3> QED  BY <3>1, <1>1 DEF Has
  <2> QED  BY <2>1, <2>2, <2>3, <1>5
<1> QED  BY <1>1, <1>3, <1>4, <1>5 DEF p

LEMMA IsServed ==
    ASSUME NEW q \in Seq(Requests), q # <<>>, Distinct(q)
    PROVE  /\ Head(q) \in Requests /\ Has(q, Head(q))
           /\ Tail(q) \in Seq(Requests) /\ Distinct(Tail(q))
           /\ \A x : Has(Tail(q), x) <=> x # Head(q) /\ Has(q, x)
<1> DEFINE p == Tail(q)
<1>1. /\ p \in Seq(Requests) /\ Len(p) = Len(q) - 1
      /\ \A j \in 1..Len(p) : p[j] = q[j + 1]
      /\ Head(q) \in Requests /\ Head(q) = q[1]
  BY HeadTailProperties
<1>2. Len(q) \in Nat \ {0}
  BY EmptySeq
<1> HIDE DEF p
<1>3. Distinct(p)
  BY <1>1, <1>2 DEF Distinct
<1>4. ASSUME NEW x, Has(p, x) PROVE x # q[1] /\ Has(q, x)
  BY <1>1, <1>2, <1>4 DEF Has, Distinct
<1>5. ASSUME NEW x, x # q[1], Has(q, x) PROVE Has(p, x)
  <2>1. PICK j \in 1..Len(q) : q[j] = x
    BY <1>5 DEF Has
  <2>2. j - 1 \in 1..Len(p) /\ p[j - 1] = x
    BY <2>1, <1>5, <1>1, <1>2
  <2> QED  BY <2>2 DEF Has
<1>6. Has(q, Head(q))
  BY <1>1, <1>2 DEF Has
<1> QED  BY <1>1, <1>3, <1>4, <1>5, <1>6 DEF p

\* A request that was at rest, or a nested handler in its transaction, asks
\* for a connection.
LEMMA AcquireStep ==
    ASSUME PoolInv, NEW r \in Requests, NEW waits, NEW goes, Acquire(r, waits, goes),
           \/ stage[r] = "idle" /\ waits = "asks" /\ goes = "runs"
           \/ stage[r] = "runs" /\ r \in Nested /\ waits = "asks more" /\ goes = "both"
    PROVE  PoolInv'
<1>t. /\ user \in [Conns -> Requests \cup {Nobody}]
      /\ stage \in [Requests -> Stages]
      /\ queue \in Seq(Requests)
      /\ Distinct(queue)
      /\ \A x \in Requests : stage[x] \in {"asks", "asks more"} <=> Has(queue, x)
  BY DEF PoolInv, Line, Waiting
<1>h. Holding /\ NoIdleConnWhileWaiting
  BY DEF PoolInv
<1>s. waits \in {"asks", "asks more"} /\ goes \in {"runs", "both"}
  OBVIOUS
<1>1. ASSUME NEW c \in ConnsOf(Nobody), user' = [user EXCEPT ![c] = r],
             stage' = [stage EXCEPT ![r] = goes], UNCHANGED queue
      PROVE  PoolInv'
  <2>1. c \in Conns /\ user[c] = Nobody /\ queue = <<>>
    BY <1>1, <1>h DEF ConnsOf, NoIdleConnWhileWaiting
  <2>2. Line'
    <3>1. user' \in [Conns -> Requests \cup {Nobody}]
      BY <1>1, <1>t
    <3>2. stage' \in [Requests -> Stages]
      BY <1>1, <1>t, <1>s DEF Stages, Waiting, Busy
    <3>3. \A x \in Requests : stage'[x] \in {"asks", "asks more"}
                                <=> stage[x] \in {"asks", "asks more"}
      BY <2>1, <1>1, <1>t, <1>s, EmptySeq DEF Has
    <3> QED  BY <3>1, <3>2, <3>3, <1>1, <1>t DEF Line, Waiting
  <2>a. \A d \in Conns : user'[d] = IF d = c THEN r ELSE user[d]
    BY <1>1, <2>1, <1>t
  <2>b. user[c] \notin Requests
    BY <2>1, NobodyAssumption
  <2>3. ConnsOf(r)' = ConnsOf(r) \cup {c} /\ c \notin ConnsOf(r)
    BY <2>a, <2>b, <2>1 DEF ConnsOf
  <2>4. \A x \in Requests \ {r} : ConnsOf(x)' = ConnsOf(x)
    <3> SUFFICES ASSUME NEW x \in Requests, x # r
                 PROVE  ConnsOf(x)' = ConnsOf(x)
      OBVIOUS
    <3>1. \A d \in Conns : user'[d] = x <=> user[d] = x
      BY <2>a, <2>b
    <3> QED  BY <3>1 DEF ConnsOf
  <2>5. Holding'
    <3> SUFFICES ASSUME NEW x \in Requests
                 PROVE /\ stage'[x] \in {"idle", "asks"} => ConnsOf(x)' = {}
                       /\ stage'[x] \in {"runs", "locks", "asks more", "late"} =>
                             \E d \in Conns : ConnsOf(x)' = {d}
                       /\ stage'[x] = "both" =>
                             \E d, e \in Conns : d # e /\ ConnsOf(x)' = {d, e}
                       /\ stage'[x] \in {"asks more", "both", "late"} => x \in Nested
      BY DEF Holding
    <3>1. CASE x # r
      <4>1. stage'[x] = stage[x] /\ ConnsOf(x)' = ConnsOf(x)
        BY <3>1, <1>1, <2>4, <1>t
      <4> QED  BY <4>1, <1>h DEF Holding
    <3>2. CASE x = r /\ stage[r] = "idle"
      <4>1. stage'[x] = "runs" /\ ConnsOf(x) = {}
        BY <3>2, <1>1, <1>t, <1>h DEF Holding
      <4> QED  BY <4>1, <3>2, <2>1, <2>3
    <3>3. CASE x = r /\ stage[r] = "runs" /\ r \in Nested /\ goes = "both"
      <4>1. PICK d \in Conns : ConnsOf(r) = {d}
        BY <3>3, <1>h DEF Holding
      <4>2. ConnsOf(r)' = {d, c} /\ d # c
        BY <4>1, <2>3
      <4>3. stage'[x] = "both"
        BY <3>3, <1>1, <1>t
      <4> QED  BY <4>2, <4>3, <3>3, <2>1
    <3> QED  BY <3>1, <3>2, <3>3
  <2> QED  BY <2>1, <2>2, <2>5, <1>1 DEF PoolInv, NoIdleConnWhileWaiting
<1>2. ASSUME ConnsOf(Nobody) = {}, stage' = [stage EXCEPT ![r] = waits],
             queue' = Append(queue, r), UNCHANGED user
      PROVE  PoolInv'
  <2>1. \A x : ConnsOf(x)' = ConnsOf(x)
    BY <1>2 DEF ConnsOf
  <2>2. ~Has(queue, r)
    BY <1>t
  <2>3. Line'
    <3>1. /\ queue' \in Seq(Requests) /\ Distinct(queue')
          /\ \A x : Has(queue', x) <=> x = r \/ Has(queue, x)
      BY <1>2, <1>t, <2>2, Joins
    <3>2. stage' \in [Requests -> Stages]
      BY <1>2, <1>t, <1>s DEF Stages, Waiting, Busy
    <3>3. \A x \in Requests : stage'[x] \in {"asks", "asks more"}
                                <=> x = r \/ stage[x] \in {"asks", "asks more"}
      BY <1>2, <1>t, <1>s
    <3>4. \A x \in Requests : stage'[x] \in {"asks", "asks more"} <=> Has(queue', x)
      BY <3>1, <3>3, <1>t
    <3>5. user' \in [Conns -> Requests \cup {Nobody}]
      BY <1>2, <1>t
    <3> QED  BY <3>1, <3>2, <3>4, <3>5 DEF Line, Waiting
  <2>4. Holding'
    <3>1. \A x \in Requests : x # r => stage'[x] = stage[x]
      BY <1>2, <1>t
    <3>2. stage'[r] = waits
      BY <1>2, <1>t
    <3> QED  BY <3>1, <3>2, <2>1, <1>h DEF Holding
  <2> QED  BY <2>1, <2>3, <2>4, <1>2 DEF PoolInv, NoIdleConnWhileWaiting
<1> QED  BY <1>1, <1>2 DEF Acquire

\* A request gives one of its connections back, at the end of its tenant query
\* or at its own end.
LEMMA ReleaseStep ==
    ASSUME PoolInv, NEW r \in Requests, NEW c \in ConnsOf(r), NEW goes, Release(r, c, goes),
           \/ stage[r] = "both" /\ goes = "late"
           \/ stage[r] \in {"runs", "locks", "late"} /\ goes = "idle"
    PROVE  PoolInv'
<1>t. /\ user \in [Conns -> Requests \cup {Nobody}]
      /\ stage \in [Requests -> Stages]
      /\ queue \in Seq(Requests)
      /\ Distinct(queue)
      /\ \A x \in Requests : stage[x] \in {"asks", "asks more"} <=> Has(queue, x)
  BY DEF PoolInv, Line, Waiting
<1>h. Holding /\ NoIdleConnWhileWaiting
  BY DEF PoolInv
<1>s. goes \in {"idle", "late"} /\ c \in Conns /\ user[c] = r /\ r # Nobody
  BY NobodyAssumption DEF ConnsOf
<1>r. \/ goes = "idle" /\ ConnsOf(r) \ {c} = {}
      \/ goes = "late" /\ r \in Nested /\ \E d \in Conns : ConnsOf(r) \ {c} = {d}
  <2>1. CASE stage[r] = "both" /\ goes = "late"
    <3>1. PICK d, e \in Conns : d # e /\ ConnsOf(r) = {d, e}
      BY <2>1, <1>h DEF Holding
    <3>2. r \in Nested
      BY <2>1, <1>h DEF Holding
    <3>3. CASE c = d
      BY <3>1, <3>2, <3>3, <2>1
    <3>4. CASE c = e
      BY <3>1, <3>2, <3>4, <2>1
    <3> QED  BY <3>1, <3>3, <3>4
  <2>2. CASE stage[r] \in {"runs", "locks", "late"} /\ goes = "idle"
    <3>1. \E d \in Conns : ConnsOf(r) = {d}
      BY <2>2, <1>h DEF Holding
    <3> QED  BY <3>1, <2>2
  <2> QED  BY <2>1, <2>2
<1>1. CASE queue = <<>>
  <2>1. /\ user' = [user EXCEPT ![c] = Nobody]
        /\ stage' = [stage EXCEPT ![r] = goes]
        /\ queue' = queue
    BY <1>1 DEF Release
  <2>2. Line'
    <3>1. /\ user' \in [Conns -> Requests \cup {Nobody}]
          /\ stage' \in [Requests -> Stages]
      BY <2>1, <1>t, <1>s DEF Stages, Waiting, Busy
    <3>2. \A x \in Requests : stage'[x] \in {"asks", "asks more"}
                                <=> stage[x] \in {"asks", "asks more"}
      BY <2>1, <1>t, <1>s
    <3> QED  BY <3>1, <3>2, <2>1, <1>t DEF Line, Waiting
  <2>3. \A d \in Conns : user'[d] = IF d = c THEN Nobody ELSE user[d]
    BY <2>1, <1>t
  <2>4. Holding'
    <3>1. ConnsOf(r)' = ConnsOf(r) \ {c}
      BY <2>3, <1>s DEF ConnsOf
    <3>2. \A x \in Requests : x # r => ConnsOf(x)' = ConnsOf(x)
      BY <2>3, <1>s, NobodyAssumption DEF ConnsOf
    <3>3. stage'[r] = goes /\ \A x \in Requests : x # r => stage'[x] = stage[x]
      BY <2>1, <1>t
    <3>4. \/ stage'[r] = "idle" /\ ConnsOf(r)' = {}
          \/ stage'[r] = "late" /\ r \in Nested /\ \E d \in Conns : ConnsOf(r)' = {d}
      BY <3>1, <3>3, <1>r
    <3> SUFFICES ASSUME NEW x \in Requests
                 PROVE  /\ stage'[x] \in {"idle", "asks"} => ConnsOf(x)' = {}
                        /\ stage'[x] \in {"runs", "locks", "asks more", "late"} =>
                              \E d \in Conns : ConnsOf(x)' = {d}
                        /\ stage'[x] = "both" =>
                              \E d, e \in Conns : d # e /\ ConnsOf(x)' = {d, e}
                        /\ stage'[x] \in {"asks more", "both", "late"} => x \in Nested
      BY DEF Holding
    <3>5. CASE x = r
      BY <3>5, <3>4
    <3>6. CASE x # r
      <4>1. stage'[x] = stage[x] /\ ConnsOf(x)' = ConnsOf(x)
        BY <3>6, <3>2, <3>3
      <4> QED  BY <4>1, <1>h DEF Holding
    <3> QED  BY <3>5, <3>6
  <2> QED  BY <2>1, <2>2, <2>4, <1>1 DEF PoolInv, NoIdleConnWhileWaiting
<1>2. CASE queue # <<>>
  <2>0. PICK q : q = Head(queue)
    OBVIOUS
  <2>1. /\ q \in Requests /\ Has(queue, q)
        /\ Tail(queue) \in Seq(Requests) /\ Distinct(Tail(queue))
        /\ \A x : Has(Tail(queue), x) <=> x # q /\ Has(queue, x)
    BY <2>0, <1>2, <1>t, IsServed
  <2>2. stage[q] \in {"asks", "asks more"} /\ q # r
    BY <2>1, <1>t, <1>s
  <2>3. /\ user' = [user EXCEPT ![c] = q]
        /\ stage' = [stage EXCEPT ![r] = goes, ![q] = Served(@)]
        /\ queue' = Tail(queue)
    BY <2>0, <1>2 DEF Release
  <2>4. /\ stage'[r] = goes /\ stage'[q] = Served(stage[q])
        /\ \A x \in Requests : x # r /\ x # q => stage'[x] = stage[x]
    BY <2>1, <2>2, <2>3, <1>t
  <2>5. Line'
    <3>1. /\ user' \in [Conns -> Requests \cup {Nobody}]
          /\ stage' \in [Requests -> Stages]
      BY <2>1, <2>3, <1>t, <1>s DEF Stages, Waiting, Busy, Served
    <3>2. \A x \in Requests : stage'[x] \in {"asks", "asks more"} <=> Has(queue', x)
      BY <2>1, <2>3, <2>4, <1>t, <1>s, <2>2 DEF Served
    <3> QED  BY <3>1, <3>2, <2>1, <2>3 DEF Line, Waiting
  <2>6. \A d \in Conns : user'[d] = IF d = c THEN q ELSE user[d]
    BY <2>3, <1>t
  <2>7. Holding'
    <3>1. ConnsOf(r)' = ConnsOf(r) \ {c}
      BY <2>6, <2>2, <1>s DEF ConnsOf
    <3>r. \/ stage'[r] = "idle" /\ ConnsOf(r)' = {}
          \/ stage'[r] = "late" /\ r \in Nested /\ \E d \in Conns : ConnsOf(r)' = {d}
      BY <3>1, <2>4, <1>r
    <3>2. \A x \in Requests : x # r /\ x # q => ConnsOf(x)' = ConnsOf(x)
      <4> SUFFICES ASSUME NEW x \in Requests, x # r, x # q PROVE ConnsOf(x)' = ConnsOf(x)
        OBVIOUS
      <4>1. \A d \in Conns : user'[d] = x <=> user[d] = x
        BY <2>6, <1>s
      <4> QED  BY <4>1 DEF ConnsOf
    <3>3. ConnsOf(q)' = ConnsOf(q) \cup {c} /\ c \notin ConnsOf(q)
      <4>1. \A d \in Conns : user'[d] = q <=> user[d] = q \/ d = c
        BY <2>6
      <4>2. c \in Conns /\ user[c] # q
        BY <2>2, <1>s
      <4> QED  BY <4>1, <4>2 DEF ConnsOf
    <3>4. \/ stage'[q] = "runs" /\ ConnsOf(q)' = {c}
          \/ stage'[q] = "both" /\ q \in Nested
               /\ \E d \in Conns : d # c /\ ConnsOf(q)' = {d, c}
      <4>1. CASE stage[q] = "asks"
        BY <4>1, <2>1, <2>4, <3>3, <1>h DEF Holding, Served
      <4>2. CASE stage[q] = "asks more"
        <5>1. PICK d \in Conns : ConnsOf(q) = {d}
          BY <4>2, <2>1, <1>h DEF Holding
        <5>2. q \in Nested
          BY <4>2, <2>1, <1>h DEF Holding
        <5> QED  BY <4>2, <5>1, <5>2, <2>4, <3>3 DEF Served
      <4> QED  BY <4>1, <4>2, <2>2
    <3> SUFFICES ASSUME NEW x \in Requests
                 PROVE  /\ stage'[x] \in {"idle", "asks"} => ConnsOf(x)' = {}
                        /\ stage'[x] \in {"runs", "locks", "asks more", "late"} =>
                              \E d \in Conns : ConnsOf(x)' = {d}
                        /\ stage'[x] = "both" =>
                              \E d, e \in Conns : d # e /\ ConnsOf(x)' = {d, e}
                        /\ stage'[x] \in {"asks more", "both", "late"} => x \in Nested
      BY DEF Holding
    <3>5. CASE x = r
      BY <3>5, <3>r
    <3>6. CASE x = q
      BY <3>6, <3>4, <1>s
    <3>7. CASE x # r /\ x # q
      <4>1. stage'[x] = stage[x] /\ ConnsOf(x)' = ConnsOf(x)
        BY <3>7, <3>2, <2>4
      <4> QED  BY <4>1, <1>h DEF Holding
    <3> QED  BY <3>5, <3>6, <3>7
  <2>8. NoIdleConnWhileWaiting'
    <3>1. ConnsOf(Nobody) = {}
      BY <1>2, <1>h DEF NoIdleConnWhileWaiting
    <3>2. ConnsOf(Nobody)' = {}
      BY <3>1, <2>6, <2>1, NobodyAssumption DEF ConnsOf
    <3> QED  BY <3>2 DEF NoIdleConnWhileWaiting
  <2> QED  BY <2>5, <2>7, <2>8 DEF PoolInv
<1> QED  BY <1>1, <1>2

LEMMA CancelStep ==
    ASSUME PoolInv, NEW r \in Requests, Cancel(r)
    PROVE  PoolInv'
<1>t. /\ user \in [Conns -> Requests \cup {Nobody}]
      /\ stage \in [Requests -> Stages]
      /\ queue \in Seq(Requests)
      /\ Distinct(queue)
      /\ \A x \in Requests : stage[x] \in {"asks", "asks more"} <=> Has(queue, x)
  BY DEF PoolInv, Line, Waiting
<1>h. Holding /\ NoIdleConnWhileWaiting
  BY DEF PoolInv
<1>1. PICK i \in 1..Len(queue) : queue[i] = r /\ queue' = RemoveAt(queue, i)
  BY DEF Cancel
<1>2. /\ queue' \in Seq(Requests) /\ Distinct(queue')
      /\ \A x : Has(queue', x) <=> x # r /\ Has(queue, x)
  BY <1>1, <1>t, Leaves
<1>3. /\ stage[r] \in {"asks", "asks more"} /\ user' = user
      /\ stage' = [stage EXCEPT ![r] = IF @ = "asks" THEN "idle" ELSE "late"]
  BY DEF Cancel, Waiting
<1>4. /\ stage'[r] = IF stage[r] = "asks" THEN "idle" ELSE "late"
      /\ \A x \in Requests : x # r => stage'[x] = stage[x]
  BY <1>3, <1>t
<1>5. Line'
  <2>1. stage' \in [Requests -> Stages]
    BY <1>3, <1>t DEF Stages, Waiting, Busy
  <2>2. \A x \in Requests : stage'[x] \in {"asks", "asks more"} <=> Has(queue', x)
    BY <1>2, <1>4, <1>t
  <2> QED  BY <2>1, <2>2, <1>2, <1>3, <1>t DEF Line, Waiting
<1>6. Holding'
  <2>1. \A x : ConnsOf(x)' = ConnsOf(x)
    BY <1>3 DEF ConnsOf
  <2>2. CASE stage[r] = "asks"
    BY <2>1, <2>2, <1>4, <1>h DEF Holding
  <2>3. CASE stage[r] = "asks more"
    BY <2>1, <2>3, <1>4, <1>h DEF Holding
  <2> QED  BY <2>2, <2>3, <1>3
<1>7. NoIdleConnWhileWaiting'
  <2>1. queue # <<>>
    BY <1>1, EmptySeq
  <2>2. ConnsOf(Nobody)' = {}
    BY <2>1, <1>3, <1>h DEF NoIdleConnWhileWaiting, ConnsOf
  <2> QED  BY <2>2 DEF NoIdleConnWhileWaiting
<1> QED  BY <1>5, <1>6, <1>7 DEF PoolInv

\* Who changes its stage with Acquire and Release.
LEMMA AcquireStages ==
    ASSUME PoolInv, NEW r \in Requests, NEW waits, NEW goes, Acquire(r, waits, goes)
    PROVE  /\ stage'[r] \in {waits, goes}
           /\ \A x \in Requests : x # r => stage'[x] = stage[x]
<1> QED  BY DEF PoolInv, Line, Acquire

LEMMA ReleaseStages ==
    ASSUME PoolInv, NEW r \in Requests, NEW c, NEW goes, Release(r, c, goes),
           stage[r] \notin Waiting
    PROVE  /\ stage'[r] = goes
           /\ \A x \in Requests : x # r => \/ stage'[x] = stage[x]
                                           \/ stage[x] \in Waiting /\ stage'[x] \in Busy
<1>1. CASE queue = <<>>
  BY <1>1 DEF PoolInv, Line, Release
<1>2. CASE queue # <<>>
  <2>1. Head(queue) \in Requests /\ stage[Head(queue)] \in Waiting
    BY <1>2, IsServed DEF PoolInv, Line
  <2> DEFINE q == Head(queue)
  <2>2. q \in Requests /\ stage[q] \in Waiting /\ q # r
    BY <2>1
  <2>3. stage' = [stage EXCEPT ![r] = goes, ![q] = Served(@)]
    BY <1>2 DEF Release
  <2> HIDE DEF q
  <2>4. Served(stage[q]) \in Busy
    BY DEF Served, Busy
  <2> QED  BY <2>2, <2>3, <2>4 DEF PoolInv, Line
<1> QED  BY <1>1, <1>2

\* A step that leaves the rows alone: nobody starts or stops waiting for one, and
\* whoever loses its place on a connection did not have one.
LEMMA RowsStay ==
    ASSUME RowInv, UNCHANGED rowVars,
           \A x \in Requests :
               /\ stage'[x] = "locks" <=> stage[x] = "locks"
               /\ stage'[x] \in {"idle", "asks"} => stage[x] \in {"idle", "asks"}
    PROVE  RowInv'
<1>1. locker' = locker /\ wants' = wants
  BY DEF rowVars
<1>2. LockedByConnected'
  BY <1>1 DEF RowInv, LockedByConnected
<1> QED  BY <1>1, <1>2 DEF RowInv

\* A transaction that is over: its connection goes back and its rows are free.
LEMMA OverStep ==
    ASSUME IInv, NEW r \in Requests, stage[r] \in {"runs", "locks", "late"}, Over(r)
    PROVE  IInv'
<1>1. PICK c \in ConnsOf(r) : Release(r, c, "idle")
  BY DEF Over
<1>2. PoolInv'
  BY <1>1, ReleaseStep DEF IInv
<1>3. /\ stage'[r] = "idle"
      /\ \A x \in Requests : x # r => \/ stage'[x] = stage[x]
                                      \/ stage[x] \in Waiting /\ stage'[x] \in Busy
  BY <1>1, ReleaseStages DEF IInv, Waiting
<1>4. /\ locker' = [x \in Rows |-> IF locker[x] = r THEN Nobody ELSE locker[x]]
      /\ wants' = [wants EXCEPT ![r] = NoRow]
  BY DEF Over
<1>5. /\ locker' \in [Rows -> Requests \cup {Nobody}]
      /\ wants' \in [Requests -> Rows \cup {NoRow}]
  BY <1>4 DEF IInv, RowInv
<1>6. \A x \in Requests : stage'[x] = "locks" <=> wants'[x] # NoRow
  BY <1>3, <1>4 DEF IInv, RowInv, Waiting, Busy
<1>7. LockedByConnected'
  <2> SUFFICES ASSUME NEW x \in Rows, locker'[x] # Nobody
               PROVE  stage'[locker'[x]] \notin {"idle", "asks"}
    BY DEF LockedByConnected
  <2>1. locker'[x] = locker[x] /\ locker[x] # r /\ locker[x] \in Requests
    BY <1>4 DEF IInv, RowInv
  <2>2. stage[locker[x]] \notin {"idle", "asks"}
    BY <2>1, NobodyAssumption DEF IInv, RowInv, LockedByConnected
  <2> QED  BY <2>1, <2>2, <1>3 DEF Busy
<1> QED  BY <1>2, <1>5, <1>6, <1>7 DEF IInv, RowInv

\* A request starts or stops waiting for a row: it has its connection anyway.
LEMMA RowWait ==
    ASSUME PoolInv, NEW r \in Requests, UNCHANGED <<user, queue>>,
           \/ stage[r] = "runs" /\ stage' = [stage EXCEPT ![r] = "locks"]
           \/ stage[r] = "locks" /\ stage' = [stage EXCEPT ![r] = "runs"]
    PROVE  PoolInv'
<1>1. \A x : ConnsOf(x)' = ConnsOf(x)
  BY DEF ConnsOf
<1>2. /\ \A x \in Requests : x # r => stage'[x] = stage[x]
      /\ stage[r] \in {"runs", "locks"} /\ stage'[r] \in {"runs", "locks"}
      /\ stage' \in [Requests -> Stages]
  BY DEF PoolInv, Line, Stages, Busy
<1>3. Line'
  BY <1>2 DEF PoolInv, Line, Waiting
<1>4. Holding'
  <2> SUFFICES ASSUME NEW x \in Requests
               PROVE  /\ stage'[x] \in {"idle", "asks"} => ConnsOf(x)' = {}
                      /\ stage'[x] \in {"runs", "locks", "asks more", "late"} =>
                            \E d \in Conns : ConnsOf(x)' = {d}
                      /\ stage'[x] = "both" =>
                            \E d, e \in Conns : d # e /\ ConnsOf(x)' = {d, e}
                      /\ stage'[x] \in {"asks more", "both", "late"} => x \in Nested
    BY DEF Holding
  <2>1. CASE x = r
    <3>1. \E d \in Conns : ConnsOf(r) = {d}
      BY <1>2 DEF PoolInv, Holding
    <3> QED  BY <3>1, <2>1, <1>1, <1>2
  <2>2. CASE x # r
    <3>1. stage'[x] = stage[x] /\ ConnsOf(x)' = ConnsOf(x)
      BY <2>2, <1>1, <1>2
    <3> QED  BY <3>1 DEF PoolInv, Holding
  <2> QED  BY <2>1, <2>2
<1>5. NoIdleConnWhileWaiting'
  BY <1>1 DEF PoolInv, NoIdleConnWhileWaiting
<1> QED  BY <1>3, <1>4, <1>5 DEF PoolInv

LEMMA PoolStays ==
    ASSUME PoolInv, user' = user, stage' = stage, queue' = queue
    PROVE  PoolInv'
<1>1. \A x : ConnsOf(x)' = ConnsOf(x)
  BY DEF ConnsOf
<1>2. Line'
  BY DEF PoolInv, Line
<1>3. Holding'
  BY <1>1 DEF PoolInv, Holding
<1>4. NoIdleConnWhileWaiting'
  BY <1>1 DEF PoolInv, NoIdleConnWhileWaiting
<1> QED  BY <1>2, <1>3, <1>4 DEF PoolInv

LEMMA LockStep ==
    ASSUME IInv, NEW r \in Requests, NEW x \in Rows, Lock(r, x) \/ WaitForRow(r, x)
    PROVE  IInv'
<1>1. CASE Lock(r, x)
  <2>1. /\ stage[r] = "runs" /\ locker' = [locker EXCEPT ![x] = r]
        /\ user' = user /\ stage' = stage /\ queue' = queue /\ wants' = wants
    BY <1>1 DEF Lock, poolVars
  <2>2. PoolInv'
    BY <2>1, PoolStays DEF IInv
  <2>3. RowInv'
    BY <2>1 DEF IInv, RowInv, LockedByConnected
  <2> QED  BY <2>2, <2>3 DEF IInv
<1>2. CASE WaitForRow(r, x)
  <2>1. /\ stage[r] = "runs" /\ stage' = [stage EXCEPT ![r] = "locks"]
        /\ wants' = [wants EXCEPT ![r] = x]
        /\ UNCHANGED <<user, queue, locker>>
    BY <1>2 DEF WaitForRow
  <2>2. PoolInv'
    BY <2>1, RowWait DEF IInv
  <2>3. /\ wants' \in [Requests -> Rows \cup {NoRow}]
        /\ \A y \in Requests : stage'[y] = "locks" <=> wants'[y] # NoRow
    BY <2>1, NobodyAssumption DEF IInv, RowInv, PoolInv, Line
  <2>4. LockedByConnected'
    BY <2>1 DEF IInv, RowInv, LockedByConnected, PoolInv, Line
  <2> QED  BY <2>1, <2>2, <2>3, <2>4 DEF IInv, RowInv
<1> QED  BY <1>1, <1>2

LEMMA ObtainStep ==
    ASSUME IInv, NEW r \in Requests, Obtain(r)
    PROVE  IInv'
<1>1. /\ stage[r] = "locks" /\ stage' = [stage EXCEPT ![r] = "runs"]
      /\ wants' = [wants EXCEPT ![r] = NoRow]
      /\ locker' = [locker EXCEPT ![wants[r]] = r]
      /\ UNCHANGED <<user, queue>>
  BY DEF Obtain
<1>2. PoolInv'
  BY <1>1, RowWait DEF IInv
<1>3. wants[r] \in Rows
  BY <1>1 DEF IInv, RowInv
<1>4. /\ locker' \in [Rows -> Requests \cup {Nobody}]
      /\ wants' \in [Requests -> Rows \cup {NoRow}]
      /\ \A y \in Requests : stage'[y] = "locks" <=> wants'[y] # NoRow
  BY <1>1, <1>3 DEF IInv, RowInv, PoolInv, Line
<1>5. LockedByConnected'
  BY <1>1, <1>3 DEF IInv, RowInv, LockedByConnected, PoolInv, Line
<1> QED  BY <1>2, <1>4, <1>5 DEF IInv, RowInv

LEMMA InitIInv == Init => IInv
<1> SUFFICES ASSUME Init PROVE IInv
  OBVIOUS
<1>1. Line
  BY EmptySeq DEF Init, Line, Stages, Waiting, Busy, Has, Distinct
<1>2. Holding
  BY NobodyAssumption DEF Init, Holding, ConnsOf
<1>3. NoIdleConnWhileWaiting
  BY DEF Init, NoIdleConnWhileWaiting
<1>4. RowInv
  BY NobodyAssumption DEF Init, RowInv, LockedByConnected
<1> QED  BY <1>1, <1>2, <1>3, <1>4 DEF IInv, PoolInv

LEMMA StepIInv == IInv /\ [Next]_vars => IInv'
<1> SUFFICES ASSUME IInv, [Next]_vars PROVE IInv'
  OBVIOUS
<1>i. PoolInv /\ RowInv
  BY DEF IInv
<1>1. ASSUME NEW r \in Requests, Begin(r) PROVE IInv'
  <2>1. stage[r] = "idle" /\ Acquire(r, "asks", "runs") /\ UNCHANGED rowVars
    BY <1>1 DEF Begin
  <2>2. PoolInv'
    BY <2>1, <1>i, AcquireStep
  <2>3. stage'[r] \in {"asks", "runs"} /\ \A x \in Requests : x # r => stage'[x] = stage[x]
    BY <2>1, <1>i, AcquireStages
  <2>4. RowInv'
    BY <2>1, <2>3, <1>i, RowsStay
  <2> QED  BY <2>2, <2>4 DEF IInv
<1>2. ASSUME NEW r \in Requests, AskMore(r) PROVE IInv'
  <2>1. /\ stage[r] = "runs" /\ r \in Nested
        /\ Acquire(r, "asks more", "both") /\ UNCHANGED rowVars
    BY <1>2 DEF AskMore, Nests
  <2>2. PoolInv'
    BY <2>1, <1>i, AcquireStep
  <2>3. /\ stage'[r] \in {"asks more", "both"}
        /\ \A x \in Requests : x # r => stage'[x] = stage[x]
    BY <2>1, <1>i, AcquireStages
  <2>4. RowInv'
    BY <2>1, <2>3, <1>i, RowsStay
  <2> QED  BY <2>2, <2>4 DEF IInv
<1>3. ASSUME NEW r \in Requests, GiveBack(r) PROVE IInv'
  <2>1. stage[r] = "both" /\ UNCHANGED rowVars
    BY <1>3 DEF GiveBack
  <2>2. PICK c \in ConnsOf(r) : Release(r, c, "late")
    BY <1>3 DEF GiveBack
  <2>3. PoolInv'
    BY <2>1, <2>2, <1>i, ReleaseStep
  <2>4. /\ stage'[r] = "late"
        /\ \A x \in Requests : x # r => \/ stage'[x] = stage[x]
                                        \/ stage[x] \in Waiting /\ stage'[x] \in Busy
    BY <2>1, <2>2, <1>i, ReleaseStages DEF Waiting
  <2>5. RowInv'
    BY <2>1, <2>4, <1>i, RowsStay DEF Waiting, Busy
  <2> QED  BY <2>3, <2>5 DEF IInv
<1>4. ASSUME NEW r \in Requests, End(r) \/ Leave(r) PROVE IInv'
  BY <1>4, OverStep DEF End, Leave
<1>5. ASSUME NEW r \in Requests, Cancel(r) PROVE IInv'
  <2>1. PoolInv'
    BY <1>5, <1>i, CancelStep
  <2>2. RowInv'
    BY <1>5, <1>i, RowsStay DEF Cancel, PoolInv, Line, Waiting
  <2> QED  BY <2>1, <2>2 DEF IInv
<1>6. ASSUME NEW r \in Requests, Obtain(r) PROVE IInv'
  BY <1>6, ObtainStep
<1>7. ASSUME NEW r \in Requests, NEW x \in Rows, Lock(r, x) \/ WaitForRow(r, x) PROVE IInv'
  BY <1>7, LockStep
<1>8. CASE UNCHANGED vars
  <2>1. user' = user /\ stage' = stage /\ queue' = queue /\ locker' = locker /\ wants' = wants
    BY <1>8 DEF vars, poolVars, rowVars
  <2>2. PoolInv'
    BY <2>1, <1>i, PoolStays
  <2>3. RowInv'
    BY <2>1, <1>i DEF RowInv, LockedByConnected
  <2> QED  BY <2>2, <2>3 DEF IInv
<1> QED  BY <1>1, <1>2, <1>3, <1>4, <1>5, <1>6, <1>7, <1>8 DEF Next

\* Who waits, who has what, the line of waiting requests and the row locks agree
\* in every reachable state.
THEOREM PoolTypes == Spec => []TypeOK
<1>1. IInv => TypeOK
  BY DEF IInv, PoolInv, Line, RowInv, TypeOK
<1> QED  BY <1>1, InitIInv, StepIInv, PTL DEF Spec

\* In a stalled pool every connection is with another request, which waits for a
\* row or is a nested handler that waits for its second connection.
LEMMA StalledConns ==
    ASSUME IInv, Stalled, NEW c \in Conns
    PROVE  /\ user[c] \in Requests
           /\ stage[user[c]] = "locks" \/ InNeed(user[c])
           /\ ConnsOf(user[c]) = {c}
<1> DEFINE r == user[c]
<1>1. r \in Requests /\ stage[r] \in Stages /\ stage[r] \notin Busy /\ c \in ConnsOf(r)
  <2>1. r # Nobody
    BY DEF IInv, PoolInv, NoIdleConnWhileWaiting, Stalled, ConnsOf
  <2>2. r \in Requests \cup {Nobody}
    BY DEF IInv, PoolInv, Line
  <2> QED  BY <2>1, <2>2 DEF IInv, PoolInv, Line, Stalled, ConnsOf
<1> HIDE DEF r
<1>2. stage[r] \in {"locks", "asks more"}
  BY <1>1 DEF IInv, PoolInv, Holding, Stages, Waiting, Busy
<1>3. (stage[r] = "asks more" => r \in Nested) /\ \E d \in Conns : ConnsOf(r) = {d}
  BY <1>1, <1>2 DEF IInv, PoolInv, Holding
<1>4. ConnsOf(r) = {c}
  BY <1>1, <1>3
<1> QED  BY <1>1, <1>2, <1>3, <1>4 DEF r, InNeed

\* Whoever keeps a row from another one in a stalled pool waits itself, for a row
\* or, as a nested handler, for its second connection.
LEMMA StalledLocker ==
    ASSUME IInv, Stalled, NEW r \in Requests, stage[r] = "locks"
    PROVE  \E s \in Requests : /\ s = locker[wants[r]]
                               /\ stage[s] = "locks" \/ InNeed(s)
<1> DEFINE s == locker[wants[r]]
<1>1. wants[r] \in Rows /\ s # Nobody
  BY DEF IInv, RowInv, Stalled
<1>2. s \in Requests /\ stage[s] \notin {"idle", "asks"}
  BY <1>1 DEF IInv, RowInv, LockedByConnected
<1>3. stage[s] \in {"locks", "asks more"}
  BY <1>2 DEF IInv, PoolInv, Line, Stalled, Stages, Waiting, Busy
<1>4. stage[s] = "asks more" => s \in Nested
  BY <1>2 DEF IInv, PoolInv, Holding
<1> QED  BY <1>2, <1>3, <1>4 DEF InNeed

\* The requests that wait for a row are not a cycle: one of them waits for a row of
\* a nested handler.
LEMMA StallShape == IInv => OnlyNestedStall
<1> SUFFICES ASSUME IInv, Stalled
             PROVE  /\ \A c, d \in Conns : user[c] = user[d] => c = d
                    /\ \/ \A c \in Conns : InNeed(user[c])
                       \/ \E c, d \in Conns :
                             /\ stage[user[c]] = "locks"
                             /\ InNeed(user[d]) /\ locker[wants[user[c]]] = user[d]
  BY DEF OnlyNestedStall
<1>1. ASSUME NEW c \in Conns, NEW d \in Conns, user[c] = user[d] PROVE c = d
  <2>1. ConnsOf(user[c]) = {c} /\ ConnsOf(user[d]) = {d}
    BY StalledConns
  <2> QED  BY <2>1, <1>1
<1>2. ASSUME NEW b \in Conns, ~InNeed(user[b])
      PROVE  \E c, d \in Conns :
                 /\ stage[user[c]] = "locks"
                 /\ InNeed(user[d]) /\ locker[wants[user[c]]] = user[d]
  <2> DEFINE L == {r \in Requests : stage[r] = "locks"}
  <2>1. L \in SUBSET Requests /\ user[b] \in L
    BY <1>2, StalledConns
  <2>2. ~Cycle(L)
    BY <2>1 DEF Stalled
  <2>3. PICK r \in L : locker[wants[r]] \notin L
    BY <2>1, <2>2 DEF Cycle
  <2>4. PICK s \in Requests : s = locker[wants[r]] /\ InNeed(s)
    BY <2>3, StalledLocker
  <2>5. PICK c \in Conns : ConnsOf(r) = {c}
    BY <2>3 DEF IInv, PoolInv, Holding
  <2>6. PICK d \in Conns : ConnsOf(s) = {d}
    BY <2>4 DEF IInv, PoolInv, Holding, InNeed
  <2>7. user[c] = r /\ user[d] = s
    BY <2>5, <2>6 DEF ConnsOf
  <2> QED  BY <2>3, <2>4, <2>7
<1> QED  BY <1>1, <1>2

\* The pool stalls only when every connection is with another request and nested
\* handlers that wait for their second are the reason.
THEOREM StallsOnlyNested == Spec => []OnlyNestedStall
<1> QED  BY StallShape, InitIInv, StepIInv, PTL DEF Spec

\* With fewer nested handlers than connections the pool stalls only when a nested
\* handler has a row that another one waits for.
THEOREM FewNestedStallOnRow ==
    ASSUME Cardinality(Nested) < Cardinality(Conns)
    PROVE  Spec => []StallsOnRow
<1>1. IInv => StallsOnRow
  <2> SUFFICES ASSUME IInv, Stalled
               PROVE  \E r, s \in Requests :
                          stage[r] = "locks" /\ InNeed(s) /\ locker[wants[r]] = s
    BY DEF StallsOnRow
  <2>1. OnlyNestedStall
    BY StallShape
  <2>2. ~\A c \in Conns : InNeed(user[c])
    <3> SUFFICES ASSUME \A c \in Conns : InNeed(user[c]) PROVE FALSE
      OBVIOUS
    <3> DEFINE f == [c \in Conns |-> user[c]]
    <3>1. f \in [Conns -> Nested]
      BY DEF InNeed
    <3> HIDE DEF f
    <3>2. PICK c, d \in Conns : c # d /\ f[c] = f[d]
      BY <3>1, FS_PigeonHole, NestedAssumption, ConnsAssumption
    <3> QED  BY <2>1, <3>2 DEF OnlyNestedStall, f
  <2>3. PICK c, d \in Conns : /\ stage[user[c]] = "locks"
                              /\ InNeed(user[d]) /\ locker[wants[user[c]]] = user[d]
    BY <2>1, <2>2 DEF OnlyNestedStall
  <2>4. user[c] \in Requests /\ user[d] \in Requests
    BY StalledConns
  <2> QED  BY <2>3, <2>4
<1> QED  BY <1>1, InitIInv, StepIInv, PTL DEF Spec

\* Handlers that take one connection at a time never stall the pool, however many
\* there are and however they wait for each other's rows.
THEOREM NoNestedNeverStalls ==
    ASSUME Nested = {}
    PROVE  Spec => []NeverStalls
<1>1. OnlyNestedStall => NeverStalls
  BY ConnsAssumption DEF OnlyNestedStall, NeverStalls, InNeed
<1> QED  BY <1>1, StallsOnlyNested, PTL

============================================================================
