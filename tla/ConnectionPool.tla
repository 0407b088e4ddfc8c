--------------------------- MODULE ConnectionPool ---------------------------
(***************************************************************************)
(* The pool of database connections that all handlers of a server share    *)
(* (lib/db/database.go, MaxConns).  A handler takes one connection for each *)
(* query or transaction and gives it back; it waits in line while all are  *)
(* in use.  resetPassword and forgotPassword read the tenant through the   *)
(* pool while their transaction is open: they wait for a second connection *)
(* and hold the first, and with it the rows their transaction has locked.  *)
(* A transaction that waits for a row keeps its connection as well.        *)
(*                                                                         *)
(* The pool itself (pgxpool) is a library: a waiter that is first in line  *)
(* is handed the connection that is given back.  Rows stand for locks that *)
(* two transactions cannot have together (module LockOrder has the modes); *)
(* PostgreSQL ends the waits that are a cycle.                             *)
(***************************************************************************)
EXTENDS FiniteSets, SequencesExt

CONSTANTS
    Requests,   \* requests that may be in flight
    Nested,     \* those that reach resetPassword or forgotPassword
    Conns,      \* MaxConns connections
    Rows,       \* bound of the model: rows that handlers write
    Nobody, NoRow

ASSUME NestedAssumption == Nested \subseteq Requests /\ IsFiniteSet(Nested)
ASSUME ConnsAssumption == IsFiniteSet(Conns) /\ Conns # {}
ASSUME NobodyAssumption == Nobody \notin Requests /\ NoRow \notin Rows

VARIABLES
    user,       \* the request that has each connection
    stage,      \* how far each request is
    queue,      \* who waits for a connection, first come first served
    locker,     \* the request whose transaction has each row
    wants       \* the row each request waits for

poolVars == <<user, stage, queue>>
rowVars == <<locker, wants>>
vars == <<poolVars, rowVars>>

Waiting == {"asks", "asks more"}
Busy == {"runs", "both", "late"}
Stages == {"idle", "locks"} \cup Waiting \cup Busy

ConnsOf(r) == {c \in Conns : user[c] = r}

Has(q, x) == \E i \in 1..Len(q) : q[i] = x
Distinct(q) == \A i, j \in 1..Len(q) : q[i] = q[j] => i = j

TypeOK ==
    /\ user \in [Conns -> Requests \cup {Nobody}]
    /\ stage \in [Requests -> Stages]
    /\ queue \in Seq(Requests) /\ Distinct(queue)
    /\ \A r \in Requests : stage[r] \in Waiting <=> Has(queue, r)
    /\ locker \in [Rows -> Requests \cup {Nobody}]
    /\ wants \in [Requests -> Rows \cup {NoRow}]
    /\ \A r \in Requests : stage[r] = "locks" <=> wants[r] # NoRow

Init ==
    /\ user = [c \in Conns |-> Nobody]
    /\ stage = [r \in Requests |-> "idle"]
    /\ queue = <<>>
    /\ locker = [x \in Rows |-> Nobody]
    /\ wants = [r \in Requests |-> NoRow]

------------------------------------------------------------------------------
\* A connection that nobody has, or a place at the end of the line.
Acquire(r, waits, goes) ==
    \/ /\ \E c \in ConnsOf(Nobody) : user' = [user EXCEPT ![c] = r]
       /\ stage' = [stage EXCEPT ![r] = goes]
       /\ UNCHANGED queue
    \/ /\ ConnsOf(Nobody) = {}
       /\ stage' = [stage EXCEPT ![r] = waits]
       /\ queue' = Append(queue, r)
       /\ UNCHANGED user

\* What a waiting request does when it gets a connection.
Served(st) == IF st = "asks" THEN "runs" ELSE "both"

\* Request r gives connection c back and goes on to another stage; the first
\* in line gets it.
Release(r, c, goes) ==
    IF queue = <<>>
    THEN /\ user' = [user EXCEPT ![c] = Nobody]
         /\ stage' = [stage EXCEPT ![r] = goes]
         /\ UNCHANGED queue
    ELSE /\ user' = [user EXCEPT ![c] = Head(queue)]
         /\ stage' = [stage EXCEPT ![r] = goes, ![Head(queue)] = Served(@)]
         /\ queue' = Tail(queue)

\* A query on the pool, or Begin.
Begin(r) == stage[r] = "idle" /\ Acquire(r, "asks", "runs") /\ UNCHANGED rowVars

\* A statement of the transaction locks a row ...
Lock(r, x) ==
    /\ stage[r] = "runs"
    /\ locker[x] = Nobody
    /\ locker' = [locker EXCEPT ![x] = r]
    /\ UNCHANGED <<poolVars, wants>>

\* ... or waits until the one who has it is over.
WaitForRow(r, x) ==
    /\ stage[r] = "runs"
    /\ locker[x] \notin {Nobody, r}
    /\ stage' = [stage EXCEPT ![r] = "locks"]
    /\ wants' = [wants EXCEPT ![r] = x]
    /\ UNCHANGED <<user, queue, locker>>

Obtain(r) ==
    /\ stage[r] = "locks"
    /\ locker[wants[r]] = Nobody
    /\ locker' = [locker EXCEPT ![wants[r]] = r]
    /\ stage' = [stage EXCEPT ![r] = "runs"]
    /\ wants' = [wants EXCEPT ![r] = NoRow]
    /\ UNCHANGED <<user, queue>>

\* The handlers with a query on the pool inside their transaction.
Nests(r) == r \in Nested

\* GetTenantByID outside the transaction that is open.  What the transaction
\* locks after it (an audit row's account) it has locked before.
AskMore(r) ==
    /\ Nests(r)
    /\ stage[r] = "runs"
    /\ Acquire(r, "asks more", "both")
    /\ UNCHANGED rowVars

\* That query is over; its connection goes back, the transaction goes on.
GiveBack(r) ==
    /\ stage[r] = "both"
    /\ \E c \in ConnsOf(r) : Release(r, c, "late")
    /\ UNCHANGED rowVars

\* Mutant of Over: no rollback; the connection and its rows are never given back.
OverForgotten(r) ==
    /\ stage' = [stage EXCEPT ![r] = "idle"]
    /\ wants' = [wants EXCEPT ![r] = NoRow]
    /\ UNCHANGED <<user, queue, locker>>

\* The connection goes back and the transaction's rows are free.
Over(r) ==
    /\ \E c \in ConnsOf(r) : Release(r, c, "idle")
    /\ locker' = [x \in Rows |-> IF locker[x] = r THEN Nobody ELSE locker[x]]
    /\ wants' = [wants EXCEPT ![r] = NoRow]

\* Mutant of End: after the tenant query the transaction is not ended.
EndNeverLate(r) == stage[r] = "runs" /\ Over(r)

\* The query is over, or Commit, or the deferred Rollback.
End(r) == stage[r] \in {"runs", "late"} /\ Over(r)

\* The statement that waits for a row fails and the handler returns: the client
\* is gone ...
Leave(r) == stage[r] = "locks" /\ Over(r)

\* Nobody in C goes on before another one in C.
Cycle(C) == C # {} /\ \A r \in C : stage[r] = "locks" /\ locker[wants[r]] \in C

\* ... or PostgreSQL has found a cycle.
Victim(r) == (\E C \in SUBSET Requests : r \in C /\ Cycle(C)) /\ Leave(r)

\* Mutant of Cancel: the request leaves but keeps its place in line.
CancelInLine(r) ==
    /\ stage[r] \in Waiting
    /\ stage' = [stage EXCEPT ![r] = IF @ = "asks" THEN "idle" ELSE "late"]
    /\ UNCHANGED <<user, queue, rowVars>>

\* The client is gone: a request that waits for a connection gets an error.  The
\* tenant query's error is not returned, the handler goes on to its (failing)
\* Commit.
Cancel(r) ==
    /\ stage[r] \in Waiting
    /\ stage' = [stage EXCEPT ![r] = IF @ = "asks" THEN "idle" ELSE "late"]
    /\ \E i \in 1..Len(queue) : queue[i] = r /\ queue' = RemoveAt(queue, i)
    /\ UNCHANGED <<user, rowVars>>

Next == \E r \in Requests :
    \/ Begin(r) \/ AskMore(r) \/ GiveBack(r) \/ End(r) \/ Cancel(r)
    \/ \E x \in Rows : Lock(r, x) \/ WaitForRow(r, x)
    \/ Obtain(r) \/ Leave(r)

Spec == Init /\ [][Next]_vars

\* A handler that has what it asked for goes on, and PostgreSQL hands rows on and
\* ends cycles; no client has to give up.
FairSpec ==
    /\ Spec
    /\ \A r \in Requests :
          WF_vars(GiveBack(r)) /\ WF_vars(End(r)) /\ WF_vars(Obtain(r)) /\ WF_vars(Victim(r))

------------------------------------------------------------------------------
\* The connections a request has at each stage: a finished or cancelled one
\* has none, and only nested handlers come to have two.
Holding ==
    \A r \in Requests :
        /\ stage[r] \in {"idle", "asks"} => ConnsOf(r) = {}
        /\ stage[r] \in {"runs", "locks", "asks more", "late"} => \E c \in Conns : ConnsOf(r) = {c}
        /\ stage[r] = "both" => \E c, d \in Conns : c # d /\ ConnsOf(r) = {c, d}
        /\ stage[r] \in {"asks more", "both", "late"} => r \in Nested

\* Nobody waits while a connection is free.
NoIdleConnWhileWaiting == queue # <<>> => ConnsOf(Nobody) = {}

\* A row is locked by a request that has a connection.
LockedByConnected ==
    \A x \in Rows : locker[x] # Nobody => stage[locker[x]] \notin {"idle", "asks"}

\* The pool is stalled: somebody waits for a connection, nobody who has one is at
\* work or can be given the row it waits for, and there is no cycle to break.
\* Only a client that gives up can end it.
Stalled ==
    /\ queue # <<>>
    /\ \A r \in Requests :
          /\ stage[r] \notin Busy
          /\ stage[r] = "locks" => locker[wants[r]] # Nobody
    /\ ~\E C \in SUBSET Requests : Cycle(C)

\* r has a connection and waits for its second.
InNeed(r) == r \in Nested /\ stage[r] = "asks more"

\* Whenever the pool stalls every connection is with another request, and either
\* as many nested handlers as there are connections wait for their second, or one
\* of them has a row that another handler waits for: then a single one is enough.
OnlyNestedStall ==
    Stalled =>
        /\ \A c, d \in Conns : user[c] = user[d] => c = d
        /\ \/ \A c \in Conns : InNeed(user[c])
           \/ \E c, d \in Conns :
                 /\ stage[user[c]] = "locks"
                 /\ InNeed(user[d]) /\ locker[wants[user[c]]] = user[d]

\* With fewer nested handlers than connections the pool stalls on a row only.
StallsOnRow ==
    Stalled => \E r, s \in Requests : stage[r] = "locks" /\ InNeed(s) /\ locker[wants[r]] = s

\* Without nested handlers the pool never stalls.
NeverStalls == ~Stalled

\* Every request that waits for a connection gets one (or gives up), unless the
\* pool stalls and no client ever gives up.
WaitsEnd == []<>~Stalled => \A r \in Requests : stage[r] \in Waiting ~> stage[r] \notin Waiting

==============================================================================
