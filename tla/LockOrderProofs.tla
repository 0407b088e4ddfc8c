--------------------------- MODULE LockOrderProofs ---------------------------
(***************************************************************************)
(* Who can deadlock with whom, for any number of accounts, sessions, roles *)
(* and transactions.                                                       *)
(***************************************************************************)
EXTENDS LockOrder, WellFoundedInduction, TLAPS

\* The plans a transaction of each kind can begin with.
Planned(o, p) ==
    \/ o = "refresh" /\ \E t \in Tokens : p = Refresh(t)
    \/ o = "login" /\ \E u \in Users : p \in Login(u)
    \/ o = "change_password" /\ \E u \in Users : p = ChangePassword(u)
    \/ o = "reset_password" /\ \E u \in Users : p = ResetPassword(u)
    \/ o = "forgot_password" /\ \E u \in Users : p = ForgotPassword(u)
    \/ o = "change_email" /\ \E u \in Users : p = ChangeEmail(u)
    \/ o = "verify_change_email" /\ \E u \in Users : p = VerifyChangeEmail(u)
    \/ o = "delete_user" /\ \E by, u \in Users : p \in DeleteUser(by, u)
    \/ o = "accept_invite" /\ \E u \in Users : p = AcceptInvite(u)
    \/ o = "update_role" /\ \E by \in Users, c \in Roles : p \in UpdateRole(by, c)
    \/ o = "delete_role" /\ \E by \in Users, c \in Roles : p = DeleteRole(by, c)
    \/ o = "change_roles" /\ \E by, u \in Users : p \in ChangeRoles(by, u)
    \/ o = "invite" /\ \E by \in Users : \E given \in SUBSET Roles : p = Invite(by, given)
    \/ o = "resend_invite" /\ \E by, u \in Users : p = ResendInvite(by, u)

\* The locks of a plan, stage by stage.
LEMMA StepsOf1 == ASSUME NEW A PROVE Steps(<<A>>) = {1} \X A
BY DEF Steps

LEMMA StepsOf2 == ASSUME NEW A, NEW B PROVE Steps(<<A, B>>) = ({1} \X A) \cup ({2} \X B)
BY DEF Steps

LEMMA StepsOf3 ==
    ASSUME NEW A, NEW B, NEW C
    PROVE  Steps(<<A, B, C>>) = ({1} \X A) \cup ({2} \X B) \cup ({3} \X C)
BY DEF Steps

LEMMA StepsOf4 ==
    ASSUME NEW A, NEW B, NEW C, NEW D
    PROVE  Steps(<<A, B, C, D>>) = ({1} \X A) \cup ({2} \X B) \cup ({3} \X C) \cup ({4} \X D)
BY DEF Steps

LEMMA Stage == ASSUME NEW n \in Nat, NEW A \in SUBSET Lock PROVE {n} \X A \subseteq Nat \X Lock
<1> SUFFICES ASSUME NEW s \in {n} \X A PROVE s \in Nat \X Lock
  OBVIOUS
<1>1. s = <<n, s[2]>> /\ s[2] \in Lock
  OBVIOUS
<1> QED
  BY <1>1

LEMMA Typed1 == ASSUME NEW A \in SUBSET Lock PROVE Steps(<<A>>) \subseteq Nat \X Lock
<1>1. {1} \X A \subseteq Nat \X Lock
  BY Stage
<1> QED
  BY <1>1, StepsOf1

LEMMA Typed2 ==
    ASSUME NEW A \in SUBSET Lock, NEW B \in SUBSET Lock
    PROVE  Steps(<<A, B>>) \subseteq Nat \X Lock
<1>1. /\ {1} \X A \subseteq Nat \X Lock
      /\ {2} \X B \subseteq Nat \X Lock
  BY Stage
<1> QED
  BY <1>1, StepsOf2

LEMMA Typed3 ==
    ASSUME NEW A \in SUBSET Lock, NEW B \in SUBSET Lock, NEW C \in SUBSET Lock
    PROVE  Steps(<<A, B, C>>) \subseteq Nat \X Lock
<1>1. /\ {1} \X A \subseteq Nat \X Lock
      /\ {2} \X B \subseteq Nat \X Lock
      /\ {3} \X C \subseteq Nat \X Lock
  BY Stage
<1> QED
  BY <1>1, StepsOf3

LEMMA Typed4 ==
    ASSUME NEW A \in SUBSET Lock, NEW B \in SUBSET Lock, NEW C \in SUBSET Lock,
           NEW D \in SUBSET Lock
    PROVE  Steps(<<A, B, C, D>>) \subseteq Nat \X Lock
<1>1. /\ {1} \X A \subseteq Nat \X Lock
      /\ {2} \X B \subseteq Nat \X Lock
      /\ {3} \X C \subseteq Nat \X Lock
      /\ {4} \X D \subseteq Nat \X Lock
  BY Stage
<1> QED
  BY <1>1, StepsOf4

LEMMA Locks ==
    ASSUME NEW mode \in {"KeyShare", "NoKeyUpdate", "Update"}
    PROVE  /\ \A u \in Users : /\ On("users", u, mode) \in Lock
                              /\ On("reset_link", u, mode) \in Lock
                              /\ On("email_link", u, mode) \in Lock
                              /\ On("invitation", u, mode) \in Lock
           /\ \A t \in Tokens : On("token", t, mode) \in Lock
           /\ \A c \in Roles : /\ On("role", c, mode) \in Lock
                              /\ On("role_permission", c, mode) \in Lock
           /\ \A u \in Users, c \in Roles : On("user_role", <<u, c>>, mode) \in Lock
<1>1. ASSUME NEW u \in Users
      PROVE  /\ <<"users", u>> \in Row /\ <<"reset_link", u>> \in Row
             /\ <<"email_link", u>> \in Row /\ <<"invitation", u>> \in Row
  BY DEF Row
<1>2. ASSUME NEW t \in Tokens PROVE <<"token", t>> \in Row
  BY DEF Row
<1>3. ASSUME NEW c \in Roles PROVE <<"role", c>> \in Row /\ <<"role_permission", c>> \in Row
  BY DEF Row
<1>4. ASSUME NEW u \in Users, NEW c \in Roles PROVE <<"user_role", <<u, c>>>> \in Row
  BY DEF Row
<1> QED
  BY <1>1, <1>2, <1>3, <1>4 DEF On, Lock, Mode

LEMMA SessionsOfLocks == ASSUME NEW u PROVE SessionsOf(u) \in SUBSET Lock
BY Locks DEF SessionsOf

LEMMA AuditLocks == ASSUME NEW by \in Users PROVE Audit(by) \in SUBSET Lock
BY Locks DEF Audit

\* Plans lock rows.
LEMMA PlanType == ASSUME NEW o, NEW p, Planned(o, p) PROVE Steps(p) \subseteq Nat \X Lock
<1>1. ASSUME NEW t \in Tokens PROVE Steps(Refresh(t)) \subseteq Nat \X Lock
  <2>1. /\ {On("token", t, "NoKeyUpdate")} \in SUBSET Lock
        /\ {On("users", Owner[t], "KeyShare")} \in SUBSET Lock
    BY Locks, OwnerAssumption
  <2> QED
    BY <2>1, Typed2 DEF Refresh
<1>2. ASSUME NEW u \in Users, NEW q \in Login(u) PROVE Steps(q) \subseteq Nat \X Lock
  <2>1. {On("users", u, "KeyShare")} \in SUBSET Lock
    BY Locks
  <2> QED
    BY <1>1, <1>2, <2>1, Typed1 DEF Login
<1>3. ASSUME NEW u \in Users
      PROVE  /\ Steps(ChangePassword(u)) \subseteq Nat \X Lock
             /\ Steps(AcceptInvite(u)) \subseteq Nat \X Lock
             /\ Steps(ForgotPassword(u)) \subseteq Nat \X Lock
             /\ Steps(ChangeEmail(u)) \subseteq Nat \X Lock
             /\ Steps(ResetPassword(u)) \subseteq Nat \X Lock
             /\ Steps(VerifyChangeEmail(u)) \subseteq Nat \X Lock
  <2>1. /\ {On("users", u, "KeyShare")} \in SUBSET Lock
        /\ {On("users", u, "NoKeyUpdate")} \in SUBSET Lock
        /\ {On("users", u, "Update")} \in SUBSET Lock
        /\ {On("reset_link", u, "NoKeyUpdate")} \in SUBSET Lock
        /\ {On("reset_link", u, "Update")} \in SUBSET Lock
        /\ {On("email_link", u, "NoKeyUpdate")} \in SUBSET Lock
        /\ {On("email_link", u, "Update")} \in SUBSET Lock
        /\ {On("invitation", u, "NoKeyUpdate")} \in SUBSET Lock
    BY Locks
  <2>2. /\ Steps(ChangePassword(u)) \subseteq Nat \X Lock
        /\ Steps(AcceptInvite(u)) \subseteq Nat \X Lock
    BY <2>1, SessionsOfLocks, Typed2 DEF ChangePassword, AcceptInvite
  <2>3. /\ Steps(ForgotPassword(u)) \subseteq Nat \X Lock
        /\ Steps(ChangeEmail(u)) \subseteq Nat \X Lock
    BY <2>1, Typed2 DEF ForgotPassword, ChangeEmail
  <2>4. /\ Steps(ResetPassword(u)) \subseteq Nat \X Lock
        /\ Steps(VerifyChangeEmail(u)) \subseteq Nat \X Lock
    BY <2>1, SessionsOfLocks, Typed3 DEF ResetPassword, VerifyChangeEmail
  <2> QED
    BY <2>2, <2>3, <2>4
<1>4. ASSUME NEW by \in Users, NEW u \in Users, NEW q \in DeleteUser(by, u)
      PROVE  Steps(q) \subseteq Nat \X Lock
  <2>1. {On("users", u, "Update")} \in SUBSET Lock /\ {On("users", by, "KeyShare")} \in SUBSET Lock
    BY Locks
  <2> QED
    BY <1>4, <2>1, Typed1, Typed2 DEF DeleteUser
<1>5. ASSUME NEW by \in Users, NEW c \in Roles, NEW q \in UpdateRole(by, c)
      PROVE  Steps(q) \subseteq Nat \X Lock
  <2>1. PICK mode \in {"NoKeyUpdate", "Update"} :
           q = << {On("role", c, mode)}, {On("role_permission", c, "Update")}, Audit(by) >>
    BY <1>5 DEF UpdateRole
  <2>2. {On("role", c, mode)} \in SUBSET Lock /\ {On("role_permission", c, "Update")} \in SUBSET Lock
    BY <2>1, Locks
  <2> QED
    BY <2>1, <2>2, AuditLocks, Typed3
<1>6. ASSUME NEW by \in Users, NEW c \in Roles PROVE Steps(DeleteRole(by, c)) \subseteq Nat \X Lock
  <2>1. /\ {On("role_permission", c, "Update")} \in SUBSET Lock
        /\ {On("role", c, "Update")} \in SUBSET Lock
        /\ {On("user_role", <<u, c>>, "Update") : u \in Users} \in SUBSET Lock
    BY Locks
  <2> QED
    BY <2>1, AuditLocks, Typed4 DEF DeleteRole
<1>7. ASSUME NEW by \in Users, NEW u \in Users, NEW q \in ChangeRoles(by, u)
      PROVE  Steps(q) \subseteq Nat \X Lock
  <2>1. PICK change \in (SUBSET Roles) \X (SUBSET Roles) :
           q = << {On("user_role", <<u, c>>, "Update") : c \in change[1]},
                  {On("user_role", <<u, c>>, "Update") : c \in change[2]},
                  {On("users", u, "KeyShare") : c \in change[2]}
                    \cup {On("role", c, "KeyShare") : c \in change[2]},
                  Audit(by) >>
    BY <1>7 DEF ChangeRoles
  <2>2. /\ \A c \in change[1] : On("user_role", <<u, c>>, "Update") \in Lock
        /\ \A c \in change[2] : /\ On("user_role", <<u, c>>, "Update") \in Lock
                               /\ On("users", u, "KeyShare") \in Lock
                               /\ On("role", c, "KeyShare") \in Lock
    BY Locks
  <2>3. /\ {On("user_role", <<u, c>>, "Update") : c \in change[1]} \in SUBSET Lock
        /\ {On("user_role", <<u, c>>, "Update") : c \in change[2]} \in SUBSET Lock
        /\ {On("users", u, "KeyShare") : c \in change[2]}
              \cup {On("role", c, "KeyShare") : c \in change[2]} \in SUBSET Lock
    BY <2>2
  <2> QED
    BY <2>1, <2>3, AuditLocks, Typed4
<1>8. ASSUME NEW by \in Users, NEW given \in SUBSET Roles
      PROVE  Steps(Invite(by, given)) \subseteq Nat \X Lock
  <2>1. {On("role", c, "KeyShare") : c \in given} \in SUBSET Lock
    BY Locks
  <2> QED
    BY <2>1, AuditLocks, Typed2 DEF Invite
<1>9. ASSUME NEW by \in Users, NEW u \in Users PROVE Steps(ResendInvite(by, u)) \subseteq Nat \X Lock
  <2>1. {On("invitation", u, "Update")} \in SUBSET Lock /\ {On("users", u, "KeyShare")} \in SUBSET Lock
    BY Locks
  <2> QED
    BY <2>1, AuditLocks, Typed3 DEF ResendInvite
<1> QED
  BY <1>1, <1>2, <1>3, <1>4, <1>5, <1>6, <1>7, <1>8, <1>9 DEF Planned

------------------------------------------------------------------------------
(***************************************************************************)
(* The invariant.                                                          *)
(***************************************************************************)

\* What x has and what it still needs is a plan of its operation, taken stage
\* after stage.
Following(x) ==
    \E p : /\ Planned(op[x], p)
           /\ todo[x] \subseteq Steps(p)
           /\ held[x] = {s[2] : s \in Steps(p) \ todo[x]}
           /\ \A s \in Steps(p) \ todo[x], r \in todo[x] : s[1] <= r[1]

Planning == \A x \in Txns : op[x] # "idle" => Following(x)

\* A statement waits for one of its own rows.
WaitsWhereDue == \A x \in Txns : want[x] # NoLock => want[x] \in Due(x)

\* Two transactions never hold conflicting locks.
Exclusive == \A x, y \in Txns : \A l \in held[x] : ~Holds(y, x, l)

NotBegun == \A x \in Txns : x > starts => op[x] = "idle"

IInv == TypeOK /\ Planning /\ WaitsWhereDue /\ Exclusive /\ NotBegun

LEMMA InitIInv == Init => IInv
BY MaxStartsAssumption DEF Init, IInv, TypeOK, Planning, WaitsWhereDue, Exclusive, NotBegun, Holds, Txns

\* A transaction that begins has a plan.
LEMMA BeginPlans ==
    ASSUME NEW x \in Txns, Begin(x)
    PROVE  \E o \in Ops : \E p : Planned(o, p) /\ Start(x, o, p)
BY AdminsAssumption DEF Begin, Planned, Ops

LEMMA IdleNotOp == "idle" \notin Ops
BY DEF Ops

LEMMA StartKeeps ==
    ASSUME IInv, NEW x \in Txns, NEW o \in Ops, NEW p, Planned(o, p), Start(x, o, p)
    PROVE  IInv'
<1> USE DEF IInv, Start
<1>1. /\ op[x] = "idle" /\ todo[x] = {} /\ held[x] = {} /\ want[x] = NoLock
      /\ Steps(p) \subseteq Nat \X Lock /\ starts' \in 0..MaxStarts
  BY PlanType, MaxStartsAssumption DEF TypeOK, NotBegun, Txns
<1>2. TypeOK'
  BY <1>1, IdleNotOp DEF TypeOK
<1>3. Planning'
  <2> SUFFICES ASSUME NEW y \in Txns, op'[y] # "idle" PROVE Following(y)'
    BY DEF Planning
  <2>1. CASE y = x
    <3>1. /\ op'[x] = o /\ todo'[x] = Steps(p) /\ held'[x] = {}
      BY <1>1 DEF TypeOK
    <3> QED
      BY <2>1, <3>1 DEF Following
  <2>2. CASE y # x
    <3>1. op'[y] = op[y] /\ todo'[y] = todo[y] /\ held'[y] = held[y]
      BY <2>2 DEF TypeOK
    <3> QED
      BY <3>1 DEF Planning, Following
  <2> QED
    BY <2>1, <2>2
<1>4. WaitsWhereDue'
  BY <1>1 DEF WaitsWhereDue, Due, TypeOK
<1>5. Exclusive'
  BY DEF Exclusive, Holds
<1>6. NotBegun'
  BY DEF NotBegun, TypeOK, Txns
<1> QED
  BY <1>2, <1>3, <1>4, <1>5, <1>6

LEMMA GetKeeps ==
    ASSUME IInv, NEW x \in Txns, NEW s \in Due(x), Get(x, s)
    PROVE  IInv'
<1> USE DEF IInv, Get
<1>1. /\ s \in todo[x] /\ s \in Nat \X Lock /\ op[x] # "idle"
      /\ \A r \in todo[x] : s[1] <= r[1]
  BY DEF TypeOK, Due
<1>2. TypeOK'
  BY <1>1 DEF TypeOK
<1>3. Planning'
  <2> SUFFICES ASSUME NEW y \in Txns, op'[y] # "idle" PROVE Following(y)'
    BY DEF Planning
  <2>1. CASE y = x
    <3>1. PICK p : /\ Planned(op[x], p)
                   /\ todo[x] \subseteq Steps(p)
                   /\ held[x] = {q[2] : q \in Steps(p) \ todo[x]}
                   /\ \A q \in Steps(p) \ todo[x], r \in todo[x] : q[1] <= r[1]
      BY <1>1 DEF Planning, Following
    <3>2. todo'[x] = todo[x] \ {s} /\ held'[x] = held[x] \cup {s[2]} /\ op'[x] = op[x]
      BY DEF TypeOK
    <3>3. Steps(p) \ todo'[x] = (Steps(p) \ todo[x]) \cup {s}
      BY <1>1, <3>1, <3>2
    <3>4. held'[x] = {q[2] : q \in Steps(p) \ todo'[x]}
      BY <3>1, <3>2, <3>3
    <3>5. \A q \in Steps(p) \ todo'[x], r \in todo'[x] : q[1] <= r[1]
      BY <1>1, <3>1, <3>2, <3>3
    <3> QED
      BY <2>1, <3>1, <3>2, <3>4, <3>5 DEF Following
  <2>2. CASE y # x
    <3>1. op'[y] = op[y] /\ todo'[y] = todo[y] /\ held'[y] = held[y]
      BY <2>2 DEF TypeOK
    <3> QED
      BY <3>1 DEF Planning, Following
  <2> QED
    BY <2>1, <2>2
<1>4. WaitsWhereDue'
  BY DEF WaitsWhereDue, Due, TypeOK
<1>5. Exclusive'
  <2> SUFFICES ASSUME NEW y \in Txns, NEW z \in Txns, NEW l \in held'[y], Holds(z, y, l)'
               PROVE  FALSE
    BY DEF Exclusive
  <2>1. PICK k \in held'[z] : z # y /\ k.row = l.row /\ Conflict(k.mode, l.mode)
    BY DEF Holds
  <2>2. Conflict(l.mode, k.mode)
    BY <2>1 DEF Conflict
  <2>3. ~Holds(z, x, s[2]) /\ ~Holds(y, x, s[2])
    BY DEF Free
  <2>4. CASE y = x /\ l = s[2]
    <3>1. k \in held[z]
      BY <2>1, <2>4 DEF TypeOK
    <3> QED
      BY <2>1, <2>3, <2>4, <3>1 DEF Holds
  <2>5. CASE z = x /\ k = s[2]
    <3>1. l \in held[y]
      BY <2>1, <2>5 DEF TypeOK
    <3> QED
      BY <2>1, <2>2, <2>3, <2>5, <3>1 DEF Holds
  <2>6. CASE ~(y = x /\ l = s[2]) /\ ~(z = x /\ k = s[2])
    <3>1. l \in held[y] /\ k \in held[z]
      BY <2>1, <2>6 DEF TypeOK
    <3> QED
      BY <2>1, <3>1 DEF Exclusive, Holds
  <2> QED
    BY <2>4, <2>5, <2>6
<1>6. NotBegun'
  BY DEF NotBegun
<1> QED
  BY <1>2, <1>3, <1>4, <1>5, <1>6

LEMMA EndKeeps == ASSUME IInv, NEW x \in Txns, End(x) PROVE IInv'
<1> USE DEF IInv, End
<1>1. \A y \in Txns \ {x} : /\ op'[y] = op[y] /\ todo'[y] = todo[y]
                           /\ held'[y] = held[y] /\ want'[y] = want[y]
  BY DEF TypeOK
<1>2. op'[x] = "idle" /\ todo'[x] = {} /\ held'[x] = {} /\ want'[x] = NoLock
  BY DEF TypeOK
<1>3. TypeOK'
  BY <1>1, <1>2 DEF TypeOK
<1>4. Planning'
  BY <1>1, <1>2 DEF Planning, Following
<1>5. WaitsWhereDue'
  BY <1>1, <1>2 DEF WaitsWhereDue, Due
<1>6. Exclusive'
  BY <1>1, <1>2 DEF Exclusive, Holds
<1>7. NotBegun'
  BY <1>1, <1>2 DEF NotBegun
<1> QED
  BY <1>3, <1>4, <1>5, <1>6, <1>7

LEMMA WaitKeeps == ASSUME IInv, NEW x \in Txns, Wait(x) PROVE IInv'
<1> USE DEF IInv, Wait
<1>1. PICK s \in Due(x) : want' = [want EXCEPT ![x] = s]
  OBVIOUS
<1>2. s \in todo[x] /\ s \in Nat \X Lock /\ op[x] # "idle"
  BY <1>1 DEF TypeOK, Due
<1>3. TypeOK'
  BY <1>1, <1>2 DEF TypeOK
<1>4. Planning'
  BY DEF Planning, Following
<1>5. WaitsWhereDue'
  BY <1>1 DEF WaitsWhereDue, Due, TypeOK
<1>6. Exclusive' /\ NotBegun'
  BY DEF Exclusive, Holds, NotBegun
<1> QED
  BY <1>3, <1>4, <1>5, <1>6

LEMMA StepIInv == IInv /\ [Next]_vars => IInv'
<1> SUFFICES ASSUME IInv, [Next]_vars PROVE IInv'
  OBVIOUS
<1>1. ASSUME NEW x \in Txns, Begin(x) PROVE IInv'
  BY <1>1, BeginPlans, StartKeeps
<1>2. ASSUME NEW x \in Txns, Take(x) PROVE IInv'
  BY <1>2, GetKeeps DEF Take
<1>3. ASSUME NEW x \in Txns, Wait(x) PROVE IInv'
  BY <1>3, WaitKeeps
<1>4. ASSUME NEW x \in Txns, Obtain(x) PROVE IInv'
  BY <1>4, GetKeeps DEF Obtain, IInv, WaitsWhereDue
<1>5. ASSUME NEW x \in Txns, Commit(x) \/ Return(x) \/ Victim(x) PROVE IInv'
  BY <1>5, EndKeeps DEF Commit, Return, Victim
<1>6. CASE UNCHANGED vars
  BY <1>6 DEF vars, IInv, TypeOK, Planning, Following, WaitsWhereDue, Due, Exclusive, Holds, NotBegun
<1> QED
  BY <1>1, <1>2, <1>3, <1>4, <1>5, <1>6 DEF Next

\* A transaction that has ended holds nothing and waits for nothing.
THEOREM LockTypes == Spec => []TypeOK
<1>1. IInv => TypeOK
  BY DEF IInv
<1> QED
  BY <1>1, InitIInv, StepIInv, PTL DEF Spec

------------------------------------------------------------------------------
(***************************************************************************)
(* Orderly operations take rows in the order of the levels of their        *)
(* tables.                                                                 *)
(***************************************************************************)

Orderly == Ops \ {"verify_change_email", "delete_user", "delete_role", "change_roles"}

Level(l) == IF l.row[1] \in {"users", "role"} THEN 0 ELSE IF l.row[1] = "token" THEN 2 ELSE 1

\* On a row of users: nobody orderly locks it against this.
Harmless(l) == l.row[1] = "users" /\ l.mode = "KeyShare"

Shared(l) == l.row[1] = "role" /\ l.mode = "KeyShare"

\* Session tokens of one account, whose row is taken first.
Sessions(p, s, r) ==
    /\ s[2].row[1] = "token" /\ r[2].row[1] = "token"
    /\ \E h \in Steps(p) : /\ h[1] < r[1]
                          /\ h[2] = On("users", Owner[s[2].row[2]], "NoKeyUpdate")
                          /\ h[2] = On("users", Owner[r[2].row[2]], "NoKeyUpdate")

\* r may be taken after s.
After(p, s, r) ==
    \/ Harmless(r[2])
    \/ Level(s[2]) < Level(r[2])
    \/ Shared(s[2]) /\ Shared(r[2])
    \/ Sessions(p, s, r)

Ordered(p) ==
    /\ \A s \in Steps(p) : s[2].row[1] = "users" => s[2].mode # "Update"
    /\ \A s, r \in Steps(p) : s # r /\ s[1] <= r[1] => After(p, s, r)

LEMMA OnFields ==
    ASSUME NEW table, NEW key, NEW mode
    PROVE  /\ On(table, key, mode).row[1] = table
           /\ On(table, key, mode).row[2] = key
           /\ On(table, key, mode).mode = mode
BY DEF On

LEMMA OrderlyOrdered == ASSUME NEW o \in Orderly, NEW p, Planned(o, p) PROVE Ordered(p)
<1>1. ASSUME NEW t PROVE Ordered(Refresh(t))
  BY StepsOf2, OnFields DEF Refresh, Ordered, After, Harmless, Level
<1>2. ASSUME NEW u, NEW q \in Login(u) PROVE Ordered(q)
  <2>1. Ordered(<< {On("users", u, "KeyShare")} >>)
    BY StepsOf1, OnFields DEF Ordered, After, Harmless
  <2> QED
    BY <1>1, <1>2, <2>1 DEF Login
<1>3. ASSUME NEW u PROVE Ordered(AcceptInvite(u))
  BY StepsOf2, OnFields DEF AcceptInvite, Ordered, After, Level
<1>4. ASSUME NEW u PROVE Ordered(ForgotPassword(u)) /\ Ordered(ChangeEmail(u))
  BY StepsOf2, OnFields DEF ForgotPassword, ChangeEmail, Ordered, After, Harmless
<1>5. ASSUME NEW by, NEW u PROVE Ordered(ResendInvite(by, u))
  BY StepsOf3, OnFields DEF ResendInvite, Audit, Ordered, After, Harmless
<1>6. ASSUME NEW by, NEW c, NEW q \in UpdateRole(by, c) PROVE Ordered(q)
  <2>1. PICK mode \in {"NoKeyUpdate", "Update"} :
           q = << {On("role", c, mode)}, {On("role_permission", c, "Update")}, Audit(by) >>
    BY <1>6 DEF UpdateRole
  <2> QED
    BY <2>1, StepsOf3, OnFields DEF Audit, Ordered, After, Harmless, Level
<1>7. ASSUME NEW by, NEW given PROVE Ordered(Invite(by, given))
  BY StepsOf2, OnFields DEF Invite, Audit, Ordered, After, Harmless, Shared
<1>8. ASSUME NEW u, NEW l \in SessionsOf(u) PROVE /\ l.row[1] = "token" /\ Owner[l.row[2]] = u
  BY <1>8, OnFields DEF SessionsOf
<1>9. ASSUME NEW u PROVE Ordered(ChangePassword(u))
  <2>1. Steps(ChangePassword(u)) = ({1} \X {On("users", u, "NoKeyUpdate")}) \cup ({2} \X SessionsOf(u))
    BY StepsOf2 DEF ChangePassword
  <2>2. \A s \in Steps(ChangePassword(u)) : s[2].row[1] = "users" => s[2].mode # "Update"
    BY <1>8, <2>1, OnFields
  <2>3. ASSUME NEW s \in Steps(ChangePassword(u)), NEW r \in Steps(ChangePassword(u)),
               s # r, s[1] <= r[1]
        PROVE  After(ChangePassword(u), s, r)
    <3> DEFINE h == <<1, On("users", u, "NoKeyUpdate")>>
    <3>1. r \in {2} \X SessionsOf(u)
      BY <2>1, <2>3
    <3>2. CASE s = h
      BY <1>8, <3>1, <3>2, OnFields DEF After, Level
    <3>3. CASE s \in {2} \X SessionsOf(u)
      <4>1. h \in Steps(ChangePassword(u)) /\ h[1] < r[1]
        BY <2>1, <3>1
      <4>2. /\ s[2].row[1] = "token" /\ Owner[s[2].row[2]] = u
            /\ r[2].row[1] = "token" /\ Owner[r[2].row[2]] = u
        BY <1>8, <3>1, <3>3
      <4> QED
        BY <4>1, <4>2 DEF After, Sessions
    <3> QED
      BY <2>1, <3>2, <3>3
  <2> QED
    BY <2>2, <2>3 DEF Ordered
<1>10. ASSUME NEW u PROVE Ordered(ResetPassword(u))
  <2> DEFINE h == <<1, On("users", u, "NoKeyUpdate")>>
             g == <<2, On("reset_link", u, "NoKeyUpdate")>>
  <2>1. Steps(ResetPassword(u)) = {h, g} \cup ({3} \X SessionsOf(u))
    BY StepsOf3 DEF ResetPassword
  <2>2. \A s \in Steps(ResetPassword(u)) : s[2].row[1] = "users" => s[2].mode # "Update"
    BY <1>8, <2>1, OnFields
  <2>3. ASSUME NEW s \in Steps(ResetPassword(u)), NEW r \in Steps(ResetPassword(u)),
               s # r, s[1] <= r[1]
        PROVE  After(ResetPassword(u), s, r)
    <3>1. CASE r = g
      <4>1. s = h
        BY <2>1, <2>3, <3>1
      <4> QED
        BY <3>1, <4>1, OnFields DEF After, Level
    <3>2. CASE r \in {3} \X SessionsOf(u)
      <4>1. r[2].row[1] = "token" /\ Owner[r[2].row[2]] = u
        BY <1>8, <3>2
      <4>2. CASE s \in {h, g}
        BY <4>1, <4>2, OnFields DEF After, Level
      <4>3. CASE s \in {3} \X SessionsOf(u)
        <5>1. h \in Steps(ResetPassword(u)) /\ h[1] < r[1]
          BY <2>1, <3>2
        <5>2. s[2].row[1] = "token" /\ Owner[s[2].row[2]] = u
          BY <1>8, <4>3
        <5> QED
          BY <4>1, <5>1, <5>2 DEF After, Sessions
      <4> QED
        BY <2>1, <4>2, <4>3
    <3>3. r # h
      BY <2>1, <2>3
    <3> QED
      BY <2>1, <3>1, <3>2, <3>3
  <2> QED
    BY <2>2, <2>3 DEF Ordered
<1> QED
  BY <1>1, <1>2, <1>3, <1>4, <1>5, <1>6, <1>7, <1>9, <1>10 DEF Planned, Orderly, Ops

\* Along a chain of waiting transactions the level goes up, but for the two
\* cases in which the operation takes several rows of one table.
LEMMA LevelsRise ==
    ASSUME IInv, NEW x \in Txns, NEW y \in Txns, NEW z \in Txns,
           op[y] \in Orderly, op[z] \in Orderly, WaitsFor(x, y), WaitsFor(y, z)
    PROVE  \/ Level(want[x][2]) < Level(want[y][2])
           \/ want[x][2].row[1] = "role" /\ ~Shared(want[x][2]) /\ Shared(want[y][2])
           \/ /\ want[x][2].row[1] = "token" /\ want[y][2].row[1] = "token"
              /\ On("users", Owner[want[x][2].row[2]], "NoKeyUpdate") \in held[y]
              /\ On("users", Owner[want[y][2].row[2]], "NoKeyUpdate") \in held[y]
<1> DEFINE m == want[x][2]
           r == want[y]
<1>1. PICK k \in held[y] : k.row = m.row /\ Conflict(k.mode, m.mode)
  BY DEF WaitsFor, Holds
<1>2. /\ r \in todo[y] /\ \A q \in todo[y] : r[1] <= q[1]
  BY DEF IInv, WaitsWhereDue, Due, WaitsFor
<1>3. PICK p : /\ Planned(op[y], p)
               /\ todo[y] \subseteq Steps(p)
               /\ held[y] = {s[2] : s \in Steps(p) \ todo[y]}
               /\ \A s \in Steps(p) \ todo[y], q \in todo[y] : s[1] <= q[1]
  BY IdleNotOp DEF IInv, Planning, Following, Orderly
<1>4. PICK s \in Steps(p) \ todo[y] : s[2] = k
  BY <1>1, <1>3
<1>5. After(p, s, r)
  BY <1>2, <1>3, <1>4, OrderlyOrdered DEF Ordered
<1>6. ~Harmless(r[2])
  <2> SUFFICES ASSUME Harmless(r[2]) PROVE FALSE
    OBVIOUS
  <2>1. PICK l \in held[z] : l.row = r[2].row /\ Conflict(l.mode, "KeyShare")
    BY DEF WaitsFor, Holds, Harmless
  <2>2. l.row[1] = "users" /\ l.mode = "Update"
    BY <2>1 DEF Conflict, Harmless
  <2>3. PICK q : Planned(op[z], q) /\ held[z] = {t[2] : t \in Steps(q) \ todo[z]}
    BY IdleNotOp DEF IInv, Planning, Following, Orderly
  <2>4. Ordered(q)
    BY <2>3, OrderlyOrdered
  <2> QED
    BY <2>1, <2>2, <2>3, <2>4 DEF Ordered
<1>7. CASE Level(s[2]) < Level(r[2])
  BY <1>1, <1>4, <1>7 DEF Level
<1>8. CASE Shared(s[2]) /\ Shared(r[2])
  BY <1>1, <1>4, <1>8 DEF Shared, Conflict
<1>9. CASE Sessions(p, s, r)
  <2>1. PICK h \in Steps(p) : /\ h[1] < r[1]
                              /\ h[2] = On("users", Owner[s[2].row[2]], "NoKeyUpdate")
                              /\ h[2] = On("users", Owner[r[2].row[2]], "NoKeyUpdate")
    BY <1>9 DEF Sessions
  <2>2. h \notin todo[y]
    <3>1. ASSUME h \in todo[y] PROVE FALSE
      <4>1. r[1] \in Nat /\ h[1] \in Nat
        BY <1>2, <3>1 DEF IInv, TypeOK
      <4> QED
        BY <1>2, <2>1, <3>1, <4>1
    <3> QED
      BY <3>1
  <2>3. h[2] \in held[y]
    BY <1>3, <2>1, <2>2
  <2> QED
    BY <1>1, <1>4, <1>9, <2>1, <2>3 DEF Sessions
<1> QED
  BY <1>5, <1>6, <1>7, <1>8, <1>9 DEF After

\* No cycle consists of orderly operations.
LEMMA NoOrderlyCycle ==
    ASSUME IInv, NEW C \in SUBSET Txns, Cycle(C), \A x \in C : op[x] \in Orderly
    PROVE  FALSE
<1> DEFINE m(x) == want[x][2]
<1>1. \A x \in C : \E y \in C : WaitsFor(x, y)
  BY DEF Cycle
<1>2. ASSUME NEW x \in C, NEW y \in C, WaitsFor(x, y)
      PROVE  \/ Level(m(x)) < Level(m(y))
             \/ m(x).row[1] = "role" /\ ~Shared(m(x)) /\ Shared(m(y))
             \/ /\ m(x).row[1] = "token" /\ m(y).row[1] = "token"
                /\ On("users", Owner[m(x).row[2]], "NoKeyUpdate") \in held[y]
                /\ On("users", Owner[m(y).row[2]], "NoKeyUpdate") \in held[y]
  BY <1>1, <1>2, LevelsRise
\* Two transactions that delete the sessions of one account both hold its row.
<1>3. ASSUME NEW x \in C, m(x).row[1] = "token" PROVE FALSE
  <2>1. PICK y \in C : WaitsFor(x, y)
    BY <1>1
  <2>2. /\ m(y).row[1] = "token"
        /\ On("users", Owner[m(y).row[2]], "NoKeyUpdate") \in held[y]
    BY <1>2, <1>3, <2>1 DEF Level, Shared
  <2>3. PICK z \in C : WaitsFor(y, z)
    BY <1>1
  <2>4. On("users", Owner[m(y).row[2]], "NoKeyUpdate") \in held[z]
    BY <1>2, <2>2, <2>3 DEF Level, Shared
  <2>5. z # y
    BY <2>3 DEF WaitsFor, Holds
  <2>6. Holds(z, y, On("users", Owner[m(y).row[2]], "NoKeyUpdate"))
    BY <2>4, <2>5, OnFields DEF Holds, Conflict
  <2> QED
    BY <2>2, <2>6 DEF IInv, Exclusive
<1>4. ASSUME NEW x \in C PROVE Level(m(x)) # 1
  <2>1. PICK y \in C : WaitsFor(x, y)
    BY <1>1
  <2>2. Level(m(y)) # 2
    BY <1>3 DEF Level
  <2> QED
    BY <1>2, <2>1, <2>2 DEF Level
\* Who waits for a transaction that shares a role does not share it, and that
\* transaction waits for one that shares none.
<1>5. ASSUME NEW x \in C, NEW y \in C, WaitsFor(x, y) PROVE ~Shared(m(x)) /\ Shared(m(y))
  <2>1. Level(m(x)) = 0 /\ Level(m(y)) = 0 /\ m(x).row[1] # "token"
    BY <1>3, <1>4 DEF Level
  <2> QED
    BY <1>2, <1>5, <2>1
<1>6. PICK x \in C : TRUE
  BY DEF Cycle
<1>7. PICK y \in C : WaitsFor(x, y)
  BY <1>1
<1>8. PICK z \in C : WaitsFor(y, z)
  BY <1>1
<1> QED
  BY <1>5, <1>7, <1>8

\* A deadlock takes a transaction that replaces an e-mail address, deletes a
\* role or gives and takes roles, however many are in flight.
THEOREM DeadlocksReplaceKeys == Spec => []CyclesReplaceKeys
<1>1. ASSUME IInv PROVE CyclesReplaceKeys
  <2> SUFFICES ASSUME NEW C \in SUBSET Txns, Cycle(C),
                      \A x \in C : op[x] \notin {"verify_change_email", "delete_user",
                                               "delete_role", "change_roles"}
               PROVE  FALSE
    BY DEF CyclesReplaceKeys
  <2>1. \A x \in C : op[x] \in Ops
    BY <1>1 DEF IInv, TypeOK, Cycle, WaitsFor
  <2> QED
    BY <1>1, <2>1, NoOrderlyCycle DEF Orderly
<1> QED
  BY <1>1, InitIInv, StepIInv, PTL DEF Spec

------------------------------------------------------------------------------
(***************************************************************************)
(* Nothing but a cycle stops a transaction.                                *)
(***************************************************************************)

\* A transaction that still needs rows is at one of its statements.
LEMMA SomethingDue ==
    ASSUME TypeOK, NEW x \in Txns, todo[x] # {}
    PROVE  Due(x) # {}
<1> DEFINE T == {s[1] : s \in todo[x]}
<1>1. todo[x] \in SUBSET (Nat \X Lock)
  BY DEF TypeOK
<1>2. T \subseteq Nat /\ T # {}
  BY <1>1
<1> HIDE DEF T
<1>3. PICK n \in T : \A m \in T : ~ (<<m, n>> \in OpToRel(<, Nat))
  BY <1>2, NatLessThanWellFounded, WFMin
<1>4. \A m \in T : n <= m
  <2> SUFFICES ASSUME NEW m \in T, ~(n <= m) PROVE FALSE
    OBVIOUS
  <2>1. m \in Nat /\ n \in Nat /\ m < n
    BY <1>2
  <2>2. <<m, n>> \in OpToRel(<, Nat)
    BY <2>1 DEF OpToRel
  <2> QED
    BY <1>3, <2>2
<1>5. PICK s \in todo[x] : s[1] = n
  BY <1>3 DEF T
<1>6. \A r \in todo[x] : s[1] <= r[1]
  BY <1>4, <1>5 DEF T
<1> QED
  BY <1>5, <1>6 DEF Due

\* The open transactions of a closed set that cannot go on wait for each other.
LEMMA StopShape == TypeOK => OnlyCyclesStop
<1> SUFFICES ASSUME TypeOK, NEW C \in SUBSET Txns, Closed(C),
                    NEW w \in C, op[w] # "idle",
                    \A x \in C : ~CanGo(x)
             PROVE  \E D \in SUBSET C : Cycle(D)
  BY DEF OnlyCyclesStop
<1> DEFINE D == {x \in C : op[x] # "idle"}
<1>1. ASSUME NEW x \in D PROVE \E y \in D : WaitsFor(x, y)
  <2>1. x \in Txns /\ todo[x] # {} /\ op[x] # "idle"
    BY DEF CanGo
  <2>2. want[x] # NoLock
    BY <2>1, SomethingDue DEF CanGo
  <2>3. ~Free(x, want[x][2])
    BY <2>1, <2>2 DEF CanGo
  <2>4. PICK y \in Txns : Holds(y, x, want[x][2])
    BY <2>3 DEF Free
  <2>5. y \in C
    BY <2>2, <2>4 DEF WaitsFor, Closed
  <2>6. op[y] # "idle"
    BY <2>4 DEF Holds, TypeOK
  <2> QED
    BY <2>2, <2>4, <2>5, <2>6 DEF WaitsFor
<1>2. D # {}
  OBVIOUS
<1>3. Cycle(D)
  BY <1>1, <1>2 DEF Cycle
<1> QED
  BY <1>3

\* Only a cycle stops: nobody ever waits for a transaction that is over, however
\* it ended.
THEOREM CyclesAlone == Spec => []OnlyCyclesStop
<1>1. IInv => TypeOK
  BY DEF IInv
<1> QED
  BY <1>1, StopShape, InitIInv, StepIInv, PTL DEF Spec

\* Orderly transactions never stop: among those that wait for nobody else one
\* can go on.
OrderlyGoOn ==
    \A C \in SUBSET Txns :
        /\ Closed(C) /\ \E x \in C : op[x] # "idle"
        /\ \A x \in C : op[x] \in Orderly \cup {"idle"}
        => \E x \in C : CanGo(x)

\* With orderly transactions alone PostgreSQL never has to fail one, however many
\* are in flight.
THEOREM OrderlyNeverStop == Spec => []OrderlyGoOn
<1>1. OnlyCyclesStop /\ CyclesReplaceKeys => OrderlyGoOn
  <2> SUFFICES ASSUME OnlyCyclesStop, CyclesReplaceKeys,
                      NEW C \in SUBSET Txns, Closed(C), \E x \in C : op[x] # "idle",
                      \A x \in C : op[x] \in Orderly \cup {"idle"}
               PROVE  \E x \in C : CanGo(x)
    BY DEF OrderlyGoOn
  <2>1. ASSUME NEW D \in SUBSET C, Cycle(D) PROVE FALSE
    <3>1. PICK x \in D : op[x] \in {"verify_change_email", "delete_user", "delete_role",
                                  "change_roles"}
      BY <2>1 DEF CyclesReplaceKeys
    <3> QED
      BY <3>1 DEF Orderly
  <2> QED
    BY <2>1 DEF OnlyCyclesStop
<1> QED
  BY <1>1, CyclesAlone, DeadlocksReplaceKeys, PTL

==============================================================================
