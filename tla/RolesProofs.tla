----------------------------- MODULE RolesProofs -----------------------------
(* Proofs about Roles, for any users, custom roles, resources and requests. *)
EXTENDS Roles, TLAPS

USE UserAssumption, RoleAssumption

\* What a request read is not what it writes to: it is the check that a role is
\* not in use, kept until the deletion, and the check that nobody changes their
\* own roles, kept until the change, that make the properties inductive.
IInv == TypeOK /\ DeletionsSeen /\ OthersOnly /\ RolesAsAsked

LEMMA IdleIsRequest == Idle \in Request
BY DEF Idle, Request, Steps

LEMMA InitEstablishes == Init => IInv
<1> SUFFICES ASSUME Init PROVE IInv
  OBVIOUS
<1>1. TypeOK
  BY IdleIsRequest DEF Init, TypeOK, Default, Role
<1>2. DeletionsSeen /\ OthersOnly
  BY DEF Init, DeletionsSeen, OthersOnly, Idle
<1>3. RolesAsAsked
  BY DEF Init, RolesAsAsked
<1> QED  BY <1>1, <1>2, <1>3 DEF IInv

\* A request that only looks, gives up or ends without touching the roles of
\* users keeps the invariant if what it takes in hand is right.
LEMMA LookingKeeps ==
    ASSUME IInv, NEW r \in Requests, NEW rec \in Request, Begin(r, rec),
           UNCHANGED <<assigned, wanted, disturbed>>,
           rec.step = "delete" => \A u \in Users : rec.role \notin assigned[u],
           rec.step = "set" => rec.user # rec.target /\ rec.target \in Users
    PROVE  /\ DeletionsSeen' /\ OthersOnly' /\ RolesAsAsked'
           /\ req' \in [Requests -> Request]
<1>1. /\ req'[r] = rec /\ \A q \in Requests \ {r} : req'[q] = req[q]
      /\ req' \in [Requests -> Request]
  BY DEF Begin, IInv, TypeOK
<1>2. ASSUME NEW q \in Requests, NEW u \in Users,
             req'[q].step = "delete", req'[q].role \in assigned'[u]
      PROVE  u \in disturbed'
  <2>1. q # r /\ req'[q] = req[q]
    BY <1>1, <1>2
  <2> QED  BY <1>2, <2>1 DEF IInv, DeletionsSeen
<1>3. DeletionsSeen'
  BY <1>2 DEF DeletionsSeen
<1>4. OthersOnly'
  BY <1>1 DEF IInv, OthersOnly
<1>5. RolesAsAsked'
  BY DEF IInv, RolesAsAsked
<1> QED  BY <1>1, <1>3, <1>4, <1>5

\* A request that gives roles to u keeps the invariant if u is put on record
\* whenever they are not those asked for or some role is being deleted.
LEMMA AssigningKeeps ==
    ASSUME IInv, NEW r \in Requests, Done(r), NEW u \in Users,
           NEW R \in SUBSET (Default \cup custom), NEW W \in SUBSET Role,
           assigned' = [assigned EXCEPT ![u] = R],
           wanted' = [wanted EXCEPT ![u] = W],
           disturbed' \in SUBSET Users,
           disturbed \ {u} \subseteq disturbed',
           R # W => u \in disturbed',
           Deleting => u \in disturbed',
           users' \subseteq Users, UNCHANGED <<custom, grants, rbac>>
    PROVE  IInv'
<1>1. /\ req'[r] = Idle /\ \A q \in Requests \ {r} : req'[q] = req[q]
      /\ req' \in [Requests -> Request]
  BY IdleIsRequest DEF Done, IInv, TypeOK
<1>2. /\ assigned'[u] = R /\ \A v \in Users \ {u} : assigned'[v] = assigned[v]
      /\ wanted'[u] = W /\ \A v \in Users \ {u} : wanted'[v] = wanted[v]
      /\ assigned' \in [Users -> SUBSET (Default \cup custom)]
      /\ wanted' \in [Users -> SUBSET Role]
  BY DEF IInv, TypeOK
<1>3. TypeOK'
  BY <1>1, <1>2 DEF IInv, TypeOK
<1>4. ASSUME NEW q \in Requests, NEW v \in Users,
             req'[q].step = "delete", req'[q].role \in assigned'[v]
      PROVE  v \in disturbed'
  <2>1. q # r /\ req'[q] = req[q]
    BY <1>1, <1>4 DEF Idle
  <2>2. Deleting
    BY <1>4, <2>1 DEF Deleting
  <2>3. CASE v # u
    BY <1>2, <1>4, <2>1, <2>3 DEF IInv, DeletionsSeen
  <2> QED  BY <2>2, <2>3
<1>5. DeletionsSeen'
  BY <1>4 DEF DeletionsSeen
<1>6. OthersOnly'
  BY <1>1 DEF IInv, OthersOnly, Idle
<1>7. ASSUME NEW v \in Users, assigned'[v] # wanted'[v]
      PROVE  v \in disturbed'
  BY <1>2, <1>7 DEF IInv, RolesAsAsked
<1> QED  BY <1>3, <1>5, <1>6, <1>7 DEF IInv, RolesAsAsked

LEMMA CheckingKeeps ==
    ASSUME IInv, NEW r \in Requests
    PROVE  \/ \E u \in Users : Context(r, u) \/ Remove(r, u)
           \/ Pass(r) \/ Abort(r)
           => IInv'
<1>1. req[r] \in Request
  BY DEF IInv, TypeOK
<1>2. ASSUME NEW u \in Users, Context(r, u) PROVE IInv'
  <2> DEFINE rec == [Idle EXCEPT !.step = "context", !.user = u, !.rbac = rbac]
  <2>1. rec \in Request /\ rec.step = "context"
    BY IdleIsRequest DEF Idle, Request, Steps, IInv, TypeOK
  <2>2. Begin(r, rec) /\ UNCHANGED <<users, custom, grants, assigned, rbac, wanted, disturbed>>
    BY <1>2 DEF Context
  <2> HIDE DEF rec
  <2>3. DeletionsSeen' /\ OthersOnly' /\ RolesAsAsked' /\ req' \in [Requests -> Request]
    BY <2>1, <2>2, LookingKeeps
  <2> QED  BY <2>2, <2>3 DEF IInv, TypeOK
<1>3. ASSUME NEW rec \in Request, rec.step \in {"idle", "users", "roles"}, Begin(r, rec),
             users' \subseteq Users,
             UNCHANGED <<custom, grants, assigned, rbac, wanted, disturbed>>
      PROVE  IInv'
  <2>1. DeletionsSeen' /\ OthersOnly' /\ RolesAsAsked' /\ req' \in [Requests -> Request]
    BY <1>3, LookingKeeps
  <2> QED  BY <1>3, <2>1 DEF IInv, TypeOK
<1>4. ASSUME NEW u \in Users, Remove(r, u) PROVE IInv'
  <2>1. Begin(r, Idle) /\ Idle.step = "idle" /\ users' \subseteq Users
    BY <1>4 DEF Remove, Done, Begin, Idle, IInv, TypeOK
  <2> QED  BY <1>3, <1>4, <2>1, IdleIsRequest DEF Remove
<1>5. ASSUME Abort(r) PROVE IInv'
  <2>1. Begin(r, Idle) /\ Idle.step = "idle" /\ users' \subseteq Users
    BY <1>5 DEF Abort, Done, Begin, Idle, IInv, TypeOK
  <2> QED  BY <1>3, <1>5, <2>1, IdleIsRequest DEF Abort
<1>6. ASSUME Pass(r) PROVE IInv'
  <2>1. PICK s \in {"users", "roles"} : Begin(r, [req[r] EXCEPT !.step = s])
    BY <1>6 DEF Pass
  <2> DEFINE rec == [req[r] EXCEPT !.step = s]
  <2>2. rec \in Request /\ rec.step = s
    BY <1>1 DEF Request, Steps
  <2>3. users' \subseteq Users
    BY <1>6 DEF Pass, IInv, TypeOK
  <2>4. Begin(r, rec)
    BY <2>1
  <2> HIDE DEF rec
  <2> QED  BY <1>3, <1>6, <2>2, <2>3, <2>4 DEF Pass
<1> QED  BY <1>2, <1>4, <1>5, <1>6

LEMMA UserWritingKeeps ==
    ASSUME IInv, NEW r \in Requests
    PROVE  \/ \E u \in Users, R \in Choices : Invite(r, u, R) \/ SetRead(r, u, R)
           \/ SetCommit(r)
           => IInv'
<1>1. req[r] \in Request
  BY DEF IInv, TypeOK
<1>2. ASSUME NEW u \in Users, NEW R \in Choices, Invite(r, u, R) PROVE IInv'
  <2>1. /\ R \in SUBSET (Default \cup custom) /\ R \in SUBSET Role
        /\ users' \subseteq Users
        /\ disturbed' \in SUBSET Users /\ disturbed \ {u} \subseteq disturbed'
        /\ Deleting => u \in disturbed'
    BY <1>2, ChoiceAssumption DEF Invite, IInv, TypeOK
  <2> QED  BY <1>2, <2>1, AssigningKeeps DEF Invite
<1>3. ASSUME NEW u \in Users, NEW R \in Choices, SetRead(r, u, R) PROVE IInv'
  <2> DEFINE rec == [req[r] EXCEPT !.step = "set", !.target = u, !.wish = R, !.current = assigned[u]]
  <2>1. R \in SUBSET Role /\ assigned[u] \in SUBSET Role
    BY ChoiceAssumption DEF IInv, TypeOK, Role
  <2>2. rec \in Request /\ rec.step = "set" /\ rec.user = req[r].user /\ rec.target = u
    BY <1>1, <2>1 DEF Request, Steps
  <2>3. /\ Begin(r, rec) /\ req[r].user # u
        /\ UNCHANGED <<users, custom, grants, assigned, rbac, wanted, disturbed>>
    BY <1>3 DEF SetRead
  <2> HIDE DEF rec
  <2>4. DeletionsSeen' /\ OthersOnly' /\ RolesAsAsked' /\ req' \in [Requests -> Request]
    BY <2>2, <2>3, LookingKeeps
  <2> QED  BY <2>3, <2>4 DEF IInv, TypeOK
<1>4. ASSUME SetCommit(r) PROVE IInv'
  <2> DEFINE u == req[r].target
             W == req[r].wish
             C == req[r].current
             R == (assigned[u] \ (C \ W)) \cup (W \ C)
  <2>1. u \in Users
    BY <1>4 DEF SetCommit, IInv, OthersOnly
  <2>2. W \in SUBSET Role
    BY <1>1 DEF Request
  <2>3. R \in SUBSET (Default \cup custom)
    BY <1>4, <2>1 DEF SetCommit, IInv, TypeOK
  <2>4. assigned' = [assigned EXCEPT ![u] = R] /\ wanted' = [wanted EXCEPT ![u] = W]
    BY <1>4, <2>1 DEF SetCommit, IInv, TypeOK
  <2>5. disturbed' = IF Deleting \/ assigned[u] # C
                     THEN disturbed \cup {u} ELSE disturbed \ {u}
    BY <1>4 DEF SetCommit
  <2>6. /\ Done(r) /\ users' \subseteq Users /\ UNCHANGED <<custom, grants, rbac>>
        /\ disturbed' \in SUBSET Users /\ disturbed \ {u} \subseteq disturbed'
        /\ Deleting => u \in disturbed'
    BY <1>4, <2>1, <2>5 DEF SetCommit, IInv, TypeOK
  <2>7. R # W => u \in disturbed'
    <3>1. assigned[u] = C => R = W
      OBVIOUS
    <3> QED  BY <2>5, <3>1
  <2> HIDE DEF u, W, R
  <2> QED  BY <2>1, <2>2, <2>3, <2>4, <2>6, <2>7, AssigningKeeps
<1> QED  BY <1>2, <1>3, <1>4

LEMMA RoleWritingKeeps ==
    ASSUME IInv, NEW r \in Requests
    PROVE  \/ \E c \in Custom, P \in Bundles : Create(r, c, P) \/ Update(r, c, P)
           \/ \E c \in Custom : DeleteRead(r, c)
           \/ DeleteCommit(r)
           => IInv'
<1>1. req[r] \in Request /\ users \subseteq Users
  BY DEF IInv, TypeOK
<1>2. Begin(r, Idle) /\ Idle.step = "idle"
      <=> Done(r)
  BY DEF Begin, Done, Idle
<1>3. ASSUME NEW c \in Custom, NEW P \in Bundles, Create(r, c, P) \/ Update(r, c, P)
      PROVE  IInv'
  <2>1. Begin(r, Idle) /\ Idle.step = "idle"
    BY <1>2, <1>3 DEF Create, Update
  <2>2. DeletionsSeen' /\ OthersOnly' /\ RolesAsAsked' /\ req' \in [Requests -> Request]
    BY <1>3, <2>1, IdleIsRequest, LookingKeeps DEF Create, Update
  <2>3. custom \subseteq custom' /\ custom' \subseteq Custom /\ c \in custom'
    BY <1>3 DEF Create, Update, IInv, TypeOK
  <2>4. grants' = [grants EXCEPT ![c] = P] /\ P \subseteq Permission
    BY <1>3, BundleAssumption DEF Create, Update
  <2>5. /\ grants' \in [Custom -> SUBSET Permission]
        /\ \A d \in Custom \ custom' : grants'[d] = {}
    BY <2>3, <2>4 DEF IInv, TypeOK
  <2>6. assigned' \in [Users -> SUBSET (Default \cup custom')]
    BY <1>3, <2>3 DEF Create, Update, IInv, TypeOK
  <2>7. /\ users' \subseteq Users /\ rbac' \in BOOLEAN
        /\ wanted' \in [Users -> SUBSET Role] /\ disturbed' \subseteq Users
    BY <1>3 DEF Create, Update, IInv, TypeOK
  <2> QED  BY <2>2, <2>3, <2>5, <2>6, <2>7 DEF IInv, TypeOK
<1>4. ASSUME NEW c \in Custom, DeleteRead(r, c) PROVE IInv'
  <2> DEFINE rec == [req[r] EXCEPT !.step = "delete", !.role = c]
  <2>1. rec \in Request /\ rec.step = "delete" /\ rec.role = c
    BY <1>1 DEF Request, Steps
  <2>2. /\ Begin(r, rec) /\ \A u \in Users : c \notin assigned[u]
        /\ UNCHANGED <<users, custom, grants, assigned, rbac, wanted, disturbed>>
    BY <1>4 DEF DeleteRead
  <2> HIDE DEF rec
  <2>3. DeletionsSeen' /\ OthersOnly' /\ RolesAsAsked' /\ req' \in [Requests -> Request]
    BY <2>1, <2>2, LookingKeeps
  <2> QED  BY <2>2, <2>3 DEF IInv, TypeOK
<1>5. ASSUME DeleteCommit(r) PROVE IInv'
  <2> DEFINE c == req[r].role
  <2>1. /\ req'[r] = Idle /\ \A q \in Requests \ {r} : req'[q] = req[q]
        /\ req' \in [Requests -> Request]
    BY <1>5, IdleIsRequest DEF DeleteCommit, Done, IInv, TypeOK
  <2>2. /\ custom' = custom \ {c} /\ UNCHANGED <<users, rbac, wanted, disturbed>>
        /\ assigned' = [u \in Users |-> assigned[u] \ {c}]
        /\ grants' = [d \in Custom |-> IF d = c THEN {} ELSE grants[d]]
        /\ req[r].step = "delete"
    BY <1>5 DEF DeleteCommit
  <2>3. c \in Custom \cup {NoRole}
    BY <1>1 DEF Request
  <2> HIDE DEF c
  <2>4. TypeOK'
    BY <2>1, <2>2, <2>3 DEF IInv, TypeOK
  <2>5. ASSUME NEW q \in Requests, NEW u \in Users,
               req'[q].step = "delete", req'[q].role \in assigned'[u]
        PROVE  u \in disturbed'
    <3>1. q # r /\ req'[q] = req[q]
      BY <2>1, <2>5 DEF Idle
    <3> QED  BY <2>2, <2>5, <3>1 DEF IInv, DeletionsSeen
  <2>6. OthersOnly'
    BY <2>1 DEF IInv, OthersOnly, Idle
  <2>7. ASSUME NEW u \in Users, assigned'[u] # wanted'[u]
        PROVE  u \in disturbed'
    <3>1. CASE c \in assigned[u]
      BY <2>2, <3>1 DEF IInv, DeletionsSeen, c
    <3>2. CASE c \notin assigned[u]
      BY <2>2, <2>7, <3>2 DEF IInv, RolesAsAsked
    <3> QED  BY <3>1, <3>2
  <2> QED  BY <2>4, <2>5, <2>6, <2>7 DEF IInv, DeletionsSeen, RolesAsAsked
<1> QED  BY <1>3, <1>4, <1>5

LEMMA StepKeeps == IInv /\ [Next]_vars => IInv'
<1> SUFFICES ASSUME IInv, [Next]_vars PROVE IInv'
  OBVIOUS
<1>1. ASSUME Switch PROVE IInv'
  BY <1>1 DEF Switch, IInv, TypeOK, DeletionsSeen, OthersOnly, RolesAsAsked
<1>2. CASE UNCHANGED vars
  BY <1>2 DEF vars, IInv, TypeOK, DeletionsSeen, OthersOnly, RolesAsAsked
<1>3. CASE Next
  BY <1>1, <1>3, CheckingKeeps, UserWritingKeeps, RoleWritingKeeps DEF Next
<1> QED  BY <1>2, <1>3

LEMMA Invariance == Spec => []IInv
BY InitEstablishes, StepKeeps, PTL DEF Spec

\* The state is well typed: nobody has a custom role that does not exist, and a
\* role that does not exist grants nothing (the cascades of deleteRole).
THEOREM RoleTypes == Spec => []TypeOK
BY Invariance, PTL DEF IInv

\* updateUserRoles leaves a user with exactly the roles asked for unless it
\* worked from a stale read or a role was being deleted.
THEOREM RolesOnlyLostByRace == Spec => []RolesAsAsked
BY Invariance, PTL DEF IInv

\* The two fallbacks agree, because setupDefaultRoles gives the viewer role no
\* permission at all: a fact about the data that makes two queries equivalent.
THEOREM FallbacksAgree == Spec => []EnforcedAsShown
<1>1. EnforcedAsShown
  <2>1. DefaultGrants("viewer") = {}
    BY DEF DefaultGrants
  <2>2. \A p : ~Meets({}, p)
    BY DEF Meets
  <2>3. \A u, on : Shown(u, on) = Effective(u, on)
    BY <2>1 DEF Shown
  <2>4. \A u, p, on : UserHasPermission(u, p, on) <=> Meets(Effective(u, on), p)
    BY <2>1, <2>2 DEF UserHasPermission
  <2> QED  BY <2>3, <2>4 DEF EnforcedAsShown
<1> QED  BY <1>1, PTL

\* A request that is not r's leaves r where it is.
LEMMA OnlyTheActorEnds ==
    ASSUME IInv, NEW r \in Requests, NEW q \in Requests, NEW rec, Begin(q, rec),
           req'[r] # req[r]
    PROVE  q = r
BY DEF Begin, IInv, TypeOK

\* What an end of r's request leaves of the right of its user to manage users.
LEMMA ManagerKeeps ==
    ASSUME NEW v, v \in users', assigned'[v] = assigned[v],
           UNCHANGED <<grants, rbac>>, Manages(v)
    PROVE  Manages(v)'
<1>1. Effective(v, rbac)' = Effective(v, rbac)
  BY DEF Effective, GrantsOf
<1>2. UserHasPermission(v, EditUsers, rbac)' = UserHasPermission(v, EditUsers, rbac)
  BY <1>1 DEF UserHasPermission
<1> QED  BY <1>2 DEF Manages

\* Changing and deleting users leaves somebody to manage them, for the one who
\* does it can do neither to themselves.
THEOREM ManagersStay == Spec => LastManagerStays
<1>1. ASSUME IInv, Next, NEW r \in Requests,
             req[r].step \in {"users", "set"}, req'[r].step = "idle",
             Manages(req[r].user)
      PROVE  \E u \in Users : Manages(u)'
  <2>0. PICK v \in Users : v = req[r].user /\ Manages(v)
    BY <1>1 DEF Manages, IInv, TypeOK
  <2>1. v \in users /\ req'[r] # req[r]
    BY <1>1, <2>0 DEF Manages
  <2>2. ASSUME v \in users', assigned'[v] = assigned[v], UNCHANGED <<grants, rbac>>
        PROVE  \E u \in Users : Manages(u)'
    <3>1. Manages(v)'
      BY <2>0, <2>2, ManagerKeeps
    <3> QED  BY <3>1
  <2>3. ASSUME NEW q \in Requests, NEW rec, Begin(q, rec)
        PROVE  q = r
    BY <1>1, <2>1, <2>3, OnlyTheActorEnds
  <2>4. ASSUME NEW q \in Requests, Done(q)
        PROVE  q = r
    BY <2>3, <2>4 DEF Done, Begin
  <2>5. ASSUME NEW q \in Requests, NEW u \in Users, Context(q, u)
        PROVE  FALSE
    BY <1>1, <2>3, <2>5 DEF Context
  <2>6. ASSUME NEW q \in Requests, NEW u \in Users, Remove(q, u)
        PROVE  \E w \in Users : Manages(w)'
    <3>1. q = r
      BY <2>4, <2>6 DEF Remove
    <3> QED  BY <2>0, <2>1, <2>2, <2>6, <3>1 DEF Remove
  <2>7. ASSUME NEW q \in Requests, Pass(q)
        PROVE  FALSE
    BY <1>1, <2>3, <2>7 DEF Pass, Begin, IInv, TypeOK
  <2>8. ASSUME NEW q \in Requests, NEW u \in Users, NEW R \in Choices, Invite(q, u, R)
        PROVE  \E w \in Users : Manages(w)'
    <3>1. u # v /\ v \in users' /\ UNCHANGED <<grants, rbac>>
      BY <2>1, <2>8 DEF Invite
    <3>2. assigned'[v] = assigned[v]
      BY <1>1, <2>1, <2>8, <3>1 DEF Invite, IInv, TypeOK
    <3> QED  BY <2>2, <3>1, <3>2
  <2>9. ASSUME NEW q \in Requests, NEW u \in Users, NEW R \in Choices, SetRead(q, u, R)
        PROVE  FALSE
    <3>1. q = r
      BY <2>3, <2>9 DEF SetRead
    <3>2. req'[r].step = "set"
      BY <1>1, <2>9, <3>1 DEF SetRead, Begin, IInv, TypeOK, Request
    <3> QED  BY <1>1, <3>2
  <2>10. ASSUME NEW q \in Requests, SetCommit(q)
         PROVE  \E w \in Users : Manages(w)'
    <3>1. q = r
      BY <2>4, <2>10 DEF SetCommit
    <3>2. req[r].target # v /\ users' = users /\ UNCHANGED <<grants, rbac>>
      BY <1>1, <2>0, <2>10, <3>1 DEF SetCommit, IInv, OthersOnly
    <3>3. assigned'[v] = assigned[v]
      BY <1>1, <2>1, <2>10, <3>1, <3>2 DEF SetCommit, IInv, TypeOK
    <3> QED  BY <2>1, <2>2, <3>2, <3>3
  <2>11. ASSUME NEW q \in Requests, NEW c \in Custom, NEW P \in Bundles,
                Create(q, c, P) \/ Update(q, c, P)
         PROVE  FALSE
    BY <1>1, <2>4, <2>11 DEF Create, Update
  <2>12. ASSUME NEW q \in Requests, NEW c \in Custom, DeleteRead(q, c)
         PROVE  FALSE
    BY <1>1, <2>3, <2>12 DEF DeleteRead
  <2>13. ASSUME NEW q \in Requests, DeleteCommit(q)
         PROVE  FALSE
    BY <1>1, <2>4, <2>13 DEF DeleteCommit
  <2>14. ASSUME NEW q \in Requests, Abort(q)
         PROVE  \E w \in Users : Manages(w)'
    BY <2>1, <2>2, <2>14 DEF Abort
  <2>15. ASSUME Switch
         PROVE  FALSE
    BY <2>1, <2>15 DEF Switch
  <2> QED  BY <1>1, <2>5, <2>6, <2>7, <2>8, <2>9, <2>10, <2>11, <2>12, <2>13, <2>14, <2>15 DEF Next
<1>2. IInv /\ [Next]_vars => [ManagerRemains]_vars
  BY <1>1 DEF ManagerRemains
<1> QED  BY <1>2, Invariance, PTL DEF Spec, LastManagerStays
==============================================================================
