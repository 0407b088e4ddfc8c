------------------------------ MODULE LockOrder ------------------------------
(***************************************************************************)
(* The row locks that the transactions on accounts, roles and invitations  *)
(* take in PostgreSQL, and the order they take them in.  An operation is a *)
(* sequence of stages; a stage is the set of locks of one statement, taken *)
(* one at a time in any order and kept to the end of the transaction.      *)
(*                                                                         *)
(* Replacing users.email, a column of a unique index, locks the row FOR    *)
(* UPDATE; any other UPDATE of users locks it FOR NO KEY UPDATE.  INSERT   *)
(* into a table that references users locks the user's row FOR KEY SHARE,  *)
(* which only conflicts with FOR UPDATE.  DELETE locks FOR UPDATE, and so  *)
(* does, against whoever inserts the same key, an INSERT.                  *)
(***************************************************************************)
EXTENDS Naturals

CONSTANTS
    Users, Tokens, Roles,
    Owner,      \* the user of each row of refresh_tokens
    Admins,     \* bound of the model: who invites and changes roles
    Families,   \* bound of the model: sets of operations that run together
    NoLock,
    MaxStarts   \* bound of the model: transactions that are begun at all

ASSUME AdminsAssumption == Admins \subseteq Users
ASSUME OwnerAssumption == Owner \in [Tokens -> Users]
ASSUME MaxStartsAssumption == MaxStarts \in Nat

Txns == 1..MaxStarts

VARIABLES
    family,     \* the operations of this run
    op,         \* what each transaction does
    todo,       \* the locks it still has to take, each with its stage
    want,       \* the one of them it is waiting for
    held,       \* the locks it has
    starts      \* how many were begun

vars == <<family, op, todo, want, held, starts>>

\* Rows by table; the three tables of links have at most one row per user
\* (UNIQUE user_id).  The permissions of a role count as one row.
Row == ({"users", "reset_link", "email_link", "invitation"} \X Users)
         \cup ({"token"} \X Tokens)
         \cup ({"role", "role_permission"} \X Roles)
         \cup ({"user_role"} \X (Users \X Roles))
Mode == {"KeyShare", "NoKeyUpdate", "Update"}
Lock == [row : Row, mode : Mode]

On(table, key, mode) == [row |-> <<table, key>>, mode |-> mode]
SessionsOf(u) == {On("token", t, "Update") : t \in {s \in Tokens : Owner[s] = u}}

Ops == {"refresh", "login", "change_password", "reset_password", "forgot_password",
        "change_email", "verify_change_email", "delete_user", "update_role", "delete_role",
        "change_roles", "invite", "resend_invite", "accept_invite"}

ASSUME FamiliesAssumption == Families \subseteq SUBSET Ops
ASSUME NoLockAssumption == NoLock \notin Nat \X Lock

------------------------------------------------------------------------------
\* The locks of a sequence of stages, with the number of their stage.
Steps(p) == UNION {{n} \X p[n] : n \in DOMAIN p}

\* UpdateRefreshTokenUsed, then CreateRefreshToken.
Refresh(t) == << {On("token", t, "NoKeyUpdate")}, {On("users", Owner[t], "KeyShare")} >>

\* The same for the token that login finds, if it finds one.
Login(u) == {Refresh(t) : t \in {s \in Tokens : Owner[s] = u}}
              \cup {<< {On("users", u, "KeyShare")} >>}

\* Mutant of ChangePassword: the sessions are deleted before the UPDATE of users.
ChangePasswordSwapped(u) == << SessionsOf(u), {On("users", u, "NoKeyUpdate")} >>

\* UpdateUserPassword, DeleteRefreshTokensByUserID; the audit row references the
\* row that is locked already.
ChangePassword(u) == << {On("users", u, "NoKeyUpdate")}, SessionsOf(u) >>

\* UpdateUserPassword, MarkPasswordResetTokenAsUsed, DeleteRefreshTokensByUserID.
ResetPassword(u) == << {On("users", u, "NoKeyUpdate")}, {On("reset_link", u, "NoKeyUpdate")},
                       SessionsOf(u) >>

\* DeletePasswordResetTokenByUserID, CreatePasswordResetToken.
ForgotPassword(u) == << {On("reset_link", u, "Update")}, {On("users", u, "KeyShare")} >>

\* DeleteEmailChangeTokensByUserID, CreateEmailChangeToken.
ChangeEmail(u) == << {On("email_link", u, "Update")}, {On("users", u, "KeyShare")} >>

\* UpdateUserEmail, MarkEmailChangeTokenAsUsed, DeleteRefreshTokensByUserID.
VerifyChangeEmail(u) == << {On("users", u, "Update")}, {On("email_link", u, "NoKeyUpdate")},
                           SessionsOf(u) >>

\* MarkUserDeletedAndAnonymize, then InsertAuditLog with the deleting user as
\* its actor when the tenant has the audit log.
DeleteUser(by, u) == {<< {On("users", u, "Update")}, {On("users", by, "KeyShare")} >>,
                      << {On("users", u, "Update")} >>}

\* The audit row, when the tenant has the audit log, references its actor.  A
\* tenant without it ends one statement earlier.
Audit(by) == {On("users", by, "KeyShare")}

\* UpdateRole, where a new name changes the key (tenant_id, name);
\* DeleteRolePermissions; the rows inserted then are the transaction's own.
UpdateRole(by, c) == {<< {On("role", c, mode)}, {On("role_permission", c, "Update")}, Audit(by) >> :
                         mode \in {"NoKeyUpdate", "Update"}}

\* DeleteRolePermissions, DeleteRole and, by ON DELETE CASCADE, what the users
\* were given of it since CheckRoleInUse.
DeleteRole(by, c) ==
    << {On("role_permission", c, "Update")}, {On("role", c, "Update")},
       {On("user_role", <<u, c>>, "Update") : u \in Users}, Audit(by) >>

\* RemoveRolesFromUser, then AddRolesToUser: the new keys and what they
\* reference.
ChangeRoles(by, u) ==
    {<< {On("user_role", <<u, c>>, "Update") : c \in change[1]},
        {On("user_role", <<u, c>>, "Update") : c \in change[2]},
        {On("users", u, "KeyShare") : c \in change[2]}
          \cup {On("role", c, "KeyShare") : c \in change[2]},
        Audit(by) >> :
       change \in {q \in (SUBSET Roles) \X (SUBSET Roles) :
                     q[1] \cap q[2] = {} /\ q[1] \cup q[2] # {}}}

\* The new account is nobody else's row yet; AssignRoleToUser references roles.
Invite(by, given) == << {On("role", c, "KeyShare") : c \in given}, Audit(by) >>

\* DeleteInvitationTokensByUserIDAndTenantID, CreateInvitationToken.
ResendInvite(by, u) == << {On("invitation", u, "Update")}, {On("users", u, "KeyShare")}, Audit(by) >>

\* ActivateInvitedUser, MarkInvitationTokenAsUsed.
AcceptInvite(u) == << {On("users", u, "NoKeyUpdate")}, {On("invitation", u, "NoKeyUpdate")} >>

------------------------------------------------------------------------------
TypeOK ==
    /\ family \in Families
    /\ op \in [Txns -> Ops \cup {"idle"}]
    /\ todo \in [Txns -> SUBSET (Nat \X Lock)]
    /\ want \in [Txns -> (Nat \X Lock) \cup {NoLock}]
    /\ held \in [Txns -> SUBSET Lock]
    /\ starts \in 0..MaxStarts
    /\ \A x \in Txns : op[x] = "idle" => todo[x] = {} /\ want[x] = NoLock /\ held[x] = {}
    /\ \A x \in Txns : want[x] # NoLock => want[x] \in todo[x]

Init ==
    /\ family \in Families
    /\ op = [x \in Txns |-> "idle"]
    /\ todo = [x \in Txns |-> {}]
    /\ want = [x \in Txns |-> NoLock]
    /\ held = [x \in Txns |-> {}]
    /\ starts = 0

\* The lock modes of PostgreSQL that conflict.
Conflict(m, n) == "Update" \in {m, n} \/ (m = "NoKeyUpdate" /\ n = "NoKeyUpdate")

\* y holds lock l against x.
Holds(y, x, l) == y # x /\ \E k \in held[y] : k.row = l.row /\ Conflict(k.mode, l.mode)

Free(x, l) == ~\E y \in Txns : Holds(y, x, l)

WaitsFor(x, y) == want[x] # NoLock /\ Holds(y, x, want[x][2])

\* Nobody in C can go on before another one in C ends.
Cycle(C) == C # {} /\ \A x \in C : \E y \in C : WaitsFor(x, y)

\* Transactions are numbered in the order they begin.
Start(x, o, p) ==
    /\ x = starts + 1
    /\ o \in family
    /\ op' = [op EXCEPT ![x] = o]
    /\ todo' = [todo EXCEPT ![x] = Steps(p)]
    /\ starts' = starts + 1
    /\ UNCHANGED <<family, want, held>>

Begin(x) ==
    \/ \E t \in Tokens : Start(x, "refresh", Refresh(t))
    \/ \E u \in Users :
          \/ \E p \in Login(u) : Start(x, "login", p)
          \/ Start(x, "change_password", ChangePassword(u))
          \/ Start(x, "reset_password", ResetPassword(u))
          \/ Start(x, "forgot_password", ForgotPassword(u))
          \/ Start(x, "change_email", ChangeEmail(u))
          \/ Start(x, "verify_change_email", VerifyChangeEmail(u))
          \/ \E by \in Users \ {u} : \E p \in DeleteUser(by, u) : Start(x, "delete_user", p)
          \/ Start(x, "accept_invite", AcceptInvite(u))
    \/ \E by \in Admins :
          \/ \E c \in Roles :
                \/ \E p \in UpdateRole(by, c) : Start(x, "update_role", p)
                \/ Start(x, "delete_role", DeleteRole(by, c))
          \/ \E u \in Users \ {by} : \E p \in ChangeRoles(by, u) : Start(x, "change_roles", p)
          \/ \E given \in (SUBSET Roles) \ {{}} : Start(x, "invite", Invite(by, given))
          \/ \E u \in Users : Start(x, "resend_invite", ResendInvite(by, u))

\* The rows of the statement that x is at.
Due(x) == {s \in todo[x] : \A r \in todo[x] : s[1] <= r[1]}

Get(x, s) ==
    /\ Free(x, s[2])
    /\ held' = [held EXCEPT ![x] = @ \cup {s[2]}]
    /\ todo' = [todo EXCEPT ![x] = @ \ {s}]
    /\ want' = [want EXCEPT ![x] = NoLock]
    /\ UNCHANGED <<family, op, starts>>

\* A row that nobody holds against it.
Take(x) == want[x] = NoLock /\ \E s \in Due(x) : Get(x, s)

\* A row that somebody holds against it: the statement waits.
Wait(x) ==
    /\ want[x] = NoLock
    /\ \E s \in Due(x) : ~Free(x, s[2]) /\ want' = [want EXCEPT ![x] = s]
    /\ UNCHANGED <<family, op, todo, held, starts>>

Obtain(x) == want[x] # NoLock /\ Get(x, want[x])

\* Mutant of End: an early return without the deferred Rollback.
EndKeepsLocks(x) ==
    /\ op' = [op EXCEPT ![x] = "idle"]
    /\ todo' = [todo EXCEPT ![x] = {}]
    /\ want' = [want EXCEPT ![x] = NoLock]
    /\ UNCHANGED <<family, held, starts>>

\* Commit or the deferred Rollback.
End(x) ==
    /\ op' = [op EXCEPT ![x] = "idle"]
    /\ todo' = [todo EXCEPT ![x] = {}]
    /\ want' = [want EXCEPT ![x] = NoLock]
    /\ held' = [held EXCEPT ![x] = {}]
    /\ UNCHANGED <<family, starts>>

Commit(x) == op[x] # "idle" /\ todo[x] = {} /\ End(x)

\* An error between two statements: the handler returns.
Return(x) == op[x] # "idle" /\ todo[x] # {} /\ want[x] = NoLock /\ End(x)

\* PostgreSQL fails the statement of one transaction of a cycle, whose handler
\* then returns.
Victim(x) == (\E C \in SUBSET Txns : x \in C /\ Cycle(C)) /\ End(x)

Next == \E x \in Txns :
    Begin(x) \/ Take(x) \/ Wait(x) \/ Obtain(x) \/ Commit(x) \/ Return(x) \/ Victim(x)

Spec == Init /\ [][Next]_vars

\* Handlers run on and PostgreSQL detects deadlocks; nobody has to call.
Fairness == \A x \in Txns :
    WF_vars(Take(x) \/ Wait(x) \/ Obtain(x) \/ Commit(x) \/ Victim(x))

FairSpec == Spec /\ Fairness

------------------------------------------------------------------------------
\* Sign-ins, refreshes, password changes and resets, links, invitations and
\* changes of a role never deadlock with each other: a cycle takes a transaction
\* that replaces an e-mail address, deletes a role or gives and takes the roles
\* of a user.
CyclesReplaceKeys ==
    \A C \in SUBSET Txns : Cycle(C) =>
        \E x \in C : op[x] \in {"verify_change_email", "delete_user", "delete_role", "change_roles"}

\* x takes its next row, gets the one it waits for, or commits.
CanGo(x) ==
    /\ op[x] # "idle"
    /\ \/ todo[x] = {}
       \/ want[x] = NoLock /\ Due(x) # {}
       \/ want[x] # NoLock /\ Free(x, want[x][2])

\* Nobody in C waits for anybody else.
Closed(C) == \A x \in C : \A y \in Txns : WaitsFor(x, y) => y \in C

\* Whatever holds a transaction up, directly or through others, is a transaction
\* that can go on or a cycle, which PostgreSQL ends: never one that is over.
OnlyCyclesStop ==
    \A C \in SUBSET Txns :
        Closed(C) /\ (\E x \in C : op[x] # "idle") =>
            (\E x \in C : CanGo(x)) \/ (\E D \in SUBSET C : Cycle(D))

\* Once nobody calls any more every transaction ends, and no lock stays.
AllEnd == <>[](\A x \in Txns : op[x] = "idle" /\ held[x] = {})

==============================================================================
