-------------------------------- MODULE Roles --------------------------------
(***************************************************************************)
(* Roles and permissions of one tenant: the default roles that signup      *)
(* makes, custom roles, who has which, and what the database answers when  *)
(* a request asks for a permission or the frontend asks what to show.      *)
(*                                                                         *)
(* A request reads the RBAC switch, then is checked for a permission, then *)
(* reads what it needs, and only then begins the transaction that writes.  *)
(***************************************************************************)
EXTENDS Naturals, FiniteSets

CONSTANTS
    Users,      \* the users the tenant will ever have
    Founder,    \* the one who signed up
    Custom,     \* identifiers of custom roles; free for reuse once unknown
    Resources,  \* resources a permission may be about
    ViewOnly,   \* those that cannot be edited (audit_log)
    Choices,    \* bound of the model: the role sets that requests ask for
    Bundles,    \* bound of the model: the permission sets of custom roles
    Requests,   \* bound of the model: requests at a time
    NoUser, NoRole

Default == {"admin", "editor", "viewer"}
Role == Default \cup Custom
Permission == (Resources \X {"view"}) \cup ((Resources \ ViewOnly) \X {"edit"})
EditUsers == <<"users", "edit">>
EditRoles == <<"roles", "edit">>

ASSUME UserAssumption == Founder \in Users /\ NoUser \notin Users
ASSUME RoleAssumption == Custom \cap (Default \cup {NoRole}) = {} /\ NoRole \notin Default
ASSUME ResourceAssumption == {"users", "roles"} \subseteq Resources \ ViewOnly
ASSUME ChoiceAssumption == Choices \subseteq (SUBSET Role) \ {{}}
ASSUME BundleAssumption == Bundles \subseteq SUBSET Permission

VARIABLES
    users,      \* users of the tenant that are not deleted
    custom,     \* the custom roles there are
    grants,     \* role_permissions of each
    assigned,   \* user_roles, deleted users included
    rbac,       \* the RBAC switch
    req,        \* requests in flight
    wanted,     \* the roles last asked for, for each user
    disturbed   \* users whose roles were written from a stale read, or while
                \* a role was being deleted

vars == <<users, custom, grants, assigned, rbac, req, wanted, disturbed>>

Steps == {"idle", "context", "users", "roles", "set", "delete"}
Request == [step : Steps, user : Users \cup {NoUser}, rbac : BOOLEAN,
            target : Users \cup {NoUser}, role : Custom \cup {NoRole},
            wish : SUBSET Role, current : SUBSET Role]
Idle == [step |-> "idle", user |-> NoUser, rbac |-> FALSE, target |-> NoUser,
         role |-> NoRole, wish |-> {}, current |-> {}]

------------------------------------------------------------------------------
\* Mutant of DefaultGrants: the viewer role may view, as its name says.
DefaultGrantsViewerViews(r) ==
    IF r = "admin" THEN (Resources \ ViewOnly) \X {"edit"}
    ELSE IF r = "viewer" THEN Resources \X {"view"}
    ELSE {}

\* setupDefaultRoles: only the first of the three roles is given permissions.
DefaultGrants(r) == IF r = "admin" THEN (Resources \ ViewOnly) \X {"edit"} ELSE {}

GrantsOf(r) == IF r \in Custom THEN grants[r] ELSE DefaultGrants(r)

\* With RBAC off only default roles count.
Effective(u, on) == UNION {GrantsOf(r) : r \in IF on THEN assigned[u] ELSE assigned[u] \cap Default}

\* Edit implies view.
Meets(P, p) == p \in P \/ (p[2] = "view" /\ <<p[1], "edit">> \in P)

\* UserHasPermission falls back to the viewer role for the permission asked.
UserHasPermission(u, p, on) ==
    \/ Meets(Effective(u, on), p)
    \/ ~Meets(Effective(u, on), p) /\ Meets(DefaultGrants("viewer"), p)

\* GetUserPermissionsWithFallback does so only for a user with no permission.
Shown(u, on) == IF Effective(u, on) = {} THEN DefaultGrants("viewer") ELSE Effective(u, on)

Manages(u) == u \in users /\ UserHasPermission(u, EditUsers, rbac)

------------------------------------------------------------------------------
TypeOK ==
    /\ users \subseteq Users
    /\ custom \subseteq Custom
    /\ grants \in [Custom -> SUBSET Permission]
    /\ \A c \in Custom \ custom : grants[c] = {}
    /\ assigned \in [Users -> SUBSET (Default \cup custom)]
    /\ rbac \in BOOLEAN
    /\ req \in [Requests -> Request]
    /\ wanted \in [Users -> SUBSET Role]
    /\ disturbed \subseteq Users

Init ==
    /\ users = {Founder}
    /\ custom = {}
    /\ grants = [c \in Custom |-> {}]
    /\ assigned = [u \in Users |-> IF u = Founder THEN {"admin"} ELSE {}]
    /\ rbac \in BOOLEAN
    /\ req = [r \in Requests |-> Idle]
    /\ wanted = assigned
    /\ disturbed = {}

Begin(r, rec) == req' = [req EXCEPT ![r] = rec]
Done(r) == req' = [req EXCEPT ![r] = Idle]
Deleting == \E q \in Requests : req[q].step = "delete"

\* LoadTenantAndUserContext.
Context(r, u) ==
    /\ req[r].step = "idle" /\ u \in users
    /\ Begin(r, [Idle EXCEPT !.step = "context", !.user = u, !.rbac = rbac])
    /\ UNCHANGED <<users, custom, grants, assigned, rbac, wanted, disturbed>>

\* RequireUsersEdit; RequireRBAC and RequireRolesEdit.
Pass(r) ==
    /\ req[r].step = "context"
    /\ \/ /\ UserHasPermission(req[r].user, EditUsers, req[r].rbac)
          /\ Begin(r, [req[r] EXCEPT !.step = "users"])
       \/ /\ req[r].rbac
          /\ UserHasPermission(req[r].user, EditRoles, TRUE)
          /\ Begin(r, [req[r] EXCEPT !.step = "roles"])
    /\ UNCHANGED <<users, custom, grants, assigned, rbac, wanted, disturbed>>

------------------------------------------------------------------------------
\* inviteUser: roles are validated and assigned in one transaction.
Invite(r, u, R) ==
    /\ req[r].step = "users"
    /\ u \notin users /\ assigned[u] = {}
    /\ R \subseteq Default \cup custom
    /\ users' = users \cup {u}
    /\ assigned' = [assigned EXCEPT ![u] = R]
    /\ wanted' = [wanted EXCEPT ![u] = R]
    /\ disturbed' = IF Deleting THEN disturbed \cup {u} ELSE disturbed
    /\ Done(r)
    /\ UNCHANGED <<custom, grants, rbac>>

\* Mutant of SetRead: a user may change their own roles.
SetReadSelf(r, u, R) ==
    /\ req[r].step = "users"
    /\ u \in users
    /\ R \subseteq Default \cup custom
    /\ Begin(r, [req[r] EXCEPT !.step = "set", !.target = u, !.wish = R, !.current = assigned[u]])
    /\ UNCHANGED <<users, custom, grants, assigned, rbac, wanted, disturbed>>

\* updateUserRoles up to Begin: nothing it reads is locked.
SetRead(r, u, R) ==
    /\ req[r].step = "users"
    /\ u \in users \ {req[r].user}
    /\ R \subseteq Default \cup custom
    /\ Begin(r, [req[r] EXCEPT !.step = "set", !.target = u, !.wish = R, !.current = assigned[u]])
    /\ UNCHANGED <<users, custom, grants, assigned, rbac, wanted, disturbed>>

\* The differences are applied to whatever is there by now.  A role that is
\* gone (foreign key) or one the user already got (primary key) fails it all.
SetCommit(r) ==
    LET u == req[r].target
        toAdd == req[r].wish \ req[r].current
        toRemove == req[r].current \ req[r].wish
    IN  /\ req[r].step = "set"
        /\ toAdd \subseteq Default \cup custom /\ toAdd \cap assigned[u] = {}
        /\ assigned' = [assigned EXCEPT ![u] = (@ \ toRemove) \cup toAdd]
        /\ wanted' = [wanted EXCEPT ![u] = req[r].wish]
        /\ disturbed' = IF Deleting \/ assigned[u] # req[r].current
                        THEN disturbed \cup {u} ELSE disturbed \ {u}
        /\ Done(r)
        /\ UNCHANGED <<users, custom, grants, rbac>>

\* deleteUser.  Between its read and its commit there is nothing another request
\* could change for it; the roles of a deleted user stay.
Remove(r, u) ==
    /\ req[r].step = "users"
    /\ u \in users \ {req[r].user}
    /\ users' = users \ {u}
    /\ Done(r)
    /\ UNCHANGED <<custom, grants, assigned, rbac, wanted, disturbed>>

------------------------------------------------------------------------------
Known(c) == c \in custom \/ \E q \in Requests : req[q].role = c \/ c \in req[q].wish

\* createRole reads nothing but the fixed table of permissions.
Create(r, c, P) ==
    /\ req[r].step = "roles"
    /\ ~Known(c) /\ P # {}
    /\ custom' = custom \cup {c}
    /\ grants' = [grants EXCEPT ![c] = P]
    /\ Done(r)
    /\ UNCHANGED <<users, assigned, rbac, wanted, disturbed>>

\* updateRole refuses default roles.  Its row lock puts two updates one after the
\* other, and a role that is gone by the time it writes changes nothing.
Update(r, c, P) ==
    /\ req[r].step = "roles" /\ c \in custom
    /\ grants' = [grants EXCEPT ![c] = P]
    /\ Done(r)
    /\ UNCHANGED <<users, custom, assigned, rbac, wanted, disturbed>>

\* Mutant of DeleteRead: a role in use may be deleted.
DeleteReadInUse(r, c) ==
    /\ req[r].step = "roles" /\ c \in custom
    /\ Begin(r, [req[r] EXCEPT !.step = "delete", !.role = c])
    /\ UNCHANGED <<users, custom, grants, assigned, rbac, wanted, disturbed>>

DeleteRead(r, c) ==
    /\ req[r].step = "roles" /\ c \in custom
    /\ \A u \in Users : c \notin assigned[u]
    /\ Begin(r, [req[r] EXCEPT !.step = "delete", !.role = c])
    /\ UNCHANGED <<users, custom, grants, assigned, rbac, wanted, disturbed>>

\* Mutant of DeleteCommit: assignments do not go with the role.
DeleteCommitNoCascade(r) ==
    /\ req[r].step = "delete"
    /\ custom' = custom \ {req[r].role}
    /\ grants' = [c \in Custom |-> IF c = req[r].role THEN {} ELSE grants[c]]
    /\ Done(r)
    /\ UNCHANGED <<users, assigned, rbac, wanted, disturbed>>

\* The assignments made since the check go with the role (ON DELETE CASCADE).
DeleteCommit(r) ==
    /\ req[r].step = "delete"
    /\ custom' = custom \ {req[r].role}
    /\ grants' = [c \in Custom |-> IF c = req[r].role THEN {} ELSE grants[c]]
    /\ assigned' = [u \in Users |-> assigned[u] \ {req[r].role}]
    /\ Done(r)
    /\ UNCHANGED <<users, rbac, wanted, disturbed>>

------------------------------------------------------------------------------
\* giratina switches RBAC.
Switch ==
    /\ rbac' = ~rbac
    /\ UNCHANGED <<users, custom, grants, assigned, req, wanted, disturbed>>

\* Refused, or failed (the deferred Rollback).
Abort(r) ==
    /\ req[r].step # "idle"
    /\ Done(r)
    /\ UNCHANGED <<users, custom, grants, assigned, rbac, wanted, disturbed>>

Next ==
    \/ \E r \in Requests :
          \/ \E u \in Users : Context(r, u) \/ Remove(r, u)
          \/ Pass(r)
          \/ \E u \in Users, R \in Choices : Invite(r, u, R) \/ SetRead(r, u, R)
          \/ SetCommit(r)
          \/ \E c \in Custom, P \in Bundles : Create(r, c, P) \/ Update(r, c, P)
          \/ \E c \in Custom : DeleteRead(r, c)
          \/ DeleteCommit(r) \/ Abort(r)
    \/ Switch

Spec == Init /\ [][Next]_vars

------------------------------------------------------------------------------
\* A role about to be deleted is in use only by users known to be disturbed.
DeletionsSeen == \A r \in Requests, u \in Users :
    req[r].step = "delete" /\ req[r].role \in assigned[u] => u \in disturbed

\* Nobody is about to change their own roles.
OthersOnly == \A r \in Requests : req[r].step = "set" =>
    /\ req[r].user # req[r].target
    /\ req[r].target \in Users

\* A user has exactly the roles last asked for, unless these were worked out
\* from a stale read or a role was being deleted meanwhile: no role is left
\* over, lost, or lost to a deletion that did not see it in use.
RolesAsAsked == \A u \in Users : assigned[u] # wanted[u] => u \in disturbed

\* What the frontend shows a user is what the middleware lets them do, with
\* RBAC on or off, although the two queries fall back to the viewer role under
\* different conditions.
EnforcedAsShown == \A u \in Users, p \in Permission, on \in BOOLEAN :
    UserHasPermission(u, p, on) <=> Meets(Shown(u, on), p)

ManagerRemains == \A r \in Requests :
    /\ req[r].step \in {"users", "set"} /\ req'[r].step = "idle"
    /\ Manages(req[r].user)
    => \E u \in Users : Manages(u)'

\* Changing and deleting users never takes the last user manager away, unless
\* the one who does it has lost the right to since the check.
LastManagerStays == [][ManagerRemains]_vars

\* docs/features/rbac.md: `When RBAC is off, only default roles are used. Custom
\* roles cannot be created or assigned.'
NoCustomWhileOff == [][\A r \in Requests :
    /\ req[r].step \in {"users", "set"} /\ ~req[r].rbac /\ ~rbac
    => \A u \in Users : assigned'[u] \cap Custom \subseteq assigned[u]]_vars

==============================================================================
