-------------------------------- MODULE SSO --------------------------------
(***************************************************************************)
(* Single sign-on of one tenant: a sign-on stores a request and sends the  *)
(* browser to the identity provider; the provider's response consumes the  *)
(* stored request and finds, provisions or links an account by its e-mail  *)
(* address.  The callback runs its statements one by one, each its own     *)
(* transaction, so invitations, deletions, changes of address and other    *)
(* callbacks come between them.                                            *)
(*                                                                         *)
(* A person of the provider stands for the address and the persistent      *)
(* NameID the provider asserts of them.  tenants.auth_method never changes *)
(* after signup; the operator can switch the sso feature of any tenant.    *)
(***************************************************************************)
EXTENDS FiniteSets

CONSTANTS
    Methods,    \* values of auth_method that a run looks at
    People,     \* persons of the identity provider, and their addresses
    Others,     \* addresses outside the allowed domains
    Accounts,   \* bound of the model: rows of users that can be made
    Attempts,   \* bound of the model: ids of stored requests
    Requests,   \* bound of the model: handlers in flight at the same time
    Nobody, NoAccount, NoAttempt

Emails == People \cup Others

ASSUME MethodsAssumption == Methods \subseteq {"sso", "password"}
ASSUME NoneAssumption ==
    Nobody \notin Emails /\ NoAccount \notin Accounts /\ NoAttempt \notin Attempts
ASSUME EmailsAssumption == People \cap Others = {}

VARIABLES
    \* tenants
    method,     \* auth_method
    ssoOn,      \* enterprise_features.sso.enabled
    \* users
    email,      \* Nobody: no row, or <id>@deleted.invalid
    status,     \* "none": no row
    deleted,    \* deleted_at is set
    ext,        \* external_sso_id; Nobody: NULL
    born,       \* history: the request whose callback provisioned the row
    moved,      \* history: rows that confirmed a change of address
    \* sso_auth_requests
    stored,     \* request ids that have a row
    sent,       \* history: request ids given out
    entered,    \* history: sessions made by callbacks
    req         \* the handlers in flight

tenantVars == <<method, ssoOn>>
userVars == <<email, status, deleted, ext, born, moved>>
requestVars == <<stored, sent>>
vars == <<tenantVars, userVars, requestVars, entered, req>>

Steps == {"idle", "login.store", "acs.check", "acs.find", "acs.provision", "acs.activate",
          "acs.link", "acs.session", "cleanup", "invite.tx", "invite.commit", "delete.commit",
          "move.commit"}

Request == [step : Steps, attempt : Attempts \cup {NoAttempt}, email : Emails \cup {Nobody},
            account : Accounts \cup {NoAccount}, unlinked : BOOLEAN]

Idle == [step |-> "idle", attempt |-> NoAttempt, email |-> Nobody, account |-> NoAccount,
         unlinked |-> FALSE]

Sessions == [attempt : Attempts, person : People, account : Accounts]

\* Types; a row is there for every session and every provisioned account.
TypeOK ==
    /\ method \in Methods /\ ssoOn \in BOOLEAN
    /\ email \in [Accounts -> Emails \cup {Nobody}]
    /\ status \in [Accounts -> {"none", "pending", "active"}]
    /\ deleted \subseteq Accounts /\ moved \subseteq Accounts
    /\ ext \in [Accounts -> People \cup {Nobody}]
    /\ born \in [Accounts -> sent \cup {NoAttempt}]
    /\ sent \subseteq Attempts /\ stored \subseteq sent
    /\ entered \subseteq Sessions
    /\ req \in [Requests -> Request]

\* passwordTenantSignup, ssoTenantSignup: the founder's account is there, not
\* linked yet, and the feature is on in tenants that sign on with SSO.
Init ==
    /\ method \in Methods
    /\ ssoOn = (method = "sso")
    /\ \E f \in Accounts, x \in Emails :
          /\ email = [a \in Accounts |-> IF a = f THEN x ELSE Nobody]
          /\ status = [a \in Accounts |-> IF a = f THEN "active" ELSE "none"]
    /\ deleted = {} /\ moved = {}
    /\ ext = [a \in Accounts |-> Nobody]
    /\ born = [a \in Accounts |-> NoAttempt]
    /\ stored = {} /\ sent = {} /\ entered = {}
    /\ req = [r \in Requests |-> Idle]

------------------------------------------------------------------------------
Live(a) == status[a] # "none" /\ a \notin deleted

\* GetUserByEmail: no live account has the address.
Free(x) == \A a \in Accounts : Live(a) => email[a] # x

\* Mutant of Claimable: only what GetUserByEmail saw counts.
ClaimableIfFree(a, x) == a \in Accounts /\ x \in Emails

\* users.email is UNIQUE, deleted rows included; the key waits for an open
\* transaction that has inserted it.
Claimable(a, x) ==
    /\ \A b \in Accounts \ {a} : email[b] # x
    /\ \A r \in Requests : req[r].step = "invite.commit" => req[r].email # x

Unmade(a) == status[a] = "none" /\ \A r \in Requests : req[r].account # a

Start(r, rec) ==
    /\ req[r] = Idle
    /\ req' = [req EXCEPT ![r] = rec]

Become(r, step) == req' = [req EXCEPT ![r].step = step]
Finish(r) == req' = [req EXCEPT ![r] = Idle]

------------------------------------------------------------------------------
\* ssoLogin: the tenant is found by the domain, the provider's metadata fetched,
LoginRead(r) ==
    /\ ssoOn
    /\ Start(r, [Idle EXCEPT !.step = "login.store"])
    /\ UNCHANGED <<tenantVars, userVars, requestVars, entered>>

\* the request stored and the browser sent to the provider.
LoginStore(r) ==
    /\ req[r].step = "login.store"
    /\ \E q \in Attempts \ sent :
          /\ sent' = sent \cup {q}
          /\ stored' = stored \cup {q}
    /\ Finish(r)
    /\ UNCHANGED <<tenantVars, userVars, entered>>

\* Mutant of AcsTake: the row is read and left for the cleanup.
AcsTakeReading(r, q, p) ==
    /\ q \in stored
    /\ Start(r, [Idle EXCEPT !.step = "acs.check", !.attempt = q, !.email = p])
    /\ UNCHANGED <<tenantVars, userVars, requestVars, entered>>

\* Mutant of AcsTake: a response nobody asked for is taken as well.
AcsTakeUnasked(r, q, p) ==
    /\ q \in Attempts \ (sent \ stored)
    /\ stored' = stored \ {q}
    /\ Start(r, [Idle EXCEPT !.step = "acs.check", !.attempt = q, !.email = p])
    /\ UNCHANGED <<tenantVars, userVars, sent, entered>>

\* handleSSOCallback: DeleteSSORequestReturning, one statement, before anything
\* of the response is verified.  expires_at is not looked at.  Whoever is signed
\* in at the provider answers, whoever the request was for.
AcsTake(r, q, p) ==
    /\ q \in stored
    /\ stored' = stored \ {q}
    /\ Start(r, [Idle EXCEPT !.step = "acs.check", !.attempt = q, !.email = p])
    /\ UNCHANGED <<tenantVars, userVars, sent, entered>>

\* The tenant is read; metadata, signature, NameID and domain are in order.
AcsCheck(r) ==
    /\ req[r].step = "acs.check"
    /\ ssoOn
    /\ Become(r, "acs.find")
    /\ UNCHANGED <<tenantVars, userVars, requestVars, entered>>

\* Mutant of Admitted: the tenant's method is not looked at.
AdmittedAnyMethod(rec) ==
    IF FALSE THEN Idle ELSE [rec EXCEPT !.step = IF rec.unlinked THEN "acs.link" ELSE "acs.session"]

\* A known account: refused if its tenant signs in with passwords, else linked if
\* it was read without an external id.
Admitted(rec) ==
    IF method = "password" THEN Idle
    ELSE [rec EXCEPT !.step = IF rec.unlinked THEN "acs.link" ELSE "acs.session"]

\* GetUserByEmail finds the account; a pending one is activated first.
AcsFound(r, a) ==
    LET rec == [req[r] EXCEPT !.account = a, !.unlinked = (ext[a] = Nobody)]
    IN  /\ req[r].step = "acs.find"
        /\ Live(a) /\ email[a] = req[r].email
        /\ req' = [req EXCEPT ![r] = IF status[a] = "pending" THEN [rec EXCEPT !.step = "acs.activate"]
                                     ELSE Admitted(rec)]
        /\ UNCHANGED <<tenantVars, userVars, requestVars, entered>>

\* UpdateUserStatus, by id, before the method is looked at.
AcsActivate(r) ==
    /\ req[r].step = "acs.activate"
    /\ status' = [status EXCEPT ![req[r].account] = "active"]
    /\ req' = [req EXCEPT ![r] = Admitted(req[r])]
    /\ UNCHANGED <<tenantVars, email, deleted, ext, born, moved, requestVars, entered>>

\* Mutant of AcsLink: the external id is not written.
AcsLinkNothing(r) ==
    /\ req[r].step = "acs.link"
    /\ Become(r, "acs.session")
    /\ UNCHANGED <<tenantVars, userVars, requestVars, entered>>

\* UpdateUserExternalSSOID, by id.
AcsLink(r) ==
    /\ req[r].step = "acs.link"
    /\ ext' = [ext EXCEPT ![req[r].account] = req[r].email]
    /\ Become(r, "acs.session")
    /\ UNCHANGED <<tenantVars, email, status, deleted, born, moved, requestVars, entered>>

\* GetUserByEmail finds nobody ...
AcsUnknown(r) ==
    /\ req[r].step = "acs.find"
    /\ Free(req[r].email)
    /\ Become(r, "acs.provision")
    /\ UNCHANGED <<tenantVars, userVars, requestVars, entered>>

\* ... and the account is created, active and linked, whatever the method.
AcsProvision(r) ==
    /\ req[r].step = "acs.provision"
    /\ \E a \in Accounts :
          /\ Unmade(a)
          /\ Claimable(a, req[r].email)
          /\ email' = [email EXCEPT ![a] = req[r].email]
          /\ status' = [status EXCEPT ![a] = "active"]
          /\ ext' = [ext EXCEPT ![a] = req[r].email]
          /\ born' = [born EXCEPT ![a] = req[r].attempt]
          /\ req' = [req EXCEPT ![r].step = "acs.session", ![r].account = a]
    /\ UNCHANGED <<tenantVars, deleted, moved, requestVars, entered>>

\* The account's refresh token is replaced and the cookies are set; the account
\* is not read again.  The cleanup is started when the response is sent.
AcsSession(r) ==
    /\ req[r].step = "acs.session"
    /\ entered' = entered \cup
          {[attempt |-> req[r].attempt, person |-> req[r].email, account |-> req[r].account]}
    /\ req' = [req EXCEPT ![r] = [Idle EXCEPT !.step = "cleanup"]]
    /\ UNCHANGED <<tenantVars, userVars, requestVars>>

\* DeleteExpiredSSORequests, in a goroutine of its own: the requests older than
\* five minutes, which may be any of them.  Nothing else asks how old they are.
Cleanup(r) ==
    /\ req[r].step = "cleanup"
    /\ \E old \in SUBSET stored : stored' = stored \ old
    /\ Finish(r)
    /\ UNCHANGED <<tenantVars, userVars, sent, entered>>

------------------------------------------------------------------------------
\* inviteUser and inviteSSOUser: the latter asks for the feature and the domain.
InviteRead(r, x) ==
    /\ method = "sso" => ssoOn /\ x \in People
    /\ Free(x)
    /\ Start(r, [Idle EXCEPT !.step = "invite.tx", !.email = x])
    /\ UNCHANGED <<tenantVars, userVars, requestVars, entered>>

\* The row is inserted, unlinked, and a link to the sign-on leaves by mail ...
InviteMail(r) ==
    /\ req[r].step = "invite.tx"
    /\ \E a \in Accounts :
          /\ Unmade(a)
          /\ Claimable(a, req[r].email)
          /\ req' = [req EXCEPT ![r].step = "invite.commit", ![r].account = a]
    /\ UNCHANGED <<tenantVars, userVars, requestVars, entered>>

\* ... before the commit.
InviteCommit(r) ==
    LET a == req[r].account
    IN  /\ req[r].step = "invite.commit"
        /\ email' = [email EXCEPT ![a] = req[r].email]
        /\ status' = [status EXCEPT ![a] = "pending"]
        /\ Finish(r)
        /\ UNCHANGED <<tenantVars, deleted, ext, born, moved, requestVars, entered>>

\* acceptInvite, in tenants whose invitations carry a token (module Accounts).
AcceptInvite(a) ==
    /\ method = "password"
    /\ status[a] = "pending"
    /\ status' = [status EXCEPT ![a] = "active"]
    /\ UNCHANGED <<tenantVars, email, deleted, ext, born, moved, requestVars, entered, req>>

DeleteRead(r, a) ==
    /\ Live(a)
    /\ Start(r, [Idle EXCEPT !.step = "delete.commit", !.account = a])
    /\ UNCHANGED <<tenantVars, userVars, requestVars, entered>>

\* MarkUserDeletedAndAnonymize: external_sso_id and status stay.
DeleteCommit(r) ==
    LET a == req[r].account
    IN  /\ req[r].step = "delete.commit"
        /\ email' = [email EXCEPT ![a] = Nobody]
        /\ deleted' = deleted \cup {a}
        /\ Finish(r)
        /\ UNCHANGED <<tenantVars, status, ext, born, moved, requestVars, entered>>

\* verifyChangeEmail, by somebody who is signed in: SSO tenants have it too.  The
\* link is for another address than the account's own.
MoveRead(r, a, x) ==
    /\ Live(a) /\ status[a] = "active" /\ email[a] # x
    /\ method = "sso" => \E s \in entered : s.account = a
    /\ Start(r, [Idle EXCEPT !.step = "move.commit", !.account = a, !.email = x])
    /\ UNCHANGED <<tenantVars, userVars, requestVars, entered>>

\* UpdateUserEmail, by id: deleted or not.
MoveCommit(r) ==
    LET a == req[r].account
        x == req[r].email
    IN  /\ req[r].step = "move.commit"
        /\ Claimable(a, x)
        /\ email' = [email EXCEPT ![a] = x]
        /\ moved' = moved \cup {a}
        /\ Finish(r)
        /\ UNCHANGED <<tenantVars, status, deleted, ext, born, requestVars, entered>>

\* updateTenant, by the operator.
Switch ==
    /\ ssoOn' = ~ssoOn
    /\ UNCHANGED <<method, userVars, requestVars, entered, req>>

\* A refusal, an error, a lost connection or a crash: what was committed stays.
Abort(r) ==
    /\ req[r] # Idle
    /\ Finish(r)
    /\ UNCHANGED <<tenantVars, userVars, requestVars, entered>>

Next ==
    \/ \E r \in Requests :
          \/ LoginRead(r) \/ LoginStore(r) \/ Cleanup(r) \/ Abort(r)
          \/ \E q \in Attempts, p \in People : AcsTake(r, q, p)
          \/ AcsCheck(r) \/ AcsUnknown(r) \/ AcsProvision(r)
          \/ AcsActivate(r) \/ AcsLink(r) \/ AcsSession(r)
          \/ \E x \in Emails : InviteRead(r, x)
          \/ InviteMail(r) \/ InviteCommit(r) \/ DeleteCommit(r) \/ MoveCommit(r)
          \/ \E a \in Accounts : AcsFound(r, a) \/ DeleteRead(r, a)
          \/ \E a \in Accounts, x \in Emails : MoveRead(r, a, x)
    \/ \E a \in Accounts : AcceptInvite(a)
    \/ Switch

Spec == Init /\ [][Next]_vars

------------------------------------------------------------------------------
\* A stored request makes one session at most, however often its response is
\* posted: the callback that holds it is the only one and comes before the session.
EachRequestOnce ==
    \A r \in Requests : req[r].attempt # NoAttempt =>
        /\ \A s \in Requests : req[s].attempt = req[r].attempt => s = r
        /\ \A s \in entered : s.attempt # req[r].attempt

\* A person has a second live account in the tenant only after a change of
\* address: callbacks and invitations that overlap never make two.
SecondAccountOnlyAfterMove ==
    \A a, b \in Accounts :
        Live(a) /\ Live(b) /\ ext[a] = ext[b] /\ ext[a] # Nobody => a = b \/ a \in moved \/ b \in moved

\* An account is entered by the person it is linked to, although an account that
\* has an external id is found by its address alone.
AccountEnteredByItsPerson ==
    \A s \in entered : ext[s.account] = s.person \/ s.account \in moved

\* In a tenant that signs in with passwords no account is entered by SSO but the
\* one the same callback has just provisioned, even though pending accounts are
\* made active before the sign-on is refused.
PasswordTenantAdmitsOnlyProvisioned ==
    method = "password" => \A s \in entered : born[s.account] = s.attempt

\* Who has which address, and which ones open invitations have inserted.
Held == {<<email[a], a>> : a \in {b \in Accounts : email[b] # Nobody}}
Promised == {<<req[r].email, req[r].account>> :
                r \in {q \in Requests : req[q].step = "invite.commit"}}

\* The tenant's addresses are handed out as those of password tenants are: an
\* account that a callback provisions, an invitation and a change of address never
\* get one that somebody else has or is about to get.
Book == INSTANCE AddressBook WITH
    Address <- Emails, Account <- Accounts, held <- Held, promised <- Promised

KeepsAddressBook == Book!Spec

==============================================================================
