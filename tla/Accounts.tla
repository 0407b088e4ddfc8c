------------------------------ MODULE Accounts ------------------------------
(***************************************************************************)
(* How accounts of password tenants come into being, who holds an e-mail   *)
(* address, and the links that are mailed on the way: invitations of       *)
(* users, links that confirm a new address or reset a password.            *)
(*                                                                         *)
(* users.email is UNIQUE: an INSERT or UPDATE of a key that another open   *)
(* transaction has written waits for its end, and fails if the key is then *)
(* taken.  A handler is cut where another one's commit can come between    *)
(* what it read and what it writes, and where its mail leaves before its   *)
(* transaction has committed.  The administrators who invite and delete    *)
(* are accounts outside the model.                                         *)
(***************************************************************************)
EXTENDS Naturals, FiniteSets

CONSTANTS
    Accounts,       \* bound of the model: rows of users that can be made
    Emails,         \* addresses
    Invites,        \* bound of the model: invitation tokens that can be made
    ChangeLinks,    \* bound of the model: e-mail change tokens
    ResetLinks,     \* identifiers of reset links; free for reuse once nobody knows them
    Requests,       \* bound of the model: handlers in flight at the same time
    NoAccount, NoEmail, NoLink

Links == Invites \cup ChangeLinks \cup ResetLinks

ASSUME NoneAssumption ==
    NoAccount \notin Accounts /\ NoEmail \notin Emails /\ NoLink \notin Links
ASSUME KindsAssumption ==
    Invites \cap ChangeLinks = {} /\ ResetLinks \cap (Invites \cup ChangeLinks) = {}

VARIABLES
    \* users
    email,      \* NoEmail: no row, or <id>@deleted.invalid
    status,     \* "none": no row
    deleted,    \* deleted_at is set
    password,   \* the hash: "none" (initial, invalid), or one of two, so that an
                \* acceptance that replaces one can be seen
    \* invitation_tokens
    inviteOf,   \* the row of each account (UNIQUE tenant_id, user_id)
    mailed,     \* history: the invitations that left by mail, committed or not
    accepted,   \* used_at is set, if the row still exists
    \* email_change_tokens and password_reset_tokens
    changeOf,   \* the row of each account (UNIQUE user_id)
    target,     \* the address each link is for; NoEmail: not issued yet
    verified,   \* used_at is set, if the row still exists
    resetOf,    \* the reset link of each account, if it works: neither used nor expired
    expired,    \* invitations and e-mail change tokens
    req         \* the handlers in flight

userVars == <<email, status, deleted, password>>
inviteVars == <<inviteOf, mailed, accepted>>
otherVars == <<changeOf, target, verified, resetOf>>
vars == <<userVars, inviteVars, otherVars, expired, req>>

Steps == {"idle", "invite.tx", "invite.commit", "resend.tx", "resend.commit", "accept.commit",
          "delete.commit", "signup.commit", "change.commit", "verify.commit", "forgot.commit",
          "password.commit"}

Request == [step : Steps, account : Accounts \cup {NoAccount},
            email : Emails \cup {NoEmail}, link : Links \cup {NoLink}]

Idle == [step |-> "idle", account |-> NoAccount, email |-> NoEmail, link |-> NoLink]

\* Types; only invitations that were mailed are accepted.
TypeOK ==
    /\ email \in [Accounts -> Emails \cup {NoEmail}]
    /\ status \in [Accounts -> {"none", "pending", "active"}]
    /\ deleted \subseteq Accounts
    /\ password \in [Accounts -> {"none", "one", "other"}]
    /\ inviteOf \in [Accounts -> Invites \cup {NoLink}]
    /\ mailed \subseteq Invites /\ accepted \subseteq mailed
    /\ changeOf \in [Accounts -> ChangeLinks \cup {NoLink}]
    /\ target \in [ChangeLinks -> Emails \cup {NoEmail}]
    /\ resetOf \in [Accounts -> ResetLinks \cup {NoLink}]
    /\ verified \subseteq ChangeLinks /\ expired \subseteq Invites \cup ChangeLinks
    /\ req \in [Requests -> Request]

Init ==
    /\ email = [a \in Accounts |-> NoEmail]
    /\ status = [a \in Accounts |-> "none"]
    /\ deleted = {}
    /\ password = [a \in Accounts |-> "none"]
    /\ inviteOf = [a \in Accounts |-> NoLink]
    /\ mailed = {} /\ accepted = {}
    /\ changeOf = [a \in Accounts |-> NoLink]
    /\ target = [l \in ChangeLinks |-> NoEmail]
    /\ resetOf = [a \in Accounts |-> NoLink]
    /\ verified = {} /\ expired = {}
    /\ req = [r \in Requests |-> Idle]

------------------------------------------------------------------------------
Live(a) == status[a] # "none" /\ a \notin deleted

\* GetUserByEmail, ExistsUserWithEmail: no live account has the address.
Free(x) == \A a \in Accounts : Live(a) => email[a] # x

\* Mutant of Claimable: only what GetUserByEmail sees is looked at, once.
ClaimableIfFree(a, x) == a \in Accounts /\ x \in Emails

\* The UNIQUE key x can be written to row a: no other row has it, deleted ones
\* included, and no open transaction has written it.
Claimable(a, x) ==
    /\ \A b \in Accounts \ {a} : email[b] # x
    /\ \A r \in Requests : req[r].step = "invite.commit" => req[r].email # x

Unmade(a) == status[a] = "none" /\ \A r \in Requests : req[r].account # a

\* An open transaction has deleted a's invitation row and inserted another one,
\* which locks a's row FOR KEY SHARE.
Replacing(a) == \E r \in Requests : req[r].step = "resend.commit" /\ req[r].account = a

\* Mutant of GoodInvites: the account is read without the deleted_at condition.
GoodInvitesEvenDeleted ==
    {inviteOf[a] : a \in {b \in Accounts : status[b] = "pending"}} \ (accepted \cup expired \cup {NoLink})

\* Mutant of GoodInvites: a missing row passes, and the status is not tested.
GoodInvitesMissing == {inviteOf[a] : a \in {b \in Accounts : Live(b)}} \ (accepted \cup expired)

\* Invitations that acceptInvite goes on with: the row exists, unused and
\* unexpired, of a live account that is still pending.
GoodInvites ==
    {inviteOf[a] : a \in {b \in Accounts : Live(b) /\ status[b] = "pending"}}
        \ (accepted \cup expired \cup {NoLink})

\* E-mail change links that verifyChangeEmail goes on with, presented by their
\* live owner.
GoodChanges ==
    {changeOf[a] : a \in {b \in Accounts : Live(b)}} \ (verified \cup expired \cup {NoLink})

Start(r, rec) ==
    /\ req[r] = Idle
    /\ req' = [req EXCEPT ![r] = rec]

Finish(r) == req' = [req EXCEPT ![r] = Idle]

------------------------------------------------------------------------------
\* inviteUser, password tenant: the address is looked up before the transaction.
InviteRead(r, x) ==
    /\ Free(x)
    /\ Start(r, [Idle EXCEPT !.step = "invite.tx", !.email = x])
    /\ UNCHANGED <<userVars, inviteVars, otherVars, expired>>

\* The account, its roles and the token are inserted and the mail leaves ...
InviteMail(r) ==
    /\ req[r].step = "invite.tx"
    /\ \E a \in Accounts, i \in Invites \ mailed :
          /\ Unmade(a)
          /\ Claimable(a, req[r].email)
          /\ mailed' = mailed \cup {i}
          /\ req' = [req EXCEPT ![r].step = "invite.commit", ![r].account = a, ![r].link = i]
    /\ UNCHANGED <<userVars, inviteOf, accepted, otherVars, expired>>

\* ... before the commit shows any of it to others.
InviteCommit(r) ==
    LET a == req[r].account
    IN  /\ req[r].step = "invite.commit"
        /\ email' = [email EXCEPT ![a] = req[r].email]
        /\ status' = [status EXCEPT ![a] = "pending"]
        /\ inviteOf' = [inviteOf EXCEPT ![a] = req[r].link]
        /\ Finish(r)
        /\ UNCHANGED <<deleted, password, mailed, accepted, otherVars, expired>>

\* resendInvite: the status is read before the transaction.
ResendRead(r, a) ==
    /\ Live(a) /\ status[a] = "pending"
    /\ Start(r, [Idle EXCEPT !.step = "resend.tx", !.account = a])
    /\ UNCHANGED <<userVars, inviteVars, otherVars, expired>>

\* Mutant of ResendMail: the answer of the mail service is not looked at.
ResendUnmailed(r) ==
    /\ req[r].step = "resend.tx"
    /\ ~Replacing(req[r].account)
    /\ \E i \in Invites \ mailed :
          req' = [req EXCEPT ![r].step = "resend.commit", ![r].link = i]
    /\ UNCHANGED <<userVars, inviteVars, otherVars, expired>>

\* The row is deleted, which waits for another resend, a new one is inserted and
\* the mail leaves.  Whoever had to wait fails on the other's row (Abort).
ResendMail(r) ==
    /\ req[r].step = "resend.tx"
    /\ ~Replacing(req[r].account)
    /\ \E i \in Invites \ mailed :
          /\ mailed' = mailed \cup {i}
          /\ req' = [req EXCEPT ![r].step = "resend.commit", ![r].link = i]
    /\ UNCHANGED <<userVars, inviteOf, accepted, otherVars, expired>>

ResendCommit(r) ==
    /\ req[r].step = "resend.commit"
    /\ inviteOf' = [inviteOf EXCEPT ![req[r].account] = req[r].link]
    /\ Finish(r)
    /\ UNCHANGED <<userVars, mailed, accepted, otherVars, expired>>

\* Mutant of AcceptRead: the expiry is not tested.
AcceptReadAnyAge(r, a) ==
    /\ inviteOf[a] \in GoodInvites \cup expired
    /\ Start(r, [Idle EXCEPT !.step = "accept.commit", !.account = a, !.link = inviteOf[a]])
    /\ UNCHANGED <<userVars, inviteVars, otherVars, expired>>

\* acceptInvite: token, account and status are read without a lock.
AcceptRead(r, a) ==
    /\ inviteOf[a] \in GoodInvites
    /\ Start(r, [Idle EXCEPT !.step = "accept.commit", !.account = a, !.link = inviteOf[a]])
    /\ UNCHANGED <<userVars, inviteVars, otherVars, expired>>

\* What an acceptance makes of a hash: never the same, for it is salted.
Another(hash) == IF hash = "one" THEN "other" ELSE "one"

\* Mutant of Activate: the status is not tested again.
ActivateAgain(a) ==
    /\ status' = [status EXCEPT ![a] = "active"]
    /\ password' = [password EXCEPT ![a] = Another(@)]

\* ActivateInvitedUser, WHERE status = 'pending_verification'.
Activate(a) ==
    /\ status' = [status EXCEPT ![a] = "active"]
    /\ password' = IF status[a] = "pending" THEN [password EXCEPT ![a] = Another(@)] ELSE password

\* The account is activated if it is still pending, deleted or not; the token is
\* marked by id, which waits while a resend has it deleted; a session is made.
AcceptCommit(r) ==
    LET a == req[r].account
    IN  /\ req[r].step = "accept.commit"
        /\ req[r].link = inviteOf[a] => ~Replacing(a)
        /\ Activate(a)
        /\ accepted' = accepted \cup {req[r].link}
        /\ Finish(r)
        /\ UNCHANGED <<email, deleted, inviteOf, mailed, otherVars, expired>>

------------------------------------------------------------------------------
\* deleteUser, by an administrator of the tenant.
DeleteRead(r, a) ==
    /\ Live(a)
    /\ Start(r, [Idle EXCEPT !.step = "delete.commit", !.account = a])
    /\ UNCHANGED <<userVars, inviteVars, otherVars, expired>>

\* MarkUserDeletedAndAnonymize frees the address; status and links stay.  The
\* key is written, so it waits for a resend.
DeleteCommit(r) ==
    LET a == req[r].account
    IN  /\ req[r].step = "delete.commit"
        /\ ~Replacing(a)
        /\ email' = [email EXCEPT ![a] = NoEmail]
        /\ password' = [password EXCEPT ![a] = "none"]
        /\ deleted' = deleted \cup {a}
        /\ Finish(r)
        /\ UNCHANGED <<status, inviteVars, otherVars, expired>>

------------------------------------------------------------------------------
\* signup looks up the address that was typed ...
SignupRead(r, x) ==
    /\ Free(x)
    /\ Start(r, [Idle EXCEPT !.step = "signup.commit", !.email = x])
    /\ UNCHANGED <<userVars, inviteVars, otherVars, expired>>

\* ... tenantSignup the one in a signed link, for which there is no row to look up
\* or mark: whoever holds an unexpired one founds a tenant as often as x is free.
TenantSignupRead(r, x) == SignupRead(r, x)

\* signup, passwordTenantSignup: tenant, account and default roles in one
\* transaction; the latter's internal account has an address nobody else uses.
SignupCommit(r) ==
    /\ req[r].step = "signup.commit"
    /\ \E a \in Accounts :
          /\ Unmade(a)
          /\ Claimable(a, req[r].email)
          /\ email' = [email EXCEPT ![a] = req[r].email]
          /\ status' = [status EXCEPT ![a] = "active"]
          /\ password' = [password EXCEPT ![a] = "one"]
    /\ Finish(r)
    /\ UNCHANGED <<deleted, inviteVars, otherVars, expired>>

------------------------------------------------------------------------------
\* changeEmail, by the account's own user: the address is looked up first ...
ChangeRead(r, a, x) ==
    /\ Live(a) /\ status[a] = "active"
    /\ Free(x)
    /\ Start(r, [Idle EXCEPT !.step = "change.commit", !.account = a, !.email = x])
    /\ UNCHANGED <<userVars, inviteVars, otherVars, expired>>

\* ... and the row replaced; the mail follows the commit.
ChangeCommit(r) ==
    /\ req[r].step = "change.commit"
    /\ \E l \in ChangeLinks :
          /\ target[l] = NoEmail
          /\ target' = [target EXCEPT ![l] = req[r].email]
          /\ changeOf' = [changeOf EXCEPT ![req[r].account] = l]
    /\ Finish(r)
    /\ UNCHANGED <<userVars, inviteVars, verified, resetOf, expired>>

\* Mutant of VerifyRead: used_at is not tested.
VerifyReadUsed(r, a) ==
    /\ changeOf[a] \in GoodChanges \cup verified /\ Live(a)
    /\ Start(r, [Idle EXCEPT !.step = "verify.commit", !.account = a, !.link = changeOf[a]])
    /\ UNCHANGED <<userVars, inviteVars, otherVars, expired>>

\* verifyChangeEmail, by the account's own user.
VerifyRead(r, a) ==
    /\ changeOf[a] \in GoodChanges /\ Live(a)
    /\ Start(r, [Idle EXCEPT !.step = "verify.commit", !.account = a, !.link = changeOf[a]])
    /\ UNCHANGED <<userVars, inviteVars, otherVars, expired>>

\* UpdateUserEmail has no deleted_at condition; the token is marked by id.
VerifyCommit(r) ==
    LET a == req[r].account
        x == target[req[r].link]
    IN  /\ req[r].step = "verify.commit"
        /\ ~Replacing(a)
        /\ Claimable(a, x)
        /\ email' = [email EXCEPT ![a] = x]
        /\ verified' = verified \cup {req[r].link}
        /\ Finish(r)
        /\ UNCHANGED <<status, deleted, password, inviteVars,
                       changeOf, target, resetOf, expired>>

------------------------------------------------------------------------------
\* forgotPassword: the account is looked up by its address, whatever its status ...
ForgotRead(r, a) ==
    /\ Live(a)
    /\ Start(r, [Idle EXCEPT !.step = "forgot.commit", !.account = a])
    /\ UNCHANGED <<userVars, inviteVars, otherVars, expired>>

\* ... and its row replaced by one that works (module Sessions has the rows).
ForgotCommit(r) ==
    /\ req[r].step = "forgot.commit"
    /\ \E l \in ResetLinks :
          /\ \A a \in Accounts : resetOf[a] # l
          /\ \A x \in Requests : req[x].link # l
          /\ resetOf' = [resetOf EXCEPT ![req[r].account] = l]
    /\ Finish(r)
    /\ UNCHANGED <<userVars, inviteVars, changeOf, target, verified, expired>>

\* resetPassword: the link is read, and not the account it belongs to.
ResetRead(r, a) ==
    /\ resetOf[a] # NoLink
    /\ Start(r, [Idle EXCEPT !.step = "password.commit", !.account = a, !.link = resetOf[a]])
    /\ UNCHANGED <<userVars, inviteVars, otherVars, expired>>

\* changePassword, by the account's own user: the current password is compared.
PasswordRead(r, a) ==
    /\ Live(a) /\ status[a] = "active" /\ password[a] # "none"
    /\ Start(r, [Idle EXCEPT !.step = "password.commit", !.account = a])
    /\ UNCHANGED <<userVars, inviteVars, otherVars, expired>>

\* UpdateUserPassword, by id: deleted or not, pending or not.  A reset marks its
\* link by id, which leaves one alone that was issued since.
PasswordCommit(r) ==
    LET a == req[r].account
    IN  /\ req[r].step = "password.commit"
        /\ password' = [password EXCEPT ![a] = "one"]
        /\ resetOf' = [resetOf EXCEPT ![a] = IF @ = req[r].link THEN NoLink ELSE @]
        /\ Finish(r)
        /\ UNCHANGED <<email, status, deleted, inviteVars,
                       changeOf, target, verified, expired>>

\* Thirty minutes pass for a reset link.
ExpireReset(a) ==
    /\ resetOf[a] # NoLink
    /\ resetOf' = [resetOf EXCEPT ![a] = NoLink]
    /\ UNCHANGED <<userVars, inviteVars, changeOf, target, verified, expired, req>>

\* Forty-eight hours pass for an invitation, thirty minutes for a change of
\* address; nobody sees it of a link that is refused anyway.
Expire(l) ==
    /\ l \in GoodInvites \cup GoodChanges
    /\ expired' = expired \cup {l}
    /\ UNCHANGED <<userVars, inviteVars, otherVars, req>>

\* An error, a taken address, a lost connection or a crash: the transaction
\* rolls back; a mail that has left stays out.
Abort(r) ==
    /\ req[r] # Idle
    /\ Finish(r)
    /\ UNCHANGED <<userVars, inviteVars, otherVars, expired>>

Next ==
    \/ \E r \in Requests :
          \/ \E x \in Emails : InviteRead(r, x) \/ SignupRead(r, x) \/ TenantSignupRead(r, x)
          \/ \E a \in Accounts : ResendRead(r, a) \/ AcceptRead(r, a) \/ DeleteRead(r, a) \/ VerifyRead(r, a)
          \/ \E a \in Accounts : ForgotRead(r, a) \/ ResetRead(r, a) \/ PasswordRead(r, a)
          \/ \E a \in Accounts, x \in Emails : ChangeRead(r, a, x)
          \/ InviteMail(r) \/ InviteCommit(r) \/ ResendMail(r) \/ ResendCommit(r)
          \/ AcceptCommit(r) \/ DeleteCommit(r) \/ SignupCommit(r)
          \/ ChangeCommit(r) \/ VerifyCommit(r) \/ ForgotCommit(r) \/ PasswordCommit(r) \/ Abort(r)
    \/ \E l \in Invites \cup ChangeLinks : Expire(l)
    \/ \E a \in Accounts : ExpireReset(a)

Spec == Init /\ [][Next]_vars

------------------------------------------------------------------------------
\* No two rows have one address, although every handler looks it up before its
\* transaction and a signed link can be opened any number of times.
OneHolderPerAddress ==
    \A a, b \in Accounts : email[a] = email[b] /\ email[a] # NoEmail => a = b

\* Whoever accepts an invitation first has set the password: a second acceptance
\* in flight, of the same link or of a resent one, does not replace it.  Only a
\* reset or a change of the account's own password does.
FirstPasswordStays ==
    [][\A a \in Accounts \ deleted' : status[a] = "active" =>
          \/ password'[a] = password[a]
          \/ \E r \in Requests : /\ req[r].step = "password.commit" /\ req[r].account = a
                                 /\ req'[r] = Idle]_vars

\* A pending account is never without an invitation that left by mail, whatever
\* resending failed half-way, and its link is not one that was accepted.
PendingWasMailed ==
    \A a \in Accounts : Live(a) /\ status[a] = "pending" => inviteOf[a] \in mailed \ accepted

Writing(a, steps) == \E r \in Requests : req[r].account = a /\ req[r].step \in steps

\* a has no address, and no confirmation of one is in flight.
Nameless(a) == email[a] = NoEmail /\ ~Writing(a, {"verify.commit"})

\* a has no password, no reset link of it works, and no handler that would give it
\* either is in flight.
Locked(a) ==
    /\ password[a] = "none" /\ resetOf[a] = NoLink
    /\ ~Writing(a, {"accept.commit", "password.commit", "forgot.commit"})

\* A deleted account gets an address back only from a confirmation that was in
\* flight when it was deleted, and a password only if an acceptance, a change, a
\* reset or the request for a reset link was, or a reset link of it worked at that
\* time: once all of these have ended, nothing begins that gives it either.
DeletedStaysAnonymous ==
    [][\A a \in deleted : /\ Nameless(a) => Nameless(a)'
                          /\ Locked(a) => Locked(a)']_vars

\* Invitations are one-time tokens: accepting one consumes it.
UnderWay == {req[r].link : r \in {q \in Requests : req[q].step \in {"invite.commit", "resend.commit"}}}

Invitations == INSTANCE OneTimeToken WITH
    Token <- Invites, Claimer <- Requests, NoToken <- NoLink,
    fresh <- GoodInvites,
    spent <- mailed \ (GoodInvites \cup UnderWay),
    consumed <- accepted,
    claim <- [r \in Requests |-> IF req[r].step = "accept.commit" THEN req[r].link ELSE NoLink]

InvitationsAreOneTime == Invitations!Spec

\* E-mail change links are one-time tokens: moving the address consumes one.
Issued == {l \in ChangeLinks : target[l] # NoEmail}

EmailChanges == INSTANCE OneTimeToken WITH
    Token <- ChangeLinks, Claimer <- Requests, NoToken <- NoLink,
    fresh <- GoodChanges,
    spent <- Issued \ GoodChanges,
    consumed <- verified,
    claim <- [r \in Requests |-> IF req[r].step = "verify.commit" THEN req[r].link ELSE NoLink]

EmailChangesAreOneTime == EmailChanges!Spec

\* Who has which address, and which ones open invitations have inserted.
Held == {<<email[a], a>> : a \in {b \in Accounts : email[b] # NoEmail}}
Promised == {<<req[r].email, req[r].account>> :
                r \in {q \in Requests : req[q].step = "invite.commit"}}

\* An address is never with two accounts, nor does it pass from one to the other
\* in one step; one that an invitation has inserted is not committed to anybody
\* else, however its transaction ends.
Book == INSTANCE AddressBook WITH
    Address <- Emails, Account <- Accounts, held <- Held, promised <- Promised

KeepsAddressBook == Book!Spec

==============================================================================
