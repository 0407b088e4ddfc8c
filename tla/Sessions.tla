------------------------------ MODULE Sessions ------------------------------
(***************************************************************************)
(* The sessions of dislyze: rows of refresh_tokens, the handlers that      *)
(* create, rotate, revoke and delete them, and the credentials (password,  *)
(* reset link, account) whose change is supposed to end them.              *)
(*                                                                         *)
(* Every handler runs concurrently with every other, on READ COMMITTED     *)
(* transactions without SELECT ... FOR UPDATE.  A handler is cut where     *)
(* another one's commit can come between what it read and what it writes:  *)
(* one action for the reads it decides on, one for the commit that makes   *)
(* its writes visible.  A DELETE removes the rows its own snapshot saw, so *)
(* the statement and the commit that publishes it are two actions as well. *)
(***************************************************************************)
EXTENDS Naturals, FiniteSets

CONSTANTS
    Users,      \* accounts, all of status active
    Operators,  \* those with is_internal_admin, who sign in to giratina
    Internals,  \* those with is_internal_user, as whom operators enter a tenant
    Tokens,     \* bound of the model: refresh tokens (jti) that can be minted
    Links,      \* bound of the model: password-reset links that can be issued
    Requests,   \* bound of the model: handlers in flight at the same time
    MaxEpoch,   \* bound of the model: credential changes per account
    NoUser, NoToken, NoLink

ASSUME NoneAssumption == NoUser \notin Users /\ NoToken \notin Tokens /\ NoLink \notin Links
ASSUME KindsAssumption == Operators \subseteq Users /\ Internals \subseteq Users
ASSUME MaxEpochAssumption == MaxEpoch \in Nat

VARIABLES
    \* users
    deleted,        \* deleted_at is set
    anonymised,     \* password_hash is the hash `that should never match'
    epoch,          \* how often the credentials (password, e-mail) were replaced
    \* refresh_tokens
    minted,         \* history: tokens that ever had a row
    rows,           \* tokens that have a row
    used, revoked, expired,
    owner,          \* user_id
    parent,         \* history: the token this one was rotated from
    cred,           \* history: epoch of the login the token descends from
    late,           \* history: credential changes the token's minting overlapped
    \* password_reset_tokens
    issued,         \* history: links that ever had a row
    linkOf,         \* the row of each user (UNIQUE user_id)
    linkOwner, linkUsed, linkExpired,
    redeemed,       \* history: links that set a password
    req             \* the handlers in flight

userVars == <<deleted, anonymised, epoch>>
tokenVars == <<minted, rows, used, revoked, expired, owner, parent, cred, late>>
linkVars == <<issued, linkOf, linkOwner, linkUsed, linkExpired, redeemed>>
vars == <<userVars, tokenVars, linkVars, req>>

Steps == {"idle", "login.tx", "login.commit", "refresh.commit", "forgot.commit",
          "change.delete", "change.commit", "delete.commit"}

Request == [step : Steps, kind : {"none", "password", "email", "reset"},
            user : Users \cup {NoUser}, token : Tokens \cup {NoToken},
            link : Links \cup {NoLink}, cred : 0..MaxEpoch,
            doomed : SUBSET Tokens, late : SUBSET (1..MaxEpoch)]

Idle == [step |-> "idle", kind |-> "none", user |-> NoUser, token |-> NoToken,
         link |-> NoLink, cred |-> 0, doomed |-> {}, late |-> {}]

\* Types; the used and revoked marks are on rows that exist, a user's link row
\* holds an issued link.
TypeOK ==
    /\ deleted \subseteq Users
    /\ anonymised \subseteq Users
    /\ epoch \in [Users -> 0..MaxEpoch]
    /\ rows \subseteq minted /\ minted \subseteq Tokens
    /\ used \subseteq rows /\ revoked \subseteq rows /\ expired \subseteq minted
    /\ owner \in [Tokens -> Users \cup {NoUser}]
    /\ parent \in [Tokens -> Tokens \cup {NoToken}]
    /\ cred \in [Tokens -> 0..MaxEpoch]
    /\ late \in [Tokens -> SUBSET (1..MaxEpoch)]
    /\ issued \subseteq Links
    /\ linkOf \in [Users -> issued \cup {NoLink}]
    /\ linkOwner \in [Links -> Users \cup {NoUser}]
    /\ linkUsed \subseteq issued /\ linkExpired \subseteq issued /\ redeemed \subseteq issued
    /\ req \in [Requests -> Request]

Init ==
    /\ deleted = {} /\ anonymised = {}
    /\ epoch = [u \in Users |-> 0]
    /\ minted = {} /\ rows = {} /\ used = {} /\ revoked = {} /\ expired = {}
    /\ late = [t \in Tokens |-> {}]
    /\ owner = [t \in Tokens |-> NoUser]
    /\ parent = [t \in Tokens |-> NoToken]
    /\ cred = [t \in Tokens |-> 0]
    /\ issued = {} /\ linkUsed = {} /\ linkExpired = {} /\ redeemed = {}
    /\ linkOf = [u \in Users |-> NoLink]
    /\ linkOwner = [l \in Links |-> NoUser]
    /\ req = [r \in Requests |-> Idle]

------------------------------------------------------------------------------
\* GetRefreshTokenByUserID: neither revoked nor expired, used or not.
Listed(u) == {t \in rows \ (revoked \cup expired) : owner[t] = u}

\* Mutant of Usable: the used check is missing.
UsableEvenUsed == rows \ (revoked \cup expired)

\* GetRefreshTokenByJTI followed by the checks of handleRefreshToken.
Usable == rows \ (used \cup revoked \cup expired)

\* A transaction that replaces u's credentials holds the lock of u's row, from
\* its UPDATE users to its commit.
Changing(u) == \E r \in Requests : req[r].step = "change.commit" /\ req[r].user = u

\* The changes of u's credentials, by number, that overlap what happens now.
Overlapping(u) == IF Changing(u) THEN {epoch[u] + 1} ELSE {}

\* Mutant of Doomed: only the tokens already used are deleted.
DoomedUsed(u) == {t \in used : owner[t] = u}

\* DeleteRefreshTokensByUserID.
Doomed(u) == {t \in rows : owner[t] = u}

\* u has signed in at least once and so may hold a valid access token.
SignedIn(u) == \E t \in minted : owner[t] = u

Start(r, rec) ==
    /\ req[r] = Idle
    /\ req' = [req EXCEPT ![r] = rec]

\* CreateRefreshToken.
Mint(t, u, from, c, overlapped) ==
    /\ t \notin minted
    /\ minted' = minted \cup {t}
    /\ rows' = rows \cup {t}
    /\ owner' = [owner EXCEPT ![t] = u]
    /\ parent' = [parent EXCEPT ![t] = from]
    /\ cred' = [cred EXCEPT ![t] = c]
    /\ late' = [late EXCEPT ![t] = overlapped]

\* Mutants of MarkUsed: the update is forgotten; a missing row is marked.
MarkUsedForgotten(t) == used' = used
MarkUsedMissing(t) == used' = used \cup {t}

\* UpdateRefreshTokenUsed: no row, no effect.
MarkUsed(t) == used' = used \cup ({t} \cap rows)

------------------------------------------------------------------------------
\* A sign-in goes on to its transaction with what it has read of the account.
SignIn(r, u) ==
    /\ u \notin deleted
    /\ Start(r, [Idle EXCEPT !.step = "login.tx", !.user = u,
                             !.cred = epoch[u], !.late = Overlapping(u)])
    /\ UNCHANGED <<userVars, tokenVars, linkVars>>

\* login: GetUserByEmail (live accounts only), status, auth method and the
\* password, all read before the transaction begins.
LoginCheck(r, u) == u \notin anonymised /\ SignIn(r, u)

\* giratina's login: the same, for operators only, whatever their tenant's method.
OperatorCheck(r, u) == u \in Operators /\ u \notin anonymised /\ SignIn(r, u)

\* logInToTenant: an operator enters as the tenant's live internal user; no
\* password is asked for.
ImpersonateCheck(r, u) == u \in Internals /\ SignIn(r, u)

\* The transaction looks for one existing token of the user, whichever the
\* database returns first.
LoginFindToken(r) ==
    /\ req[r].step = "login.tx"
    /\ \E t \in Listed(req[r].user) \cup {NoToken} :
          /\ t = NoToken => Listed(req[r].user) = {}
          /\ req' = [req EXCEPT ![r].step = "login.commit", ![r].token = t]
    /\ UNCHANGED <<userVars, tokenVars, linkVars>>

\* ... marks it used and stores a new one.
LoginCommit(r) ==
    /\ req[r].step = "login.commit"
    /\ \E t \in Tokens : Mint(t, req[r].user, NoToken, req[r].cred, req[r].late)
    /\ MarkUsed(req[r].token)
    /\ req' = [req EXCEPT ![r] = Idle]
    /\ UNCHANGED <<userVars, linkVars, revoked, expired>>

------------------------------------------------------------------------------
\* handleRefreshToken: the browser presents any token it was ever given; the
\* row must exist, be unrevoked, unexpired and unused.
RefreshRead(r, t) ==
    /\ t \in Usable
    /\ Start(r, [Idle EXCEPT !.step = "refresh.commit", !.user = owner[t], !.token = t,
                             !.cred = cred[t], !.late = late[t] \cup Overlapping(owner[t])])
    /\ UNCHANGED <<userVars, tokenVars, linkVars>>

\* The presented token is marked used by its jti, whatever it has become since
\* it was read; GetUserByID does not look at deleted_at.
RefreshCommit(r) ==
    /\ req[r].step = "refresh.commit"
    /\ \E t \in Tokens : Mint(t, req[r].user, req[r].token, req[r].cred, req[r].late)
    /\ MarkUsed(req[r].token)
    /\ req' = [req EXCEPT ![r] = Idle]
    /\ UNCHANGED <<userVars, linkVars, revoked, expired>>

\* Logout: RevokeRefreshToken by jti, for a refresh JWT that is still valid.
Logout(t) ==
    /\ t \in minted \ expired
    /\ revoked' = revoked \cup ({t} \cap rows)
    /\ UNCHANGED <<userVars, linkVars, req, minted, rows, used, expired, owner, parent, cred, late>>

\* Seven days pass.
Expire(t) ==
    /\ t \in minted \ expired
    /\ expired' = expired \cup {t}
    /\ UNCHANGED <<userVars, linkVars, req, minted, rows, used, revoked, owner, parent, cred, late>>

------------------------------------------------------------------------------
\* Mutant of ForgotRead: deleted accounts get links as well.
ForgotReadAny(r, u) ==
    /\ Start(r, [Idle EXCEPT !.step = "forgot.commit", !.user = u])
    /\ UNCHANGED <<userVars, tokenVars, linkVars>>

\* ForgotPassword: the account is read first, the row replaced in a transaction.
ForgotRead(r, u) ==
    /\ u \notin deleted
    /\ Start(r, [Idle EXCEPT !.step = "forgot.commit", !.user = u])
    /\ UNCHANGED <<userVars, tokenVars, linkVars>>

ForgotCommit(r) ==
    /\ req[r].step = "forgot.commit"
    /\ \E l \in Links \ issued :
          /\ issued' = issued \cup {l}
          /\ linkOwner' = [linkOwner EXCEPT ![l] = req[r].user]
          /\ linkOf' = [linkOf EXCEPT ![req[r].user] = l]
    /\ req' = [req EXCEPT ![r] = Idle]
    /\ UNCHANGED <<userVars, tokenVars, linkUsed, linkExpired, redeemed>>

\* Thirty minutes pass.
ExpireLink(l) ==
    /\ l \in issued \ linkExpired
    /\ linkExpired' = linkExpired \cup {l}
    /\ UNCHANGED <<userVars, tokenVars, req, issued, linkOf, linkOwner, linkUsed, redeemed>>

\* Mutant of GoodLinks: the used check is missing.
GoodLinksEvenUsed == {l \in issued : l = linkOf[linkOwner[l]]} \ linkExpired

\* Links for which resetPassword goes on: the row exists, unused and unexpired.
GoodLinks == {l \in issued : l = linkOf[linkOwner[l]]} \ (linkUsed \cup linkExpired)

------------------------------------------------------------------------------
\* What the three handlers that end the sessions of an account read first:
\* changePassword the current password of a live account ...
PasswordCheck(r, u) ==
    /\ SignedIn(u) /\ u \notin deleted
    /\ Start(r, [Idle EXCEPT !.step = "change.delete", !.kind = "password", !.user = u])
    /\ UNCHANGED <<userVars, tokenVars, linkVars>>

\* ... resetPassword the link, and not the account it belongs to ...
ResetRead(r, l) ==
    /\ l \in GoodLinks
    /\ Start(r, [Idle EXCEPT !.step = "change.delete", !.kind = "reset",
                             !.user = linkOwner[l], !.link = l])
    /\ UNCHANGED <<userVars, tokenVars, linkVars>>

\* ... verifyChangeEmail the e-mail link of the caller.
EmailRead(r, u) ==
    /\ SignedIn(u) /\ u \notin deleted
    /\ Start(r, [Idle EXCEPT !.step = "change.delete", !.kind = "email", !.user = u])
    /\ UNCHANGED <<userVars, tokenVars, linkVars>>

\* UPDATE users takes the row lock, then DELETE FROM refresh_tokens sees the
\* rows committed so far.
ChangeDelete(r) ==
    LET u == req[r].user
        Minting(x) == req[x].user = u /\ req[x].step \in {"login.tx", "login.commit", "refresh.commit"}
    IN  /\ req[r].step = "change.delete"
        /\ ~Changing(u)
        /\ epoch[u] < MaxEpoch
        /\ req' = [x \in Requests |->
                     IF x = r THEN [req[r] EXCEPT !.step = "change.commit",
                                                  !.doomed = Doomed(u)]
                     ELSE IF Minting(x) THEN [req[x] EXCEPT !.late = @ \cup {epoch[u] + 1}]
                     ELSE req[x]]
        /\ UNCHANGED <<userVars, tokenVars, linkVars>>

\* The commit publishes the new credentials, the deletion and, for a reset, the
\* used mark on the link (by id: no row, no effect).
ChangeCommit(r) ==
    LET u == req[r].user
        l == req[r].link
    IN  /\ req[r].step = "change.commit"
        /\ rows' = rows \ req[r].doomed
        /\ used' = used \ req[r].doomed
        /\ revoked' = revoked \ req[r].doomed
        /\ epoch' = [epoch EXCEPT ![u] = @ + 1]
        /\ anonymised' = IF req[r].kind = "email" THEN anonymised ELSE anonymised \ {u}
        /\ linkUsed' = linkUsed \cup ({l} \cap {linkOf[u]} \cap issued)
        /\ redeemed' = redeemed \cup ({l} \cap issued)
        /\ req' = [req EXCEPT ![r] = Idle]
        /\ UNCHANGED <<deleted, minted, expired, owner, parent, cred, late,
                       issued, linkOf, linkOwner, linkExpired>>

\* DeleteUser: an administrator, who is another account, reads this one ...
DeleteRead(r, u) ==
    /\ u \notin deleted
    /\ Start(r, [Idle EXCEPT !.step = "delete.commit", !.user = u])
    /\ UNCHANGED <<userVars, tokenVars, linkVars>>

\* ... and anonymises it; its refresh tokens and reset link stay.
DeleteCommit(r) ==
    LET u == req[r].user
    IN  /\ req[r].step = "delete.commit"
        /\ ~Changing(u)
        /\ deleted' = deleted \cup {u}
        /\ anonymised' = anonymised \cup {u}
        /\ req' = [req EXCEPT ![r] = Idle]
        /\ UNCHANGED <<tokenVars, linkVars, epoch>>

\* An error, a lost connection or a crash: the transaction rolls back.
Abort(r) ==
    /\ req[r].step \notin {"idle", "change.commit"}
    /\ req' = [req EXCEPT ![r] = Idle]
    /\ UNCHANGED <<userVars, tokenVars, linkVars>>

\* The same for a credential change: nothing was overlapped after all.
AbortChange(r) ==
    LET u == req[r].user
        n == epoch[u] + 1
    IN  /\ req[r].step = "change.commit"
        /\ req' = [x \in Requests |->
                     IF x = r THEN Idle
                     ELSE IF req[x].user = u THEN [req[x] EXCEPT !.late = @ \ {n}] ELSE req[x]]
        /\ late' = [t \in Tokens |-> IF owner[t] = u THEN late[t] \ {n} ELSE late[t]]
        /\ UNCHANGED <<userVars, linkVars, minted, rows, used, revoked, expired, owner, parent, cred>>

Next ==
    \/ \E r \in Requests :
          \/ \E u \in Users : LoginCheck(r, u) \/ OperatorCheck(r, u) \/ ImpersonateCheck(r, u)
          \/ \E u \in Users : ForgotRead(r, u) \/ PasswordCheck(r, u) \/ EmailRead(r, u) \/ DeleteRead(r, u)
          \/ \E t \in Tokens : RefreshRead(r, t)
          \/ \E l \in Links : ResetRead(r, l)
          \/ LoginFindToken(r) \/ LoginCommit(r) \/ RefreshCommit(r)
          \/ ForgotCommit(r) \/ ChangeDelete(r) \/ ChangeCommit(r)
          \/ DeleteCommit(r) \/ Abort(r) \/ AbortChange(r)
    \/ \E t \in Tokens : Logout(t) \/ Expire(t)
    \/ \E l \in Links : ExpireLink(l)

Spec == Init /\ [][Next]_vars

------------------------------------------------------------------------------
\* A session that outlived a change of its account's credentials was minted by
\* a login or a rotation that was in flight while the change was committed;
\* whatever existed before is gone, and whatever started later is on the new
\* credentials.
OnlyOverlapSurvivesChange ==
    \A t \in rows : \A n \in 1..MaxEpoch :
        cred[t] < n /\ n <= epoch[owner[t]] => n \in late[t]

\* A refresh token that was rotated cannot be presented again.
RotatedIsSpent == \A t \in minted : parent[t] \notin Usable

\* A deletion is settled when nothing that began before it is left: neither a reset
\* link that works nor a handler about to sign in, to issue a link or to set a
\* password.
Settled(u) ==
    /\ u \in deleted \cap anonymised
    /\ \A l \in GoodLinks : linkOwner[l] # u
    /\ \A r \in Requests : req[r].user = u =>
          /\ req[r].step \notin {"login.tx", "login.commit", "forgot.commit"}
          /\ req[r].kind \notin {"password", "reset"}

\* A settled deletion is final, whatever comes: the account stays without
\* credentials, and the sessions it has left are rotated but no new one begins.
SettledDeletionIsFinal ==
    [][\A u \in Users : Settled(u) =>
          /\ Settled(u)'
          /\ \A t \in minted' \ minted : owner'[t] = u => parent'[t] \in minted]_vars

\* Refresh tokens are one-time tokens: rotating one consumes it.
RefreshTokens == INSTANCE OneTimeToken WITH
    Token <- Tokens, Claimer <- Requests,
    fresh <- Usable,
    spent <- minted \ Usable,
    consumed <- {parent[t] : t \in minted} \ {NoToken},
    claim <- [r \in Requests |-> IF req[r].step = "refresh.commit" THEN req[r].token ELSE NoToken]

TokensAreOneTime == RefreshTokens!Spec

\* Password-reset links are one-time tokens: setting the password consumes one.
ResetLinks == INSTANCE OneTimeToken WITH
    Token <- Links, Claimer <- Requests, NoToken <- NoLink,
    fresh <- GoodLinks,
    spent <- issued \ GoodLinks,
    consumed <- redeemed,
    claim <- [r \in Requests |-> IF req[r].kind = "reset" THEN req[r].link ELSE NoLink]

LinksAreOneTime == ResetLinks!Spec

\* middleware.go:144 says of the used check `Prevent replay of an already used
\* (for rotation) token': no token is rotated twice.
NoTokenRotatedTwice ==
    \A s, t \in minted : parent[s] = parent[t] /\ parent[s] # NoToken => s = t

\* users.sql:50 gives a deleted account a hash `thatshouldnevermatchanything-
\* ever': a deleted account keeps it.
DeletedStaysAnonymised == deleted \subseteq anonymised

==============================================================================
