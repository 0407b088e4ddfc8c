# dislyze, modelled in TLA+

TLA+ modules of the logic of dislyze, model-checked with TLC and, where it says
so, proved with TLAPS for every value of the constants. Paths are relative to
the repository; line numbers of every modelled definition are in the `map` of
`PROJECT.json`.

## 1. The system

dislyze is a multi-tenant web application. `lugia-backend` serves the
customers' users, `giratina-backend` the operator's staff; both are Go servers
on one PostgreSQL database and share the library `jirachi` (sessions, rate
limiter, tokens). Two Svelte frontends sit in front of them.

No server keeps state between requests except its rate limiters and its
connection pool. Everything else is rows, and every handler is a sequence of
queries: some on the pool, each its own transaction, some in one explicit
`READ COMMITTED` transaction. There is no `SELECT ... FOR UPDATE` and no retry
anywhere, so **what a handler checked may have changed by the time it writes**.
That is the one hard behaviour of this code, and most of the modules are about
it.

| component | state | operations | interacts with | what makes it correct |
|---|---|---|---|---|
| Rate limiter (`jirachi/ratelimit`) | attempts per key, under a mutex | `Allow` | in front of login, signup, mail-sending handlers | no window holds more grants than the limit; no early refusal |
| Sessions (`jirachi/auth`, lugia `auth`, `users`) | `refresh_tokens`, `users` | login, refresh in the middleware, logout, change of password or e-mail, reset, deletion | one another, through rows | a token is rotated once; changed credentials end the sessions; deleted stays deleted |
| Password reset | `password_reset_tokens`, one row per user | forgot, reset, expiry | Sessions, pool | a link works once, until replaced |
| Row locks | locks of PostgreSQL | the transactions on accounts, roles and invitations | all handlers that write | who can deadlock with whom; nobody keeps a lock |
| Connection pool (`lib/db`) | 25 connections, a queue | every query and transaction | two handlers take a second connection inside their transaction | waiting ends |
| IP whitelist | rules, switches in `tenants.enterprise_features`, emergency tokens | activate, force, deactivate, add, delete, emergency; giratina's edit page | tenant context, middleware | no switch undone silently; a lock-out can be lifted |
| Roles and permissions | `roles`, `role_permissions`, `user_roles` | signup defaults, create, update, delete, invite, change roles, delete user; RBAC switch | every route's middleware | users have what they were given; shown = enforced; somebody can manage users |
| Invitations | `invitation_tokens`, pending users | invite, resend, accept, expiry | Sessions, Roles, mail | an invitation works once, for the account it was sent for; no pending account without a mail |
| Signup, tenant signup | `users.email`; signed links without a row | two transactions | Roles, invitations | an address belongs to one account, whoever gets there first |
| E-mail change | `email_change_tokens` | request, verify | Sessions, locks, signups | a link works once, for its owner |
| Single sign-on | `sso_auth_requests` | start, response, cleanup | identity provider, accounts | a request makes one session; a person has one account and enters no other |
| Operator sessions, impersonation | rows of `refresh_tokens`, written by giratina | login, logout, log in to tenant | Sessions | as Sessions, across two servers |
| Profile, tenant name, audit log, mail, helpers, frontends, tooling | single columns, append-only rows, none | | | nothing that depends on an order of steps |

`PROJECT.json` lists all of them with their status, and every hazard at its line.

## 2. Plan

| | module | about | status |
|---|---|---|---|
| 1 | `RateLimiter` | sliding window | modelled, checked, proved |
| 2 | `OneTimeToken` | abstract: what every single-use token promises | implemented five times: twice by 3, twice by 4, once by 8; all proved |
| 2b | `AddressBook` | abstract: what unique e-mail addresses promise | implemented by 4 and 5, both proved |
| 3 | `Sessions` | sessions of customers and operators, impersonation, credentials, reset links | modelled, checked, proved |
| 4 | `Accounts` | invite, resend, accept, delete, both signups, change of address, reset and change of password | modelled, checked, proved |
| 5 | `SSO` | stored requests, provisioning, activation, linking, cleanup | modelled, checked, proved |
| 6 | `LockOrder` | row locks of the transactions on accounts, roles and invitations | modelled, checked, safety proved |
| 7 | `ConnectionPool` | waiting for connections | modelled, checked, safety proved |
| 8 | `IPWhitelist` | switches, rules, emergency tokens | modelled, checked, proved |
| 9 | `Roles` | RBAC | modelled, checked, proved |

The order is that of the damage: who may be signed in first, who holds which
account second, who may do what third, conveniences last. Every safety property
of a passing run is a theorem; the two liveness properties are model-checked.
What is left out is in section 7.

## 3. How the models are built

* A **handler** is a record in `req` (or a transaction in `LockOrder`); its
  `step` is how far it is. It is cut into actions where another handler's
  commit can change what it reads or what it overwrites: the reads it decides
  on are one action, the commit that publishes its writes another. Reads of rows
  that nobody else can change in between are joined; so are all writes of one
  transaction, as nobody sees them before its commit. Where a `DELETE` removes
  the rows of its own snapshot and the transaction commits later (`ChangeDelete`,
  `ChangeCommit`), these are two actions. SSO's callback has no transaction
  around it: each of its statements is an action.
* **Failure**: `Abort` at any step is an error, a lost connection, a crash or a
  shutdown; the deferred rollback or PostgreSQL undoes the open transaction. What
  has left before (a mail), and what earlier statements without a transaction
  have written, stays.
* **Time** passes as actions that may happen at any moment (`Expire`,
  `ExpireLink`, `Tick`).
* **History variables** (`cred`, `late`, `parent`, `granted`, `meant`,
  `overlap`, `risks`, `mailed`, `born`, `moved`, `entered`, ...) say in the
  properties what was meant and who was in flight. No guard reads them, except
  to hand out an identifier that was never used (`minted`, `issued`, `mailed`,
  `sent`) and to keep those who never signed in from what needs a sign-in
  (`SignedIn` in `Sessions`, `entered` in `SSO`).
* Operators named after another one (`UsableEvenUsed` beside `Usable`) are
  deliberate slips, used only to see that a property notices them.

### RateLimiter
`attempts[k]` is the slice of key `k`; `Allow` runs under the mutex and is one
action, `Deny` or `Grant`. `granted` keeps every grant for ever, so the
properties speak of all windows, not only of those that end at a call.

### Sessions and OneTimeToken
Rows of `refresh_tokens` are `rows` with the marks `used`, `revoked`, `expired`;
`Usable` is what `handleRefreshToken` accepts. A sign-in is a check and the
transaction all sign-ins share: `LoginCheck` for lugia's login, `OperatorCheck`
for giratina's, `ImpersonateCheck` for an operator who enters a tenant as its
internal user, without a password. All three and the refresh read first and
later `Mint`; logout revokes by jti. The three handlers that change credentials
share `ChangeDelete` and `ChangeCommit` and differ in what they read first and
in what else they write (`kind`). `DeleteRead` and `DeleteCommit` are
`deleteUser`. All accounts are active; a verified change of address enters as a
kind of credential change. Access tokens have no row and are not modelled: a
signed-in user is one that ever got a token.

`OneTimeToken` is the abstract specification: issued once, fresh until consumed,
withdrawn or expired, never fresh again, and consumed only by whoever found it
fresh. Two claimers may overlap, so it does not promise that a token is consumed
once; that is what `sessions_replay` shows of the code. `Sessions` implements it
for refresh tokens and for reset links, `Accounts` for invitations and for
e-mail change links, `IPWhitelist` for emergency tokens.

### Accounts
Password tenants: how a row of `users` comes to be and who holds its address.
Every handler looks the address up before its transaction (`Free`) and the
UNIQUE key decides at the end (`Claimable`): it sees deleted rows, and waits for
an invitation that has inserted the key and not committed. An invitation and a
resend mail inside their transaction, so `InviteMail` and `ResendMail` come
before `InviteCommit` and `ResendCommit`, and an `Abort` between them leaves a
mail without a row. A resend deletes the old token and inserts the new one;
until it commits, others who would mark the old one or write the account's key
wait (`Replacing`). `Activate` has the condition on the status that the
`UPDATE` has. A tenant's signup link is a signed value with an address and no row:
making one changes nothing, and opening it looks nothing up but the address and
marks nothing, so `TenantSignupRead` is `SignupRead`. One `SignupCommit` stands for
both signups; of the tenants they make only the account matters here.

Every writer of `users.password_hash` is there: both signups, an acceptance
(`Activate`), a deletion, and `UpdateUserPassword` by a reset or a change of
password (`PasswordCommit`), which writes by id and asks neither for the status
nor for `deleted_at`. A reset reads its link and not the account (`ResetRead`), so
a link that outlives a deletion gives the deleted account a password, and one of
a pending account a password before its invitation is accepted. Of a reset link
the module keeps whether it works (`resetOf`); its row and the sessions are those
of `Sessions`. A hash is none or one of two values, which is enough to see whether an
acceptance replaced one (`Another`); what a reset or a change writes is its owner's.
An address comes back in the same way, by `UpdateUserEmail` (`VerifyCommit`).
`DeletedStaysAnonymous` says how far this goes: what begins after a deletion, other
than a reset by a link that worked at that time, gives the account nothing.
Links expire while they are good (`Expire`, `ExpireReset`); of others the expiry
decides nothing.

`AddressBook` is the second abstract specification: who has which address, and
which addresses are promised to invitations that have inserted their row and not
committed. A free address is handed out (`Settle`) or promised, a promise is kept
or withdrawn, an address is given back. It knows nothing of lookups, handlers or
deleted rows. What it promises is `Exact`: no address and no account is in it
twice. `Accounts` implements it with both signups, invitations, deletions
and changes of address, `SSO` with provisioning as well; `Claimable` is where the
code keeps it, the lookups (`Free`) are not enough.

### SSO
One tenant of either method (`tenants.auth_method` never changes), whose `sso`
feature the operator can switch at any time. A person of the provider is the
address and the NameID asserted of them. `AcsTake` is the single statement that
deletes the stored request and returns it, before anything of the response is
verified; it does not read the expiry, so a request is good until a cleanup,
which starts only after a successful sign-on, removes it. Then `AcsCheck`,
`AcsFound` or `AcsUnknown`, `AcsActivate`, `AcsLink` or `AcsProvision`, and
`AcsSession` run one by one, and invitations, deletions, changes of address and
other callbacks come between them. A change of address is itself read and written
in two steps (`MoveRead`, `MoveCommit`), so the row it writes may be a deleted one.
A cleanup removes any of the stored requests: which are too old is decided by the
clock, and nothing else asks for it. Because a person is both, an
address that the provider gives to another NameID later is not a behaviour of the
model, and `AccountEnteredByItsPerson` says nothing of it: the code does not
compare the id asserted with the one it has stored. What the code does here and no document
promises otherwise, so that no run disputes it: a sign-on that is refused in a
password tenant has made the pending account active; in such a tenant with the
feature on an unknown person is provisioned and let in once, and refused the
next time; an expired request is answered although the refusal of an unknown one
reads `invalid or expired request` (`sso_acs.go:134`). Resending an invitation
in an SSO tenant only mails the sign-on page again.

### LockOrder
Each operation is a sequence of stages, a stage the row locks of one statement,
which are taken one at a time in any order; `todo` has the locks a transaction
still needs with the number of their stage, and `Due` those of the statement it
is at. `Conflict` is PostgreSQL's table for the modes that occur. Replacing
`users.email` takes the strong lock because the column has a unique index;
inserting a row that references a user or a role takes `KEY SHARE` on it; so does
the audit row on its actor, in tenants that have the audit log. A cascade locks
what it deletes (`DeleteRole`). Waiting for a key that an open transaction has
inserted is modelled for `user_roles`, where two changes of one user's roles meet;
elsewhere the one who waits has nothing the other one needs. PostgreSQL fails one
transaction of a cycle (`Victim`), whose handler returns. `Families` are the
operations that run together in one behaviour.

### ConnectionPool
`stage` says what a request waits for or has. `resetPassword` and
`forgotPassword` read the tenant on the pool while their transaction is open
(`AskMore`). The pool is a library and external: first come, first served. A
request that waits for a row keeps its connection (`WaitForRow`), and a nested
handler that waits for its second connection keeps its rows: so one of them is
enough to stall the pool, when every other connection is with a request that waits,
directly or in a row, for what it has locked.

### IPWhitelist
The three switches are one JSON value. A request of an admin carries the copy
its middleware read (`seen`); giratina carries the copy of an open page. `Save`
writes all of them. Rules have addresses; whether an address is in a rule's
range is equality here. `UpdateIPLabel` changes a text only. `ActivateRead` and
`EmergencyRead` join two reads of rows that do not constrain each other. `risks`
says what may have shut everybody out by chance since the whitelist was last
switched off by a request that was alone: requests that overlapped when one of them
saved or deleted, or a rule deleted by an admin whom no rule lists.

### Roles
One tenant. `Effective`, `UserHasPermission` and `Shown` are the two SQL
queries with their fallbacks. Requests are checked in `Context` and `Pass`, then
act: `Invite`, `Remove`, `Create`, `Update` have no read that another request
could spoil and are one action; `SetRead`/`SetCommit` and
`DeleteRead`/`DeleteCommit` are cut between what they read and what they write.

## 4. Runs

Two processes of TLC, no run above four minutes. Every property of a passing
run is violated under that run's own instance by a slip of the code named in
`PROJECT.json`.

| run | instance | shows |
|---|---|---|
| `rate_limiter` | 2 keys, window 2, limit 2, clock to 5, 6 grants per key | `AtMostMaxPerWindow`, `RemembersWhatCounts`, `RefusesOnlyWhenFull` |
| `sessions` | 1 account that is customer, operator and internal user at once, 2 tokens, 2 links, 2 handlers, 2 credential changes | `RotatedIsSpent`, `OnlyOverlapSurvivesChange`, `TokensAreOneTime`, `LinksAreOneTime`, `SettledDeletionIsFinal` |
| `sessions_replay` | 1 customer, 3 tokens, no links, 1 change | **violation** of `NoTokenRotatedTwice` |
| `sessions_deleted` | 1 customer, 2 tokens, 1 link | **violation** of `DeletedStaysAnonymised` |
| `accounts` | 2 accounts, 2 addresses, 2 invitations, 1 change link, 1 reset link, 2 handlers | `OneHolderPerAddress`, `PendingWasMailed`, `DeletedStaysAnonymous`, `FirstPasswordStays`, `InvitationsAreOneTime`, `EmailChangesAreOneTime`, `KeepsAddressBook` |
| `sso` | both methods, 2 persons, 1 outside address, 3 accounts, 2 stored requests, 2 handlers | `EachRequestOnce`, `SecondAccountOnlyAfterMove`, `AccountEnteredByItsPerson`, `PasswordTenantAdmitsOnlyProvisioned`, `KeepsAddressBook` |
| `locks` | 3 transactions, 2 accounts, one of them with a session, 2 roles; three families of operations | `CyclesReplaceKeys`, `OnlyCyclesStop`, `AllEnd` |
| `pool` | 3 connections, 3 nested handlers and a plain one, 2 rows | `OnlyNestedStall`, `WaitsEnd` |
| `ip` | 2 admins, 1 of them internal, and the staff, 2 addresses, 2 rules, 1 emergency token, 2 requests | `OnlyOverlapUndoes`, `ForcedHasWayOut`, `ShutOutOnlyForced`, `EmergencyIsOneTime` |
| `ip_locked_out` | 1 admin, 2 rules | **violation** of `LockedOutWasSentToken` |
| `roles_races` | 2 users, 1 custom role, 2 requests, 3 role sets, 2 permission sets | `RolesAsAsked`, `EnforcedAsShown`, `LastManagerStays` |
| `roles_off` | the same | **violation** of `NoCustomWhileOff` |

**Why these bounds.** Every race here is between a reader that becomes a writer
and one other writer, so two handlers show it; three transactions allow a
deadlock that is not a pair. Three tokens are the least in which one is rotated
twice, two the least in which a rotation meets another sign-in of the account,
and one account is enough for `Sessions`, whose rows never refer to two. Two
credential changes are the least in which a session can outlive one and not the
other, two links the least in which one replaces the other while it is redeemed.
Two invitations are one and its resend, two accounts and addresses the least in
which one address is fought over and another is moved to; one reset link is handed out
again once nobody knows it, so resets are not bounded. Three accounts are one
more than the persons and two stored requests one per person or two of the same.
Two admins and two rules are the least in which one deletes the rule the other comes
in by; that an older emergency token is used against a newer activation needs two of
them and is left to the theorems, which are for any number. The window of the limiter passes twice. The pool has exactly as
many nested handlers as connections, the least that stalls without rows, and two
rows, the least for a cycle. The theorems say that
the safety results do not depend on these numbers.

In `locks` one administrator invites and changes roles (`Admins`), and the
operations run in three families, which keeps three transactions within reach:
those on accounts, those on roles, and those on invitations with the deletions
that meet them. Transactions of different families meet on the rows of `users`
and `role` only; `DeadlocksReplaceKeys` is proved without families. Each of the four operations that the property exempts is needed:
without it TLC finds a cycle, among them one of two changes of the same user's
roles, and one of an update and a deletion of the same role.

**Symmetry** is used for interchangeable identifiers and only in runs without
liveness.

**Deadlock checking** is off in the `LockOrder` run, which stops when all
transactions have ended, and in the `Sessions` runs, where the only account may
be deleted before anybody has signed in; elsewhere it is on and none is found.

**Fairness.** `AllEnd` assumes that a handler which can go on does, that
PostgreSQL grants a free lock and that it detects deadlocks: for each
transaction, weak fairness of `Take \/ Wait \/ Obtain \/ Commit \/ Victim`. It does not assume that anybody calls or
fails. Transactions are bounded in number, as PostgreSQL's queue of lock
waiters is not modelled. `WaitsEnd` assumes weak fairness of `GiveBack`, `End`,
`Obtain` and `Victim`: a handler that has its connections runs on, and PostgreSQL
hands over a row that is free and ends a cycle. It does not assume that clients
give up; the case in which a stalled pool is left by nobody is in the
premise of the property, and `OnlyNestedStall` says when it arises.

## 5. What the violations say

* `NoTokenRotatedTwice`: `jirachi/auth/middleware.go:144` promises to prevent
  the replay of a used refresh token, but two rotations that read the row before
  either commits both succeed. What does hold is `RotatedIsSpent`.
* `DeletedStaysAnonymised`: a reset link issued before an account is deleted
  stays good and gives the deleted account a working hash, which
  `docs/features/user-management.md:15` says deletion invalidates. What does hold is
  `SettledDeletionIsFinal`: once no reset link of the account works and no handler
  that could sign it in or change its password is in flight, it stays without a
  password for good, and its remaining sessions are rotated but no new one begins.
* `LockedOutWasSentToken`: `docs/features/ip-whitelisting.md:9` says that a user
  who is locked out can use a token from their mail; a safe activation beside a
  deletion that began earlier locks its own activator out without a token. For all
  admins at once, `ShutOutOnlyForced` says how it can happen without force: by such an
  overlap, or by an internal admin, let in by the bypass, who deletes the rules the
  others come in by (`DeleteRead` protects only the caller's own).
* `NoCustomWhileOff`: `docs/features/rbac.md:18` says that custom roles cannot be
  assigned while RBAC is off; the routes that assign roles do not ask.

Met on the way and without a run: the administrator role is described as able to
access every feature (`signup.go:168`) but cannot see the audit log, because only
edit permissions are granted; the editor and viewer roles have no permissions.
`docs/features/tenant-onboarding.md:15` speaks of an internal user in every tenant,
but the open signup creates none, so nobody can be entered there by an operator.
And two hazards that no property is about, as nothing is promised of them: the
limiter keeps an entry for every key it has ever seen (`ratelimit.go:13`), and one
address can be listed twice (`add_ip_to_whitelist.go:69`), so that deleting a rule
leaves it in force.

## 6. Proofs

All are checked by TLAPS from the named assumptions on constants, which state
only that the special values (`NoUser`, `NoToken`, ...) are not ordinary ones and
that bounds are natural numbers or sets finite. The bounds of a model (`MaxEpoch`,
`MaxTime`, the sets of tokens and requests) are arbitrary in the theorems.

* **RateLimiterProofs**: `LimiterTypes`, `WindowNeverOverflows`, `PruningOnlyForgets`,
  `NeverRefusesEarly`. `AtMostMaxPerWindow` is not inductive: it must be known that
  no grant lies in the future and that the slice has everything that still counts
  (`History`, `RemembersWhatCounts`); then a window that ends later than now lies
  in what the call has just counted.
* **SessionsProofs**: `SessionTypes`, `RotationSpends`, `ChangeEndsSessions`,
  `TokensImplementOneTime`, `LinksImplementOneTime`, `DeletionIsFinal`. The invariant adds to the
  types: one credential change per account at a time (`OneChange`, the row lock),
  handlers in flight know the changes they overlap, a change about to commit dooms
  every session that does not (`Survival`), and a reset in flight has an issued
  link of the account it changes (`LinksHeld`). The refinements go step by step: a
  handler that reads claims, one that commits consumes, everything else turns
  tokens over without bringing back a spent one. `DeletionIsFinal` is an action
  property: every way into a session or to a password asks for a live account, a good
  link or an unspent token, except the handlers that `Settled` rules out; it needs
  that whoever replaces credentials is one of the three handlers (`ChangesHaveKind`),
  of which only the change of address leaves the password as it is.
* **AccountsProofs**: `AccountTypes`, `OneHolder`, `PendingHasMail`,
  `DeletedGetsNothingNew`, `FirstPasswordWins`, `InvitationsImplementOneTime`,
  `EmailChangesImplementOneTime`, `AccountsKeepBook`, `AddressesExact`. `OneHolderPerAddress` needs the keys of
  transactions that have not committed (`KeysHeld`) and that a row which is not
  there has no address (`NoRowYet`, `RowsExist`); `PendingWasMailed` that an
  invitation on its way is in no row and no other hand (`FreshLinks`), so that
  accepting an older one cannot use it up (`LinksInHand`, `LinksInRows`).
  `DeletedGetsNothingNew` and `FirstPasswordWins` are action properties and are proved
  step by step: a handler that begins asks for a live account or a working reset
  link, one that ends writes only what it had in hand (`RecordSettles`,
  `ReadSettles`, `WriteSettles`, `PasswordsStay`). `AccountsKeepBook` maps each step to one of the address
  book: what is `Claimable` and not the row's own already is free of holders and of
  promises, and an account that writes an address is in no open invitation. `AddressesExact` is what
  follows from the book alone, by an invariant of the abstract specification
  (`BookExact`).
* **SSOProofs**: `SSOTypes`, `RequestsWorkOnce`, `OneAccountPerPerson`,
  `OwnPersonEnters`, `PasswordTenantRefuses`, `SSOKeepsBook`, `ProvisionedExact`. The key is `OneName`: everything that
  says whose an account is (its address, its external id, the callbacks that have
  it in hand) says the same until the account moves its address. With it, linking
  by id writes what is there already or nothing contradicts, and two live accounts
  of one person would have one address, which `OneHolder` and `KeysHeld` exclude.
  `SessionAhead` says what a callback about to make a session has done.
  `SSOKeepsBook` is the refinement of the address book, with the same lemmas; its
  book opens with the founder's address.
* **LockOrderProofs**: `LockTypes`, `DeadlocksReplaceKeys`, `CyclesAlone`,
  `OrderlyNeverStop`. The invariant says that
  what a transaction has and still needs is a plan of its operation, taken stage
  after stage (`Planning`), that it waits only for a row of its statement
  (`WaitsWhereDue`) and that conflicting locks are held by one transaction
  (`Exclusive`). Every operation outside the exempted four takes rows by the level
  of their table: `users` and `role`, then links, permissions and invitations, then
  session tokens; `KEY SHARE` on a user's row never waits for one of them. Two
  exceptions are ordered otherwise: roles that an invitation shares with everybody,
  and the session tokens of one account, whose row is locked first. A cycle of such
  operations would climb for ever. `CyclesAlone` needs that who is over holds
  nothing: in a set of transactions that wait only for one another, whoever cannot
  go on waits for a member that is not over either, so if none can go on they are a
  cycle. With `DeadlocksReplaceKeys` it gives `OrderlyNeverStop`: operations outside
  the four always have one that can go on, without PostgreSQL's help.
* **ConnectionPoolProofs**: `PoolTypes`, `StallsOnlyNested`, `FewNestedStallOnRow`,
  `NoNestedNeverStalls`. How many connections each stage has (`Holding`), that
  nobody waits beside a free one (`NoIdleConnWhileWaiting`) and that rows are locked
  by requests with a connection (`LockedByConnected`) are inductive with the types.
  In a stall the requests that wait for rows are no cycle, so one of them waits for
  a row of somebody who does not: a nested handler. If none waits for a row the
  connections go one to one to nested handlers, so as many are needed.
* **IPWhitelistProofs**: `WhitelistTypes`, `UndoneByOverlapOnly`,
  `ForcedCanBeLifted`, `NobodyShutsAllOut`, `EmergencyImplementsOneTime`. A copy of the switches in flight may differ from what is
  meant only where overlap is recorded (`SeenBeforeSet`), and the token of a
  forced activation in flight is in one request's hand only (`InHand`).
  `ShutOutOnlyForced` needs that what requests in flight have read still holds, as
  long as nothing overlapped (`NothingStale`, `StillSo`): the copies of the switches
  are current, an activator is still listed, a deleter is not after the rule it comes
  in by.
* **RolesProofs**: `RoleTypes`, `RolesOnlyLostByRace`, `FallbacksAgree`,
  `ManagersStay`. A role in deletion is used only by users on record
  (`DeletionsSeen`), a change in flight is about somebody else (`OthersOnly`).
  `FallbacksAgree` rests on the default viewer role having no permissions: the
  two queries would differ otherwise.

**Only model-checked**: the liveness properties `AllEnd` and `WaitsEnd`, as
liveness is out of the prover's reach (their safety cores are theorems: that only a
cycle stops a set of transactions, and what a stalled pool looks like), and that the four properties of the
violation runs do not hold.

## 7. Not modelled

Access tokens (signed values that expire); cookies and redirects; the content and
delivery of mail, beyond the moment it leaves; what an identity provider does and
the verification of what it sends, which is the library's; matching an address
against a CIDR range and the text of a rule's label, which is why the whitelist is
only partly modelled; names, descriptions and lists; reading the audit log, whose
rows are written with the change they report and decide nothing; the own profile
and the tenant's name, single columns that the last writer wins; the frontends,
except giratina's edit page with its old copy; the generated queries for display
(those that decide are definitions of the modules); migrations as such;
deployment, development scripts and test doubles. The limiters stand in front of
the handlers and are not composed with them: a refused call changes nothing.
Tenants are separate throughout the schema and each module has one, except that
`Accounts` counts the addresses of all, as `users.email` is unique across tenants.
