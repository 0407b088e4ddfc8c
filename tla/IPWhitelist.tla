----------------------------- MODULE IPWhitelist -----------------------------
(***************************************************************************)
(* The IP whitelist of one tenant: the switches in tenants.enterprise_-    *)
(* features that decide whether it is enforced, its rules, the tokens that *)
(* lift it in an emergency, and the requests that read all these in one    *)
(* statement and write them in a later one.                                *)
(*                                                                         *)
(* The switches are one JSON value: whoever changes one of them writes all *)
(* of them back, as read before.  A request of an admin reads them first   *)
(* in its middleware; a staff member of giratina reads them with the page. *)
(***************************************************************************)
CONSTANTS
    Admins,     \* users of the tenant with ip_whitelist.edit
    Internal,   \* the internal accounts among them
    Home,       \* the address each admin calls from
    Addresses,
    Rules,      \* identifiers of rules; free for reuse once nobody knows them
    Jtis,       \* bound of the model: emergency tokens ever made
    Requests,   \* bound of the model: requests and open pages at a time
    Staff, NoUser, NoToken, NoRule

ASSUME HomeAssumption == Home \in [Admins -> Addresses] /\ Addresses # {}
ASSUME InternalAssumption == Internal \subseteq Admins
ASSUME StaffAssumption == {Staff, NoUser} \cap Admins = {} /\ NoToken \notin Jtis

VARIABLES
    features,   \* the switches in the database
    rules,      \* the rules there are, with their addresses
    mailed,     \* emergency tokens sent by mail
    owner,      \* the admin each one names
    stored,     \* those that have a row
    used,       \* those whose row has used_at
    expired,    \* those past their 30 minutes
    req,        \* requests in flight and pages that are open
    meant,      \* the value each switch was last set to, by one who meant to
    overlap,    \* whether another writer was in flight at that time
    risks,      \* why everybody may be shut out by chance, since it was last off
    forcedBy    \* the token of the forced activation that is in force

vars == <<features, rules, mailed, owner, stored, used, expired, req, meant, overlap, risks, forcedBy>>

Switches == {"enabled", "active", "bypass"}
Off == [s \in Switches |-> FALSE]
Steps == {"idle", "context", "inside", "activate", "force", "mailed", "add", "delete",
          "emergency", "page"}
Request == [step : Steps, user : Admins \cup {Staff, NoUser}, seen : [Switches -> BOOLEAN],
            rule : Rules \cup {NoRule}, address : Addresses, token : Jtis \cup {NoToken}]
Idle == [step |-> "idle", user |-> NoUser, seen |-> Off, rule |-> NoRule,
         address |-> CHOOSE a \in Addresses : TRUE, token |-> NoToken]

TypeOK ==
    /\ features \in [Switches -> BOOLEAN]
    /\ rules \subseteq Rules \X Addresses
    /\ \A p, q \in rules : p[1] = q[1] => p = q
    /\ owner \in [Jtis -> Admins \cup {NoUser}]
    /\ used \subseteq stored /\ expired \subseteq stored /\ stored \subseteq mailed
    /\ mailed \subseteq Jtis
    /\ \A j \in mailed : owner[j] \in Admins
    /\ req \in [Requests -> Request]
    /\ meant \in [Switches -> BOOLEAN]
    /\ overlap \in [Switches -> BOOLEAN]
    /\ risks \subseteq {"overlap", "bypass"}
    /\ forcedBy \in Jtis \cup {NoToken}

Init ==
    /\ features \in {f \in [Switches -> BOOLEAN] : ~f["active"]}
    /\ rules = {}
    /\ mailed = {} /\ stored = {} /\ used = {} /\ expired = {}
    /\ owner = [j \in Jtis |-> NoUser]
    /\ req = [r \in Requests |-> Idle]
    /\ meant = features
    /\ overlap = Off
    /\ risks = {}
    /\ forcedBy = NoToken

------------------------------------------------------------------------------
Listed(a) == \E p \in rules : p[2] = a

\* IPWhitelistMiddleware, with the switches of the context: it reads rules and
\* switches once more if the context says that the whitelist is enforced.
LetIn(u, seen) ==
    seen["enabled"] /\ seen["active"] =>
        /\ features["enabled"] /\ rules # {}
        /\ (features["bypass"] /\ u \in Internal) \/ Listed(Home[u])

\* ValidateEmergencyToken, and the row it looks up.
Usable == (stored \ used) \ expired

GoesTo(r, step) == req' = [req EXCEPT ![r].step = step]
Done(r) == req' = [req EXCEPT ![r] = Idle]

\* Another request or page is in flight beside r.
Beside(r) == \E q \in Requests \ {r} : req[q].step # "idle"

\* Mutant of Save: the JSON is rebuilt from the switches that change.
SaveOnlyOwn(r, own, value) ==
    /\ features' = [s \in Switches |-> s \in own /\ value[s]]
    /\ meant' = [s \in Switches |-> IF s \in own THEN value[s] ELSE meant[s]]
    /\ overlap' = [s \in Switches |-> IF s \in own THEN Beside(r) ELSE overlap[s]]
    /\ risks' = IF Beside(r) THEN risks \cup {"overlap"}
                ELSE IF value["active"] THEN risks ELSE {}

\* UpdateTenantEnterpriseFeatures: all switches, of which the request means to
\* set its own.
Save(r, own, value) ==
    /\ features' = value
    /\ meant' = [s \in Switches |-> IF s \in own THEN value[s] ELSE meant[s]]
    /\ overlap' = [s \in Switches |-> IF s \in own THEN Beside(r) ELSE overlap[s]]
    /\ risks' = IF Beside(r) THEN risks \cup {"overlap"}
                ELSE IF value["active"] THEN risks ELSE {}

------------------------------------------------------------------------------
\* LoadTenantAndUserContext.
Context(r, u) ==
    /\ req[r].step = "idle"
    /\ req' = [req EXCEPT ![r] = [Idle EXCEPT !.step = "context", !.user = u, !.seen = features]]
    /\ UNCHANGED <<features, rules, mailed, owner, stored, used, expired, meant, overlap, risks, forcedBy>>

\* IPWhitelistMiddleware and RequireIPWhitelist let the request in.
Enter(r) ==
    /\ req[r].step = "context"
    /\ LetIn(req[r].user, req[r].seen) /\ req[r].seen["enabled"]
    /\ GoesTo(r, "inside")
    /\ UNCHANGED <<features, rules, mailed, owner, stored, used, expired, meant, overlap, risks, forcedBy>>

\* validateActivationSafety, and the switches read again.
ActivateRead(r) ==
    /\ req[r].step = "inside"
    /\ Listed(Home[req[r].user])
    /\ req' = [req EXCEPT ![r].step = "activate", ![r].seen = features]
    /\ UNCHANGED <<features, rules, mailed, owner, stored, used, expired, meant, overlap, risks, forcedBy>>

\* With force there is no safety check.
ForceRead(r) ==
    /\ req[r].step = "inside"
    /\ req' = [req EXCEPT ![r].step = "force", ![r].seen = features]
    /\ UNCHANGED <<features, rules, mailed, owner, stored, used, expired, meant, overlap, risks, forcedBy>>

ActivateCommit(r) ==
    /\ req[r].step = "activate"
    /\ Save(r, {"active"}, [req[r].seen EXCEPT !["active"] = TRUE])
    /\ Done(r)
    /\ UNCHANGED <<rules, mailed, owner, stored, used, expired, forcedBy>>

\* Mutant of MailToken: the token's claims name nobody.
MailTokenNoUser(r, j) ==
    /\ req[r].step = "force"
    /\ j \notin mailed
    /\ mailed' = mailed \cup {j}
    /\ req' = [req EXCEPT ![r].step = "mailed", ![r].token = j]
    /\ UNCHANGED <<features, rules, owner, stored, used, expired, meant, overlap, risks, forcedBy>>

\* createEmergencyTokenAndSendEmail: the mail leaves before the commit.
MailToken(r, j) ==
    /\ req[r].step = "force"
    /\ j \notin mailed
    /\ mailed' = mailed \cup {j}
    /\ owner' = [owner EXCEPT ![j] = req[r].user]
    /\ req' = [req EXCEPT ![r].step = "mailed", ![r].token = j]
    /\ UNCHANGED <<features, rules, stored, used, expired, meant, overlap, risks, forcedBy>>

\* Mutant of ForceCommit: the token's row is not written.
ForceCommitNoRow(r) ==
    /\ req[r].step = "mailed"
    /\ Save(r, {"active"}, [req[r].seen EXCEPT !["active"] = TRUE])
    /\ forcedBy' = req[r].token
    /\ Done(r)
    /\ UNCHANGED <<rules, mailed, owner, stored, used, expired>>

ForceCommit(r) ==
    /\ req[r].step = "mailed"
    /\ Save(r, {"active"}, [req[r].seen EXCEPT !["active"] = TRUE])
    /\ stored' = stored \cup {req[r].token}
    /\ forcedBy' = req[r].token
    /\ Done(r)
    /\ UNCHANGED <<rules, mailed, owner, used, expired>>

\* The switches are those of the middleware, not read again.
Deactivate(r) ==
    /\ req[r].step = "inside"
    /\ Save(r, {"active"}, [req[r].seen EXCEPT !["active"] = FALSE])
    /\ forcedBy' = NoToken
    /\ Done(r)
    /\ UNCHANGED <<rules, mailed, owner, stored, used, expired>>

\* CheckIPExists; the transaction that inserts begins afterwards.
AddRead(r, a) ==
    /\ req[r].step = "inside" /\ ~Listed(a)
    /\ req' = [req EXCEPT ![r].step = "add", ![r].address = a]
    /\ UNCHANGED <<features, rules, mailed, owner, stored, used, expired, meant, overlap, risks, forcedBy>>

Known(id) == \/ \E p \in rules : p[1] = id
             \/ \E q \in Requests : req[q].rule = id

AddCommit(r) ==
    /\ req[r].step = "add"
    /\ \E id \in Rules : ~Known(id) /\ rules' = rules \cup {<<id, req[r].address>>}
    /\ Done(r)
    /\ UNCHANGED <<features, mailed, owner, stored, used, expired, meant, overlap, risks, forcedBy>>

\* Mutant of DeleteRead: any rule may go.
DeleteReadAny(r, p) ==
    /\ req[r].step = "inside" /\ p \in rules
    /\ req' = [req EXCEPT ![r].step = "delete", ![r].rule = p[1]]
    /\ UNCHANGED <<features, rules, mailed, owner, stored, used, expired, meant, overlap, risks, forcedBy>>

\* An enforced whitelist keeps the rule its caller comes in by.
DeleteRead(r, p) ==
    /\ req[r].step = "inside" /\ p \in rules
    /\ ~(req[r].seen["active"] /\ p[2] = Home[req[r].user])
    /\ req' = [req EXCEPT ![r].step = "delete", ![r].rule = p[1]]
    /\ UNCHANGED <<features, rules, mailed, owner, stored, used, expired, meant, overlap, risks, forcedBy>>

DeleteCommit(r) ==
    /\ req[r].step = "delete"
    /\ rules' = {p \in rules : p[1] # req[r].rule}
    /\ risks' = risks \cup (IF Beside(r) THEN {"overlap"} ELSE {})
                    \cup (IF features["active"] /\ ~Listed(Home[req[r].user]) THEN {"bypass"} ELSE {})
    /\ Done(r)
    /\ UNCHANGED <<features, mailed, owner, stored, used, expired, meant, overlap, forcedBy>>

\* Mutant of EmergencyRead: used_at is not looked at.
EmergencyReadEvenUsed(r, j) ==
    /\ req[r].step = "context" /\ req[r].seen["enabled"]
    /\ j \in stored \ expired /\ owner[j] = req[r].user
    /\ req' = [req EXCEPT ![r].step = "emergency", ![r].token = j, ![r].seen = features]
    /\ UNCHANGED <<features, rules, mailed, owner, stored, used, expired, meant, overlap, risks, forcedBy>>

\* The middleware exempts this path; token and switches are read.
EmergencyRead(r, j) ==
    /\ req[r].step = "context" /\ req[r].seen["enabled"]
    /\ j \in Usable /\ owner[j] = req[r].user
    /\ req' = [req EXCEPT ![r].step = "emergency", ![r].token = j, ![r].seen = features]
    /\ UNCHANGED <<features, rules, mailed, owner, stored, used, expired, meant, overlap, risks, forcedBy>>

EmergencyCommit(r) ==
    /\ req[r].step = "emergency"
    /\ Save(r, {"active"}, [req[r].seen EXCEPT !["active"] = FALSE])
    /\ used' = used \cup {req[r].token}
    /\ forcedBy' = NoToken
    /\ Done(r)
    /\ UNCHANGED <<rules, mailed, owner, stored, expired>>

Expire(j) ==
    /\ j \in stored \ expired
    /\ expired' = expired \cup {j}
    /\ UNCHANGED <<features, rules, mailed, owner, stored, used, req, meant, overlap, risks, forcedBy>>

\* giratina's tenant page, and its UpdateTenant: what the staff leave alone
\* goes back as the page has it.
OpenPage(r) ==
    /\ req[r].step = "idle"
    /\ req' = [req EXCEPT ![r] = [Idle EXCEPT !.step = "page", !.user = Staff, !.seen = features]]
    /\ UNCHANGED <<features, rules, mailed, owner, stored, used, expired, meant, overlap, risks, forcedBy>>

SavePage(r) ==
    /\ req[r].step = "page"
    /\ \E on, bypass \in BOOLEAN :
          Save(r, {"enabled", "bypass"}, [req[r].seen EXCEPT !["enabled"] = on, !["bypass"] = bypass])
    /\ Done(r)
    /\ UNCHANGED <<rules, mailed, owner, stored, used, expired, forcedBy>>

\* Refused, failed (the deferred Rollback) or closed.
Abort(r) ==
    /\ req[r].step # "idle"
    /\ Done(r)
    /\ UNCHANGED <<features, rules, mailed, owner, stored, used, expired, meant, overlap, risks, forcedBy>>

Next ==
    \/ \E r \in Requests :
          \/ \E u \in Admins : Context(r, u)
          \/ Enter(r) \/ ActivateRead(r) \/ ActivateCommit(r)
          \/ ForceRead(r) \/ ForceCommit(r) \/ Deactivate(r)
          \/ \E j \in Jtis : MailToken(r, j) \/ EmergencyRead(r, j)
          \/ \E a \in Addresses : AddRead(r, a)
          \/ AddCommit(r) \/ DeleteCommit(r) \/ EmergencyCommit(r)
          \/ \E p \in rules : DeleteRead(r, p)
          \/ OpenPage(r) \/ SavePage(r) \/ Abort(r)
    \/ \E j \in Jtis : Expire(j)

Spec == Init /\ [][Next]_vars

------------------------------------------------------------------------------
\* What a request has in hand from one step to the next: a token it mailed has
\* no row yet and is its own, one it was given has a row, and switches that are
\* not as they were meant were read before they were set.
InHand ==
    /\ \A r \in Requests :
          /\ req[r].step \notin {"idle", "page"} => req[r].user \in Admins
          /\ req[r].step = "mailed" => req[r].token \in mailed \ stored
          /\ req[r].step = "emergency" => req[r].token \in stored
    /\ \A r, q \in Requests :
          req[r].step = "mailed" /\ req[q].step = "mailed" /\ r # q
              => req[r].token # req[q].token

SeenBeforeSet == \A r \in Requests : req[r].step # "idle" =>
    \A s \in Switches : req[r].seen[s] # meant[s] => overlap[s]

\* A switch has the value it was last set to on purpose, unless another request
\* or page that carries all switches was in flight at that moment: nobody else
\* turns enforcement, the feature or the bypass on or off.
OnlyOverlapUndoes == \A s \in Switches : features[s] # meant[s] => overlap[s]

\* As long as a forced activation is in force its token has a row that was not
\* used, so the admin who forced it is locked out for lack of time only.
ForcedHasWayOut == forcedBy # NoToken => forcedBy \in stored \ used /\ owner[forcedBy] \in Admins

\* The admins never shut all of themselves out unless one of them forced it and has
\* a token in hand (ForcedHasWayOut).  Either requests have overlapped since the
\* whitelist was last off, or an internal admin whom no rule lists, and who is let
\* in by the bypass, has deleted one.
ShutOut == features["active"] /\ \A u \in Admins : ~Listed(Home[u])
ShutOutOnlyForced == ShutOut /\ risks = {} => forcedBy # NoToken

\* Emergency tokens are one-time tokens: lifting the whitelist consumes one.
EmergencyTokens == INSTANCE OneTimeToken WITH
    Token <- Jtis, Claimer <- Requests,
    fresh <- Usable,
    spent <- stored \ Usable,
    consumed <- used,
    claim <- [r \in Requests |-> IF req[r].step = "emergency" THEN req[r].token ELSE NoToken]

EmergencyIsOneTime == EmergencyTokens!Spec

\* docs/features/ip-whitelisting.md:9 `If a user gets locked out, they can
\* deactivate the whitelist via a token sent to their email.'
LockedOut(u) == ~LetIn(u, features)
LockedOutWasSentToken == \A u \in Admins : LockedOut(u) => \E j \in stored : owner[j] = u

==============================================================================
