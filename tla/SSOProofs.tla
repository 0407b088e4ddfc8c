----------------------------- MODULE SSOProofs -----------------------------
(***************************************************************************)
(* The safety properties of SSO, for any number of persons, accounts,      *)
(* stored requests and handlers in flight.                                 *)
(***************************************************************************)
EXTENDS SSO, TLAPS

At(r, S) == req[r].step \in S

\* Steps of a callback, and those at which it has an account in hand.
Answering == {"acs.check", "acs.find", "acs.provision", "acs.activate", "acs.link", "acs.session"}
Holding == {"acs.activate", "acs.link", "acs.session"}

\* Steps that have an account, and those that have an address to write.
Bound == Holding \cup {"delete.commit", "move.commit"}
Writing == {"invite.tx", "invite.commit", "move.commit"}

\* An account that has no row yet has nothing else either.
NoRowYet ==
    \A a \in Accounts : status[a] = "none" =>
        /\ a \notin deleted \cup moved
        /\ email[a] = Nobody /\ ext[a] = Nobody /\ born[a] = NoAttempt

\* A row that is not deleted has an address.
LiveHasAddress == \A a \in Accounts : Live(a) => email[a] \in Emails

\* What each handler has in hand: its response, its account, its address.
InHand ==
    \A r \in Requests :
        /\ At(r, Answering) => req[r].attempt \in sent \ stored /\ req[r].email \in People
        /\ At(r, Bound) =>
              req[r].account \in Accounts /\ status[req[r].account] # "none"
        /\ ~At(r, Answering) => req[r].attempt = NoAttempt
        /\ At(r, Writing) => req[r].email \in Emails
        /\ At(r, {"invite.commit"}) => req[r].account \in Accounts /\ status[req[r].account] = "none"

\* The UNIQUE keys of invitations about to commit, and of the rows.
KeysHeld ==
    \A r \in Requests : At(r, {"invite.commit"}) =>
        /\ \A b \in Accounts : email[b] # req[r].email
        /\ \A s \in Requests \ {r} : At(s, {"invite.commit"}) =>
              req[s].email # req[r].email /\ req[s].account # req[r].account

OneHolder == \A a, b \in Accounts : email[a] = email[b] /\ email[a] # Nobody => a = b

\* Sessions were made for accounts that have a row, from responses.
EnteredRows ==
    \A s \in entered : s.attempt \in sent \ stored /\ status[s.account] # "none"

\* All that says who an account belongs to: its row's address and external id,
\* and the callbacks that have it in hand.
Says(a, p) ==
    \/ email[a] = p
    \/ ext[a] = p
    \/ \E r \in Requests : At(r, Holding) /\ req[r].account = a /\ req[r].email = p

\* Unless the account changed its address, it all says the same.
OneName ==
    \A a \in Accounts \ moved : \A p, q \in Emails : Says(a, p) /\ Says(a, q) => p = q

\* A callback about to make a session has linked its account, or found it linked,
\* and in a password tenant it has provisioned it.
SessionAhead ==
    \A r \in Requests :
        /\ At(r, {"acs.session"}) =>
              /\ ext[req[r].account] = req[r].email \/ req[r].account \in moved
              /\ method = "password" => born[req[r].account] = req[r].attempt
        /\ At(r, {"acs.link"}) => method # "password"
        /\ At(r, {"acs.activate"}) /\ ~req[r].unlinked =>
              ext[req[r].account] = req[r].email \/ req[r].account \in moved

IInv ==
    /\ TypeOK /\ NoRowYet /\ LiveHasAddress /\ InHand /\ KeysHeld /\ OneHolder
    /\ EnteredRows /\ OneName /\ SessionAhead
    /\ EachRequestOnce /\ AccountEnteredByItsPerson /\ PasswordTenantAdmitsOnlyProvisioned

------------------------------------------------------------------------------
LEMMA IdleType ==
    /\ Idle \in Request /\ Idle.step = "idle" /\ Idle.attempt = NoAttempt
    /\ Idle.email = Nobody /\ Idle.account = NoAccount /\ Idle.unlinked = FALSE
BY DEF Idle, Request, Steps

LEMMA InitIInv == Init => IInv
<1> SUFFICES ASSUME Init PROVE IInv
  OBVIOUS
<1> USE IdleType, NoneAssumption, MethodsAssumption, EmailsAssumption DEF Init
<1>1. TypeOK
  BY DEF TypeOK, Emails
<1>2. NoRowYet /\ LiveHasAddress /\ OneHolder
  BY DEF NoRowYet, LiveHasAddress, OneHolder, Live
<1>3. InHand /\ KeysHeld /\ SessionAhead
  BY DEF InHand, KeysHeld, SessionAhead, At, Answering, Holding, Bound, Writing
<1>4. OneName
  BY DEF OneName, Says, At, Holding, Emails
<1>5. EnteredRows /\ EachRequestOnce /\ AccountEnteredByItsPerson /\ PasswordTenantAdmitsOnlyProvisioned
  BY DEF EnteredRows, EachRequestOnce, AccountEnteredByItsPerson, PasswordTenantAdmitsOnlyProvisioned
<1> QED  BY <1>1, <1>2, <1>3, <1>4, <1>5 DEF IInv

\* A second account that is linked to the same person has another address, which
\* only a change of address explains.
LEMMA SecondAccount == IInv => SecondAccountOnlyAfterMove
<1> SUFFICES ASSUME IInv, NEW a \in Accounts, NEW b \in Accounts, Live(a), Live(b),
                    ext[a] = ext[b], ext[a] # Nobody, a \notin moved, b \notin moved
             PROVE  a = b
  BY DEF SecondAccountOnlyAfterMove
<1>1. ext[a] \in Emails /\ email[a] \in Emails /\ email[b] \in Emails
  BY DEF IInv, TypeOK, LiveHasAddress, Emails
<1>2. email[a] = ext[a] /\ email[b] = ext[b]
  BY <1>1 DEF IInv, OneName, Says
<1> QED  BY <1>1, <1>2, NoneAssumption DEF IInv, OneHolder

------------------------------------------------------------------------------
\* Nothing new is said about any account.
LEMMA OneNameKept ==
    ASSUME OneName, moved \subseteq moved', \A a \in Accounts, p \in Emails : Says(a, p)' => Says(a, p)
    PROVE  OneName'
BY DEF OneName

\* A record that a handler may go on with.
Fits(r, rec) ==
    /\ rec.step \in Answering =>
          rec.attempt = req[r].attempt /\ rec.attempt \in sent \ stored /\ rec.email \in People
    /\ rec.step \notin Answering => rec.attempt = NoAttempt
    /\ rec.step \in Bound => rec.account \in Accounts /\ status[rec.account] # "none"
    /\ rec.step \in Holding =>
          \/ email[rec.account] = rec.email
          \/ At(r, Holding) /\ rec.account = req[r].account /\ rec.email = req[r].email
    /\ rec.step \in Writing => rec.email \in Emails
    /\ rec.step = "invite.commit" =>
          rec.account \in Accounts /\ Unmade(rec.account) /\ Claimable(rec.account, rec.email)
    /\ rec.step \in {"acs.link", "acs.session"} => method # "password"
    /\ rec.step = "acs.session" => ~rec.unlinked
    /\ rec.step \in {"acs.session", "acs.activate"} =>
          rec.unlinked \/ ext[rec.account] = rec.email \/ rec.account \in moved

\* Steps that change one handler's record, and at most make a pending row active.
LEMMA RecordKeeps ==
    ASSUME IInv, NEW r \in Requests, NEW rec \in Request, req' = [req EXCEPT ![r] = rec], Fits(r, rec),
           UNCHANGED <<tenantVars, email, deleted, ext, born, moved, requestVars, entered>>,
           status' \in [Accounts -> {"none", "pending", "active"}],
           \A a \in Accounts : status'[a] = "none" <=> status[a] = "none"
    PROVE  IInv'
<1> USE DEF IInv, At, Fits, tenantVars, requestVars
<1>0. req \in [Requests -> Request]
  BY DEF TypeOK
<1>1. TypeOK'
  BY DEF TypeOK
<1>2. /\ \A s \in Requests : s # r => req'[s] = req[s]
      /\ req'[r] = rec
  BY <1>0
<1>3. NoRowYet' /\ LiveHasAddress' /\ OneHolder' /\ EnteredRows'
  <2>1. NoRowYet' /\ LiveHasAddress' /\ OneHolder'
    BY DEF NoRowYet, LiveHasAddress, OneHolder, Live
  <2>2. \A s \in entered : s.account \in Accounts
    BY DEF TypeOK, Sessions
  <2>3. EnteredRows'
    BY <2>2 DEF EnteredRows
  <2> QED  BY <2>1, <2>3
<1>4. InHand'
  <2>1. rec.step = "invite.commit" => status[rec.account] = "none"
    BY DEF Unmade
  <2> QED  BY <1>2, <2>1 DEF InHand, Answering, Holding, Bound, Writing
<1>5. KeysHeld'
  <2>1. rec.step = "invite.commit" =>
          /\ \A b \in Accounts : email[b] # rec.email
          /\ \A s \in Requests : At(s, {"invite.commit"}) => req[s].email # rec.email /\ req[s].account # rec.account
    <3>1. CASE rec.step = "invite.commit"
      <4>1. email[rec.account] # rec.email
        BY <3>1, NoneAssumption DEF Unmade, NoRowYet, Writing
      <4> QED  BY <3>1, <4>1 DEF Claimable, Unmade
    <3> QED  BY <3>1
  <2> QED  BY <1>2, <2>1 DEF KeysHeld
<1>6. OneName'
  <2>1. ASSUME NEW a \in Accounts, NEW p \in Emails, Says(a, p)' PROVE Says(a, p)
    BY <1>2, <2>1 DEF Says
  <2> QED  BY <2>1, OneNameKept
<1>7. SessionAhead'
  BY <1>2 DEF SessionAhead
<1>8. EachRequestOnce'
  BY <1>2, NoneAssumption DEF EachRequestOnce
<1>9. AccountEnteredByItsPerson' /\ PasswordTenantAdmitsOnlyProvisioned'
  BY DEF AccountEnteredByItsPerson, PasswordTenantAdmitsOnlyProvisioned
<1> QED  BY <1>1, <1>3, <1>4, <1>5, <1>6, <1>7, <1>8, <1>9

LEMMA RecordKept ==
    ASSUME IInv, NEW r \in Requests, NEW rec \in Request, req' = [req EXCEPT ![r] = rec], Fits(r, rec),
           UNCHANGED <<tenantVars, userVars, requestVars, entered>>
    PROVE  IInv'
<1>1. status \in [Accounts -> {"none", "pending", "active"}]
  BY DEF IInv, TypeOK
<1> QED  BY <1>1, RecordKeeps DEF userVars

\* A handler that begins, and is no callback.
LEMMA BeginKeeps ==
    ASSUME IInv, NEW r \in Requests,
           \/ LoginRead(r)
           \/ \E x \in Emails : InviteRead(r, x)
           \/ \E a \in Accounts : DeleteRead(r, a)
           \/ \E a \in Accounts, x \in Emails : MoveRead(r, a, x)
    PROVE  IInv'
<1> USE IdleType DEF Answering, Holding, Bound, Writing
<1>1. CASE LoginRead(r)
  <2> DEFINE rec == [Idle EXCEPT !.step = "login.store"]
  <2>1. rec \in Request /\ rec.step = "login.store" /\ rec.attempt = NoAttempt
    BY DEF Request, Steps
  <2> HIDE DEF rec
  <2>2. req' = [req EXCEPT ![r] = rec] /\ UNCHANGED <<tenantVars, userVars, requestVars, entered>>
    BY <1>1 DEF LoginRead, Start, rec
  <2> QED  BY <2>1, <2>2, RecordKept DEF Fits
<1>2. ASSUME NEW x \in Emails, InviteRead(r, x) PROVE IInv'
  <2> DEFINE rec == [Idle EXCEPT !.step = "invite.tx", !.email = x]
  <2>1. rec \in Request /\ rec.step = "invite.tx" /\ rec.attempt = NoAttempt /\ rec.email \in Emails
    BY DEF Request, Steps, Idle
  <2> HIDE DEF rec
  <2>2. req' = [req EXCEPT ![r] = rec] /\ UNCHANGED <<tenantVars, userVars, requestVars, entered>>
    BY <1>2 DEF InviteRead, Start, rec
  <2> QED  BY <2>1, <2>2, RecordKept DEF Fits
<1>3. ASSUME NEW a \in Accounts, DeleteRead(r, a) PROVE IInv'
  <2> DEFINE rec == [Idle EXCEPT !.step = "delete.commit", !.account = a]
  <2>1. rec \in Request /\ rec.step = "delete.commit" /\ rec.attempt = NoAttempt /\ rec.account = a
    BY DEF Request, Steps, Idle
  <2> HIDE DEF rec
  <2>2. req' = [req EXCEPT ![r] = rec] /\ UNCHANGED <<tenantVars, userVars, requestVars, entered>>
    BY <1>3 DEF DeleteRead, Start, rec
  <2>3. status[a] # "none"
    BY <1>3 DEF DeleteRead, Live
  <2> QED  BY <2>1, <2>2, <2>3, RecordKept DEF Fits
<1>4. ASSUME NEW a \in Accounts, NEW x \in Emails, MoveRead(r, a, x) PROVE IInv'
  <2> DEFINE rec == [Idle EXCEPT !.step = "move.commit", !.account = a, !.email = x]
  <2>1. /\ rec \in Request /\ rec.step = "move.commit" /\ rec.attempt = NoAttempt
        /\ rec.account = a /\ rec.email = x
    BY DEF Request, Steps, Idle
  <2> HIDE DEF rec
  <2>2. req' = [req EXCEPT ![r] = rec] /\ UNCHANGED <<tenantVars, userVars, requestVars, entered>>
    BY <1>4 DEF MoveRead, Start, rec
  <2>3. status[a] # "none"
    BY <1>4 DEF MoveRead, Live
  <2> QED  BY <2>1, <2>2, <2>3, RecordKept DEF Fits
<1> QED  BY <1>1, <1>2, <1>3, <1>4

\* A handler that gives up.
LEMMA AbortKeeps ==
    ASSUME IInv, NEW r \in Requests, Abort(r)
    PROVE  IInv'
BY IdleType, RecordKept DEF Fits, Abort, Finish, Answering, Holding, Bound, Writing

\* A callback that has only read.
LEMMA ReadingKeeps ==
    ASSUME IInv, NEW r \in Requests, AcsCheck(r) \/ AcsUnknown(r)
    PROVE  IInv'
<1>1. PICK st \in {"acs.find", "acs.provision"} : req' = [req EXCEPT ![r].step = st]
  BY DEF AcsCheck, AcsUnknown, Become
<1> DEFINE rec == [req[r] EXCEPT !.step = st]
<1>2. req[r] \in Request
  BY DEF IInv, TypeOK
<1>3. rec \in Request /\ rec.step = st /\ rec.attempt = req[r].attempt /\ rec.email = req[r].email
  BY <1>2 DEF Request, Steps
<1>4. req' = [req EXCEPT ![r] = rec]
  BY <1>1
<1>5. req[r].attempt \in sent \ stored /\ req[r].email \in People
  BY DEF IInv, InHand, At, Answering, AcsCheck, AcsUnknown
<1>6. UNCHANGED <<tenantVars, userVars, requestVars, entered>>
  BY DEF AcsCheck, AcsUnknown
<1> HIDE DEF rec
<1> QED  BY <1>3, <1>4, <1>5, <1>6, RecordKept DEF Fits, Answering, Holding, Bound, Writing

\* What becomes of a known account is a session, a link or nothing.
LEMMA AdmittedCases ==
    ASSUME NEW rec \in Request
    PROVE  \/ Admitted(rec) = Idle /\ method = "password"
           \/ /\ Admitted(rec) \in Request /\ method # "password"
              /\ Admitted(rec).step = (IF rec.unlinked THEN "acs.link" ELSE "acs.session")
              /\ Admitted(rec).attempt = rec.attempt /\ Admitted(rec).email = rec.email
              /\ Admitted(rec).account = rec.account /\ Admitted(rec).unlinked = rec.unlinked
BY DEF Admitted, Request, Steps

\* A callback that finds the account of its address.
LEMMA FoundKeeps ==
    ASSUME IInv, NEW r \in Requests, NEW a \in Accounts, AcsFound(r, a)
    PROVE  IInv'
<1> DEFINE rec == [req[r] EXCEPT !.account = a, !.unlinked = (ext[a] = Nobody)]
           next == IF status[a] = "pending" THEN [rec EXCEPT !.step = "acs.activate"] ELSE Admitted(rec)
<1>1. req[r] \in Request
  BY DEF IInv, TypeOK
<1>2. /\ rec \in Request /\ rec.account = a /\ rec.attempt = req[r].attempt /\ rec.email = req[r].email
      /\ rec.unlinked = (ext[a] = Nobody)
  BY <1>1 DEF Request
<1>3. /\ req[r].attempt \in sent \ stored /\ req[r].email \in People
      /\ email[a] = req[r].email /\ Live(a)
  BY DEF IInv, InHand, At, Answering, AcsFound
<1>4. rec.unlinked \/ ext[a] = req[r].email \/ a \in moved
  <2>1. ext[a] \in Emails \cup {Nobody} /\ email[a] \in Emails
    BY <1>3 DEF IInv, TypeOK, Emails
  <2> QED  BY <1>2, <1>3, <2>1 DEF IInv, OneName, Says
<1>5. req' = [req EXCEPT ![r] = next] /\ UNCHANGED <<tenantVars, userVars, requestVars, entered>>
  BY DEF AcsFound
<1>6. status[a] # "none"
  BY <1>3 DEF Live
<1> HIDE DEF rec
<1>7. CASE status[a] = "pending"
  <2>1. /\ next \in Request /\ next.step = "acs.activate" /\ next.account = a
        /\ next.attempt = rec.attempt /\ next.email = rec.email /\ next.unlinked = rec.unlinked
    BY <1>2, <1>7 DEF Request, Steps
  <2> HIDE DEF next
  <2> QED  BY <1>2, <1>3, <1>4, <1>5, <1>6, <2>1, RecordKept DEF Fits, Answering, Holding, Bound, Writing
<1>8. CASE status[a] # "pending"
  <2>1. next = Admitted(rec)
    BY <1>8
  <2> HIDE DEF next
  <2>2. CASE next = Idle
    BY <1>5, <2>2, IdleType, RecordKept DEF Fits, Answering, Holding, Bound, Writing
  <2>3. CASE next # Idle
    <3>1. /\ next \in Request /\ method # "password"
          /\ next.step = (IF rec.unlinked THEN "acs.link" ELSE "acs.session")
          /\ next.attempt = rec.attempt /\ next.email = rec.email
          /\ next.account = rec.account /\ next.unlinked = rec.unlinked
      BY <1>2, <2>1, <2>3, AdmittedCases
    <3> QED  BY <1>2, <1>3, <1>4, <1>5, <1>6, <3>1, RecordKept DEF Fits, Answering, Holding, Bound, Writing
  <2> QED  BY <2>2, <2>3
<1> QED  BY <1>7, <1>8

\* The insertion behind an invitation, and its mail.
LEMMA MailKeeps ==
    ASSUME IInv, NEW r \in Requests, InviteMail(r)
    PROVE  IInv'
<1>1. PICK a \in Accounts : /\ Unmade(a) /\ Claimable(a, req[r].email)
                            /\ req' = [req EXCEPT ![r].step = "invite.commit", ![r].account = a]
  BY DEF InviteMail
<1> DEFINE rec == [req[r] EXCEPT !.step = "invite.commit", !.account = a]
<1>2. req[r] \in Request /\ req[r].email \in Emails /\ req[r].attempt = NoAttempt
  BY DEF IInv, TypeOK, InHand, At, Answering, Writing, InviteMail
<1>3. /\ rec \in Request /\ rec.step = "invite.commit" /\ rec.account = a
      /\ rec.email = req[r].email /\ rec.attempt = NoAttempt
  BY <1>2 DEF Request, Steps
<1>4. req' = [req EXCEPT ![r] = rec] /\ UNCHANGED <<tenantVars, userVars, requestVars, entered>>
  BY <1>1 DEF InviteMail
<1> HIDE DEF rec
<1> QED  BY <1>1, <1>2, <1>3, <1>4, RecordKept DEF Fits, Answering, Holding, Bound, Writing

\* A response takes the request it answers out of the table.
LEMMA TakeKeeps ==
    ASSUME IInv, NEW r \in Requests, NEW q \in Attempts, NEW p \in People, AcsTake(r, q, p)
    PROVE  IInv'
<1> DEFINE rec == [Idle EXCEPT !.step = "acs.check", !.attempt = q, !.email = p]
<1>1. /\ q \in stored /\ stored' = stored \ {q}
      /\ req' = [req EXCEPT ![r] = rec]
      /\ UNCHANGED <<tenantVars, userVars, sent, entered>>
  BY DEF AcsTake, Start
<1>2. rec \in Request /\ rec.step = "acs.check" /\ rec.attempt = q /\ rec.email = p
  BY DEF Request, Steps, Idle, Emails
<1> HIDE DEF rec
<1> USE DEF IInv, At, tenantVars, userVars
<1>3. /\ \A s \in Requests : s # r => req'[s] = req[s]
      /\ req'[r] = rec
  BY <1>1 DEF TypeOK
<1>4. TypeOK'
  BY <1>1, <1>2 DEF TypeOK
<1>5. NoRowYet' /\ LiveHasAddress' /\ OneHolder' /\ EnteredRows'
  BY <1>1 DEF NoRowYet, LiveHasAddress, OneHolder, EnteredRows, Live
<1>6. InHand' /\ KeysHeld'
  BY <1>1, <1>2, <1>3 DEF InHand, KeysHeld, Answering, Holding, Bound, Writing, TypeOK
<1>7. OneName'
  <2>1. ASSUME NEW a \in Accounts, NEW x \in Emails, Says(a, x)' PROVE Says(a, x)
    BY <1>1, <1>2, <1>3, <2>1 DEF Says, Holding
  <2> QED  BY <1>1, <2>1, OneNameKept
<1>8. SessionAhead'
  BY <1>1, <1>2, <1>3 DEF SessionAhead
<1>9. EachRequestOnce'
  <2>1. \A s \in Requests : req[s].attempt # q
    BY <1>1, NoneAssumption DEF InHand
  <2>2. \A s \in entered : s.attempt # q
    BY <1>1 DEF EnteredRows
  <2> QED  BY <1>1, <1>2, <1>3, <2>1, <2>2 DEF EachRequestOnce
<1>10. AccountEnteredByItsPerson' /\ PasswordTenantAdmitsOnlyProvisioned'
  BY <1>1 DEF AccountEnteredByItsPerson, PasswordTenantAdmitsOnlyProvisioned
<1> QED  BY <1>4, <1>5, <1>6, <1>7, <1>8, <1>9, <1>10

\* A pending account is made active before the method is looked at.
LEMMA ActivateKeeps ==
    ASSUME IInv, NEW r \in Requests, AcsActivate(r)
    PROVE  IInv'
<1> DEFINE a == req[r].account
<1>1. /\ req[r].step = "acs.activate" /\ status' = [status EXCEPT ![a] = "active"]
      /\ req' = [req EXCEPT ![r] = Admitted(req[r])]
      /\ UNCHANGED <<tenantVars, email, deleted, ext, born, moved, requestVars, entered>>
  BY DEF AcsActivate
<1>2. req[r] \in Request /\ status \in [Accounts -> {"none", "pending", "active"}]
  BY DEF IInv, TypeOK
<1>3. /\ req[r].attempt \in sent \ stored /\ req[r].email \in People
      /\ a \in Accounts /\ status[a] # "none"
  BY <1>1 DEF IInv, InHand, At, Answering, Holding, Bound, Writing
<1>4. req[r].unlinked \/ ext[a] = req[r].email \/ a \in moved
  BY <1>1, <1>2 DEF IInv, SessionAhead, At, Request
<1>5. /\ status' \in [Accounts -> {"none", "pending", "active"}]
      /\ \A b \in Accounts : status'[b] = "none" <=> status[b] = "none"
  BY <1>1, <1>2, <1>3
<1>6. PICK next : next = Admitted(req[r])
  OBVIOUS
<1>7. CASE next = Idle
  BY <1>1, <1>5, <1>6, <1>7, IdleType, RecordKeeps DEF Fits, Answering, Holding, Bound, Writing
<1>8. CASE next # Idle
  <2>1. /\ next \in Request /\ method # "password"
        /\ next.step = (IF req[r].unlinked THEN "acs.link" ELSE "acs.session")
        /\ next.attempt = req[r].attempt /\ next.email = req[r].email
        /\ next.account = a /\ next.unlinked = req[r].unlinked
    BY <1>2, <1>6, <1>8, AdmittedCases
  <2>2. Fits(r, next)
    BY <1>1, <1>3, <1>4, <2>1 DEF Fits, Answering, Holding, Bound, Writing, At
  <2> QED  BY <1>1, <1>5, <1>6, <2>1, <2>2, RecordKeeps
<1> QED  BY <1>7, <1>8

\* Whoever has an account in hand that did not move agrees about its person.
LEMMA Agreed ==
    ASSUME IInv, NEW a \in Accounts \ moved, NEW p \in People, Says(a, p)
    PROVE  /\ email[a] \in {p, Nobody} /\ ext[a] \in {p, Nobody}
           /\ \A r \in Requests : At(r, Holding) /\ req[r].account = a => req[r].email = p
<1>1. /\ email[a] \in Emails \cup {Nobody} /\ ext[a] \in Emails \cup {Nobody}
      /\ \A r \in Requests : At(r, Holding) => req[r].email \in Emails
      /\ p \in Emails
  BY DEF IInv, TypeOK, InHand, At, Answering, Holding, Bound, Writing, Emails
<1>2. \A x, y \in Emails : Says(a, x) /\ Says(a, y) => x = y
  BY DEF IInv, OneName
<1>3. email[a] \in Emails => email[a] = p
  BY <1>1, <1>2 DEF Says
<1>4. ext[a] \in Emails => ext[a] = p
  BY <1>1, <1>2 DEF Says
<1>5. ASSUME NEW r \in Requests, At(r, Holding), req[r].account = a PROVE req[r].email = p
  <2>1. Says(a, req[r].email)
    BY <1>5 DEF Says
  <2> QED  BY <1>1, <1>2, <1>5, <2>1
<1> QED  BY <1>1, <1>3, <1>4, <1>5

\* An account that was read without an external id gets the one of the response.
LEMMA LinkKeeps ==
    ASSUME IInv, NEW r \in Requests, AcsLink(r)
    PROVE  IInv'
<1> DEFINE a == req[r].account  rec == [req[r] EXCEPT !.step = "acs.session"]
<1>1. /\ req[r].step = "acs.link" /\ ext' = [ext EXCEPT ![a] = req[r].email]
      /\ req' = [req EXCEPT ![r] = rec]
      /\ UNCHANGED <<tenantVars, email, status, deleted, born, moved, requestVars, entered>>
  BY DEF AcsLink, Become
<1>2. req[r] \in Request
  BY DEF IInv, TypeOK
<1>3. /\ req[r].attempt \in sent \ stored /\ req[r].email \in People
      /\ a \in Accounts /\ status[a] # "none" /\ method # "password"
  BY <1>1 DEF IInv, InHand, SessionAhead, At, Answering, Holding, Bound, Writing
<1>4. /\ rec \in Request /\ rec.step = "acs.session" /\ rec.attempt = req[r].attempt
      /\ rec.email = req[r].email /\ rec.account = a /\ rec.unlinked = req[r].unlinked
  BY <1>2 DEF Request, Steps
<1> HIDE DEF rec
<1>5. a \notin moved => /\ ext[a] \in {req[r].email, Nobody}
                        /\ \A s \in Requests : At(s, Holding) /\ req[s].account = a => req[s].email = req[r].email
  <2>1. Says(a, req[r].email)
    BY <1>1 DEF Says, At, Holding
  <2> QED  BY <1>3, <2>1, Agreed
<1> USE DEF IInv, At, tenantVars, requestVars
<1>6. /\ \A s \in Requests : s # r => req'[s] = req[s]
      /\ req'[r] = rec
  BY <1>1 DEF TypeOK
<1>7. TypeOK'
  BY <1>1, <1>3, <1>4 DEF TypeOK
<1>8. NoRowYet' /\ LiveHasAddress' /\ OneHolder' /\ EnteredRows'
  BY <1>1, <1>3 DEF NoRowYet, LiveHasAddress, OneHolder, EnteredRows, Live, TypeOK
<1>9. InHand' /\ KeysHeld'
  BY <1>1, <1>3, <1>4, <1>6 DEF InHand, KeysHeld, Answering, Holding, Bound, Writing
<1>10. OneName'
  <2>1. ASSUME NEW b \in Accounts, NEW p \in Emails, Says(b, p)' PROVE Says(b, p)
    BY <1>1, <1>3, <1>4, <1>6, <2>1 DEF Says, Holding, TypeOK
  <2> QED  BY <1>1, <2>1, OneNameKept
<1>11. SessionAhead'
  BY <1>1, <1>3, <1>4, <1>5, <1>6 DEF SessionAhead, Holding, TypeOK
<1>12. EachRequestOnce'
  BY <1>1, <1>4, <1>6 DEF EachRequestOnce
<1>13. AccountEnteredByItsPerson' /\ PasswordTenantAdmitsOnlyProvisioned'
  <2>1. \A s \in entered : s.person \in People /\ s.account \in Accounts
    BY DEF TypeOK, Sessions
  <2>2. People \cap {Nobody} = {}
    BY NoneAssumption DEF Emails
  <2>3. ASSUME NEW s \in entered PROVE ext'[s.account] = s.person \/ s.account \in moved'
    <3>1. CASE s.account # a
      BY <1>1, <1>3, <2>1, <3>1 DEF AccountEnteredByItsPerson, TypeOK
    <3>2. CASE s.account = a
      <4>1. ext'[a] = req[r].email
        BY <1>1, <1>3 DEF TypeOK
      <4>2. ext[a] = s.person \/ a \in moved
        BY <3>2 DEF AccountEnteredByItsPerson
      <4> QED  BY <1>1, <1>5, <2>1, <2>2, <3>2, <4>1, <4>2
    <3> QED  BY <3>1, <3>2
  <2>4. AccountEnteredByItsPerson'
    BY <1>1, <2>3 DEF AccountEnteredByItsPerson
  <2>5. PasswordTenantAdmitsOnlyProvisioned'
    BY <1>1 DEF PasswordTenantAdmitsOnlyProvisioned
  <2> QED  BY <2>4, <2>5
<1> QED  BY <1>7, <1>8, <1>9, <1>10, <1>11, <1>12, <1>13

\* A person nobody knows gets an account of their own.
LEMMA ProvisionKeeps ==
    ASSUME IInv, NEW r \in Requests, AcsProvision(r)
    PROVE  IInv'
<1>1. PICK a \in Accounts :
          /\ Unmade(a) /\ Claimable(a, req[r].email)
          /\ email' = [email EXCEPT ![a] = req[r].email]
          /\ status' = [status EXCEPT ![a] = "active"]
          /\ ext' = [ext EXCEPT ![a] = req[r].email]
          /\ born' = [born EXCEPT ![a] = req[r].attempt]
          /\ req' = [req EXCEPT ![r].step = "acs.session", ![r].account = a]
  BY DEF AcsProvision
<1>2. req[r].step = "acs.provision" /\ UNCHANGED <<tenantVars, deleted, moved, requestVars, entered>>
  BY DEF AcsProvision
<1> DEFINE rec == [req[r] EXCEPT !.step = "acs.session", !.account = a]  x == req[r].email
<1>3. req[r] \in Request
  BY DEF IInv, TypeOK
<1>4. req[r].attempt \in sent \ stored /\ x \in People /\ x # Nobody /\ x \in Emails
  BY <1>2, NoneAssumption DEF IInv, InHand, At, Answering, Emails
<1>5. /\ rec \in Request /\ rec.step = "acs.session" /\ rec.attempt = req[r].attempt
      /\ rec.email = x /\ rec.account = a
  BY <1>3 DEF Request, Steps
<1>6. req' = [req EXCEPT ![r] = rec]
  BY <1>1
<1> HIDE DEF rec
<1> USE DEF IInv, At, tenantVars, requestVars
<1>7. /\ \A s \in Requests : s # r => req'[s] = req[s]
      /\ req'[r] = rec
  BY <1>6 DEF TypeOK
<1>8. /\ status[a] = "none" /\ email[a] = Nobody /\ ext[a] = Nobody /\ a \notin deleted \cup moved
      /\ \A s \in Requests : req[s].account # a
  BY <1>1 DEF Unmade, NoRowYet
<1>9. TypeOK'
  BY <1>1, <1>2, <1>4, <1>5, <1>6 DEF TypeOK
<1>10. NoRowYet' /\ LiveHasAddress'
  BY <1>1, <1>2, <1>4, <1>8 DEF NoRowYet, LiveHasAddress, Live, TypeOK
<1>11. OneHolder'
  BY <1>1, <1>4, <1>8 DEF OneHolder, Claimable, TypeOK
<1>12. EnteredRows'
  <2>1. \A s \in entered : s.account \in Accounts
    BY DEF TypeOK, Sessions
  <2> QED  BY <1>1, <1>2, <2>1 DEF EnteredRows, TypeOK
<1>13. InHand'
  BY <1>1, <1>2, <1>4, <1>5, <1>7, <1>8 DEF InHand, Answering, Holding, Bound, Writing, TypeOK
<1>14. KeysHeld'
  BY <1>1, <1>2, <1>4, <1>5, <1>7, <1>8 DEF KeysHeld, Claimable, TypeOK
<1>15. OneName'
  <2>1. ASSUME NEW p \in Emails, Says(a, p)' PROVE p = x
    BY <1>1, <1>5, <1>7, <1>8, <2>1 DEF Says, TypeOK
  <2>2. ASSUME NEW b \in Accounts, b # a, NEW p \in Emails, Says(b, p)' PROVE Says(b, p)
    BY <1>1, <1>5, <1>7, <2>2 DEF Says, TypeOK
  <2> QED  BY <1>2, <2>1, <2>2 DEF OneName
<1>16. SessionAhead'
  BY <1>1, <1>2, <1>4, <1>5, <1>7, <1>8 DEF SessionAhead, TypeOK
<1>17. EachRequestOnce'
  BY <1>2, <1>5, <1>7 DEF EachRequestOnce
<1>18. AccountEnteredByItsPerson' /\ PasswordTenantAdmitsOnlyProvisioned'
  <2>1. \A s \in entered : s.account \in Accounts /\ s.account # a
    BY <1>8 DEF TypeOK, Sessions, EnteredRows
  <2> QED  BY <1>1, <1>2, <2>1 DEF AccountEnteredByItsPerson, PasswordTenantAdmitsOnlyProvisioned, TypeOK
<1> QED  BY <1>9, <1>10, <1>11, <1>12, <1>13, <1>14, <1>15, <1>16, <1>17, <1>18

\* The session of a response; what is left of the handler is its cleanup.
LEMMA SessionKeeps ==
    ASSUME IInv, NEW r \in Requests, AcsSession(r)
    PROVE  IInv'
<1> DEFINE rec == [Idle EXCEPT !.step = "cleanup"]
           new == [attempt |-> req[r].attempt, person |-> req[r].email, account |-> req[r].account]
<1>1. /\ req[r].step = "acs.session" /\ entered' = entered \cup {new} /\ req' = [req EXCEPT ![r] = rec]
      /\ UNCHANGED <<tenantVars, userVars, requestVars>>
  BY DEF AcsSession
<1>2. rec \in Request /\ rec.step = "cleanup" /\ rec.attempt = NoAttempt
  BY DEF Request, Steps, Idle
<1> HIDE DEF rec
<1> USE DEF IInv, At, tenantVars, userVars, requestVars
<1>3. /\ req[r].attempt \in sent \ stored /\ req[r].email \in People
      /\ req[r].account \in Accounts /\ status[req[r].account] # "none"
  BY <1>1 DEF InHand, Answering, Holding, Bound, Writing
<1>4. new \in Sessions
  BY <1>3 DEF Sessions, TypeOK
<1>5. /\ new.attempt = req[r].attempt /\ new.person = req[r].email /\ new.account = req[r].account
  OBVIOUS
<1> HIDE DEF new
<1>6. /\ \A s \in Requests : s # r => req'[s] = req[s]
      /\ req'[r] = rec
  BY <1>1 DEF TypeOK
<1>7. TypeOK'
  BY <1>1, <1>2, <1>4 DEF TypeOK
<1>8. NoRowYet' /\ LiveHasAddress' /\ OneHolder'
  BY <1>1 DEF NoRowYet, LiveHasAddress, OneHolder, Live
<1>9. EnteredRows'
  BY <1>1, <1>3, <1>5 DEF EnteredRows
<1>10. InHand' /\ KeysHeld' /\ SessionAhead'
  BY <1>1, <1>2, <1>6 DEF InHand, KeysHeld, SessionAhead, Answering, Holding, Bound, Writing
<1>11. OneName'
  <2>1. ASSUME NEW b \in Accounts, NEW p \in Emails, Says(b, p)' PROVE Says(b, p)
    BY <1>1, <1>2, <1>6, <2>1 DEF Says, Holding
  <2> QED  BY <1>1, <2>1, OneNameKept
<1>12. EachRequestOnce'
  <2>1. req[r].attempt # NoAttempt
    BY <1>3, NoneAssumption DEF TypeOK
  <2> QED  BY <1>1, <1>2, <1>5, <1>6, <2>1 DEF EachRequestOnce
<1>13. AccountEnteredByItsPerson' /\ PasswordTenantAdmitsOnlyProvisioned'
  BY <1>1, <1>5 DEF AccountEnteredByItsPerson, PasswordTenantAdmitsOnlyProvisioned, SessionAhead
<1> QED  BY <1>7, <1>8, <1>9, <1>10, <1>11, <1>12, <1>13

\* The table of stored requests: one more, or the old ones gone.
LEMMA StoredKeeps ==
    ASSUME IInv, NEW r \in Requests, LoginStore(r) \/ Cleanup(r)
    PROVE  IInv'
<1>1. /\ UNCHANGED <<tenantVars, userVars, entered>>
      /\ sent \subseteq sent' /\ sent' \subseteq Attempts
      /\ stored' \subseteq stored \cup (sent' \ sent) /\ stored' \subseteq sent'
  BY DEF LoginStore, Cleanup, IInv, TypeOK
<1>2. /\ req' \in [Requests -> Request]
      /\ \A s \in Requests : req'[s] = req[s] \/ req'[s] = Idle
  <2>1. req' = [req EXCEPT ![r] = Idle]
    BY DEF LoginStore, Cleanup, Finish
  <2> QED  BY <2>1, IdleType DEF IInv, TypeOK
<1> USE IdleType DEF IInv, At, tenantVars, userVars
<1>3. TypeOK'
  BY <1>1, <1>2 DEF TypeOK
<1>4. NoRowYet' /\ LiveHasAddress' /\ OneHolder'
  BY <1>1 DEF NoRowYet, LiveHasAddress, OneHolder, Live
<1>5. EnteredRows'
  BY <1>1 DEF EnteredRows
<1>6. InHand'
  BY <1>1, <1>2 DEF InHand, Answering, Holding, Bound, Writing
<1>7. KeysHeld' /\ SessionAhead'
  BY <1>1, <1>2 DEF KeysHeld, SessionAhead
<1>8. OneName'
  <2>1. ASSUME NEW b \in Accounts, NEW p \in Emails, Says(b, p)' PROVE Says(b, p)
    BY <1>1, <1>2, <2>1 DEF Says, Holding
  <2> QED  BY <1>1, <2>1, OneNameKept
<1>9. EachRequestOnce'
  BY <1>1, <1>2 DEF EachRequestOnce
<1>10. AccountEnteredByItsPerson' /\ PasswordTenantAdmitsOnlyProvisioned'
  BY <1>1 DEF AccountEnteredByItsPerson, PasswordTenantAdmitsOnlyProvisioned
<1> QED  BY <1>3, <1>4, <1>5, <1>6, <1>7, <1>8, <1>9, <1>10

\* An invitation's row becomes visible, unlinked.
LEMMA InviteKeeps ==
    ASSUME IInv, NEW r \in Requests, InviteCommit(r)
    PROVE  IInv'
<1> DEFINE a == req[r].account  x == req[r].email
<1>1. /\ req[r].step = "invite.commit" /\ email' = [email EXCEPT ![a] = x]
      /\ status' = [status EXCEPT ![a] = "pending"] /\ req' = [req EXCEPT ![r] = Idle]
      /\ UNCHANGED <<tenantVars, deleted, ext, born, moved, requestVars, entered>>
  BY DEF InviteCommit, Finish
<1> USE IdleType DEF IInv, At, tenantVars, requestVars
<1>2. a \in Accounts /\ status[a] = "none" /\ x \in Emails /\ x # Nobody
  BY <1>1, NoneAssumption DEF InHand, Writing
<1>3. /\ \A s \in Requests : s # r => req'[s] = req[s]
      /\ req'[r] = Idle
  BY <1>1 DEF TypeOK
<1>4. email[a] = Nobody /\ ext[a] = Nobody /\ a \notin deleted \cup moved
  BY <1>2 DEF NoRowYet
<1>5. /\ \A b \in Accounts : email[b] # x
      /\ \A s \in Requests \ {r} : At(s, {"invite.commit"}) => req[s].email # x /\ req[s].account # a
  BY <1>1 DEF KeysHeld
<1>6. \A s \in Requests : At(s, Bound) => req[s].account # a
  BY <1>2 DEF InHand
<1>7. TypeOK'
  BY <1>1, <1>2 DEF TypeOK
<1>8. NoRowYet' /\ LiveHasAddress' /\ OneHolder'
  BY <1>1, <1>2, <1>4, <1>5 DEF NoRowYet, LiveHasAddress, OneHolder, Live, TypeOK
<1>9. EnteredRows'
  <2>1. \A s \in entered : s.account \in Accounts
    BY DEF TypeOK, Sessions
  <2> QED  BY <1>1, <2>1 DEF EnteredRows, TypeOK
<1>10. InHand'
  BY <1>1, <1>2, <1>3, <1>5 DEF InHand, Answering, Holding, Bound, Writing, TypeOK
<1>11. KeysHeld'
  BY <1>1, <1>2, <1>3, <1>5 DEF KeysHeld, TypeOK
<1>12. OneName'
  <2>1. \A s \in Requests : At(s, Holding)' => At(s, Holding) /\ req'[s] = req[s] /\ req[s].account # a
    BY <1>1, <1>3, <1>6 DEF Holding, Bound
  <2>2. PICK b \in Accounts : b = a
    BY <1>2
  <2>3. ASSUME NEW p \in Emails, Says(b, p)' PROVE p = x
    <3>1. \A s \in Requests : At(s, Holding)' => req'[s].account # b
      BY <2>1, <2>2
    <3>2. email'[b] = x /\ ext'[b] = Nobody /\ p # Nobody
      BY <1>1, <1>2, <1>4, <2>2, NoneAssumption DEF TypeOK
    <3> QED  BY <2>3, <3>1, <3>2 DEF Says
  <2>4. ASSUME NEW c \in Accounts, c # b, NEW p \in Emails, Says(c, p)' PROVE Says(c, p)
    <3>1. email'[c] = email[c] /\ ext'[c] = ext[c]
      BY <1>1, <2>2, <2>4 DEF TypeOK
    <3> QED  BY <2>1, <2>4, <3>1 DEF Says
  <2> QED  BY <1>1, <2>3, <2>4 DEF OneName
<1>13. SessionAhead'
  BY <1>1, <1>3 DEF SessionAhead
<1>14. EachRequestOnce'
  BY <1>1, <1>3 DEF EachRequestOnce
<1>15. AccountEnteredByItsPerson' /\ PasswordTenantAdmitsOnlyProvisioned'
  BY <1>1 DEF AccountEnteredByItsPerson, PasswordTenantAdmitsOnlyProvisioned
<1> QED  BY <1>7, <1>8, <1>9, <1>10, <1>11, <1>12, <1>13, <1>14, <1>15

\* A deletion frees the address and leaves the external id.
LEMMA DeleteKeeps ==
    ASSUME IInv, NEW r \in Requests, DeleteCommit(r)
    PROVE  IInv'
<1> DEFINE a == req[r].account
<1>1. /\ req[r].step = "delete.commit" /\ email' = [email EXCEPT ![a] = Nobody]
      /\ deleted' = deleted \cup {a} /\ req' = [req EXCEPT ![r] = Idle]
      /\ UNCHANGED <<tenantVars, status, ext, born, moved, requestVars, entered>>
  BY DEF DeleteCommit, Finish
<1> USE IdleType DEF IInv, At, tenantVars, requestVars
<1>2. a \in Accounts /\ status[a] # "none"
  BY <1>1 DEF InHand, Holding, Bound, Writing
<1>3. /\ \A s \in Requests : s # r => req'[s] = req[s]
      /\ req'[r] = Idle
  BY <1>1 DEF TypeOK
<1>4. TypeOK'
  BY <1>1, <1>2 DEF TypeOK
<1>5. NoRowYet' /\ LiveHasAddress' /\ OneHolder' /\ EnteredRows'
  BY <1>1, <1>2 DEF NoRowYet, LiveHasAddress, OneHolder, EnteredRows, Live, TypeOK
<1>6. InHand' /\ SessionAhead'
  BY <1>1, <1>3 DEF InHand, SessionAhead, Answering, Holding, Bound, Writing
<1>7. KeysHeld'
  <2>1. \A s \in Requests : At(s, {"invite.commit"}) => req[s].email # Nobody
    BY NoneAssumption DEF InHand, Writing
  <2> QED  BY <1>1, <1>2, <1>3, <2>1 DEF KeysHeld, TypeOK
<1>8. OneName'
  <2>1. ASSUME NEW b \in Accounts, NEW p \in Emails, Says(b, p)' PROVE Says(b, p)
    BY <1>1, <1>2, <1>3, <2>1, NoneAssumption DEF Says, Holding, TypeOK
  <2> QED  BY <1>1, <2>1, OneNameKept
<1>9. EachRequestOnce'
  BY <1>1, <1>3 DEF EachRequestOnce
<1>10. AccountEnteredByItsPerson' /\ PasswordTenantAdmitsOnlyProvisioned'
  BY <1>1 DEF AccountEnteredByItsPerson, PasswordTenantAdmitsOnlyProvisioned
<1> QED  BY <1>4, <1>5, <1>6, <1>7, <1>8, <1>9, <1>10

\* A change of address is written by id, whatever became of the row meanwhile.
LEMMA MoveKeeps ==
    ASSUME IInv, NEW r \in Requests, MoveCommit(r)
    PROVE  IInv'
<1> DEFINE a == req[r].account  x == req[r].email
<1>1. /\ req[r].step = "move.commit" /\ Claimable(a, x)
      /\ email' = [email EXCEPT ![a] = x] /\ moved' = moved \cup {a}
      /\ req' = [req EXCEPT ![r] = Idle]
      /\ UNCHANGED <<tenantVars, status, deleted, ext, born, requestVars, entered>>
  BY DEF MoveCommit, Finish
<1> USE IdleType DEF IInv, At, tenantVars, requestVars
<1>2. a \in Accounts /\ status[a] # "none" /\ x \in Emails /\ x # Nobody
  BY <1>1, NoneAssumption DEF InHand, Bound, Writing
<1>3. /\ \A s \in Requests : s # r => req'[s] = req[s]
      /\ req'[r] = Idle
  BY <1>1 DEF TypeOK
<1>4. TypeOK'
  BY <1>1, <1>2 DEF TypeOK
<1>5. NoRowYet' /\ LiveHasAddress' /\ OneHolder' /\ EnteredRows'
  BY <1>1, <1>2 DEF NoRowYet, LiveHasAddress, OneHolder, EnteredRows, Live, Claimable, TypeOK
<1>6. InHand' /\ SessionAhead'
  BY <1>1, <1>3 DEF InHand, SessionAhead, Answering, Holding, Bound, Writing
<1>7. KeysHeld'
  <2>1. \A s \in Requests : At(s, {"invite.commit"}) => req[s].email # x
    BY <1>1 DEF Claimable
  <2> QED  BY <1>1, <1>2, <1>3, <2>1 DEF KeysHeld, TypeOK
<1>8. OneName'
  <2>1. ASSUME NEW b \in Accounts, b # a, NEW p \in Emails, Says(b, p)' PROVE Says(b, p)
    BY <1>1, <1>2, <1>3, <2>1 DEF Says, Holding, TypeOK
  <2> QED  BY <1>1, <2>1 DEF OneName
<1>9. EachRequestOnce'
  BY <1>1, <1>3 DEF EachRequestOnce
<1>10. AccountEnteredByItsPerson' /\ PasswordTenantAdmitsOnlyProvisioned'
  BY <1>1 DEF AccountEnteredByItsPerson, PasswordTenantAdmitsOnlyProvisioned
<1> QED  BY <1>4, <1>5, <1>6, <1>7, <1>8, <1>9, <1>10

\* Beside the handlers: an invitation is accepted, or the operator switches the
\* feature.
LEMMA BesideKeeps ==
    ASSUME IInv, (\E a \in Accounts : AcceptInvite(a)) \/ Switch
    PROVE  IInv'
<1> USE DEF IInv, At, requestVars
<1>1. /\ UNCHANGED <<method, email, deleted, ext, born, moved, requestVars, entered, req>>
      /\ status' \in [Accounts -> {"none", "pending", "active"}] /\ ssoOn' \in BOOLEAN
      /\ \A b \in Accounts : status'[b] = "none" <=> status[b] = "none"
  BY DEF AcceptInvite, Switch, TypeOK, userVars, tenantVars
<1>2. TypeOK'
  BY <1>1 DEF TypeOK
<1>3. NoRowYet' /\ LiveHasAddress' /\ OneHolder'
  BY <1>1 DEF NoRowYet, LiveHasAddress, OneHolder, Live
<1>4. EnteredRows'
  BY <1>1 DEF EnteredRows, TypeOK, Sessions
<1>5. InHand'
  BY <1>1 DEF InHand, TypeOK
<1>6. KeysHeld' /\ SessionAhead' /\ OneName' /\ EachRequestOnce'
  BY <1>1 DEF KeysHeld, SessionAhead, OneName, Says, EachRequestOnce
<1>7. AccountEnteredByItsPerson' /\ PasswordTenantAdmitsOnlyProvisioned'
  BY <1>1 DEF AccountEnteredByItsPerson, PasswordTenantAdmitsOnlyProvisioned
<1> QED  BY <1>2, <1>3, <1>4, <1>5, <1>6, <1>7

LEMMA StepIInv == IInv /\ [Next]_vars => IInv'
<1> SUFFICES ASSUME IInv, [Next]_vars PROVE IInv'
  OBVIOUS
<1>1. ASSUME NEW r \in Requests,
             \/ LoginRead(r) \/ LoginStore(r) \/ Cleanup(r) \/ Abort(r)
             \/ \E q \in Attempts, p \in People : AcsTake(r, q, p)
             \/ AcsCheck(r) \/ AcsUnknown(r) \/ AcsProvision(r)
             \/ AcsActivate(r) \/ AcsLink(r) \/ AcsSession(r)
             \/ \E x \in Emails : InviteRead(r, x)
             \/ InviteMail(r) \/ InviteCommit(r) \/ DeleteCommit(r) \/ MoveCommit(r)
             \/ \E a \in Accounts : AcsFound(r, a) \/ DeleteRead(r, a)
             \/ \E a \in Accounts, x \in Emails : MoveRead(r, a, x)
      PROVE  IInv'
  BY <1>1, BeginKeeps, StoredKeeps, AbortKeeps, TakeKeeps, ReadingKeeps, ProvisionKeeps, ActivateKeeps,
     LinkKeeps, SessionKeeps, MailKeeps, InviteKeeps, DeleteKeeps, MoveKeeps, FoundKeeps
<1>2. ASSUME UNCHANGED vars PROVE IInv'
  BY <1>2 DEF vars, tenantVars, userVars, requestVars, IInv, TypeOK, NoRowYet, LiveHasAddress, Live, InHand,
     KeysHeld, OneHolder, EnteredRows, OneName, Says, SessionAhead, EachRequestOnce,
     AccountEnteredByItsPerson, PasswordTenantAdmitsOnlyProvisioned, At
<1> QED  BY <1>1, <1>2, BesideKeeps DEF Next

LEMMA Invariance == Spec => []IInv
BY InitIInv, StepIInv, PTL DEF Spec

------------------------------------------------------------------------------
\* Every variable keeps its type, and a session is of an account and a person.
THEOREM SSOTypes == Spec => []TypeOK
BY Invariance, PTL DEF IInv

\* A stored request lets one callback in, however often its response is posted.
THEOREM RequestsWorkOnce == Spec => []EachRequestOnce
BY Invariance, PTL DEF IInv

\* Callbacks and invitations that overlap give nobody two accounts.
THEOREM OneAccountPerPerson == Spec => []SecondAccountOnlyAfterMove
BY Invariance, SecondAccount, PTL

\* Whoever enters an account is the person it is linked to.
THEOREM OwnPersonEnters == Spec => []AccountEnteredByItsPerson
BY Invariance, PTL DEF IInv

\* A tenant that signs in with passwords lets a callback into no account that
\* was there before.
THEOREM PasswordTenantRefuses == Spec => []PasswordTenantAdmitsOnlyProvisioned
BY Invariance, PTL DEF IInv

------------------------------------------------------------------------------
(***************************************************************************)
(* The address book.                                                       *)
(***************************************************************************)

\* An address that is written, and one that is given back.
LEMMA HeldMoves ==
    ASSUME email \in [Accounts -> Emails \cup {Nobody}], NEW a \in Accounts, NEW x \in Emails,
           email' = [email EXCEPT ![a] = x]
    PROVE  Held' = {h \in Held : h[2] # a} \cup {<<x, a>>}
<1>1. email'[a] = x /\ x # Nobody /\ \A b \in Accounts \ {a} : email'[b] = email[b]
  BY NoneAssumption
<1>2. ASSUME NEW e \in Held' PROVE e \in {h \in Held : h[2] # a} \cup {<<x, a>>}
  <2>1. PICK b \in Accounts : email'[b] # Nobody /\ e = <<email'[b], b>>
    BY DEF Held
  <2> QED  BY <1>1, <2>1 DEF Held
<1>3. ASSUME NEW e \in Held, e[2] # a PROVE e \in Held'
  <2>1. PICK b \in Accounts : email[b] # Nobody /\ e = <<email[b], b>>
    BY DEF Held
  <2>2. b # a
    BY <1>3, <2>1
  <2> QED  BY <1>1, <2>1, <2>2 DEF Held
<1>4. <<x, a>> \in Held'
  BY <1>1 DEF Held
<1> QED  BY <1>2, <1>3, <1>4

LEMMA HeldLost ==
    ASSUME email \in [Accounts -> Emails \cup {Nobody}], NEW a \in Accounts,
           email[a] # Nobody, email' = [email EXCEPT ![a] = Nobody]
    PROVE  Held' = Held \ {<<email[a], a>>} /\ <<email[a], a>> \in Held
<1>1. email'[a] = Nobody /\ \A b \in Accounts \ {a} : email'[b] = email[b]
  OBVIOUS
<1>2. ASSUME NEW e \in Held' PROVE e \in Held /\ e # <<email[a], a>>
  <2>1. PICK b \in Accounts : email'[b] # Nobody /\ e = <<email'[b], b>>
    BY DEF Held
  <2> QED  BY <1>1, <2>1 DEF Held
<1>3. ASSUME NEW e \in Held, e # <<email[a], a>> PROVE e \in Held'
  <2>1. PICK b \in Accounts : email[b] # Nobody /\ e = <<email[b], b>>
    BY DEF Held
  <2> QED  BY <1>1, <1>3, <2>1 DEF Held
<1> QED  BY <1>2, <1>3 DEF Held

\* What a handler's step does to the promised addresses.
LEMMA PromiseMoves ==
    ASSUME req \in [Requests -> Request], NEW r \in Requests, NEW rec, req' = [req EXCEPT ![r] = rec]
    PROVE  /\ rec.step # "invite.commit" /\ ~At(r, {"invite.commit"}) => Promised' = Promised
           /\ rec.step = "invite.commit" /\ ~At(r, {"invite.commit"}) =>
                 Promised' = Promised \cup {<<rec.email, rec.account>>}
<1>1. req'[r] = rec /\ \A s \in Requests \ {r} : req'[s] = req[s]
  OBVIOUS
<1>2. ASSUME NEW e \in Promised'
      PROVE  e \in Promised \/ (rec.step = "invite.commit" /\ e = <<rec.email, rec.account>>)
  <2>1. PICK s \in Requests : req'[s].step = "invite.commit" /\ e = <<req'[s].email, req'[s].account>>
    BY DEF Promised
  <2> QED  BY <1>1, <2>1 DEF Promised
<1>3. ASSUME NEW e \in Promised, ~At(r, {"invite.commit"}) PROVE e \in Promised'
  <2>1. PICK s \in Requests : req[s].step = "invite.commit" /\ e = <<req[s].email, req[s].account>>
    BY DEF Promised
  <2> QED  BY <1>1, <1>3, <2>1 DEF Promised, At
<1>4. rec.step = "invite.commit" => <<rec.email, rec.account>> \in Promised'
  BY <1>1 DEF Promised
<1> QED  BY <1>2, <1>3, <1>4

\* An invitation that ends, one way or the other, gives its key back.
LEMMA PromiseEnds ==
    ASSUME IInv, NEW r \in Requests, At(r, {"invite.commit"}), req' = [req EXCEPT ![r] = Idle]
    PROVE  /\ <<req[r].email, req[r].account>> \in Promised
           /\ Promised' = Promised \ {<<req[r].email, req[r].account>>}
<1>1. req'[r].step # "invite.commit" /\ \A s \in Requests \ {r} : req'[s] = req[s]
  BY IdleType DEF IInv, TypeOK
<1>2. ASSUME NEW e \in Promised' PROVE e \in Promised /\ e # <<req[r].email, req[r].account>>
  <2>1. PICK s \in Requests : req'[s].step = "invite.commit" /\ e = <<req'[s].email, req'[s].account>>
    BY DEF Promised
  <2>2. s # r /\ req'[s] = req[s]
    BY <1>1, <2>1
  <2>3. req[s].email # req[r].email
    BY <2>1, <2>2 DEF IInv, KeysHeld, At
  <2> QED  BY <2>1, <2>2, <2>3 DEF Promised
<1>3. ASSUME NEW e \in Promised, e # <<req[r].email, req[r].account>> PROVE e \in Promised'
  <2>1. PICK s \in Requests : req[s].step = "invite.commit" /\ e = <<req[s].email, req[s].account>>
    BY DEF Promised
  <2>2. s # r
    BY <1>3, <2>1
  <2> QED  BY <1>1, <2>1, <2>2 DEF Promised
<1> QED  BY <1>2, <1>3 DEF Promised, At

\* A key that can be written to a row without it is free.
LEMMA ClaimableFree ==
    ASSUME IInv, NEW a \in Accounts, NEW x \in Emails, Claimable(a, x), email[a] # x
    PROVE  Book!Free(x)
<1>1. ASSUME NEW e \in Held PROVE e[1] # x
  BY DEF Held, Claimable
<1>2. ASSUME NEW e \in Promised PROVE e[1] # x
  BY DEF Promised, Claimable
<1> QED  BY <1>1, <1>2 DEF Book!Free

LEMMA BookSettles ==
    ASSUME IInv, NEW a \in Accounts, NEW x \in Emails, Claimable(a, x), email[a] # x,
           email' = [email EXCEPT ![a] = x], Promised' = Promised,
           \A r \in Requests : At(r, {"invite.commit"}) => req[r].account # a
    PROVE  Book!Settle
<1> DEFINE e == <<x, a>>
<1>1. Held' = {h \in Held : h[2] # e[2]} \cup {e}
  BY HeldMoves DEF IInv, TypeOK
<1>2. e \in Held' \ Held
  BY <1>1 DEF Held
<1>3. Book!Free(e[1])
  BY ClaimableFree
<1>4. Book!Unpromised(e[2])
  BY DEF Book!Unpromised, Promised, At
<1>5. Held' = Book!Placed(e)
  BY <1>1 DEF Book!Placed
<1> HIDE DEF e
<1> QED  BY <1>2, <1>3, <1>4, <1>5 DEF Book!Settle
LEMMA BookPromises == ASSUME IInv, NEW r \in Requests, InviteMail(r) PROVE Book!Promise
<1>1. PICK a \in Accounts :
          /\ Unmade(a) /\ Claimable(a, req[r].email)
          /\ req' = [req EXCEPT ![r].step = "invite.commit", ![r].account = a]
  BY DEF InviteMail
<1> USE DEF IInv, TypeOK, At
<1> DEFINE rec == [req[r] EXCEPT !.step = "invite.commit", !.account = a]
           e == <<req[r].email, a>>
<1>2. /\ req[r].step = "invite.tx" /\ req[r].email \in Emails /\ req[r] \in Request
      /\ req' = [req EXCEPT ![r] = rec]
      /\ email' = email
  BY <1>1 DEF InviteMail, userVars, InHand, Writing
<1>3. rec.step = "invite.commit" /\ rec.email = req[r].email /\ rec.account = a
  BY <1>2 DEF Request
<1>4. email[a] = Nobody /\ Nobody # req[r].email
  BY <1>1, <1>2, NoneAssumption DEF Unmade, NoRowYet
<1>5. Held' = Held
  BY <1>2 DEF Held
<1> HIDE DEF rec
<1>6. Promised' = Promised \cup {e}
  BY <1>2, <1>3, PromiseMoves
<1>7. Book!Free(e[1])
  BY <1>1, <1>2, <1>4, ClaimableFree
<1>8. Book!Unpromised(e[2])
  BY <1>1 DEF Book!Unpromised, Promised, Unmade
<1>9. \A h \in Held : h[2] # e[2]
  BY <1>4 DEF Held
<1>10. e \in Promised' \ Promised
  BY <1>6, <1>7 DEF Book!Free
<1> HIDE DEF e
<1> QED  BY <1>5, <1>6, <1>7, <1>8, <1>9, <1>10 DEF Book!Promise

LEMMA BookKeeps == ASSUME IInv, NEW r \in Requests, InviteCommit(r) PROVE Book!Keep
<1> DEFINE e == <<req[r].email, req[r].account>>
<1>1. /\ At(r, {"invite.commit"}) /\ req' = [req EXCEPT ![r] = Idle]
      /\ email' = [email EXCEPT ![req[r].account] = req[r].email]
      /\ req[r].account \in Accounts /\ req[r].email \in Emails
  BY DEF InviteCommit, Finish, At, IInv, InHand, Writing
<1>2. e \in Promised /\ Promised' = Promised \ {e}
  BY <1>1, PromiseEnds
<1>3. Held' = {h \in Held : h[2] # e[2]} \cup {e}
  BY <1>1, HeldMoves DEF IInv, TypeOK
<1> HIDE DEF e
<1> QED  BY <1>2, <1>3 DEF Book!Keep, Book!Placed

\* The address book is not touched by a handler that neither writes an address
\* nor inserts or ends an invitation.
LEMMA BookStays ==
    ASSUME NEW r \in Requests, \A s \in Requests \ {r} : req'[s] = req[s], email' = email,
           req'[r].step # "invite.commit", req[r].step # "invite.commit"
    PROVE  UNCHANGED Book!vars
<1>1. \A s \in Requests : /\ req'[s].step = "invite.commit" <=> req[s].step = "invite.commit"
                          /\ req[s].step = "invite.commit" => req'[s] = req[s]
  OBVIOUS
<1>2. Promised' = Promised
  BY <1>1 DEF Promised
<1>3. Held' = Held
  BY DEF Held
<1> QED  BY <1>2, <1>3 DEF Book!vars

LEMMA BookStep ==
    ASSUME IInv, [Next]_vars
    PROVE  [Book!Next]_(Book!vars)
<1>0. req \in [Requests -> Request] /\ email \in [Accounts -> Emails \cup {Nobody}]
  BY DEF IInv, TypeOK
<1>1. ASSUME NEW r \in Requests, InviteMail(r) PROVE Book!Next
  BY <1>1, BookPromises DEF Book!Next
<1>2. ASSUME NEW r \in Requests, InviteCommit(r) PROVE Book!Next
  BY <1>2, BookKeeps DEF Book!Next
<1>3. ASSUME NEW r \in Requests, AcsProvision(r) PROVE Book!Next
  <2>1. PICK a \in Accounts : /\ Unmade(a) /\ Claimable(a, req[r].email)
                              /\ email' = [email EXCEPT ![a] = req[r].email]
                              /\ req' = [req EXCEPT ![r].step = "acs.session", ![r].account = a]
    BY <1>3 DEF AcsProvision
  <2>2. req[r].step = "acs.provision" /\ req[r].email \in Emails
    BY <1>3 DEF AcsProvision, IInv, InHand, At, Answering, Emails
  <2> DEFINE rec == [req[r] EXCEPT !.step = "acs.session", !.account = a]
  <2>3. req' = [req EXCEPT ![r] = rec] /\ rec.step = "acs.session"
    BY <1>0, <2>1 DEF Request
  <2> HIDE DEF rec
  <2>4. Promised' = Promised
    BY <1>0, <2>2, <2>3, PromiseMoves DEF At
  <2>5. email[a] = Nobody
    BY <2>1 DEF Unmade, IInv, NoRowYet
  <2> QED  BY <2>1, <2>2, <2>4, <2>5, BookSettles, NoneAssumption DEF Book!Next, Unmade
<1>4. ASSUME NEW r \in Requests, MoveCommit(r) PROVE [Book!Next]_(Book!vars)
  <2> DEFINE a == req[r].account  x == req[r].email
  <2>1. /\ At(r, {"move.commit"}) /\ Claimable(a, x) /\ email' = [email EXCEPT ![a] = x]
        /\ req' = [req EXCEPT ![r] = Idle]
    BY <1>4 DEF MoveCommit, Finish, At
  <2>2. a \in Accounts /\ status[a] # "none" /\ x \in Emails
    BY <2>1 DEF IInv, InHand, At, Bound, Writing
  <2>3. Promised' = Promised
    BY <1>0, <2>1, IdleType, PromiseMoves DEF At
  <2>4. \A s \in Requests : At(s, {"invite.commit"}) => req[s].account # a
    BY <2>2 DEF IInv, InHand
  <2> HIDE DEF a, x
  <2>5. CASE email[a] = x
    <3>1. email' = email
      BY <1>0, <2>1, <2>2, <2>5
    <3> QED  BY <2>3, <3>1 DEF Book!vars, Held
  <2>6. CASE email[a] # x
    BY <2>1, <2>2, <2>3, <2>4, <2>6, BookSettles DEF Book!Next
  <2> QED  BY <2>5, <2>6
<1>5. ASSUME NEW r \in Requests, DeleteCommit(r) PROVE [Book!Next]_(Book!vars)
  <2> DEFINE a == req[r].account
  <2>1. /\ At(r, {"delete.commit"}) /\ email' = [email EXCEPT ![a] = Nobody]
        /\ req' = [req EXCEPT ![r] = Idle]
    BY <1>5 DEF DeleteCommit, Finish, At
  <2>2. a \in Accounts
    BY <2>1 DEF IInv, InHand, At, Bound
  <2>3. Promised' = Promised
    BY <1>0, <2>1, IdleType, PromiseMoves DEF At
  <2> HIDE DEF a
  <2>4. CASE email[a] = Nobody
    <3>1. email' = email
      BY <1>0, <2>1, <2>2, <2>4
    <3> QED  BY <2>3, <3>1 DEF Book!vars, Held
  <2>5. CASE email[a] # Nobody
    BY <1>0, <2>1, <2>2, <2>3, <2>5, HeldLost DEF Book!Next, Book!Release
  <2> QED  BY <2>4, <2>5
<1>6. ASSUME NEW r \in Requests, Abort(r) PROVE [Book!Next]_(Book!vars)
  <2>1. req' = [req EXCEPT ![r] = Idle] /\ email' = email
    BY <1>6 DEF Abort, Finish, userVars
  <2>2. CASE At(r, {"invite.commit"})
    <3>1. Held' = Held
      BY <2>1 DEF Held
    <3> QED  BY <2>1, <2>2, <3>1, PromiseEnds DEF Book!Next, Book!Withdraw
  <2>3. CASE ~At(r, {"invite.commit"})
    BY <1>0, <2>1, <2>3, BookStays, IdleType DEF At
  <2> QED  BY <2>2, <2>3
<1>7. ASSUME NEW r \in Requests,
             \/ LoginRead(r)
             \/ \E q \in Attempts, p \in People : AcsTake(r, q, p)
             \/ \E x \in Emails : InviteRead(r, x)
             \/ \E a \in Accounts : DeleteRead(r, a)
             \/ \E a \in Accounts, x \in Emails : MoveRead(r, a, x)
      PROVE  UNCHANGED Book!vars
  <2>1. /\ req[r] = Idle /\ email' = email /\ req'[r].step # "invite.commit"
        /\ \A s \in Requests \ {r} : req'[s] = req[s]
    <3>1. ASSUME NEW rec, Start(r, rec), rec.step # "invite.commit"
          PROVE  /\ req[r] = Idle /\ req'[r].step # "invite.commit"
                 /\ \A s \in Requests \ {r} : req'[s] = req[s]
      BY <1>0, <3>1 DEF Start
    <3>2. CASE LoginRead(r)
      BY <3>1, <3>2 DEF LoginRead, Idle, userVars
    <3>3. CASE \E q \in Attempts, p \in People : AcsTake(r, q, p)
      BY <3>1, <3>3 DEF AcsTake, Idle, userVars
    <3>4. CASE \E x \in Emails : InviteRead(r, x)
      BY <3>1, <3>4 DEF InviteRead, Idle, userVars
    <3>5. CASE \E a \in Accounts : DeleteRead(r, a)
      BY <3>1, <3>5 DEF DeleteRead, Idle, userVars
    <3>6. CASE \E a \in Accounts, x \in Emails : MoveRead(r, a, x)
      BY <3>1, <3>6 DEF MoveRead, Idle, userVars
    <3> QED  BY <1>7, <3>2, <3>3, <3>4, <3>5, <3>6
  <2> QED  BY <2>1, BookStays, IdleType
<1>8. ASSUME NEW r \in Requests, LoginStore(r) \/ Cleanup(r) \/ AcsSession(r)
      PROVE  UNCHANGED Book!vars
  <2>1. /\ email' = email /\ req[r].step \in {"login.store", "cleanup", "acs.session"}
        /\ req'[r].step \in {"idle", "cleanup"}
        /\ \A s \in Requests \ {r} : req'[s] = req[s]
    BY <1>0, <1>8 DEF LoginStore, Cleanup, AcsSession, Finish, Idle, userVars
  <2> QED  BY <2>1, BookStays
<1>9. ASSUME NEW r \in Requests, AcsCheck(r) \/ AcsUnknown(r) \/ AcsLink(r)
      PROVE  UNCHANGED Book!vars
  <2>1. /\ email' = email /\ req[r].step \in {"acs.check", "acs.find", "acs.link"}
        /\ req'[r].step \in {"acs.find", "acs.provision", "acs.session"}
        /\ \A s \in Requests \ {r} : req'[s] = req[s]
    BY <1>0, <1>9 DEF AcsCheck, AcsUnknown, AcsLink, Become, userVars, Request
  <2> QED  BY <2>1, BookStays
<1>10. ASSUME NEW r \in Requests, AcsActivate(r) \/ \E a \in Accounts : AcsFound(r, a)
       PROVE  UNCHANGED Book!vars
  <2>1. /\ email' = email /\ req[r].step \in {"acs.activate", "acs.find"}
        /\ req'[r].step # "invite.commit"
        /\ \A s \in Requests \ {r} : req'[s] = req[s]
    <3>1. CASE AcsActivate(r)
      BY <1>0, <3>1, IdleType DEF AcsActivate, Admitted, Request
    <3>2. ASSUME NEW a \in Accounts, AcsFound(r, a)
          PROVE  /\ email' = email /\ req[r].step \in {"acs.activate", "acs.find"}
                 /\ req'[r].step # "invite.commit"
                 /\ \A s \in Requests \ {r} : req'[s] = req[s]
      BY <1>0, <3>2, IdleType DEF AcsFound, Admitted, userVars, Request
    <3> QED  BY <1>10, <3>1, <3>2
  <2> QED  BY <2>1, BookStays
<1>11. ASSUME \/ UNCHANGED vars
              \/ \E a \in Accounts : AcceptInvite(a)
              \/ Switch
       PROVE  UNCHANGED Book!vars
  BY <1>11 DEF vars, AcceptInvite, Switch, userVars, Book!vars, Held, Promised
<1> QED
  BY <1>1, <1>2, <1>3, <1>4, <1>5, <1>6, <1>7, <1>8, <1>9, <1>10, <1>11 DEF Next

\* The book opens with the founder's address.
LEMMA BookInit == Init => Book!Init
<1> SUFFICES ASSUME Init PROVE Book!Init
  OBVIOUS
<1>1. PICK f \in Accounts, x \in Emails : email = [a \in Accounts |-> IF a = f THEN x ELSE Nobody]
  BY DEF Init
<1>2. Held = {<<x, f>>}
  BY <1>1, NoneAssumption DEF Held
<1>3. Promised = {}
  BY IdleType DEF Init, Promised
<1>4. <<x, f>> \in Book!Entry
  BY DEF Book!Entry
<1> QED  BY <1>2, <1>3, <1>4 DEF Book!Init

\* Provisioning by a callback, invitations and changes of address hand addresses
\* out as from a book: to one account at a time, and past no promise.
THEOREM SSOKeepsBook == Spec => KeepsAddressBook
<1>1. IInv /\ [Next]_vars => [Book!Next]_(Book!vars)
  BY BookStep
<1> QED
  BY <1>1, BookInit, Invariance, PTL DEF Spec, KeepsAddressBook, Book!Spec

\* Every address book is exact: an entry is new in address and account, or takes
\* the place of the account's own, or is a promise kept.
LEMMA BookExact == Book!Exact /\ [Book!Next]_(Book!vars) => Book!Exact'
<1> SUFFICES ASSUME Book!Exact, [Book!Next]_(Book!vars) PROVE Book!Exact'
  OBVIOUS
<1> USE DEF Book!Exact
<1>1. CASE Book!Settle
  BY <1>1 DEF Book!Settle, Book!Free, Book!Unpromised, Book!Placed
<1>2. CASE Book!Promise
  BY <1>2 DEF Book!Promise, Book!Free, Book!Unpromised
<1>3. CASE Book!Keep
  BY <1>3 DEF Book!Keep, Book!Placed
<1>4. CASE Book!Withdraw \/ Book!Release \/ UNCHANGED Book!vars
  BY <1>4 DEF Book!Withdraw, Book!Release, Book!vars
<1> QED  BY <1>1, <1>2, <1>3, <1>4 DEF Book!Next

\* The same beside single sign-on: an address that callbacks, invitations and changes
\* of address fight over ends with one account.
THEOREM ProvisionedExact == Spec => []Book!Exact
<1>1. Book!Init => Book!Exact
  BY DEF Book!Init, Book!Exact
<1> QED
  BY <1>1, BookExact, SSOKeepsBook, PTL DEF KeepsAddressBook, Book!Spec

==============================================================================
