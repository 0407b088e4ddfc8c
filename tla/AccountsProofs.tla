--------------------------- MODULE AccountsProofs ---------------------------
(***************************************************************************)
(* The safety properties of Accounts, for any number of accounts,          *)
(* addresses, links and handlers in flight.                                *)
(***************************************************************************)
EXTENDS Accounts, TLAPS

\* Steps of handlers that write a row they have read before.
Writers == {"resend.tx", "resend.commit", "accept.commit", "delete.commit", "change.commit", "verify.commit",
            "forgot.commit", "password.commit"}

\* Steps at which a handler has mailed an invitation that others do not see yet.
Sending == {"invite.commit", "resend.commit"}

At(r, S) == req[r].step \in S

\* An account that has no row yet has nothing else either.
NoRowYet ==
    \A a \in Accounts : status[a] = "none" =>
        /\ a \notin deleted /\ email[a] = NoEmail /\ password[a] = "none"
        /\ inviteOf[a] = NoLink /\ changeOf[a] = NoLink /\ resetOf[a] = NoLink

\* Handlers write rows that exist; an invitation about to commit makes one.
RowsExist ==
    \A r \in Requests :
        /\ At(r, Writers) => req[r].account \in Accounts /\ status[req[r].account] # "none"
        /\ At(r, {"invite.tx", "invite.commit", "change.commit"}) => req[r].email \in Emails
        /\ At(r, {"invite.commit"}) =>
              req[r].account \in Accounts /\ status[req[r].account] = "none"

\* The UNIQUE keys of invitations about to commit.
KeysHeld ==
    \A r \in Requests : At(r, {"invite.commit"}) =>
        /\ \A b \in Accounts : email[b] # req[r].email
        /\ \A s \in Requests \ {r} : At(s, {"invite.commit"}) =>
              req[s].email # req[r].email /\ req[s].account # req[r].account

\* An invitation that nobody sees yet is in no row and in no other hand.
FreshLinks ==
    \A r \in Requests : At(r, Sending) =>
        /\ req[r].link \in mailed \ accepted
        /\ \A a \in Accounts : inviteOf[a] # req[r].link
        /\ \A s \in Requests \ {r} : req[s].link # req[r].link

\* Links in hand have been given out, an invitation in hand is of no other row.
LinksInHand ==
    \A r \in Requests :
        /\ req[r].link \in Invites => req[r].link \in mailed
        /\ At(r, {"accept.commit"}) =>
              /\ req[r].link \in Invites
              /\ \A b \in Accounts : inviteOf[b] = req[r].link => b = req[r].account
        /\ At(r, {"verify.commit"}) => req[r].link \in Issued

\* Rows hold links that were given out, an invitation is in one row.
LinksInRows ==
    /\ \A a \in Accounts : inviteOf[a] \in mailed \cup {NoLink}
    /\ \A a, b \in Accounts : inviteOf[a] = inviteOf[b] /\ inviteOf[a] # NoLink => a = b
    /\ \A a \in Accounts : changeOf[a] \in Issued \cup {NoLink}
    /\ verified \cup (expired \cap ChangeLinks) \subseteq Issued

IInv ==
    /\ TypeOK /\ NoRowYet /\ RowsExist /\ KeysHeld /\ FreshLinks /\ LinksInHand /\ LinksInRows
    /\ OneHolderPerAddress /\ PendingWasMailed

------------------------------------------------------------------------------
LEMMA IdleType ==
    /\ Idle \in Request /\ Idle.step = "idle" /\ Idle.account = NoAccount
    /\ Idle.email = NoEmail /\ Idle.link = NoLink
BY DEF Idle, Request, Steps

LEMMA InitIInv == Init => IInv
BY IdleType, NoneAssumption
   DEF Init, IInv, TypeOK, NoRowYet, RowsExist, KeysHeld, FreshLinks, LinksInHand, LinksInRows,
       OneHolderPerAddress, PendingWasMailed, At, Writers, Sending, Issued, Links, Live

\* A handler that begins with reads, or ends without writing: only its record
\* changes, and it mails nothing.
LEMMA RecordKeeps ==
    ASSUME IInv, NEW r \in Requests, NEW rec \in Request, req' = [req EXCEPT ![r] = rec],
           UNCHANGED <<userVars, inviteVars, otherVars, expired>>,
           rec.step \notin Sending,
           rec.step \in Writers => rec.account \in Accounts /\ status[rec.account] # "none",
           rec.step \in {"invite.tx", "change.commit"} => rec.email \in Emails,
           rec.link \in Invites => \E a \in Accounts : inviteOf[a] = rec.link,
           rec.step = "accept.commit" => rec.link \in Invites /\ inviteOf[rec.account] = rec.link,
           rec.step = "verify.commit" => rec.link \in Issued
    PROVE  IInv'
<1> USE DEF IInv, At, userVars, inviteVars, otherVars
<1>1. TypeOK'
  BY DEF TypeOK
<1>2. /\ \A s \in Requests : s # r => req'[s] = req[s]
      /\ req'[r] = rec
  BY DEF TypeOK
<1>3. NoRowYet' /\ LinksInRows'
  BY DEF NoRowYet, LinksInRows, Issued
<1>4. RowsExist' /\ KeysHeld'
  BY <1>2 DEF RowsExist, KeysHeld, Sending
<1>5. rec.link \in Links \cup {NoLink}
  BY DEF Request
<1>6. FreshLinks'
  <2>1. \A s \in Requests : At(s, Sending) => rec.link # req[s].link
    BY <1>5 DEF FreshLinks, TypeOK
  <2> QED  BY <1>2, <2>1 DEF FreshLinks, Sending
<1>7. LinksInHand'
  <2>1. rec.link \in Invites => rec.link \in mailed
    BY NoneAssumption DEF LinksInRows, Links
  <2>2. rec.step = "accept.commit" =>
            \A b \in Accounts : inviteOf[b] = rec.link => b = rec.account
    BY NoneAssumption DEF LinksInRows, Links, Writers
  <2> QED  BY <1>2, <2>1, <2>2 DEF LinksInHand, Issued
<1>8. OneHolderPerAddress' /\ PendingWasMailed'
  BY DEF OneHolderPerAddress, PendingWasMailed, Live
<1> QED  BY <1>1, <1>3, <1>4, <1>6, <1>7, <1>8

LEMMA ReadsKeep ==
    ASSUME IInv, NEW r \in Requests,
           \/ \E x \in Emails : InviteRead(r, x) \/ SignupRead(r, x) \/ TenantSignupRead(r, x)
           \/ \E a \in Accounts : ResendRead(r, a) \/ AcceptRead(r, a) \/ DeleteRead(r, a) \/ VerifyRead(r, a)
           \/ \E a \in Accounts : ForgotRead(r, a) \/ ResetRead(r, a) \/ PasswordRead(r, a)
           \/ \E a \in Accounts, x \in Emails : ChangeRead(r, a, x)
           \/ Abort(r)
    PROVE  IInv'
<1> USE IdleType, NoneAssumption, KindsAssumption DEF Start, Finish, Writers, Sending
<1>0. TypeOK
  BY DEF IInv
<1>1. ASSUME NEW x \in Emails, InviteRead(r, x) PROVE IInv'
  <2> DEFINE rec == [Idle EXCEPT !.step = "invite.tx", !.email = x]
  <2>1. rec \in Request /\ rec.step = "invite.tx" /\ rec.email = x /\ rec.link = NoLink
    BY DEF Request, Steps, Idle
  <2>2. NoLink \notin Invites
    BY DEF Links
  <2> HIDE DEF rec
  <2> QED  BY <1>1, <2>1, <2>2, RecordKeeps DEF InviteRead, rec
<1>2. ASSUME NEW x \in Emails, SignupRead(r, x) PROVE IInv'
  <2> DEFINE rec == [Idle EXCEPT !.step = "signup.commit", !.email = x]
  <2>1. rec \in Request /\ rec.step = "signup.commit" /\ rec.link = NoLink
    BY DEF Request, Steps, Idle
  <2>2. NoLink \notin Invites
    BY DEF Links
  <2> HIDE DEF rec
  <2> QED  BY <1>2, <2>1, <2>2, RecordKeeps DEF SignupRead, rec
<1>3. ASSUME NEW x \in Emails, TenantSignupRead(r, x) PROVE IInv'
  BY <1>2, <1>3 DEF TenantSignupRead
<1>4. ASSUME NEW a \in Accounts, ResetRead(r, a) PROVE IInv'
  <2> DEFINE rec == [Idle EXCEPT !.step = "password.commit", !.account = a, !.link = resetOf[a]]
  <2>1. resetOf[a] \in ResetLinks /\ status[a] # "none"
    BY <1>0, <1>4 DEF ResetRead, IInv, NoRowYet, TypeOK
  <2>2. rec \in Request /\ rec.step = "password.commit" /\ rec.link \notin Invites /\ rec.account = a
    BY <2>1 DEF Request, Steps, Idle, Links
  <2> HIDE DEF rec
  <2> QED  BY <1>4, <2>1, <2>2, RecordKeeps DEF ResetRead, rec
<1>5. ASSUME NEW a \in Accounts, NEW step \in {"resend.tx", "delete.commit", "forgot.commit", "password.commit"}, Live(a),
             Start(r, [Idle EXCEPT !.step = step, !.account = a]),
             UNCHANGED <<userVars, inviteVars, otherVars, expired>>
      PROVE  IInv'
  <2> DEFINE rec == [Idle EXCEPT !.step = step, !.account = a]
  <2>1. rec \in Request /\ rec.step = step /\ rec.link = NoLink /\ rec.account = a
    BY DEF Request, Steps, Idle
  <2>2. NoLink \notin Invites
    BY DEF Links
  <2> HIDE DEF rec
  <2> QED  BY <1>5, <2>1, <2>2, RecordKeeps DEF rec, Live
<1>6. ASSUME NEW a \in Accounts, ResendRead(r, a) \/ DeleteRead(r, a) \/ ForgotRead(r, a) \/ PasswordRead(r, a)
      PROVE  IInv'
  BY <1>5, <1>6 DEF ResendRead, DeleteRead, ForgotRead, PasswordRead
<1>7. ASSUME NEW a \in Accounts, NEW x \in Emails, ChangeRead(r, a, x) PROVE IInv'
  <2> DEFINE rec == [Idle EXCEPT !.step = "change.commit", !.account = a, !.email = x]
  <2>1. /\ rec \in Request /\ rec.step = "change.commit" /\ rec.link = NoLink
        /\ rec.account = a /\ rec.email = x
    BY DEF Request, Steps, Idle
  <2>2. NoLink \notin Invites
    BY DEF Links
  <2> HIDE DEF rec
  <2> QED  BY <1>7, <2>1, <2>2, RecordKeeps DEF ChangeRead, rec, Live
<1>8. ASSUME NEW a \in Accounts, AcceptRead(r, a) PROVE IInv'
  <2> DEFINE rec == [Idle EXCEPT !.step = "accept.commit", !.account = a, !.link = inviteOf[a]]
  <2>1. inviteOf[a] \in Invites /\ Live(a)
    <3>1. PICK b \in Accounts : Live(b) /\ inviteOf[b] = inviteOf[a] /\ inviteOf[b] # NoLink
      BY <1>8 DEF AcceptRead, GoodInvites
    <3> QED  BY <1>0, <3>1 DEF IInv, LinksInRows, TypeOK
  <2>2. rec \in Request /\ rec.step = "accept.commit" /\ rec.link = inviteOf[a] /\ rec.account = a
    BY <2>1 DEF Request, Steps, Idle, Links
  <2> HIDE DEF rec
  <2> QED  BY <1>8, <2>1, <2>2, RecordKeeps DEF AcceptRead, rec, Live
<1>9. ASSUME NEW a \in Accounts, VerifyRead(r, a) PROVE IInv'
  <2> DEFINE rec == [Idle EXCEPT !.step = "verify.commit", !.account = a, !.link = changeOf[a]]
  <2>1. changeOf[a] \in Issued /\ Live(a)
    BY <1>9 DEF VerifyRead, GoodChanges, IInv, LinksInRows
  <2>2. rec \in Request /\ rec.step = "verify.commit" /\ rec.link = changeOf[a] /\ rec.account = a
    BY <2>1 DEF Request, Steps, Idle, Links, Issued
  <2>3. changeOf[a] \notin Invites
    BY <2>1 DEF Issued
  <2> HIDE DEF rec
  <2> QED  BY <1>9, <2>1, <2>2, <2>3, RecordKeeps DEF VerifyRead, rec, Live
<1>10. ASSUME Abort(r) PROVE IInv'
  <2>1. NoLink \notin Invites
    BY DEF Links
  <2> QED  BY <1>10, <2>1, RecordKeeps DEF Abort
<1> QED  BY <1>1, <1>2, <1>3, <1>4, <1>6, <1>7, <1>8, <1>9, <1>10

------------------------------------------------------------------------------
\* The insertion behind an invitation and the mail, and the mail of a resend.
LEMMA MailingKeeps ==
    ASSUME IInv, NEW r \in Requests, NEW i \in Invites \ mailed, NEW rec \in Request,
           mailed' = mailed \cup {i}, req' = [req EXCEPT ![r] = rec], rec.link = i,
           UNCHANGED <<userVars, inviteOf, accepted, otherVars, expired>>,
           \/ /\ rec.step = "invite.commit" /\ rec.email \in Emails
              /\ rec.account \in Accounts /\ Unmade(rec.account) /\ Claimable(rec.account, rec.email)
           \/ /\ rec.step = "resend.commit"
              /\ rec.account \in Accounts /\ status[rec.account] # "none"
    PROVE  IInv'
<1> USE DEF IInv, At, userVars, otherVars
<1>1. TypeOK'
  BY DEF TypeOK
<1>2. /\ \A s \in Requests : s # r => req'[s] = req[s]
      /\ req'[r] = rec
  BY DEF TypeOK
<1>3. NoRowYet' /\ LinksInRows'
  BY DEF NoRowYet, LinksInRows, Issued
<1>4. RowsExist'
  BY <1>2 DEF RowsExist, Writers, Unmade
<1>5. KeysHeld'
  <2>1. rec.step = "invite.commit" =>
          /\ \A b \in Accounts : email[b] # rec.email
          /\ \A s \in Requests : At(s, {"invite.commit"}) => req[s].email # rec.email /\ req[s].account # rec.account
    <3>1. CASE rec.step = "invite.commit"
      <4>1. email[rec.account] # rec.email
        BY <3>1, NoneAssumption DEF Unmade, NoRowYet
      <4>2. rec.account # NoAccount /\ rec.account \in Accounts
        BY <3>1, NoneAssumption
      <4> QED  BY <3>1, <4>1, <4>2 DEF Claimable, Unmade
    <3> QED  BY <3>1
  <2> QED  BY <1>2, <2>1 DEF KeysHeld
<1>6. FreshLinks'
  <2>1. i \notin accepted /\ (\A a \in Accounts : inviteOf[a] # i)
    BY NoneAssumption DEF TypeOK, LinksInRows, Links
  <2>2. \A s \in Requests : req[s].link # i
    BY DEF LinksInHand
  <2> QED  BY <1>2, <2>1, <2>2 DEF FreshLinks, Sending
<1>7. LinksInHand'
  BY <1>2 DEF LinksInHand, Issued
<1>8. OneHolderPerAddress' /\ PendingWasMailed'
  BY DEF OneHolderPerAddress, PendingWasMailed, Live
<1> QED  BY <1>1, <1>3, <1>4, <1>5, <1>6, <1>7, <1>8

LEMMA MailsKeep ==
    ASSUME IInv, NEW r \in Requests, InviteMail(r) \/ ResendMail(r)
    PROVE  IInv'
<1>0. TypeOK /\ RowsExist
  BY DEF IInv
<1>1. CASE InviteMail(r)
  <2>1. PICK a \in Accounts, i \in Invites \ mailed :
           /\ Unmade(a) /\ Claimable(a, req[r].email) /\ mailed' = mailed \cup {i}
           /\ req' = [req EXCEPT ![r].step = "invite.commit", ![r].account = a, ![r].link = i]
    BY <1>1 DEF InviteMail
  <2> DEFINE rec == [req[r] EXCEPT !.step = "invite.commit", !.account = a, !.link = i]
  <2>0. req[r] \in Request /\ i \in Links /\ req[r].email \in Emails
    BY <1>0, <1>1 DEF InviteMail, TypeOK, Links, RowsExist, At
  <2>2. /\ rec \in Request /\ rec.step = "invite.commit" /\ rec.link = i /\ rec.account = a
        /\ rec.email = req[r].email /\ rec.email \in Emails
    BY <2>0 DEF Request, Steps
  <2>3. req' = [req EXCEPT ![r] = rec]
    BY <2>1
  <2> HIDE DEF rec
  <2> QED  BY <1>1, <2>1, <2>2, <2>3, MailingKeeps DEF InviteMail
<1>2. CASE ResendMail(r)
  <2>1. PICK i \in Invites \ mailed :
           /\ mailed' = mailed \cup {i}
           /\ req' = [req EXCEPT ![r].step = "resend.commit", ![r].link = i]
    BY <1>2 DEF ResendMail
  <2> DEFINE rec == [req[r] EXCEPT !.step = "resend.commit", !.link = i]
  <2>2. req[r] \in Request /\ i \in Links
    BY <1>0 DEF TypeOK, Links
  <2>3. /\ rec \in Request /\ req' = [req EXCEPT ![r] = rec]
        /\ rec.step = "resend.commit" /\ rec.link = i /\ rec.account = req[r].account
    BY <2>1, <2>2 DEF Request, Steps
  <2>4. req[r].account \in Accounts /\ status[req[r].account] # "none"
    BY <1>0, <1>2 DEF ResendMail, RowsExist, At, Writers
  <2>5. rec.account \in Accounts /\ status[rec.account] # "none"
    BY <2>3, <2>4
  <2> HIDE DEF rec
  <2> QED  BY <1>2, <2>1, <2>3, <2>5, MailingKeeps DEF ResendMail
<1> QED  BY <1>1, <1>2

\* What the record of a finished handler leaves to show for the others.
LEMMA FinishedRecord ==
    ASSUME TypeOK, NEW r \in Requests, Finish(r)
    PROVE  /\ \A s \in Requests : s # r => req'[s] = req[s]
           /\ req'[r] = Idle
           /\ req' \in [Requests -> Request]
           /\ \A s \in Requests : req'[s].step # "idle" => s # r
BY IdleType DEF TypeOK, Finish

LEMMA InviteCommitKeeps == ASSUME IInv, NEW r \in Requests, InviteCommit(r) PROVE IInv'
<1> DEFINE a == req[r].account
           i == req[r].link
<1> USE DEF IInv, At, otherVars
<1>0. /\ a \in Accounts /\ status[a] = "none" /\ a \notin deleted
      /\ password[a] = "none" /\ changeOf[a] = NoLink /\ inviteOf[a] = NoLink
      /\ req[r].email \in Emails /\ i \in mailed \ accepted /\ i \in Invites
      /\ \A b \in Accounts : email[b] # req[r].email /\ inviteOf[b] # i
  BY DEF InviteCommit, RowsExist, NoRowYet, KeysHeld, FreshLinks, Sending, TypeOK
<1>1. /\ email' = [email EXCEPT ![a] = req[r].email]
      /\ status' = [status EXCEPT ![a] = "pending"]
      /\ inviteOf' = [inviteOf EXCEPT ![a] = i]
      /\ UNCHANGED <<deleted, password, mailed, accepted, changeOf, target, verified, resetOf, expired>>
      /\ req[r].step = "invite.commit" /\ Finish(r)
  BY DEF InviteCommit
<1>2. /\ \A s \in Requests : s # r => req'[s] = req[s]
      /\ req'[r] = Idle /\ req' \in [Requests -> Request]
      /\ \A s \in Requests : req'[s].step # "idle" => s # r
  BY <1>1, FinishedRecord
<1> USE IdleType
<1>3. TypeOK'
  BY <1>0, <1>1, <1>2 DEF TypeOK
<1>4. NoRowYet'
  BY <1>0, <1>1 DEF NoRowYet, TypeOK
<1>5. RowsExist'
  <2>1. \A s \in Requests \ {r} : At(s, {"invite.commit"}) => req[s].account # a
    BY <1>1 DEF KeysHeld
  <2>2. \A b \in Accounts : status[b] # "none" => status'[b] # "none"
    BY <1>1 DEF TypeOK
  <2>3. \A b \in Accounts : b # a => status'[b] = status[b]
    BY <1>1 DEF TypeOK
  <2> QED  BY <1>2, <2>1, <2>2, <2>3 DEF RowsExist, Writers
<1>6. KeysHeld'
  <2>1. \A s \in Requests \ {r} : At(s, {"invite.commit"}) => req[s].email # req[r].email
    BY <1>1 DEF KeysHeld
  <2>2. \A b \in Accounts : email'[b] = IF b = a THEN req[r].email ELSE email[b]
    BY <1>1 DEF TypeOK
  <2> QED  BY <1>2, <2>1, <2>2 DEF KeysHeld
<1>7. FreshLinks' /\ LinksInHand'
  <2>1. \A s \in Requests \ {r} : req[s].link # i
    BY <1>1 DEF FreshLinks, Sending
  <2>2. \A b \in Accounts : inviteOf'[b] = IF b = a THEN i ELSE inviteOf[b]
    BY <1>1 DEF TypeOK
  <2>3. NoLink \notin Invites
    BY NoneAssumption DEF Links
  <2>4. FreshLinks'
    <3>1. \A s \in Requests : At(s, Sending) => req[s].link # NoLink
      BY <2>3 DEF FreshLinks, TypeOK
    <3> QED  BY <1>1, <1>2, <2>1, <2>2, <3>1 DEF FreshLinks, Sending
  <2>5. LinksInHand'
    BY <1>1, <1>2, <2>1, <2>2, <2>3 DEF LinksInHand, Issued
  <2> QED  BY <2>4, <2>5
<1>8. LinksInRows'
  BY <1>0, <1>1 DEF LinksInRows, TypeOK, Issued
<1>9. OneHolderPerAddress' /\ PendingWasMailed'
  BY <1>0, <1>1 DEF OneHolderPerAddress, PendingWasMailed, Live, TypeOK
<1> QED  BY <1>3, <1>4, <1>5, <1>6, <1>7, <1>8, <1>9

LEMMA ResendCommitKeeps == ASSUME IInv, NEW r \in Requests, ResendCommit(r) PROVE IInv'
<1> DEFINE a == req[r].account
           i == req[r].link
<1> USE DEF IInv, At, otherVars, userVars
<1>0. /\ a \in Accounts /\ status[a] # "none" /\ i \in mailed \ accepted /\ i \in Invites
      /\ \A b \in Accounts : inviteOf[b] # i
  BY DEF ResendCommit, RowsExist, Writers, FreshLinks, Sending, TypeOK
<1>1. /\ inviteOf' = [inviteOf EXCEPT ![a] = i]
      /\ UNCHANGED <<email, status, deleted, password, mailed, accepted,
                     changeOf, target, verified, resetOf, expired>>
      /\ req[r].step = "resend.commit" /\ Finish(r)
  BY DEF ResendCommit
<1>2. /\ \A s \in Requests : s # r => req'[s] = req[s]
      /\ req'[r] = Idle /\ req' \in [Requests -> Request]
      /\ \A s \in Requests : req'[s].step # "idle" => s # r
  BY <1>1, FinishedRecord
<1> USE IdleType
<1>3. TypeOK'
  BY <1>0, <1>1, <1>2 DEF TypeOK
<1>4. NoRowYet'
  BY <1>0, <1>1 DEF NoRowYet, TypeOK
<1>5. RowsExist' /\ KeysHeld'
  BY <1>1, <1>2 DEF RowsExist, KeysHeld, Writers
<1>6. FreshLinks' /\ LinksInHand'
  <2>1. \A s \in Requests \ {r} : req[s].link # i
    BY <1>1 DEF FreshLinks, Sending
  <2>2. \A b \in Accounts : inviteOf'[b] = IF b = a THEN i ELSE inviteOf[b]
    BY <1>1 DEF TypeOK
  <2>3. NoLink \notin Invites
    BY NoneAssumption DEF Links
  <2>4. FreshLinks'
    <3>1. \A s \in Requests : At(s, Sending) => req[s].link # NoLink
      BY <2>3 DEF FreshLinks, TypeOK
    <3> QED  BY <1>1, <1>2, <2>1, <2>2, <3>1 DEF FreshLinks, Sending
  <2>5. LinksInHand'
    BY <1>1, <1>2, <2>1, <2>2, <2>3 DEF LinksInHand, Issued
  <2> QED  BY <2>4, <2>5
<1>7. LinksInRows'
  BY <1>0, <1>1 DEF LinksInRows, TypeOK, Issued
<1>8. OneHolderPerAddress' /\ PendingWasMailed'
  BY <1>0, <1>1 DEF OneHolderPerAddress, PendingWasMailed, Live, TypeOK
<1> QED  BY <1>3, <1>4, <1>5, <1>6, <1>7, <1>8

------------------------------------------------------------------------------
LEMMA AcceptCommitKeeps == ASSUME IInv, NEW r \in Requests, AcceptCommit(r) PROVE IInv'
<1> DEFINE a == req[r].account
           i == req[r].link
<1> USE DEF IInv, At, otherVars
<1>0. /\ a \in Accounts /\ status[a] # "none" /\ i \in mailed /\ i \in Invites
      /\ \A b \in Accounts : inviteOf[b] = i => b = a
  BY DEF AcceptCommit, RowsExist, Writers, LinksInHand
<1>1. /\ status' = [status EXCEPT ![a] = "active"]
      /\ password' = IF status[a] = "pending" THEN [password EXCEPT ![a] = Another(@)] ELSE password
      /\ accepted' = accepted \cup {i}
      /\ UNCHANGED <<email, deleted, inviteOf, mailed, changeOf, target, verified, resetOf, expired>>
      /\ req[r].step = "accept.commit" /\ Finish(r)
  BY DEF AcceptCommit, Activate
<1>2. /\ \A s \in Requests : s # r => req'[s] = req[s]
      /\ req'[r] = Idle /\ req' \in [Requests -> Request]
      /\ \A s \in Requests : req'[s].step # "idle" => s # r
  BY <1>1, FinishedRecord
<1> USE IdleType
<1>3. TypeOK'
  BY <1>0, <1>1, <1>2 DEF TypeOK, Another
<1>4. NoRowYet'
  BY <1>0, <1>1 DEF NoRowYet, TypeOK
<1>5. RowsExist' /\ KeysHeld'
  <2>1. \A b \in Accounts : status'[b] = IF b = a THEN "active" ELSE status[b]
    BY <1>1 DEF TypeOK
  <2> QED  BY <1>0, <1>1, <1>2, <2>1 DEF RowsExist, KeysHeld, Writers
<1>6. FreshLinks'
  <2>1. \A s \in Requests : At(s, Sending) => req[s].link # NoLink /\ req[s].link # i
    BY <1>1, NoneAssumption DEF FreshLinks, TypeOK, Links, Sending
  <2> QED  BY <1>1, <1>2, <2>1 DEF FreshLinks, Sending
<1>7. LinksInHand'
  <2>1. NoLink \notin Invites
    BY NoneAssumption DEF Links
  <2> QED  BY <1>1, <1>2, <2>1 DEF LinksInHand, Issued
<1>8. LinksInRows'
  BY <1>1 DEF LinksInRows, Issued
<1>9. OneHolderPerAddress' /\ PendingWasMailed'
  BY <1>0, <1>1 DEF OneHolderPerAddress, PendingWasMailed, Live, TypeOK
<1> QED  BY <1>3, <1>4, <1>5, <1>6, <1>7, <1>8, <1>9

LEMMA DeleteCommitKeeps == ASSUME IInv, NEW r \in Requests, DeleteCommit(r) PROVE IInv'
<1> DEFINE a == req[r].account
<1> USE DEF IInv, At, otherVars, inviteVars
<1>0. a \in Accounts /\ status[a] # "none"
  BY DEF DeleteCommit, RowsExist, Writers
<1>1. /\ email' = [email EXCEPT ![a] = NoEmail]
      /\ password' = [password EXCEPT ![a] = "none"]
      /\ deleted' = deleted \cup {a}
      /\ UNCHANGED <<status, inviteOf, mailed, accepted, changeOf, target, verified, resetOf, expired>>
      /\ req[r].step = "delete.commit" /\ Finish(r)
  BY DEF DeleteCommit
<1>2. /\ \A s \in Requests : s # r => req'[s] = req[s]
      /\ req'[r] = Idle /\ req' \in [Requests -> Request]
      /\ \A s \in Requests : req'[s].step # "idle" => s # r
  BY <1>1, FinishedRecord
<1> USE IdleType
<1>3. TypeOK'
  BY <1>0, <1>1, <1>2 DEF TypeOK
<1>4. NoRowYet'
  BY <1>0, <1>1 DEF NoRowYet, TypeOK
<1>5. RowsExist' /\ KeysHeld'
  <2>1. \A b \in Accounts : email'[b] = IF b = a THEN NoEmail ELSE email[b]
    BY <1>1 DEF TypeOK
  <2> QED  BY <1>1, <1>2, <2>1, NoneAssumption DEF RowsExist, KeysHeld, Writers
<1>6. FreshLinks'
  <2>1. \A s \in Requests : At(s, Sending) => req[s].link # NoLink
    BY NoneAssumption DEF FreshLinks, TypeOK, Links
  <2> QED  BY <1>1, <1>2, <2>1 DEF FreshLinks, Sending
<1>7. LinksInHand'
  <2>1. NoLink \notin Invites
    BY NoneAssumption DEF Links
  <2> QED  BY <1>1, <1>2, <2>1 DEF LinksInHand, Issued
<1>8. LinksInRows'
  BY <1>1 DEF LinksInRows, Issued
<1>9. OneHolderPerAddress' /\ PendingWasMailed'
  BY <1>0, <1>1 DEF OneHolderPerAddress, PendingWasMailed, Live, TypeOK
<1> QED  BY <1>3, <1>4, <1>5, <1>6, <1>7, <1>8, <1>9

LEMMA SignupCommitKeeps == ASSUME IInv, NEW r \in Requests, SignupCommit(r) PROVE IInv'
<1> DEFINE x == req[r].email
<1> USE DEF IInv, At, otherVars, inviteVars
<1>0. PICK a \in Accounts :
         /\ Unmade(a) /\ Claimable(a, x)
         /\ email' = [email EXCEPT ![a] = x]
         /\ status' = [status EXCEPT ![a] = "active"]
         /\ password' = [password EXCEPT ![a] = "one"]
  BY DEF SignupCommit
<1>1. /\ UNCHANGED <<deleted, inviteOf, mailed, accepted, changeOf, target, verified, resetOf, expired>>
      /\ req[r].step = "signup.commit" /\ Finish(r)
      /\ status[a] = "none" /\ a \notin deleted /\ inviteOf[a] = NoLink
      /\ \A s \in Requests : req[s].account # a
      /\ \A b \in Accounts \ {a} : email[b] # x
      /\ \A s \in Requests : At(s, {"invite.commit"}) => req[s].email # x
  BY <1>0 DEF SignupCommit, Unmade, Claimable, NoRowYet
<1>2. /\ \A s \in Requests : s # r => req'[s] = req[s]
      /\ req'[r] = Idle /\ req' \in [Requests -> Request]
      /\ \A s \in Requests : req'[s].step # "idle" => s # r
  BY <1>1, FinishedRecord
<1> USE IdleType
<1>3. TypeOK'
  BY <1>0, <1>1, <1>2 DEF TypeOK, Request
<1>4. NoRowYet'
  BY <1>0, <1>1 DEF NoRowYet, TypeOK
<1>5. RowsExist' /\ KeysHeld'
  <2>1. \A b \in Accounts : /\ email'[b] = IF b = a THEN x ELSE email[b]
                            /\ status'[b] = IF b = a THEN "active" ELSE status[b]
    BY <1>0 DEF TypeOK
  <2> QED  BY <1>1, <1>2, <2>1 DEF RowsExist, KeysHeld, Writers
<1>6. FreshLinks'
  <2>1. \A s \in Requests : At(s, Sending) => req[s].link # NoLink
    BY NoneAssumption DEF FreshLinks, TypeOK, Links
  <2> QED  BY <1>1, <1>2, <2>1 DEF FreshLinks, Sending
<1>7. LinksInHand'
  <2>1. NoLink \notin Invites
    BY NoneAssumption DEF Links
  <2> QED  BY <1>1, <1>2, <2>1 DEF LinksInHand, Issued
<1>8. LinksInRows'
  BY <1>1 DEF LinksInRows, Issued
<1>9. OneHolderPerAddress' /\ PendingWasMailed'
  BY <1>0, <1>1 DEF OneHolderPerAddress, PendingWasMailed, Live, TypeOK
<1> QED  BY <1>3, <1>4, <1>5, <1>6, <1>7, <1>8, <1>9

LEMMA ChangeCommitKeeps == ASSUME IInv, NEW r \in Requests, ChangeCommit(r) PROVE IInv'
<1> DEFINE a == req[r].account
<1> USE DEF IInv, At, userVars, inviteVars
<1>0. PICK l \in ChangeLinks :
         /\ target[l] = NoEmail
         /\ target' = [target EXCEPT ![l] = req[r].email]
         /\ changeOf' = [changeOf EXCEPT ![a] = l]
  BY DEF ChangeCommit
<1>1. /\ UNCHANGED <<email, status, password, deleted, inviteOf, mailed, accepted, verified, resetOf, expired>>
      /\ req[r].step = "change.commit" /\ Finish(r)
      /\ a \in Accounts /\ status[a] # "none" /\ req[r].email \in Emails
  BY DEF ChangeCommit, RowsExist, Writers
<1>2. /\ \A s \in Requests : s # r => req'[s] = req[s]
      /\ req'[r] = Idle /\ req' \in [Requests -> Request]
      /\ \A s \in Requests : req'[s].step # "idle" => s # r
  BY <1>1, FinishedRecord
<1> USE IdleType
<1>3. TypeOK'
  BY <1>0, <1>1, <1>2 DEF TypeOK
<1>4. Issued' = Issued \cup {l}
  BY <1>0, <1>1, NoneAssumption DEF Issued, TypeOK
<1>5. NoRowYet'
  BY <1>0, <1>1 DEF NoRowYet, TypeOK
<1>6. RowsExist' /\ KeysHeld'
  BY <1>1, <1>2 DEF RowsExist, KeysHeld, Writers
<1>7. FreshLinks'
  <2>1. \A s \in Requests : At(s, Sending) => req[s].link # NoLink
    BY NoneAssumption DEF FreshLinks, TypeOK, Links
  <2> QED  BY <1>1, <1>2, <2>1 DEF FreshLinks, Sending
<1>8. LinksInHand'
  <2>1. NoLink \notin Invites
    BY NoneAssumption DEF Links
  <2> QED  BY <1>1, <1>2, <1>4, <2>1 DEF LinksInHand
<1>9. LinksInRows'
  BY <1>0, <1>1, <1>4 DEF LinksInRows, TypeOK
<1>10. OneHolderPerAddress' /\ PendingWasMailed'
  BY <1>0, <1>1 DEF OneHolderPerAddress, PendingWasMailed, Live, TypeOK
<1> QED  BY <1>3, <1>5, <1>6, <1>7, <1>8, <1>9, <1>10

LEMMA VerifyCommitKeeps == ASSUME IInv, NEW r \in Requests, VerifyCommit(r) PROVE IInv'
<1> DEFINE a == req[r].account
           l == req[r].link
           x == target[l]
<1> USE DEF IInv, At, inviteVars
<1>0. a \in Accounts /\ status[a] # "none" /\ l \in Issued /\ x \in Emails
  BY DEF VerifyCommit, RowsExist, Writers, LinksInHand, Issued, TypeOK
<1>1. /\ email' = [email EXCEPT ![a] = x]
      /\ verified' = verified \cup {l}
      /\ UNCHANGED <<status, deleted, password, inviteOf, mailed, accepted, changeOf, target, resetOf, expired>>
      /\ req[r].step = "verify.commit" /\ Finish(r)
      /\ \A b \in Accounts \ {a} : email[b] # x
      /\ \A s \in Requests : At(s, {"invite.commit"}) => req[s].email # x
  BY DEF VerifyCommit, Claimable
<1>2. /\ \A s \in Requests : s # r => req'[s] = req[s]
      /\ req'[r] = Idle /\ req' \in [Requests -> Request]
      /\ \A s \in Requests : req'[s].step # "idle" => s # r
  BY <1>1, FinishedRecord
<1> USE IdleType
<1>3. TypeOK'
  BY <1>0, <1>1, <1>2 DEF TypeOK, Issued
<1>4. NoRowYet'
  BY <1>0, <1>1 DEF NoRowYet, TypeOK
<1>5. RowsExist' /\ KeysHeld'
  <2>1. \A b \in Accounts : email'[b] = IF b = a THEN x ELSE email[b]
    BY <1>1 DEF TypeOK
  <2> QED  BY <1>1, <1>2, <2>1 DEF RowsExist, KeysHeld, Writers
<1>6. FreshLinks'
  <2>1. \A s \in Requests : At(s, Sending) => req[s].link # NoLink
    BY NoneAssumption DEF FreshLinks, TypeOK, Links
  <2> QED  BY <1>1, <1>2, <2>1 DEF FreshLinks, Sending
<1>7. LinksInHand'
  <2>1. NoLink \notin Invites
    BY NoneAssumption DEF Links
  <2> QED  BY <1>1, <1>2, <2>1 DEF LinksInHand, Issued
<1>8. LinksInRows'
  BY <1>0, <1>1 DEF LinksInRows, Issued
<1>9. OneHolderPerAddress' /\ PendingWasMailed'
  BY <1>0, <1>1 DEF OneHolderPerAddress, PendingWasMailed, Live, TypeOK
<1> QED  BY <1>3, <1>4, <1>5, <1>6, <1>7, <1>8, <1>9

\* A reset link is made, or a password written: neither is seen by the others.
LEMMA PasswordsKeep == ASSUME IInv, NEW r \in Requests, ForgotCommit(r) \/ PasswordCommit(r) PROVE IInv'
<1> DEFINE a == req[r].account
<1> USE DEF IInv, At, inviteVars
<1>0. a \in Accounts /\ status[a] # "none"
  BY DEF ForgotCommit, PasswordCommit, RowsExist, Writers
<1>1. /\ UNCHANGED <<email, status, deleted, inviteVars, changeOf, target, verified, expired>>
      /\ req[r].step \in {"forgot.commit", "password.commit"} /\ Finish(r)
      /\ password' \in [Accounts -> {"none", "one", "other"}]
      /\ resetOf' \in [Accounts -> ResetLinks \cup {NoLink}]
      /\ \A b \in Accounts \ {a} : password'[b] = password[b] /\ resetOf'[b] = resetOf[b]
  BY <1>0 DEF ForgotCommit, PasswordCommit, userVars, TypeOK
<1>2. /\ \A s \in Requests : s # r => req'[s] = req[s]
      /\ req'[r] = Idle /\ req' \in [Requests -> Request]
      /\ \A s \in Requests : req'[s].step # "idle" => s # r
  BY <1>1, FinishedRecord
<1> USE IdleType
<1>3. TypeOK'
  BY <1>1, <1>2 DEF TypeOK
<1>4. NoRowYet'
  BY <1>0, <1>1 DEF NoRowYet
<1>5. RowsExist' /\ KeysHeld'
  BY <1>1, <1>2 DEF RowsExist, KeysHeld, Writers
<1>6. FreshLinks'
  <2>1. \A s \in Requests : At(s, Sending) => req[s].link # NoLink
    BY NoneAssumption DEF FreshLinks, TypeOK, Links
  <2> QED  BY <1>1, <1>2, <2>1 DEF FreshLinks, Sending
<1>7. LinksInHand'
  <2>1. NoLink \notin Invites
    BY NoneAssumption DEF Links
  <2> QED  BY <1>1, <1>2, <2>1 DEF LinksInHand, Issued
<1>8. LinksInRows' /\ OneHolderPerAddress' /\ PendingWasMailed'
  BY <1>1 DEF LinksInRows, Issued, OneHolderPerAddress, PendingWasMailed, Live
<1> QED  BY <1>3, <1>4, <1>5, <1>6, <1>7, <1>8

LEMMA TimeKeeps ==
    ASSUME IInv, \/ \E l \in Invites \cup ChangeLinks : Expire(l)
                 \/ \E a \in Accounts : ExpireReset(a)
    PROVE  IInv'
<1> USE DEF IInv, At, userVars, inviteVars, otherVars
<1>1. ASSUME NEW l \in Invites \cup ChangeLinks, Expire(l) PROVE IInv'
  <2>0. /\ expired' = expired \cup {l} /\ UNCHANGED <<userVars, inviteVars, otherVars, req>>
        /\ l \in ChangeLinks => l \in Issued
    <3>1. l \in ChangeLinks => l \notin GoodInvites
      BY KindsAssumption, NoneAssumption DEF GoodInvites, TypeOK, Links
    <3> QED  BY <1>1, <3>1 DEF Expire, GoodChanges, LinksInRows
  <2>1. TypeOK'
    BY <2>0 DEF TypeOK
  <2>2. NoRowYet' /\ RowsExist' /\ KeysHeld' /\ FreshLinks'
    BY <2>0 DEF NoRowYet, RowsExist, KeysHeld, FreshLinks
  <2>3. LinksInHand' /\ LinksInRows'
    BY <2>0 DEF LinksInHand, LinksInRows, Issued
  <2>4. OneHolderPerAddress' /\ PendingWasMailed'
    BY <2>0 DEF OneHolderPerAddress, PendingWasMailed, Live
  <2> QED  BY <2>1, <2>2, <2>3, <2>4
<1>2. ASSUME NEW a \in Accounts, ExpireReset(a) PROVE IInv'
  <2>0. /\ resetOf' = [resetOf EXCEPT ![a] = NoLink]
        /\ UNCHANGED <<userVars, inviteVars, changeOf, target, verified, expired, req>>
    BY <1>2 DEF ExpireReset
  <2>1. TypeOK' /\ NoRowYet'
    BY <2>0 DEF TypeOK, NoRowYet
  <2>2. RowsExist' /\ KeysHeld' /\ FreshLinks'
    BY <2>0 DEF RowsExist, KeysHeld, FreshLinks
  <2>3. LinksInHand' /\ LinksInRows'
    BY <2>0 DEF LinksInHand, LinksInRows, Issued
  <2>4. OneHolderPerAddress' /\ PendingWasMailed'
    BY <2>0 DEF OneHolderPerAddress, PendingWasMailed, Live
  <2> QED  BY <2>1, <2>2, <2>3, <2>4
<1> QED  BY <1>1, <1>2

LEMMA StutterKeeps == ASSUME IInv, UNCHANGED vars PROVE IInv'
BY DEF IInv, vars, userVars, inviteVars, otherVars, TypeOK, NoRowYet, RowsExist, KeysHeld, FreshLinks,
       LinksInHand, LinksInRows, OneHolderPerAddress, PendingWasMailed, At, Issued, Live

LEMMA StepIInv == IInv /\ [Next]_vars => IInv'
BY ReadsKeep, MailsKeep, InviteCommitKeeps, ResendCommitKeeps, AcceptCommitKeeps, DeleteCommitKeeps,
   SignupCommitKeeps, ChangeCommitKeeps, VerifyCommitKeeps, PasswordsKeep, TimeKeeps, StutterKeeps DEF Next

LEMMA Invariance == Spec => []IInv
BY InitIInv, StepIInv, PTL DEF Spec

\* Every reachable state is well typed.
THEOREM AccountTypes == Spec => []TypeOK
BY Invariance, PTL DEF IInv

\* The UNIQUE key keeps two handlers that both found an address free from both
\* getting it.
THEOREM OneHolder == Spec => []OneHolderPerAddress
BY Invariance, PTL DEF IInv

\* Whatever a resend commits was mailed before, and was accepted by nobody.
THEOREM PendingHasMail == Spec => []PendingWasMailed
BY Invariance, PTL DEF IInv

------------------------------------------------------------------------------
\* What a handler that mails an invitation leaves in its record.
LEMMA SendingRecord ==
    ASSUME TypeOK, NEW r \in Requests, InviteMail(r) \/ ResendMail(r)
    PROVE  \E i \in Invites \ mailed, rec \in Request :
              /\ mailed' = mailed \cup {i}
              /\ req' = [req EXCEPT ![r] = rec] /\ rec.link = i /\ rec.step \in Sending
<1>0. req \in [Requests -> Request]
  BY DEF TypeOK
<1>1. CASE InviteMail(r)
  <2>1. PICK a \in Accounts, i \in Invites \ mailed :
            /\ mailed' = mailed \cup {i}
            /\ req' = [req EXCEPT ![r].step = "invite.commit", ![r].account = a, ![r].link = i]
    BY <1>1 DEF InviteMail
  <2> DEFINE rec == [req[r] EXCEPT !.step = "invite.commit", !.account = a, !.link = i]
  <2>2. rec \in Request /\ req' = [req EXCEPT ![r] = rec] /\ rec.link = i /\ rec.step \in Sending
    BY <1>0, <2>1 DEF Request, Steps, Links, Sending
  <2> QED  BY <2>1, <2>2
<1>2. CASE ResendMail(r)
  <2>1. PICK i \in Invites \ mailed :
            /\ mailed' = mailed \cup {i}
            /\ req' = [req EXCEPT ![r].step = "resend.commit", ![r].link = i]
    BY <1>2 DEF ResendMail
  <2> DEFINE rec == [req[r] EXCEPT !.step = "resend.commit", !.link = i]
  <2>2. rec \in Request /\ req' = [req EXCEPT ![r] = rec] /\ rec.link = i /\ rec.step \in Sending
    BY <1>0, <2>1 DEF Request, Steps, Links, Sending
  <2> QED  BY <2>1, <2>2
<1> QED  BY <1>1, <1>2

\* The handlers that leave every password alone.
LEMMA PasswordsStay ==
    ASSUME [Next]_vars, ~\E r \in Requests : \/ AcceptCommit(r) \/ SignupCommit(r)
                                            \/ DeleteCommit(r) \/ PasswordCommit(r)
    PROVE  UNCHANGED password
<1>1. ASSUME NEW r \in Requests,
             \/ \E x \in Emails : InviteRead(r, x) \/ SignupRead(r, x) \/ TenantSignupRead(r, x)
             \/ \E a \in Accounts : ResendRead(r, a) \/ AcceptRead(r, a) \/ DeleteRead(r, a) \/ VerifyRead(r, a)
             \/ \E a \in Accounts : ForgotRead(r, a) \/ ResetRead(r, a) \/ PasswordRead(r, a)
             \/ \E a \in Accounts, x \in Emails : ChangeRead(r, a, x)
      PROVE  UNCHANGED password
  BY <1>1 DEF InviteRead, SignupRead, TenantSignupRead, ResendRead, AcceptRead, DeleteRead, VerifyRead,
              ForgotRead, ResetRead, PasswordRead, ChangeRead, userVars
<1>2. ASSUME NEW r \in Requests,
             \/ InviteMail(r) \/ InviteCommit(r) \/ ResendMail(r) \/ ResendCommit(r)
             \/ ChangeCommit(r) \/ VerifyCommit(r) \/ ForgotCommit(r) \/ Abort(r)
      PROVE  UNCHANGED password
  BY <1>2 DEF InviteMail, InviteCommit, ResendMail, ResendCommit, ChangeCommit, VerifyCommit, ForgotCommit,
              Abort, userVars
<1>3. ASSUME \/ UNCHANGED vars
             \/ \E l \in Invites \cup ChangeLinks : Expire(l)
             \/ \E a \in Accounts : ExpireReset(a)
      PROVE  UNCHANGED password
  BY <1>3 DEF vars, Expire, ExpireReset, userVars
<1> QED  BY <1>1, <1>2, <1>3 DEF Next

\* The status test of ActivateInvitedUser keeps the password of whoever accepted
\* first: only a reset or a change of the account's own password replaces it.
THEOREM FirstPasswordWins == Spec => FirstPasswordStays
<1> DEFINE Stays ==
       \A a \in Accounts \ deleted' : status[a] = "active" =>
          \/ password'[a] = password[a]
          \/ \E r \in Requests : /\ req[r].step = "password.commit" /\ req[r].account = a
                                 /\ req'[r] = Idle
<1>1. ASSUME IInv, [Next]_vars PROVE Stays
  <2> USE <1>1 DEF IInv
  <2>1. ASSUME NEW r \in Requests, AcceptCommit(r) PROVE Stays
    BY <2>1 DEF AcceptCommit, Activate, TypeOK
  <2>2. ASSUME NEW r \in Requests, SignupCommit(r) PROVE Stays
    <3>1. PICK a \in Accounts : status[a] = "none" /\ password' = [password EXCEPT ![a] = "one"]
      BY <2>2 DEF SignupCommit, Unmade
    <3> QED  BY <3>1 DEF TypeOK
  <2>3. ASSUME NEW r \in Requests, DeleteCommit(r) PROVE Stays
    BY <2>3 DEF DeleteCommit, TypeOK
  <2>4. ASSUME NEW r \in Requests, PasswordCommit(r) PROVE Stays
    <3>1. /\ req[r].step = "password.commit" /\ req'[r] = Idle
          /\ password' = [password EXCEPT ![req[r].account] = "one"]
      BY <2>4 DEF PasswordCommit, Finish, TypeOK
    <3> QED  BY <3>1 DEF TypeOK
  <2>5. ASSUME UNCHANGED password PROVE Stays
    BY <2>5
  <2> HIDE DEF Stays
  <2> QED  BY <2>1, <2>2, <2>3, <2>4, <2>5, PasswordsStay
<1>2. IInv /\ [Next]_vars => [Stays]_vars
  BY <1>1
<1> QED  BY <1>2, Invariance, PTL DEF Spec, FirstPasswordStays

------------------------------------------------------------------------------
\* The two halves of DeletedStaysAnonymous, for one account.
Settles(a) == /\ Nameless(a) => Nameless(a)'
              /\ Locked(a) => Locked(a)'

\* A handler whose new record is about to write nothing to a, and who writes
\* nothing to it now.
LEMMA RecordSettles ==
    ASSUME TypeOK, NEW a \in Accounts, NEW r \in Requests, NEW rec, req' = [req EXCEPT ![r] = rec],
           rec.step = "verify.commit" => rec.account # a,
           rec.step \in {"accept.commit", "password.commit", "forgot.commit"} /\ Locked(a) => rec.account # a,
           Nameless(a) => email'[a] = email[a] \/ email'[a] = NoEmail,
           Locked(a) => /\ password'[a] = password[a] \/ password'[a] = "none"
                        /\ resetOf'[a] = resetOf[a] \/ resetOf'[a] = NoLink
    PROVE  Settles(a)
<1>1. req'[r] = rec /\ \A s \in Requests \ {r} : req'[s] = req[s]
  BY DEF TypeOK
<1>2. Nameless(a) => Nameless(a)'
  BY <1>1 DEF Nameless, Writing
<1>3. Locked(a) => Locked(a)'
  BY <1>1 DEF Locked, Writing
<1> QED  BY <1>2, <1>3 DEF Settles

\* What is read of a deleted account begins nothing that gives it an address or a
\* password, unless a reset link of it still works.
LEMMA ReadSettles ==
    ASSUME IInv, NEW a \in deleted, NEW r \in Requests,
           \/ \E x \in Emails : InviteRead(r, x) \/ SignupRead(r, x) \/ TenantSignupRead(r, x)
           \/ \E b \in Accounts : ResendRead(r, b) \/ AcceptRead(r, b) \/ DeleteRead(r, b) \/ VerifyRead(r, b)
           \/ \E b \in Accounts : ForgotRead(r, b) \/ ResetRead(r, b) \/ PasswordRead(r, b)
           \/ \E b \in Accounts, x \in Emails : ChangeRead(r, b, x)
    PROVE  Settles(a)
<1>0. TypeOK /\ a \in Accounts
  BY DEF IInv, TypeOK
<1>1. ASSUME NEW rec, Start(r, rec), UNCHANGED <<userVars, otherVars>>,
             rec.step = "verify.commit" => rec.account # a,
             rec.step \in {"accept.commit", "password.commit", "forgot.commit"} /\ Locked(a) => rec.account # a
      PROVE  Settles(a)
  BY <1>0, <1>1, RecordSettles DEF Start, userVars, otherVars
<1>2. CASE \E x \in Emails : InviteRead(r, x) \/ SignupRead(r, x) \/ TenantSignupRead(r, x)
  BY <1>1, <1>2 DEF InviteRead, SignupRead, TenantSignupRead, Idle
<1>3. CASE \E b \in Accounts : ResendRead(r, b) \/ DeleteRead(r, b)
  BY <1>1, <1>3 DEF ResendRead, DeleteRead, Idle
<1>4. ASSUME NEW b \in Accounts, AcceptRead(r, b) PROVE Settles(a)
  <2>1. PICK c \in Accounts : Live(c) /\ inviteOf[c] = inviteOf[b] /\ inviteOf[c] # NoLink
    BY <1>4 DEF AcceptRead, GoodInvites
  <2>2. b # a
    BY <2>1 DEF IInv, LinksInRows, Live
  <2> QED  BY <1>1, <1>4, <2>2 DEF AcceptRead, Idle
<1>5. CASE \E b \in Accounts : VerifyRead(r, b) \/ ForgotRead(r, b) \/ PasswordRead(r, b)
  BY <1>1, <1>5 DEF VerifyRead, ForgotRead, PasswordRead, Live, Idle
<1>6. CASE \E b \in Accounts : ResetRead(r, b)
  BY <1>1, <1>6 DEF ResetRead, Locked, Idle
<1>7. CASE \E b \in Accounts, x \in Emails : ChangeRead(r, b, x)
  BY <1>1, <1>7 DEF ChangeRead, Idle
<1> QED  BY <1>2, <1>3, <1>4, <1>5, <1>6, <1>7

\* Whoever writes to a deleted account was about to; the others write elsewhere.
LEMMA WriteSettles ==
    ASSUME IInv, NEW a \in deleted, NEW r \in Requests,
           \/ InviteCommit(r) \/ ResendCommit(r) \/ AcceptCommit(r) \/ DeleteCommit(r) \/ SignupCommit(r)
           \/ ChangeCommit(r) \/ VerifyCommit(r) \/ ForgotCommit(r) \/ PasswordCommit(r) \/ Abort(r)
    PROVE  Settles(a)
<1> DEFINE w == req[r].account
<1>0. TypeOK /\ a \in Accounts /\ status[a] # "none"
  BY DEF IInv, TypeOK, NoRowYet
<1>1. req' = [req EXCEPT ![r] = Idle]
  BY DEF InviteCommit, ResendCommit, AcceptCommit, DeleteCommit, SignupCommit, ChangeCommit, VerifyCommit,
         ForgotCommit, PasswordCommit, Abort, Finish
<1>2. /\ w = a /\ req[r].step = "verify.commit" => ~Nameless(a)
      /\ w = a /\ req[r].step \in {"accept.commit", "password.commit", "forgot.commit"} => ~Locked(a)
  BY DEF Nameless, Locked, Writing
<1>3. Nameless(a) => email'[a] = email[a] \/ email'[a] = NoEmail
  <2>1. CASE InviteCommit(r)
    BY <1>0, <2>1 DEF InviteCommit, IInv, RowsExist, At, TypeOK
  <2>2. CASE SignupCommit(r)
    <3>1. PICK b \in Accounts : status[b] = "none" /\ email' = [email EXCEPT ![b] = req[r].email]
      BY <2>2 DEF SignupCommit, Unmade
    <3> QED  BY <1>0, <3>1 DEF TypeOK
  <2>3. CASE VerifyCommit(r) \/ DeleteCommit(r)
    BY <1>0, <1>2, <2>3 DEF VerifyCommit, DeleteCommit, TypeOK
  <2>4. CASE \/ ResendCommit(r) \/ AcceptCommit(r) \/ ChangeCommit(r)
             \/ ForgotCommit(r) \/ PasswordCommit(r) \/ Abort(r)
    BY <2>4 DEF ResendCommit, AcceptCommit, ChangeCommit, ForgotCommit, PasswordCommit, Abort, userVars
  <2> QED  BY <2>1, <2>2, <2>3, <2>4
<1>4. Locked(a) => password'[a] = password[a] \/ password'[a] = "none"
  <2>1. CASE AcceptCommit(r)
    BY <1>0, <1>2, <2>1 DEF AcceptCommit, Activate, TypeOK
  <2>2. CASE SignupCommit(r)
    <3>1. PICK b \in Accounts : status[b] = "none" /\ password' = [password EXCEPT ![b] = "one"]
      BY <2>2 DEF SignupCommit, Unmade
    <3> QED  BY <1>0, <3>1 DEF TypeOK
  <2>3. CASE DeleteCommit(r) \/ PasswordCommit(r)
    BY <1>0, <1>2, <2>3 DEF DeleteCommit, PasswordCommit, TypeOK
  <2>4. CASE \/ InviteCommit(r) \/ ResendCommit(r) \/ ChangeCommit(r) \/ VerifyCommit(r)
             \/ ForgotCommit(r) \/ Abort(r)
    BY <2>4 DEF InviteCommit, ResendCommit, ChangeCommit, VerifyCommit, ForgotCommit, Abort, userVars
  <2> QED  BY <2>1, <2>2, <2>3, <2>4
<1>5. Locked(a) => resetOf'[a] = resetOf[a] \/ resetOf'[a] = NoLink
  <2>1. CASE ForgotCommit(r) \/ PasswordCommit(r)
    BY <1>0, <1>2, <2>1 DEF ForgotCommit, PasswordCommit, TypeOK
  <2>2. CASE \/ InviteCommit(r) \/ ResendCommit(r) \/ AcceptCommit(r) \/ DeleteCommit(r)
             \/ SignupCommit(r) \/ ChangeCommit(r) \/ VerifyCommit(r) \/ Abort(r)
    BY <2>2 DEF InviteCommit, ResendCommit, AcceptCommit, DeleteCommit, SignupCommit, ChangeCommit,
                VerifyCommit, Abort, otherVars
  <2> QED  BY <2>1, <2>2
<1> HIDE DEF w
<1> QED  BY <1>0, <1>1, <1>3, <1>4, <1>5, IdleType, RecordSettles

\* Nothing that begins after a deletion gives the account an address or a password
\* back: what does was in flight, or is a reset link that worked, at that time.
THEOREM DeletedGetsNothingNew == Spec => DeletedStaysAnonymous
<1>1. ASSUME IInv, Next, NEW a \in deleted PROVE Settles(a)
  <2>1. ASSUME NEW r \in Requests,
               \/ \E x \in Emails : InviteRead(r, x) \/ SignupRead(r, x) \/ TenantSignupRead(r, x)
               \/ \E b \in Accounts : ResendRead(r, b) \/ AcceptRead(r, b) \/ DeleteRead(r, b) \/ VerifyRead(r, b)
               \/ \E b \in Accounts : ForgotRead(r, b) \/ ResetRead(r, b) \/ PasswordRead(r, b)
               \/ \E b \in Accounts, x \in Emails : ChangeRead(r, b, x)
        PROVE  Settles(a)
    BY <1>1, <2>1, ReadSettles
  <2>2. ASSUME NEW r \in Requests,
               \/ InviteCommit(r) \/ ResendCommit(r) \/ AcceptCommit(r) \/ DeleteCommit(r) \/ SignupCommit(r)
               \/ ChangeCommit(r) \/ VerifyCommit(r) \/ ForgotCommit(r) \/ PasswordCommit(r) \/ Abort(r)
        PROVE  Settles(a)
    BY <1>1, <2>2, WriteSettles
  <2>3. ASSUME NEW r \in Requests, InviteMail(r) \/ ResendMail(r) PROVE Settles(a)
    <3>1. PICK rec \in Request : req' = [req EXCEPT ![r] = rec] /\ rec.step \in Sending
      BY <1>1, <2>3, SendingRecord DEF IInv
    <3>2. UNCHANGED <<email, password, resetOf>>
      BY <2>3 DEF InviteMail, ResendMail, userVars, otherVars
    <3> QED  BY <1>1, <3>1, <3>2, RecordSettles DEF IInv, TypeOK, Sending
  <2>4. ASSUME NEW l \in Invites \cup ChangeLinks, Expire(l) PROVE Settles(a)
    BY <2>4 DEF Expire, userVars, otherVars, Settles, Nameless, Locked, Writing
  <2>5. ASSUME NEW b \in Accounts, ExpireReset(b) PROVE Settles(a)
    <3>1. /\ UNCHANGED <<email, password, req>> /\ a \in Accounts
          /\ resetOf'[a] = resetOf[a] \/ resetOf'[a] = NoLink
      BY <1>1, <2>5 DEF ExpireReset, userVars, IInv, TypeOK
    <3> QED  BY <3>1 DEF Settles, Nameless, Locked, Writing
  <2> QED  BY <1>1, <2>1, <2>2, <2>3, <2>4, <2>5 DEF Next
<1>2. IInv /\ [Next]_vars => [\A a \in deleted : Settles(a)]_vars
  BY <1>1
<1> QED  BY <1>2, Invariance, PTL DEF Spec, DeletedStaysAnonymous, Settles

------------------------------------------------------------------------------
\* The invitations that left by mail and whose transaction is over.
Settled == mailed \ UnderWay

\* The link each acceptance, and each change of address, has found good.
Accepting == [r \in Requests |-> IF req[r].step = "accept.commit" THEN req[r].link ELSE NoLink]
Verifying == [r \in Requests |-> IF req[r].step = "verify.commit" THEN req[r].link ELSE NoLink]

\* What has been issued grows from I to I1 and nothing that was issued becomes
\* good again: that is a turnover from the good ones G to the good ones G1.
LEMMA TurnoverOf ==
    ASSUME NEW G, NEW I, NEW G1, NEW I1, G \subseteq I, G1 \subseteq I1, I \subseteq I1, G1 \cap I \subseteq G
    PROVE  /\ (I1 \ I) \cap (G \cup (I \ G)) = {}
           /\ G1 = (G \cup (I1 \ I)) \ (I1 \ G1)
           /\ I1 \ G1 = (I \ G) \cup ((I1 \ G1) \cap (G \cup (I1 \ I)))
OBVIOUS

LEMMA GoodSettled ==
    ASSUME IInv
    PROVE  GoodInvites \subseteq Settled /\ Settled \subseteq Invites /\ GoodChanges \subseteq Issued
BY DEF IInv, TypeOK, GoodInvites, GoodChanges, Settled, UnderWay, LinksInRows, FreshLinks, Sending, At

LEMMA GoodSettledNext ==
    ASSUME IInv'
    PROVE  GoodInvites' \subseteq Settled' /\ Settled' \subseteq Invites /\ GoodChanges' \subseteq Issued'
BY DEF IInv, TypeOK, GoodInvites, GoodChanges, Settled, UnderWay, LinksInRows, FreshLinks, Sending, At

LEMMA InviteTurnover ==
    ASSUME IInv, IInv', Settled \subseteq Settled', GoodInvites' \cap Settled \subseteq GoodInvites
    PROVE  Invitations!Turnover(Settled' \ Settled, Settled' \ GoodInvites')
<1> DEFINE G == GoodInvites  G1 == GoodInvites'  I == Settled  I1 == Settled'
<1>1. G \subseteq I /\ G1 \subseteq I1 /\ I \subseteq I1 /\ G1 \cap I \subseteq G
  BY GoodSettled, GoodSettledNext
<1>2. /\ I \ G = mailed \ (GoodInvites \cup UnderWay)
      /\ I1 \ G1 = mailed' \ (GoodInvites' \cup UnderWay')
  BY DEF Settled
<1> HIDE DEF G, G1, I, I1
<1>3. /\ (I1 \ I) \cap (G \cup (I \ G)) = {}
      /\ G1 = (G \cup (I1 \ I)) \ (I1 \ G1)
      /\ I1 \ G1 = (I \ G) \cup ((I1 \ G1) \cap (G \cup (I1 \ I)))
  BY <1>1, TurnoverOf
<1> QED  BY <1>2, <1>3 DEF Invitations!Turnover, G, G1, I, I1

\* Whatever neither accepts nor begins to.
LEMMA InviteManage ==
    ASSUME IInv, IInv', Settled \subseteq Settled', GoodInvites' \cap Settled \subseteq GoodInvites,
           UNCHANGED <<accepted, Accepting>>
    PROVE  Invitations!Next
<1>1. Invitations!Turnover(Settled' \ Settled, Settled' \ GoodInvites')
  BY InviteTurnover
<1>2. Settled' \ Settled \in SUBSET Invites /\ Settled' \ GoodInvites' \in SUBSET Invites
  BY GoodSettledNext
<1>3. Invitations!Manage
  BY <1>1, <1>2 DEF Invitations!Manage, Accepting
<1> QED  BY <1>3 DEF Invitations!Next

\* Handlers that neither mail nor accept, before or after.
LEMMA InviteStutter ==
    ASSUME req \in [Requests -> Request], NEW r \in Requests, NEW rec, req' = [req EXCEPT ![r] = rec],
           UNCHANGED <<status, deleted, inviteVars, expired>>,
           req[r].step \notin Sending \cup {"accept.commit"}, rec.step \notin Sending \cup {"accept.commit"}
    PROVE  UNCHANGED Invitations!vars
<1>1. \A s \in Requests : s # r => req'[s] = req[s]
  OBVIOUS
<1>2. req'[r] = rec
  OBVIOUS
<1>3. UnderWay' = UnderWay
  BY <1>1, <1>2 DEF UnderWay, Sending
<1>4. Accepting' = Accepting
  BY <1>1, <1>2 DEF Accepting
<1>5. GoodInvites' = GoodInvites
  BY DEF GoodInvites, Live, inviteVars
<1> QED  BY <1>3, <1>4, <1>5 DEF Invitations!vars, Accepting, inviteVars

LEMMA InviteInit == Init => Invitations!Init
BY IdleType DEF Init, Invitations!Init, GoodInvites, UnderWay, Live

\* What a handler's step does to the invitations under way and being accepted.
LEMMA RecordMoves ==
    ASSUME req \in [Requests -> Request], NEW r \in Requests, NEW rec, req' = [req EXCEPT ![r] = rec]
    PROVE  /\ rec.step \notin Sending => UnderWay' \subseteq UnderWay
           /\ rec.step \notin Sending /\ ~At(r, Sending) => UnderWay' = UnderWay
           /\ rec.step \in Sending /\ ~At(r, Sending) => UnderWay' = UnderWay \cup {rec.link}
           /\ rec.step # "accept.commit" => Accepting' = [Accepting EXCEPT ![r] = NoLink]
           /\ rec.step = "accept.commit" => Accepting' = [Accepting EXCEPT ![r] = rec.link]
           /\ req[r].step # "accept.commit" => Accepting[r] = NoLink
           /\ req[r].step = "accept.commit" => Accepting[r] = req[r].link
           /\ rec.step # "verify.commit" => Verifying' = [Verifying EXCEPT ![r] = NoLink]
           /\ rec.step = "verify.commit" => Verifying' = [Verifying EXCEPT ![r] = rec.link]
           /\ req[r].step # "verify.commit" => Verifying[r] = NoLink
           /\ req[r].step = "verify.commit" => Verifying[r] = req[r].link
<1>1. \A s \in Requests : s # r => req'[s] = req[s]
  OBVIOUS
<1>2. req'[r] = rec
  OBVIOUS
<1>3. rec.step \notin Sending => UnderWay' \subseteq UnderWay
  BY <1>1, <1>2 DEF UnderWay, Sending
<1>4. rec.step \notin Sending /\ ~At(r, Sending) => UnderWay' = UnderWay
  BY <1>1, <1>2 DEF UnderWay, Sending, At
<1>5. rec.step \in Sending /\ ~At(r, Sending) => UnderWay' = UnderWay \cup {rec.link}
  BY <1>1, <1>2 DEF UnderWay, Sending, At
<1>6. /\ rec.step # "accept.commit" => Accepting' = [Accepting EXCEPT ![r] = NoLink]
      /\ rec.step = "accept.commit" => Accepting' = [Accepting EXCEPT ![r] = rec.link]
  BY <1>1, <1>2 DEF Accepting
<1>7. /\ rec.step # "verify.commit" => Verifying' = [Verifying EXCEPT ![r] = NoLink]
      /\ rec.step = "verify.commit" => Verifying' = [Verifying EXCEPT ![r] = rec.link]
  BY <1>1, <1>2 DEF Verifying
<1>8. /\ req[r].step # "accept.commit" => Accepting[r] = NoLink
      /\ req[r].step = "accept.commit" => Accepting[r] = req[r].link
      /\ req[r].step # "verify.commit" => Verifying[r] = NoLink
      /\ req[r].step = "verify.commit" => Verifying[r] = req[r].link
  BY DEF Accepting, Verifying
<1> QED  BY <1>3, <1>4, <1>5, <1>6, <1>7, <1>8

\* What a mail leaves in flight is settled with its transaction.
LEMMA InviteSends ==
    ASSUME IInv, IInv', NEW r \in Requests, InviteMail(r) \/ ResendMail(r)
    PROVE  Invitations!Next
<1> USE DEF IInv, TypeOK
<1>1. PICK i \in Invites \ mailed, rec \in Request :
          /\ mailed' = mailed \cup {i}
          /\ req' = [req EXCEPT ![r] = rec] /\ rec.link = i /\ rec.step \in Sending
  BY SendingRecord
<1>2. /\ req[r].step \in {"invite.tx", "resend.tx"}
      /\ UNCHANGED <<status, deleted, inviteOf, accepted, expired>>
  BY DEF InviteMail, ResendMail, userVars
<1>3. UnderWay' = UnderWay \cup {i} /\ Accepting' = [Accepting EXCEPT ![r] = NoLink] /\ Accepting[r] = NoLink
  BY <1>1, <1>2, RecordMoves DEF Sending, At
<1>4. Accepting' = Accepting
  BY <1>3 DEF Accepting
<1>5. Settled' = Settled
  BY <1>1, <1>3 DEF Settled
<1>6. GoodInvites' = GoodInvites
  BY <1>2 DEF GoodInvites, Live
<1> HIDE DEF IInv, TypeOK
<1> QED  BY <1>2, <1>4, <1>5, <1>6, InviteManage

\* The commit of an invitation shows one that had been in flight.
LEMMA InviteShows ==
    ASSUME IInv, IInv', NEW r \in Requests, InviteCommit(r) \/ ResendCommit(r)
    PROVE  Invitations!Next
<1> USE DEF IInv, TypeOK
<1> DEFINE a == req[r].account  l == req[r].link
<1>1. At(r, Sending) /\ l \in UnderWay /\ Finish(r)
  BY DEF InviteCommit, ResendCommit, At, Sending, UnderWay
<1>2. UnderWay' \subseteq UnderWay /\ Accepting' = [Accepting EXCEPT ![r] = NoLink] /\ Accepting[r] = NoLink
  BY <1>1, RecordMoves, IdleType DEF Finish, Sending, At
<1>3. Accepting' = Accepting
  BY <1>2 DEF Accepting
<1>4. UNCHANGED <<deleted, accepted, mailed, expired>> /\ inviteOf' = [inviteOf EXCEPT ![a] = l]
  BY DEF InviteCommit, ResendCommit, userVars
<1>5. \A b \in Accounts : status'[b] = "pending" => status[b] = "pending" \/ b = a
  BY DEF InviteCommit, ResendCommit, userVars
<1>6. \A b \in Accounts \ {a} : status[b] = "none" => status'[b] # "pending"
  BY DEF InviteCommit, ResendCommit, userVars
<1>7. GoodInvites' \subseteq GoodInvites \cup {l}
  BY <1>4, <1>5 DEF GoodInvites, Live
<1>8. Settled \subseteq Settled'
  BY <1>2, <1>4 DEF Settled
<1>9. GoodInvites' \cap Settled \subseteq GoodInvites
  BY <1>1, <1>7 DEF Settled
<1> HIDE DEF IInv, TypeOK
<1> QED  BY <1>3, <1>4, <1>8, <1>9, InviteManage

\* A deletion, a signup or the passing of time makes no invitation good.
LEMMA InviteLoses ==
    ASSUME IInv, IInv',
           \/ \E r \in Requests : DeleteCommit(r) \/ SignupCommit(r) \/ (Abort(r) /\ At(r, Sending))
           \/ \E l \in Invites \cup ChangeLinks : Expire(l)
    PROVE  Invitations!Next
<1> USE DEF IInv, TypeOK
<1>1. UNCHANGED <<mailed, accepted, inviteOf>> /\ expired \subseteq expired' /\ deleted \subseteq deleted'
  BY DEF DeleteCommit, SignupCommit, Expire, Abort, inviteVars, userVars
<1>2. \A a \in Accounts : status'[a] = "pending" => status[a] = "pending"
  BY DEF DeleteCommit, SignupCommit, Expire, Abort, userVars
<1>3. GoodInvites' \subseteq GoodInvites
  BY <1>1, <1>2 DEF GoodInvites, Live
<1>4. UnderWay' \subseteq UnderWay /\ Accepting' = Accepting
  <2>1. ASSUME NEW r \in Requests, DeleteCommit(r) \/ SignupCommit(r) \/ (Abort(r) /\ At(r, Sending))
        PROVE  UnderWay' \subseteq UnderWay /\ Accepting' = Accepting
    <3>1. Finish(r) /\ req[r].step # "accept.commit"
      BY <2>1 DEF DeleteCommit, SignupCommit, Abort, At, Sending
    <3>2. UnderWay' \subseteq UnderWay /\ Accepting' = [Accepting EXCEPT ![r] = NoLink] /\ Accepting[r] = NoLink
      BY <3>1, RecordMoves, IdleType DEF Finish, Sending
    <3> QED  BY <3>2 DEF Accepting
  <2>2. ASSUME NEW l \in Invites \cup ChangeLinks, Expire(l) PROVE UnderWay' \subseteq UnderWay /\ Accepting' = Accepting
    BY <2>2 DEF Expire, UnderWay, Accepting
  <2> QED  BY <2>1, <2>2
<1>5. Settled \subseteq Settled'
  BY <1>1, <1>4 DEF Settled
<1> HIDE DEF IInv, TypeOK
<1> QED  BY <1>1, <1>3, <1>4, <1>5, InviteManage

\* Reading a good invitation claims it.
LEMMA InviteClaims ==
    ASSUME IInv, NEW r \in Requests, NEW a \in Accounts, AcceptRead(r, a)
    PROVE  Invitations!Next
<1>0. req \in [Requests -> Request]
  BY DEF IInv, TypeOK
<1>1. PICK l \in Invites : l = inviteOf[a] /\ l \in GoodInvites
  BY GoodSettled DEF AcceptRead
<1>2. /\ req[r] = Idle
      /\ req' = [req EXCEPT ![r] = [Idle EXCEPT !.step = "accept.commit", !.account = a, !.link = l]]
      /\ UNCHANGED <<userVars, inviteVars, expired>>
  BY <1>1 DEF AcceptRead, Start
<1>3. PICK rec :
      req' = [req EXCEPT ![r] = rec] /\ rec.step = "accept.commit" /\ rec.link = l
  <2> DEFINE rec == [Idle EXCEPT !.step = "accept.commit", !.account = a, !.link = l]
  <2>1. rec.step = "accept.commit" /\ rec.link = l
    BY DEF Idle
  <2>2. req' = [req EXCEPT ![r] = rec]
    BY <1>2
  <2> HIDE DEF rec
  <2> QED  BY <2>1, <2>2
<1>4. req[r].step = "idle"
  BY <1>2, IdleType
<1>5. UnderWay' = UnderWay
  BY <1>0, <1>4, <1>3, RecordMoves DEF Sending, At
<1>6. Accepting[r] = NoLink
  BY <1>4 DEF Accepting
<1>7. Accepting' = [Accepting EXCEPT ![r] = l]
  BY <1>0, <1>3, RecordMoves
<1>8. GoodInvites' = GoodInvites
  BY <1>2 DEF GoodInvites, Live, userVars, inviteVars
<1>9. UNCHANGED <<mailed, accepted>>
  BY <1>2 DEF inviteVars
<1>10. Invitations!Claim(r, l)
  BY <1>1, <1>5, <1>6, <1>7, <1>8, <1>9 DEF Invitations!Claim, Accepting
<1> QED  BY <1>10 DEF Invitations!Next

\* Activating the account consumes its invitation.
LEMMA InviteConsumes ==
    ASSUME IInv, IInv', NEW r \in Requests, AcceptCommit(r)
    PROVE  Invitations!Next
<1> USE DEF IInv, TypeOK
<1> DEFINE a == req[r].account  l == req[r].link
<1>1. /\ req[r].step = "accept.commit" /\ Finish(r)
      /\ accepted' = accepted \cup {l} /\ status' = [status EXCEPT ![a] = "active"]
      /\ UNCHANGED <<deleted, inviteOf, mailed, expired>>
  BY DEF AcceptCommit, Activate
<1>2. l \in Invites /\ l \in mailed /\ l # NoLink
  BY <1>1, NoneAssumption DEF LinksInHand, At, Links
<1>3. /\ UnderWay' = UnderWay /\ Accepting[r] = l
      /\ Accepting' = [Accepting EXCEPT ![r] = NoLink]
  BY <1>1, RecordMoves, IdleType DEF Finish, Sending, At
<1>4. l \notin UnderWay
  BY <1>1 DEF FreshLinks, UnderWay, Sending, At
<1>5. Settled' = Settled /\ l \in Settled
  BY <1>1, <1>2, <1>3, <1>4 DEF Settled
<1>6. GoodInvites' \subseteq GoodInvites /\ l \notin GoodInvites'
  BY <1>1 DEF GoodInvites, Live
<1>7. Invitations!Turnover(Settled' \ Settled, Settled' \ GoodInvites')
  <2> HIDE DEF IInv, TypeOK
  <2> QED  BY <1>5, <1>6, InviteTurnover
<1> DEFINE new == Settled' \ Settled  old == Settled' \ GoodInvites'
<1>8. old \cup {l} = old /\ new \in SUBSET Invites /\ old \in SUBSET Invites
  <2> HIDE DEF IInv, TypeOK
  <2> QED  BY <1>5, <1>6, GoodSettledNext
<1> HIDE DEF new, old
<1>9. \E n, o \in SUBSET Invites : Invitations!Turnover(n, o \cup {Accepting[r]})
  <2>1. Invitations!Turnover(new, old \cup {Accepting[r]})
    BY <1>3, <1>7, <1>8 DEF new, old
  <2> QED  BY <1>8, <2>1
<1>10. Invitations!Consume(r)
  BY <1>1, <1>2, <1>3, <1>9 DEF Invitations!Consume, Accepting
<1> QED  BY <1>10 DEF Invitations!Next

\* Every step of the model is a step of one-time invitations, or none.
LEMMA InviteStep ==
    ASSUME IInv, IInv', [Next]_vars
    PROVE  [Invitations!Next]_(Invitations!vars)
<1>0. req \in [Requests -> Request]
  BY DEF IInv, TypeOK
<1>1. ASSUME NEW r \in Requests, InviteMail(r) \/ ResendMail(r) PROVE Invitations!Next
  BY <1>1, InviteSends
<1>2. ASSUME NEW r \in Requests, InviteCommit(r) \/ ResendCommit(r) PROVE Invitations!Next
  BY <1>2, InviteShows
<1>3. ASSUME NEW r \in Requests, DeleteCommit(r) \/ SignupCommit(r) PROVE Invitations!Next
  BY <1>3, InviteLoses
<1>4. ASSUME NEW l \in Invites \cup ChangeLinks, Expire(l) PROVE Invitations!Next
  BY <1>4, InviteLoses
<1>5. ASSUME NEW r \in Requests, NEW a \in Accounts, AcceptRead(r, a) PROVE Invitations!Next
  BY <1>5, InviteClaims
<1>6. ASSUME NEW r \in Requests, AcceptCommit(r) PROVE Invitations!Next
  BY <1>6, InviteConsumes
\* A handler that gives up: an invitation in flight settles, one that was
\* claimed is released.
<1>7. ASSUME NEW r \in Requests, Abort(r) PROVE [Invitations!Next]_(Invitations!vars)
  <2>1. CASE At(r, Sending)
    BY <1>7, <2>1, InviteLoses
  <2>2. CASE ~At(r, Sending)
    <3>1. Finish(r) /\ UNCHANGED <<userVars, inviteVars, expired>>
      BY <1>7 DEF Abort
    <3>2. UnderWay' = UnderWay /\ Accepting' = [Accepting EXCEPT ![r] = NoLink]
      BY <1>0, <2>2, <3>1, RecordMoves, IdleType DEF Finish, Sending
    <3>3. GoodInvites' = GoodInvites
      BY <3>1 DEF GoodInvites, Live, userVars, inviteVars
    <3>4. Invitations!Release(r)
      BY <3>1, <3>2, <3>3 DEF Invitations!Release, Accepting, inviteVars
    <3> QED  BY <3>4 DEF Invitations!Next
  <2> QED  BY <2>1, <2>2
\* The other reads, and what is done about addresses and passwords, stutter.
<1>8. ASSUME NEW r \in Requests,
             \/ \E x \in Emails : InviteRead(r, x) \/ SignupRead(r, x) \/ TenantSignupRead(r, x)
             \/ \E a \in Accounts : ResendRead(r, a) \/ DeleteRead(r, a) \/ VerifyRead(r, a)
             \/ \E a \in Accounts : ForgotRead(r, a) \/ ResetRead(r, a) \/ PasswordRead(r, a)
             \/ \E a \in Accounts, x \in Emails : ChangeRead(r, a, x)
      PROVE  UNCHANGED Invitations!vars
  <2>1. PICK rec : /\ req[r] = Idle /\ req' = [req EXCEPT ![r] = rec]
                   /\ rec.step \notin Sending \cup {"accept.commit"}
                   /\ UNCHANGED <<userVars, inviteVars, expired>>
    BY <1>8 DEF InviteRead, SignupRead, TenantSignupRead, ResendRead, DeleteRead, VerifyRead, ForgotRead,
                ResetRead, PasswordRead, ChangeRead, Start, Idle, Sending
  <2> QED
    BY <1>0, <2>1, InviteStutter, IdleType DEF userVars, Sending
<1>9. ASSUME NEW r \in Requests, ChangeCommit(r) \/ VerifyCommit(r) \/ ForgotCommit(r) \/ PasswordCommit(r)
      PROVE  UNCHANGED Invitations!vars
  <2>1. /\ req[r].step \in {"change.commit", "verify.commit", "forgot.commit", "password.commit"}
        /\ req' = [req EXCEPT ![r] = Idle]
        /\ UNCHANGED <<status, deleted, inviteVars, expired>>
    BY <1>9 DEF ChangeCommit, VerifyCommit, ForgotCommit, PasswordCommit, Finish, userVars
  <2> QED
    BY <1>0, <2>1, InviteStutter, IdleType DEF Sending
<1>10. ASSUME UNCHANGED vars \/ \E a \in Accounts : ExpireReset(a)
       PROVE  UNCHANGED Invitations!vars
  BY <1>10 DEF vars, ExpireReset, userVars, inviteVars, Invitations!vars, GoodInvites, UnderWay, Live
<1> QED
  BY <1>1, <1>2, <1>3, <1>4, <1>5, <1>6, <1>7, <1>8, <1>9, <1>10 DEF Next

\* Every behaviour of the accounts is one of one-time invitations: accepting an
\* invitation consumes it, and neither a resend nor a failure brings it back.
THEOREM InvitationsImplementOneTime == Spec => InvitationsAreOneTime
<1>1. IInv /\ IInv' /\ [Next]_vars => [Invitations!Next]_(Invitations!vars)
  BY InviteStep
<1> QED
  BY <1>1, InviteInit, InitIInv, StepIInv, PTL DEF Spec, InvitationsAreOneTime, Invitations!Spec

------------------------------------------------------------------------------
LEMMA ChangeTurnover ==
    ASSUME IInv, IInv', Issued \subseteq Issued', GoodChanges' \cap Issued \subseteq GoodChanges
    PROVE  EmailChanges!Turnover(Issued' \ Issued, Issued' \ GoodChanges')
<1> DEFINE G == GoodChanges  G1 == GoodChanges'  I == Issued  I1 == Issued'
<1>1. G \subseteq I /\ G1 \subseteq I1 /\ I \subseteq I1 /\ G1 \cap I \subseteq G
  BY GoodSettled, GoodSettledNext
<1> HIDE DEF G, G1, I, I1
<1>2. /\ (I1 \ I) \cap (G \cup (I \ G)) = {}
      /\ G1 = (G \cup (I1 \ I)) \ (I1 \ G1)
      /\ I1 \ G1 = (I \ G) \cup ((I1 \ G1) \cap (G \cup (I1 \ I)))
  BY <1>1, TurnoverOf
<1> QED  BY <1>2 DEF EmailChanges!Turnover, G, G1, I, I1

\* Whatever neither moves an address nor begins to.
LEMMA ChangeManage ==
    ASSUME IInv, IInv', Issued \subseteq Issued', GoodChanges' \cap Issued \subseteq GoodChanges,
           UNCHANGED <<verified, Verifying>>
    PROVE  EmailChanges!Next
<1>1. EmailChanges!Turnover(Issued' \ Issued, Issued' \ GoodChanges')
  BY ChangeTurnover
<1>2. Issued' \ Issued \in SUBSET ChangeLinks /\ Issued' \ GoodChanges' \in SUBSET ChangeLinks
  BY DEF Issued
<1>3. EmailChanges!Manage
  BY <1>1, <1>2 DEF EmailChanges!Manage, Verifying
<1> QED  BY <1>3 DEF EmailChanges!Next

LEMMA ChangeInit == Init => EmailChanges!Init
BY IdleType DEF Init, EmailChanges!Init, GoodChanges, Issued, Live

\* A handler that leaves the rows alone.
LEMMA ChangeStutter ==
    ASSUME NEW r \in Requests, \A s \in Requests \ {r} : req'[s] = req[s],
           UNCHANGED <<status, deleted, changeOf, target, verified, expired>>,
           req[r].step # "verify.commit", req'[r].step # "verify.commit"
    PROVE  UNCHANGED EmailChanges!vars
<1>1. Verifying' = Verifying
  BY DEF Verifying
<1>2. GoodChanges' = GoodChanges /\ Issued' = Issued
  BY DEF GoodChanges, Issued, Live
<1> QED  BY <1>1, <1>2 DEF EmailChanges!vars, Verifying

\* Asking for a change issues a link; a new account has none.
LEMMA ChangeIssues ==
    ASSUME IInv, IInv', NEW r \in Requests,
           ChangeCommit(r) \/ InviteCommit(r) \/ SignupCommit(r) \/ AcceptCommit(r) \/ DeleteCommit(r)
    PROVE  EmailChanges!Next
<1> USE DEF IInv, TypeOK
<1>1. Finish(r) /\ req[r].step # "verify.commit" /\ UNCHANGED <<verified, expired>>
  BY DEF ChangeCommit, InviteCommit, SignupCommit, AcceptCommit, DeleteCommit, otherVars
<1>2. Verifying' = [Verifying EXCEPT ![r] = NoLink] /\ Verifying[r] = NoLink
  BY <1>1, RecordMoves, IdleType DEF Finish
<1>3. Verifying' = Verifying
  BY <1>2 DEF Verifying
<1>4. Issued \subseteq Issued' /\ GoodChanges' \cap Issued \subseteq GoodChanges
  <2>1. CASE ChangeCommit(r)
    <3>1. PICK l \in ChangeLinks :
              /\ target[l] = NoEmail
              /\ target' = [target EXCEPT ![l] = req[r].email]
              /\ changeOf' = [changeOf EXCEPT ![req[r].account] = l]
              /\ UNCHANGED <<status, deleted, verified, expired>>
      BY <2>1 DEF ChangeCommit, userVars
    <3>2. req[r].email \in Emails
      BY <2>1 DEF ChangeCommit, RowsExist, At
    <3>3. l \notin Issued /\ Issued \subseteq Issued'
      BY <3>1, <3>2, NoneAssumption DEF Issued
    <3>4. GoodChanges' \subseteq GoodChanges \cup {l}
      BY <3>1 DEF GoodChanges, Live
    <3> QED  BY <3>3, <3>4
  <2>2. CASE InviteCommit(r) \/ SignupCommit(r)
    <3>1. PICK a \in Accounts, w \in {"pending", "active"} :
              status[a] = "none" /\ status' = [status EXCEPT ![a] = w]
      BY <2>2 DEF InviteCommit, SignupCommit, Unmade, RowsExist, At
    <3>2. UNCHANGED <<deleted, changeOf, target, verified, resetOf, expired>>
      BY <2>2 DEF InviteCommit, SignupCommit, otherVars
    <3>3. changeOf[a] = NoLink
      BY <3>1 DEF NoRowYet
    <3>4. GoodChanges' \subseteq GoodChanges
      BY <3>1, <3>2, <3>3 DEF GoodChanges, Live
    <3> QED  BY <3>2, <3>4 DEF Issued
  <2>3. CASE AcceptCommit(r)
    <3>1. /\ status' = [status EXCEPT ![req[r].account] = "active"]
          /\ req[r].account \in Accounts /\ status[req[r].account] # "none"
          /\ UNCHANGED <<deleted, changeOf, target, verified, resetOf, expired>>
      BY <2>3 DEF AcceptCommit, Activate, RowsExist, At, Writers, otherVars
    <3>2. GoodChanges' \subseteq GoodChanges
      BY <3>1 DEF GoodChanges, Live
    <3> QED  BY <3>1, <3>2 DEF Issued
  <2>4. CASE DeleteCommit(r)
    <3>1. UNCHANGED <<status, changeOf, target, verified, resetOf, expired>> /\ deleted \subseteq deleted'
      BY <2>4 DEF DeleteCommit, otherVars
    <3>2. GoodChanges' \subseteq GoodChanges
      BY <3>1 DEF GoodChanges, Live
    <3> QED  BY <3>1, <3>2 DEF Issued
  <2> QED  BY <2>1, <2>2, <2>3, <2>4
<1> HIDE DEF IInv, TypeOK
<1> QED  BY <1>1, <1>3, <1>4, ChangeManage

\* Reading a good link claims it.
LEMMA ChangeClaims ==
    ASSUME IInv, NEW r \in Requests, NEW a \in Accounts, VerifyRead(r, a)
    PROVE  EmailChanges!Next
<1>0. req \in [Requests -> Request]
  BY DEF IInv, TypeOK
<1>1. PICK l \in ChangeLinks : l = changeOf[a] /\ l \in GoodChanges
  BY GoodSettled DEF VerifyRead, Issued
<1>2. /\ req[r] = Idle
      /\ req' = [req EXCEPT ![r] = [Idle EXCEPT !.step = "verify.commit", !.account = a, !.link = l]]
      /\ UNCHANGED <<userVars, otherVars, expired>>
  BY <1>1 DEF VerifyRead, Start
<1>3. PICK rec :
      req' = [req EXCEPT ![r] = rec] /\ rec.step = "verify.commit" /\ rec.link = l
  <2> DEFINE rec == [Idle EXCEPT !.step = "verify.commit", !.account = a, !.link = l]
  <2>1. rec.step = "verify.commit" /\ rec.link = l
    BY DEF Idle
  <2>2. req' = [req EXCEPT ![r] = rec]
    BY <1>2
  <2> HIDE DEF rec
  <2> QED  BY <2>1, <2>2
<1>4. req[r].step = "idle"
  BY <1>2, IdleType
<1>5. Issued' = Issued
  BY <1>2 DEF Issued, otherVars
<1>6. Verifying[r] = NoLink
  BY <1>4 DEF Verifying
<1>7. Verifying' = [Verifying EXCEPT ![r] = l]
  BY <1>0, <1>3, RecordMoves
<1>8. GoodChanges' = GoodChanges
  BY <1>2 DEF GoodChanges, Live, userVars, otherVars
<1>9. UNCHANGED <<verified, target>>
  BY <1>2 DEF otherVars
<1>10. EmailChanges!Claim(r, l)
  BY <1>1, <1>5, <1>6, <1>7, <1>8, <1>9 DEF EmailChanges!Claim, Verifying
<1> QED  BY <1>10 DEF EmailChanges!Next

\* Moving the address consumes its link.
LEMMA ChangeConsumes ==
    ASSUME IInv, IInv', NEW r \in Requests, VerifyCommit(r)
    PROVE  EmailChanges!Next
<1> USE DEF IInv, TypeOK
<1> DEFINE l == req[r].link
<1>1. /\ req[r].step = "verify.commit" /\ Finish(r) /\ verified' = verified \cup {l}
      /\ UNCHANGED <<status, deleted, changeOf, target, resetOf, expired>>
  BY DEF VerifyCommit
<1>2. l \in Issued /\ l # NoLink
  BY <1>1, NoneAssumption DEF LinksInHand, At, Links, Issued
<1>3. Verifying[r] = l /\ Verifying' = [Verifying EXCEPT ![r] = NoLink]
  BY <1>1, RecordMoves, IdleType DEF Finish
<1>4. Issued' = Issued
  BY <1>1 DEF Issued
<1>5. GoodChanges' \subseteq GoodChanges /\ l \notin GoodChanges'
  BY <1>1 DEF GoodChanges, Live
<1>6. EmailChanges!Turnover(Issued' \ Issued, Issued' \ GoodChanges')
  <2> HIDE DEF IInv, TypeOK
  <2> QED  BY <1>4, <1>5, ChangeTurnover
<1> DEFINE new == Issued' \ Issued  old == Issued' \ GoodChanges'
<1>7. old \cup {l} = old /\ new \in SUBSET ChangeLinks /\ old \in SUBSET ChangeLinks
  BY <1>2, <1>4, <1>5 DEF Issued
<1> HIDE DEF new, old
<1>8. \E n, o \in SUBSET ChangeLinks : EmailChanges!Turnover(n, o \cup {Verifying[r]})
  <2>1. EmailChanges!Turnover(new, old \cup {Verifying[r]})
    BY <1>3, <1>6, <1>7 DEF new, old
  <2> QED  BY <1>7, <2>1
<1>9. EmailChanges!Consume(r)
  BY <1>1, <1>2, <1>3, <1>8 DEF EmailChanges!Consume, Verifying
<1> QED  BY <1>9 DEF EmailChanges!Next

\* Every step of the model is a step of one-time links of this kind, or none.
LEMMA ChangeStep ==
    ASSUME IInv, IInv', [Next]_vars
    PROVE  [EmailChanges!Next]_(EmailChanges!vars)
<1>0. req \in [Requests -> Request]
  BY DEF IInv, TypeOK
<1>1. ASSUME NEW r \in Requests,
             ChangeCommit(r) \/ InviteCommit(r) \/ SignupCommit(r) \/ AcceptCommit(r) \/ DeleteCommit(r)
      PROVE  EmailChanges!Next
  BY <1>1, ChangeIssues
<1>2. ASSUME NEW r \in Requests, NEW a \in Accounts, VerifyRead(r, a) PROVE EmailChanges!Next
  BY <1>2, ChangeClaims
<1>3. ASSUME NEW r \in Requests, VerifyCommit(r) PROVE EmailChanges!Next
  BY <1>3, ChangeConsumes
<1>4. ASSUME NEW l \in Invites \cup ChangeLinks, Expire(l) PROVE EmailChanges!Next
  <2>1. /\ GoodChanges' \subseteq GoodChanges /\ Issued' = Issued /\ Verifying' = Verifying
        /\ verified' = verified
    BY <1>4 DEF Expire, GoodChanges, Issued, Live, Verifying, userVars, otherVars
  <2> QED  BY <2>1, ChangeManage
<1>5. ASSUME NEW r \in Requests, Abort(r) PROVE EmailChanges!Next
  <2>1. Finish(r) /\ UNCHANGED <<userVars, otherVars, expired>>
    BY <1>5 DEF Abort
  <2>2. Verifying' = [Verifying EXCEPT ![r] = NoLink]
    BY <1>0, <2>1, RecordMoves, IdleType DEF Finish
  <2>3. GoodChanges' = GoodChanges /\ Issued' = Issued
    BY <2>1 DEF GoodChanges, Issued, Live, userVars, otherVars
  <2>4. EmailChanges!Release(r)
    BY <2>1, <2>2, <2>3 DEF EmailChanges!Release, Verifying, otherVars
  <2> QED  BY <2>4 DEF EmailChanges!Next
<1>6. ASSUME NEW r \in Requests,
             \/ \E x \in Emails : InviteRead(r, x) \/ SignupRead(r, x) \/ TenantSignupRead(r, x)
             \/ \E a \in Accounts : ResendRead(r, a) \/ AcceptRead(r, a) \/ DeleteRead(r, a)
             \/ \E a \in Accounts : ForgotRead(r, a) \/ ResetRead(r, a) \/ PasswordRead(r, a)
             \/ \E a \in Accounts, x \in Emails : ChangeRead(r, a, x)
      PROVE  UNCHANGED EmailChanges!vars
  <2>1. ASSUME NEW rec, Start(r, rec), rec.step # "verify.commit", UNCHANGED <<userVars, otherVars, expired>>
        PROVE  UNCHANGED EmailChanges!vars
    BY <1>0, <2>1, ChangeStutter, IdleType DEF Start, userVars, otherVars
  <2>2. CASE \E x \in Emails : InviteRead(r, x) \/ SignupRead(r, x) \/ TenantSignupRead(r, x)
    BY <2>1, <2>2 DEF InviteRead, SignupRead, TenantSignupRead, Idle
  <2>3. CASE \E a \in Accounts : ResendRead(r, a) \/ AcceptRead(r, a) \/ DeleteRead(r, a)
    BY <2>1, <2>3 DEF ResendRead, AcceptRead, DeleteRead, Idle
  <2>4. CASE \E a \in Accounts : ForgotRead(r, a) \/ ResetRead(r, a) \/ PasswordRead(r, a)
    BY <2>1, <2>4 DEF ForgotRead, ResetRead, PasswordRead, Idle
  <2>5. CASE \E a \in Accounts, x \in Emails : ChangeRead(r, a, x)
    BY <2>1, <2>5 DEF ChangeRead, Idle
  <2> QED  BY <1>6, <2>2, <2>3, <2>4, <2>5
<1>7. ASSUME NEW r \in Requests, InviteMail(r) \/ ResendMail(r) \/ ResendCommit(r)
      PROVE  UNCHANGED EmailChanges!vars
  <2>1. /\ req[r].step \in {"invite.tx", "resend.tx", "resend.commit"}
        /\ UNCHANGED <<status, deleted, changeOf, target, verified, expired>>
    BY <1>7 DEF InviteMail, ResendMail, ResendCommit, userVars, otherVars
  <2>2. (\A s \in Requests \ {r} : req'[s] = req[s]) /\ req'[r].step # "verify.commit"
    <3>1. CASE InviteMail(r)
      BY <1>0, <3>1 DEF InviteMail, Request
    <3>2. CASE ResendMail(r)
      BY <1>0, <3>2 DEF ResendMail, Request
    <3>3. CASE ResendCommit(r)
      BY <1>0, <3>3, IdleType DEF ResendCommit, Finish
    <3> QED  BY <1>7, <3>1, <3>2, <3>3
  <2> QED
    BY <2>1, <2>2, ChangeStutter
<1>8. ASSUME NEW r \in Requests, ForgotCommit(r) \/ PasswordCommit(r) PROVE UNCHANGED EmailChanges!vars
  <2>1. /\ req[r].step \in {"forgot.commit", "password.commit"} /\ req' = [req EXCEPT ![r] = Idle]
        /\ UNCHANGED <<status, deleted, changeOf, target, verified, expired>>
    BY <1>8 DEF ForgotCommit, PasswordCommit, Finish, userVars
  <2> QED
    BY <1>0, <2>1, ChangeStutter, IdleType
<1>9. ASSUME UNCHANGED vars \/ \E a \in Accounts : ExpireReset(a) PROVE UNCHANGED EmailChanges!vars
  BY <1>9 DEF vars, ExpireReset, userVars, otherVars, EmailChanges!vars, GoodChanges, Issued, Live
<1> QED
  BY <1>1, <1>2, <1>3, <1>4, <1>5, <1>6, <1>7, <1>8, <1>9 DEF Next

\* Every behaviour of the accounts is one of one-time links for a new address:
\* moving to it consumes the link, and asking for another one withdraws it.
THEOREM EmailChangesImplementOneTime == Spec => EmailChangesAreOneTime
<1>1. IInv /\ IInv' /\ [Next]_vars => [EmailChanges!Next]_(EmailChanges!vars)
  BY ChangeStep
<1> QED
  BY <1>1, ChangeInit, InitIInv, StepIInv, PTL DEF Spec, EmailChangesAreOneTime, EmailChanges!Spec

------------------------------------------------------------------------------
(***************************************************************************)
(* The address book.                                                       *)
(***************************************************************************)

\* An address that is written, and one that is given back.
LEMMA HeldMoves ==
    ASSUME email \in [Accounts -> Emails \cup {NoEmail}], NEW a \in Accounts, NEW x \in Emails,
           email' = [email EXCEPT ![a] = x]
    PROVE  Held' = {h \in Held : h[2] # a} \cup {<<x, a>>}
<1>1. email'[a] = x /\ x # NoEmail /\ \A b \in Accounts \ {a} : email'[b] = email[b]
  BY NoneAssumption
<1>2. ASSUME NEW e \in Held' PROVE e \in {h \in Held : h[2] # a} \cup {<<x, a>>}
  <2>1. PICK b \in Accounts : email'[b] # NoEmail /\ e = <<email'[b], b>>
    BY DEF Held
  <2> QED  BY <1>1, <2>1 DEF Held
<1>3. ASSUME NEW e \in Held, e[2] # a PROVE e \in Held'
  <2>1. PICK b \in Accounts : email[b] # NoEmail /\ e = <<email[b], b>>
    BY DEF Held
  <2>2. b # a
    BY <1>3, <2>1
  <2> QED  BY <1>1, <2>1, <2>2 DEF Held
<1>4. <<x, a>> \in Held'
  BY <1>1 DEF Held
<1> QED  BY <1>2, <1>3, <1>4

LEMMA HeldLost ==
    ASSUME email \in [Accounts -> Emails \cup {NoEmail}], NEW a \in Accounts,
           email[a] # NoEmail, email' = [email EXCEPT ![a] = NoEmail]
    PROVE  Held' = Held \ {<<email[a], a>>} /\ <<email[a], a>> \in Held
<1>1. email'[a] = NoEmail /\ \A b \in Accounts \ {a} : email'[b] = email[b]
  OBVIOUS
<1>2. ASSUME NEW e \in Held' PROVE e \in Held /\ e # <<email[a], a>>
  <2>1. PICK b \in Accounts : email'[b] # NoEmail /\ e = <<email'[b], b>>
    BY DEF Held
  <2> QED  BY <1>1, <2>1 DEF Held
<1>3. ASSUME NEW e \in Held, e # <<email[a], a>> PROVE e \in Held'
  <2>1. PICK b \in Accounts : email[b] # NoEmail /\ e = <<email[b], b>>
    BY DEF Held
  <2> QED  BY <1>1, <1>3, <2>1 DEF Held
<1> QED  BY <1>2, <1>3 DEF Held

\* What a handler's step does to the promised addresses.
LEMMA PromiseMoves ==
    ASSUME req \in [Requests -> Request], NEW r \in Requests, NEW rec, req' = [req EXCEPT ![r] = rec]
    PROVE  /\ rec.step # "invite.commit" /\ ~At(r, {"invite.commit"}) => Promised' = Promised
           /\ rec.step = "invite.commit" /\ ~At(r, {"invite.commit"}) =>
                 Promised' = Promised \cup {<<rec.email, rec.account>>}
<1>1. req'[r] = rec /\ \A s \in Requests \ {r} : req'[s] = req[s]
  OBVIOUS
<1>2. ASSUME NEW e \in Promised'
      PROVE  e \in Promised \/ (rec.step = "invite.commit" /\ e = <<rec.email, rec.account>>)
  <2>1. PICK s \in Requests : req'[s].step = "invite.commit" /\ e = <<req'[s].email, req'[s].account>>
    BY DEF Promised
  <2> QED  BY <1>1, <2>1 DEF Promised
<1>3. ASSUME NEW e \in Promised, ~At(r, {"invite.commit"}) PROVE e \in Promised'
  <2>1. PICK s \in Requests : req[s].step = "invite.commit" /\ e = <<req[s].email, req[s].account>>
    BY DEF Promised
  <2> QED  BY <1>1, <1>3, <2>1 DEF Promised, At
<1>4. rec.step = "invite.commit" => <<rec.email, rec.account>> \in Promised'
  BY <1>1 DEF Promised
<1> QED  BY <1>2, <1>3, <1>4

\* An invitation that ends, one way or the other, gives its key back.
LEMMA PromiseEnds ==
    ASSUME IInv, NEW r \in Requests, At(r, {"invite.commit"}), req' = [req EXCEPT ![r] = Idle]
    PROVE  /\ <<req[r].email, req[r].account>> \in Promised
           /\ Promised' = Promised \ {<<req[r].email, req[r].account>>}
<1>1. req'[r].step # "invite.commit" /\ \A s \in Requests \ {r} : req'[s] = req[s]
  BY IdleType DEF IInv, TypeOK
<1>2. ASSUME NEW e \in Promised' PROVE e \in Promised /\ e # <<req[r].email, req[r].account>>
  <2>1. PICK s \in Requests : req'[s].step = "invite.commit" /\ e = <<req'[s].email, req'[s].account>>
    BY DEF Promised
  <2>2. s # r /\ req'[s] = req[s]
    BY <1>1, <2>1
  <2>3. req[s].email # req[r].email
    BY <2>1, <2>2 DEF IInv, KeysHeld, At
  <2> QED  BY <2>1, <2>2, <2>3 DEF Promised
<1>3. ASSUME NEW e \in Promised, e # <<req[r].email, req[r].account>> PROVE e \in Promised'
  <2>1. PICK s \in Requests : req[s].step = "invite.commit" /\ e = <<req[s].email, req[s].account>>
    BY DEF Promised
  <2>2. s # r
    BY <1>3, <2>1
  <2> QED  BY <1>1, <2>1, <2>2 DEF Promised
<1> QED  BY <1>2, <1>3 DEF Promised, At

\* A key that can be written to a row without it is free.
LEMMA ClaimableFree ==
    ASSUME IInv, NEW a \in Accounts, NEW x \in Emails, Claimable(a, x), email[a] # x
    PROVE  Book!Free(x)
<1>1. ASSUME NEW e \in Held PROVE e[1] # x
  BY DEF Held, Claimable
<1>2. ASSUME NEW e \in Promised PROVE e[1] # x
  BY DEF Promised, Claimable
<1> QED  BY <1>1, <1>2 DEF Book!Free

LEMMA BookSettles ==
    ASSUME IInv, NEW a \in Accounts, NEW x \in Emails, Claimable(a, x), email[a] # x,
           email' = [email EXCEPT ![a] = x], Promised' = Promised,
           \A r \in Requests : At(r, {"invite.commit"}) => req[r].account # a
    PROVE  Book!Settle
<1> DEFINE e == <<x, a>>
<1>1. Held' = {h \in Held : h[2] # e[2]} \cup {e}
  BY HeldMoves DEF IInv, TypeOK
<1>2. e \in Held' \ Held
  BY <1>1 DEF Held
<1>3. Book!Free(e[1])
  BY ClaimableFree
<1>4. Book!Unpromised(e[2])
  BY DEF Book!Unpromised, Promised, At
<1>5. Held' = Book!Placed(e)
  BY <1>1 DEF Book!Placed
<1> HIDE DEF e
<1> QED  BY <1>2, <1>3, <1>4, <1>5 DEF Book!Settle

LEMMA BookPromises == ASSUME IInv, NEW r \in Requests, InviteMail(r) PROVE Book!Promise
<1>1. PICK a \in Accounts, i \in Invites \ mailed :
          /\ Unmade(a) /\ Claimable(a, req[r].email)
          /\ req' = [req EXCEPT ![r].step = "invite.commit", ![r].account = a, ![r].link = i]
  BY DEF InviteMail
<1> USE DEF IInv, TypeOK, At
<1> DEFINE rec == [req[r] EXCEPT !.step = "invite.commit", !.account = a, !.link = i]
           e == <<req[r].email, a>>
<1>2. /\ req[r].step = "invite.tx" /\ req[r].email \in Emails /\ req[r] \in Request
      /\ req' = [req EXCEPT ![r] = rec]
      /\ email' = email
  BY <1>1 DEF InviteMail, userVars, RowsExist
<1>3. rec.step = "invite.commit" /\ rec.email = req[r].email /\ rec.account = a
  BY <1>2 DEF Request
<1>4. email[a] = NoEmail /\ NoEmail # req[r].email
  BY <1>1, <1>2, NoneAssumption DEF Unmade, NoRowYet
<1>5. Held' = Held
  BY <1>2 DEF Held
<1> HIDE DEF rec
<1>6. Promised' = Promised \cup {e}
  BY <1>2, <1>3, PromiseMoves
<1>7. Book!Free(e[1])
  BY <1>1, <1>2, <1>4, ClaimableFree
<1>8. Book!Unpromised(e[2])
  BY <1>1 DEF Book!Unpromised, Promised, Unmade
<1>9. \A h \in Held : h[2] # e[2]
  BY <1>4 DEF Held
<1>10. e \in Promised' \ Promised
  BY <1>6, <1>7 DEF Book!Free
<1> HIDE DEF e
<1> QED  BY <1>5, <1>6, <1>7, <1>8, <1>9, <1>10 DEF Book!Promise

LEMMA BookKeeps == ASSUME IInv, NEW r \in Requests, InviteCommit(r) PROVE Book!Keep
<1> DEFINE e == <<req[r].email, req[r].account>>
<1>1. /\ At(r, {"invite.commit"}) /\ req' = [req EXCEPT ![r] = Idle]
      /\ email' = [email EXCEPT ![req[r].account] = req[r].email]
      /\ req[r].account \in Accounts /\ req[r].email \in Emails
  BY DEF InviteCommit, Finish, At, IInv, RowsExist
<1>2. e \in Promised /\ Promised' = Promised \ {e}
  BY <1>1, PromiseEnds
<1>3. Held' = {h \in Held : h[2] # e[2]} \cup {e}
  BY <1>1, HeldMoves DEF IInv, TypeOK
<1> HIDE DEF e
<1> QED  BY <1>2, <1>3 DEF Book!Keep, Book!Placed

\* The address book is not touched by a handler that neither writes an address
\* nor inserts or ends an invitation.
LEMMA BookStays ==
    ASSUME NEW r \in Requests, \A s \in Requests \ {r} : req'[s] = req[s], email' = email,
           req'[r].step # "invite.commit", req[r].step # "invite.commit"
    PROVE  UNCHANGED Book!vars
<1>1. \A s \in Requests : /\ req'[s].step = "invite.commit" <=> req[s].step = "invite.commit"
                          /\ req[s].step = "invite.commit" => req'[s] = req[s]
  OBVIOUS
<1>2. Promised' = Promised
  BY <1>1 DEF Promised
<1>3. Held' = Held
  BY DEF Held
<1> QED  BY <1>2, <1>3 DEF Book!vars

LEMMA BookStep ==
    ASSUME IInv, [Next]_vars
    PROVE  [Book!Next]_(Book!vars)
<1>0. req \in [Requests -> Request] /\ email \in [Accounts -> Emails \cup {NoEmail}]
  BY DEF IInv, TypeOK
<1>1. ASSUME NEW r \in Requests, InviteMail(r) PROVE Book!Next
  BY <1>1, BookPromises DEF Book!Next
<1>2. ASSUME NEW r \in Requests, InviteCommit(r) PROVE Book!Next
  BY <1>2, BookKeeps DEF Book!Next
<1>3. ASSUME NEW r \in Requests, SignupCommit(r) PROVE [Book!Next]_(Book!vars)
  <2>1. PICK a \in Accounts : /\ Unmade(a) /\ Claimable(a, req[r].email)
                              /\ email' = [email EXCEPT ![a] = req[r].email]
    BY <1>3 DEF SignupCommit
  <2>2. At(r, {"signup.commit"}) /\ req' = [req EXCEPT ![r] = Idle]
    BY <1>3 DEF SignupCommit, Finish, At
  <2>3. req[r].email \in Emails \/ req[r].email = NoEmail
    BY <1>0 DEF Request
  <2>4. Promised' = Promised
    BY <1>0, <2>2, IdleType, PromiseMoves DEF At
  <2>5. email[a] = NoEmail
    BY <2>1 DEF Unmade, IInv, NoRowYet
  <2>6. CASE req[r].email \in Emails
    BY <2>1, <2>4, <2>5, <2>6, BookSettles, NoneAssumption DEF Book!Next, Unmade
  <2>7. CASE req[r].email = NoEmail
    <3>1. email' = email
      BY <1>0, <2>1, <2>5, <2>7
    <3> QED  BY <2>4, <3>1 DEF Book!vars, Held
  <2> QED  BY <2>3, <2>6, <2>7
<1>4. ASSUME NEW r \in Requests, VerifyCommit(r) PROVE [Book!Next]_(Book!vars)
  <2> DEFINE a == req[r].account  x == target[req[r].link]
  <2>1. /\ At(r, {"verify.commit"}) /\ Claimable(a, x)
        /\ email' = [email EXCEPT ![a] = x]
        /\ req' = [req EXCEPT ![r] = Idle]
    BY <1>4 DEF VerifyCommit, Finish, At
  <2>2. a \in Accounts /\ status[a] # "none"
    BY <2>1 DEF IInv, RowsExist, At, Writers
  <2>3. x \in Emails
    BY <2>1 DEF IInv, TypeOK, LinksInHand, At, Issued
  <2>4. Promised' = Promised
    BY <1>0, <2>1, IdleType, PromiseMoves DEF At
  <2>5. \A s \in Requests : At(s, {"invite.commit"}) => req[s].account # a
    BY <2>2 DEF IInv, RowsExist
  <2> HIDE DEF a, x
  <2>6. CASE email[a] = x
    BY <1>0, <2>1, <2>4, <2>6 DEF Book!vars, Held
  <2>7. CASE email[a] # x
    BY <2>1, <2>2, <2>3, <2>4, <2>5, <2>7, BookSettles DEF Book!Next
  <2> QED  BY <2>6, <2>7
<1>5. ASSUME NEW r \in Requests, DeleteCommit(r) PROVE [Book!Next]_(Book!vars)
  <2> DEFINE a == req[r].account
  <2>1. /\ At(r, {"delete.commit"}) /\ email' = [email EXCEPT ![a] = NoEmail]
        /\ req' = [req EXCEPT ![r] = Idle]
    BY <1>5 DEF DeleteCommit, Finish, At
  <2>2. a \in Accounts
    BY <2>1 DEF IInv, RowsExist, At, Writers
  <2>3. Promised' = Promised
    BY <1>0, <2>1, IdleType, PromiseMoves DEF At
  <2> HIDE DEF a
  <2>4. CASE email[a] = NoEmail
    <3>1. email' = email
      BY <1>0, <2>1, <2>2, <2>4
    <3> QED  BY <2>3, <3>1 DEF Book!vars, Held
  <2>5. CASE email[a] # NoEmail
    BY <1>0, <2>1, <2>2, <2>3, <2>5, HeldLost DEF Book!Next, Book!Release
  <2> QED  BY <2>4, <2>5
<1>6. ASSUME NEW r \in Requests, Abort(r) PROVE [Book!Next]_(Book!vars)
  <2>1. req' = [req EXCEPT ![r] = Idle] /\ email' = email
    BY <1>6 DEF Abort, Finish, userVars
  <2>2. CASE At(r, {"invite.commit"})
    <3>1. Held' = Held
      BY <2>1 DEF Held
    <3> QED  BY <2>1, <2>2, <3>1, PromiseEnds DEF Book!Next, Book!Withdraw
  <2>3. CASE ~At(r, {"invite.commit"})
    BY <1>0, <2>1, <2>3, BookStays, IdleType DEF At
  <2> QED  BY <2>2, <2>3
<1>7. ASSUME NEW r \in Requests,
             \/ \E x \in Emails : InviteRead(r, x) \/ SignupRead(r, x) \/ TenantSignupRead(r, x)
             \/ \E a \in Accounts : ResendRead(r, a) \/ AcceptRead(r, a) \/ DeleteRead(r, a) \/ VerifyRead(r, a)
             \/ \E a \in Accounts : ForgotRead(r, a) \/ ResetRead(r, a) \/ PasswordRead(r, a)
             \/ \E a \in Accounts, x \in Emails : ChangeRead(r, a, x)
      PROVE  UNCHANGED Book!vars
  <2>1. /\ req[r] = Idle /\ email' = email /\ req'[r].step # "invite.commit"
        /\ \A s \in Requests \ {r} : req'[s] = req[s]
    BY <1>0, <1>7 DEF InviteRead, SignupRead, TenantSignupRead, ResendRead, AcceptRead, DeleteRead,
                      VerifyRead, ForgotRead, ResetRead, PasswordRead, ChangeRead, Start, Idle, userVars
  <2> QED  BY <2>1, BookStays, IdleType
<1>8. ASSUME NEW r \in Requests,
             ResendCommit(r) \/ AcceptCommit(r) \/ ChangeCommit(r) \/ ForgotCommit(r) \/ PasswordCommit(r)
      PROVE  UNCHANGED Book!vars
  <2>1. /\ req' = [req EXCEPT ![r] = Idle] /\ email' = email
        /\ req[r].step \in {"resend.commit", "accept.commit", "change.commit", "forgot.commit", "password.commit"}
    BY <1>8 DEF ResendCommit, AcceptCommit, ChangeCommit, ForgotCommit, PasswordCommit, Finish, userVars
  <2> QED  BY <1>0, <2>1, BookStays, IdleType
<1>9. ASSUME NEW r \in Requests, ResendMail(r) PROVE UNCHANGED Book!vars
  <2>1. /\ email' = email /\ req[r].step = "resend.tx" /\ req'[r].step = "resend.commit"
        /\ \A s \in Requests \ {r} : req'[s] = req[s]
    BY <1>0, <1>9 DEF ResendMail, userVars, Request
  <2> QED  BY <2>1, BookStays
<1>10. ASSUME \/ UNCHANGED vars
              \/ \E l \in Invites \cup ChangeLinks : Expire(l)
              \/ \E a \in Accounts : ExpireReset(a)
       PROVE  UNCHANGED Book!vars
  BY <1>10 DEF vars, Expire, ExpireReset, userVars, Book!vars, Held, Promised
<1> QED
  BY <1>1, <1>2, <1>3, <1>4, <1>5, <1>6, <1>7, <1>8, <1>9, <1>10 DEF Next

LEMMA BookInit == Init => Book!Init
<1> SUFFICES ASSUME Init PROVE Held = {} /\ Promised = {}
  BY DEF Book!Init
<1> QED  BY IdleType DEF Init, Held, Promised

\* Whatever handlers do, addresses are handed out as from a book: to one account at
\* a time, and past no promise.
THEOREM AccountsKeepBook == Spec => KeepsAddressBook
<1>1. IInv /\ [Next]_vars => [Book!Next]_(Book!vars)
  BY BookStep
<1> QED
  BY <1>1, BookInit, Invariance, PTL DEF Spec, KeepsAddressBook, Book!Spec

\* Every address book is exact: an entry is new in address and account, or takes
\* the place of the account's own, or is a promise kept.
LEMMA BookExact == Book!Exact /\ [Book!Next]_(Book!vars) => Book!Exact'
<1> SUFFICES ASSUME Book!Exact, [Book!Next]_(Book!vars) PROVE Book!Exact'
  OBVIOUS
<1> USE DEF Book!Exact
<1>1. CASE Book!Settle
  BY <1>1 DEF Book!Settle, Book!Free, Book!Unpromised, Book!Placed
<1>2. CASE Book!Promise
  BY <1>2 DEF Book!Promise, Book!Free, Book!Unpromised
<1>3. CASE Book!Keep
  BY <1>3 DEF Book!Keep, Book!Placed
<1>4. CASE Book!Withdraw \/ Book!Release \/ UNCHANGED Book!vars
  BY <1>4 DEF Book!Withdraw, Book!Release, Book!vars
<1> QED  BY <1>1, <1>2, <1>3, <1>4 DEF Book!Next

\* What the book promises holds of the accounts: no two of them, deleted or pending or
\* about to be invited, share an address, and none is in the book twice.
THEOREM AddressesExact == Spec => []Book!Exact
<1>1. Book!Init => Book!Exact
  BY DEF Book!Init, Book!Exact
<1> QED
  BY <1>1, BookExact, AccountsKeepBook, PTL DEF KeepsAddressBook, Book!Spec

=============================================================================
