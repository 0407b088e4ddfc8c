--------------------------- MODULE SessionsProofs ---------------------------
(***************************************************************************)
(* The safety of sessions for any number of accounts, tokens, links,       *)
(* handlers in flight and credential changes.                              *)
(***************************************************************************)
EXTENDS Sessions, TLAPS

\* A handler that has not begun is Idle.
LEMMA IdleType == Idle \in Request
BY MaxEpochAssumption DEF Idle, Request, Steps

\* The numbers of the changes in progress are within the bound because
\* ChangeDelete checks it.
Room == \A r \in Requests :
            /\ req[r].step = "change.commit" => epoch[req[r].user] < MaxEpoch
            /\ req[r].step # "idle" => req[r].user \in Users
            /\ req[r].step = "idle" => req[r] = Idle

Owned == /\ \A t \in minted : owner[t] \in Users
         /\ \A l \in issued : linkOwner[l] \in Users

LEMMA OverlappingIn ==
    ASSUME TypeOK, Room, NEW u \in Users
    PROVE  Overlapping(u) \subseteq 1..MaxEpoch
BY MaxEpochAssumption DEF Overlapping, Changing, Room, TypeOK

LEMMA InitType == Init => TypeOK /\ Room /\ Owned
<1> SUFFICES ASSUME Init PROVE TypeOK /\ Room /\ Owned
  OBVIOUS
<1>1. TypeOK
  BY IdleType, MaxEpochAssumption DEF Init, TypeOK
<1>2. Room /\ Owned
  BY DEF Init, Room, Owned, Idle
<1> QED
  BY <1>1, <1>2

LEMMA TypeStep == TypeOK /\ Room /\ Owned /\ [Next]_vars => TypeOK'
<1> SUFFICES ASSUME TypeOK, Room, Owned, [Next]_vars PROVE TypeOK'
  OBVIOUS
<1> USE DEF TypeOK
<1>1. ASSUME NEW r \in Requests, NEW u \in Users, SignIn(r, u) PROVE TypeOK'
  <2>1. [Idle EXCEPT !.step = "login.tx", !.user = u, !.cred = epoch[u], !.late = Overlapping(u)] \in Request
    BY IdleType, OverlappingIn DEF Request, Steps
  <2> QED
    BY <1>1, <2>1 DEF SignIn, Start, userVars, tokenVars, linkVars
<1>2. ASSUME NEW r \in Requests, LoginFindToken(r) PROVE TypeOK'
  <2>1. PICK t \in Tokens \cup {NoToken} :
           req' = [req EXCEPT ![r].step = "login.commit", ![r].token = t]
    BY <1>2 DEF LoginFindToken, Listed
  <2>2. [req[r] EXCEPT !.step = "login.commit", !.token = t] \in Request
    BY DEF Request, Steps
  <2> QED
    BY <1>2, <2>1, <2>2 DEF LoginFindToken, userVars, tokenVars, linkVars
<1>3. ASSUME NEW r \in Requests, LoginCommit(r) PROVE TypeOK'
  <2>1. req[r] \in Request /\ req[r].user \in Users
    BY <1>3 DEF LoginCommit, Room
  <2>2. PICK t \in Tokens : Mint(t, req[r].user, NoToken, req[r].cred, req[r].late)
    BY <1>3 DEF LoginCommit
  <2> QED
    BY <1>3, <2>1, <2>2, IdleType DEF LoginCommit, Mint, MarkUsed, Request, userVars, linkVars
<1>4. ASSUME NEW r \in Requests, NEW t \in Tokens, RefreshRead(r, t) PROVE TypeOK'
  <2>1. owner[t] \in Users
    BY <1>4 DEF RefreshRead, Usable, Owned
  <2>2. [Idle EXCEPT !.step = "refresh.commit", !.user = owner[t], !.token = t, !.cred = cred[t],
                     !.late = late[t] \cup Overlapping(owner[t])] \in Request
    BY <2>1, IdleType, OverlappingIn DEF Request, Steps
  <2> QED
    BY <1>4, <2>2 DEF RefreshRead, Start, userVars, tokenVars, linkVars
<1>5. ASSUME NEW r \in Requests, RefreshCommit(r) PROVE TypeOK'
  <2>1. req[r] \in Request /\ req[r].user \in Users
    BY <1>5 DEF RefreshCommit, Room
  <2>2. PICK t \in Tokens : Mint(t, req[r].user, req[r].token, req[r].cred, req[r].late)
    BY <1>5 DEF RefreshCommit
  <2> QED
    BY <1>5, <2>1, <2>2, IdleType DEF RefreshCommit, Mint, MarkUsed, Request, userVars, linkVars
<1>6. ASSUME NEW t \in Tokens, Logout(t) \/ Expire(t) PROVE TypeOK'
  BY <1>6 DEF Logout, Expire, userVars, linkVars
<1>7. ASSUME NEW r \in Requests, NEW u \in Users, ForgotRead(r, u) PROVE TypeOK'
  <2>1. [Idle EXCEPT !.step = "forgot.commit", !.user = u] \in Request
    BY IdleType DEF Request, Steps
  <2> QED
    BY <1>7, <2>1 DEF ForgotRead, Start, userVars, tokenVars, linkVars
<1>8. ASSUME NEW r \in Requests, ForgotCommit(r) PROVE TypeOK'
  <2>1. req[r].user \in Users
    BY <1>8 DEF ForgotCommit, Room
  <2> QED
    BY <1>8, <2>1, IdleType DEF ForgotCommit, userVars, tokenVars
<1>9. ASSUME NEW l \in Links, ExpireLink(l) PROVE TypeOK'
  BY <1>9 DEF ExpireLink, userVars, tokenVars
<1>10. ASSUME NEW r \in Requests, NEW u \in Users, PasswordCheck(r, u) PROVE TypeOK'
  <2>1. [Idle EXCEPT !.step = "change.delete", !.kind = "password", !.user = u] \in Request
    BY IdleType DEF Request, Steps
  <2> QED
    BY <1>10, <2>1 DEF PasswordCheck, Start, userVars, tokenVars, linkVars
<1>11. ASSUME NEW r \in Requests, NEW u \in Users, EmailRead(r, u) PROVE TypeOK'
  <2>1. [Idle EXCEPT !.step = "change.delete", !.kind = "email", !.user = u] \in Request
    BY IdleType DEF Request, Steps
  <2> QED
    BY <1>11, <2>1 DEF EmailRead, Start, userVars, tokenVars, linkVars
<1>12. ASSUME NEW r \in Requests, NEW l \in Links, ResetRead(r, l) PROVE TypeOK'
  <2>1. [Idle EXCEPT !.step = "change.delete", !.kind = "reset", !.user = linkOwner[l], !.link = l] \in Request
    BY IdleType DEF Request, Steps
  <2> QED
    BY <1>12, <2>1 DEF ResetRead, Start, userVars, tokenVars, linkVars
<1>13. ASSUME NEW r \in Requests, ChangeDelete(r) PROVE TypeOK'
  <2>1. /\ req[r].user \in Users
        /\ epoch[req[r].user] + 1 \in 1..MaxEpoch
    BY <1>13, MaxEpochAssumption DEF ChangeDelete, Room
  <2>2. [req[r] EXCEPT !.step = "change.commit", !.doomed = Doomed(req[r].user)] \in Request
    BY DEF Doomed, Request, Steps
  <2>3. \A x \in Requests : [req[x] EXCEPT !.late = @ \cup {epoch[req[r].user] + 1}] \in Request
    BY <2>1 DEF Request
  <2>4. req' \in [Requests -> Request]
    BY <1>13, <2>2, <2>3 DEF ChangeDelete
  <2> QED
    BY <1>13, <2>4 DEF ChangeDelete, userVars, tokenVars, linkVars
<1>14. ASSUME NEW r \in Requests, ChangeCommit(r) PROVE TypeOK'
  <2>1. /\ req[r].user \in Users
        /\ epoch[req[r].user] + 1 \in 0..MaxEpoch
    BY <1>14, MaxEpochAssumption DEF ChangeCommit, Room
  <2> QED
    BY <1>14, <2>1, IdleType DEF ChangeCommit
<1>15. ASSUME NEW r \in Requests, NEW u \in Users, DeleteRead(r, u) PROVE TypeOK'
  <2>1. [Idle EXCEPT !.step = "delete.commit", !.user = u] \in Request
    BY IdleType DEF Request, Steps
  <2> QED
    BY <1>15, <2>1 DEF DeleteRead, Start, userVars, tokenVars, linkVars
<1>19. ASSUME NEW r \in Requests, DeleteCommit(r) PROVE TypeOK'
  <2>1. req[r].user \in Users
    BY <1>19 DEF DeleteCommit, Room
  <2> QED
    BY <1>19, <2>1, IdleType DEF DeleteCommit, tokenVars, linkVars
<1>16. ASSUME NEW r \in Requests, Abort(r) PROVE TypeOK'
  BY <1>16, IdleType DEF Abort, userVars, tokenVars, linkVars
<1>17. ASSUME NEW r \in Requests, AbortChange(r) PROVE TypeOK'
  <2>1. \A x \in Requests : [req[x] EXCEPT !.late = @ \ {epoch[req[r].user] + 1}] \in Request
    BY DEF Request
  <2> QED
    BY <1>17, <2>1, IdleType DEF AbortChange, userVars, linkVars
<1>18. CASE UNCHANGED vars
  BY <1>18 DEF vars, userVars, tokenVars, linkVars
<1> QED
  BY <1>1, <1>2, <1>3, <1>4, <1>5, <1>6, <1>7, <1>8, <1>9, <1>10, <1>11, <1>12, <1>13,
     <1>14, <1>15, <1>16, <1>17, <1>18, <1>19 DEF Next, LoginCheck, OperatorCheck, ImpersonateCheck

------------------------------------------------------------------------------
\* The row lock of users admits one credential change per account at a time.
OneChange == \A r, s \in Requests :
    /\ req[r].step = "change.commit" /\ req[s].step = "change.commit"
    /\ req[r].user = req[s].user
    => r = s

LEMMA OneChangeStep == TypeOK /\ OneChange /\ [Next]_vars => OneChange'
<1> SUFFICES ASSUME TypeOK, OneChange, [Next]_vars PROVE OneChange'
  OBVIOUS
<1> USE DEF OneChange, TypeOK
\* Every action but ChangeDelete leaves the set of requests in change.commit as
\* it is or takes one out of it.
<1>1. ASSUME \A x \in Requests : req'[x].step = "change.commit" =>
                 req[x].step = "change.commit" /\ req'[x].user = req[x].user
      PROVE  OneChange'
  BY <1>1
<1>0. ASSUME NEW r \in Requests, NEW rec, Start(r, rec), rec.step # "change.commit"
      PROVE  OneChange'
  BY <1>0, <1>1 DEF Start
<1>2. ASSUME NEW r \in Requests, NEW u \in Users,
             SignIn(r, u) \/ ForgotRead(r, u) \/ PasswordCheck(r, u) \/ EmailRead(r, u)
      PROVE  OneChange'
  BY <1>0, <1>2 DEF SignIn, ForgotRead, PasswordCheck, EmailRead, Idle
<1>3. ASSUME NEW r \in Requests, NEW u \in Users, DeleteRead(r, u)
      PROVE  OneChange'
  BY <1>0, <1>3 DEF DeleteRead, Idle
<1>4. ASSUME NEW r \in Requests, NEW t \in Tokens, RefreshRead(r, t) PROVE OneChange'
  BY <1>0, <1>4 DEF RefreshRead, Idle
<1>5. ASSUME NEW r \in Requests, NEW l \in Links, ResetRead(r, l) PROVE OneChange'
  BY <1>0, <1>5 DEF ResetRead, Idle
<1>6. ASSUME NEW r \in Requests, LoginFindToken(r) PROVE OneChange'
  BY <1>1, <1>6 DEF LoginFindToken
<1>7. ASSUME NEW r \in Requests,
             LoginCommit(r) \/ RefreshCommit(r) \/ ForgotCommit(r) \/ ChangeCommit(r)
               \/ DeleteCommit(r) \/ Abort(r)
      PROVE  OneChange'
  BY <1>1, <1>7 DEF LoginCommit, RefreshCommit, ForgotCommit, ChangeCommit, DeleteCommit, Abort, Idle
<1>8. ASSUME NEW r \in Requests, ChangeDelete(r) PROVE OneChange'
  <2>1. \A x \in Requests : /\ req'[x].user = req[x].user
                            /\ req'[x].step = IF x = r THEN "change.commit" ELSE req[x].step
    BY <1>8 DEF ChangeDelete, Request
  <2>2. \A x \in Requests : req[x].step = "change.commit" => req[x].user # req[r].user
    BY <1>8 DEF ChangeDelete, Changing
  <2> QED
    BY <2>1, <2>2
<1>9. ASSUME NEW r \in Requests, AbortChange(r) PROVE OneChange'
  <2>1. \A x \in Requests : x # r => req'[x].user = req[x].user /\ req'[x].step = req[x].step
    BY <1>9 DEF AbortChange, Request
  <2>2. req'[r].step = "idle"
    BY <1>9 DEF AbortChange, Idle
  <2> QED
    BY <1>1, <2>1, <2>2
<1>10. CASE \/ \E t \in Tokens : Logout(t) \/ Expire(t)
            \/ \E l \in Links : ExpireLink(l)
            \/ UNCHANGED vars
  BY <1>1, <1>10 DEF Logout, Expire, ExpireLink, vars
<1> QED
  BY <1>2, <1>3, <1>4, <1>5, <1>6, <1>7, <1>8, <1>9, <1>10 DEF Next, LoginCheck, OperatorCheck, ImpersonateCheck

LEMMA RoomStep == TypeOK /\ Room /\ Owned /\ OneChange /\ [Next]_vars => Room'
<1> SUFFICES ASSUME TypeOK, Room, Owned, OneChange, [Next]_vars PROVE Room'
  OBVIOUS
<1> USE DEF Room, TypeOK
<1>1. ASSUME NEW r \in Requests, NEW rec, Start(r, rec), UNCHANGED epoch,
             rec.step \notin {"idle", "change.commit"}, rec.user \in Users
      PROVE  Room'
  BY <1>1 DEF Start
<1>2. ASSUME NEW r \in Requests, NEW u \in Users,
             SignIn(r, u) \/ ForgotRead(r, u) \/ PasswordCheck(r, u) \/ EmailRead(r, u)
      PROVE  Room'
  BY <1>1, <1>2 DEF SignIn, ForgotRead, PasswordCheck, EmailRead, Idle, userVars
<1>3. ASSUME NEW r \in Requests, NEW u \in Users, DeleteRead(r, u)
      PROVE  Room'
  BY <1>1, <1>3 DEF DeleteRead, Idle, userVars
<1>4. ASSUME NEW r \in Requests, NEW t \in Tokens, RefreshRead(r, t) PROVE Room'
  BY <1>1, <1>4 DEF RefreshRead, Idle, userVars, Owned, Usable
<1>5. ASSUME NEW r \in Requests, NEW l \in Links, ResetRead(r, l) PROVE Room'
  BY <1>1, <1>5 DEF ResetRead, Idle, userVars, Owned, GoodLinks
<1>6. ASSUME NEW r \in Requests, LoginFindToken(r) PROVE Room'
  BY <1>6 DEF LoginFindToken, userVars
\* A handler that ends without replacing credentials.
<1>7. ASSUME NEW r \in Requests,
             LoginCommit(r) \/ RefreshCommit(r) \/ ForgotCommit(r) \/ DeleteCommit(r) \/ Abort(r)
      PROVE  Room'
  <2>1. req' = [req EXCEPT ![r] = Idle] /\ UNCHANGED epoch
    BY <1>7 DEF LoginCommit, RefreshCommit, ForgotCommit, DeleteCommit, Abort, userVars
  <2> QED
    BY <2>1 DEF Idle
<1>8. ASSUME NEW r \in Requests, ChangeDelete(r) PROVE Room'
  <2>1. \A x \in Requests : /\ req'[x].user = req[x].user
                            /\ req'[x].step = IF x = r THEN "change.commit" ELSE req[x].step
    BY <1>8 DEF ChangeDelete, Request
  <2>2. \A x \in Requests : req[x].step = "idle" => req'[x] = req[x]
    BY <1>8 DEF ChangeDelete
  <2>3. epoch[req[r].user] < MaxEpoch /\ req[r].user \in Users /\ epoch' = epoch
    BY <1>8 DEF ChangeDelete, userVars
  <2> QED
    BY <2>1, <2>2, <2>3
<1>9. ASSUME NEW r \in Requests, ChangeCommit(r) PROVE Room'
  <2>1. \A x \in Requests : req[x].step = "change.commit" /\ x # r => req[x].user # req[r].user
    BY <1>9 DEF ChangeCommit, OneChange
  <2>2. \A v \in Users : v # req[r].user => epoch'[v] = epoch[v]
    BY <1>9 DEF ChangeCommit
  <2>3. req' = [req EXCEPT ![r] = Idle]
    BY <1>9 DEF ChangeCommit
  <2> QED
    BY <2>1, <2>2, <2>3 DEF Idle
<1>10. ASSUME NEW r \in Requests, AbortChange(r) PROVE Room'
  <2>1. \A x \in Requests : x # r => /\ req'[x].user = req[x].user /\ req'[x].step = req[x].step
                                     /\ req[x].step = "idle" => req'[x] = req[x]
    BY <1>10 DEF AbortChange, Request, Idle
  <2>2. req'[r] = Idle /\ Idle.step = "idle" /\ epoch' = epoch
    BY <1>10 DEF AbortChange, userVars, Idle
  <2>3. SUFFICES ASSUME NEW x \in Requests
                 PROVE  /\ req'[x].step = "change.commit" => epoch[req'[x].user] < MaxEpoch
                        /\ req'[x].step # "idle" => req'[x].user \in Users
                        /\ req'[x].step = "idle" => req'[x] = Idle
    BY <2>2
  <2>4. CASE x = r
    BY <2>2, <2>4
  <2>5. CASE x # r
    BY <2>1, <2>5
  <2> QED
    BY <2>4, <2>5
<1>11. CASE \/ \E t \in Tokens : Logout(t) \/ Expire(t)
            \/ \E l \in Links : ExpireLink(l)
            \/ UNCHANGED vars
  BY <1>11 DEF Logout, Expire, ExpireLink, vars, userVars
<1> QED
  BY <1>2, <1>3, <1>4, <1>5, <1>6, <1>7, <1>8, <1>9, <1>10, <1>11 DEF Next, LoginCheck, OperatorCheck, ImpersonateCheck

------------------------------------------------------------------------------
\* Tokens that are named somewhere, as a parent or by a handler, were minted.
Lineage == /\ \A t \in minted : parent[t] \in minted \cup {NoToken}
           /\ \A r \in Requests : req[r].token \in minted \cup {NoToken}
           /\ \A r \in Requests : req[r].step = "refresh.commit" => req[r].token \in minted

LEMMA HistoryStep == TypeOK /\ Room /\ Owned /\ Lineage /\ [Next]_vars => Owned' /\ Lineage'
<1> SUFFICES ASSUME TypeOK, Room, Owned, Lineage, [Next]_vars PROVE Owned' /\ Lineage'
  OBVIOUS
<1> USE DEF TypeOK, Owned, Lineage
<1> DEFINE Kept == UNCHANGED <<minted, owner, parent, issued, linkOwner>>
\* A handler begins or ends and the history stays.
<1>1. ASSUME NEW r \in Requests, NEW rec, req' = [req EXCEPT ![r] = rec],
             rec.token \in minted \cup {NoToken},
             rec.step = "refresh.commit" => rec.token \in minted, Kept
      PROVE  Owned' /\ Lineage'
  BY <1>1
<1>0. ASSUME NEW r \in Requests, NEW rec, Start(r, rec), UNCHANGED <<tokenVars, linkVars>>,
             rec.token = NoToken, rec.step # "refresh.commit"
      PROVE  Owned' /\ Lineage'
  BY <1>0, <1>1 DEF Start, tokenVars, linkVars
<1>2. ASSUME NEW r \in Requests, NEW u \in Users,
             SignIn(r, u) \/ ForgotRead(r, u) \/ PasswordCheck(r, u) \/ EmailRead(r, u)
      PROVE  Owned' /\ Lineage'
  BY <1>0, <1>2 DEF SignIn, ForgotRead, PasswordCheck, EmailRead, Idle
<1>3. ASSUME NEW r \in Requests, NEW u \in Users, DeleteRead(r, u)
      PROVE  Owned' /\ Lineage'
  BY <1>0, <1>3 DEF DeleteRead, Idle
<1>4. ASSUME NEW r \in Requests, NEW t \in Tokens, RefreshRead(r, t) PROVE Owned' /\ Lineage'
  BY <1>1, <1>4 DEF RefreshRead, Usable, Start, Idle, tokenVars, linkVars
<1>5. ASSUME NEW r \in Requests, NEW l \in Links, ResetRead(r, l) PROVE Owned' /\ Lineage'
  BY <1>0, <1>5 DEF ResetRead, Idle
<1>6. ASSUME NEW r \in Requests, LoginFindToken(r) PROVE Owned' /\ Lineage'
  <2>1. PICK t \in minted \cup {NoToken} :
           req' = [req EXCEPT ![r].step = "login.commit", ![r].token = t]
    BY <1>6 DEF LoginFindToken, Listed
  <2>2. \A x \in Requests : /\ req'[x].token \in minted \cup {NoToken}
                            /\ req'[x].step = "refresh.commit" => req'[x] = req[x]
    BY <2>1 DEF Request
  <2> QED
    BY <1>6, <2>2 DEF LoginFindToken, tokenVars, linkVars
<1>7. ASSUME NEW r \in Requests, LoginCommit(r) \/ RefreshCommit(r) PROVE Owned' /\ Lineage'
  <2>1. PICK t \in Tokens, from \in minted \cup {NoToken} :
           Mint(t, req[r].user, from, req[r].cred, req[r].late)
    BY <1>7 DEF LoginCommit, RefreshCommit
  <2>2. req[r].user \in Users /\ req' = [req EXCEPT ![r] = Idle] /\ UNCHANGED linkVars
    BY <1>7 DEF LoginCommit, RefreshCommit, Room
  <2> QED
    BY <2>1, <2>2 DEF Mint, Idle, linkVars
<1>8. ASSUME NEW r \in Requests, ForgotCommit(r) PROVE Owned' /\ Lineage'
  BY <1>8 DEF ForgotCommit, Room, Idle, tokenVars
<1>9. ASSUME NEW r \in Requests, ChangeCommit(r) \/ DeleteCommit(r) \/ Abort(r)
      PROVE  Owned' /\ Lineage'
  BY <1>1, <1>9 DEF ChangeCommit, DeleteCommit, Abort, Idle, tokenVars, linkVars
<1>10. ASSUME NEW r \in Requests, ChangeDelete(r) \/ AbortChange(r) PROVE Owned' /\ Lineage'
  <2>1. \A x \in Requests : /\ req'[x].token \in {req[x].token, NoToken}
                            /\ req'[x].step = "refresh.commit" =>
                                 req[x].step = "refresh.commit" /\ req'[x].token = req[x].token
    <3>1. CASE ChangeDelete(r)
      BY <3>1 DEF ChangeDelete, Request
    <3>2. CASE AbortChange(r)
      BY <3>2 DEF AbortChange, Request, Idle
    <3> QED
      BY <1>10, <3>1, <3>2
  <2>2. Kept
    BY <1>10 DEF ChangeDelete, AbortChange, tokenVars, linkVars
  <2> QED
    BY <2>1, <2>2
<1>11. CASE \/ \E t \in Tokens : Logout(t) \/ Expire(t)
            \/ \E l \in Links : ExpireLink(l)
            \/ UNCHANGED vars
  BY <1>11 DEF Logout, Expire, ExpireLink, vars, tokenVars, linkVars
<1> QED
  BY <1>2, <1>3, <1>4, <1>5, <1>6, <1>7, <1>8, <1>9, <1>10, <1>11 DEF Next, LoginCheck, OperatorCheck, ImpersonateCheck

LEMMA SpentStep == TypeOK /\ Lineage /\ RotatedIsSpent /\ [Next]_vars => RotatedIsSpent'
<1> SUFFICES ASSUME TypeOK, Lineage, RotatedIsSpent, [Next]_vars PROVE RotatedIsSpent'
  OBVIOUS
<1> USE DEF TypeOK, RotatedIsSpent
\* Without a new token it is enough that none becomes usable again.
<1>1. ASSUME Usable' \subseteq Usable, UNCHANGED <<minted, parent>> PROVE RotatedIsSpent'
  BY <1>1
<1>2. CASE UNCHANGED tokenVars
  BY <1>1, <1>2 DEF tokenVars, Usable
<1>3. ASSUME NEW r \in Requests, LoginCommit(r) \/ RefreshCommit(r) PROVE RotatedIsSpent'
  <2>1. PICK t \in Tokens, from \in {NoToken, req[r].token} :
           /\ Mint(t, req[r].user, from, req[r].cred, req[r].late)
           /\ MarkUsed(req[r].token)
           /\ UNCHANGED <<revoked, expired>>
    BY <1>3 DEF LoginCommit, RefreshCommit
  <2>2. Usable' \subseteq (Usable \ {req[r].token}) \cup {t}
    BY <2>1 DEF Usable, Mint, MarkUsed
  <2>3. from # t /\ from \notin Usable \ {req[r].token}
    BY <2>1, NoneAssumption DEF Lineage, Mint, Usable
  <2>4. \A s \in minted : parent'[s] = parent[s] /\ parent[s] # t
    BY <2>1, NoneAssumption DEF Lineage, Mint
  <2> QED
    BY <2>1, <2>2, <2>3, <2>4 DEF Mint
<1>4. ASSUME NEW t \in Tokens, Logout(t) \/ Expire(t) PROVE RotatedIsSpent'
  BY <1>1, <1>4 DEF Logout, Expire, Usable
<1>5. ASSUME NEW r \in Requests, ChangeCommit(r) PROVE RotatedIsSpent'
  BY <1>1, <1>5 DEF ChangeCommit, Usable
<1>6. ASSUME NEW r \in Requests, AbortChange(r) PROVE RotatedIsSpent'
  BY <1>1, <1>6 DEF AbortChange, Usable
<1> QED
  BY <1>2, <1>3, <1>4, <1>5, <1>6
     DEF Next, LoginCheck, OperatorCheck, ImpersonateCheck, SignIn, LoginFindToken, RefreshRead, ForgotRead, ForgotCommit, ExpireLink,
         PasswordCheck, ResetRead, EmailRead, ChangeDelete, DeleteRead, DeleteCommit, Abort, vars

------------------------------------------------------------------------------
\* Handlers that will mint a token for u on what they read before.
MintSteps == {"login.tx", "login.commit", "refresh.commit"}

\* Change n of u's credentials is done or in progress.
Begun(u, n) == n <= epoch[u] \/ (Changing(u) /\ n = epoch[u] + 1)

\* A handler that read older credentials knows of every change since.
InFlight ==
    \A x \in Requests : \A n \in 1..MaxEpoch :
        req[x].step \in MintSteps /\ req[x].cred < n /\ Begun(req[x].user, n) => n \in req[x].late

\* What a change in progress has not deleted was minted while it was.
DoomedOrLate ==
    \A r \in Requests : \A t \in rows :
        /\ req[r].step = "change.commit" /\ owner[t] = req[r].user
        /\ t \notin req[r].doomed /\ cred[t] <= epoch[req[r].user]
        => epoch[req[r].user] + 1 \in late[t]

\* What the three parts of the argument need to hold already.
Base == TypeOK /\ Room /\ Owned /\ Lineage /\ OneChange

Survival == OnlyOverlapSurvivesChange /\ InFlight /\ DoomedOrLate

\* An action that neither touches the tokens nor the credentials, and at most
\* begins or ends a handler that mints nothing, is harmless.
LEMMA SurvivalQuiet ==
    ASSUME Base, Survival, UNCHANGED <<epoch, rows, owner, cred, late>>,
           NEW r \in Requests, NEW rec, req' = [req EXCEPT ![r] = rec],
           rec.step \notin {"change.commit"} \cup MintSteps,
           req[r].step # "change.commit"
    PROVE  Survival'
<1>1. OnlyOverlapSurvivesChange'
  BY DEF Survival, OnlyOverlapSurvivesChange
<1>2. \A u \in Users : Changing(u)' = Changing(u)
  BY DEF Changing, Base, TypeOK
<1>3. InFlight'
  <2>1. SUFFICES ASSUME NEW x \in Requests, NEW n \in 1..MaxEpoch,
                        req'[x].step \in MintSteps, req'[x].cred < n, Begun(req[x].user, n)'
                 PROVE  n \in req'[x].late
    BY DEF InFlight
  <2>2. req'[x] = req[x] /\ req[x].user \in Users
    BY <2>1 DEF Base, TypeOK, Room, MintSteps
  <2> QED
    BY <1>2, <2>1, <2>2 DEF Survival, InFlight, Begun
<1>4. DoomedOrLate'
  BY DEF Survival, DoomedOrLate, Base, TypeOK
<1> QED
  BY <1>1, <1>3, <1>4 DEF Survival

\* A handler that begins and will mint for u: what it read is overlapped by the
\* change in progress, and what it inherited knows of the earlier ones.
LEMMA SurvivalStart ==
    ASSUME Base, Survival, UNCHANGED <<epoch, rows, owner, cred, late>>,
           NEW r \in Requests, NEW rec, Start(r, rec),
           rec.step \in MintSteps, rec.user \in Users,
           \A n \in 1..MaxEpoch : rec.cred < n /\ Begun(rec.user, n) => n \in rec.late
    PROVE  Survival'
<1> USE DEF Start
<1>1. OnlyOverlapSurvivesChange'
  BY DEF Survival, OnlyOverlapSurvivesChange
<1>2. \A u \in Users : Changing(u)' = Changing(u)
  BY DEF Changing, Base, TypeOK, Idle, MintSteps
<1>3. InFlight'
  <2>1. SUFFICES ASSUME NEW x \in Requests, NEW n \in 1..MaxEpoch,
                        req'[x].step \in MintSteps, req'[x].cred < n, Begun(req[x].user, n)'
                 PROVE  n \in req'[x].late
    BY DEF InFlight
  <2>2. CASE x = r
    <3>1. req'[x] = rec
      BY <2>2 DEF Base, TypeOK
    <3> QED
      BY <1>2, <2>1, <3>1 DEF Begun
  <2>3. CASE x # r
    <3>1. req'[x] = req[x] /\ req[x].user \in Users
      BY <2>1, <2>3 DEF Base, TypeOK, Room, MintSteps
    <3> QED
      BY <1>2, <2>1, <3>1 DEF Survival, InFlight, Begun
  <2> QED
    BY <2>2, <2>3
<1>4. DoomedOrLate'
  BY DEF Survival, DoomedOrLate, Base, TypeOK, MintSteps
<1> QED
  BY <1>1, <1>3, <1>4 DEF Survival

\* A token is stored with what its handler knows.
LEMMA SurvivalMint ==
    ASSUME Base, Survival, UNCHANGED epoch,
           NEW r \in Requests, req[r].step \in MintSteps, req' = [req EXCEPT ![r] = Idle],
           NEW t \in Tokens, NEW from, Mint(t, req[r].user, from, req[r].cred, req[r].late)
    PROVE  Survival'
<1>1. /\ req[r].user \in Users /\ rows' = rows \cup {t} /\ t \notin rows
      /\ owner'[t] = req[r].user /\ cred'[t] = req[r].cred /\ late'[t] = req[r].late
      /\ \A s \in rows : owner'[s] = owner[s] /\ cred'[s] = cred[s] /\ late'[s] = late[s]
  BY DEF Base, TypeOK, Room, Mint, MintSteps
<1>2. \A u \in Users : Changing(u)' = Changing(u)
  BY DEF Changing, Base, TypeOK, Idle, MintSteps
<1>3. \A n \in 1..MaxEpoch : req[r].cred < n /\ Begun(req[r].user, n) => n \in req[r].late
  BY DEF Survival, InFlight
<1>4. OnlyOverlapSurvivesChange'
  BY <1>1, <1>3 DEF Survival, OnlyOverlapSurvivesChange, Begun
<1>5. InFlight'
  <2>1. SUFFICES ASSUME NEW x \in Requests, NEW n \in 1..MaxEpoch,
                        req'[x].step \in MintSteps, req'[x].cred < n, Begun(req[x].user, n)'
                 PROVE  n \in req'[x].late
    BY DEF InFlight
  <2>2. req'[x] = req[x] /\ req[x].user \in Users
    BY <2>1 DEF Base, TypeOK, Room, MintSteps, Idle
  <2> QED
    BY <1>2, <2>1, <2>2 DEF Survival, InFlight, Begun
<1>6. DoomedOrLate'
  <2>1. SUFFICES ASSUME NEW x \in Requests, NEW s \in rows', req'[x].step = "change.commit",
                        owner'[s] = req'[x].user, s \notin req'[x].doomed,
                        cred'[s] <= epoch[req'[x].user]
                 PROVE  epoch[req'[x].user] + 1 \in late'[s]
    BY DEF DoomedOrLate
  <2>2. req'[x] = req[x] /\ req[x].user \in Users
    BY <2>1 DEF Base, TypeOK, Room, Idle
  <2>3. CASE s # t
    BY <1>1, <2>1, <2>2, <2>3 DEF Survival, DoomedOrLate
  <2>4. CASE s = t
    <3>1. Changing(req[r].user) /\ req[x].user = req[r].user
      BY <1>1, <2>1, <2>2, <2>4 DEF Changing
    <3>2. epoch[req[r].user] + 1 \in 1..MaxEpoch
      BY <2>1, <2>2, <3>1, MaxEpochAssumption DEF Base, TypeOK, Room
    <3>3. req[r].cred \in Nat /\ epoch[req[r].user] \in Nat
      BY <1>1, MaxEpochAssumption DEF Base, TypeOK, Request
    <3> QED
      BY <1>1, <1>3, <2>1, <2>2, <2>4, <3>1, <3>2, <3>3 DEF Begun
  <2> QED
    BY <2>3, <2>4
<1> QED
  BY <1>4, <1>5, <1>6 DEF Survival

\* A change begins: every row is doomed, every handler of the account is told.
LEMMA SurvivalChangeDelete ==
    ASSUME Base, Survival, NEW r \in Requests, ChangeDelete(r)
    PROVE  Survival'
<1> DEFINE u == req[r].user
           e == epoch[u] + 1
<1>1. /\ u \in Users /\ ~Changing(u) /\ e \in 1..MaxEpoch
      /\ UNCHANGED <<epoch, rows, owner, cred, late>>
  BY MaxEpochAssumption DEF ChangeDelete, Base, Room, TypeOK, userVars, tokenVars
<1>0. req[r] \in Request /\ \A x \in Requests : req[x] \in Request
  BY DEF Base, TypeOK
<1>8. \A x \in Requests \ {r} :
        req'[x] = IF req[x].user = u /\ req[x].step \in MintSteps
                    THEN [req[x] EXCEPT !.late = req[x].late \cup {e}] ELSE req[x]
  BY DEF ChangeDelete, MintSteps
<1>9. req'[r] = [req[r] EXCEPT !.step = "change.commit", !.doomed = Doomed(u)]
  BY DEF ChangeDelete
<1>2. /\ req'[r].step = "change.commit" /\ req'[r].user = u /\ req'[r].doomed = Doomed(u)
      /\ \A x \in Requests \ {r} : /\ req'[x].step = req[x].step
                                   /\ req'[x].user = req[x].user
                                   /\ req'[x].cred = req[x].cred
                                   /\ req'[x].doomed = req[x].doomed
      /\ \A x \in Requests : req[x].late \subseteq req'[x].late
      /\ \A x \in Requests \ {r} : req[x].user = u /\ req[x].step \in MintSteps => e \in req'[x].late
  <2>1. req'[r].step = "change.commit" /\ req'[r].user = u /\ req'[r].doomed = Doomed(u)
    BY <1>0, <1>9 DEF Request
  <2>2. req[r].late \subseteq req'[r].late
    BY <1>0, <1>9 DEF Request
  <2>3. SUFFICES ASSUME NEW x \in Requests \ {r}
                 PROVE  /\ req'[x].step = req[x].step /\ req'[x].user = req[x].user
                        /\ req'[x].cred = req[x].cred /\ req'[x].doomed = req[x].doomed
                        /\ req[x].late \subseteq req'[x].late
                        /\ req[x].user = u /\ req[x].step \in MintSteps => e \in req'[x].late
    BY <2>1, <2>2
  <2>4. CASE req[x].user = u /\ req[x].step \in MintSteps
    <3>1. req'[x] = [req[x] EXCEPT !.late = req[x].late \cup {e}] /\ req[x] \in Request
      BY <1>0, <1>8, <2>4
    <3> HIDE DEF e
    <3> QED
      BY <3>1 DEF Request
  <2>5. CASE ~(req[x].user = u /\ req[x].step \in MintSteps)
    BY <1>8, <2>5
  <2> QED
    BY <2>4, <2>5
<1>3. OnlyOverlapSurvivesChange'
  BY <1>1 DEF Survival, OnlyOverlapSurvivesChange
<1>4. \A v \in Users : v # u => Changing(v)' = Changing(v)
  BY <1>2 DEF Changing
<1>5. InFlight'
  <2>1. SUFFICES ASSUME NEW x \in Requests, NEW n \in 1..MaxEpoch,
                        req'[x].step \in MintSteps, req'[x].cred < n, Begun(req[x].user, n)'
                 PROVE  n \in req'[x].late
    BY DEF InFlight
  <2>2. x # r /\ req[x].user \in Users
    BY <1>2, <2>1 DEF MintSteps, Base, Room
  <2>3. CASE req[x].user = u /\ n = e
    BY <1>2, <2>1, <2>2, <2>3
  <2>4. CASE ~(req[x].user = u /\ n = e)
    <3>1. Begun(req[x].user, n)
      BY <1>1, <1>2, <1>4, <2>1, <2>2, <2>4 DEF Begun
    <3> QED
      BY <1>2, <2>1, <2>2, <3>1 DEF Survival, InFlight
  <2> QED
    BY <2>3, <2>4
<1>6. DoomedOrLate'
  <2>1. SUFFICES ASSUME NEW x \in Requests, NEW s \in rows, req'[x].step = "change.commit",
                        owner[s] = req'[x].user, s \notin req'[x].doomed,
                        cred[s] <= epoch[req'[x].user]
                 PROVE  epoch[req'[x].user] + 1 \in late[s]
    BY <1>1 DEF DoomedOrLate
  <2>2. x # r
    BY <1>2, <2>1 DEF Doomed
  <2> QED
    BY <1>2, <2>1, <2>2 DEF Survival, DoomedOrLate
<1> QED
  BY <1>3, <1>5, <1>6 DEF Survival

\* A change is committed: what it left was minted while it was in progress.
LEMMA SurvivalChangeCommit ==
    ASSUME Base, Survival, NEW r \in Requests, ChangeCommit(r)
    PROVE  Survival'
<1> DEFINE u == req[r].user
           e == epoch[u] + 1
<1>1. /\ u \in Users /\ e \in 1..MaxEpoch /\ epoch[u] \in Nat
      /\ rows' = rows \ req[r].doomed /\ UNCHANGED <<owner, cred, late>>
      /\ epoch'[u] = e /\ \A v \in Users : v # u => epoch'[v] = epoch[v]
      /\ req' = [req EXCEPT ![r] = Idle]
      /\ req[r].step = "change.commit"
  BY MaxEpochAssumption DEF ChangeCommit, Base, Room, TypeOK
<1>2. \A x \in Requests : req'[x].step # "idle" => x # r /\ req'[x] = req[x] /\ req[x].user \in Users
  BY <1>1 DEF Idle, Base, TypeOK, Room
<1>3. Changing(u) /\ \A v \in Users : Changing(v)' => v # u /\ Changing(v)
  BY <1>1, <1>2 DEF Changing, Base, OneChange, Idle
<1>4. OnlyOverlapSurvivesChange'
  <2>1. SUFFICES ASSUME NEW t \in rows', NEW n \in 1..MaxEpoch,
                        cred[t] < n, n <= epoch'[owner[t]]
                 PROVE  n \in late[t]
    BY <1>1 DEF OnlyOverlapSurvivesChange
  <2>2. t \in rows /\ owner[t] \in Users /\ t \notin req[r].doomed /\ cred[t] \in Nat
    BY <1>1, <2>1, MaxEpochAssumption DEF Base, TypeOK, Owned
  <2>3. CASE owner[t] = u /\ n = e
    BY <1>1, <2>1, <2>2, <2>3 DEF Survival, DoomedOrLate
  <2>4. CASE ~(owner[t] = u /\ n = e)
    BY <1>1, <2>1, <2>2, <2>4 DEF Survival, OnlyOverlapSurvivesChange
  <2> QED
    BY <2>3, <2>4
<1>5. InFlight'
  <2>1. SUFFICES ASSUME NEW x \in Requests, NEW n \in 1..MaxEpoch,
                        req'[x].step \in MintSteps, req'[x].cred < n, Begun(req[x].user, n)'
                 PROVE  n \in req'[x].late
    BY DEF InFlight
  <2>2. req'[x] = req[x] /\ req[x].user \in Users
    BY <1>2, <2>1 DEF MintSteps
  <2>3. Begun(req[x].user, n)
    BY <1>1, <1>3, <2>1, <2>2 DEF Begun
  <2> QED
    BY <2>1, <2>2, <2>3 DEF Survival, InFlight
<1>6. DoomedOrLate'
  <2>1. SUFFICES ASSUME NEW x \in Requests, NEW s \in rows', req'[x].step = "change.commit",
                        owner[s] = req'[x].user, s \notin req'[x].doomed,
                        cred[s] <= epoch'[req'[x].user]
                 PROVE  epoch'[req'[x].user] + 1 \in late[s]
    BY <1>1 DEF DoomedOrLate
  <2>2. x # r /\ req'[x] = req[x] /\ req[x].user \in Users /\ req[x].user # u
    BY <1>1, <1>2, <2>1 DEF Base, OneChange
  <2> QED
    BY <1>1, <2>1, <2>2 DEF Survival, DoomedOrLate
<1> QED
  BY <1>4, <1>5, <1>6 DEF Survival

\* A change is rolled back: nothing is forgotten but the change itself.
LEMMA SurvivalAbortChange ==
    ASSUME Base, Survival, NEW r \in Requests, AbortChange(r)
    PROVE  Survival'
<1> DEFINE u == req[r].user
           e == epoch[u] + 1
<1>1. /\ u \in Users /\ epoch[u] \in Nat
      /\ UNCHANGED <<epoch, rows, owner, cred>>
      /\ req[r].step = "change.commit"
  BY MaxEpochAssumption DEF AbortChange, Base, Room, TypeOK, userVars
<1>2. \A t \in Tokens : late'[t] = IF owner[t] = u THEN late[t] \ {e} ELSE late[t]
  BY DEF AbortChange
<1>3. \A x \in Requests : req'[x].step # "idle" =>
          /\ x # r /\ req[x].user \in Users
          /\ req'[x].step = req[x].step /\ req'[x].user = req[x].user
          /\ req'[x].cred = req[x].cred /\ req'[x].doomed = req[x].doomed
          /\ req'[x].late = IF req[x].user = u THEN req[x].late \ {e} ELSE req[x].late
  BY DEF AbortChange, Idle, Base, TypeOK, Room, Request
<1>4. \A v \in Users : Changing(v)' => v # u /\ Changing(v)
  BY <1>1, <1>3 DEF Changing, Base, OneChange
<1>5. OnlyOverlapSurvivesChange'
  <2>1. SUFFICES ASSUME NEW t \in rows, NEW n \in 1..MaxEpoch,
                        cred[t] < n, n <= epoch[owner[t]]
                 PROVE  n \in late'[t]
    BY <1>1 DEF OnlyOverlapSurvivesChange
  <2>2. t \in Tokens /\ n \in late[t]
    BY <2>1 DEF Survival, OnlyOverlapSurvivesChange, Base, TypeOK
  <2>3. owner[t] = u => n # e
    BY <1>1, <2>1
  <2> QED
    BY <1>2, <2>2, <2>3
<1>6. InFlight'
  <2>1. SUFFICES ASSUME NEW x \in Requests, NEW n \in 1..MaxEpoch,
                        req'[x].step \in MintSteps, req'[x].cred < n, Begun(req[x].user, n)'
                 PROVE  n \in req'[x].late
    BY DEF InFlight
  <2>2. /\ req[x].step \in MintSteps /\ req'[x].user = req[x].user /\ req[x].cred < n
        /\ req[x].user \in Users
        /\ req'[x].late = IF req[x].user = u THEN req[x].late \ {e} ELSE req[x].late
    BY <1>3, <2>1 DEF MintSteps
  <2>3. Begun(req[x].user, n) /\ (req[x].user = u => n # e)
    BY <1>1, <1>4, <2>1, <2>2 DEF Begun
  <2> QED
    BY <2>2, <2>3 DEF Survival, InFlight
<1>7. DoomedOrLate'
  <2>1. SUFFICES ASSUME NEW x \in Requests, NEW s \in rows, req'[x].step = "change.commit",
                        owner[s] = req'[x].user, s \notin req'[x].doomed,
                        cred[s] <= epoch[req'[x].user]
                 PROVE  epoch[req'[x].user] + 1 \in late'[s]
    BY <1>1 DEF DoomedOrLate
  <2>2. req'[x].user # u /\ s \in Tokens
    BY <1>1, <1>3, <2>1 DEF Base, OneChange, TypeOK
  <2> QED
    BY <1>2, <1>3, <2>1, <2>2 DEF Survival, DoomedOrLate
<1> QED
  BY <1>5, <1>6, <1>7 DEF Survival

LEMMA SurvivalStep == Base /\ Survival /\ [Next]_vars => Survival'
<1> SUFFICES ASSUME Base, Survival, [Next]_vars PROVE Survival'
  OBVIOUS
<1> USE DEF userVars, tokenVars, linkVars
<1>1. ASSUME NEW r \in Requests, NEW u \in Users, SignIn(r, u) PROVE Survival'
  <2> DEFINE rec == [Idle EXCEPT !.step = "login.tx", !.user = u,
                                 !.cred = epoch[u], !.late = Overlapping(u)]
  <2>1. /\ Start(r, rec) /\ UNCHANGED <<epoch, rows, owner, cred, late>>
    BY <1>1 DEF SignIn
  <2>2. /\ rec.step \in MintSteps /\ rec.user \in Users
        /\ \A n \in 1..MaxEpoch : rec.cred < n /\ Begun(rec.user, n) => n \in rec.late
    BY MaxEpochAssumption DEF Idle, MintSteps, Begun, Overlapping, Base, TypeOK
  <2> HIDE DEF rec
  <2> QED
    BY <2>1, <2>2, SurvivalStart
<1>2. ASSUME NEW r \in Requests, NEW t \in Tokens, RefreshRead(r, t) PROVE Survival'
  <2> DEFINE rec == [Idle EXCEPT !.step = "refresh.commit", !.user = owner[t], !.token = t,
                                 !.cred = cred[t], !.late = late[t] \cup Overlapping(owner[t])]
  <2>1. /\ Start(r, rec) /\ UNCHANGED <<epoch, rows, owner, cred, late>>
    BY <1>2 DEF RefreshRead
  <2>2. t \in rows /\ owner[t] \in Users
    BY <1>2 DEF RefreshRead, Usable, Base, TypeOK, Owned
  <2>3. /\ rec.step = "refresh.commit" /\ rec.user = owner[t] /\ rec.cred = cred[t]
        /\ rec.late = late[t] \cup Overlapping(owner[t])
    BY DEF Idle
  <2> HIDE DEF rec
  <2>4. \A n \in 1..MaxEpoch : rec.cred < n /\ Begun(rec.user, n) => n \in rec.late
    BY <2>2, <2>3 DEF Begun, Overlapping, Survival, OnlyOverlapSurvivesChange
  <2> QED
    BY <2>1, <2>2, <2>3, <2>4, SurvivalStart DEF MintSteps
\* The handlers that mint nothing.
<1>0. ASSUME NEW r \in Requests, NEW rec, Start(r, rec), UNCHANGED <<userVars, tokenVars>>,
             rec.step \in {"forgot.commit", "change.delete", "delete.commit"}
      PROVE  Survival'
  <2>1. req[r].step # "change.commit" /\ rec.step \notin {"change.commit"} \cup MintSteps
    BY <1>0 DEF Start, Idle, MintSteps
  <2>2. req' = [req EXCEPT ![r] = rec] /\ UNCHANGED <<epoch, rows, owner, cred, late>>
    BY <1>0 DEF Start
  <2> QED
    BY <2>1, <2>2, SurvivalQuiet
<1>3. ASSUME NEW r \in Requests, NEW u \in Users, ForgotRead(r, u) PROVE Survival'
  BY <1>3, <1>0 DEF ForgotRead, Idle
<1>4. ASSUME NEW r \in Requests, NEW u \in Users, PasswordCheck(r, u) PROVE Survival'
  BY <1>4, <1>0 DEF PasswordCheck, Idle
<1>5. ASSUME NEW r \in Requests, NEW u \in Users, EmailRead(r, u) PROVE Survival'
  BY <1>5, <1>0 DEF EmailRead, Idle
<1>6. ASSUME NEW r \in Requests, NEW l \in Links, ResetRead(r, l) PROVE Survival'
  BY <1>6, <1>0 DEF ResetRead, Idle
<1>7. ASSUME NEW r \in Requests, NEW u \in Users, DeleteRead(r, u)
      PROVE  Survival'
  BY <1>7, <1>0 DEF DeleteRead, Idle
<1>8. ASSUME NEW r \in Requests, ForgotCommit(r) \/ DeleteCommit(r) \/ Abort(r) PROVE Survival'
  <2>1. /\ req' = [req EXCEPT ![r] = Idle] /\ req[r].step # "change.commit"
        /\ UNCHANGED <<epoch, rows, owner, cred, late>>
    BY <1>8 DEF ForgotCommit, DeleteCommit, Abort
  <2>2. Idle.step \notin {"change.commit"} \cup MintSteps
    BY DEF Idle, MintSteps
  <2> QED
    BY <2>1, <2>2, SurvivalQuiet
<1>9. ASSUME NEW r \in Requests, LoginFindToken(r) PROVE Survival'
  <2>1. PICK t \in Listed(req[r].user) \cup {NoToken} :
           req' = [req EXCEPT ![r].step = "login.commit", ![r].token = t]
    BY <1>9 DEF LoginFindToken
  <2>2. UNCHANGED <<epoch, rows, owner, cred, late>> /\ req[r].step = "login.tx"
    BY <1>9 DEF LoginFindToken
  <2>3. \A x \in Requests : /\ req'[x].user = req[x].user /\ req'[x].cred = req[x].cred
                            /\ req'[x].late = req[x].late /\ req'[x].doomed = req[x].doomed
                            /\ req'[x].step \in MintSteps <=> req[x].step \in MintSteps
                            /\ req'[x].step = "change.commit" <=> req[x].step = "change.commit"
    BY <2>1, <2>2 DEF Base, TypeOK, Request, MintSteps
  <2>4. \A v \in Users : Changing(v)' <=> Changing(v)
    BY <2>3 DEF Changing
  <2>5. OnlyOverlapSurvivesChange' /\ DoomedOrLate'
    BY <2>2, <2>3 DEF Survival, OnlyOverlapSurvivesChange, DoomedOrLate
  <2>6. InFlight'
    BY <2>2, <2>3, <2>4 DEF Survival, InFlight, Begun, Base, Room, MintSteps
  <2> QED
    BY <2>5, <2>6 DEF Survival
<1>10. ASSUME NEW r \in Requests, LoginCommit(r) \/ RefreshCommit(r) PROVE Survival'
  <2>1. PICK t \in Tokens, from \in {NoToken, req[r].token} :
           Mint(t, req[r].user, from, req[r].cred, req[r].late)
    BY <1>10 DEF LoginCommit, RefreshCommit
  <2>2. /\ req' = [req EXCEPT ![r] = Idle] /\ req[r].step \in MintSteps /\ UNCHANGED epoch
    BY <1>10 DEF LoginCommit, RefreshCommit, MintSteps
  <2> QED
    BY <2>1, <2>2, SurvivalMint
<1>11. ASSUME NEW r \in Requests, ChangeDelete(r) \/ ChangeCommit(r) \/ AbortChange(r) PROVE Survival'
  BY <1>11, SurvivalChangeDelete, SurvivalChangeCommit, SurvivalAbortChange
<1>12. CASE \/ \E t \in Tokens : Logout(t) \/ Expire(t)
            \/ \E l \in Links : ExpireLink(l)
            \/ UNCHANGED vars
  <2>1. UNCHANGED <<epoch, rows, owner, cred, late, req>>
    BY <1>12 DEF Logout, Expire, ExpireLink, vars
  <2> QED
    BY <2>1 DEF Survival, OnlyOverlapSurvivesChange, DoomedOrLate, InFlight, Begun, Changing
<1> QED
  BY <1>1, <1>2, <1>3, <1>4, <1>5, <1>6, <1>7, <1>8, <1>9, <1>10, <1>11, <1>12 DEF Next, LoginCheck, OperatorCheck, ImpersonateCheck

------------------------------------------------------------------------------
\* The inductive invariant.
IInv == Base /\ RotatedIsSpent /\ Survival

LEMMA InitIInv == Init => IInv
<1> SUFFICES ASSUME Init PROVE IInv
  OBVIOUS
<1>1. OneChange /\ Lineage /\ RotatedIsSpent
  BY DEF Init, Idle, OneChange, Lineage, RotatedIsSpent
<1>2. Survival
  BY DEF Init, Idle, Survival, OnlyOverlapSurvivesChange, InFlight, DoomedOrLate, MintSteps
<1> QED
  BY <1>1, <1>2, InitType DEF IInv, Base

LEMMA StepIInv == IInv /\ [Next]_vars => IInv'
BY TypeStep, RoomStep, OneChangeStep, HistoryStep, SpentStep, SurvivalStep DEF IInv, Base

\* Every reachable state of the session store is well typed, whatever the
\* handlers in flight do to it.
THEOREM SessionTypes == Spec => []TypeOK
<1>1. IInv => TypeOK
  BY DEF IInv, Base
<1> QED
  BY <1>1, InitIInv, StepIInv, PTL DEF Spec

\* A rotated refresh token can never be presented again, under any interleaving
\* of logins, rotations, revocations and credential changes.
THEOREM RotationSpends == Spec => []RotatedIsSpent
<1>1. IInv => RotatedIsSpent
  BY DEF IInv
<1> QED
  BY <1>1, InitIInv, StepIInv, PTL DEF Spec

\* Changing the password, resetting it or changing the e-mail address ends every
\* session of the account but those minted by a handler it overlapped.
THEOREM ChangeEndsSessions == Spec => []OnlyOverlapSurvivesChange
<1>1. IInv => OnlyOverlapSurvivesChange
  BY DEF IInv, Survival
<1> QED
  BY <1>1, InitIInv, StepIInv, PTL DEF Spec

------------------------------------------------------------------------------
(***************************************************************************)
(* Refresh tokens implement one-time tokens.                               *)
(***************************************************************************)

\* The token each rotation in flight has found fresh.
Claims == [r \in Requests |-> IF req[r].step = "refresh.commit" THEN req[r].token ELSE NoToken]

\* The tokens that were rotated.
Consumed == {parent[t] : t \in minted} \ {NoToken}

\* Whatever issues tokens and makes tokens unusable is a turnover.
LEMMA TurnoverOf ==
    ASSUME TypeOK, NEW N \in SUBSET Tokens, N \cap minted = {},
           minted' = minted \cup N, Usable' \subseteq Usable \cup N
    PROVE  RefreshTokens!Turnover(N, (Usable \cup N) \ Usable')
BY DEF RefreshTokens!Turnover, TypeOK, Usable

LEMMA UsableMinted == TypeOK => Usable \subseteq minted
BY DEF TypeOK, Usable

\* Withdrawals, expiries and logins.
LEMMA ManageOf ==
    ASSUME TypeOK, NEW N \in SUBSET Tokens, N \cap minted = {},
           minted' = minted \cup N, Usable' \subseteq Usable \cup N,
           Consumed' = Consumed, Claims' = Claims
    PROVE  RefreshTokens!Next
<1>1. RefreshTokens!Turnover(N, (Usable \cup N) \ Usable')
  BY TurnoverOf
<1>2. (Usable \cup N) \ Usable' \in SUBSET Tokens
  BY DEF TypeOK, Usable
<1>3. RefreshTokens!Manage
  BY <1>1, <1>2 DEF RefreshTokens!Manage, Consumed, Claims
<1> QED
  BY <1>3 DEF RefreshTokens!Next

\* The same, when nothing is issued.
LEMMA WithdrawOf ==
    ASSUME TypeOK, UNCHANGED minted, Usable' \subseteq Usable,
           Consumed' = Consumed, Claims' = Claims
    PROVE  RefreshTokens!Next
<1>1. {} \in SUBSET Tokens /\ {} \cap minted = {} /\ minted' = minted \cup {}
      /\ Usable' \subseteq Usable \cup {}
  OBVIOUS
<1> QED
  BY <1>1, ManageOf

LEMMA RefinementInit == Init => RefreshTokens!Init
BY DEF Init, Idle, RefreshTokens!Init, Usable

\* Handlers that neither touch tokens nor begin or end a rotation stutter.
LEMMA StutterOf ==
    ASSUME UNCHANGED <<minted, rows, used, revoked, expired, parent>>,
           NEW r \in Requests, NEW rec, req' = [req EXCEPT ![r] = rec],
           req \in [Requests -> Request],
           req[r].step # "refresh.commit", rec.step # "refresh.commit"
    PROVE  UNCHANGED RefreshTokens!vars
BY DEF RefreshTokens!vars, Usable

LEMMA RefinementStep == IInv /\ [Next]_vars => [RefreshTokens!Next]_(RefreshTokens!vars)
<1> SUFFICES ASSUME IInv, [Next]_vars PROVE [RefreshTokens!Next]_(RefreshTokens!vars)
  OBVIOUS
<1> USE DEF IInv, Base, TypeOK
<1>0. ASSUME NEW r \in Requests, NEW rec, Start(r, rec), UNCHANGED tokenVars,
             rec.step # "refresh.commit"
      PROVE  UNCHANGED RefreshTokens!vars
  <2>1. /\ req' = [req EXCEPT ![r] = rec] /\ req[r].step # "refresh.commit"
        /\ req \in [Requests -> Request]
        /\ UNCHANGED <<minted, rows, used, revoked, expired, parent>>
    BY <1>0 DEF Start, Idle, tokenVars
  <2> QED
    BY <1>0, <2>1, StutterOf
<1>1. ASSUME NEW r \in Requests, NEW u \in Users,
             SignIn(r, u) \/ ForgotRead(r, u) \/ PasswordCheck(r, u) \/ EmailRead(r, u)
      PROVE  UNCHANGED RefreshTokens!vars
  BY <1>1, <1>0 DEF SignIn, ForgotRead, PasswordCheck, EmailRead, Idle
<1>2. ASSUME NEW r \in Requests, NEW u \in Users, DeleteRead(r, u)
      PROVE  UNCHANGED RefreshTokens!vars
  BY <1>2, <1>0 DEF DeleteRead, Idle
<1>3. ASSUME NEW r \in Requests, NEW l \in Links, ResetRead(r, l) PROVE UNCHANGED RefreshTokens!vars
  BY <1>3, <1>0 DEF ResetRead, Idle
<1>4. ASSUME NEW r \in Requests, LoginFindToken(r) PROVE UNCHANGED RefreshTokens!vars
  BY <1>4 DEF LoginFindToken, RefreshTokens!vars, Usable, tokenVars, Request
<1>5. ASSUME NEW r \in Requests, ForgotCommit(r) \/ DeleteCommit(r) PROVE UNCHANGED RefreshTokens!vars
  BY <1>5, StutterOf DEF ForgotCommit, DeleteCommit, Idle, tokenVars
<1>6. ASSUME NEW r \in Requests, ChangeDelete(r) PROVE UNCHANGED RefreshTokens!vars
  <2>1. \A x \in Requests : /\ req'[x].token = req[x].token
                            /\ req'[x].step = "refresh.commit" <=> req[x].step = "refresh.commit"
    BY <1>6 DEF ChangeDelete, Request
  <2> QED
    BY <1>6, <2>1 DEF ChangeDelete, RefreshTokens!vars, Usable, tokenVars
<1>7. ASSUME NEW r \in Requests, AbortChange(r) PROVE UNCHANGED RefreshTokens!vars
  <2>1. \A x \in Requests : /\ req'[x].step = "refresh.commit" => req'[x].token = req[x].token
                            /\ req'[x].step = "refresh.commit" <=> req[x].step = "refresh.commit"
    BY <1>7 DEF AbortChange, Request, Idle
  <2> QED
    BY <1>7, <2>1 DEF AbortChange, RefreshTokens!vars, Usable
\* The reads of a rotation claim the token, its commit consumes it.
<1>8. ASSUME NEW r \in Requests, NEW t \in Tokens, RefreshRead(r, t) PROVE RefreshTokens!Next
  <2> DEFINE rec == [Idle EXCEPT !.step = "refresh.commit", !.user = owner[t], !.token = t,
                                 !.cred = cred[t], !.late = late[t] \cup Overlapping(owner[t])]
  <2>1. /\ req[r] = Idle /\ req' = [req EXCEPT ![r] = rec] /\ t \in Usable
        /\ UNCHANGED <<minted, rows, used, revoked, expired, parent>>
    BY <1>8 DEF RefreshRead, Start, tokenVars
  <2>2. rec.step = "refresh.commit" /\ rec.token = t /\ Idle.step = "idle"
    BY DEF Idle
  <2> HIDE DEF rec
  <2>3. Claims' = [Claims EXCEPT ![r] = t] /\ Claims[r] = NoToken
    BY <2>1, <2>2 DEF Claims
  <2>4. RefreshTokens!Claim(r, t)
    BY <2>1, <2>3 DEF RefreshTokens!Claim, Claims, Usable
  <2> QED
    BY <2>4 DEF RefreshTokens!Next
<1>9. ASSUME NEW r \in Requests, RefreshCommit(r) PROVE RefreshTokens!Next
  <2> DEFINE old == req[r].token
  <2>1. PICK t \in Tokens : Mint(t, req[r].user, old, req[r].cred, req[r].late)
    BY <1>9 DEF RefreshCommit
  <2>2. /\ old \in minted /\ old # NoToken /\ t \notin minted /\ minted' = minted \cup {t}
    BY <1>9, <2>1, NoneAssumption DEF RefreshCommit, Lineage, Mint
  <2>3. Usable' \subseteq (Usable \cup {t}) \ {old}
    BY <1>9, <2>1, <2>2 DEF RefreshCommit, Mint, MarkUsed, Usable
  <2>4. RefreshTokens!Turnover({t}, (Usable \cup {t}) \ Usable')
    BY <2>2, <2>3, TurnoverOf
  <2>5. RefreshTokens!Turnover({t}, ((Usable \cup {t}) \ Usable') \cup {old})
    BY <2>2, <2>3, <2>4 DEF RefreshTokens!Turnover
  <2>6. Claims[r] = old /\ Claims' = [Claims EXCEPT ![r] = NoToken]
    BY <1>9 DEF RefreshCommit, Claims, Idle
  <2>7. Consumed' = Consumed \cup {old}
    <3>1. parent'[t] = old /\ \A s \in minted : parent'[s] = parent[s]
      BY <2>1, <2>2 DEF Mint
    <3> QED
      BY <2>2, <3>1 DEF Consumed
  <2>8. {t} \in SUBSET Tokens /\ (Usable \cup {t}) \ Usable' \in SUBSET Tokens
    BY DEF Usable
  <2>9. RefreshTokens!Consume(r)
    BY <2>2, <2>5, <2>6, <2>7, <2>8 DEF RefreshTokens!Consume, Claims, Consumed
  <2> QED
    BY <2>9 DEF RefreshTokens!Next
\* A login issues a token and withdraws another.
<1>10. ASSUME NEW r \in Requests, LoginCommit(r) PROVE RefreshTokens!Next
  <2>1. PICK t \in Tokens : Mint(t, req[r].user, NoToken, req[r].cred, req[r].late)
    BY <1>10 DEF LoginCommit
  <2>2. t \notin minted /\ minted' = minted \cup {t}
    BY <2>1 DEF Mint
  <2>3. Usable' \subseteq Usable \cup {t}
    BY <1>10, <2>1 DEF LoginCommit, Mint, MarkUsed, Usable
  <2>4. Claims' = Claims
    BY <1>10 DEF LoginCommit, Claims, Idle
  <2>5. Consumed' = Consumed
    BY <2>1, <2>2 DEF Mint, Consumed
  <2>6. {t} \in SUBSET Tokens /\ {t} \cap minted = {} /\ TypeOK
    BY <2>2
  <2> HIDE DEF IInv, Base, TypeOK
  <2> QED
    BY <2>2, <2>3, <2>4, <2>5, <2>6, ManageOf
\* Revocation, expiry and credential changes withdraw tokens.
<1>11. ASSUME NEW t \in Tokens, Logout(t) \/ Expire(t) PROVE RefreshTokens!Next
  <2>1. /\ UNCHANGED minted /\ Usable' \subseteq Usable
        /\ Consumed' = Consumed /\ Claims' = Claims
    BY <1>11 DEF Logout, Expire, Usable, Consumed, Claims
  <2>2. TypeOK
    OBVIOUS
  <2> HIDE DEF IInv, Base, TypeOK
  <2> QED
    BY <2>1, <2>2, WithdrawOf
<1>12. ASSUME NEW r \in Requests, ChangeCommit(r) PROVE RefreshTokens!Next
  <2>1. /\ UNCHANGED minted /\ Usable' \subseteq Usable
        /\ Consumed' = Consumed
    BY <1>12 DEF ChangeCommit, Usable, Consumed
  <2>2. Claims' = Claims
    BY <1>12 DEF ChangeCommit, Claims, Idle
  <2>3. TypeOK
    OBVIOUS
  <2> HIDE DEF IInv, Base, TypeOK
  <2> QED
    BY <2>1, <2>2, <2>3, WithdrawOf
\* A rotation that fails releases its token.
<1>13. ASSUME NEW r \in Requests, Abort(r) PROVE [RefreshTokens!Next]_(RefreshTokens!vars)
  <2>1. /\ req' = [req EXCEPT ![r] = Idle] /\ Idle.step = "idle"
        /\ UNCHANGED <<minted, rows, used, revoked, expired, parent>>
    BY <1>13 DEF Abort, Idle, tokenVars
  <2>2. Claims' = [Claims EXCEPT ![r] = NoToken]
    BY <2>1 DEF Claims
  <2>3. RefreshTokens!Release(r)
    BY <2>1, <2>2 DEF RefreshTokens!Release, Claims, Usable
  <2> QED
    BY <2>3 DEF RefreshTokens!Next
<1>14. ASSUME UNCHANGED vars \/ \E l \in Links : ExpireLink(l) PROVE UNCHANGED RefreshTokens!vars
  BY <1>14 DEF vars, ExpireLink, tokenVars, RefreshTokens!vars, Usable
<1> HIDE DEF IInv, Base, TypeOK
<1> QED
  BY <1>1, <1>2, <1>3, <1>4, <1>5, <1>6, <1>7, <1>8, <1>9, <1>10, <1>11, <1>12, <1>13, <1>14 DEF Next, LoginCheck, OperatorCheck, ImpersonateCheck

\* Every behaviour of the session store is a behaviour of one-time tokens:
\* rotating a refresh token consumes it, and nothing makes it usable again.
THEOREM TokensImplementOneTime == Spec => TokensAreOneTime
<1>1. IInv /\ [Next]_vars => [RefreshTokens!Next]_(RefreshTokens!vars)
  BY RefinementStep
<1> QED
  BY <1>1, RefinementInit, InitIInv, StepIInv, PTL DEF Spec, TokensAreOneTime, RefreshTokens!Spec

------------------------------------------------------------------------------
(***************************************************************************)
(* Password-reset links implement one-time tokens.                         *)
(***************************************************************************)

\* A reset in flight has a link of the account it changes, nobody else has one.
LinksHeld == \A r \in Requests :
    /\ req[r].kind = "reset" => /\ req[r].step \in {"change.delete", "change.commit"}
                               /\ req[r].link \in issued
                               /\ linkOwner[req[r].link] = req[r].user
    /\ req[r].kind # "reset" => req[r].link = NoLink

\* The link each reset in flight has found good.
LinkClaims == [r \in Requests |-> IF req[r].kind = "reset" THEN req[r].link ELSE NoLink]

\* Handlers that begin with no link, or end, keep LinksHeld.
LEMMA LinksHeldOf ==
    ASSUME LinksHeld, req \in [Requests -> Request], NEW r \in Requests, NEW rec,
           req' = [req EXCEPT ![r] = rec], rec.kind # "reset", rec.link = NoLink,
           issued \subseteq issued', \A l \in issued : linkOwner'[l] = linkOwner[l]
    PROVE  LinksHeld'
BY DEF LinksHeld

LEMMA LinksHeldStep == TypeOK /\ Room /\ LinksHeld /\ [Next]_vars => LinksHeld'
<1> SUFFICES ASSUME TypeOK, Room, LinksHeld, [Next]_vars PROVE LinksHeld'
  OBVIOUS
<1>0. Idle.kind = "none" /\ Idle.link = NoLink /\ req \in [Requests -> Request]
  BY DEF Idle, TypeOK
<1>1. ASSUME NEW r \in Requests, NEW rec, Start(r, rec), UNCHANGED linkVars,
             rec.kind # "reset", rec.link = NoLink
      PROVE  LinksHeld'
  BY <1>0, <1>1, LinksHeldOf DEF Start, linkVars
<1>2. ASSUME NEW r \in Requests, NEW u \in Users,
             \/ SignIn(r, u) \/ ForgotRead(r, u) \/ PasswordCheck(r, u)
             \/ EmailRead(r, u) \/ DeleteRead(r, u)
      PROVE  LinksHeld'
  BY <1>1, <1>2 DEF SignIn, ForgotRead, PasswordCheck, EmailRead, DeleteRead, Idle
<1>2a. ASSUME NEW r \in Requests, NEW t \in Tokens, RefreshRead(r, t) PROVE LinksHeld'
  BY <1>1, <1>2a DEF RefreshRead, Idle
<1>3. ASSUME NEW r \in Requests, NEW l \in Links, ResetRead(r, l) PROVE LinksHeld'
  <2> DEFINE rec == [Idle EXCEPT !.step = "change.delete", !.kind = "reset",
                                 !.user = linkOwner[l], !.link = l]
  <2>1. rec.step = "change.delete" /\ rec.user = linkOwner[l] /\ rec.link = l /\ rec.kind = "reset"
    BY DEF Idle
  <2>2. req' = [req EXCEPT ![r] = rec] /\ l \in issued /\ UNCHANGED <<issued, linkOwner>>
    BY <1>3 DEF ResetRead, Start, GoodLinks, linkVars
  <2> HIDE DEF rec
  <2> QED
    BY <1>0, <2>1, <2>2 DEF LinksHeld
<1>4. ASSUME NEW r \in Requests, LoginFindToken(r) PROVE LinksHeld'
  <2>1. UNCHANGED <<issued, linkOwner>>
    BY <1>4 DEF LoginFindToken, linkVars
  <2>2. \A x \in Requests : /\ req'[x].kind = req[x].kind /\ req'[x].link = req[x].link
                            /\ req'[x].user = req[x].user
                            /\ req[x].kind = "reset" => req'[x].step = req[x].step
    BY <1>0, <1>4 DEF LoginFindToken, Request, LinksHeld
  <2> QED
    BY <2>1, <2>2 DEF LinksHeld
<1>5. ASSUME NEW r \in Requests,
             \/ LoginCommit(r) \/ RefreshCommit(r) \/ DeleteCommit(r) \/ Abort(r) \/ ChangeCommit(r)
      PROVE  LinksHeld'
  <2>1. req' = [req EXCEPT ![r] = Idle] /\ UNCHANGED <<issued, linkOwner>>
    BY <1>5 DEF LoginCommit, RefreshCommit, DeleteCommit, Abort, ChangeCommit, linkVars
  <2> QED
    BY <1>0, <2>1, LinksHeldOf
<1>6. ASSUME NEW r \in Requests, ForgotCommit(r) PROVE LinksHeld'
  <2>1. /\ req' = [req EXCEPT ![r] = Idle] /\ issued \subseteq issued'
        /\ \A l \in issued : linkOwner'[l] = linkOwner[l]
    BY <1>6 DEF ForgotCommit, TypeOK
  <2> QED
    BY <1>0, <2>1, LinksHeldOf
<1>7. ASSUME NEW r \in Requests, ChangeDelete(r) PROVE LinksHeld'
  <2>1. UNCHANGED <<issued, linkOwner>>
    BY <1>7 DEF ChangeDelete, linkVars
  <2>2. \A x \in Requests : /\ req'[x].kind = req[x].kind /\ req'[x].link = req[x].link
                            /\ req'[x].user = req[x].user
                            /\ \/ req'[x].step = req[x].step
                               \/ req'[x].step = "change.commit"
    BY <1>0, <1>7 DEF ChangeDelete, Request
  <2> QED
    BY <2>1, <2>2 DEF LinksHeld
<1>8. ASSUME NEW r \in Requests, AbortChange(r) PROVE LinksHeld'
  <2>1. UNCHANGED <<issued, linkOwner>>
    BY <1>8 DEF AbortChange, linkVars
  <2>2. \A x \in Requests \ {r} :
           /\ req'[x].kind = req[x].kind /\ req'[x].link = req[x].link
           /\ req'[x].user = req[x].user /\ req'[x].step = req[x].step
    BY <1>0, <1>8 DEF AbortChange, Request
  <2>3. req'[r] = Idle
    BY <1>8 DEF AbortChange
  <2> QED
    BY <1>0, <2>1, <2>2, <2>3 DEF LinksHeld
<1>9. ASSUME NEW t \in Tokens, Logout(t) \/ Expire(t) PROVE LinksHeld'
  BY <1>9 DEF Logout, Expire, linkVars, LinksHeld
<1>10. ASSUME NEW l \in Links, ExpireLink(l) PROVE LinksHeld'
  BY <1>10 DEF ExpireLink, LinksHeld
<1>11. CASE UNCHANGED vars
  BY <1>11 DEF vars, linkVars, LinksHeld
<1> QED
  BY <1>2, <1>2a, <1>3, <1>4, <1>5, <1>6, <1>7, <1>8, <1>9, <1>10, <1>11
  DEF Next, LoginCheck, OperatorCheck, ImpersonateCheck

LEMMA LinkRefinementInit == Init => ResetLinks!Init
BY DEF Init, Idle, ResetLinks!Init, GoodLinks

\* What touches no link and no reset stutters.
LEMMA LinkStutterOf ==
    ASSUME UNCHANGED linkVars, LinkClaims' = LinkClaims
    PROVE  UNCHANGED ResetLinks!vars
BY DEF ResetLinks!vars, linkVars, GoodLinks, LinkClaims

\* A reset that fails releases its link, any other handler stutters.
LEMMA LinkReleaseOf ==
    ASSUME UNCHANGED linkVars, NEW r \in Requests, LinkClaims' = [LinkClaims EXCEPT ![r] = NoLink]
    PROVE  ResetLinks!Next
<1>1. ResetLinks!Release(r)
  BY DEF ResetLinks!Release, LinkClaims, linkVars, GoodLinks
<1> QED
  BY <1>1 DEF ResetLinks!Next

LEMMA LinkRefinementStep ==
    TypeOK /\ Room /\ LinksHeld /\ [Next]_vars => [ResetLinks!Next]_(ResetLinks!vars)
<1> SUFFICES ASSUME TypeOK, Room, LinksHeld, [Next]_vars PROVE [ResetLinks!Next]_(ResetLinks!vars)
  OBVIOUS
<1>0. Idle.kind = "none" /\ Idle.link = NoLink /\ req \in [Requests -> Request]
  BY DEF Idle, TypeOK
<1>1. ASSUME NEW r \in Requests, NEW rec, Start(r, rec), UNCHANGED linkVars, rec.kind # "reset"
      PROVE  UNCHANGED ResetLinks!vars
  <2>1. LinkClaims' = LinkClaims
    BY <1>0, <1>1 DEF LinkClaims, Start
  <2> QED
    BY <1>1, <2>1, LinkStutterOf
<1>2. ASSUME NEW r \in Requests, NEW u \in Users,
             \/ SignIn(r, u) \/ ForgotRead(r, u) \/ PasswordCheck(r, u)
             \/ EmailRead(r, u) \/ DeleteRead(r, u)
      PROVE  UNCHANGED ResetLinks!vars
  BY <1>1, <1>2 DEF SignIn, ForgotRead, PasswordCheck, EmailRead, DeleteRead, Idle
<1>2a. ASSUME NEW r \in Requests, NEW t \in Tokens, RefreshRead(r, t) PROVE UNCHANGED ResetLinks!vars
  BY <1>1, <1>2a DEF RefreshRead, Idle
\* The read of a reset claims the link, its commit consumes it.
<1>3. ASSUME NEW r \in Requests, NEW l \in Links, ResetRead(r, l) PROVE ResetLinks!Next
  <2> DEFINE rec == [Idle EXCEPT !.step = "change.delete", !.kind = "reset",
                                 !.user = linkOwner[l], !.link = l]
  <2>1. rec.link = l /\ rec.kind = "reset"
    BY DEF Idle
  <2>2. req' = [req EXCEPT ![r] = rec] /\ req[r] = Idle /\ l \in GoodLinks /\ UNCHANGED linkVars
    BY <1>3 DEF ResetRead, Start
  <2> HIDE DEF rec
  <2>3. LinkClaims' = [LinkClaims EXCEPT ![r] = l] /\ LinkClaims[r] = NoLink
    BY <1>0, <2>1, <2>2 DEF LinkClaims
  <2>4. ResetLinks!Claim(r, l)
    BY <2>2, <2>3 DEF ResetLinks!Claim, LinkClaims, GoodLinks, linkVars
  <2> QED
    BY <2>4 DEF ResetLinks!Next
<1>4. ASSUME NEW r \in Requests, LoginFindToken(r) \/ ChangeDelete(r) PROVE UNCHANGED ResetLinks!vars
  <2>1. CASE LoginFindToken(r)
    <3>1. \A x \in Requests : req'[x].kind = req[x].kind /\ req'[x].link = req[x].link
      BY <1>0, <2>1 DEF LoginFindToken, Request
    <3> QED
      BY <2>1, <3>1, LinkStutterOf DEF LoginFindToken, LinkClaims
  <2>2. CASE ChangeDelete(r)
    <3>1. \A x \in Requests : req'[x].kind = req[x].kind /\ req'[x].link = req[x].link
      BY <1>0, <2>2 DEF ChangeDelete, Request
    <3> QED
      BY <2>2, <3>1, LinkStutterOf DEF ChangeDelete, LinkClaims
  <2> QED
    BY <1>4, <2>1, <2>2
<1>5. ASSUME NEW r \in Requests, LoginCommit(r) \/ RefreshCommit(r) \/ DeleteCommit(r) \/ Abort(r)
      PROVE  ResetLinks!Next
  <2>1. req' = [req EXCEPT ![r] = Idle] /\ UNCHANGED linkVars
    BY <1>5 DEF LoginCommit, RefreshCommit, DeleteCommit, Abort
  <2>2. LinkClaims' = [LinkClaims EXCEPT ![r] = NoLink]
    BY <1>0, <2>1 DEF LinkClaims
  <2> QED
    BY <2>1, <2>2, LinkReleaseOf
<1>6. ASSUME NEW r \in Requests, AbortChange(r) PROVE ResetLinks!Next
  <2>1. /\ \A x \in Requests \ {r} : req'[x].kind = req[x].kind /\ req'[x].link = req[x].link
        /\ req'[r] = Idle
    BY <1>0, <1>6 DEF AbortChange, Request
  <2>2. LinkClaims' = [LinkClaims EXCEPT ![r] = NoLink]
    BY <1>0, <2>1 DEF LinkClaims
  <2> QED
    BY <1>6, <2>2, LinkReleaseOf DEF AbortChange
<1>7. ASSUME NEW r \in Requests, ChangeCommit(r) PROVE ResetLinks!Next
  <2> DEFINE l == req[r].link
  <2>1. /\ req' = [req EXCEPT ![r] = Idle] /\ UNCHANGED <<issued, linkOf, linkOwner, linkExpired>>
        /\ linkUsed' = linkUsed \cup ({l} \cap {linkOf[req[r].user]} \cap issued)
        /\ redeemed' = redeemed \cup ({l} \cap issued)
    BY <1>7 DEF ChangeCommit
  <2>2. LinkClaims' = [LinkClaims EXCEPT ![r] = NoLink]
    BY <1>0, <2>1 DEF LinkClaims
  <2>3. CASE req[r].kind # "reset"
    <3>1. l = NoLink /\ NoLink \notin issued
      BY <2>3, NoneAssumption DEF LinksHeld, TypeOK
    <3>2. UNCHANGED linkVars
      BY <2>1, <3>1 DEF linkVars
    <3> QED
      BY <2>2, <3>2, LinkReleaseOf
  <2>4. CASE req[r].kind = "reset"
    <3>1. l \in issued /\ linkOwner[l] = req[r].user /\ l # NoLink
      BY <2>4, NoneAssumption DEF LinksHeld, TypeOK
    <3>2. GoodLinks' = GoodLinks \ {l}
      BY <2>1, <3>1 DEF GoodLinks
    <3>3. GoodLinks \subseteq issued /\ issued \subseteq Links /\ redeemed' = redeemed \cup {l}
      BY <2>1, <3>1 DEF GoodLinks, TypeOK
    <3>4. ResetLinks!Turnover({}, {} \cup {l})
      BY <2>1, <3>2, <3>3 DEF ResetLinks!Turnover
    <3>5. LinkClaims[r] = l
      BY <2>4 DEF LinkClaims
    <3>6. ResetLinks!Consume(r)
      BY <2>2, <3>1, <3>3, <3>4, <3>5 DEF ResetLinks!Consume, LinkClaims
    <3> QED
      BY <3>6 DEF ResetLinks!Next
  <2> QED
    BY <2>3, <2>4
\* A new link replaces the one its account had.
<1>8. ASSUME NEW r \in Requests, ForgotCommit(r) PROVE ResetLinks!Next
  <2>1. PICK l \in Links \ issued : /\ issued' = issued \cup {l}
                                    /\ linkOwner' = [linkOwner EXCEPT ![l] = req[r].user]
                                    /\ linkOf' = [linkOf EXCEPT ![req[r].user] = l]
    BY <1>8 DEF ForgotCommit
  <2>2. /\ req' = [req EXCEPT ![r] = Idle] /\ UNCHANGED <<linkUsed, linkExpired, redeemed>>
        /\ req[r].step = "forgot.commit" /\ req[r].user \in Users
    BY <1>8 DEF ForgotCommit, Room
  <2>3. LinkClaims' = LinkClaims
    BY <1>0, <2>2 DEF LinkClaims, LinksHeld
  <2>4. GoodLinks' \subseteq GoodLinks \cup {l} /\ GoodLinks \subseteq issued
    BY <2>1, <2>2 DEF GoodLinks, TypeOK
  <2> DEFINE old == (GoodLinks \cup {l}) \ GoodLinks'
  <2>5. old \in SUBSET Links /\ {l} \in SUBSET Links
    BY <2>1, <2>4 DEF TypeOK
  <2>6. ResetLinks!Turnover({l}, old)
    BY <2>1, <2>4 DEF ResetLinks!Turnover
  <2>7. ResetLinks!Manage
    BY <2>2, <2>3, <2>5, <2>6 DEF ResetLinks!Manage, LinkClaims
  <2> QED
    BY <2>7 DEF ResetLinks!Next
<1>9. ASSUME NEW t \in Tokens, Logout(t) \/ Expire(t) PROVE UNCHANGED ResetLinks!vars
  BY <1>9, LinkStutterOf DEF Logout, Expire, LinkClaims
<1>10. ASSUME NEW l \in Links, ExpireLink(l) PROVE ResetLinks!Next
  <2>1. GoodLinks' = GoodLinks \ {l} /\ GoodLinks \subseteq issued /\ issued' = issued
    BY <1>10 DEF ExpireLink, GoodLinks
  <2>2. ResetLinks!Turnover({}, {l}) /\ {} \in SUBSET Links /\ {l} \in SUBSET Links
    BY <2>1 DEF ResetLinks!Turnover
  <2>3. ResetLinks!Manage
    BY <1>10, <2>2 DEF ResetLinks!Manage, ExpireLink
  <2> QED
    BY <2>3 DEF ResetLinks!Next
<1>11. CASE UNCHANGED vars
  BY <1>11, LinkStutterOf DEF vars, LinkClaims
<1> QED
  BY <1>2, <1>2a, <1>3, <1>4, <1>5, <1>6, <1>7, <1>8, <1>9, <1>10, <1>11
  DEF Next, LoginCheck, OperatorCheck, ImpersonateCheck

\* Every behaviour of the reset links is a behaviour of one-time tokens: setting
\* a password consumes the link, and nothing makes it good again.
THEOREM LinksImplementOneTime == Spec => LinksAreOneTime
<1>1. Init => LinksHeld
  BY DEF Init, Idle, LinksHeld
<1>2. IInv => TypeOK /\ Room
  BY DEF IInv, Base
<1> QED
  BY <1>1, <1>2, LinksHeldStep, LinkRefinementInit, LinkRefinementStep, InitIInv, StepIInv, PTL
  DEF Spec, LinksAreOneTime, ResetLinks!Spec

------------------------------------------------------------------------------
(***************************************************************************)
(* A settled deletion is final.                                            *)
(***************************************************************************)

\* Whoever replaces credentials is one of the three handlers that do.
ChangesHaveKind == \A r \in Requests :
    req[r].step \in {"change.delete", "change.commit"} => req[r].kind # "none"

LEMMA ChangesHaveKindStep == TypeOK /\ ChangesHaveKind /\ [Next]_vars => ChangesHaveKind'
<1> SUFFICES ASSUME TypeOK, ChangesHaveKind, [Next]_vars PROVE ChangesHaveKind'
  OBVIOUS
<1>0. req \in [Requests -> Request]
  BY DEF TypeOK
<1> USE DEF ChangesHaveKind
\* A handler begins, goes on or ends.
<1>1. ASSUME NEW r \in Requests, NEW rec, req' = [req EXCEPT ![r] = rec],
             rec.step \in {"change.delete", "change.commit"} => rec.kind # "none"
      PROVE  ChangesHaveKind'
  BY <1>0, <1>1
<1>2. ASSUME NEW r \in Requests, NEW u \in Users,
             \/ SignIn(r, u) \/ ForgotRead(r, u) \/ PasswordCheck(r, u)
             \/ EmailRead(r, u) \/ DeleteRead(r, u)
      PROVE  ChangesHaveKind'
  BY <1>1, <1>2 DEF SignIn, ForgotRead, PasswordCheck, EmailRead, DeleteRead, Start, Idle
<1>3. ASSUME NEW r \in Requests, NEW t \in Tokens, RefreshRead(r, t) PROVE ChangesHaveKind'
  BY <1>1, <1>3 DEF RefreshRead, Start, Idle
<1>4. ASSUME NEW r \in Requests, NEW l \in Links, ResetRead(r, l) PROVE ChangesHaveKind'
  BY <1>1, <1>4 DEF ResetRead, Start, Idle
<1>5. ASSUME NEW r \in Requests, LoginFindToken(r) PROVE ChangesHaveKind'
  <2>1. \A x \in Requests : req'[x].step \in {"change.delete", "change.commit"} => req'[x] = req[x]
    BY <1>0, <1>5 DEF LoginFindToken, Request
  <2> QED
    BY <2>1
<1>6. ASSUME NEW r \in Requests,
             \/ LoginCommit(r) \/ RefreshCommit(r) \/ ForgotCommit(r) \/ DeleteCommit(r)
             \/ ChangeCommit(r) \/ Abort(r)
      PROVE  ChangesHaveKind'
  BY <1>1, <1>6 DEF LoginCommit, RefreshCommit, ForgotCommit, DeleteCommit, ChangeCommit, Abort, Idle
<1>7. ASSUME NEW r \in Requests, ChangeDelete(r) PROVE ChangesHaveKind'
  <2>1. \A x \in Requests : req'[x].kind = req[x].kind
                             /\ (x # r => req'[x].step = req[x].step)
    BY <1>0, <1>7 DEF ChangeDelete, Request
  <2> QED
    BY <1>7, <2>1 DEF ChangeDelete
<1>8. ASSUME NEW r \in Requests, AbortChange(r) PROVE ChangesHaveKind'
  <2>1. /\ \A x \in Requests \ {r} : req'[x].kind = req[x].kind /\ req'[x].step = req[x].step
        /\ req'[r] = Idle
    BY <1>0, <1>8 DEF AbortChange, Request
  <2> QED
    BY <2>1 DEF Idle
<1>9. CASE \/ \E t \in Tokens : Logout(t) \/ Expire(t)
           \/ \E l \in Links : ExpireLink(l)
           \/ UNCHANGED vars
  BY <1>9 DEF Logout, Expire, ExpireLink, vars
<1> QED
  BY <1>2, <1>3, <1>4, <1>5, <1>6, <1>7, <1>8, <1>9 DEF Next, LoginCheck, OperatorCheck, ImpersonateCheck

\* Nothing a handler's record says touches a settled account.
Harmless(rec, u) == rec.user = u =>
    /\ rec.step \notin {"login.tx", "login.commit", "forgot.commit"}
    /\ rec.kind \notin {"password", "reset"}

\* What a step must leave alone for the deletion to stay settled.
LEMMA SettledOf ==
    ASSUME NEW u \in Users, Settled(u), u \in deleted' \cap anonymised',
           \A l \in GoodLinks' : linkOwner'[l] = u => l \in GoodLinks /\ linkOwner[l] = u,
           \A x \in Requests : Harmless(req[x], u) => Harmless(req'[x], u)
    PROVE  Settled(u)'
BY DEF Settled, Harmless

\* The part of a step that begins or ends one handler.
LEMMA SettledHandler ==
    ASSUME NEW u \in Users, Settled(u), u \in deleted' \cap anonymised',
           \A l \in GoodLinks' : linkOwner'[l] = u => l \in GoodLinks /\ linkOwner[l] = u,
           req \in [Requests -> Request],
           NEW r \in Requests, NEW rec, req' = [req EXCEPT ![r] = rec], Harmless(rec, u)
    PROVE  Settled(u)'
BY SettledOf

LEMMA SettledStep ==
    ASSUME IInv, LinksHeld, ChangesHaveKind, [Next]_vars, NEW u \in Users, Settled(u)
    PROVE  /\ Settled(u)'
           /\ \A t \in minted' \ minted : owner'[t] = u => parent'[t] \in minted
<1> DEFINE Goal == /\ Settled(u)'
                   /\ \A t \in minted' \ minted : owner'[t] = u => parent'[t] \in minted
<1>0. /\ TypeOK /\ Room /\ Owned /\ Lineage
      /\ req \in [Requests -> Request]
      /\ u \in deleted /\ u \in anonymised
      /\ \A l \in GoodLinks : linkOwner[l] # u
      /\ \A x \in Requests : Harmless(req[x], u)
  BY DEF IInv, Base, TypeOK, Settled, Harmless
<1>i. Idle.step = "idle" /\ Idle.kind = "none" /\ Harmless(Idle, u)
  BY DEF Idle, Harmless
<1> HIDE DEF Goal
\* A handler begins.
<1>1. ASSUME NEW r \in Requests, NEW rec, Start(r, rec), Harmless(rec, u),
             UNCHANGED <<userVars, tokenVars, linkVars>>
      PROVE  Goal
  BY <1>0, <1>1, SettledHandler DEF Goal, Start, userVars, tokenVars, linkVars, GoodLinks
\* Those that read the account find it deleted.
<1>2. ASSUME NEW r \in Requests, NEW v \in Users,
             \/ SignIn(r, v) \/ ForgotRead(r, v) \/ PasswordCheck(r, v)
             \/ EmailRead(r, v) \/ DeleteRead(r, v)
      PROVE  Goal
  BY <1>0, <1>1, <1>2 DEF SignIn, ForgotRead, PasswordCheck, EmailRead, DeleteRead, Idle, Harmless
<1>3. ASSUME NEW r \in Requests, NEW t \in Tokens, RefreshRead(r, t) PROVE Goal
  BY <1>1, <1>3 DEF RefreshRead, Idle, Harmless
\* No link of the account is good.
<1>4. ASSUME NEW r \in Requests, NEW l \in Links, ResetRead(r, l) PROVE Goal
  BY <1>0, <1>1, <1>4 DEF ResetRead, Idle, Harmless
<1>5. ASSUME NEW r \in Requests, LoginFindToken(r) PROVE Goal
  <2>1. req[r].user # u
    BY <1>0, <1>5 DEF LoginFindToken, Harmless
  <2>2. \A x \in Requests : Harmless(req'[x], u)
    BY <1>0, <1>5, <2>1 DEF LoginFindToken, Harmless, Request
  <2>3. Settled(u)'
    BY <1>0, <1>5, <2>2, SettledOf DEF LoginFindToken, userVars, linkVars, GoodLinks
  <2> QED
    BY <1>5, <2>3 DEF Goal, LoginFindToken, tokenVars
\* A login mints for another account ...
<1>6. ASSUME NEW r \in Requests, LoginCommit(r) PROVE Goal
  <2>1. req[r].user # u
    BY <1>0, <1>6 DEF LoginCommit, Harmless
  <2>2. Settled(u)'
    BY <1>0, <1>i, <1>6, SettledHandler DEF LoginCommit, userVars, linkVars, GoodLinks
  <2>3. \A t \in minted' \ minted : owner'[t] = req[r].user
    BY <1>0, <1>6 DEF LoginCommit, Mint, TypeOK
  <2> QED
    BY <2>1, <2>2, <2>3 DEF Goal
\* ... and a rotation from a token there was.
<1>7. ASSUME NEW r \in Requests, RefreshCommit(r) PROVE Goal
  <2>1. req[r].token \in minted
    BY <1>0, <1>7 DEF RefreshCommit, Lineage
  <2>2. Settled(u)'
    BY <1>0, <1>i, <1>7, SettledHandler DEF RefreshCommit, userVars, linkVars, GoodLinks
  <2>3. \A t \in minted' \ minted : parent'[t] = req[r].token
    BY <1>0, <1>7 DEF RefreshCommit, Mint, TypeOK
  <2> QED
    BY <2>1, <2>2, <2>3 DEF Goal
\* A new reset link is another account's.
<1>8. ASSUME NEW r \in Requests, ForgotCommit(r) PROVE Goal
  <2>1. req[r].user # u /\ req[r].user \in Users
    BY <1>0, <1>8 DEF ForgotCommit, Harmless, Room
  <2>2. PICK l \in Links \ issued : /\ issued' = issued \cup {l}
                                    /\ linkOwner' = [linkOwner EXCEPT ![l] = req[r].user]
                                    /\ linkOf' = [linkOf EXCEPT ![req[r].user] = l]
    BY <1>8 DEF ForgotCommit
  <2>3. UNCHANGED <<linkUsed, linkExpired>>
    BY <1>8 DEF ForgotCommit
  <2>4. linkOf \in [Users -> issued \cup {NoLink}] /\ linkOwner \in [Links -> Users \cup {NoUser}]
        /\ issued \subseteq Links
    BY <1>0 DEF TypeOK
  <2>5. ASSUME NEW k \in GoodLinks', linkOwner'[k] = u PROVE k \in GoodLinks /\ linkOwner[k] = u
    <3>1. k \in issued' /\ k = linkOf'[u] /\ k \notin linkUsed \cup linkExpired
      BY <2>3, <2>5 DEF GoodLinks
    <3>2. k # l
      BY <2>1, <2>2, <2>4, <2>5
    <3>3. k \in issued /\ linkOwner[k] = u /\ k = linkOf[u]
      BY <2>1, <2>2, <2>4, <2>5, <3>1, <3>2
    <3> QED
      BY <3>1, <3>3 DEF GoodLinks
  <2>6. Settled(u)'
    BY <1>0, <1>i, <1>8, <2>5, SettledHandler DEF ForgotCommit, userVars
  <2> QED
    BY <1>8, <2>6 DEF Goal, ForgotCommit, tokenVars
<1>9. ASSUME NEW r \in Requests, ChangeDelete(r) PROVE Goal
  <2>1. \A x \in Requests : /\ req'[x].user = req[x].user /\ req'[x].kind = req[x].kind
                            /\ req'[x].step \in {req[x].step, "change.commit"}
    BY <1>0, <1>9 DEF ChangeDelete, Request
  <2>2. \A x \in Requests : Harmless(req'[x], u)
    BY <1>0, <2>1 DEF Harmless
  <2>3. Settled(u)'
    BY <1>0, <1>9, <2>2, SettledOf DEF ChangeDelete, userVars, linkVars, GoodLinks
  <2> QED
    BY <1>9, <2>3 DEF Goal, ChangeDelete, tokenVars
\* A change of the account's own credentials can only be of its e-mail.
<1>10. ASSUME NEW r \in Requests, ChangeCommit(r) PROVE Goal
  <2>1. req[r].user = u => req[r].kind = "email"
    <3>1. req[r].kind # "none" /\ req[r].kind \in {"none", "password", "email", "reset"}
      BY <1>0, <1>10 DEF ChangeCommit, ChangesHaveKind, Request
    <3> QED
      BY <1>0, <3>1 DEF Harmless
  <2>2. u \in anonymised' /\ u \in deleted'
    BY <1>0, <1>10, <2>1 DEF ChangeCommit
  <2>3. GoodLinks' \subseteq GoodLinks /\ linkOwner' = linkOwner
    BY <1>10 DEF ChangeCommit, GoodLinks
  <2>4. Settled(u)'
    BY <1>0, <1>i, <1>10, <2>2, <2>3, SettledHandler DEF ChangeCommit
  <2> QED
    BY <1>10, <2>4 DEF Goal, ChangeCommit
<1>11. ASSUME NEW r \in Requests, DeleteCommit(r) \/ Abort(r) PROVE Goal
  <2>1. /\ req' = [req EXCEPT ![r] = Idle] /\ UNCHANGED <<tokenVars, linkVars>>
        /\ u \in deleted' /\ u \in anonymised'
    BY <1>0, <1>11 DEF DeleteCommit, Abort, userVars
  <2> QED
    BY <1>0, <1>i, <2>1, SettledHandler DEF Goal, tokenVars, linkVars, GoodLinks
<1>12. ASSUME NEW r \in Requests, AbortChange(r) PROVE Goal
  <2>1. /\ \A x \in Requests \ {r} : /\ req'[x].user = req[x].user /\ req'[x].kind = req[x].kind
                                      /\ req'[x].step = req[x].step
        /\ req'[r] = Idle
    BY <1>0, <1>12 DEF AbortChange, Request
  <2>2. \A x \in Requests : Harmless(req'[x], u)
    BY <1>0, <1>i, <2>1 DEF Harmless
  <2>3. Settled(u)'
    BY <1>0, <1>12, <2>2, SettledOf DEF AbortChange, userVars, linkVars, GoodLinks
  <2> QED
    BY <1>12, <2>3 DEF Goal, AbortChange
<1>13. ASSUME NEW t \in Tokens, Logout(t) \/ Expire(t) PROVE Goal
  <2>1. Settled(u)'
    BY <1>0, <1>13, SettledOf DEF Logout, Expire, userVars, linkVars, GoodLinks
  <2> QED
    BY <1>13, <2>1 DEF Goal, Logout, Expire
<1>14. ASSUME NEW l \in Links, ExpireLink(l) PROVE Goal
  <2>1. GoodLinks' \subseteq GoodLinks
    BY <1>14 DEF ExpireLink, GoodLinks
  <2>2. Settled(u)'
    BY <1>0, <1>14, <2>1, SettledOf DEF ExpireLink, userVars
  <2> QED
    BY <1>14, <2>2 DEF Goal, ExpireLink, tokenVars
<1>15. ASSUME UNCHANGED vars PROVE Goal
  <2>1. Settled(u)'
    BY <1>0, <1>15, SettledOf DEF vars, userVars, linkVars, GoodLinks
  <2> QED
    BY <1>15, <2>1 DEF Goal, vars, tokenVars
<1>16. Goal
  BY <1>2, <1>3, <1>4, <1>5, <1>6, <1>7, <1>8, <1>9, <1>10, <1>11, <1>12, <1>13, <1>14, <1>15
  DEF Next, LoginCheck, OperatorCheck, ImpersonateCheck
<1> QED
  BY <1>16 DEF Goal

\* Once nothing that began before a deletion is left, the account stays without
\* credentials for good and no session of it begins that is not a rotation.
THEOREM DeletionIsFinal == Spec => SettledDeletionIsFinal
<1>1. Init => LinksHeld /\ ChangesHaveKind
  BY DEF Init, Idle, LinksHeld, ChangesHaveKind
<1>2. IInv => TypeOK /\ Room
  BY DEF IInv, Base
<1>3. IInv /\ LinksHeld /\ ChangesHaveKind /\ [Next]_vars =>
        [\A u \in Users : Settled(u) =>
            /\ Settled(u)'
            /\ \A t \in minted' \ minted : owner'[t] = u => parent'[t] \in minted]_vars
  BY SettledStep
<1> QED
  BY <1>1, <1>2, <1>3, LinksHeldStep, ChangesHaveKindStep, InitIInv, StepIInv, PTL
  DEF Spec, SettledDeletionIsFinal

==============================================================================
