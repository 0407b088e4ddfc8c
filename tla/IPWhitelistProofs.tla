-------------------------- MODULE IPWhitelistProofs --------------------------
(* Proofs about IPWhitelist, for any admins, rules, tokens and requests. *)
EXTENDS IPWhitelist, TLAPS

USE HomeAssumption, InternalAssumption, StaffAssumption

\* A stale copy of the switches is the only way to undo one, and a token in
\* hand is nobody else's: neither invariant holds step by step without these.
IInv == TypeOK /\ InHand /\ SeenBeforeSet /\ OnlyOverlapUndoes /\ ForcedHasWayOut

\* Requests that read or give up leave the switches as they are meant to be.
LEMMA LookingUndoesNothing ==
    ASSUME SeenBeforeSet, OnlyOverlapUndoes,
           UNCHANGED <<features, meant, overlap>>,
           \A q \in Requests : req'[q].step # "idle" =>
               \/ req'[q].seen = features
               \/ req[q].step # "idle" /\ req'[q].seen = req[q].seen
    PROVE  SeenBeforeSet' /\ OnlyOverlapUndoes'
<1>1. OnlyOverlapUndoes'
  BY DEF OnlyOverlapUndoes
<1>2. ASSUME NEW q \in Requests, req'[q].step # "idle",
             NEW s \in Switches, req'[q].seen[s] # meant'[s]
      PROVE  overlap'[s]
  <2>1. CASE req'[q].seen = features
    BY <1>2, <2>1 DEF OnlyOverlapUndoes
  <2>2. CASE req[q].step # "idle" /\ req'[q].seen = req[q].seen
    BY <1>2, <2>2 DEF SeenBeforeSet
  <2> QED  BY <2>1, <2>2, <1>2
<1> QED  BY <1>1, <1>2 DEF SeenBeforeSet

\* A writer sets its own switches and writes the others back as it has them:
\* whoever is in flight beside it is on record for the former.
LEMMA SavingUndoesOnlyByOverlap ==
    ASSUME TypeOK, SeenBeforeSet, OnlyOverlapUndoes,
           NEW r \in Requests, req[r].step # "idle", Done(r),
           NEW own \in SUBSET Switches, NEW value \in [Switches -> BOOLEAN],
           \A s \in Switches \ own : value[s] = req[r].seen[s],
           Save(r, own, value)
    PROVE  /\ SeenBeforeSet' /\ OnlyOverlapUndoes'
           /\ features' \in [Switches -> BOOLEAN]
           /\ meant' \in [Switches -> BOOLEAN]
           /\ overlap' \in [Switches -> BOOLEAN]
           /\ risks' \subseteq {"overlap", "bypass"}
<1>1. /\ features' \in [Switches -> BOOLEAN]
      /\ meant' \in [Switches -> BOOLEAN]
      /\ overlap' \in [Switches -> BOOLEAN]
      /\ risks' \subseteq {"overlap", "bypass"}
  BY DEF Save, Beside, TypeOK
<1>2. ASSUME NEW s \in own
      PROVE  /\ features'[s] = value[s] /\ meant'[s] = value[s]
             /\ overlap'[s] = (\E q \in Requests \ {r} : req[q].step # "idle")
  BY DEF Save, Beside
<1>3. ASSUME NEW s \in Switches \ own
      PROVE  /\ features'[s] = req[r].seen[s]
             /\ meant'[s] = meant[s] /\ overlap'[s] = overlap[s]
  BY DEF Save
<1>4. req'[r].step = "idle" /\ \A q \in Requests \ {r} : req'[q] = req[q]
  BY DEF Done, Idle, TypeOK
<1>5. ASSUME NEW s \in Switches, features'[s] # meant'[s]
      PROVE  overlap'[s]
  <2>1. s \notin own
    BY <1>2, <1>5
  <2>2. req[r].seen[s] # meant[s] /\ overlap'[s] = overlap[s]
    BY <1>3, <1>5, <2>1
  <2> QED  BY <2>2 DEF SeenBeforeSet
<1>6. ASSUME NEW q \in Requests, req'[q].step # "idle",
             NEW s \in Switches, req'[q].seen[s] # meant'[s]
      PROVE  overlap'[s]
  <2>1. q # r /\ req[q].step # "idle" /\ req'[q] = req[q]
    BY <1>4, <1>6
  <2>2. CASE s \in own
    BY <1>2, <2>1, <2>2
  <2>3. CASE s \notin own
    BY <1>3, <1>6, <2>1, <2>3 DEF SeenBeforeSet
  <2> QED  BY <2>2, <2>3
<1>7. SeenBeforeSet'
  BY <1>6 DEF SeenBeforeSet
<1> QED  BY <1>1, <1>5, <1>7 DEF OnlyOverlapUndoes

LEMMA IdleIsRequest == Idle \in Request
<1> DEFINE a == CHOOSE x \in Addresses : TRUE
<1>1. a \in Addresses
  OBVIOUS
<1>2. Off \in [Switches -> BOOLEAN]
  BY DEF Off
<1> HIDE DEF a
<1> QED  BY <1>1, <1>2 DEF Idle, Request, Steps

\* A request that moves on: its new record is typed, the others stay.
LEMMA Moves ==
    ASSUME TypeOK, NEW r \in Requests, NEW rec \in Request,
           req' = [req EXCEPT ![r] = rec]
    PROVE  /\ req' \in [Requests -> Request]
           /\ req'[r] = rec
           /\ \A q \in Requests : q # r => req'[q] = req[q]
BY DEF TypeOK

LEMMA InitEstablishes == Init => IInv
<1> SUFFICES ASSUME Init PROVE IInv
  OBVIOUS
<1> USE DEF Init
<1>1. \A r \in Requests : req[r].step = "idle"
  BY DEF Idle
<1>2. TypeOK
  BY IdleIsRequest DEF TypeOK, Off
<1>3. InHand /\ SeenBeforeSet
  BY <1>1 DEF InHand, SeenBeforeSet
<1>4. OnlyOverlapUndoes /\ ForcedHasWayOut
  BY DEF OnlyOverlapUndoes, ForcedHasWayOut
<1> QED  BY <1>2, <1>3, <1>4 DEF IInv

\* Steps that only move a request: what they must show is what it has in hand.
LEMMA MovingKeeps ==
    ASSUME IInv, NEW r \in Requests, NEW rec \in Request,
           req' = [req EXCEPT ![r] = rec],
           UNCHANGED <<features, rules, mailed, owner, stored, used, expired, meant,
                       overlap, risks, forcedBy>>,
           rec.step # "idle" => \/ rec.seen = features
                                \/ req[r].step # "idle" /\ rec.seen = req[r].seen,
           rec.step \notin {"idle", "page"} => rec.user \in Admins,
           rec.step # "mailed",
           rec.step = "emergency" => rec.token \in stored
    PROVE  IInv'
<1>1. /\ req' \in [Requests -> Request]
      /\ req'[r] = rec
      /\ \A q \in Requests : q # r => req'[q] = req[q]
  BY Moves DEF IInv
<1>2. TypeOK'
  BY <1>1 DEF IInv, TypeOK
<1>3. InHand'
  BY <1>1 DEF IInv, InHand
<1>4. SeenBeforeSet' /\ OnlyOverlapUndoes'
  BY <1>1, LookingUndoesNothing DEF IInv
<1>5. ForcedHasWayOut'
  BY DEF IInv, ForcedHasWayOut
<1> QED  BY <1>2, <1>3, <1>4, <1>5 DEF IInv

\* Steps that save switches, and may store or spend a token.
LEMMA SavingKeeps ==
    ASSUME IInv, NEW r \in Requests, req[r].step # "idle", Done(r),
           NEW own \in SUBSET Switches, NEW value \in [Switches -> BOOLEAN],
           \A s \in Switches \ own : value[s] = req[r].seen[s],
           Save(r, own, value),
           UNCHANGED <<rules, mailed, owner, expired>>,
           stored \subseteq stored', stored' \subseteq mailed, used' \subseteq stored',
           \A q \in Requests : q # r /\ req[q].step = "mailed" => req[q].token \notin stored',
           forcedBy' \in Jtis \cup {NoToken},
           ForcedHasWayOut'
    PROVE  IInv'
<1>1. /\ req' \in [Requests -> Request]
      /\ req'[r] = Idle
      /\ \A q \in Requests : q # r => req'[q] = req[q]
  BY Moves, IdleIsRequest DEF IInv, Done
<1>2. /\ SeenBeforeSet' /\ OnlyOverlapUndoes'
      /\ features' \in [Switches -> BOOLEAN]
      /\ meant' \in [Switches -> BOOLEAN]
      /\ overlap' \in [Switches -> BOOLEAN]
      /\ risks' \subseteq {"overlap", "bypass"}
  BY SavingUndoesOnlyByOverlap DEF IInv
<1>3. TypeOK'
  BY <1>1, <1>2 DEF IInv, TypeOK
<1>4. InHand'
  BY <1>1 DEF IInv, InHand, Idle
<1> QED  BY <1>2, <1>3, <1>4 DEF IInv

\* Steps that write rules.
LEMMA RulingKeeps ==
    ASSUME IInv, NEW r \in Requests, Done(r),
           rules' \subseteq Rules \X Addresses,
           \A p, q \in rules' : p[1] = q[1] => p = q,
           risks' \subseteq {"overlap", "bypass"},
           UNCHANGED <<features, mailed, owner, stored, used, expired, meant, overlap, forcedBy>>
    PROVE  IInv'
<1>1. /\ req' \in [Requests -> Request]
      /\ req'[r] = Idle
      /\ \A q \in Requests : q # r => req'[q] = req[q]
  BY Moves, IdleIsRequest DEF IInv, Done
<1>2. TypeOK'
  BY <1>1 DEF IInv, TypeOK
<1>3. InHand'
  BY <1>1 DEF IInv, InHand, Idle
<1>4. SeenBeforeSet' /\ OnlyOverlapUndoes'
  BY <1>1, LookingUndoesNothing DEF IInv, Idle
<1>5. ForcedHasWayOut'
  BY DEF IInv, ForcedHasWayOut
<1> QED  BY <1>2, <1>3, <1>4, <1>5 DEF IInv

LEMMA ReadingKeeps ==
    ASSUME IInv, NEW r \in Requests
    PROVE  /\ \A u \in Admins : Context(r, u) => IInv'
           /\ Enter(r) \/ ActivateRead(r) \/ ForceRead(r) => IInv'
           /\ \A a \in Addresses : AddRead(r, a) => IInv'
           /\ \A p \in rules : DeleteRead(r, p) => IInv'
           /\ \A j \in Jtis : EmergencyRead(r, j) => IInv'
           /\ OpenPage(r) \/ Abort(r) => IInv'
<1>1. /\ req[r] \in Request /\ features \in [Switches -> BOOLEAN]
      /\ rules \subseteq Rules \X Addresses
      /\ req[r].step \notin {"idle", "page"} => req[r].user \in Admins
  BY DEF IInv, TypeOK, InHand
<1>2. ASSUME NEW u \in Admins, Context(r, u) PROVE IInv'
  <2> DEFINE rec == [Idle EXCEPT !.step = "context", !.user = u, !.seen = features]
  <2>1. /\ rec \in Request /\ rec.step = "context" /\ rec.user = u
        /\ rec.seen = features
    BY <1>1, IdleIsRequest DEF Request, Steps
  <2>2. req' = [req EXCEPT ![r] = rec]
    BY <1>2 DEF Context
  <2> HIDE DEF rec
  <2> QED  BY <1>2, <2>1, <2>2, MovingKeeps DEF Context
<1>3. ASSUME Enter(r) PROVE IInv'
  <2> DEFINE rec == [req[r] EXCEPT !.step = "inside"]
  <2>1. /\ rec \in Request /\ rec.step = "inside" /\ rec.user = req[r].user
        /\ rec.seen = req[r].seen
    BY <1>1 DEF Request, Steps
  <2>2. req' = [req EXCEPT ![r] = rec] /\ req[r].step = "context"
    BY <1>3 DEF Enter, GoesTo
  <2> HIDE DEF rec
  <2> QED  BY <1>1, <1>3, <2>1, <2>2, MovingKeeps DEF Enter
<1>4. ASSUME NEW step \in {"activate", "force"}, req[r].step = "inside",
             req' = [req EXCEPT ![r].step = step, ![r].seen = features],
             UNCHANGED <<features, rules, mailed, owner, stored, used, expired, meant,
                         overlap, risks, forcedBy>>
      PROVE  IInv'
  <2> DEFINE rec == [req[r] EXCEPT !.step = step, !.seen = features]
  <2>1. /\ rec \in Request /\ rec.step = step /\ rec.user = req[r].user
        /\ rec.seen = features
    BY <1>1 DEF Request, Steps
  <2>2. req' = [req EXCEPT ![r] = rec]
    BY <1>4 DEF IInv, TypeOK
  <2> HIDE DEF rec
  <2> QED  BY <1>1, <1>4, <2>1, <2>2, MovingKeeps
<1>5. ActivateRead(r) => IInv'
  BY <1>4 DEF ActivateRead
<1>6. ForceRead(r) => IInv'
  BY <1>4 DEF ForceRead
<1>7. ASSUME NEW a \in Addresses, AddRead(r, a) PROVE IInv'
  <2> DEFINE rec == [req[r] EXCEPT !.step = "add", !.address = a]
  <2>1. /\ rec \in Request /\ rec.step = "add" /\ rec.user = req[r].user
        /\ rec.seen = req[r].seen
    BY <1>1 DEF Request, Steps
  <2>2. req' = [req EXCEPT ![r] = rec] /\ req[r].step = "inside"
    BY <1>7 DEF AddRead, IInv, TypeOK
  <2> HIDE DEF rec
  <2> QED  BY <1>1, <1>7, <2>1, <2>2, MovingKeeps DEF AddRead
<1>8. ASSUME NEW p \in rules, DeleteRead(r, p) PROVE IInv'
  <2> DEFINE rec == [req[r] EXCEPT !.step = "delete", !.rule = p[1]]
  <2>1. /\ rec \in Request /\ rec.step = "delete" /\ rec.user = req[r].user
        /\ rec.seen = req[r].seen
    BY <1>1 DEF Request, Steps
  <2>2. req' = [req EXCEPT ![r] = rec] /\ req[r].step = "inside"
    BY <1>8 DEF DeleteRead, IInv, TypeOK
  <2> HIDE DEF rec
  <2> QED  BY <1>1, <1>8, <2>1, <2>2, MovingKeeps DEF DeleteRead
<1>9. ASSUME NEW j \in Jtis, EmergencyRead(r, j) PROVE IInv'
  <2> DEFINE rec == [req[r] EXCEPT !.step = "emergency", !.token = j, !.seen = features]
  <2>1. /\ rec \in Request /\ rec.step = "emergency" /\ rec.user = req[r].user
        /\ rec.seen = features /\ rec.token = j
    BY <1>1 DEF Request, Steps
  <2>2. /\ req' = [req EXCEPT ![r] = rec] /\ req[r].step = "context"
        /\ j \in stored
    BY <1>9 DEF EmergencyRead, IInv, TypeOK, Usable
  <2> HIDE DEF rec
  <2> QED  BY <1>1, <1>9, <2>1, <2>2, MovingKeeps DEF EmergencyRead
<1>10. ASSUME OpenPage(r) PROVE IInv'
  <2> DEFINE rec == [Idle EXCEPT !.step = "page", !.user = Staff, !.seen = features]
  <2>1. rec \in Request /\ rec.step = "page" /\ rec.seen = features
    BY <1>1, IdleIsRequest DEF Request, Steps
  <2>2. req' = [req EXCEPT ![r] = rec]
    BY <1>10 DEF OpenPage
  <2> HIDE DEF rec
  <2> QED  BY <1>10, <2>1, <2>2, MovingKeeps DEF OpenPage
<1>11. ASSUME Abort(r) PROVE IInv'
  BY <1>11, IdleIsRequest, MovingKeeps DEF Abort, Done, Idle
<1> QED  BY <1>2, <1>3, <1>5, <1>6, <1>7, <1>8, <1>9, <1>10, <1>11

LEMMA SwitchingKeeps ==
    ASSUME IInv, NEW r \in Requests
    PROVE  /\ ActivateCommit(r) \/ Deactivate(r) \/ SavePage(r) => IInv'
           /\ ForceCommit(r) \/ EmergencyCommit(r) => IInv'
<1>1. /\ req[r] \in Request /\ req[r].seen \in [Switches -> BOOLEAN]
      /\ used \subseteq stored /\ stored \subseteq mailed /\ mailed \subseteq Jtis
      /\ \A j \in mailed : owner[j] \in Admins
      /\ forcedBy \in Jtis \cup {NoToken}
  BY DEF IInv, TypeOK, Request
<1>2. \A q \in Requests : req[q].step = "mailed" => req[q].token \notin stored
  BY DEF IInv, InHand
<1>3. ASSUME NEW b \in BOOLEAN
      PROVE  LET value == [req[r].seen EXCEPT !["active"] = b]
             IN  /\ value \in [Switches -> BOOLEAN]
                 /\ \A s \in Switches \ {"active"} : value[s] = req[r].seen[s]
  BY <1>1
<1>4. {"active"} \in SUBSET Switches /\ {"enabled", "bypass"} \in SUBSET Switches
  BY DEF Switches
<1>5. ASSUME ActivateCommit(r) PROVE IInv'
  <2>1. ForcedHasWayOut'
    BY <1>5 DEF ActivateCommit, IInv, ForcedHasWayOut
  <2>2. /\ req[r].step # "idle" /\ Done(r)
        /\ Save(r, {"active"}, [req[r].seen EXCEPT !["active"] = TRUE])
        /\ UNCHANGED <<rules, mailed, owner, stored, used, expired, forcedBy>>
    BY <1>5 DEF ActivateCommit
  <2> QED  BY <1>1, <1>2, <1>3, <1>4, <2>1, <2>2, SavingKeeps
<1>6. ASSUME Deactivate(r) PROVE IInv'
  <2>1. ForcedHasWayOut'
    BY <1>6 DEF Deactivate, ForcedHasWayOut
  <2>2. /\ req[r].step # "idle" /\ Done(r)
        /\ Save(r, {"active"}, [req[r].seen EXCEPT !["active"] = FALSE])
        /\ UNCHANGED <<rules, mailed, owner, stored, used, expired>>
        /\ forcedBy' = NoToken
    BY <1>6 DEF Deactivate
  <2> QED  BY <1>1, <1>2, <1>3, <1>4, <2>1, <2>2, SavingKeeps
<1>7. ASSUME SavePage(r) PROVE IInv'
  <2>1. ForcedHasWayOut'
    BY <1>7 DEF SavePage, IInv, ForcedHasWayOut
  <2>2. PICK on \in BOOLEAN, bypass \in BOOLEAN :
           Save(r, {"enabled", "bypass"},
                [req[r].seen EXCEPT !["enabled"] = on, !["bypass"] = bypass])
    BY <1>7 DEF SavePage
  <2> DEFINE value == [req[r].seen EXCEPT !["enabled"] = on, !["bypass"] = bypass]
  <2>3. /\ value \in [Switches -> BOOLEAN]
        /\ \A s \in Switches \ {"enabled", "bypass"} : value[s] = req[r].seen[s]
        /\ Save(r, {"enabled", "bypass"}, value)
    BY <1>1, <2>2
  <2>4. /\ req[r].step # "idle" /\ Done(r)
        /\ UNCHANGED <<rules, mailed, owner, stored, used, expired, forcedBy>>
    BY <1>7 DEF SavePage
  <2> HIDE DEF value
  <2> QED  BY <1>1, <1>2, <1>4, <2>1, <2>3, <2>4, SavingKeeps
<1>8. ASSUME ForceCommit(r) PROVE IInv'
  <2>1. /\ req[r].step = "mailed" /\ req[r].step # "idle" /\ Done(r)
        /\ Save(r, {"active"}, [req[r].seen EXCEPT !["active"] = TRUE])
        /\ UNCHANGED <<rules, mailed, owner, used, expired>>
        /\ stored' = stored \cup {req[r].token} /\ forcedBy' = req[r].token
    BY <1>8 DEF ForceCommit
  <2>2. req[r].token \in mailed \ stored
    BY <2>1 DEF IInv, InHand
  <2>3. \A q \in Requests : q # r /\ req[q].step = "mailed" => req[q].token \notin stored'
    BY <1>2, <2>1 DEF IInv, InHand
  <2>4. ForcedHasWayOut'
    BY <1>1, <2>1, <2>2 DEF ForcedHasWayOut
  <2>5. /\ stored \subseteq stored' /\ stored' \subseteq mailed /\ used' \subseteq stored'
        /\ forcedBy' \in Jtis \cup {NoToken}
    BY <1>1, <2>1, <2>2
  <2> DEFINE value == [req[r].seen EXCEPT !["active"] = TRUE]
  <2>6. /\ value \in [Switches -> BOOLEAN]
        /\ \A s \in Switches \ {"active"} : value[s] = req[r].seen[s]
        /\ Save(r, {"active"}, value)
    BY <1>3, <2>1
  <2> HIDE DEF value
  <2> QED  BY <1>4, <2>1, <2>3, <2>4, <2>5, <2>6, SavingKeeps
<1>9. ASSUME EmergencyCommit(r) PROVE IInv'
  <2>1. /\ req[r].step = "emergency" /\ req[r].step # "idle" /\ Done(r)
        /\ Save(r, {"active"}, [req[r].seen EXCEPT !["active"] = FALSE])
        /\ UNCHANGED <<rules, mailed, owner, stored, expired>>
        /\ used' = used \cup {req[r].token} /\ forcedBy' = NoToken
    BY <1>9 DEF EmergencyCommit
  <2>2. req[r].token \in stored
    BY <2>1 DEF IInv, InHand
  <2>3. ForcedHasWayOut'
    BY <2>1 DEF ForcedHasWayOut
  <2>4. /\ stored \subseteq stored' /\ stored' \subseteq mailed /\ used' \subseteq stored'
        /\ forcedBy' \in Jtis \cup {NoToken}
    BY <1>1, <2>1, <2>2
  <2> DEFINE value == [req[r].seen EXCEPT !["active"] = FALSE]
  <2>5. /\ value \in [Switches -> BOOLEAN]
        /\ \A s \in Switches \ {"active"} : value[s] = req[r].seen[s]
        /\ Save(r, {"active"}, value)
    BY <1>3, <2>1
  <2> HIDE DEF value
  <2> QED  BY <1>2, <1>4, <2>1, <2>3, <2>4, <2>5, SavingKeeps
<1> QED  BY <1>5, <1>6, <1>7, <1>8, <1>9

LEMMA MailingKeeps ==
    ASSUME IInv, NEW r \in Requests, NEW j \in Jtis, MailToken(r, j)
    PROVE  IInv'
<1> DEFINE rec == [req[r] EXCEPT !.step = "mailed", !.token = j]
<1>1. /\ req[r] \in Request /\ req[r].user \in Admins /\ req[r].step # "idle"
  BY DEF IInv, TypeOK, InHand, MailToken
<1>2. /\ rec \in Request /\ rec.step = "mailed" /\ rec.user = req[r].user
      /\ rec.seen = req[r].seen /\ rec.token = j
  BY <1>1 DEF Request, Steps
<1>3. /\ j \notin mailed /\ mailed' = mailed \cup {j}
      /\ owner' = [owner EXCEPT ![j] = req[r].user]
      /\ UNCHANGED <<features, rules, stored, used, expired, meant, overlap, risks, forcedBy>>
  BY DEF MailToken
<1>4. req' = [req EXCEPT ![r] = rec]
  BY DEF MailToken, IInv, TypeOK
<1> HIDE DEF rec
<1>5. /\ req' \in [Requests -> Request]
      /\ req'[r] = rec
      /\ \A q \in Requests : q # r => req'[q] = req[q]
  BY <1>2, <1>4, Moves DEF IInv
<1>6. owner' \in [Jtis -> Admins \cup {NoUser}] /\ \A i \in mailed' : owner'[i] \in Admins
  BY <1>1, <1>3 DEF IInv, TypeOK
<1>7. TypeOK'
  BY <1>3, <1>5, <1>6 DEF IInv, TypeOK
<1>8. InHand'
  BY <1>1, <1>2, <1>3, <1>5 DEF IInv, InHand, TypeOK
<1>9. SeenBeforeSet' /\ OnlyOverlapUndoes'
  BY <1>1, <1>2, <1>3, <1>5, LookingUndoesNothing DEF IInv
<1>10. ForcedHasWayOut'
  BY <1>3, <1>6 DEF IInv, ForcedHasWayOut, TypeOK
<1> QED  BY <1>7, <1>8, <1>9, <1>10 DEF IInv

LEMMA RuleWritingKeeps ==
    ASSUME IInv, NEW r \in Requests
    PROVE  AddCommit(r) \/ DeleteCommit(r) => IInv'
<1>1. /\ rules \subseteq Rules \X Addresses
      /\ \A p, q \in rules : p[1] = q[1] => p = q
      /\ req[r].address \in Addresses
      /\ risks \subseteq {"overlap", "bypass"}
  BY DEF IInv, TypeOK, Request
<1>2. ASSUME AddCommit(r) PROVE IInv'
  <2>1. PICK id \in Rules : ~Known(id) /\ rules' = rules \cup {<<id, req[r].address>>}
    BY <1>2 DEF AddCommit
  <2>2. \A p \in rules : p[1] # id
    BY <2>1 DEF Known
  <2>3. /\ rules' \subseteq Rules \X Addresses
        /\ \A p, q \in rules' : p[1] = q[1] => p = q
    BY <1>1, <2>1, <2>2
  <2> QED  BY <1>1, <1>2, <2>3, RulingKeeps DEF AddCommit
<1>3. ASSUME DeleteCommit(r) PROVE IInv'
  <2>1. rules' \subseteq rules /\ risks' \subseteq {"overlap", "bypass"}
    BY <1>1, <1>3 DEF DeleteCommit
  <2> QED  BY <1>1, <1>3, <2>1, RulingKeeps DEF DeleteCommit
<1> QED  BY <1>2, <1>3

LEMMA StepKeeps == IInv /\ [Next]_vars => IInv'
<1> SUFFICES ASSUME IInv, [Next]_vars PROVE IInv'
  OBVIOUS
<1>1. ASSUME NEW j \in Jtis, Expire(j) PROVE IInv'
  <2>1. TypeOK' /\ InHand' /\ ForcedHasWayOut'
    BY <1>1 DEF Expire, IInv, TypeOK, InHand, ForcedHasWayOut
  <2>2. SeenBeforeSet' /\ OnlyOverlapUndoes'
    BY <1>1 DEF Expire, IInv, SeenBeforeSet, OnlyOverlapUndoes
  <2> QED  BY <2>1, <2>2 DEF IInv
<1>2. CASE UNCHANGED vars
  BY <1>2 DEF vars, IInv, TypeOK, InHand, SeenBeforeSet, OnlyOverlapUndoes, ForcedHasWayOut
<1>3. CASE Next
  BY <1>1, <1>3, ReadingKeeps, SwitchingKeeps, MailingKeeps, RuleWritingKeeps DEF Next
<1> QED  BY <1>2, <1>3

LEMMA Invariance == Spec => []IInv
BY InitEstablishes, StepKeeps, PTL DEF Spec

\* The switches, rules, tokens and requests are well typed: used and expired
\* tokens have rows, rows were mailed, rules differ by their identifiers.
THEOREM WhitelistTypes == Spec => []TypeOK
BY Invariance, PTL DEF IInv

\* Only a writer that was in flight when a switch was set can undo it.
THEOREM UndoneByOverlapOnly == Spec => []OnlyOverlapUndoes
BY Invariance, PTL DEF IInv

\* A forced activation in force has an unused token with a row.
THEOREM ForcedCanBeLifted == Spec => []ForcedHasWayOut
BY Invariance, PTL DEF IInv

------------------------------------------------------------------------------
(***************************************************************************)
(* Nobody shuts everybody out.                                             *)
(***************************************************************************)

\* What a request in flight has read still holds.
StillSo(r) ==
    /\ req[r].step # "idle" => req[r].seen = features
    /\ req[r].step = "activate" => Listed(Home[req[r].user])
    /\ req[r].step = "delete" /\ features["active"] =>
          \A p \in rules : p[1] = req[r].rule => p[2] # Home[req[r].user]

\* Unless requests have overlapped since the whitelist was last off, what all of
\* them have read still holds.
NothingStale == "overlap" \notin risks => \A r \in Requests : StillSo(r)

SInv == NothingStale /\ ShutOutOnlyForced

\* A request that moves on, with what it has read now or before.
LEMMA MovingShutsNobodyOut ==
    ASSUME TypeOK, SInv, NEW r \in Requests,
           \A q \in Requests \ {r} : req'[q] = req[q],
           UNCHANGED <<features, rules, risks, forcedBy>>,
           "overlap" \notin risks => StillSo(r)'
    PROVE  SInv'
<1>1. ShutOutOnlyForced'
  BY DEF SInv, ShutOutOnlyForced, ShutOut, Listed
<1>2. ASSUME "overlap" \notin risks, NEW q \in Requests PROVE StillSo(q)'
  <2>1. CASE q = r
    BY <1>2, <2>1
  <2>2. CASE q # r
    <3>1. StillSo(q)
      BY <1>2 DEF SInv, NothingStale
    <3> QED  BY <2>2, <3>1 DEF StillSo, Listed
  <2> QED  BY <2>1, <2>2
<1> QED  BY <1>1, <1>2 DEF SInv, NothingStale

\* A request that ends after a commit: if it was alone nothing is in flight.
LEMMA AloneNothingStale ==
    ASSUME TypeOK, NEW r \in Requests, Done(r), Beside(r) => "overlap" \in risks'
    PROVE  NothingStale'
<1>1. Idle.step = "idle"
  BY DEF Idle
<1>2. req'[r] = Idle /\ \A q \in Requests \ {r} : req'[q] = req[q]
  BY DEF Done, TypeOK
<1>3. ASSUME "overlap" \notin risks', NEW q \in Requests PROVE StillSo(q)'
  <2>1. req'[q].step = "idle"
    BY <1>1, <1>2, <1>3 DEF Beside
  <2> QED  BY <2>1 DEF StillSo
<1> QED  BY <1>3 DEF NothingStale

\* A save of the switches.  It shuts nobody out if it leaves the whitelist off, has a
\* token, or activates it for somebody who is listed.
LEMMA SavingShutsNobodyOut ==
    ASSUME TypeOK, SInv, NEW r \in Requests, req[r].step # "idle", Done(r),
           NEW own, NEW value, Save(r, own, value), rules' = rules,
           req[r].step \notin {"mailed", "activate"} => ~value["active"] \/ value["active"] = req[r].seen["active"],
           req[r].step \in {"mailed", "activate"} => req[r].user \in Admins,
           forcedBy' = forcedBy \/ ~value["active"] \/ forcedBy' # NoToken,
           req[r].step = "mailed" => forcedBy' # NoToken
    PROVE  SInv'
<1>1. /\ features' = value
      /\ risks' = IF Beside(r) THEN risks \cup {"overlap"} ELSE IF value["active"] THEN risks ELSE {}
  BY DEF Save
<1>2. NothingStale'
  BY <1>1, AloneNothingStale
<1>3. ASSUME value["active"], risks' = {}, \A u \in Admins : ~Listed(Home[u]), forcedBy' = NoToken
      PROVE  FALSE
  <2>1. risks = {} /\ forcedBy = NoToken
    BY <1>1, <1>3
  <2>2. StillSo(r)
    BY <2>1 DEF SInv, NothingStale
  <2>3. CASE req[r].step = "activate"
    BY <1>3, <2>2, <2>3 DEF StillSo
  <2>4. CASE req[r].step = "mailed"
    BY <1>3, <2>4
  <2>5. CASE req[r].step \notin {"mailed", "activate"}
    <3>1. features["active"]
      BY <1>3, <2>2, <2>5 DEF StillSo
    <3> QED  BY <1>3, <2>1, <3>1 DEF SInv, ShutOutOnlyForced, ShutOut
  <2> QED  BY <2>3, <2>4, <2>5
<1>4. ShutOutOnlyForced'
  BY <1>1, <1>3 DEF ShutOutOnlyForced, ShutOut, Listed
<1> QED  BY <1>2, <1>4 DEF SInv

\* Whoever deletes alone, and is listed, is listed afterwards.
LEMMA DeletingShutsNobodyOut ==
    ASSUME IInv, SInv, NEW r \in Requests, DeleteCommit(r)
    PROVE  SInv'
<1>1. /\ req[r].step = "delete" /\ Done(r) /\ features' = features /\ forcedBy' = forcedBy
      /\ rules' = {p \in rules : p[1] # req[r].rule}
      /\ risks' = risks \cup (IF Beside(r) THEN {"overlap"} ELSE {})
                     \cup (IF features["active"] /\ ~Listed(Home[req[r].user]) THEN {"bypass"} ELSE {})
  BY DEF DeleteCommit
<1>2. TypeOK /\ req[r].user \in Admins
  BY <1>1 DEF IInv, InHand
<1>3. NothingStale'
  BY <1>1, <1>2, AloneNothingStale
<1>4. ASSUME features["active"], risks' = {} PROVE \E x \in rules' : x[2] = Home[req[r].user]
  <2>1. risks = {} /\ Listed(Home[req[r].user])
    BY <1>1, <1>4
  <2>2. \A p \in rules : p[1] = req[r].rule => p[2] # Home[req[r].user]
    BY <1>1, <1>4, <2>1 DEF SInv, NothingStale, StillSo
  <2>3. PICK p \in rules : p[2] = Home[req[r].user]
    BY <2>1 DEF Listed
  <2>4. p \in rules'
    BY <1>1, <2>2, <2>3
  <2> QED  BY <2>3, <2>4
<1>5. ShutOutOnlyForced'
  BY <1>1, <1>2, <1>4 DEF ShutOutOnlyForced, ShutOut, Listed
<1> QED  BY <1>3, <1>5 DEF SInv

LEMMA AddingShutsNobodyOut ==
    ASSUME IInv, SInv, NEW r \in Requests, AddCommit(r)
    PROVE  SInv'
<1>1. PICK id \in Rules : ~Known(id) /\ rules' = rules \cup {<<id, req[r].address>>}
  BY DEF AddCommit
<1>2. /\ Idle.step = "idle" /\ req'[r] = Idle /\ \A q \in Requests \ {r} : req'[q] = req[q]
      /\ UNCHANGED <<features, risks, forcedBy>>
  BY DEF AddCommit, Done, Idle, IInv, TypeOK
<1>3. ASSUME "overlap" \notin risks, NEW q \in Requests PROVE StillSo(q)'
  <2>1. CASE q = r
    BY <1>2, <2>1 DEF StillSo
  <2>2. CASE q # r
    <3>1. StillSo(q) /\ req[q].rule # id
      BY <1>1, <1>3 DEF SInv, NothingStale, Known
    <3> QED  BY <1>1, <1>2, <2>2, <3>1 DEF StillSo, Listed
  <2> QED  BY <2>1, <2>2
<1>4. ShutOutOnlyForced'
  BY <1>1, <1>2 DEF SInv, ShutOutOnlyForced, ShutOut, Listed
<1> QED  BY <1>2, <1>3, <1>4 DEF SInv, NothingStale

LEMMA ReadingShutsNobodyOut ==
    ASSUME IInv, SInv, NEW r \in Requests,
           \/ \E u \in Admins : Context(r, u)
           \/ Enter(r) \/ ActivateRead(r) \/ ForceRead(r) \/ OpenPage(r) \/ Abort(r)
           \/ \E j \in Jtis : MailToken(r, j) \/ EmergencyRead(r, j)
           \/ \E a \in Addresses : AddRead(r, a)
           \/ \E p \in rules : DeleteRead(r, p)
    PROVE  SInv'
<1>1. /\ TypeOK /\ req[r] \in Request /\ Idle.step = "idle"
      /\ req \in [Requests -> Request]
      /\ "overlap" \notin risks => StillSo(r)
  BY DEF IInv, TypeOK, Idle, SInv, NothingStale
\* Looking at the switches, or going on with those read before.
<1>2. ASSUME NEW rec, req' = [req EXCEPT ![r] = rec],
             UNCHANGED <<features, rules, risks, forcedBy>>,
             rec.step # "idle" => rec.seen = features \/ (req[r].step # "idle" /\ rec.seen = req[r].seen),
             rec.step = "activate" => Listed(Home[rec.user]),
             rec.step = "delete" /\ rec.seen["active"] =>
                 \A p \in rules : p[1] = rec.rule => p[2] # Home[rec.user]
      PROVE  SInv'
  <2>1. req'[r] = rec /\ \A q \in Requests \ {r} : req'[q] = req[q]
    BY <1>1, <1>2
  <2>2. "overlap" \notin risks => StillSo(r)'
    BY <1>1, <1>2, <2>1 DEF StillSo, Listed
  <2> QED  BY <1>1, <1>2, <2>1, <2>2, MovingShutsNobodyOut
<1>3. ASSUME NEW u \in Admins, Context(r, u) PROVE SInv'
  <2> DEFINE rec == [Idle EXCEPT !.step = "context", !.user = u, !.seen = features]
  <2>1. rec.step = "context" /\ rec.seen = features
    BY DEF Idle
  <2>2. req' = [req EXCEPT ![r] = rec] /\ UNCHANGED <<features, rules, risks, forcedBy>>
    BY <1>3 DEF Context
  <2> HIDE DEF rec
  <2> QED  BY <1>2, <2>1, <2>2
<1>4. ASSUME Enter(r) PROVE SInv'
  <2> DEFINE rec == [req[r] EXCEPT !.step = "inside"]
  <2>1. rec.step = "inside" /\ rec.seen = req[r].seen
    BY <1>1 DEF Request
  <2>2. req' = [req EXCEPT ![r] = rec] /\ req[r].step = "context" /\ UNCHANGED <<features, rules, risks, forcedBy>>
    BY <1>4 DEF Enter, GoesTo
  <2> HIDE DEF rec
  <2> QED  BY <1>2, <2>1, <2>2
<1>5. ASSUME ActivateRead(r) PROVE SInv'
  <2> DEFINE rec == [req[r] EXCEPT !.step = "activate", !.seen = features]
  <2>1. rec.step = "activate" /\ rec.seen = features /\ rec.user = req[r].user
    BY <1>1 DEF Request
  <2>2. /\ req' = [req EXCEPT ![r] = rec] /\ Listed(Home[req[r].user])
        /\ UNCHANGED <<features, rules, risks, forcedBy>>
    BY <1>1, <1>5 DEF ActivateRead
  <2> HIDE DEF rec
  <2> QED  BY <1>2, <2>1, <2>2
<1>6. ASSUME ForceRead(r) PROVE SInv'
  <2> DEFINE rec == [req[r] EXCEPT !.step = "force", !.seen = features]
  <2>1. rec.step = "force" /\ rec.seen = features
    BY <1>1 DEF Request
  <2>2. req' = [req EXCEPT ![r] = rec] /\ UNCHANGED <<features, rules, risks, forcedBy>>
    BY <1>1, <1>6 DEF ForceRead
  <2> HIDE DEF rec
  <2> QED  BY <1>2, <2>1, <2>2
<1>7. ASSUME NEW j \in Jtis, MailToken(r, j) PROVE SInv'
  <2> DEFINE rec == [req[r] EXCEPT !.step = "mailed", !.token = j]
  <2>1. rec.step = "mailed" /\ rec.seen = req[r].seen
    BY <1>1 DEF Request
  <2>2. /\ req' = [req EXCEPT ![r] = rec] /\ req[r].step = "force"
        /\ UNCHANGED <<features, rules, risks, forcedBy>>
    BY <1>1, <1>7 DEF MailToken
  <2> HIDE DEF rec
  <2> QED  BY <1>2, <2>1, <2>2
<1>8. ASSUME NEW j \in Jtis, EmergencyRead(r, j) PROVE SInv'
  <2> DEFINE rec == [req[r] EXCEPT !.step = "emergency", !.token = j, !.seen = features]
  <2>1. rec.step = "emergency" /\ rec.seen = features
    BY <1>1 DEF Request
  <2>2. req' = [req EXCEPT ![r] = rec] /\ UNCHANGED <<features, rules, risks, forcedBy>>
    BY <1>1, <1>8 DEF EmergencyRead
  <2> HIDE DEF rec
  <2> QED  BY <1>2, <2>1, <2>2
<1>9. ASSUME NEW a \in Addresses, AddRead(r, a) PROVE SInv'
  <2> DEFINE rec == [req[r] EXCEPT !.step = "add", !.address = a]
  <2>1. rec.step = "add" /\ rec.seen = req[r].seen
    BY <1>1 DEF Request
  <2>2. /\ req' = [req EXCEPT ![r] = rec] /\ req[r].step = "inside"
        /\ UNCHANGED <<features, rules, risks, forcedBy>>
    BY <1>1, <1>9 DEF AddRead
  <2> HIDE DEF rec
  <2> QED  BY <1>2, <2>1, <2>2
<1>10. ASSUME NEW p \in rules, DeleteRead(r, p) PROVE SInv'
  <2> DEFINE rec == [req[r] EXCEPT !.step = "delete", !.rule = p[1]]
  <2>1. /\ rec.step = "delete" /\ rec.seen = req[r].seen /\ rec.user = req[r].user /\ rec.rule = p[1]
    BY <1>1 DEF Request
  <2>2. /\ req' = [req EXCEPT ![r] = rec] /\ req[r].step = "inside"
        /\ UNCHANGED <<features, rules, risks, forcedBy>>
        /\ req[r].seen["active"] => p[2] # Home[req[r].user]
    BY <1>1, <1>10 DEF DeleteRead
  <2>3. \A x \in rules : x[1] = p[1] => x = p
    BY <1>1 DEF TypeOK
  <2> HIDE DEF rec
  <2> QED  BY <1>2, <2>1, <2>2, <2>3
<1>11. ASSUME OpenPage(r) PROVE SInv'
  <2> DEFINE rec == [Idle EXCEPT !.step = "page", !.user = Staff, !.seen = features]
  <2>1. rec.step = "page" /\ rec.seen = features
    BY DEF Idle
  <2>2. req' = [req EXCEPT ![r] = rec] /\ UNCHANGED <<features, rules, risks, forcedBy>>
    BY <1>11 DEF OpenPage
  <2> HIDE DEF rec
  <2> QED  BY <1>2, <2>1, <2>2
<1>12. ASSUME Abort(r) PROVE SInv'
  BY <1>1, <1>2, <1>12 DEF Abort, Done
<1> QED
  BY <1>3, <1>4, <1>5, <1>6, <1>7, <1>8, <1>9, <1>10, <1>11, <1>12

LEMMA SwitchingShutsNobodyOut ==
    ASSUME IInv, SInv, NEW r \in Requests,
           \/ ActivateCommit(r) \/ ForceCommit(r) \/ Deactivate(r)
           \/ EmergencyCommit(r) \/ SavePage(r)
    PROVE  SInv'
<1>1. /\ TypeOK /\ req[r].seen \in [Switches -> BOOLEAN]
      /\ req[r].step \notin {"idle", "page"} => req[r].user \in Admins
      /\ req[r].step = "mailed" => req[r].token \in Jtis
  BY DEF IInv, TypeOK, Request, InHand
<1>2. ASSUME NEW b \in BOOLEAN PROVE [req[r].seen EXCEPT !["active"] = b]["active"] = b
  BY <1>1 DEF Switches
<1>3. CASE ActivateCommit(r)
  <2> DEFINE value == [req[r].seen EXCEPT !["active"] = TRUE]
  <2>1. /\ req[r].step = "activate" /\ Done(r) /\ Save(r, {"active"}, value)
        /\ rules' = rules /\ forcedBy' = forcedBy
    BY <1>3 DEF ActivateCommit
  <2> HIDE DEF value
  <2> QED  BY <1>1, <2>1, SavingShutsNobodyOut
<1>4. CASE ForceCommit(r)
  <2> DEFINE value == [req[r].seen EXCEPT !["active"] = TRUE]
  <2>1. /\ req[r].step = "mailed" /\ Done(r) /\ Save(r, {"active"}, value)
        /\ rules' = rules /\ forcedBy' = req[r].token
    BY <1>4 DEF ForceCommit
  <2>2. forcedBy' # NoToken
    BY <1>1, <2>1
  <2> HIDE DEF value
  <2> QED  BY <1>1, <2>1, <2>2, SavingShutsNobodyOut
<1>5. CASE Deactivate(r) \/ EmergencyCommit(r)
  <2> DEFINE value == [req[r].seen EXCEPT !["active"] = FALSE]
  <2>1. /\ req[r].step \in {"inside", "emergency"} /\ Done(r) /\ Save(r, {"active"}, value)
        /\ rules' = rules
    BY <1>5 DEF Deactivate, EmergencyCommit
  <2>2. ~value["active"]
    BY <1>2
  <2> HIDE DEF value
  <2> QED  BY <1>1, <2>1, <2>2, SavingShutsNobodyOut
<1>6. CASE SavePage(r)
  <2>1. PICK on \in BOOLEAN, bypass \in BOOLEAN :
           Save(r, {"enabled", "bypass"},
                [req[r].seen EXCEPT !["enabled"] = on, !["bypass"] = bypass])
    BY <1>6 DEF SavePage
  <2> DEFINE value == [req[r].seen EXCEPT !["enabled"] = on, !["bypass"] = bypass]
  <2>2. value["active"] = req[r].seen["active"] /\ Save(r, {"enabled", "bypass"}, value)
    BY <1>1, <2>1 DEF Switches
  <2>3. req[r].step = "page" /\ Done(r) /\ rules' = rules /\ forcedBy' = forcedBy
    BY <1>6 DEF SavePage
  <2> HIDE DEF value
  <2> QED  BY <1>1, <2>2, <2>3, SavingShutsNobodyOut
<1> QED  BY <1>3, <1>4, <1>5, <1>6

LEMMA ShutOutStep == IInv /\ SInv /\ [Next]_vars => SInv'
<1> SUFFICES ASSUME IInv, SInv, [Next]_vars PROVE SInv'
  OBVIOUS
<1>1. CASE UNCHANGED vars \/ \E j \in Jtis : Expire(j)
  BY <1>1 DEF vars, Expire, SInv, NothingStale, StillSo, ShutOutOnlyForced, ShutOut, Listed
<1> QED
  BY <1>1, ReadingShutsNobodyOut, SwitchingShutsNobodyOut, AddingShutsNobodyOut,
     DeletingShutsNobodyOut DEF Next

LEMMA ShutOutInit == Init => SInv
BY DEF Init, Idle, SInv, NothingStale, StillSo, ShutOutOnlyForced, ShutOut

\* All admins are shut out without a forced activation only after requests have
\* overlapped, or after one whom no rule listed has deleted a rule.
THEOREM NobodyShutsAllOut == Spec => []ShutOutOnlyForced
<1>1. SInv => ShutOutOnlyForced
  BY DEF SInv
<1> QED
  BY <1>1, ShutOutInit, ShutOutStep, Invariance, PTL DEF Spec

------------------------------------------------------------------------------
(***************************************************************************)
(* Emergency tokens implement one-time tokens.                             *)
(***************************************************************************)

\* The token each emergency request has found usable.
Claims == [r \in Requests |-> IF req[r].step = "emergency" THEN req[r].token ELSE NoToken]

LEMMA RefinementInit == Init => EmergencyTokens!Init
BY DEF Init, Idle, EmergencyTokens!Init, Usable

\* What touches no row of the tokens and no emergency request stutters.
LEMMA StutterOf ==
    ASSUME UNCHANGED <<stored, used, expired>>, Claims' = Claims
    PROVE  UNCHANGED EmergencyTokens!vars
BY DEF EmergencyTokens!vars, Usable, Claims

\* A request whose step changes, but neither to nor from the emergency.
LEMMA ElsewhereOf ==
    ASSUME req \in [Requests -> Request], NEW r \in Requests, NEW rec,
           req' = [req EXCEPT ![r] = rec],
           req[r].step # "emergency", rec.step # "emergency"
    PROVE  Claims' = Claims
BY DEF Claims

\* A request that ends releases its token.
LEMMA DoneReleases ==
    ASSUME req \in [Requests -> Request], NEW r \in Requests, Done(r)
    PROVE  Claims' = [Claims EXCEPT ![r] = NoToken]
<1>1. Idle.step = "idle"
  BY DEF Idle
<1> QED
  BY <1>1 DEF Claims, Done

\* Token rows appear and end outside the requests that claim them.
LEMMA TurnoverOf ==
    ASSUME TypeOK, NEW new \in SUBSET Jtis, new \cap stored = {}, stored' = stored \cup new,
           Usable' \subseteq Usable \cup new, UNCHANGED used, Claims' = Claims
    PROVE  EmergencyTokens!Next
<1> DEFINE old == (Usable \cup new) \ Usable'
<1>1. old \in SUBSET Jtis
  BY DEF TypeOK, Usable
<1>2. EmergencyTokens!Turnover(new, old)
  BY DEF EmergencyTokens!Turnover, TypeOK, Usable
<1>3. EmergencyTokens!Manage
  BY <1>1, <1>2 DEF EmergencyTokens!Manage, Claims
<1> QED
  BY <1>3 DEF EmergencyTokens!Next

LEMMA RefinementStep == IInv /\ [Next]_vars => [EmergencyTokens!Next]_(EmergencyTokens!vars)
<1> SUFFICES ASSUME IInv, [Next]_vars PROVE [EmergencyTokens!Next]_(EmergencyTokens!vars)
  OBVIOUS
<1> USE DEF IInv
<1>0. req \in [Requests -> Request] /\ TypeOK
  BY DEF TypeOK
\* Reads and checks.
<1>1. ASSUME NEW r \in Requests,
             \/ \E u \in Admins : Context(r, u)
             \/ Enter(r) \/ ActivateRead(r) \/ ForceRead(r) \/ OpenPage(r)
             \/ \E j \in Jtis : MailToken(r, j)
             \/ \E a \in Addresses : AddRead(r, a)
             \/ \E p \in rules : DeleteRead(r, p)
      PROVE  UNCHANGED EmergencyTokens!vars
  <2>1. UNCHANGED <<stored, used, expired>>
    BY <1>1 DEF Context, Enter, ActivateRead, ForceRead, OpenPage, MailToken, AddRead, DeleteRead
  <2>2. /\ \A q \in Requests \ {r} : req'[q] = req[q]
        /\ req[r].step # "emergency" /\ req'[r].step # "emergency"
    <3>1. CASE \E u \in Admins : Context(r, u)
      BY <1>0, <3>1 DEF Context, Idle
    <3>2. CASE Enter(r)
      BY <1>0, <3>2 DEF Enter, GoesTo, Request
    <3>3. CASE ActivateRead(r)
      BY <1>0, <3>3 DEF ActivateRead, Request
    <3>4. CASE ForceRead(r)
      BY <1>0, <3>4 DEF ForceRead, Request
    <3>5. CASE OpenPage(r)
      BY <1>0, <3>5 DEF OpenPage, Idle
    <3>6. CASE \E j \in Jtis : MailToken(r, j)
      BY <1>0, <3>6 DEF MailToken, Request
    <3>7. CASE \E a \in Addresses : AddRead(r, a)
      BY <1>0, <3>7 DEF AddRead, Request
    <3>8. CASE \E p \in rules : DeleteRead(r, p)
      BY <1>0, <3>8 DEF DeleteRead, Request
    <3> QED
      BY <1>1, <3>1, <3>2, <3>3, <3>4, <3>5, <3>6, <3>7, <3>8
  <2>3. Claims' = Claims
    BY <2>2 DEF Claims
  <2> QED
    BY <2>1, <2>3, StutterOf
\* Writes that do not concern tokens.
<1>2. ASSUME NEW r \in Requests,
             \/ ActivateCommit(r) \/ Deactivate(r) \/ AddCommit(r) \/ DeleteCommit(r) \/ SavePage(r)
      PROVE  UNCHANGED EmergencyTokens!vars
  <2>1. UNCHANGED <<stored, used, expired>> /\ Done(r) /\ req[r].step # "emergency"
    BY <1>2 DEF ActivateCommit, Deactivate, AddCommit, DeleteCommit, SavePage
  <2>2. Claims' = Claims
    BY <1>0, <2>1, DoneReleases DEF Claims
  <2> QED
    BY <2>1, <2>2, StutterOf
\* The token of a forced activation is issued when that commits.
<1>3. ASSUME NEW r \in Requests, ForceCommit(r) PROVE EmergencyTokens!Next
  <2> DEFINE j == req[r].token
  <2>1. /\ Done(r) /\ req[r].step = "mailed" /\ UNCHANGED <<used, expired>>
        /\ stored' = stored \cup {j}
    BY <1>3 DEF ForceCommit
  <2>2. j \in Jtis /\ j \notin stored
    BY <2>1 DEF InHand, TypeOK
  <2>3. Claims' = Claims
    BY <1>0, <2>1, DoneReleases DEF Claims
  <2>4. Usable' \subseteq Usable \cup {j}
    BY <2>1 DEF Usable
  <2>5. {j} \in SUBSET Jtis /\ {j} \cap stored = {}
    BY <2>2
  <2> HIDE DEF IInv, j
  <2> QED
    BY <1>0, <2>1, <2>3, <2>4, <2>5, TurnoverOf
\* The read of an emergency request claims the token, its commit consumes it.
<1>4. ASSUME NEW r \in Requests, NEW j \in Jtis, EmergencyRead(r, j) PROVE EmergencyTokens!Next
  <2>1. /\ j \in Usable /\ UNCHANGED <<stored, used, expired>> /\ req[r].step = "context"
        /\ req'[r].step = "emergency" /\ req'[r].token = j
        /\ \A q \in Requests \ {r} : req'[q] = req[q]
    BY <1>0, <1>4 DEF EmergencyRead, Request
  <2>2. Claims' = [Claims EXCEPT ![r] = j] /\ Claims[r] = NoToken
    BY <2>1 DEF Claims
  <2>3. EmergencyTokens!Claim(r, j)
    BY <2>1, <2>2 DEF EmergencyTokens!Claim, Claims, Usable
  <2> QED
    BY <2>3 DEF EmergencyTokens!Next
<1>5. ASSUME NEW r \in Requests, EmergencyCommit(r) PROVE EmergencyTokens!Next
  <2> DEFINE j == req[r].token
  <2>1. /\ Done(r) /\ req[r].step = "emergency" /\ UNCHANGED <<stored, expired>>
        /\ used' = used \cup {j}
    BY <1>5 DEF EmergencyCommit
  <2>2. j \in stored /\ stored \subseteq Jtis /\ j # NoToken /\ Claims[r] = j
    BY <2>1, StaffAssumption DEF InHand, TypeOK, Claims
  <2>3. Claims' = [Claims EXCEPT ![r] = NoToken]
    BY <1>0, <2>1, DoneReleases
  <2>4. Usable' = Usable \ {j}
    BY <2>1 DEF Usable
  <2>5. EmergencyTokens!Turnover({}, {} \cup {j})
    BY <2>1, <2>2, <2>4 DEF EmergencyTokens!Turnover, Usable
  <2>6. EmergencyTokens!Consume(r)
    BY <2>1, <2>2, <2>3, <2>5 DEF EmergencyTokens!Consume, Claims
  <2> QED
    BY <2>6 DEF EmergencyTokens!Next
<1>6. ASSUME NEW r \in Requests, Abort(r) PROVE EmergencyTokens!Next
  <2>1. UNCHANGED <<stored, used, expired>> /\ Done(r)
    BY <1>6 DEF Abort
  <2>2. EmergencyTokens!Release(r)
    BY <1>0, <2>1, DoneReleases DEF EmergencyTokens!Release, Usable, Claims
  <2> QED
    BY <2>2 DEF EmergencyTokens!Next
<1>7. ASSUME NEW j \in Jtis, Expire(j) PROVE EmergencyTokens!Next
  <2>1. /\ {} \in SUBSET Jtis /\ {} \cap stored = {} /\ stored' = stored \cup {}
        /\ Usable' \subseteq Usable \cup {} /\ UNCHANGED used /\ Claims' = Claims
    BY <1>7 DEF Expire, Usable, Claims
  <2> HIDE DEF IInv
  <2> QED
    BY <1>0, <2>1, TurnoverOf
<1>8. CASE UNCHANGED vars
  BY <1>8, StutterOf DEF vars, Claims
<1> QED
  BY <1>1, <1>2, <1>3, <1>4, <1>5, <1>6, <1>7, <1>8 DEF Next

\* Every behaviour of the emergency tokens is a behaviour of one-time tokens:
\* lifting the whitelist consumes the token, and nothing makes it usable again.
THEOREM EmergencyImplementsOneTime == Spec => EmergencyIsOneTime
<1>1. Spec => []IInv
  BY Invariance
<1> QED
  BY <1>1, RefinementInit, RefinementStep, PTL DEF Spec, EmergencyIsOneTime, EmergencyTokens!Spec

==============================================================================
