---------------------------- MODULE OneTimeToken ----------------------------
(***************************************************************************)
(* What every one-time token of the system promises: refresh tokens,       *)
(* password-reset links, invitations, e-mail-change links.  A token is     *)
(* issued once, is fresh until it is consumed, withdrawn or expires, and   *)
(* is never fresh again.  A consumer first finds the token fresh (claims   *)
(* it) and consumes it later; consumers whose claims overlap may both      *)
(* consume, a consumer that comes after the first consumption may not.     *)
(***************************************************************************)
CONSTANTS Token, Claimer, NoToken   \* NoToken is no member of Token

VARIABLES
    fresh,      \* issued, and still good
    spent,      \* issued, and no longer good
    consumed,   \* those that had their effect at least once
    claim       \* the token each consumer has found fresh

vars == <<fresh, spent, consumed, claim>>

TypeOK ==
    /\ fresh \subseteq Token
    /\ spent \subseteq Token
    /\ consumed \subseteq Token
    /\ claim \in [Claimer -> Token \cup {NoToken}]

Init ==
    /\ fresh = {}
    /\ spent = {}
    /\ consumed = {}
    /\ claim = [c \in Claimer |-> NoToken]

------------------------------------------------------------------------------
\* Tokens `new' are issued and tokens `old' stop being good.
Turnover(new, old) ==
    /\ new \cap (fresh \cup spent) = {}
    /\ fresh' = (fresh \cup new) \ old
    /\ spent' = spent \cup (old \cap (fresh \cup new))

Claim(c, t) ==
    /\ claim[c] = NoToken
    /\ t \in fresh
    /\ claim' = [claim EXCEPT ![c] = t]
    /\ UNCHANGED <<fresh, spent, consumed>>

\* The token has its effect and is good no longer, whatever else happened to it
\* since it was claimed; its effect may issue and withdraw other tokens.
Consume(c) ==
    /\ claim[c] # NoToken
    /\ \E new, old \in SUBSET Token : Turnover(new, old \cup {claim[c]})
    /\ consumed' = consumed \cup {claim[c]}
    /\ claim' = [claim EXCEPT ![c] = NoToken]

Release(c) ==
    /\ claim' = [claim EXCEPT ![c] = NoToken]
    /\ UNCHANGED <<fresh, spent, consumed>>

\* Issued, withdrawn or expired without being consumed.
Manage ==
    /\ \E new, old \in SUBSET Token : Turnover(new, old)
    /\ UNCHANGED <<consumed, claim>>

Next ==
    \/ Manage
    \/ \E c \in Claimer :
          \/ \E t \in Token : Claim(c, t)
          \/ Consume(c)
          \/ Release(c)

Spec == Init /\ [][Next]_vars

------------------------------------------------------------------------------
\* A token that had its effect is never found fresh again: the second of two
\* consumptions was claimed before the first one ended.
ConsumedStaysSpent == consumed \subseteq spent /\ fresh \cap spent = {}

==============================================================================
