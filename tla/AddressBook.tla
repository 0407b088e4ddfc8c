----------------------------- MODULE AddressBook -----------------------------
(***************************************************************************)
(* What the unique e-mail addresses of the system promise: an address goes *)
(* to an account only while nobody has it, it goes back before somebody    *)
(* else gets it, and an account never has two.  An invitation promises an  *)
(* address first: the promise is kept, or withdrawn, and keeps everybody   *)
(* else away until then.                                                   *)
(***************************************************************************)
CONSTANTS Address, Account

VARIABLES
    held,       \* the addresses and who has them
    promised    \* those that are promised, and to whom

vars == <<held, promised>>

Entry == Address \X Account

TypeOK == held \subseteq Entry /\ promised \subseteq Entry

\* Nobody has an address, or the founder of the tenant has one.
Init ==
    /\ held = {} \/ \E e \in Entry : held = {e}
    /\ promised = {}

------------------------------------------------------------------------------
\* Nobody has address x or is promised it.
Free(x) == \A e \in held \cup promised : e[1] # x

Unpromised(a) == \A e \in promised : e[2] # a

\* The book in which the account of entry e has that address and no other.
Placed(e) == {h \in held : h[2] # e[2]} \cup {e}

Promise ==
    /\ UNCHANGED held
    /\ \E e \in promised' \ promised :
          /\ Free(e[1]) /\ Unpromised(e[2])
          /\ \A h \in held : h[2] # e[2]
          /\ promised' = promised \cup {e}

Withdraw ==
    /\ UNCHANGED held
    /\ \E e \in promised : promised' = promised \ {e}

Keep ==
    \E e \in promised :
        /\ promised' = promised \ {e}
        /\ held' = Placed(e)

\* A new account, or one that moves from another address.
Settle ==
    /\ UNCHANGED promised
    /\ \E e \in held' \ held :
          /\ Free(e[1]) /\ Unpromised(e[2])
          /\ held' = Placed(e)

Release ==
    /\ UNCHANGED promised
    /\ \E e \in held : held' = held \ {e}

Next == Promise \/ Withdraw \/ Keep \/ Settle \/ Release

Spec == Init /\ [][Next]_vars

------------------------------------------------------------------------------
\* No address is in the book twice, held or promised, and no account either.
Exact == \A e, f \in held \cup promised : e[1] = f[1] \/ e[2] = f[2] => e = f

==============================================================================
