--------------------------- MODULE MCIPWhitelist ---------------------------
(* Admins and the operator's staff, two addresses: an admin may list the    *)
(* address they come from or another one.                                   *)
EXTENDS IPWhitelist, TLC

CONSTANTS a1, a2, here, there
MCHome == (a1 :> here)
MCHomes == (a1 :> here) @@ (a2 :> there)
Symmetry == Permutations(Jtis) \cup Permutations(Requests) \cup Permutations(Rules)
============================================================================
