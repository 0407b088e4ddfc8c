----------------------------- MODULE MCSessions -----------------------------
EXTENDS Sessions, TLC

Symmetry == Permutations(Users) \cup Permutations(Tokens)
              \cup Permutations(Links) \cup Permutations(Requests)
==============================================================================
