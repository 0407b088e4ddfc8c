------------------------------- MODULE MCSSO -------------------------------
EXTENDS SSO, TLC

Symmetry == Permutations(People) \cup Permutations(Accounts) \cup Permutations(Attempts)
              \cup Permutations(Requests)

==============================================================================
