----------------------------- MODULE MCAccounts -----------------------------
EXTENDS Accounts, TLC

Symmetry == Permutations(Accounts) \cup Permutations(Emails) \cup Permutations(Invites)
              \cup Permutations(ChangeLinks) \cup Permutations(Requests)

==============================================================================
