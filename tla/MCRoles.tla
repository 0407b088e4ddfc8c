------------------------------- MODULE MCRoles -------------------------------
EXTENDS Roles, TLC

CONSTANTS ann, bob, c1

MCChoices == {{"admin"}, {"viewer"}, {"viewer", c1}}
MCBundles == {{}, {EditUsers}}
Symmetry == Permutations(Requests)
==============================================================================
