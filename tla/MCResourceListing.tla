-------------------------- MODULE MCResourceListing --------------------------
EXTENDS ResourceListing, TLC

Symmetry == Permutations(Clients) \union Permutations(Accounts)
=============================================================================
