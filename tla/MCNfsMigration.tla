--------------------------- MODULE MCNfsMigration ---------------------------
EXTENDS NfsMigration, TLC

Symmetry == Permutations(Handlers) \union Permutations(Users \ Unexported)
=============================================================================
