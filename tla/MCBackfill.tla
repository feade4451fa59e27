------------------------------- MODULE MCBackfill -------------------------------
EXTENDS Backfill, TLC
CONSTANTS d1, d2, g1, g2
OwnerArchive == <<"direct">>
Symmetry == Permutations({d1, d2}) \union Permutations({g1, g2})
=============================================================================
