------------------------------- MODULE MCListings -------------------------------
EXTENDS Listings, TLC

Symmetry == Permutations(Rows)
=============================================================================
