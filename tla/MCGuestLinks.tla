---------------------------- MODULE MCGuestLinks ----------------------------
EXTENDS GuestLinks, TLC
Symmetry == Permutations(Knock) \cup Permutations(Call)
=============================================================================
