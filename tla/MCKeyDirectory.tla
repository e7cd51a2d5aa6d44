--------------------------- MODULE MCKeyDirectory ---------------------------
\* One device with one-time prekeys, and the users who fetch its bundle.
EXTENDS KeyDirectory, TLC

Symmetry == Permutations(Requester)
=============================================================================
