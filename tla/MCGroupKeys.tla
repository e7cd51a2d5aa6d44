----------------------------- MODULE MCGroupKeys -----------------------------
EXTENDS GroupKeys
CONSTANTS A, B, C
TwoClients == {<<A, 1, 1>>, <<A, 2, 1>>, <<B, 1, 1>>}
OneClient == {<<A, 1, 1>>, <<B, 1, 1>>, <<C, 1, 1>>}
TwoCalls == {<<A, 1, 1>>, <<A, 1, 2>>, <<B, 1, 1>>}
=============================================================================
