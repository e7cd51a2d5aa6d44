----------------------------- MODULE MCDeviceLink ----------------------------
EXTENDS DeviceLink, TLC
Symmetry == Permutations(Session) \cup Permutations(Dialog)
=============================================================================
