-------------------------- MODULE MC_LoginAttempts --------------------------
EXTENDS LoginAttempts, TLC

Symmetry == Permutations(Addresses) \cup Permutations(Users)
=============================================================================
