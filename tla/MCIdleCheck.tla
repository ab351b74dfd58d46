---------------------------- MODULE MCIdleCheck ----------------------------
EXTENDS IdleCheck, TLC
Symmetry == Permutations(LeaseId \ Mine) \cup Permutations(Gpu)
=============================================================================
