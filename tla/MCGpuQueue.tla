----------------------------- MODULE MCGpuQueue -----------------------------
EXTENDS GpuQueue, TLC
Symmetry == Permutations(LeaseId)
=============================================================================
