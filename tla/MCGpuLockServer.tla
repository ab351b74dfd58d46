--------------------------- MODULE MCGpuLockServer ---------------------------
EXTENDS GpuLockServer, TLC
Symmetry == Permutations(LeaseId)
=============================================================================
