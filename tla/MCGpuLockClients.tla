-------------------------- MODULE MCGpuLockClients --------------------------
EXTENDS GpuLockClients, TLC
Symmetry == Permutations(LeaseId)
=============================================================================
