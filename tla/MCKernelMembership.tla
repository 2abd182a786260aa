-------------------------- MODULE MCKernelMembership --------------------------
(* Instance of KernelMembership for TLC: the constants of the cfg files.     *)
EXTENDS KernelMembership, TLC

MCEnforce == {"monitor", "enforce"}

MCSymmetry == Permutations(Tids)
=============================================================================
