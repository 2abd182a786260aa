--------------------------- MODULE MCAgentLifecycle ---------------------------
(* Instances of AgentLifecycle for TLC.                                      *)
EXTENDS AgentLifecycle, TLC

MCEnforce == {"monitor", "enforce"}

MCCgroups == HostCgroups \cup Ids

MCFile == {{}, {"file"}}

MCSymmetry == Permutations(Tids) \cup Permutations(Ids)
=============================================================================
