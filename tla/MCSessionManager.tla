--------------------------- MODULE MCSessionManager ---------------------------
(* Instance of SessionManager for TLC.                                       *)
EXTENDS SessionManager, TLC

MCSymmetry == Permutations(Pids) \cup Permutations(Ids)
=============================================================================
