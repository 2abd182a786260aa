---------------------------- MODULE MCSessionFlags ----------------------------
(* SessionFlags on two processes.                                          *)
EXTENDS SessionFlags
=============================================================================
