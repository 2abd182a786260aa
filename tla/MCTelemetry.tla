------------------------------ MODULE MCTelemetry ------------------------------
(***************************************************************************)
(* Instances of Telemetry.  Six events through queues of two, segments of *)
(* two lines of which two are kept, a ring of two; a behaviour has a       *)
(* stream, calls of Recent, a forwarder, crashes with faults, or an        *)
(* exporter that could not listen.                                         *)
(***************************************************************************)
EXTENDS Telemetry

MCSetups ==
    {{"stream", "restart"}, {"recent", "restart"}, {"forward", "restart", "crash"},
     {"restart", "crash", "spill", "fault"}, {"deaf"}}
=============================================================================
