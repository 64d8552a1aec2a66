--------------------------- MODULE MCProbeEngine ---------------------------
(* Instances of ProbeEngine for TLC.  Every bound is a constant of the cfg. *)
EXTENDS ProbeEngine
============================================================================
