----------------------------- MODULE MCNetTable -----------------------------
(* Instances of NetTable for TLC: every bound is a constant of the cfg. *)
EXTENDS NetTable
=============================================================================
