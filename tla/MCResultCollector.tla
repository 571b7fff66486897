-------------------------- MODULE MCResultCollector --------------------------
(***************************************************************************)
(* Instances of ResultCollector for TLC.                                   *)
(***************************************************************************)
EXTENDS ResultCollector
=============================================================================
