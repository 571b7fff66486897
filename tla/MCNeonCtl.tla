------------------------------ MODULE MCNeonCtl ------------------------------
(***************************************************************************)
(* Instances of NeonCtl for TLC.                                           *)
(***************************************************************************)
EXTENDS NeonCtl
=============================================================================
