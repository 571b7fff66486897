---------------------------- MODULE MCXactServer ----------------------------
(***************************************************************************)
(* Instances of XactServer for TLC.  In the runs that check safety only,   *)
(* the surrogates are interchangeable.                                     *)
(***************************************************************************)
EXTENDS XactServerInv, TLC

SurrogateSymmetry == Permutations(Surrogates)
=============================================================================
