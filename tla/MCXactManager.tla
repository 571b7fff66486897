---------------------------- MODULE MCXactManager ----------------------------
(***************************************************************************)
(* Instances of XactManager for TLC: nodes and transactions are            *)
(* interchangeable.                                                        *)
(***************************************************************************)
EXTENDS XactManager, TLC

XactSymmetry == Permutations(Node) \cup Permutations(Xact)
=============================================================================
