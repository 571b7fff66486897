---------------------------- MODULE MCNeonClone ----------------------------
(***************************************************************************)
(* An instance of NeonClone for TLC: the ports neon_local gives, with two  *)
(* safekeepers.                                                            *)
(***************************************************************************)
EXTENDS NeonClone

MCSkHttp == [i \in 1..2 |-> 7675 + i]
MCSkPg == [i \in 1..2 |-> 5453 + i]
=============================================================================
