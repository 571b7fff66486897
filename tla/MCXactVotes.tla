---------------------------- MODULE MCXactVotes ----------------------------
(***************************************************************************)
(* Instance of XactVotes for TLC: the participants other than the          *)
(* coordinator are interchangeable.                                        *)
(***************************************************************************)
EXTENDS XactVotes, TLC

PeerSymmetry == Permutations(Participants \ {Coordinator})
=============================================================================
