---------------------------- MODULE MCExperiment ----------------------------
(***************************************************************************)
(* Instances of Experiment for TLC.  The third case has the metadata of    *)
(* the first, as replacement rules can make it.                            *)
(***************************************************************************)
EXTENDS Experiment

MCCases == <<"a", "b", "a", "c">>
=============================================================================
