----------------------------- MODULE MCBenchmark -----------------------------
(***************************************************************************)
(* Instances of Benchmark for TLC.                                         *)
(***************************************************************************)
EXTENDS Benchmark
=============================================================================
