---------------------------- MODULE MCBenchTools ----------------------------
(***************************************************************************)
(* A small instance of BenchTools.                                         *)
(***************************************************************************)
EXTENDS BenchTools

CONSTANTS p, q
=============================================================================
