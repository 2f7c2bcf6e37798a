---------------------------- MODULE MCRelayPath ----------------------------
(***************************************************************************)
(* Small instances of RelayPath.                                           *)
(***************************************************************************)
EXTENDS RelayPath, TLC

CONSTANTS f1, f2, f3

Symmetries == Permutations(Frames)

=============================================================================
