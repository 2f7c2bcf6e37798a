--------------------------- MODULE MCBleScanPause ---------------------------
(***************************************************************************)
(* An instance of BleScanPause; it has no constants.                       *)
(***************************************************************************)
EXTENDS BleScanPause
=============================================================================
