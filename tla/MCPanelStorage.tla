--------------------------- MODULE MCPanelStorage ---------------------------
(***************************************************************************)
(* A small instance of PanelStorage: a slot with and one without a profile *)
(* of the old firmware, and a few indices.                                 *)
(***************************************************************************)
EXTENDS PanelStorage

=============================================================================
