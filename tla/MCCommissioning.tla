--------------------------- MODULE MCCommissioning ---------------------------
(***************************************************************************)
(* Small instances of Commissioning.                                       *)
(***************************************************************************)
EXTENDS Commissioning, TLC

CONSTANTS p1, p2, open, close, tilt, t1

\* Targets are interchangeable, and so are actions.
Symmetries == Permutations({p1, p2}) \cup Permutations({open, close, tilt})

\* Nothing asks for the owner or the kind of a session that is over.
Relevant ==
  IF active THEN vars ELSE <<tableVars, suspect, written>>

=============================================================================
