-------------------------- MODULE MCCommandActions --------------------------
(***************************************************************************)
(* A small instance of CommandActions: two panels, two clients and no      *)
(* remote: what a call is told depends on the bridge's own bursts only.     *)
(***************************************************************************)
EXTENDS CommandActions, TLC

CONSTANTS p1, p2, open, a, b

Symmetries == Permutations(Callers) \cup Permutations(Panels)

\* Without the history that only other properties read, and without storage and the
\* relay policy, which nothing here reads.
Relevant == <<radioReady, ready, index, tx, cooldown, budget, autoRepeats, commandVars,
              relayFault, airing, ended, call>>

\* Panels are captured at index 0, and not configured again.
CapturedAtZero ==
  \A p \in Panels : index[p] # index'[p] =>
    IF index[p] = NoRecord THEN index'[p] = 0 ELSE index'[p] \in {NoRecord, NextIndex(index[p])}

=============================================================================
