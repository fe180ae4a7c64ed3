--------------------------- MODULE MCCheckpointer ---------------------------
(***************************************************************************)
(* Two workers and one workflow: every race of the store is between two    *)
(* passes at one workflow, or a pass and the outside.                      *)
(***************************************************************************)
EXTENDS Checkpointer, TLC

CONSTANTS p1, p2, w1, k1, k2, v1, v2

MCWorkers == {p1, p2}
MCWorkflows == {w1}
MCStepKeys == {k1, k2}
MCValues == {v1, v2}
MCBudgets == {2}
MCWindows == {1, 3}

Symmetry == Permutations(MCWorkers) \cup Permutations(MCValues) \cup Permutations(MCStepKeys)
=============================================================================
