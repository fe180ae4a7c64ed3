------------------------- MODULE MCMemoryScheduler -------------------------
(***************************************************************************)
(* Two workers: every race of this store is between two deliveries of one  *)
(* workflow, or two holders of one delivery.  Two workflows, so that one   *)
(* may hold the other up.                                                  *)
(***************************************************************************)
EXTENDS MemoryScheduler

CONSTANTS p1, p2, w1, w2, r1, r2, r3

MCWorkers == {p1, p2}
MCWorkflows == {w1, w2}
MCReceipts == {r1, r2, r3}
MCDelays == {1}
MCSoonAndLate == {1, 2}
=============================================================================
