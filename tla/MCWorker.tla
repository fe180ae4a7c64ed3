------------------------------ MODULE MCWorker ------------------------------
(***************************************************************************)
(* Two slots and one workflow: passes of different workflows share nothing *)
(* but the queue's order, which VisibilityQueue has.  The script has every *)
(* kind of operation; the short one begins without an input.               *)
(***************************************************************************)
EXTENDS Worker

CONSTANTS p1, p2, w1

MCWorkers == {p1, p2}
MCWorkflows == {w1}
MCScript == <<"step", "await", "transact", "sleep">>
MCShortScript == <<"step">>
=============================================================================
