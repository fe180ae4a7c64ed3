------------------------------- MODULE Wakeups -------------------------------
(***************************************************************************)
(* What a queue scored by visibility promises, with the clock left out:    *)
(* per workflow at most one wakeup, visible now or later, and at most one  *)
(* worker whose delivery is still live.  Whatever else touches the entry   *)
(* ends that delivery, and a delivery that is not live answers for         *)
(* nothing.  The requirements are those of the Scheduler protocol in       *)
(* without_durability/interfaces.py; module VisibilityQueue implements     *)
(* them with scores and receipts.                                          *)
(***************************************************************************)
CONSTANTS Workers,
          Workflows,
          NoWorker     \* nobody has a live delivery

VARIABLES visible,     \* per workflow: "none", "later" or "now"
          holder       \* per workflow, who may answer for its delivery

vars == <<visible, holder>>

Put(w, moment, who) ==
  /\ visible' = [visible EXCEPT ![w] = moment]
  /\ holder' = [holder EXCEPT ![w] = who]

Init ==
  /\ visible = [w \in Workflows |-> "none"]
  /\ holder = [w \in Workflows |-> NoWorker]

(* Somebody wants a pass, by their own clock: whatever delivery there is   *)
(* no longer answers for the workflow.                                     *)
Ask(w) == \E moment \in {"now", "later"} : Put(w, moment, NoWorker)

(* A worker takes what is visible, from whoever had it. *)
Take(p, w) == visible[w] = "now" /\ Put(w, "later", p)

(* The pass is over and nothing is owed. *)
Finish(p, w) == holder[w] = p /\ Put(w, "none", NoWorker)

(* The pass is over and another is owed at a deadline. *)
Suspend(p, w) ==
  holder[w] = p /\ \E moment \in {"now", "later"} : Put(w, moment, NoWorker)

(* Still here: the delivery is kept, unless the new name for it gets lost. *)
Keep(p, w) == holder[w] = p /\ \E who \in {p, NoWorker} : Put(w, "later", who)

(* Every wakeup there is for the workflow goes. *)
Withdraw(w) == Put(w, "none", NoWorker)

(* Time passes, for a lease or a deadline: the delivery is still live.     *)
Lapse ==
  \E due \in SUBSET {w \in Workflows : visible[w] = "later"} :
    /\ visible' = [w \in Workflows |-> IF w \in due THEN "now" ELSE visible[w]]
    /\ UNCHANGED holder

(* The worker is gone, without an answer. *)
Leave(p) ==
  /\ holder' = [w \in Workflows |-> IF holder[w] = p THEN NoWorker ELSE holder[w]]
  /\ UNCHANGED visible

Next ==
  \/ Lapse
  \/ \E w \in Workflows : Ask(w) \/ Withdraw(w)
  \/ \E p \in Workers : Leave(p)
  \/ \E p \in Workers, w \in Workflows :
       Take(p, w) \/ Finish(p, w) \/ Suspend(p, w) \/ Keep(p, w)

Spec == Init /\ [][Next]_vars
=============================================================================
