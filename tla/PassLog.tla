------------------------------- MODULE PassLog -------------------------------
(***************************************************************************)
(* A fenced log for whoever only asks who may write and what there is: the *)
(* tokens are left out for the one Pass the fence lets through, and the    *)
(* records for their keys.  A Pass is granted from whoever had it; the     *)
(* requirements are those of the Checkpointer protocol in                  *)
(* without_durability/interfaces.py.                                       *)
(***************************************************************************)
CONSTANTS Workers, Workflows, Keys,
          NoWorker     \* the fence lets nobody through

VARIABLES newest,      \* per workflow, who holds the Pass that may write
          recorded     \* per workflow, the keys that have a record

vars == <<newest, recorded>>

Init ==
  /\ newest = [w \in Workflows |-> NoWorker]
  /\ recorded = [w \in Workflows |-> {}]

Grant(p, w) ==
  /\ newest' = [newest EXCEPT ![w] = p]
  /\ UNCHANGED recorded

(* A key that has a record keeps the one it has. *)
Files(w, k) == recorded' = [recorded EXCEPT ![w] = @ \cup {k}]

Write(p, w, k) == newest[w] = p /\ Files(w, k) /\ UNCHANGED newest

Answer(w, k) == Files(w, k) /\ UNCHANGED newest

Forget(w) ==
  /\ newest' = [newest EXCEPT ![w] = NoWorker]
  /\ recorded' = [recorded EXCEPT ![w] = {}]

(* The Pass is in nobody's hands any more. *)
Drop(p, w) ==
  /\ newest' = [newest EXCEPT ![w] = IF @ = p THEN NoWorker ELSE @]
  /\ UNCHANGED recorded

Next ==
  \E w \in Workflows :
    \/ \E p \in Workers :
         Grant(p, w) \/ Drop(p, w) \/ \E k \in Keys : Write(p, w, k)
    \/ \E k \in Keys : Answer(w, k)
    \/ Forget(w)

Spec == Init /\ [][Next]_vars
=============================================================================
