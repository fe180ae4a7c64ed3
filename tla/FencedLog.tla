------------------------------ MODULE FencedLog ------------------------------
(***************************************************************************)
(* What a Checkpointer promises, with the clock and both deadlines left    *)
(* out: per workflow, a log of records that is only ever appended to or    *)
(* discarded whole, and a fence that rises with every pass granted.  A     *)
(* pass writes only while no newer one has been granted and nothing has    *)
(* been discarded since; the outside world writes without a pass.  The     *)
(* requirements are those of the Checkpointer protocol in                  *)
(* without_durability/interfaces.py; module Checkpointer implements them   *)
(* with leases and budgets.                                                *)
(***************************************************************************)
EXTENDS Integers, Sequences

CONSTANTS Workers,    \* whatever may hold a Pass
          Workflows,
          Keys,       \* every key a record may be filed under
          Values

VARIABLES fence,      \* per workflow, the highest token there is
          held,       \* per worker and workflow, the token of its Pass; 0: none
          log         \* per workflow, its records in the order they landed

vars == <<fence, held, log>>

Record == [key : Keys, value : Values, by : Nat]

KeysOf(records) == {records[i].key : i \in 1..Len(records)}

Init ==
  /\ fence = [w \in Workflows |-> 0]
  /\ held = [p \in Workers |-> [w \in Workflows |-> 0]]
  /\ log = [w \in Workflows |-> <<>>]

(* A Pass outranks everything granted before it. *)
Grant(p, w) ==
  /\ fence' = [fence EXCEPT ![w] = @ + 1]
  /\ held' = [held EXCEPT ![p][w] = fence[w] + 1]
  /\ UNCHANGED log

(* The newest pass, and no other, may add to the log. *)
Write(p, w, k, v) ==
  /\ held[p][w] > 0
  /\ held[p][w] = fence[w]
  /\ k \notin KeysOf(log[w])
  /\ log' = [log EXCEPT ![w] = Append(@, [key |-> k, value |-> v, by |-> held[p][w]])]
  /\ UNCHANGED <<fence, held>>

(* An answer or a message from outside any pass. *)
Answer(w, k, v) ==
  /\ k \notin KeysOf(log[w])
  /\ log' = [log EXCEPT ![w] = Append(@, [key |-> k, value |-> v, by |-> 0])]
  /\ UNCHANGED <<fence, held>>

(* Forgetting a workflow fences every pass there is at it. *)
Forget(w) ==
  /\ log' = [log EXCEPT ![w] = <<>>]
  /\ fence' = [fence EXCEPT ![w] = IF @ = 0 THEN 0 ELSE @ + 1]
  /\ UNCHANGED held

(* The worker is gone, and its Pass with it. *)
Drop(p, w) ==
  /\ held' = [held EXCEPT ![p][w] = 0]
  /\ UNCHANGED <<fence, log>>

Next ==
  \E w \in Workflows :
    \/ \E p \in Workers :
         \/ Grant(p, w)
         \/ \E k \in Keys, v \in Values : Write(p, w, k, v)
         \/ Drop(p, w)
    \/ \E k \in Keys, v \in Values : Answer(w, k, v)
    \/ Forget(w)

Spec == Init /\ [][Next]_vars
=============================================================================
