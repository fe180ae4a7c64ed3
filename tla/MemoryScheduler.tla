--------------------------- MODULE MemoryScheduler ---------------------------
(***************************************************************************)
(* The queue of without_durability as MemoryScheduler keeps it, which is   *)
(* "like the stream it stands in for": workflows ready to run in a deque,  *)
(* workflows asleep until a deadline, and the deliveries workers have      *)
(* taken and not yet answered for.  Every method is one action, since none *)
(* awaits between reading and writing (`next_ready' parks first and reads  *)
(* afterwards).                                                            *)
(*                                                                         *)
(* Clocks are relative: a deadline and the time a delivery stays its       *)
(* taker's are the ticks left until then, 0 from then on, so nothing       *)
(* bounds how long the system runs.  A receipt is a counter in the code,   *)
(* and here a name no one is using: only its equality is ever asked.       *)
(***************************************************************************)
EXTENDS Integers, Sequences, FiniteSets, SequencesExt

CONSTANTS Workers,      \* each acts on one delivery at a time
          Workflows,
          Receipts,
          NoDelivery,   \* an idle worker's hand
          Lease,        \* how long a delivery stays its taker's, in ticks
          Delays,       \* how far ahead a pass may ask to be woken, in ticks
          MaxQueue,     \* bound: no wakeup is made ready behind this many
          MaxFailures   \* bound: so many passes end without an answer

ASSUME TimesNatural == Lease \in Nat \ {0} /\ Delays \subseteq Nat
ASSUME FailuresNatural == MaxFailures \in Nat

VARIABLES
  queue,        \* the workflows ready to run, oldest first
  sleeping,     \* per workflow, the ticks until its deadline; or Never
  outstanding,  \* the unanswered deliveries, oldest receipt first
  hand,         \* per worker, the delivery it is acting on
  failures,     \* how many deliveries were dropped without an answer
  asked,        \* history: when the earliest pass asked for and not begun is due
  gone,         \* history: cancelled, and not made ready since
  kept          \* history: per worker, the ticks its delivery was promised it for

vars == <<queue, sleeping, outstanding, hand, failures, asked, gone, kept>>
store == <<queue, sleeping, outstanding>>

Never == -1

Times == Nat \cup {Never}

Delivery == [receipt : Receipts, workflow : Workflows]

(* A tick passes for a deadline or a promise that has one. *)
Passed(t) == IF t > 0 THEN t - 1 ELSE t

Sooner(s, t) == IF s = Never \/ (t # Never /\ t < s) THEN t ELSE s

(* The elements of a sequence at some of its places, in the order they had. *)
Picked(s, places) ==
  [k \in 1 .. Cardinality(places) |->
     s[CHOOSE i \in places : Cardinality({j \in places : j < i}) = k - 1]]

(* How the store finds a delivery: by its receipt alone. *)
Holds(receipt) == \E i \in DOMAIN outstanding : outstanding[i].receipt = receipt

Popped(receipt) ==
  Picked(outstanding, {i \in DOMAIN outstanding : outstanding[i].receipt # receipt})

(* The delivery put back in its place, good for another lease. *)
Restarted(receipt) ==
  [i \in DOMAIN outstanding |->
     IF outstanding[i].receipt = receipt THEN [outstanding[i] EXCEPT !.left = Lease]
     ELSE outstanding[i]]

Fresh == {r \in Receipts : ~ Holds(r) /\ \A p \in Workers :
                             hand[p] = NoDelivery \/ hand[p].receipt # r}

Init ==
  /\ queue = <<>>
  /\ sleeping = [w \in Workflows |-> Never]
  /\ outstanding = <<>>
  /\ hand = [p \in Workers |-> NoDelivery]
  /\ failures = 0
  /\ asked = [w \in Workflows |-> Never]
  /\ gone = [w \in Workflows |-> FALSE]
  /\ kept = [p \in Workers |-> 0]

Tick ==
  /\ sleeping' = [w \in Workflows |-> Passed(sleeping[w])]
  /\ outstanding' = [i \in DOMAIN outstanding |-> [outstanding[i] EXCEPT !.left = Passed(@)]]
  /\ asked' = [w \in Workflows |-> Passed(asked[w])]
  /\ kept' = [p \in Workers |-> Passed(kept[p])]
  /\ UNCHANGED <<queue, hand, failures, gone>>

MakeReady(w) ==
  /\ Len(queue) < MaxQueue
  /\ queue' = Append(queue, w)
  /\ asked' = [asked EXCEPT ![w] = 0]
  /\ gone' = [gone EXCEPT ![w] = FALSE]
  /\ UNCHANGED <<sleeping, outstanding, hand, failures, kept>>

(* A worker is through with its delivery, answered or not. *)
LetsGo(p) ==
  /\ hand' = [hand EXCEPT ![p] = NoDelivery]
  /\ kept' = [kept EXCEPT ![p] = 0]

(* Fault: the deadline is written whether or not the delivery is still live. *)
WakeAtAlways(p, delay) ==
  /\ hand[p] # NoDelivery
  /\ outstanding' = Popped(hand[p].receipt)
  /\ sleeping' = [sleeping EXCEPT ![hand[p].workflow] = delay]
  /\ asked' = [asked EXCEPT ![hand[p].workflow] = Sooner(@, delay)]
  /\ LetsGo(p)
  /\ UNCHANGED <<queue, failures, gone>>

(* Answer for the delivery and set the next pass.  Written only if the     *)
(* delivery is still live: a cancelled workflow is not put back to sleep.  *)
WakeAt(p, delay) ==
  /\ hand[p] # NoDelivery
  /\ LET d == hand[p] IN
       IF Holds(d.receipt)
       THEN /\ outstanding' = Popped(d.receipt)
            /\ sleeping' = [sleeping EXCEPT ![d.workflow] = delay]
            /\ asked' = [asked EXCEPT ![d.workflow] = Sooner(@, delay)]
       ELSE UNCHANGED <<outstanding, sleeping, asked>>
  /\ LetsGo(p)
  /\ UNCHANGED <<queue, failures, gone>>

(* Fault: every sleeper that is due leaves its bed and one reaches the queue. *)
WakeOne ==
  LET due == {w \in Workflows : sleeping[w] = 0} IN
  /\ due # {}
  /\ sleeping' = [w \in Workflows |-> IF w \in due THEN Never ELSE sleeping[w]]
  /\ \E w \in due : queue' = Append(queue, w)
  /\ UNCHANGED <<outstanding, hand, failures, asked, gone, kept>>

(* Every sleeper that is due goes to the queue in one step; in which order *)
(* is the order they went to sleep in, which is left open here.            *)
WakeDue ==
  LET due == {w \in Workflows : sleeping[w] = 0} IN
  /\ due # {}
  /\ sleeping' = [w \in Workflows |-> IF w \in due THEN Never ELSE sleeping[w]]
  /\ \E woken \in SetToSeqs(due) : queue' = queue \o woken
  /\ UNCHANGED <<outstanding, hand, failures, asked, gone, kept>>

(* The pass p is about to begin covers whatever was asked for before it.   *)
Begins(p, d) ==
  /\ hand' = [hand EXCEPT ![p] = d]
  /\ asked' = [asked EXCEPT ![d.workflow] = Never]
  /\ kept' = [kept EXCEPT ![p] = Lease]

(* Fault: the newest wakeup is taken first. *)
NextReadyLast(p) ==
  /\ hand[p] = NoDelivery
  /\ queue # <<>>
  /\ queue' = Front(queue)
  /\ Fresh # {}
  /\ LET r == CHOOSE r \in Fresh : TRUE IN
       /\ outstanding' = Append(outstanding, [receipt |-> r, workflow |-> Last(queue), left |-> Lease])
       /\ Begins(p, [receipt |-> r, workflow |-> Last(queue)])
  /\ UNCHANGED <<sleeping, failures, gone>>

NextReady(p) ==
  /\ hand[p] = NoDelivery
  /\ queue # <<>>
  /\ queue' = Tail(queue)
  /\ Fresh # {}
  /\ LET r == CHOOSE r \in Fresh : TRUE IN
       /\ outstanding' = Append(outstanding, [receipt |-> r, workflow |-> Head(queue), left |-> Lease])
       /\ Begins(p, [receipt |-> r, workflow |-> Head(queue)])
  /\ UNCHANGED <<sleeping, failures, gone>>

(* Fault: the delivery taken over is as stale as it was. *)
ReclaimStale(p) ==
  /\ hand[p] = NoDelivery
  /\ \E i \in DOMAIN outstanding :
       /\ outstanding[i].left = 0
       /\ \A j \in 1 .. i - 1 : outstanding[j].left > 0
       /\ Begins(p, [receipt |-> outstanding[i].receipt, workflow |-> outstanding[i].workflow])
  /\ UNCHANGED <<store, failures, gone>>

(* The oldest delivery nobody has spoken for in a lease changes hands,     *)
(* under the receipt it has.                                               *)
Reclaim(p) ==
  /\ hand[p] = NoDelivery
  /\ \E i \in DOMAIN outstanding :
       /\ outstanding[i].left = 0
       /\ \A j \in 1 .. i - 1 : outstanding[j].left > 0
       /\ outstanding' = Restarted(outstanding[i].receipt)
       /\ Begins(p, [receipt |-> outstanding[i].receipt, workflow |-> outstanding[i].workflow])
  /\ UNCHANGED <<queue, sleeping, failures, gone>>

(* Keep the delivery another lease; silent about one no longer held. *)
Extend(p) ==
  /\ hand[p] # NoDelivery
  /\ outstanding' = Restarted(hand[p].receipt)
  /\ kept' = [kept EXCEPT ![p] = IF Holds(hand[p].receipt) THEN Lease ELSE @]
  /\ UNCHANGED <<queue, sleeping, hand, failures, asked, gone>>

(* Every wakeup of the workflow goes, wherever the store has it.           *)
Cancel(w) ==
  /\ sleeping' = [sleeping EXCEPT ![w] = Never]
  /\ outstanding' = Picked(outstanding, {i \in DOMAIN outstanding : outstanding[i].workflow # w})
  /\ queue' = Picked(queue, {i \in DOMAIN queue : queue[i] # w})
  /\ asked' = [asked EXCEPT ![w] = Never]
  /\ gone' = [gone EXCEPT ![w] = TRUE]
  /\ UNCHANGED <<hand, failures, kept>>

Done(p) ==
  /\ hand[p] # NoDelivery
  /\ outstanding' = Popped(hand[p].receipt)
  /\ LetsGo(p)
  /\ UNCHANGED <<queue, sleeping, failures, asked, gone>>

(* The pass failed or its worker died: the delivery is left unanswered.    *)
Abandon(p) ==
  /\ hand[p] # NoDelivery
  /\ failures < MaxFailures
  /\ failures' = failures + 1
  /\ LetsGo(p)
  /\ UNCHANGED <<store, asked, gone>>

Pull(p) == Reclaim(p) \/ NextReady(p)

Answer(p) == Done(p) \/ \E delay \in Delays : WakeAt(p, delay)

Next ==
  \/ Tick
  \/ WakeDue
  \/ \E w \in Workflows : MakeReady(w) \/ Cancel(w)
  \/ \E p \in Workers : Pull(p) \/ Answer(p) \/ Extend(p) \/ Abandon(p)

(* Every worker keeps pulling and its passes end, and the timer keeps      *)
(* sweeping the sleepers.                                                  *)
Fairness ==
  /\ WF_vars(Tick)
  /\ WF_vars(WakeDue)
  /\ \A p \in Workers : WF_vars(Pull(p)) /\ WF_vars(Answer(p))

Spec == Init /\ [][Next]_vars /\ Fairness

-----------------------------------------------------------------------------
TypeOK ==
  /\ queue \in Seq(Workflows)
  /\ sleeping \in [Workflows -> Times]
  /\ outstanding \in Seq([receipt : Receipts, workflow : Workflows, left : 0 .. Lease])
  /\ hand \in [Workers -> Delivery \cup {NoDelivery}]
  /\ failures \in 0 .. MaxFailures
  /\ asked \in [Workflows -> Times]
  /\ gone \in [Workflows -> BOOLEAN]
  /\ kept \in [Workers -> 0 .. Lease]

(* A wakeup is never lost: while a pass is owed that nobody has begun, the *)
(* workflow is in the queue or asleep, whatever passes at it end, are      *)
(* taken over, or answer late.                                             *)
NoWakeupLost ==
  \A w \in Workflows : asked[w] # Never => w \in ToSet(queue) \/ sleeping[w] # Never

(* Nothing resurrects a cancelled workflow: until somebody makes it ready  *)
(* again the store holds no wakeup for it, however late the passes in      *)
(* flight answer.                                                          *)
CancelSticks ==
  \A w \in Workflows : gone[w] =>
    /\ w \notin ToSet(queue)
    /\ sleeping[w] = Never
    /\ \A i \in DOMAIN outstanding : outstanding[i].workflow # w

(* A delivery is taken over only from a worker that was promised it no     *)
(* longer: one that keeps extending, or that has only just taken it over   *)
(* itself, is left alone.                                                  *)
TakenOverWhenSilent ==
  [][\A p, q \in Workers :
       hand[q] = NoDelivery /\ hand[p] # NoDelivery /\ hand'[q] = hand[p]
         => kept[p] = 0 \/ ~ Holds(hand[p].receipt)]_vars

(* A workflow asked for is run: whoever dies holding it, a pass begins     *)
(* that has seen what was asked, or the workflow is cancelled.             *)
EveryWakeupServed == \A w \in Workflows : asked[w] # Never ~> asked[w] = Never

(* A pass asked for sooner is not put off by a deadline that a pass in     *)
(* flight writes later (interfaces.py: `wake_at' MUST NOT overwrite a      *)
(* wakeup that arrived since that delivery was taken).                     *)
AskedIsKept ==
  \A w \in Workflows : asked[w] # Never =>
    w \in ToSet(queue) \/ (sleeping[w] # Never /\ sleeping[w] <= asked[w])
=============================================================================
