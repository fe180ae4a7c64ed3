--------------------------- MODULE VisibilityQueue ---------------------------
(***************************************************************************)
(* The queue as one entry per workflow, scored by when it becomes visible: *)
(* queued is a score in the past, asleep one in the future, and being      *)
(* worked on one a lease ahead.  The score a take writes is the delivery's *)
(* receipt, and a worker answers for a delivery only while the entry still *)
(* has that score.  RedisSetScheduler (sorted_set.py) is what the actions  *)
(* translate, one server-side script each; SqliteScheduler and             *)
(* PostgresScheduler are the same queue as a table, with a plain lease for *)
(* a receipt where Redis adds half a millisecond: Mark is that half.       *)
(*                                                                         *)
(* A tick is the unit scores are whole numbers of, and any number of       *)
(* scripts may run within one.  A score is counted in half ticks.  Between *)
(* two scripts of one worker anything may run.                             *)
(***************************************************************************)
EXTENDS Integers

CONSTANTS Workers,     \* each acts on one delivery at a time
          Workflows,
          NoDelivery,  \* an idle worker's hand
          Lease,       \* how long a taken workflow stays invisible, in ticks
          Delays,      \* how far ahead a pass may ask to be woken, in ticks
          Mark,        \* the half tick a receipt is marked with: 1, or 0 for none
          Skew,        \* how far a caller's clock is off the server's, in ticks
          MaxTime      \* bound: the clock stops here

ASSUME TimesNatural ==
  Lease \in Nat \ {0} /\ Delays \subseteq Nat /\ Skew \in Nat /\ MaxTime \in Nat
ASSUME MarkIsHalf == Mark \in {0, 1}

VARIABLES
  now,       \* the server's clock
  schedule,  \* per workflow, the score of its entry; Absent: it has none
  hand,      \* per worker, the delivery it is acting on
  asked,     \* history: when the earliest pass asked for and not begun is due
  gone,      \* history: cancelled, and not made ready since
  made       \* history: the tick it was last made ready in

vars == <<now, schedule, hand, asked, gone, made>>

Absent == -1

Never == -1

Scores == Nat \cup {Absent}

Delivery == [workflow : Workflows, receipt : Nat]

ASSUME NoDeliveryIsNone == NoDelivery \notin Delivery
ASSUME NobodyIsNone == NoDelivery \notin Workers

(* A moment somebody names: whole ticks. *)
score(when) == 2 * when

(* The score a take or a renewal writes. *)
receipted(from) == 2 * (from + Lease) + Mark

Sooner(s, t) == IF s = Never \/ t < s THEN t ELSE s

Later(s, t) == IF s <= t THEN t ELSE s

(* What the clock of whoever calls may say. *)
Clocks == Later(0, now - Skew) .. (now + Skew)

(* The comparison DONE, SUSPEND and RENEW all make. *)
Live(p) ==
  /\ hand[p] # NoDelivery
  /\ schedule[hand[p].workflow] = hand[p].receipt

Init ==
  /\ now = 0
  /\ schedule = [w \in Workflows |-> Absent]
  /\ hand = [p \in Workers |-> NoDelivery]
  /\ asked = [w \in Workflows |-> Never]
  /\ gone = [w \in Workflows |-> FALSE]
  /\ made = [w \in Workflows |-> Never]

Tick ==
  /\ now < MaxTime
  /\ now' = now + 1
  /\ UNCHANGED <<schedule, hand, asked, gone, made>>

(* Visible now by the caller's clock, whatever it was waiting for before.  *)
MakeReady(w, at) ==
  /\ schedule' = [schedule EXCEPT ![w] = score(at)]
  /\ asked' = [asked EXCEPT ![w] = Sooner(@, at)]
  /\ gone' = [gone EXCEPT ![w] = FALSE]
  /\ made' = [made EXCEPT ![w] = now]
  /\ UNCHANGED <<now, hand>>

(* Fault: the entry is handed out under the score it has, and stays visible. *)
NextReadyInPlace(p, w) ==
  /\ hand[p] = NoDelivery
  /\ schedule[w] # Absent
  /\ schedule[w] <= score(now)
  /\ hand' = [hand EXCEPT ![p] = [workflow |-> w, receipt |-> schedule[w]]]
  /\ asked' = [asked EXCEPT ![w] = Never]
  /\ UNCHANGED <<now, schedule, gone, made>>

(* The workflow visible longest is pushed a lease into the future.  The    *)
(* pass that now begins covers whatever was asked for before it.           *)
NextReady(p, w) ==
  /\ hand[p] = NoDelivery
  /\ schedule[w] # Absent
  /\ schedule[w] <= score(now)
  /\ \A u \in Workflows : schedule[u] # Absent => schedule[w] <= schedule[u]
  /\ schedule' = [schedule EXCEPT ![w] = receipted(now)]
  /\ hand' = [hand EXCEPT ![p] = [workflow |-> w, receipt |-> receipted(now)]]
  /\ asked' = [asked EXCEPT ![w] = Never]
  /\ UNCHANGED <<now, gone, made>>

LetsGo(p) == hand' = [hand EXCEPT ![p] = NoDelivery]

(* Drop the workflow, unless something asked for another pass meanwhile.   *)
Done(p) ==
  /\ hand[p] # NoDelivery
  /\ schedule' = IF Live(p) THEN [schedule EXCEPT ![hand[p].workflow] = Absent] ELSE schedule
  /\ LetsGo(p)
  /\ UNCHANGED <<now, asked, gone, made>>

(* Fault: the deadline lands on whatever entry there is. *)
WakeAtBlind(p, delay) ==
  /\ hand[p] # NoDelivery
  /\ LET w == hand[p].workflow IN
       IF schedule[w] # Absent
       THEN /\ schedule' = [schedule EXCEPT ![w] = score(now + delay)]
            /\ asked' = [asked EXCEPT ![w] = Sooner(@, now + delay)]
       ELSE UNCHANGED <<schedule, asked>>
  /\ LetsGo(p)
  /\ UNCHANGED <<now, gone, made>>

(* Suspend until a deadline, under the same condition. *)
WakeAt(p, delay) ==
  /\ hand[p] # NoDelivery
  /\ LET w == hand[p].workflow IN
       IF Live(p)
       THEN /\ schedule' = [schedule EXCEPT ![w] = score(now + delay)]
            /\ asked' = [asked EXCEPT ![w] = Sooner(@, now + delay)]
       ELSE UNCHANGED <<schedule, asked>>
  /\ LetsGo(p)
  /\ UNCHANGED <<now, gone, made>>

(* Fault: a renewal writes the entry without comparing. *)
ExtendBlind(p) ==
  /\ hand[p] # NoDelivery
  /\ LET w == hand[p].workflow IN
       /\ schedule' = [schedule EXCEPT ![w] = receipted(now)]
       /\ hand' = [hand EXCEPT ![p].receipt = receipted(now)]
  /\ UNCHANGED <<now, asked, gone, made>>

(* Push the delivery a lease from now, which renames it.  The answer may   *)
(* be lost on its way to the worker, who then goes by the old name.        *)
Extend(p) ==
  /\ Live(p)
  /\ LET w == hand[p].workflow IN
       /\ schedule' = [schedule EXCEPT ![w] = receipted(now)]
       /\ hand' \in {[hand EXCEPT ![p].receipt = receipted(now)], hand}
  /\ UNCHANGED <<now, asked, gone, made>>

(* One entry is whichever of the three a workflow has. *)
Cancel(w) ==
  /\ schedule' = [schedule EXCEPT ![w] = Absent]
  /\ asked' = [asked EXCEPT ![w] = Never]
  /\ gone' = [gone EXCEPT ![w] = TRUE]
  /\ UNCHANGED <<now, hand, made>>

(* The pass failed or its worker died: the delivery is left unanswered.    *)
Abandon(p) ==
  /\ hand[p] # NoDelivery
  /\ LetsGo(p)
  /\ UNCHANGED <<now, schedule, asked, gone, made>>

Next ==
  \/ Tick
  \/ \E w \in Workflows :
       \/ \E at \in Clocks : MakeReady(w, at)
       \/ Cancel(w)
       \/ \E p \in Workers : NextReady(p, w)
  \/ \E p \in Workers :
       Done(p) \/ Extend(p) \/ Abandon(p) \/ \E delay \in Delays : WakeAt(p, delay)

Spec == Init /\ [][Next]_vars

-----------------------------------------------------------------------------
TypeOK ==
  /\ now \in Nat
  /\ schedule \in [Workflows -> Scores]
  /\ hand \in [Workers -> Delivery \cup {NoDelivery}]
  /\ asked \in [Workflows -> Nat \cup {Never}]
  /\ gone \in [Workflows -> BOOLEAN]
  /\ made \in [Workflows -> Nat \cup {Never}]

(* A wakeup asked for is neither removed nor put off: until a pass begins  *)
(* that covers it, the entry is there and visible by the time asked for    *)
(* or already, give or take the clocks (DONE, SUSPEND and RENEW leave      *)
(* whatever arrived since the take: "anything that did wrote a different   *)
(* score, so the comparison is the whole check").                          *)
AskedIsKept ==
  \A w \in Workflows : asked[w] # Never =>
    schedule[w] # Absent /\ schedule[w] <= score(Later(asked[w], now) + Skew)

(* A receipt answers for one delivery, whatever was taken over, extended   *)
(* or renamed, but for one case the millisecond leaves: the workflow was   *)
(* made ready in the very tick the receipt is of, and both were delivered  *)
(* in that tick.  A renewal or a take in any other tick ends the delivery  *)
(* before it, and no later score brings that one back to life.             *)
OneLiveDelivery ==
  \A p, q \in Workers :
    p # q /\ Live(p) /\ Live(q) /\ hand[p].workflow = hand[q].workflow =>
      LET w == hand[p].workflow IN
        made[w] # Never /\ hand[p].receipt = receipted(made[w])

(* Nothing resurrects a cancelled workflow before it is made ready again,  *)
(* however late the passes in flight answer or renew.                      *)
CancelSticks == \A w \in Workflows : gone[w] => schedule[w] = Absent

(* A delivery nobody answered for is not forgotten: a workflow leaves the  *)
(* schedule only by being cancelled or by the delivery it was last taken   *)
(* under being done.                                                       *)
LeavesWhenAnswered ==
  [][\A w \in Workflows :
       schedule[w] # Absent /\ schedule'[w] = Absent =>
         \/ gone'[w]
         \/ \E p \in Workers : Live(p) /\ hand[p].workflow = w /\ hand'[p] = NoDelivery]_vars

(* No two workers go by one receipt of one workflow. *)
ReceiptsApart ==
  \A p, q \in Workers : p # q /\ hand[p] # NoDelivery => hand[p] # hand[q]

Visibility(w) ==
  IF schedule[w] = Absent THEN "none"
  ELSE IF schedule[w] <= score(now) THEN "now" ELSE "later"

LiveHolders(w) == {p \in Workers : Live(p) /\ hand[p].workflow = w}

Holder(w) == IF LiveHolders(w) = {} THEN NoDelivery ELSE CHOOSE p \in LiveHolders(w) : TRUE

Wake == INSTANCE Wakeups WITH
          NoWorker <- NoDelivery,
          visible <- [w \in Workflows |-> Visibility(w)],
          holder <- [w \in Workflows |-> Holder(w)]

(* Scores and receipts are no more than a way to keep one wakeup per       *)
(* workflow and to know whose delivery is live: every script that neither  *)
(* begins nor ends with two workers under one receipt does what the        *)
(* abstract queue does, or nothing.                                        *)
QueueSpec ==
  Wake!Init /\ [][ReceiptsApart /\ ReceiptsApart' => Wake!Next]_(Wake!vars)
=============================================================================
