------------------------------- MODULE Worker -------------------------------
(***************************************************************************)
(* The worker of without_durability (worker.py) between its two stores:    *)
(* a pass is taken off the queue, claimed, replayed from its records and   *)
(* run to a suspension, while a ticker renews both the claim and the       *)
(* delivery, clients answer through SplitDurable (interfaces.py) and a     *)
(* workflow may be deleted.  The stores are what their own modules prove   *)
(* of them, PassLog and Wakeups; this module adds the deadlines of a     *)
(* claim, reduced to whether it is alive, and the awaits between calls.    *)
(*                                                                         *)
(* A body is a script of operations whose keys are their positions, run in *)
(* order from the top by every pass, as stepwise.py's Run does.  A worker  *)
(* here is one slot of the pool: a task running `advance'.  A store whose  *)
(* Durable is one commit (SqliteDurable, PostgresDurable) has the          *)
(* behaviours below in which nothing comes between the two halves.         *)
(***************************************************************************)
EXTENDS Integers, Sequences

CONSTANTS Workers,           \* slots of the pools, each its own process
          Workflows,
          NoWorker,          \* nobody has a live delivery
          NoWorkflow,        \* what an idle slot is at
          Script,            \* the body: "step", "transact", "await" or "sleep"
          MaxInterruptions   \* bound: crashes, failures and lapses per workflow

Kinds == {"step", "transact", "await", "sleep"}

ASSUME ScriptIsOperations == Script \in Seq(Kinds)
ASSUME NobodyNowhere == NoWorker \notin Workers /\ NoWorkflow \notin Workflows
ASSUME InterruptionsBounded == MaxInterruptions \in Nat

VARIABLES
  visible, holder,    \* the queue: module Wakeups
  newest, recorded,   \* the checkpoints: module PassLog
  claim,       \* per workflow: "alive", "quiet" (its lease lapsed) or "free"
  matured,     \* per workflow, the deadlines that have passed
  pc,          \* per worker, where its task is
  task,        \* per worker, the workflow of its delivery
  seen,        \* per worker, the keys in its Run.recorded
  ticker,      \* per worker: "rest", or "renewed": the claim is, the delivery not yet
  outcome,     \* per worker, what its pass came to
  told,        \* per workflow, the inputs its client has had acknowledged
  half,        \* per workflow, the input recorded and not yet queued; 0: none
  deletion,    \* per workflow: "none", "cancelled" or "deleted"
  withdrawn,   \* history: wakeups cancelled, and not made ready since
  effects,     \* history: per workflow and key, how often its effect was performed
  interrupted  \* history: per workflow, how often something went wrong

queue == <<visible, holder>>
store == <<newest, recorded, claim>>
slot == <<pc, task, seen, ticker, outcome>>
outside == <<told, half, deletion, withdrawn>>
history == <<effects, interrupted>>
vars == <<queue, store, slot, outside, matured, history>>

Steps == 1..Len(Script)

Queue == INSTANCE Wakeups
Log == INSTANCE PassLog WITH Keys <- Steps

(* The operation a body that knows `keys' gets to next: the first one not  *)
(* answered, where a sleep is answered by its deadline being past.         *)
Answered(w, keys) == {k \in Steps \cap keys : Script[k] = "sleep" => k \in matured[w]}

Next(w, keys) ==
  IF Steps \subseteq Answered(w, keys) THEN 0
  ELSE CHOOSE k \in Steps \ Answered(w, keys) : 1..(k - 1) \subseteq Answered(w, keys)

(* What the fence lets through. *)
Fits(p) == newest[task[p]] = p

(* The newest Pass at w is in the hands of a task that still runs.         *)
InPass(p) == pc[p] \in {"claimed", "running", "performing"}
Attended(w) == \E p \in Workers : task[p] = w /\ InPass(p) /\ Fits(p)

Interrupted(w) ==
  /\ interrupted[w] < MaxInterruptions
  /\ interrupted' = [interrupted EXCEPT ![w] = @ + 1]

Goes(p, to) == pc' = [pc EXCEPT ![p] = to]

(* The slot is free for the next delivery. *)
Idles(p) ==
  /\ Goes(p, "idle")
  /\ task' = [task EXCEPT ![p] = NoWorkflow]
  /\ seen' = [seen EXCEPT ![p] = {}]
  /\ ticker' = [ticker EXCEPT ![p] = "rest"]
  /\ outcome' = [outcome EXCEPT ![p] = "none"]

(* The pass has come to something; its claim is still to be released.      *)
EndsAs(p, what) ==
  /\ Goes(p, "over")
  /\ outcome' = [outcome EXCEPT ![p] = what]

Init ==
  /\ Queue!Init
  /\ Log!Init
  /\ claim = [w \in Workflows |-> "free"]
  /\ matured = [w \in Workflows |-> {}]
  /\ pc = [p \in Workers |-> "idle"]
  /\ task = [p \in Workers |-> NoWorkflow]
  /\ seen = [p \in Workers |-> {}]
  /\ ticker = [p \in Workers |-> "rest"]
  /\ outcome = [p \in Workers |-> "none"]
  /\ told = [w \in Workflows |-> {}]
  /\ half = [w \in Workflows |-> 0]
  /\ deletion = [w \in Workflows |-> "none"]
  /\ withdrawn = [w \in Workflows |-> FALSE]
  /\ effects = [w \in Workflows |-> [k \in Steps |-> 0]]
  /\ interrupted = [w \in Workflows |-> 0]

-----------------------------------------------------------------------------
(* A pass, in the order `advance' takes. *)

Take(p, w) ==
  /\ pc[p] = "idle"
  /\ Queue!Take(p, w)
  /\ Goes(p, "taken")
  /\ task' = [task EXCEPT ![p] = w]
  /\ UNCHANGED <<store, seen, ticker, outcome, outside, matured, history>>

(* Fault: whether the claim is alive is not asked. *)
ClaimAnyway(p) ==
  /\ pc[p] = "taken"
  /\ Log!Grant(p, task[p])
  /\ claim' = [claim EXCEPT ![task[p]] = "alive"]
  /\ Goes(p, "claimed")
  /\ UNCHANGED <<queue, task, seen, ticker, outcome, outside, matured, history>>

(* Fault: only a claim handed back, or past its budget, is granted anew. *)
ClaimHandedBack(p) ==
  /\ pc[p] = "taken"
  /\ IF claim[task[p]] # "free"
     THEN Goes(p, "contended") /\ UNCHANGED store
     ELSE /\ Log!Grant(p, task[p])
          /\ claim' = [claim EXCEPT ![task[p]] = "alive"]
          /\ Goes(p, "claimed")
  /\ UNCHANGED <<queue, task, seen, ticker, outcome, outside, matured, history>>

Claim(p) ==
  /\ pc[p] = "taken"
  /\ IF claim[task[p]] = "alive"
     THEN Goes(p, "contended") /\ UNCHANGED store
     ELSE /\ Log!Grant(p, task[p])
          /\ claim' = [claim EXCEPT ![task[p]] = "alive"]
          /\ Goes(p, "claimed")
  /\ UNCHANGED <<queue, task, seen, ticker, outcome, outside, matured, history>>

(* The records as of now are what the pass goes by. *)
Load(p) ==
  /\ pc[p] = "claimed"
  /\ seen' = [seen EXCEPT ![p] = recorded[task[p]]]
  /\ Goes(p, "running")
  /\ UNCHANGED <<queue, store, task, ticker, outcome, outside, matured, history>>

(* The operation p's body is at, if it is one of `kind'.                   *)
At(p, kind) ==
  {k \in Steps : pc[p] = "running" /\ k = Next(task[p], seen[p]) /\ Script[k] = kind}

(* What a write does to the store: a sign of life, and a record unless the *)
(* key has one. *)
Writes(p, k) ==
  /\ claim' = [claim EXCEPT ![task[p]] = IF @ = "quiet" THEN "alive" ELSE @]
  /\ Log!Write(p, task[p], k)
  /\ seen' = [seen EXCEPT ![p] = @ \cup {k}]

PerformsEffect(p, k) == effects' = [effects EXCEPT ![task[p]][k] = @ + 1]

(* The effect of a step; its record is another await. *)
Perform(p) ==
  /\ \E k \in At(p, "step") : PerformsEffect(p, k)
  /\ Goes(p, "performing")
  /\ UNCHANGED <<queue, store, task, seen, ticker, outcome, outside, matured, interrupted>>

(* The write is held past a cancellation: a pass cancelled meanwhile ends  *)
(* only once it has landed or been refused.                                *)
Record(p) ==
  /\ pc[p] = "performing"
  /\ IF Fits(p)
     THEN /\ Writes(p, Next(task[p], seen[p]))
          /\ Goes(p, CASE outcome[p] = "lost" -> "lost"
                       [] outcome[p] = "stopped" -> "over"
                       [] OTHER -> "running")
     ELSE /\ Goes(p, IF outcome[p] = "stopped" THEN "over" ELSE "lost")
          /\ UNCHANGED <<store, seen>>
  /\ UNCHANGED <<queue, task, ticker, outcome, outside, matured, history>>

(* Fault: the commit is taken from whatever Pass brings it. *)
TransactPastFence(p) ==
  /\ \E k \in At(p, "transact") :
       /\ Log!Answer(task[p], k)
       /\ seen' = [seen EXCEPT ![p] = @ \cup {k}]
       /\ IF k \in recorded[task[p]] THEN UNCHANGED effects ELSE PerformsEffect(p, k)
  /\ UNCHANGED <<queue, claim, pc, task, ticker, outcome, outside, matured, interrupted>>

(* Fault: the store performs the work first, and looks at the fence after. *)
TransactUnfenced(p) ==
  /\ \E k \in At(p, "transact") :
       /\ PerformsEffect(p, k)
       /\ IF Fits(p)
          THEN Writes(p, k) /\ UNCHANGED pc
          ELSE Goes(p, "lost") /\ UNCHANGED <<store, seen>>
  /\ UNCHANGED <<queue, task, ticker, outcome, outside, matured, interrupted>>

(* The store performs the work and records it in one commit. *)
Transact(p) ==
  /\ \E k \in At(p, "transact") :
       IF Fits(p)
       THEN /\ Writes(p, k)
            /\ IF k \in recorded[task[p]] THEN UNCHANGED effects ELSE PerformsEffect(p, k)
            /\ UNCHANGED pc
       ELSE Goes(p, "lost") /\ UNCHANGED <<store, seen, effects>>
  /\ UNCHANGED <<queue, task, ticker, outcome, outside, matured, interrupted>>

(* A sleep records its deadline, and suspends until it has passed. *)
Sleep(p) ==
  /\ \E k \in At(p, "sleep") :
       IF k \in seen[p] THEN EndsAs(p, "sleeping") /\ UNCHANGED <<store, seen>>
       ELSE IF Fits(p) THEN Writes(p, k) /\ UNCHANGED <<pc, outcome>>
       ELSE Goes(p, "lost") /\ UNCHANGED <<store, seen, outcome>>
  /\ UNCHANGED <<queue, task, ticker, outside, matured, history>>

(* The value was not there when the pass was loaded. *)
Await(p) ==
  /\ At(p, "await") # {}
  /\ EndsAs(p, "blocked")
  /\ UNCHANGED <<queue, store, task, seen, ticker, outside, matured, history>>

Complete(p) ==
  /\ pc[p] = "running"
  /\ Next(task[p], seen[p]) = 0
  /\ EndsAs(p, "completed")
  /\ UNCHANGED <<queue, store, task, seen, ticker, outside, matured, history>>

(* The body raised, or a store it called did. *)
Fail(p) ==
  /\ InPass(p)
  /\ outcome[p] = "none"
  /\ Interrupted(task[p])
  /\ EndsAs(p, "failed")
  /\ UNCHANGED <<queue, store, task, seen, ticker, outside, matured, effects>>

(* The pool is being cancelled, and the pass with it. *)
Stop(p) ==
  /\ InPass(p)
  /\ outcome[p] = "none"
  /\ Interrupted(task[p])
  /\ outcome' = [outcome EXCEPT ![p] = "stopped"]
  /\ pc' = [pc EXCEPT ![p] = IF @ = "performing" THEN @ ELSE "over"]
  /\ UNCHANGED <<queue, store, task, seen, ticker, outside, matured, effects>>

(* Another pass owns the workflow: ask for another look shortly. *)
LookAgain(p) ==
  /\ \/ pc[p] = "contended" /\ Idles(p)
     \/ pc[p] = "lost" /\ ticker[p] = "rest" /\ EndsAs(p, "lost") /\ UNCHANGED <<task, seen, ticker>>
  /\ IF holder[task[p]] = p THEN Queue!Suspend(p, task[p]) ELSE UNCHANGED queue
  /\ UNCHANGED <<store, outside, matured, history>>

(* The claim is handed back before the delivery is answered for, except by *)
(* a pass that failed or was stopped, which leaves its delivery unanswered.*)
Release(p) ==
  /\ pc[p] = "over"
  /\ ticker[p] = "rest"
  /\ claim' = [claim EXCEPT ![task[p]] = IF Fits(p) THEN "free" ELSE @]
  /\ Log!Drop(p, task[p])
  /\ IF outcome[p] \in {"lost", "failed", "stopped"}
     THEN Idles(p) /\ Queue!Leave(p)
     ELSE Goes(p, "answering") /\ UNCHANGED <<queue, task, seen, ticker, outcome>>
  /\ UNCHANGED <<outside, matured, history>>

(* Fault: done is done, whatever has happened to the entry since. *)
AnswerBlind(p) ==
  /\ pc[p] = "answering"
  /\ IF outcome[p] = "sleeping"
     THEN IF holder[task[p]] = p THEN Queue!Suspend(p, task[p]) ELSE UNCHANGED queue
     ELSE Queue!Withdraw(task[p])
  /\ Idles(p)
  /\ UNCHANGED <<store, outside, matured, history>>

(* What the outcome owes; it counts for a live delivery alone. *)
Answer(p) ==
  /\ pc[p] = "answering"
  /\ IF holder[task[p]] # p THEN UNCHANGED queue
     ELSE IF outcome[p] = "sleeping" THEN Queue!Suspend(p, task[p])
     ELSE Queue!Finish(p, task[p])
  /\ Idles(p)
  /\ UNCHANGED <<store, outside, matured, history>>

-----------------------------------------------------------------------------
(* The ticker: the claim first, then the delivery. *)

(* A claim that cannot be renewed is the end of the pass, and the ticker's.*)
Renew(p) ==
  /\ InPass(p)
  /\ ticker[p] = "rest"
  /\ outcome[p] = "none"
  /\ IF Fits(p) /\ claim[task[p]] # "free"
     THEN /\ claim' = [claim EXCEPT ![task[p]] = "alive"]
          /\ ticker' = [ticker EXCEPT ![p] = "renewed"]
          /\ UNCHANGED <<pc, outcome>>
     ELSE /\ pc' = [pc EXCEPT ![p] = IF @ = "performing" THEN @ ELSE "lost"]
          /\ outcome' = [outcome EXCEPT ![p] = "lost"]
          /\ UNCHANGED <<claim, ticker>>
  /\ UNCHANGED <<queue, newest, recorded, task, seen, outside, matured, history>>

(* A pass that has ended waits for a renewal in flight.  The new name may  *)
(* be lost to an error of the store's.                                     *)
Extend(p) ==
  /\ ticker[p] = "renewed"
  /\ ticker' = [ticker EXCEPT ![p] = "rest"]
  /\ IF holder[task[p]] = p THEN Queue!Keep(p, task[p]) ELSE UNCHANGED queue
  /\ UNCHANGED <<store, pc, task, seen, outcome, outside, matured, history>>

(* The process of the slot is gone. *)
Crash(p) ==
  /\ pc[p] # "idle"
  /\ Interrupted(task[p])
  /\ Idles(p)
  /\ Queue!Leave(p)
  /\ Log!Drop(p, task[p])
  /\ UNCHANGED <<claim, outside, matured, effects>>

-----------------------------------------------------------------------------
(* Time. *)

(* The lease of a claim runs out: in the ordinary course once nobody is    *)
(* there to renew it, or under a worker too slow to.                       *)
ClaimLapses(w) ==
  /\ claim[w] = "alive"
  /\ claim' = [claim EXCEPT ![w] = "quiet"]
  /\ IF Attended(w) THEN Interrupted(w) ELSE UNCHANGED interrupted
  /\ UNCHANGED <<queue, newest, recorded, slot, outside, matured, effects>>

(* So does its budget. *)
BudgetEnds(w) ==
  /\ claim[w] # "free"
  /\ claim' = [claim EXCEPT ![w] = "free"]
  /\ IF Attended(w) THEN Interrupted(w) ELSE UNCHANGED interrupted
  /\ UNCHANGED <<queue, newest, recorded, slot, outside, matured, effects>>

(* A deadline or the lease of a delivery: the entry becomes visible. *)
BecomesVisible(w) ==
  /\ visible[w] = "later"
  /\ Queue!Put(w, "now", holder[w])
  /\ UNCHANGED <<store, slot, outside, matured, history>>

DeadlinePasses(w) ==
  /\ \E k \in recorded[w] \ matured[w] :
       Script[k] = "sleep" /\ matured' = [matured EXCEPT ![w] = @ \cup {k}]
  /\ UNCHANGED <<queue, store, slot, outside, history>>

-----------------------------------------------------------------------------
(* Clients. *)

(* Asked for without a value: a body that begins with something else.      *)
Submit(w) ==
  /\ Script[1] # "await"
  /\ 0 \notin told[w]
  /\ deletion[w] = "none"
  /\ told' = [told EXCEPT ![w] = @ \cup {0}]
  /\ Queue!Put(w, "now", NoWorker)
  /\ UNCHANGED <<store, slot, half, deletion, withdrawn, matured, history>>

(* `arrive', its first half: the value is recorded, and resubmitting one   *)
(* that is finds it there. *)
Supply(w, k) ==
  /\ Script[k] = "await"
  /\ k \notin told[w]
  /\ half[w] = 0
  /\ deletion[w] = "none"
  /\ half' = [half EXCEPT ![w] = k]
  /\ Log!Answer(w, k)
  /\ UNCHANGED <<queue, claim, slot, told, deletion, withdrawn, matured, history>>

(* Its second: the workflow is queued, and the client told so.             *)
MakeReady(w) ==
  /\ half[w] # 0
  /\ half' = [half EXCEPT ![w] = 0]
  /\ told' = [told EXCEPT ![w] = @ \cup {half[w]}]
  /\ withdrawn' = [withdrawn EXCEPT ![w] = FALSE]
  /\ Queue!Put(w, "now", NoWorker)
  /\ UNCHANGED <<store, slot, deletion, matured, history>>

(* The server the client asked dies between the two; the client does not   *)
(* know, and may ask again.                                                *)
ArriveDies(w) ==
  /\ half[w] # 0
  /\ Interrupted(w)
  /\ half' = [half EXCEPT ![w] = 0]
  /\ UNCHANGED <<queue, store, slot, told, deletion, withdrawn, matured, effects>>

(* `delete', its first half. *)
Cancel(w) ==
  /\ deletion[w] = "none"
  /\ deletion' = [deletion EXCEPT ![w] = "cancelled"]
  /\ withdrawn' = [withdrawn EXCEPT ![w] = TRUE]
  /\ Queue!Withdraw(w)
  /\ UNCHANGED <<store, slot, told, half, matured, history>>

(* Its second: the records go, and a claim there is goes free above every  *)
(* Pass. *)
Discard(w) ==
  /\ deletion[w] = "cancelled"
  /\ deletion' = [deletion EXCEPT ![w] = "deleted"]
  /\ Log!Forget(w)
  /\ claim' = [claim EXCEPT ![w] = "free"]
  /\ matured' = [matured EXCEPT ![w] = {}]
  /\ UNCHANGED <<queue, slot, told, half, withdrawn, history>>

-----------------------------------------------------------------------------
(* What a worker left to itself does next; the rest is the world's. *)
Advance(p) ==
  \/ Claim(p) \/ Load(p)
  \/ Perform(p) \/ Record(p) \/ Transact(p) \/ Sleep(p) \/ Await(p) \/ Complete(p)
  \/ LookAgain(p) \/ Release(p) \/ Answer(p)

Passing(p) ==
  \/ \E w \in Workflows : Take(p, w)
  \/ Advance(p)
  \/ Renew(p) \/ Extend(p)
  \/ Fail(p) \/ Stop(p) \/ Crash(p)

Elsewhere(w) ==
  \/ ClaimLapses(w) \/ BudgetEnds(w) \/ BecomesVisible(w) \/ DeadlinePasses(w)
  \/ \E k \in Steps : Supply(w, k)
  \/ Submit(w) \/ MakeReady(w) \/ ArriveDies(w)
  \/ Cancel(w) \/ Discard(w)

Step == (\E p \in Workers : Passing(p)) \/ (\E w \in Workflows : Elsewhere(w))

(* Workers that are not interrupted get on, leases nobody renews run out,  *)
(* deadlines pass, and a client whose call was lost resubmits it.          *)
Fairness ==
  /\ \A p \in Workers :
       /\ WF_vars(Advance(p)) /\ WF_vars(Extend(p))
       /\ \A w \in Workflows : SF_vars(Take(p, w))
  /\ \A w \in Workflows :
       /\ WF_vars(~Attended(w) /\ ClaimLapses(w))
       /\ WF_vars(holder[w] = NoWorker /\ BecomesVisible(w))
       /\ WF_vars(DeadlinePasses(w))
       /\ WF_vars(Submit(w)) /\ WF_vars(MakeReady(w))
       /\ \A k \in Steps : WF_vars(Supply(w, k))

Spec == Init /\ [][Step]_vars

FairSpec == Spec /\ Fairness

-----------------------------------------------------------------------------
TypeOK ==
  /\ claim \in [Workflows -> {"alive", "quiet", "free"}]
  /\ matured \in [Workflows -> SUBSET Steps]
  /\ pc \in [Workers -> {"idle", "taken", "contended", "claimed", "running",
                         "performing", "lost", "over", "answering"}]
  /\ task \in [Workers -> Workflows \cup {NoWorkflow}]
  /\ seen \in [Workers -> SUBSET Steps]
  /\ ticker \in [Workers -> {"rest", "renewed"}]
  /\ outcome \in [Workers -> {"none", "completed", "sleeping", "blocked",
                              "failed", "stopped", "lost"}]
  /\ told \in [Workflows -> SUBSET (0..Len(Script))]
  /\ half \in [Workflows -> 0..Len(Script)]
  /\ deletion \in [Workflows -> {"none", "cancelled", "deleted"}]
  /\ interrupted \in [Workflows -> 0..MaxInterruptions]

(* At least once, and no more often than something went wrong: until its   *)
(* record is deleted, each time the effect of a step is performed again is *)
(* paid for by a crash, a cancellation or a lapse under a worker.          *)
RepeatsArePaidFor ==
  \A w \in Workflows, k \in Steps :
    deletion[w] # "deleted" => effects[w][k] <= 1 + interrupted[w]

(* Exactly once: whatever goes wrong, a transacted effect is applied once  *)
(* per life of the workflow's records.                                     *)
TransactedOnce ==
  \A w \in Workflows, k \in Steps :
    Script[k] = "transact" => effects[w][k] <= IF deletion[w] = "deleted" THEN 2 ELSE 1

(* The records are a prefix of the script: no pass, however stale or late, *)
(* leaves a step recorded whose predecessors are not.                      *)
RecordedInOrder ==
  \A w \in Workflows : \A k \in recorded[w] :
    Script[k] # "await" => 1..(k - 1) \subseteq recorded[w]

(* A workflow that could get on, or that waits for a clock, has a wakeup,  *)
(* or a client about to see to one, whatever passes have read meanwhile.   *)
RunnableIsQueued ==
  \A w \in Workflows :
    LET k == Next(w, recorded[w]) IN
      /\ deletion[w] = "none" /\ told[w] # {}
      /\ k > 0
      /\ Script[k] # "await"
      => visible[w] # "none" \/ half[w] # 0 \/ \E i \in recorded[w] \ told[w] : Script[i] = "await"

(* Once deleted, and asked for by nobody since, a workflow stays deleted:   *)
(* no effect is performed for it and nothing is recorded ("a crash in the   *)
(* window costs a second call rather than a second run").                  *)
DeletedStaysEmpty ==
  \A w \in Workflows : deletion[w] = "deleted" /\ withdrawn[w] => recorded[w] = {}

(* A workflow whose inputs come is completed, unless it is deleted: it      *)
(* never waits for a worker that is gone, a wakeup that was dropped or a   *)
(* claim nobody hands back.                                                *)
Finishes ==
  \A w \in Workflows : <>(deletion[w] # "none" \/ Next(w, recorded[w]) = 0)
=============================================================================
