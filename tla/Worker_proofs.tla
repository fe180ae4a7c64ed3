---------------------------- MODULE Worker_proofs ----------------------------
EXTENDS Worker, FiniteSetTheorems, WellFoundedInduction, TLAPS
(***************************************************************************)
(* The theorems of module Worker, for any number of workers, workflows and *)
(* operations and any bound on interruptions.                              *)
(*                                                                         *)
(* None of the properties is inductive: that a step's effect is repeated   *)
(* only for an interruption is a matter of who may still perform it. The   *)
(* inductive invariant WorkerInv says, beyond the types, which task the    *)
(* fence and a delivery belong to, what the body in that task knows of the *)
(* records, and which repeats are owed: a Pass that is exposed (its claim  *)
(* is not alive, so another may be granted before it records) and every    *)
(* task that has been fenced out but may perform its step yet each stand   *)
(* for one effect more than is recorded, and each came of an interruption. *)
(***************************************************************************)

(* What a body that knows `keys' need not wait for, where the deadlines in  *)
(* `past' have passed, and the operation it is at.                          *)
Settled(keys, past) == {k \in Steps \cap keys : Script[k] = "sleep" => k \in past}

First(keys, past, k) ==
  /\ k \in Steps \ Settled(keys, past)
  /\ 1..(k - 1) \subseteq Settled(keys, past)

QueueTypes ==
  /\ visible \in [Workflows -> {"none", "later", "now"}]
  /\ holder \in [Workflows -> Workers \cup {NoWorker}]

StoreTypes ==
  /\ newest \in [Workflows -> Workers \cup {NoWorker}]
  /\ recorded \in [Workflows -> SUBSET Steps]
  /\ claim \in [Workflows -> {"alive", "quiet", "free"}]
  /\ matured \in [Workflows -> SUBSET Steps]

SlotTypes ==
  /\ pc \in [Workers -> {"idle", "taken", "contended", "claimed", "running",
                         "performing", "lost", "over", "answering"}]
  /\ task \in [Workers -> Workflows \cup {NoWorkflow}]
  /\ seen \in [Workers -> SUBSET Steps]
  /\ ticker \in [Workers -> {"rest", "renewed"}]
  /\ outcome \in [Workers -> {"none", "completed", "sleeping", "blocked",
                              "failed", "stopped", "lost"}]

OutsideTypes ==
  /\ told \in [Workflows -> SUBSET (0..Len(Script))]
  /\ half \in [Workflows -> 0..Len(Script)]
  /\ deletion \in [Workflows -> {"none", "cancelled", "deleted"}]
  /\ withdrawn \in [Workflows -> BOOLEAN]

HistoryTypes ==
  /\ effects \in [Workflows -> [Steps -> Nat]]
  /\ interrupted \in [Workflows -> 0..MaxInterruptions]

Types == QueueTypes /\ StoreTypes /\ SlotTypes /\ OutsideTypes /\ HistoryTypes

(* What a task has come to goes with where it is. *)
OutcomeFits ==
  \A p \in Workers :
    /\ pc[p] = "idle" <=> task[p] = NoWorkflow
    /\ pc[p] \in {"idle", "taken", "contended", "claimed", "running"} => outcome[p] = "none"
    /\ pc[p] = "performing" => outcome[p] \in {"none", "stopped", "lost"}
    /\ pc[p] = "lost" => outcome[p] \in {"none", "lost"}
    /\ pc[p] = "over" => outcome[p] # "none"
    /\ pc[p] = "answering" => outcome[p] \in {"completed", "sleeping", "blocked"}
    /\ pc[p] \in {"idle", "taken", "contended", "claimed"} => seen[p] = {}
    /\ pc[p] \in {"idle", "taken", "contended", "answering"} => ticker[p] = "rest"

(* The Pass the fence lets through, and a live delivery, are in the hands of tasks at that workflow. *)
NewestIsAtWork ==
  \A w \in Workflows : newest[w] # NoWorker =>
    /\ task[newest[w]] = w
    /\ pc[newest[w]] \in {"claimed", "running", "performing", "lost", "over"}
HolderIsAtWork ==
  \A w \in Workflows : holder[w] # NoWorker => task[holder[w]] = w

SeenIsRecorded ==
  \A p \in Workers, w \in Workflows :
    task[p] = w /\ (deletion[w] # "deleted" \/ newest[w] = p) => seen[p] \subseteq recorded[w]

NewestKnows ==
  \A w \in Workflows : newest[w] # NoWorker /\ pc[newest[w]] \in {"running", "performing"} =>
    \A k \in recorded[w] : Script[k] # "await" => k \in seen[newest[w]]

PerformsItsStep ==
  \A w \in Workflows : newest[w] # NoWorker /\ pc[newest[w]] = "performing" =>
    \E k \in Steps : Script[k] = "step" /\ First(seen[newest[w]], matured[w], k)

(* A repeat is owed for before it happens: the newest Pass is exposed once  *)
(* its claim is not alive, and one that is stale may yet perform its step. *)
Exposed(w) ==
  newest[w] # NoWorker /\ pc[newest[w]] \in {"claimed", "running", "performing"} /\ claim[w] # "alive"
Covered(w, k) ==
  \/ k \in recorded[w]
  \/ newest[w] # NoWorker /\ pc[newest[w]] = "performing" /\ First(seen[newest[w]], matured[w], k)
Stale(w) == {p \in Workers : task[p] = w /\ pc[p] \in {"claimed", "running"} /\ newest[w] # p}
One(b) == IF b THEN 1 ELSE 0

Paid(w) ==
  deletion[w] # "deleted" =>
    /\ IsFiniteSet(Stale(w))
    /\ \A k \in Steps : Script[k] = "step" =>
         effects[w][k] + One(Exposed(w)) + Cardinality(Stale(w)) <= interrupted[w] + One(Covered(w, k))

EffectsArePaid == \A w \in Workflows : Paid(w)

TransactsAreRecorded ==
  \A w \in Workflows, k \in Steps :
    /\ Script[k] = "transact" => effects[w][k] <= One(k \in recorded[w]) + One(deletion[w] = "deleted")
    /\ Script[k] \in {"await", "sleep"} => effects[w][k] = 0

InputsAreRecorded ==
  \A w \in Workflows :
    /\ half[w] # 0 => /\ half[w] \in Steps /\ Script[half[w]] = "await"
                      /\ half[w] \notin told[w]
                      /\ deletion[w] # "deleted" => half[w] \in recorded[w]
    /\ \A k \in told[w] \ {0} : Script[k] = "await" /\ (deletion[w] # "deleted" => k \in recorded[w])

HolderKnows ==
  \A w \in Workflows :
    /\ holder[w] # NoWorker /\ deletion[w] = "none"
    /\ pc[holder[w]] \in {"running", "performing"} \/ outcome[holder[w]] \in {"blocked", "completed"}
    => told[w] \ {0} \subseteq seen[holder[w]]

EndsWhereItCame ==
  \A p \in Workers : \A w \in Workflows : task[p] = w /\ deletion[w] # "deleted" =>
    /\ outcome[p] = "completed" => Steps \subseteq Settled(seen[p], matured[w])
    /\ outcome[p] = "blocked" => \E k \in Steps : Script[k] = "await" /\ First(seen[p], matured[w], k)

(* RunnableIsQueued, with the operation the records come to named. *)
Looked(w) ==
  visible[w] # "none" \/ half[w] # 0 \/ \E i \in recorded[w] \ told[w] : Script[i] = "await"

WakeupIsKept ==
  \A w \in Workflows, k \in Steps :
    deletion[w] = "none" /\ told[w] # {} /\ Script[k] # "await" /\ First(recorded[w], matured[w], k)
      => Looked(w)

WorkerInv ==
  /\ Types
  /\ OutcomeFits /\ NewestIsAtWork /\ HolderIsAtWork
  /\ SeenIsRecorded /\ NewestKnows /\ PerformsItsStep
  /\ EffectsArePaid /\ TransactsAreRecorded
  /\ InputsAreRecorded /\ HolderKnows /\ EndsWhereItCame
  /\ RecordedInOrder /\ WakeupIsKept

(* A set of naturals that is not empty has a least member. *)
LEMMA LeastNatural ==
  ASSUME NEW T \in SUBSET Nat, T # {}
  PROVE  \E x \in T : \A y \in T : x <= y
<1> DEFINE R == {ss \in Nat \X Nat : ss[1] < ss[2]}
<1>1. IsWellFoundedOn(R, Nat)
  BY NatLessThanWellFounded DEF OpToRel
<1>2. \A a, b \in Nat : a < b => <<a, b>> \in R
  OBVIOUS
<1>. HIDE DEF R
<1>3. PICK x \in T : \A y \in T : <<y, x>> \notin R
  BY <1>1, WFMin
<1>4. \A y \in T : y \in Nat /\ x \in Nat /\ ~ (y < x)
  BY <1>2, <1>3
<1>. QED
  BY <1>4

(* A body that is not done is at some operation: the first it waits for. *)
LEMMA FirstExists ==
  ASSUME NEW keys, NEW past, ~ (Steps \subseteq Settled(keys, past))
  PROVE  \E k \in Steps : First(keys, past, k)
<1>. DEFINE Owed == Steps \ Settled(keys, past)
<1>0. Owed \in SUBSET Nat /\ Owed # {}
  BY ScriptIsOperations DEF Steps
<1>1. PICK least \in Owed : \A j \in Owed : least <= j
  BY <1>0, LeastNatural
<1>2. 1..(least - 1) \subseteq Settled(keys, past)
  BY <1>1, ScriptIsOperations DEF Steps
<1>. QED
  BY <1>1, <1>2 DEF First

(* It is at one operation only. *)
LEMMA FirstIsUnique ==
  ASSUME NEW keys, NEW past, NEW j, NEW k, First(keys, past, j), First(keys, past, k)
  PROVE  j = k
<1>1. j \in Nat /\ k \in Nat /\ 1 <= j /\ 1 <= k
  BY ScriptIsOperations DEF Steps, First
<1>2. ~ (j < k) /\ ~ (k < j)
  BY <1>1 DEF First
<1>. QED
  BY <1>1, <1>2

(* Next of the model, which chooses it, is that operation ... *)
LEMMA NextIsFirst ==
  ASSUME NEW w, NEW keys, NEW k \in Steps, k = Next(w, keys)
  PROVE  First(keys, matured[w], k)
<1>. DEFINE A == Settled(keys, matured[w])
<1>0. A = Answered(w, keys)
  BY DEF Answered, Settled
<1>1. k \in Nat \ {0} /\ Steps \subseteq Nat
  BY ScriptIsOperations DEF Steps
<1>2. ~ (Steps \subseteq A)
  BY <1>0, <1>1 DEF Next
<1>3. PICK j \in Steps : First(keys, matured[w], j)
  BY <1>0, <1>2, FirstExists
<1>. QED
  BY <1>0, <1>2, <1>3 DEF Next, First

(* ... and that operation is Next ... *)
LEMMA FirstIsNext ==
  ASSUME NEW w, NEW keys, NEW k, First(keys, matured[w], k)
  PROVE  Next(w, keys) = k /\ k \in Steps /\ k > 0
<1>. DEFINE A == Settled(keys, matured[w])
<1>0. A = Answered(w, keys)
  BY DEF Answered, Settled
<1>1. k \in Steps \ A /\ 1..(k - 1) \subseteq A /\ k > 0
  BY ScriptIsOperations DEF Steps, First
<1>2. \A j \in Steps \ A : 1..(j - 1) \subseteq A => j = k
  BY FirstIsUnique DEF First
<1>. QED
  BY <1>0, <1>1, <1>2 DEF Next

(* ... and Next is 0 exactly when nothing is left. *)
LEMMA AllSettled ==
  ASSUME NEW w, NEW keys
  PROVE  Next(w, keys) = 0 <=> Steps \subseteq Settled(keys, matured[w])
<1>. DEFINE A == Settled(keys, matured[w])
<1>0. A = Answered(w, keys)
  BY DEF Answered, Settled
<1>1. 0 \notin Steps /\ Steps \subseteq Nat
  BY ScriptIsOperations DEF Steps
<1>2. ASSUME ~ (Steps \subseteq A) PROVE Next(w, keys) # 0
  BY <1>1, <1>2, FirstExists, FirstIsNext
<1>. QED
  BY <1>0, <1>2 DEF Next

(* More records and more deadlines passed settle no less. *)
LEMMA SettledGrows ==
  ASSUME NEW keys, NEW past, NEW keys2, NEW past2, keys \subseteq keys2, past \subseteq past2
  PROVE  Settled(keys, past) \subseteq Settled(keys2, past2)
  BY DEF Settled

(* Records that do not answer the operation leave a body at it. *)
LEMMA FirstStays ==
  ASSUME NEW keys, NEW past, NEW keys2, NEW past2, keys \subseteq keys2, past \subseteq past2,
         NEW k, First(keys, past, k), k \notin keys2
  PROVE  First(keys2, past2, k)
  BY SettledGrows DEF First, Settled

(* Nothing has answered the operation a body is at. *)
LEMMA FirstIsUnanswered ==
  ASSUME NEW keys, NEW past, NEW k, First(keys, past, k)
  PROVE  /\ k \in Steps /\ 1..(k - 1) \subseteq keys
         /\ Script[k] # "sleep" => k \notin keys
  BY DEF First, Settled

(* The steps of the system, the steps of one task among them. *)
LEMMA Cases ==
  ASSUME SlotTypes, OutcomeFits, Step
  PROVE  \/ \E p \in Workers, w \in Workflows : Take(p, w)
         \/ \E p \in Workers :
              /\ task[p] \in Workflows
              /\ Advance(p) \/ Renew(p) \/ Extend(p) \/ Fail(p) \/ Stop(p) \/ Crash(p)
         \/ \E w \in Workflows : Elsewhere(w)
<1>1. ASSUME NEW p \in Workers, pc[p] # "idle" PROVE task[p] \in Workflows
  BY <1>1 DEF SlotTypes, OutcomeFits
<1>2. ASSUME NEW p \in Workers,
             Advance(p) \/ Renew(p) \/ Extend(p) \/ Fail(p) \/ Stop(p) \/ Crash(p)
      PROVE  pc[p] # "idle"
  BY <1>2, SMT DEF OutcomeFits, SlotTypes, Advance, Claim, Load, Perform, Record, Transact, Sleep,
     Await, Complete, LookAgain, Release, Answer, Renew, Extend, Fail, Stop, Crash, InPass, At
<1>. QED
  BY <1>1, <1>2 DEF Step, Passing

(* A pass whose write is taken has it recorded and knows of it; a write    *)
(* that is refused, or not tried, changes nothing.                         *)
LEMMA Writing ==
  ASSUME SlotTypes, StoreTypes, NewestIsAtWork, PerformsItsStep,
         NEW p \in Workers, task[p] \in Workflows, Record(p) \/ Transact(p) \/ Sleep(p)
  PROVE  /\ pc[p] \in {"running", "performing"}
         /\ UNCHANGED <<visible, holder, newest, matured, task, ticker, told, half, deletion,
                        withdrawn, interrupted>>
         /\ \/ /\ newest[task[p]] = p
               /\ \E k \in Steps :
                    /\ First(seen[p], matured[task[p]], k)
                    /\ Script[k] # "await"
                    /\ recorded' = [recorded EXCEPT ![task[p]] = @ \cup {k}]
                    /\ seen' = [seen EXCEPT ![p] = @ \cup {k}]
                    /\ claim' = [claim EXCEPT ![task[p]] = IF @ = "quiet" THEN "alive" ELSE @]
            \/ UNCHANGED <<recorded, seen, claim>>
         /\ \E at \in {"running", "lost", "over"}, came \in {outcome[p], "sleeping"} :
              /\ pc' = [pc EXCEPT ![p] = at]
              /\ outcome' = [outcome EXCEPT ![p] = came]
              /\ at # "over" => came = outcome[p]
<1>0. pc[p] \in {"running", "performing"}
  BY DEF Record, Transact, Sleep, At
<1>1. CASE Record(p)
  <2>1. ASSUME Fits(p)
        PROVE  LET k == Next(task[p], seen[p]) IN
                 k \in Steps /\ Script[k] # "await" /\ First(seen[p], matured[task[p]], k)
    <3>1. pc[p] = "performing" /\ newest[task[p]] # NoWorker
      BY <1>1, <2>1, NobodyNowhere DEF Record, Fits
    <3>2. PICK k \in Steps : Script[k] = "step" /\ First(seen[p], matured[task[p]], k)
      BY <2>1, <3>1 DEF PerformsItsStep, Fits
    <3>3. Next(task[p], seen[p]) = k
      BY <3>2, FirstIsNext
    <3>. QED
      BY <3>2, <3>3
  <2>2. UNCHANGED <<visible, holder, newest, matured, task, ticker, told, half, deletion,
                    withdrawn, interrupted>>
    BY <1>1 DEF Record, Writes, Log!Write, queue, store, outside, history
  <2>3. outcome' = [outcome EXCEPT ![p] = outcome[p]]
    BY <1>1 DEF Record, SlotTypes
  <2>4. \E at \in {"running", "lost", "over"} : pc' = [pc EXCEPT ![p] = at]
    BY <1>1 DEF Record, Goes
  <2>5. CASE Fits(p)
    <3>1. PICK k \in Steps : k = Next(task[p], seen[p]) /\ Script[k] # "await"
                              /\ First(seen[p], matured[task[p]], k)
      BY <2>1, <2>5
    <3>2. Writes(p, k)
      BY <1>1, <2>5, <3>1 DEF Record
    <3>. QED
      BY <1>0, <2>2, <2>3, <2>4, <2>5, <3>1, <3>2 DEF Writes, Log!Write, Log!Files
  <2>6. CASE ~ Fits(p)
    <3>1. UNCHANGED <<recorded, seen, claim>>
      BY <1>1, <2>6 DEF Record, store
    <3>. QED
      BY <1>0, <2>2, <2>3, <2>4, <3>1
  <2>. QED
    BY <2>5, <2>6
<1>2. CASE Transact(p)
  <2>1. PICK k \in Steps : /\ Script[k] = "transact" /\ pc[p] = "running" /\ k = Next(task[p], seen[p])
                           /\ \/ Fits(p) /\ Writes(p, k) /\ UNCHANGED pc
                              \/ ~ Fits(p) /\ Goes(p, "lost") /\ UNCHANGED <<store, seen>>
    BY <1>2 DEF Transact, At
  <2>2. First(seen[p], matured[task[p]], k)
    BY <2>1, NextIsFirst
  <2>3. UNCHANGED <<visible, holder, newest, matured, task, ticker, outcome, told, half, deletion,
                    withdrawn, interrupted>>
    BY <1>2, <2>1 DEF Transact, Writes, Log!Write, queue, store, outside
  <2>. QED
    BY <1>0, <2>1, <2>2, <2>3, SMT DEF Fits, Writes, Log!Write, Log!Files, Goes, store, SlotTypes
<1>3. CASE Sleep(p)
  <2>1. PICK k \in Steps :
          /\ Script[k] = "sleep" /\ pc[p] = "running" /\ k = Next(task[p], seen[p])
          /\ \/ EndsAs(p, "sleeping") /\ UNCHANGED <<store, seen>>
             \/ Fits(p) /\ Writes(p, k) /\ UNCHANGED <<pc, outcome>>
             \/ ~ Fits(p) /\ Goes(p, "lost") /\ UNCHANGED <<store, seen, outcome>>
    BY <1>3 DEF Sleep, At
  <2>2. First(seen[p], matured[task[p]], k)
    BY <2>1, NextIsFirst
  <2>3. UNCHANGED <<visible, holder, newest, matured, task, ticker, told, half, deletion,
                    withdrawn, interrupted>>
    BY <1>3, <2>1 DEF Sleep, Writes, Log!Write, queue, store, outside, history
  <2>. QED
    BY <1>0, <2>1, <2>2, <2>3, SMT DEF Fits, Writes, Log!Write, Log!Files, Goes, EndsAs, store,
       SlotTypes
<1>. QED
  BY <1>1, <1>2, <1>3

(* The conjuncts of the invariant, each with the conjuncts it rests on; one *)
(* step for each group of actions alike. First the types.                   *)
LEMMA QueueTypesKept ==
  ASSUME QueueTypes, SlotTypes, OutcomeFits, Step
  PROVE  QueueTypes'
<1>1. ASSUME NEW p \in Workers, NEW w \in Workflows, Take(p, w)
      PROVE  QueueTypes'
  BY <1>1, SMT DEF QueueTypes, SlotTypes, OutcomeFits, Take, Queue!Take, Queue!Put, Goes, queue
<1>2. ASSUME NEW p \in Workers, task[p] \in Workflows, Claim(p) \/ Load(p)
      PROVE  QueueTypes'
  BY <1>2, SMT DEF QueueTypes, SlotTypes, OutcomeFits, Claim, Log!Grant, Goes, Load, queue
<1>3. ASSUME NEW p \in Workers, task[p] \in Workflows, Perform(p) \/ Await(p) \/ Complete(p)
      PROVE  QueueTypes'
  BY <1>3, SMT DEF QueueTypes, SlotTypes, OutcomeFits, Perform, At, PerformsEffect, Goes, Await,
     EndsAs, Complete, queue
<1>4. ASSUME NEW p \in Workers, task[p] \in Workflows, Record(p) \/ Transact(p) \/ Sleep(p)
      PROVE  QueueTypes'
  BY Writing, <1>4, SMT DEF QueueTypes, SlotTypes, OutcomeFits, Record, Writes, Log!Write,
     Log!Files, Fits, Goes, Transact, At, PerformsEffect, Sleep, EndsAs, queue
<1>5. ASSUME NEW p \in Workers, task[p] \in Workflows, LookAgain(p) \/ Release(p) \/ Answer(p)
      PROVE  QueueTypes'
  BY <1>5, SMT DEF QueueTypes, SlotTypes, OutcomeFits, LookAgain, Idles, EndsAs, Goes,
     Queue!Suspend, Queue!Put, Release, Fits, Log!Drop, Queue!Leave, Answer, Queue!Finish, queue
<1>6. ASSUME NEW p \in Workers, task[p] \in Workflows, Renew(p) \/ Extend(p)
      PROVE  QueueTypes'
  BY <1>6, SMT DEF QueueTypes, SlotTypes, OutcomeFits, Renew, InPass, Fits, Extend, Queue!Keep,
     Queue!Put, queue
<1>7. ASSUME NEW p \in Workers, task[p] \in Workflows, Fail(p) \/ Stop(p) \/ Crash(p)
      PROVE  QueueTypes'
  BY <1>7, SMT DEF QueueTypes, SlotTypes, OutcomeFits, Fail, InPass, Interrupted, EndsAs, Goes,
     Stop, Crash, Idles, Queue!Leave, Log!Drop, queue
<1>8. ASSUME NEW w \in Workflows, ClaimLapses(w) \/ BudgetEnds(w) \/ BecomesVisible(w) \/ DeadlinePasses(w)
      PROVE  QueueTypes'
  BY <1>8, SMT DEF QueueTypes, SlotTypes, OutcomeFits, ClaimLapses, Interrupted, BudgetEnds,
     BecomesVisible, Queue!Put, DeadlinePasses, queue
<1>9. ASSUME NEW w \in Workflows,
             (\E k \in Steps : Supply(w, k)) \/ Submit(w) \/ MakeReady(w) \/ ArriveDies(w)
      PROVE  QueueTypes'
  BY <1>9, SMT DEF QueueTypes, SlotTypes, OutcomeFits, Supply, Log!Answer, Log!Files, Submit,
     Queue!Put, MakeReady, ArriveDies, Interrupted, queue
<1>10. ASSUME NEW w \in Workflows, Cancel(w) \/ Discard(w)
      PROVE  QueueTypes'
  BY <1>10, SMT DEF QueueTypes, SlotTypes, OutcomeFits, Cancel, Queue!Withdraw, Queue!Put,
     Discard, Log!Forget, queue
<1>. QED
  BY Cases, <1>1, <1>2, <1>3, <1>4, <1>5, <1>6, <1>7, <1>8, <1>9, <1>10 DEF Advance, Elsewhere

LEMMA StoreTypesKept ==
  ASSUME StoreTypes, SlotTypes, OutcomeFits, NewestIsAtWork, PerformsItsStep, Step
  PROVE  StoreTypes'
<1>1. ASSUME NEW p \in Workers, NEW w \in Workflows, Take(p, w)
      PROVE  StoreTypes'
  BY <1>1, SMT DEF StoreTypes, SlotTypes, OutcomeFits, NewestIsAtWork, PerformsItsStep, Take,
     Queue!Take, Queue!Put, Goes, queue, store
<1>2. ASSUME NEW p \in Workers, task[p] \in Workflows, Claim(p) \/ Load(p)
      PROVE  StoreTypes'
  BY <1>2, SMT DEF StoreTypes, SlotTypes, OutcomeFits, NewestIsAtWork, PerformsItsStep, Claim,
     Log!Grant, Goes, Load, queue, store
<1>3. ASSUME NEW p \in Workers, task[p] \in Workflows, Perform(p) \/ Await(p) \/ Complete(p)
      PROVE  StoreTypes'
  BY <1>3, SMT DEF StoreTypes, SlotTypes, OutcomeFits, NewestIsAtWork, PerformsItsStep, Perform,
     At, PerformsEffect, Goes, Await, EndsAs, Complete, queue, store
<1>4. ASSUME NEW p \in Workers, task[p] \in Workflows, Record(p) \/ Transact(p) \/ Sleep(p)
      PROVE  StoreTypes'
  BY Writing, <1>4, SMT DEF StoreTypes, SlotTypes, OutcomeFits, NewestIsAtWork, PerformsItsStep,
     Record, Writes, Log!Write, Log!Files, Fits, Goes, Transact, At, PerformsEffect, Sleep,
     EndsAs, queue
<1>5. ASSUME NEW p \in Workers, task[p] \in Workflows, LookAgain(p) \/ Release(p) \/ Answer(p)
      PROVE  StoreTypes'
  BY <1>5, SMT DEF StoreTypes, SlotTypes, OutcomeFits, NewestIsAtWork, PerformsItsStep, LookAgain,
     Idles, EndsAs, Goes, Queue!Suspend, Queue!Put, Release, Fits, Log!Drop, Queue!Leave, Answer,
     Queue!Finish, queue, store
<1>6. ASSUME NEW p \in Workers, task[p] \in Workflows, Renew(p) \/ Extend(p)
      PROVE  StoreTypes'
  BY <1>6, SMT DEF StoreTypes, SlotTypes, OutcomeFits, NewestIsAtWork, PerformsItsStep, Renew,
     InPass, Fits, Extend, Queue!Keep, Queue!Put, queue, store
<1>7. ASSUME NEW p \in Workers, task[p] \in Workflows, Fail(p) \/ Stop(p) \/ Crash(p)
      PROVE  StoreTypes'
  BY <1>7, SMT DEF StoreTypes, SlotTypes, OutcomeFits, NewestIsAtWork, PerformsItsStep, Fail,
     InPass, Interrupted, EndsAs, Goes, Stop, Crash, Idles, Queue!Leave, Log!Drop, queue, store
<1>8. ASSUME NEW w \in Workflows, ClaimLapses(w) \/ BudgetEnds(w) \/ BecomesVisible(w) \/ DeadlinePasses(w)
      PROVE  StoreTypes'
  BY <1>8, SMT DEF StoreTypes, SlotTypes, OutcomeFits, NewestIsAtWork, PerformsItsStep,
     ClaimLapses, Interrupted, BudgetEnds, BecomesVisible, Queue!Put, DeadlinePasses, queue, store
<1>9. ASSUME NEW w \in Workflows,
             (\E k \in Steps : Supply(w, k)) \/ Submit(w) \/ MakeReady(w) \/ ArriveDies(w)
      PROVE  StoreTypes'
  BY <1>9, SMT DEF StoreTypes, SlotTypes, OutcomeFits, NewestIsAtWork, PerformsItsStep, Supply,
     Log!Answer, Log!Files, Submit, Queue!Put, MakeReady, ArriveDies, Interrupted, queue, store
<1>10. ASSUME NEW w \in Workflows, Cancel(w) \/ Discard(w)
      PROVE  StoreTypes'
  BY <1>10, SMT DEF StoreTypes, SlotTypes, OutcomeFits, NewestIsAtWork, PerformsItsStep, Cancel,
     Queue!Withdraw, Queue!Put, Discard, Log!Forget, queue, store
<1>. QED
  BY Cases, <1>1, <1>2, <1>3, <1>4, <1>5, <1>6, <1>7, <1>8, <1>9, <1>10 DEF Advance, Elsewhere

LEMMA SlotTypesKept ==
  ASSUME SlotTypes, StoreTypes, OutcomeFits, NewestIsAtWork, PerformsItsStep, Step
  PROVE  SlotTypes'
<1>1. ASSUME NEW p \in Workers, NEW w \in Workflows, Take(p, w)
      PROVE  SlotTypes'
  BY <1>1, SMT DEF SlotTypes, StoreTypes, OutcomeFits, NewestIsAtWork, PerformsItsStep, Take,
     Queue!Take, Queue!Put, Goes, queue
<1>2. ASSUME NEW p \in Workers, task[p] \in Workflows, Claim(p) \/ Load(p)
      PROVE  SlotTypes'
  BY <1>2, SMT DEF SlotTypes, StoreTypes, OutcomeFits, NewestIsAtWork, PerformsItsStep, Claim,
     Log!Grant, Goes, Load, queue
<1>3. ASSUME NEW p \in Workers, task[p] \in Workflows, Perform(p) \/ Await(p) \/ Complete(p)
      PROVE  SlotTypes'
  BY <1>3, SMT DEF SlotTypes, StoreTypes, OutcomeFits, NewestIsAtWork, PerformsItsStep, Perform,
     At, PerformsEffect, Goes, Await, EndsAs, Complete, queue
<1>4. ASSUME NEW p \in Workers, task[p] \in Workflows, Record(p) \/ Transact(p) \/ Sleep(p)
      PROVE  SlotTypes'
  BY Writing, <1>4, SMTT(20) DEF SlotTypes, StoreTypes, OutcomeFits, NewestIsAtWork, PerformsItsStep,
     Record, Writes, Log!Write, Log!Files, Fits, Goes, Transact, At, PerformsEffect, Sleep,
     EndsAs, queue, outside
<1>5. ASSUME NEW p \in Workers, task[p] \in Workflows, LookAgain(p) \/ Release(p) \/ Answer(p)
      PROVE  SlotTypes'
  BY <1>5, SMT DEF SlotTypes, StoreTypes, OutcomeFits, NewestIsAtWork, PerformsItsStep, LookAgain,
     Idles, EndsAs, Goes, Queue!Suspend, Queue!Put, Release, Fits, Log!Drop, Queue!Leave, Answer,
     Queue!Finish, queue
<1>6. ASSUME NEW p \in Workers, task[p] \in Workflows, Renew(p) \/ Extend(p)
      PROVE  SlotTypes'
  BY <1>6, SMT DEF SlotTypes, StoreTypes, OutcomeFits, NewestIsAtWork, PerformsItsStep, Renew,
     InPass, Fits, Extend, Queue!Keep, Queue!Put, queue
<1>7. ASSUME NEW p \in Workers, task[p] \in Workflows, Fail(p) \/ Stop(p) \/ Crash(p)
      PROVE  SlotTypes'
  BY <1>7, SMT DEF SlotTypes, StoreTypes, OutcomeFits, NewestIsAtWork, PerformsItsStep, Fail,
     InPass, Interrupted, EndsAs, Goes, Stop, Crash, Idles, Queue!Leave, Log!Drop, queue
<1>8. ASSUME NEW w \in Workflows, ClaimLapses(w) \/ BudgetEnds(w) \/ BecomesVisible(w) \/ DeadlinePasses(w)
      PROVE  SlotTypes'
  BY <1>8, SMT DEF SlotTypes, StoreTypes, OutcomeFits, NewestIsAtWork, PerformsItsStep,
     ClaimLapses, Interrupted, BudgetEnds, BecomesVisible, Queue!Put, DeadlinePasses, queue, slot
<1>9. ASSUME NEW w \in Workflows,
             (\E k \in Steps : Supply(w, k)) \/ Submit(w) \/ MakeReady(w) \/ ArriveDies(w)
      PROVE  SlotTypes'
  BY <1>9, SMT DEF SlotTypes, StoreTypes, OutcomeFits, NewestIsAtWork, PerformsItsStep, Supply,
     Log!Answer, Log!Files, Submit, Queue!Put, MakeReady, ArriveDies, Interrupted, queue, slot
<1>10. ASSUME NEW w \in Workflows, Cancel(w) \/ Discard(w)
      PROVE  SlotTypes'
  BY <1>10, SMT DEF SlotTypes, StoreTypes, OutcomeFits, NewestIsAtWork, PerformsItsStep, Cancel,
     Queue!Withdraw, Queue!Put, Discard, Log!Forget, queue, slot
<1>. QED
  BY Cases, <1>1, <1>2, <1>3, <1>4, <1>5, <1>6, <1>7, <1>8, <1>9, <1>10 DEF Advance, Elsewhere

LEMMA OutsideTypesKept ==
  ASSUME OutsideTypes, SlotTypes, OutcomeFits, Step
  PROVE  OutsideTypes'
<1>1. ASSUME NEW p \in Workers, NEW w \in Workflows, Take(p, w)
      PROVE  OutsideTypes'
  BY <1>1, SMT DEF OutsideTypes, SlotTypes, OutcomeFits, Steps, Take, Queue!Take, Queue!Put, Goes,
     queue, outside
<1>2. ASSUME NEW p \in Workers, task[p] \in Workflows, Claim(p) \/ Load(p)
      PROVE  OutsideTypes'
  BY <1>2, SMT DEF OutsideTypes, SlotTypes, OutcomeFits, Steps, Claim, Log!Grant, Goes, Load,
     queue, outside
<1>3. ASSUME NEW p \in Workers, task[p] \in Workflows, Perform(p) \/ Await(p) \/ Complete(p)
      PROVE  OutsideTypes'
  BY <1>3, SMT DEF OutsideTypes, SlotTypes, OutcomeFits, Steps, Perform, At, PerformsEffect, Goes,
     Await, EndsAs, Complete, queue, outside
<1>4. ASSUME NEW p \in Workers, task[p] \in Workflows, Record(p) \/ Transact(p) \/ Sleep(p)
      PROVE  OutsideTypes'
  BY Writing, <1>4, SMT DEF OutsideTypes, SlotTypes, OutcomeFits, Steps, Record, Writes,
     Log!Write, Log!Files, Fits, Goes, Transact, At, PerformsEffect, Sleep, EndsAs, queue, outside
<1>5. ASSUME NEW p \in Workers, task[p] \in Workflows, LookAgain(p) \/ Release(p) \/ Answer(p)
      PROVE  OutsideTypes'
  BY <1>5, SMT DEF OutsideTypes, SlotTypes, OutcomeFits, Steps, LookAgain, Idles, EndsAs, Goes,
     Queue!Suspend, Queue!Put, Release, Fits, Log!Drop, Queue!Leave, Answer, Queue!Finish, queue,
     outside
<1>6. ASSUME NEW p \in Workers, task[p] \in Workflows, Renew(p) \/ Extend(p)
      PROVE  OutsideTypes'
  BY <1>6, SMT DEF OutsideTypes, SlotTypes, OutcomeFits, Steps, Renew, InPass, Fits, Extend,
     Queue!Keep, Queue!Put, queue, outside
<1>7. ASSUME NEW p \in Workers, task[p] \in Workflows, Fail(p) \/ Stop(p) \/ Crash(p)
      PROVE  OutsideTypes'
  BY <1>7, SMT DEF OutsideTypes, SlotTypes, OutcomeFits, Steps, Fail, InPass, Interrupted, EndsAs,
     Goes, Stop, Crash, Idles, Queue!Leave, Log!Drop, queue, outside
<1>8. ASSUME NEW w \in Workflows, ClaimLapses(w) \/ BudgetEnds(w) \/ BecomesVisible(w) \/ DeadlinePasses(w)
      PROVE  OutsideTypes'
  BY <1>8, SMT DEF OutsideTypes, SlotTypes, OutcomeFits, Steps, ClaimLapses, Interrupted,
     BudgetEnds, BecomesVisible, Queue!Put, DeadlinePasses, queue, outside
<1>9. ASSUME NEW w \in Workflows,
             (\E k \in Steps : Supply(w, k)) \/ Submit(w) \/ MakeReady(w) \/ ArriveDies(w)
      PROVE  OutsideTypes'
  <2>1. ASSUME NEW k \in Steps, Supply(w, k) PROVE OutsideTypes'
    BY <2>1, SMT DEF OutsideTypes, SlotTypes, OutcomeFits, Steps, Supply, Log!Answer, Log!Files,
       queue
  <2>2. CASE Submit(w)
    BY <2>2, SMT DEF OutsideTypes, SlotTypes, OutcomeFits, Steps, Submit, Queue!Put, queue
  <2>3. CASE MakeReady(w)
    BY <2>3, SMT DEF OutsideTypes, SlotTypes, OutcomeFits, Steps, MakeReady, Queue!Put, queue
  <2>4. CASE ArriveDies(w)
    BY <2>4, SMT DEF OutsideTypes, SlotTypes, OutcomeFits, Steps, ArriveDies, Interrupted, queue
  <2>. QED
    BY <1>9, <2>1, <2>2, <2>3, <2>4
<1>10. ASSUME NEW w \in Workflows, Cancel(w) \/ Discard(w)
      PROVE  OutsideTypes'
  <2>1. CASE Cancel(w)
    BY <2>1, SMT DEF OutsideTypes, SlotTypes, OutcomeFits, Steps, Cancel, Queue!Withdraw,
       Queue!Put, queue
  <2>2. CASE Discard(w)
    BY <2>2, SMT DEF OutsideTypes, SlotTypes, OutcomeFits, Steps, Discard, Log!Forget, queue
  <2>. QED
    BY <1>10, <2>1, <2>2
<1>. QED
  BY Cases, <1>1, <1>2, <1>3, <1>4, <1>5, <1>6, <1>7, <1>8, <1>9, <1>10 DEF Advance, Elsewhere

LEMMA HistoryTypesKept ==
  ASSUME HistoryTypes, SlotTypes, OutcomeFits, Step
  PROVE  HistoryTypes'
<1>1. ASSUME NEW p \in Workers, NEW w \in Workflows, Take(p, w)
      PROVE  HistoryTypes'
  BY InterruptionsBounded, <1>1, SMT DEF HistoryTypes, SlotTypes, OutcomeFits, Take, Queue!Take,
     Queue!Put, Goes, queue, history
<1>2. ASSUME NEW p \in Workers, task[p] \in Workflows, Claim(p) \/ Load(p)
      PROVE  HistoryTypes'
  BY InterruptionsBounded, <1>2, SMT DEF HistoryTypes, SlotTypes, OutcomeFits, Claim, Log!Grant,
     Goes, Load, queue, history
<1>3. ASSUME NEW p \in Workers, task[p] \in Workflows, Perform(p) \/ Await(p) \/ Complete(p)
      PROVE  HistoryTypes'
  <2>1. CASE Perform(p)
    BY InterruptionsBounded, <2>1, SMT DEF HistoryTypes, SlotTypes, OutcomeFits, Perform, At,
       PerformsEffect, Goes, queue
  <2>2. CASE Await(p)
    BY InterruptionsBounded, <2>2, SMT DEF HistoryTypes, SlotTypes, OutcomeFits, Await, At,
       EndsAs, Goes, queue, history
  <2>3. CASE Complete(p)
    BY InterruptionsBounded, <2>3, SMT DEF HistoryTypes, SlotTypes, OutcomeFits, Complete, EndsAs,
       Goes, queue, history
  <2>. QED
    BY <1>3, <2>1, <2>2, <2>3
<1>4. ASSUME NEW p \in Workers, task[p] \in Workflows, Record(p) \/ Transact(p) \/ Sleep(p)
      PROVE  HistoryTypes'
  <2>1. CASE Record(p)
    BY <1>4, <2>1, SMT DEF Record, HistoryTypes, history
  <2>2. CASE Transact(p)
    BY <1>4, <2>2, SMT DEF Transact, At, PerformsEffect, HistoryTypes
  <2>3. CASE Sleep(p)
    BY <1>4, <2>3, SMT DEF Sleep, HistoryTypes, history
  <2>. QED
    BY <1>4, <2>1, <2>2, <2>3
<1>5. ASSUME NEW p \in Workers, task[p] \in Workflows, LookAgain(p) \/ Release(p) \/ Answer(p)
      PROVE  HistoryTypes'
  BY InterruptionsBounded, <1>5, SMT DEF HistoryTypes, SlotTypes, OutcomeFits, LookAgain, Idles,
     EndsAs, Goes, Queue!Suspend, Queue!Put, Release, Fits, Log!Drop, Queue!Leave, Answer,
     Queue!Finish, queue, history
<1>6. ASSUME NEW p \in Workers, task[p] \in Workflows, Renew(p) \/ Extend(p)
      PROVE  HistoryTypes'
  BY InterruptionsBounded, <1>6, SMT DEF HistoryTypes, SlotTypes, OutcomeFits, Renew, InPass,
     Fits, Extend, Queue!Keep, Queue!Put, queue, history
<1>7. ASSUME NEW p \in Workers, task[p] \in Workflows, Fail(p) \/ Stop(p) \/ Crash(p)
      PROVE  HistoryTypes'
  BY InterruptionsBounded, <1>7, SMTT(20) DEF HistoryTypes, SlotTypes, OutcomeFits, Fail, InPass,
     Interrupted, EndsAs, Goes, Stop, Crash, Idles, Queue!Leave, Log!Drop, queue, store
<1>8. ASSUME NEW w \in Workflows, ClaimLapses(w) \/ BudgetEnds(w) \/ BecomesVisible(w) \/ DeadlinePasses(w)
      PROVE  HistoryTypes'
  BY InterruptionsBounded, <1>8, SMT DEF HistoryTypes, SlotTypes, OutcomeFits, ClaimLapses,
     Interrupted, BudgetEnds, BecomesVisible, Queue!Put, DeadlinePasses, queue, history
<1>9. ASSUME NEW w \in Workflows,
             (\E k \in Steps : Supply(w, k)) \/ Submit(w) \/ MakeReady(w) \/ ArriveDies(w)
      PROVE  HistoryTypes'
  BY InterruptionsBounded, <1>9, SMT DEF HistoryTypes, SlotTypes, OutcomeFits, Supply, Log!Answer,
     Log!Files, Submit, Queue!Put, MakeReady, ArriveDies, Interrupted, queue, history
<1>10. ASSUME NEW w \in Workflows, Cancel(w) \/ Discard(w)
      PROVE  HistoryTypes'
  BY InterruptionsBounded, <1>10, SMT DEF HistoryTypes, SlotTypes, OutcomeFits, Cancel,
     Queue!Withdraw, Queue!Put, Discard, Log!Forget, queue, history
<1>. QED
  BY Cases, <1>1, <1>2, <1>3, <1>4, <1>5, <1>6, <1>7, <1>8, <1>9, <1>10 DEF Advance, Elsewhere

(* What a task has come to changes with where it is. *)
LEMMA OutcomeFitsKept ==
  ASSUME OutcomeFits, SlotTypes, Step
  PROVE  OutcomeFits'
<1>1. ASSUME NEW p \in Workers, NEW w \in Workflows, Take(p, w)
      PROVE  OutcomeFits'
  BY NobodyNowhere, <1>1, SMT DEF OutcomeFits, SlotTypes, Take, Queue!Take, Queue!Put, Goes, queue
<1>2. ASSUME NEW p \in Workers, task[p] \in Workflows, Claim(p) \/ Load(p)
      PROVE  OutcomeFits'
  BY NobodyNowhere, <1>2, SMT DEF OutcomeFits, SlotTypes, Claim, Log!Grant, Goes, Load, queue
<1>3. ASSUME NEW p \in Workers, task[p] \in Workflows, Perform(p) \/ Await(p) \/ Complete(p)
      PROVE  OutcomeFits'
  BY NobodyNowhere, <1>3, SMT DEF OutcomeFits, SlotTypes, Perform, At, PerformsEffect, Goes,
     Await, EndsAs, Complete, queue
<1>4. ASSUME NEW p \in Workers, task[p] \in Workflows, Record(p) \/ Transact(p) \/ Sleep(p)
      PROVE  OutcomeFits'
  BY NobodyNowhere, Writing, <1>4, SMT DEF OutcomeFits, SlotTypes, Record, Writes, Log!Write,
     Log!Files, Fits, Goes, Transact, At, PerformsEffect, Sleep, EndsAs, queue
<1>5. ASSUME NEW p \in Workers, task[p] \in Workflows, LookAgain(p) \/ Release(p) \/ Answer(p)
      PROVE  OutcomeFits'
  BY NobodyNowhere, <1>5, SMT DEF OutcomeFits, SlotTypes, LookAgain, Idles, EndsAs, Goes,
     Queue!Suspend, Queue!Put, Release, Fits, Log!Drop, Queue!Leave, Answer, Queue!Finish, queue
<1>6. ASSUME NEW p \in Workers, task[p] \in Workflows, Renew(p) \/ Extend(p)
      PROVE  OutcomeFits'
  BY NobodyNowhere, <1>6, SMT DEF OutcomeFits, SlotTypes, Renew, InPass, Fits, Extend, Queue!Keep,
     Queue!Put, queue
<1>7. ASSUME NEW p \in Workers, task[p] \in Workflows, Fail(p) \/ Stop(p) \/ Crash(p)
      PROVE  OutcomeFits'
  BY NobodyNowhere, <1>7, SMT DEF OutcomeFits, SlotTypes, Fail, InPass, Interrupted, EndsAs, Goes,
     Stop, Crash, Idles, Queue!Leave, Log!Drop, queue
<1>8. ASSUME NEW w \in Workflows, ClaimLapses(w) \/ BudgetEnds(w) \/ BecomesVisible(w) \/ DeadlinePasses(w)
      PROVE  OutcomeFits'
  BY NobodyNowhere, <1>8, SMT DEF OutcomeFits, SlotTypes, ClaimLapses, Interrupted, BudgetEnds,
     BecomesVisible, Queue!Put, DeadlinePasses, queue, slot
<1>9. ASSUME NEW w \in Workflows,
             (\E k \in Steps : Supply(w, k)) \/ Submit(w) \/ MakeReady(w) \/ ArriveDies(w)
      PROVE  OutcomeFits'
  BY NobodyNowhere, <1>9, SMT DEF OutcomeFits, SlotTypes, Supply, Log!Answer, Log!Files, Submit,
     Queue!Put, MakeReady, ArriveDies, Interrupted, queue, slot
<1>10. ASSUME NEW w \in Workflows, Cancel(w) \/ Discard(w)
      PROVE  OutcomeFits'
  BY NobodyNowhere, <1>10, SMT DEF OutcomeFits, SlotTypes, Cancel, Queue!Withdraw, Queue!Put,
     Discard, Log!Forget, queue, slot
<1>. QED
  BY Cases, <1>1, <1>2, <1>3, <1>4, <1>5, <1>6, <1>7, <1>8, <1>9, <1>10 DEF Advance, Elsewhere

(* The fence is moved only by a claim, and dropped when its task leaves the *)
(* workflow.                                                                *)
LEMMA NewestIsAtWorkKept ==
  ASSUME NewestIsAtWork, SlotTypes, StoreTypes, OutcomeFits, Step
  PROVE  NewestIsAtWork'
<1>1. ASSUME NEW p \in Workers, NEW w \in Workflows, Take(p, w)
      PROVE  NewestIsAtWork'
  BY NobodyNowhere, <1>1, SMT DEF NewestIsAtWork, SlotTypes, StoreTypes, OutcomeFits, Take,
     Queue!Take, Queue!Put, Goes, queue, store
<1>2. ASSUME NEW p \in Workers, task[p] \in Workflows, Claim(p) \/ Load(p)
      PROVE  NewestIsAtWork'
  BY NobodyNowhere, <1>2, SMT DEF NewestIsAtWork, SlotTypes, StoreTypes, OutcomeFits, Claim,
     Log!Grant, Goes, Load, queue, store
<1>3. ASSUME NEW p \in Workers, task[p] \in Workflows, Perform(p) \/ Await(p) \/ Complete(p)
      PROVE  NewestIsAtWork'
  BY NobodyNowhere, <1>3, SMT DEF NewestIsAtWork, SlotTypes, StoreTypes, OutcomeFits, Perform, At,
     PerformsEffect, Goes, Await, EndsAs, Complete, queue, store
<1>4. ASSUME NEW p \in Workers, task[p] \in Workflows, Record(p) \/ Transact(p) \/ Sleep(p)
      PROVE  NewestIsAtWork'
  BY NobodyNowhere, Writing, <1>4, SMT DEF NewestIsAtWork, SlotTypes, StoreTypes, OutcomeFits,
     Record, Writes, Log!Write, Log!Files, Fits, Goes, Transact, At, PerformsEffect, Sleep,
     EndsAs, queue, store
<1>5. ASSUME NEW p \in Workers, task[p] \in Workflows, LookAgain(p) \/ Release(p) \/ Answer(p)
      PROVE  NewestIsAtWork'
  BY NobodyNowhere, <1>5, SMT DEF NewestIsAtWork, SlotTypes, StoreTypes, OutcomeFits, LookAgain,
     Idles, EndsAs, Goes, Queue!Suspend, Queue!Put, Release, Fits, Log!Drop, Queue!Leave, Answer,
     Queue!Finish, queue, store
<1>6. ASSUME NEW p \in Workers, task[p] \in Workflows, Renew(p) \/ Extend(p)
      PROVE  NewestIsAtWork'
  BY NobodyNowhere, <1>6, SMT DEF NewestIsAtWork, SlotTypes, StoreTypes, OutcomeFits, Renew,
     InPass, Fits, Extend, Queue!Keep, Queue!Put, queue, store
<1>7. ASSUME NEW p \in Workers, task[p] \in Workflows, Fail(p) \/ Stop(p) \/ Crash(p)
      PROVE  NewestIsAtWork'
  BY NobodyNowhere, <1>7, SMT DEF NewestIsAtWork, SlotTypes, StoreTypes, OutcomeFits, Fail,
     InPass, Interrupted, EndsAs, Goes, Stop, Crash, Idles, Queue!Leave, Log!Drop, queue, store
<1>8. ASSUME NEW w \in Workflows, ClaimLapses(w) \/ BudgetEnds(w) \/ BecomesVisible(w) \/ DeadlinePasses(w)
      PROVE  NewestIsAtWork'
  BY NobodyNowhere, <1>8, SMT DEF NewestIsAtWork, SlotTypes, StoreTypes, OutcomeFits, ClaimLapses,
     Interrupted, BudgetEnds, BecomesVisible, Queue!Put, DeadlinePasses, queue, store, slot
<1>9. ASSUME NEW w \in Workflows,
             (\E k \in Steps : Supply(w, k)) \/ Submit(w) \/ MakeReady(w) \/ ArriveDies(w)
      PROVE  NewestIsAtWork'
  BY NobodyNowhere, <1>9, SMT DEF NewestIsAtWork, SlotTypes, StoreTypes, OutcomeFits, Supply,
     Log!Answer, Log!Files, Submit, Queue!Put, MakeReady, ArriveDies, Interrupted, queue, store,
     slot
<1>10. ASSUME NEW w \in Workflows, Cancel(w) \/ Discard(w)
      PROVE  NewestIsAtWork'
  BY NobodyNowhere, <1>10, SMT DEF NewestIsAtWork, SlotTypes, StoreTypes, OutcomeFits, Cancel,
     Queue!Withdraw, Queue!Put, Discard, Log!Forget, queue, store, slot
<1>. QED
  BY Cases, <1>1, <1>2, <1>3, <1>4, <1>5, <1>6, <1>7, <1>8, <1>9, <1>10 DEF Advance, Elsewhere

(* A delivery is held by the task that took it until it is answered, or     *)
(* found lost.                                                              *)
LEMMA HolderIsAtWorkKept ==
  ASSUME HolderIsAtWork, SlotTypes, QueueTypes, OutcomeFits, Step
  PROVE  HolderIsAtWork'
<1>1. ASSUME NEW p \in Workers, NEW w \in Workflows, Take(p, w)
      PROVE  HolderIsAtWork'
  BY NobodyNowhere, <1>1, SMT DEF HolderIsAtWork, SlotTypes, QueueTypes, OutcomeFits, Take,
     Queue!Take, Queue!Put, Goes, queue
<1>2. ASSUME NEW p \in Workers, task[p] \in Workflows, Claim(p) \/ Load(p)
      PROVE  HolderIsAtWork'
  BY NobodyNowhere, <1>2, SMT DEF HolderIsAtWork, SlotTypes, QueueTypes, OutcomeFits, Claim,
     Log!Grant, Goes, Load, queue
<1>3. ASSUME NEW p \in Workers, task[p] \in Workflows, Perform(p) \/ Await(p) \/ Complete(p)
      PROVE  HolderIsAtWork'
  BY NobodyNowhere, <1>3, SMT DEF HolderIsAtWork, SlotTypes, QueueTypes, OutcomeFits, Perform, At,
     PerformsEffect, Goes, Await, EndsAs, Complete, queue
<1>4. ASSUME NEW p \in Workers, task[p] \in Workflows, Record(p) \/ Transact(p) \/ Sleep(p)
      PROVE  HolderIsAtWork'
  BY NobodyNowhere, Writing, <1>4, SMT DEF HolderIsAtWork, SlotTypes, QueueTypes, OutcomeFits,
     Record, Writes, Log!Write, Log!Files, Fits, Goes, Transact, At, PerformsEffect, Sleep,
     EndsAs, queue
<1>5. ASSUME NEW p \in Workers, task[p] \in Workflows, LookAgain(p) \/ Release(p) \/ Answer(p)
      PROVE  HolderIsAtWork'
  BY NobodyNowhere, <1>5, SMT DEF HolderIsAtWork, SlotTypes, QueueTypes, OutcomeFits, LookAgain,
     Idles, EndsAs, Goes, Queue!Suspend, Queue!Put, Release, Fits, Log!Drop, Queue!Leave, Answer,
     Queue!Finish, queue
<1>6. ASSUME NEW p \in Workers, task[p] \in Workflows, Renew(p) \/ Extend(p)
      PROVE  HolderIsAtWork'
  BY NobodyNowhere, <1>6, SMT DEF HolderIsAtWork, SlotTypes, QueueTypes, OutcomeFits, Renew,
     InPass, Fits, Extend, Queue!Keep, Queue!Put, queue
<1>7. ASSUME NEW p \in Workers, task[p] \in Workflows, Fail(p) \/ Stop(p) \/ Crash(p)
      PROVE  HolderIsAtWork'
  BY NobodyNowhere, <1>7, SMT DEF HolderIsAtWork, SlotTypes, QueueTypes, OutcomeFits, Fail,
     InPass, Interrupted, EndsAs, Goes, Stop, Crash, Idles, Queue!Leave, Log!Drop, queue
<1>8. ASSUME NEW w \in Workflows, ClaimLapses(w) \/ BudgetEnds(w) \/ BecomesVisible(w) \/ DeadlinePasses(w)
      PROVE  HolderIsAtWork'
  BY NobodyNowhere, <1>8, SMT DEF HolderIsAtWork, SlotTypes, QueueTypes, OutcomeFits, ClaimLapses,
     Interrupted, BudgetEnds, BecomesVisible, Queue!Put, DeadlinePasses, queue, slot
<1>9. ASSUME NEW w \in Workflows,
             (\E k \in Steps : Supply(w, k)) \/ Submit(w) \/ MakeReady(w) \/ ArriveDies(w)
      PROVE  HolderIsAtWork'
  BY NobodyNowhere, <1>9, SMT DEF HolderIsAtWork, SlotTypes, QueueTypes, OutcomeFits, Supply,
     Log!Answer, Log!Files, Submit, Queue!Put, MakeReady, ArriveDies, Interrupted, queue, slot
<1>10. ASSUME NEW w \in Workflows, Cancel(w) \/ Discard(w)
      PROVE  HolderIsAtWork'
  BY NobodyNowhere, <1>10, SMT DEF HolderIsAtWork, SlotTypes, QueueTypes, OutcomeFits, Cancel,
     Queue!Withdraw, Queue!Put, Discard, Log!Forget, queue, slot
<1>. QED
  BY Cases, <1>1, <1>2, <1>3, <1>4, <1>5, <1>6, <1>7, <1>8, <1>9, <1>10 DEF Advance, Elsewhere

(* A body knows only what is recorded, unless the records were deleted      *)
(* under it.                                                                *)
LEMMA SeenIsRecordedKept ==
  ASSUME SeenIsRecorded, SlotTypes, StoreTypes, OutcomeFits, NewestIsAtWork, PerformsItsStep,
     OutsideTypes, Step
  PROVE  SeenIsRecorded'
<1>1. ASSUME NEW p \in Workers, NEW w \in Workflows, Take(p, w)
      PROVE  SeenIsRecorded'
  BY NobodyNowhere, <1>1, SMT DEF SeenIsRecorded, SlotTypes, StoreTypes, OutcomeFits,
     NewestIsAtWork, PerformsItsStep, Take, Queue!Take, Queue!Put, Goes, queue, store, outside
<1>2. ASSUME NEW p \in Workers, task[p] \in Workflows, Claim(p) \/ Load(p)
      PROVE  SeenIsRecorded'
  BY NobodyNowhere, <1>2, SMT DEF SeenIsRecorded, SlotTypes, StoreTypes, OutcomeFits,
     NewestIsAtWork, PerformsItsStep, Claim, Log!Grant, Goes, Load, queue, store, outside
<1>3. ASSUME NEW p \in Workers, task[p] \in Workflows, Perform(p) \/ Await(p) \/ Complete(p)
      PROVE  SeenIsRecorded'
  BY NobodyNowhere, <1>3, SMT DEF SeenIsRecorded, SlotTypes, StoreTypes, OutcomeFits,
     NewestIsAtWork, PerformsItsStep, Perform, At, PerformsEffect, Goes, Await, EndsAs, Complete,
     queue, store, outside
<1>4. ASSUME NEW p \in Workers, task[p] \in Workflows, Record(p) \/ Transact(p) \/ Sleep(p)
      PROVE  SeenIsRecorded'
  BY NobodyNowhere, Writing, <1>4, SMT DEF SeenIsRecorded, SlotTypes, StoreTypes
<1>5. ASSUME NEW p \in Workers, task[p] \in Workflows, LookAgain(p) \/ Release(p) \/ Answer(p)
      PROVE  SeenIsRecorded'
  BY NobodyNowhere, <1>5, SMT DEF SeenIsRecorded, SlotTypes, StoreTypes, OutcomeFits,
     NewestIsAtWork, PerformsItsStep, LookAgain, Idles, EndsAs, Goes, Queue!Suspend, Queue!Put,
     Release, Fits, Log!Drop, Queue!Leave, Answer, Queue!Finish, queue, store, outside
<1>6. ASSUME NEW p \in Workers, task[p] \in Workflows, Renew(p) \/ Extend(p)
      PROVE  SeenIsRecorded'
  BY NobodyNowhere, <1>6, SMT DEF SeenIsRecorded, SlotTypes, StoreTypes, OutcomeFits,
     NewestIsAtWork, PerformsItsStep, Renew, InPass, Fits, Extend, Queue!Keep, Queue!Put, queue,
     store, outside
<1>7. ASSUME NEW p \in Workers, task[p] \in Workflows, Fail(p) \/ Stop(p) \/ Crash(p)
      PROVE  SeenIsRecorded'
  BY NobodyNowhere, <1>7, SMT DEF SeenIsRecorded, SlotTypes, StoreTypes, OutcomeFits,
     NewestIsAtWork, PerformsItsStep, Fail, InPass, Interrupted, EndsAs, Goes, Stop, Crash, Idles,
     Queue!Leave, Log!Drop, queue, store, outside
<1>8. ASSUME NEW w \in Workflows, ClaimLapses(w) \/ BudgetEnds(w) \/ BecomesVisible(w) \/ DeadlinePasses(w)
      PROVE  SeenIsRecorded'
  BY NobodyNowhere, <1>8, SMT DEF SeenIsRecorded, SlotTypes, StoreTypes, OutcomeFits,
     NewestIsAtWork, PerformsItsStep, ClaimLapses, Interrupted, BudgetEnds, BecomesVisible,
     Queue!Put, DeadlinePasses, queue, store, slot, outside
<1>9. ASSUME NEW w \in Workflows,
             (\E k \in Steps : Supply(w, k)) \/ Submit(w) \/ MakeReady(w) \/ ArriveDies(w)
      PROVE  SeenIsRecorded'
  BY NobodyNowhere, <1>9, SMT DEF SeenIsRecorded, SlotTypes, StoreTypes, OutcomeFits,
     NewestIsAtWork, PerformsItsStep, Supply, Log!Answer, Log!Files, Submit, Queue!Put, MakeReady,
     ArriveDies, Interrupted, queue, store, slot
<1>10. ASSUME NEW w \in Workflows, Cancel(w) \/ Discard(w)
      PROVE  SeenIsRecorded'
  <2>1. CASE Cancel(w)
    BY <1>10, <2>1, SMT DEF Cancel, SeenIsRecorded, slot, store
  <2>2. CASE Discard(w)
    <3>1. UNCHANGED <<task, seen>>
      BY <2>2 DEF Discard, slot
    <3>2. /\ \A v \in Workflows \ {w} :
               UNCHANGED <<recorded[v], newest[v], deletion[v]>>
          /\ newest'[w] = NoWorker /\ deletion'[w] = "deleted"
      BY <2>2, SMT DEF Discard, Log!Forget, StoreTypes, OutsideTypes
    <3>3. ASSUME NEW q \in Workers, NEW v \in Workflows, task[q] = v,
                 deletion'[v] # "deleted" \/ newest'[v] = q
          PROVE  seen[q] \subseteq recorded'[v]
      <4>1. v # w
        BY <3>2, <3>3, NobodyNowhere
      <4>. QED
        BY <3>2, <3>3, <4>1, SMT DEF SeenIsRecorded
    <3>. QED
      BY <3>1, <3>3 DEF SeenIsRecorded
  <2>. QED
    BY <1>10, <2>1, <2>2
<1>. QED
  BY Cases, <1>1, <1>2, <1>3, <1>4, <1>5, <1>6, <1>7, <1>8, <1>9, <1>10 DEF Advance, Elsewhere

(* Behind the fence nobody else records, inputs aside. *)
LEMMA NewestKnowsKept ==
  ASSUME NewestKnows, SlotTypes, StoreTypes, OutcomeFits, NewestIsAtWork, Step
  PROVE  NewestKnows'
<1>1. ASSUME NEW p \in Workers, NEW w \in Workflows, Take(p, w)
      PROVE  NewestKnows'
  BY NobodyNowhere, <1>1, SMT DEF NewestKnows, SlotTypes, StoreTypes, OutcomeFits, NewestIsAtWork,
     Take, Queue!Take, Queue!Put, Goes, queue, store
<1>2. ASSUME NEW p \in Workers, task[p] \in Workflows, Claim(p) \/ Load(p)
      PROVE  NewestKnows'
  BY NobodyNowhere, <1>2, SMT DEF NewestKnows, SlotTypes, StoreTypes, OutcomeFits, NewestIsAtWork,
     Claim, Log!Grant, Goes, Load, queue, store
<1>3. ASSUME NEW p \in Workers, task[p] \in Workflows, Perform(p) \/ Await(p) \/ Complete(p)
      PROVE  NewestKnows'
  BY NobodyNowhere, <1>3, SMT DEF NewestKnows, SlotTypes, StoreTypes, OutcomeFits, NewestIsAtWork,
     Perform, At, PerformsEffect, Goes, Await, EndsAs, Complete, queue, store
<1>4. ASSUME NEW p \in Workers, task[p] \in Workflows, Record(p) \/ Transact(p) \/ Sleep(p)
      PROVE  NewestKnows'
  BY NobodyNowhere, Writing, <1>4, SMT DEF NewestKnows, SlotTypes, StoreTypes, OutcomeFits,
     NewestIsAtWork, Record, Writes, Log!Write, Log!Files, Fits, Goes, Transact, At,
     PerformsEffect, Sleep, EndsAs, queue, store
<1>5. ASSUME NEW p \in Workers, task[p] \in Workflows, LookAgain(p) \/ Release(p) \/ Answer(p)
      PROVE  NewestKnows'
  BY NobodyNowhere, <1>5, SMT DEF NewestKnows, SlotTypes, StoreTypes, OutcomeFits, NewestIsAtWork,
     LookAgain, Idles, EndsAs, Goes, Queue!Suspend, Queue!Put, Release, Fits, Log!Drop,
     Queue!Leave, Answer, Queue!Finish, queue, store
<1>6. ASSUME NEW p \in Workers, task[p] \in Workflows, Renew(p) \/ Extend(p)
      PROVE  NewestKnows'
  BY NobodyNowhere, <1>6, SMT DEF NewestKnows, SlotTypes, StoreTypes, OutcomeFits, NewestIsAtWork,
     Renew, InPass, Fits, Extend, Queue!Keep, Queue!Put, queue, store
<1>7. ASSUME NEW p \in Workers, task[p] \in Workflows, Fail(p) \/ Stop(p) \/ Crash(p)
      PROVE  NewestKnows'
  BY NobodyNowhere, <1>7, SMT DEF NewestKnows, SlotTypes, StoreTypes, OutcomeFits, NewestIsAtWork,
     Fail, InPass, Interrupted, EndsAs, Goes, Stop, Crash, Idles, Queue!Leave, Log!Drop, queue,
     store
<1>8. ASSUME NEW w \in Workflows, ClaimLapses(w) \/ BudgetEnds(w) \/ BecomesVisible(w) \/ DeadlinePasses(w)
      PROVE  NewestKnows'
  BY NobodyNowhere, <1>8, SMT DEF NewestKnows, SlotTypes, StoreTypes, OutcomeFits, NewestIsAtWork,
     ClaimLapses, Interrupted, BudgetEnds, BecomesVisible, Queue!Put, DeadlinePasses, queue,
     store, slot
<1>9. ASSUME NEW w \in Workflows,
             (\E k \in Steps : Supply(w, k)) \/ Submit(w) \/ MakeReady(w) \/ ArriveDies(w)
      PROVE  NewestKnows'
  BY NobodyNowhere, <1>9, SMT DEF NewestKnows, SlotTypes, StoreTypes, OutcomeFits, NewestIsAtWork,
     Supply, Log!Answer, Log!Files, Submit, Queue!Put, MakeReady, ArriveDies, Interrupted, queue,
     store, slot
<1>10. ASSUME NEW w \in Workflows, Cancel(w) \/ Discard(w)
      PROVE  NewestKnows'
  BY NobodyNowhere, <1>10, SMT DEF NewestKnows, SlotTypes, StoreTypes, OutcomeFits,
     NewestIsAtWork, Cancel, Queue!Withdraw, Queue!Put, Discard, Log!Forget, queue, store, slot
<1>. QED
  BY Cases, <1>1, <1>2, <1>3, <1>4, <1>5, <1>6, <1>7, <1>8, <1>9, <1>10 DEF Advance, Elsewhere

(* The step that is being performed stays the one to perform: nobody else   *)
(* gets past it.                                                            *)
LEMMA PerformsItsStepKept ==
  ASSUME PerformsItsStep, SlotTypes, StoreTypes, OutcomeFits, NewestIsAtWork, Step
  PROVE  PerformsItsStep'
<1>1. ASSUME NEW p \in Workers, NEW w \in Workflows, Take(p, w)
      PROVE  PerformsItsStep'
  BY NobodyNowhere, NextIsFirst, FirstIsUnanswered, FirstStays, <1>1, SMT DEF PerformsItsStep,
     SlotTypes, StoreTypes, OutcomeFits, NewestIsAtWork, Take, Queue!Take, Queue!Put, Goes, queue,
     store
<1>2. ASSUME NEW p \in Workers, task[p] \in Workflows, Claim(p) \/ Load(p)
      PROVE  PerformsItsStep'
  BY NobodyNowhere, NextIsFirst, FirstIsUnanswered, FirstStays, <1>2, SMT DEF PerformsItsStep,
     SlotTypes, StoreTypes, OutcomeFits, NewestIsAtWork, Claim, Log!Grant, Goes, Load, queue,
     store
<1>3. ASSUME NEW p \in Workers, task[p] \in Workflows, Perform(p) \/ Await(p) \/ Complete(p)
      PROVE  PerformsItsStep'
  BY NobodyNowhere, NextIsFirst, FirstIsUnanswered, FirstStays, <1>3, SMT DEF PerformsItsStep,
     SlotTypes, StoreTypes, OutcomeFits, NewestIsAtWork, Perform, At, PerformsEffect, Goes, Await,
     EndsAs, Complete, queue, store
<1>4. ASSUME NEW p \in Workers, task[p] \in Workflows, Record(p) \/ Transact(p) \/ Sleep(p)
      PROVE  PerformsItsStep'
  BY NobodyNowhere, NextIsFirst, FirstIsUnanswered, FirstStays, Writing, <1>4, SMT DEF
     PerformsItsStep, SlotTypes, StoreTypes, OutcomeFits, NewestIsAtWork, Record, Writes,
     Log!Write, Log!Files, Fits, Goes, Transact, At, PerformsEffect, Sleep, EndsAs, queue
<1>5. ASSUME NEW p \in Workers, task[p] \in Workflows, LookAgain(p) \/ Release(p) \/ Answer(p)
      PROVE  PerformsItsStep'
  BY NobodyNowhere, NextIsFirst, FirstIsUnanswered, FirstStays, <1>5, SMT DEF PerformsItsStep,
     SlotTypes, StoreTypes, OutcomeFits, NewestIsAtWork, LookAgain, Idles, EndsAs, Goes,
     Queue!Suspend, Queue!Put, Release, Fits, Log!Drop, Queue!Leave, Answer, Queue!Finish, queue,
     store
<1>6. ASSUME NEW p \in Workers, task[p] \in Workflows, Renew(p) \/ Extend(p)
      PROVE  PerformsItsStep'
  BY NobodyNowhere, NextIsFirst, FirstIsUnanswered, FirstStays, <1>6, SMT DEF PerformsItsStep,
     SlotTypes, StoreTypes, OutcomeFits, NewestIsAtWork, Renew, InPass, Fits, Extend, Queue!Keep,
     Queue!Put, queue, store
<1>7. ASSUME NEW p \in Workers, task[p] \in Workflows, Fail(p) \/ Stop(p) \/ Crash(p)
      PROVE  PerformsItsStep'
  BY NobodyNowhere, NextIsFirst, FirstIsUnanswered, FirstStays, <1>7, SMT DEF PerformsItsStep,
     SlotTypes, StoreTypes, OutcomeFits, NewestIsAtWork, Fail, InPass, Interrupted, EndsAs, Goes,
     Stop, Crash, Idles, Queue!Leave, Log!Drop, queue, store
<1>8. ASSUME NEW w \in Workflows, ClaimLapses(w) \/ BudgetEnds(w) \/ BecomesVisible(w) \/ DeadlinePasses(w)
      PROVE  PerformsItsStep'
  BY NobodyNowhere, NextIsFirst, FirstIsUnanswered, FirstStays, <1>8, SMT DEF PerformsItsStep,
     SlotTypes, StoreTypes, OutcomeFits, NewestIsAtWork, ClaimLapses, Interrupted, BudgetEnds,
     BecomesVisible, Queue!Put, DeadlinePasses, queue, store, slot
<1>9. ASSUME NEW w \in Workflows,
             (\E k \in Steps : Supply(w, k)) \/ Submit(w) \/ MakeReady(w) \/ ArriveDies(w)
      PROVE  PerformsItsStep'
  BY NobodyNowhere, NextIsFirst, FirstIsUnanswered, FirstStays, <1>9, SMT DEF PerformsItsStep,
     SlotTypes, StoreTypes, OutcomeFits, NewestIsAtWork, Supply, Log!Answer, Log!Files, Submit,
     Queue!Put, MakeReady, ArriveDies, Interrupted, queue, store, slot
<1>10. ASSUME NEW w \in Workflows, Cancel(w) \/ Discard(w)
      PROVE  PerformsItsStep'
  BY NobodyNowhere, NextIsFirst, FirstIsUnanswered, FirstStays, <1>10, SMT DEF PerformsItsStep,
     SlotTypes, StoreTypes, OutcomeFits, NewestIsAtWork, Cancel, Queue!Withdraw, Queue!Put,
     Discard, Log!Forget, queue, store, slot
<1>. QED
  BY Cases, <1>1, <1>2, <1>3, <1>4, <1>5, <1>6, <1>7, <1>8, <1>9, <1>10 DEF Advance, Elsewhere

(* A transacted effect and its record are one write. *)
LEMMA TransactsAreRecordedKept ==
  ASSUME TransactsAreRecorded, SlotTypes, StoreTypes, OutsideTypes, HistoryTypes, OutcomeFits,
     NewestIsAtWork, PerformsItsStep, Step
  PROVE  TransactsAreRecorded'
<1>1. ASSUME NEW p \in Workers, NEW w \in Workflows, Take(p, w)
      PROVE  TransactsAreRecorded'
  BY <1>1, SMT DEF TransactsAreRecorded, SlotTypes, StoreTypes, OutsideTypes, HistoryTypes,
     OutcomeFits, NewestIsAtWork, PerformsItsStep, One, Take, Queue!Take, Queue!Put, Goes, queue,
     store, outside, history
<1>2. ASSUME NEW p \in Workers, task[p] \in Workflows, Claim(p) \/ Load(p)
      PROVE  TransactsAreRecorded'
  BY <1>2, SMT DEF TransactsAreRecorded, SlotTypes, StoreTypes, OutsideTypes, HistoryTypes,
     OutcomeFits, NewestIsAtWork, PerformsItsStep, One, Claim, Log!Grant, Goes, Load, queue,
     store, outside, history
<1>3. ASSUME NEW p \in Workers, task[p] \in Workflows, Perform(p) \/ Await(p) \/ Complete(p)
      PROVE  TransactsAreRecorded'
  BY <1>3, SMTT(20) DEF TransactsAreRecorded, SlotTypes, StoreTypes, OutsideTypes, HistoryTypes,
     OutcomeFits, NewestIsAtWork, PerformsItsStep, One, Perform, At, PerformsEffect, Goes, Await,
     EndsAs, Complete, queue, store, outside, history
<1>4. ASSUME NEW p \in Workers, task[p] \in Workflows, Record(p) \/ Transact(p) \/ Sleep(p)
      PROVE  TransactsAreRecorded'
  <2>1. CASE Record(p)
    <3>1. UNCHANGED <<effects, deletion>>
      BY <1>4, <2>1 DEF Record, outside, history
    <3>2. \A w \in Workflows : recorded[w] \subseteq recorded'[w]
      BY Writing, <1>4, SMT DEF StoreTypes
    <3>. QED
      BY <3>1, <3>2, SMT DEF TransactsAreRecorded, HistoryTypes, One
  <2>2. CASE Transact(p)
    <3>1. UNCHANGED deletion /\ \A w \in Workflows : recorded[w] \subseteq recorded'[w]
      BY Writing, <1>4, SMT DEF StoreTypes
    <3>2. PICK k \in Steps :
            /\ Script[k] = "transact"
            /\ \/ UNCHANGED effects
               \/ /\ k \notin recorded[task[p]] /\ PerformsEffect(p, k)
                  /\ recorded' = [recorded EXCEPT ![task[p]] = @ \cup {k}]
      BY <2>2 DEF Transact, At, Writes, Log!Write, Log!Files
    <3>3. CASE UNCHANGED effects
      BY <3>1, <3>3, SMT DEF TransactsAreRecorded, HistoryTypes, One
    <3>4. CASE k \notin recorded[task[p]] /\ PerformsEffect(p, k) /\ k \in recorded'[task[p]]
      <4>1. \A w \in Workflows, j \in Steps :
              effects'[w][j] = IF w = task[p] /\ j = k THEN effects[w][j] + 1 ELSE effects[w][j]
        BY <1>4, <3>4, SMT DEF HistoryTypes, PerformsEffect
      <4>2. ASSUME NEW w \in Workflows, NEW j \in Steps, w # task[p] \/ j # k
            PROVE  /\ Script[j] = "transact"
                      => effects'[w][j] <= One(j \in recorded'[w]) + One(deletion'[w] = "deleted")
                   /\ Script[j] \in {"await", "sleep"} => effects'[w][j] = 0
        BY <3>1, <4>1, <4>2, SMT DEF TransactsAreRecorded, HistoryTypes, One
      <4>3. effects'[task[p]][k] <= One(k \in recorded'[task[p]]) + One(deletion'[task[p]] = "deleted")
        BY <1>4, <3>1, <3>2, <3>4, <4>1, SMT DEF TransactsAreRecorded, HistoryTypes, One
      <4>. QED
        BY <3>2, <4>2, <4>3 DEF TransactsAreRecorded
    <3>. QED
      BY <1>4, <3>2, <3>3, <3>4, SMT DEF StoreTypes
  <2>3. CASE Sleep(p)
    <3>1. UNCHANGED <<effects, deletion>>
      BY <1>4, <2>3 DEF Sleep, outside, history
    <3>2. \A w \in Workflows : recorded[w] \subseteq recorded'[w]
      BY Writing, <1>4, SMT DEF StoreTypes
    <3>. QED
      BY <3>1, <3>2, SMT DEF TransactsAreRecorded, HistoryTypes, One
  <2>. QED
    BY <1>4, <2>1, <2>2, <2>3
<1>5. ASSUME NEW p \in Workers, task[p] \in Workflows, LookAgain(p) \/ Release(p) \/ Answer(p)
      PROVE  TransactsAreRecorded'
  BY <1>5, SMT DEF TransactsAreRecorded, SlotTypes, StoreTypes, OutsideTypes, HistoryTypes,
     OutcomeFits, NewestIsAtWork, PerformsItsStep, One, LookAgain, Idles, EndsAs, Goes,
     Queue!Suspend, Queue!Put, Release, Fits, Log!Drop, Queue!Leave, Answer, Queue!Finish, queue,
     store, outside, history
<1>6. ASSUME NEW p \in Workers, task[p] \in Workflows, Renew(p) \/ Extend(p)
      PROVE  TransactsAreRecorded'
  BY <1>6, SMT DEF TransactsAreRecorded, SlotTypes, StoreTypes, OutsideTypes, HistoryTypes,
     OutcomeFits, NewestIsAtWork, PerformsItsStep, One, Renew, InPass, Fits, Extend, Queue!Keep,
     Queue!Put, queue, store, outside, history
<1>7. ASSUME NEW p \in Workers, task[p] \in Workflows, Fail(p) \/ Stop(p) \/ Crash(p)
      PROVE  TransactsAreRecorded'
  BY <1>7, SMT DEF TransactsAreRecorded, SlotTypes, StoreTypes, OutsideTypes, HistoryTypes,
     OutcomeFits, NewestIsAtWork, PerformsItsStep, One, Fail, InPass, Interrupted, EndsAs, Goes,
     Stop, Crash, Idles, Queue!Leave, Log!Drop, queue, store, outside
<1>8. ASSUME NEW w \in Workflows, ClaimLapses(w) \/ BudgetEnds(w) \/ BecomesVisible(w) \/ DeadlinePasses(w)
      PROVE  TransactsAreRecorded'
  BY <1>8, SMTT(20) DEF TransactsAreRecorded, SlotTypes, StoreTypes, OutsideTypes, HistoryTypes,
     OutcomeFits, NewestIsAtWork, PerformsItsStep, One, ClaimLapses, Interrupted, BudgetEnds,
     BecomesVisible, Queue!Put, DeadlinePasses, queue, store, outside, history
<1>9. ASSUME NEW w \in Workflows,
             (\E k \in Steps : Supply(w, k)) \/ Submit(w) \/ MakeReady(w) \/ ArriveDies(w)
      PROVE  TransactsAreRecorded'
  <2>1. ASSUME NEW k \in Steps, Supply(w, k) PROVE TransactsAreRecorded'
    BY <2>1, SMT DEF TransactsAreRecorded, SlotTypes, StoreTypes, OutsideTypes, HistoryTypes,
       OutcomeFits, NewestIsAtWork, PerformsItsStep, One, Supply, Log!Answer, Log!Files, queue,
       history
  <2>2. CASE Submit(w)
    BY <2>2, SMT DEF TransactsAreRecorded, SlotTypes, StoreTypes, OutsideTypes, HistoryTypes,
       OutcomeFits, NewestIsAtWork, PerformsItsStep, One, Submit, Queue!Put, queue, store, history
  <2>3. CASE MakeReady(w)
    BY <2>3, SMT DEF TransactsAreRecorded, SlotTypes, StoreTypes, OutsideTypes, HistoryTypes,
       OutcomeFits, NewestIsAtWork, PerformsItsStep, One, MakeReady, Queue!Put, queue, store,
       history
  <2>4. CASE ArriveDies(w)
    BY <2>4, SMT DEF TransactsAreRecorded, SlotTypes, StoreTypes, OutsideTypes, HistoryTypes,
       OutcomeFits, NewestIsAtWork, PerformsItsStep, One, ArriveDies, Interrupted, queue, store
  <2>. QED
    BY <1>9, <2>1, <2>2, <2>3, <2>4
<1>10. ASSUME NEW w \in Workflows, Cancel(w) \/ Discard(w)
      PROVE  TransactsAreRecorded'
  <2>1. CASE Cancel(w)
    BY <2>1, SMT DEF TransactsAreRecorded, SlotTypes, StoreTypes, OutsideTypes, HistoryTypes,
       OutcomeFits, NewestIsAtWork, PerformsItsStep, One, Cancel, Queue!Withdraw, Queue!Put,
       queue, store, history
  <2>2. CASE Discard(w)
    BY <2>2, SMT DEF TransactsAreRecorded, SlotTypes, StoreTypes, OutsideTypes, HistoryTypes,
       OutcomeFits, NewestIsAtWork, PerformsItsStep, One, Discard, Log!Forget, queue, history
  <2>. QED
    BY <1>10, <2>1, <2>2
<1>. QED
  BY Cases, <1>1, <1>2, <1>3, <1>4, <1>5, <1>6, <1>7, <1>8, <1>9, <1>10 DEF Advance, Elsewhere

(* A client tells the queue of an input only once it is recorded. *)
LEMMA InputsAreRecordedKept ==
  ASSUME InputsAreRecorded, SlotTypes, StoreTypes, OutsideTypes, OutcomeFits, NewestIsAtWork,
     PerformsItsStep, Step
  PROVE  InputsAreRecorded'
<1>1. ASSUME NEW p \in Workers, NEW w \in Workflows, Take(p, w)
      PROVE  InputsAreRecorded'
  BY <1>1, SMT DEF InputsAreRecorded, SlotTypes, StoreTypes, OutsideTypes, OutcomeFits,
     NewestIsAtWork, PerformsItsStep, Take, Queue!Take, Queue!Put, Goes, queue, store, outside
<1>2. ASSUME NEW p \in Workers, task[p] \in Workflows, Claim(p) \/ Load(p)
      PROVE  InputsAreRecorded'
  BY <1>2, SMT DEF InputsAreRecorded, SlotTypes, StoreTypes, OutsideTypes, OutcomeFits,
     NewestIsAtWork, PerformsItsStep, Claim, Log!Grant, Goes, Load, queue, store, outside
<1>3. ASSUME NEW p \in Workers, task[p] \in Workflows, Perform(p) \/ Await(p) \/ Complete(p)
      PROVE  InputsAreRecorded'
  BY <1>3, SMT DEF InputsAreRecorded, SlotTypes, StoreTypes, OutsideTypes, OutcomeFits,
     NewestIsAtWork, PerformsItsStep, Perform, At, PerformsEffect, Goes, Await, EndsAs, Complete,
     queue, store, outside
<1>4. ASSUME NEW p \in Workers, task[p] \in Workflows, Record(p) \/ Transact(p) \/ Sleep(p)
      PROVE  InputsAreRecorded'
  <2>1. UNCHANGED <<visible, holder, newest, matured, task, ticker, told, half, deletion,
                    withdrawn, interrupted>>
    BY Writing, <1>4
  <2>2. CASE UNCHANGED <<recorded, seen, claim>>
    BY <2>1, <2>2, SMT DEF InputsAreRecorded
  <2>3. ASSUME newest[task[p]] = p, NEW k \in Steps, First(seen[p], matured[task[p]], k),
               Script[k] # "await", recorded' = [recorded EXCEPT ![task[p]] = @ \cup {k}],
               seen' = [seen EXCEPT ![p] = @ \cup {k}]
        PROVE  InputsAreRecorded'
    BY <1>4, <2>1, <2>3, SMT DEF InputsAreRecorded
  <2>4. \/ UNCHANGED <<recorded, seen, claim>>
        \/ /\ newest[task[p]] = p
           /\ \E k \in Steps :
                /\ First(seen[p], matured[task[p]], k)
                /\ Script[k] # "await"
                /\ recorded' = [recorded EXCEPT ![task[p]] = @ \cup {k}]
                /\ seen' = [seen EXCEPT ![p] = @ \cup {k}]
    BY Writing, <1>4
  <2>. QED
    BY <2>2, <2>3, <2>4
<1>5. ASSUME NEW p \in Workers, task[p] \in Workflows, LookAgain(p) \/ Release(p) \/ Answer(p)
      PROVE  InputsAreRecorded'
  BY <1>5, SMT DEF InputsAreRecorded, SlotTypes, StoreTypes, OutsideTypes, OutcomeFits,
     NewestIsAtWork, PerformsItsStep, LookAgain, Idles, EndsAs, Goes, Queue!Suspend, Queue!Put,
     Release, Fits, Log!Drop, Queue!Leave, Answer, Queue!Finish, queue, store, outside
<1>6. ASSUME NEW p \in Workers, task[p] \in Workflows, Renew(p) \/ Extend(p)
      PROVE  InputsAreRecorded'
  BY <1>6, SMT DEF InputsAreRecorded, SlotTypes, StoreTypes, OutsideTypes, OutcomeFits,
     NewestIsAtWork, PerformsItsStep, Renew, InPass, Fits, Extend, Queue!Keep, Queue!Put, queue,
     store, outside
<1>7. ASSUME NEW p \in Workers, task[p] \in Workflows, Fail(p) \/ Stop(p) \/ Crash(p)
      PROVE  InputsAreRecorded'
  BY <1>7, SMT DEF InputsAreRecorded, SlotTypes, StoreTypes, OutsideTypes, OutcomeFits,
     NewestIsAtWork, PerformsItsStep, Fail, InPass, Interrupted, EndsAs, Goes, Stop, Crash, Idles,
     Queue!Leave, Log!Drop, queue, store, outside
<1>8. ASSUME NEW w \in Workflows, ClaimLapses(w) \/ BudgetEnds(w) \/ BecomesVisible(w) \/ DeadlinePasses(w)
      PROVE  InputsAreRecorded'
  BY <1>8, SMT DEF InputsAreRecorded, SlotTypes, StoreTypes, OutsideTypes, OutcomeFits,
     NewestIsAtWork, PerformsItsStep, ClaimLapses, Interrupted, BudgetEnds, BecomesVisible,
     Queue!Put, DeadlinePasses, queue, store, outside
<1>9. ASSUME NEW w \in Workflows,
             (\E k \in Steps : Supply(w, k)) \/ Submit(w) \/ MakeReady(w) \/ ArriveDies(w)
      PROVE  InputsAreRecorded'
  <2>1. ASSUME NEW k \in Steps, Supply(w, k) PROVE InputsAreRecorded'
    BY <2>1, SMT DEF InputsAreRecorded, SlotTypes, StoreTypes, OutsideTypes, OutcomeFits,
       NewestIsAtWork, PerformsItsStep, Supply, Log!Answer, Log!Files, queue
  <2>2. CASE Submit(w)
    BY <2>2, SMT DEF InputsAreRecorded, SlotTypes, StoreTypes, OutsideTypes, OutcomeFits,
       NewestIsAtWork, PerformsItsStep, Submit, Queue!Put, queue, store
  <2>3. CASE MakeReady(w)
    BY <2>3, SMT DEF InputsAreRecorded, SlotTypes, StoreTypes, OutsideTypes, OutcomeFits,
       NewestIsAtWork, PerformsItsStep, MakeReady, Queue!Put, queue, store
  <2>4. CASE ArriveDies(w)
    BY <2>4, SMT DEF InputsAreRecorded, SlotTypes, StoreTypes, OutsideTypes, OutcomeFits,
       NewestIsAtWork, PerformsItsStep, ArriveDies, Interrupted, queue, store
  <2>. QED
    BY <1>9, <2>1, <2>2, <2>3, <2>4
<1>10. ASSUME NEW w \in Workflows, Cancel(w) \/ Discard(w)
      PROVE  InputsAreRecorded'
  <2>1. CASE Cancel(w)
    BY <2>1, SMT DEF InputsAreRecorded, SlotTypes, StoreTypes, OutsideTypes, OutcomeFits,
       NewestIsAtWork, PerformsItsStep, Cancel, Queue!Withdraw, Queue!Put, queue, store
  <2>2. CASE Discard(w)
    BY <2>2, SMT DEF InputsAreRecorded, SlotTypes, StoreTypes, OutsideTypes, OutcomeFits,
       NewestIsAtWork, PerformsItsStep, Discard, Log!Forget, queue
  <2>. QED
    BY <1>10, <2>1, <2>2
<1>. QED
  BY Cases, <1>1, <1>2, <1>3, <1>4, <1>5, <1>6, <1>7, <1>8, <1>9, <1>10 DEF Advance, Elsewhere

(* What a wakeup told, the pass that took it after that knows: a delivery   *)
(* told again is withdrawn.                                                 *)
LEMMA HolderKnowsKept ==
  ASSUME HolderKnows, SlotTypes, QueueTypes, StoreTypes, OutsideTypes, OutcomeFits,
     HolderIsAtWork, InputsAreRecorded, NewestIsAtWork, PerformsItsStep, Step
  PROVE  HolderKnows'
<1>1. ASSUME NEW p \in Workers, NEW w \in Workflows, Take(p, w)
      PROVE  HolderKnows'
  BY NobodyNowhere, <1>1, SMT DEF HolderKnows, SlotTypes, QueueTypes, StoreTypes, OutsideTypes,
     OutcomeFits, HolderIsAtWork, InputsAreRecorded, NewestIsAtWork, PerformsItsStep, Take,
     Queue!Take, Queue!Put, Goes, queue, outside
<1>2. ASSUME NEW p \in Workers, task[p] \in Workflows, Claim(p) \/ Load(p)
      PROVE  HolderKnows'
  <2>1. CASE Claim(p)
    BY <1>2, <2>1, SMT DEF Claim, Goes, SlotTypes, OutcomeFits, HolderKnows, QueueTypes, queue,
       outside
  <2>2. CASE Load(p)
    BY NobodyNowhere, <1>2, <2>2, SMT DEF HolderKnows, SlotTypes, QueueTypes, StoreTypes,
       OutsideTypes, OutcomeFits, HolderIsAtWork, InputsAreRecorded, NewestIsAtWork,
       PerformsItsStep, Load, Goes, queue, outside
  <2>. QED
    BY <1>2, <2>1, <2>2
<1>3. ASSUME NEW p \in Workers, task[p] \in Workflows, Perform(p) \/ Await(p) \/ Complete(p)
      PROVE  HolderKnows'
  <2>1. CASE Perform(p)
    BY NobodyNowhere, <2>1, SMT DEF HolderKnows, SlotTypes, QueueTypes, StoreTypes, OutsideTypes,
       OutcomeFits, HolderIsAtWork, InputsAreRecorded, NewestIsAtWork, PerformsItsStep, Perform,
       At, PerformsEffect, Goes, queue, outside
  <2>2. CASE Await(p)
    BY NobodyNowhere, <2>2, SMT DEF HolderKnows, SlotTypes, QueueTypes, StoreTypes, OutsideTypes,
       OutcomeFits, HolderIsAtWork, InputsAreRecorded, NewestIsAtWork, PerformsItsStep, Await, At,
       EndsAs, Goes, queue, outside
  <2>3. CASE Complete(p)
    BY NobodyNowhere, <2>3, SMT DEF HolderKnows, SlotTypes, QueueTypes, StoreTypes, OutsideTypes,
       OutcomeFits, HolderIsAtWork, InputsAreRecorded, NewestIsAtWork, PerformsItsStep, Complete,
       EndsAs, Goes, queue, outside
  <2>. QED
    BY <1>3, <2>1, <2>2, <2>3
<1>4. ASSUME NEW p \in Workers, task[p] \in Workflows, Record(p) \/ Transact(p) \/ Sleep(p)
      PROVE  HolderKnows'
  <2>1. UNCHANGED <<visible, holder, newest, matured, task, ticker, told, half, deletion,
                    withdrawn, interrupted>>
    BY Writing, <1>4
  <2>a. pc[p] \in {"running", "performing"}
    BY Writing, <1>4
  <2>b. outcome'[p] \notin {"completed", "blocked"}
    BY Writing, <1>4, SMT DEF OutcomeFits, SlotTypes
  <2>c. \A q \in Workers : q # p => outcome'[q] = outcome[q] /\ pc'[q] = pc[q]
    BY Writing, <1>4, SMT DEF SlotTypes
  <2>2. CASE UNCHANGED <<recorded, seen, claim>>
    BY <2>1, <2>2, <2>a, <2>b, <2>c, <1>4, SMT DEF HolderKnows, QueueTypes
  <2>3. ASSUME newest[task[p]] = p, NEW k \in Steps, First(seen[p], matured[task[p]], k),
               Script[k] # "await", recorded' = [recorded EXCEPT ![task[p]] = @ \cup {k}],
               seen' = [seen EXCEPT ![p] = @ \cup {k}]
        PROVE  HolderKnows'
    <3>1. \A q \in Workers : seen[q] \subseteq seen'[q]
      BY <2>3, SMT DEF SlotTypes
    <3>. QED
      BY <2>1, <2>a, <2>b, <2>c, <3>1, SMT DEF HolderKnows, QueueTypes
  <2>4. \/ UNCHANGED <<recorded, seen, claim>>
        \/ /\ newest[task[p]] = p
           /\ \E k \in Steps :
                /\ First(seen[p], matured[task[p]], k)
                /\ Script[k] # "await"
                /\ recorded' = [recorded EXCEPT ![task[p]] = @ \cup {k}]
                /\ seen' = [seen EXCEPT ![p] = @ \cup {k}]
    BY Writing, <1>4
  <2>. QED
    BY <2>2, <2>3, <2>4
<1>5. ASSUME NEW p \in Workers, task[p] \in Workflows, LookAgain(p) \/ Release(p) \/ Answer(p)
      PROVE  HolderKnows'
  <2>1. CASE LookAgain(p)
    BY NobodyNowhere, <1>5, <2>1, SMT DEF LookAgain, Idles, EndsAs, Goes, SlotTypes, OutcomeFits,
       HolderKnows, QueueTypes, Queue!Suspend, Queue!Put, queue, outside
  <2>2. CASE Release(p)
    BY NobodyNowhere, <1>5, <2>2, SMT DEF Release, Idles, Goes, SlotTypes, OutcomeFits,
       HolderKnows, QueueTypes, Queue!Leave, queue, outside
  <2>3. CASE Answer(p)
    BY NobodyNowhere, <1>5, <2>3, SMT DEF Answer, Idles, Goes, SlotTypes, OutcomeFits,
       HolderKnows, QueueTypes, Queue!Suspend, Queue!Finish, Queue!Put, queue, outside
  <2>. QED
    BY <1>5, <2>1, <2>2, <2>3
<1>6. ASSUME NEW p \in Workers, task[p] \in Workflows, Renew(p) \/ Extend(p)
      PROVE  HolderKnows'
  <2>1. CASE Renew(p)
    BY NobodyNowhere, <1>6, <2>1, SMT DEF HolderKnows, SlotTypes, QueueTypes, StoreTypes,
       OutsideTypes, OutcomeFits, HolderIsAtWork, InputsAreRecorded, NewestIsAtWork,
       PerformsItsStep, Renew, InPass, Fits, queue, outside
  <2>2. CASE Extend(p)
    BY NobodyNowhere, <1>6, <2>2, SMT DEF Extend, HolderKnows, SlotTypes, QueueTypes,
       HolderIsAtWork, Queue!Keep, Queue!Put, queue, outside
  <2>. QED
    BY <1>6, <2>1, <2>2
<1>7. ASSUME NEW p \in Workers, task[p] \in Workflows, Fail(p) \/ Stop(p) \/ Crash(p)
      PROVE  HolderKnows'
  BY NobodyNowhere, <1>7, SMT DEF HolderKnows, SlotTypes, QueueTypes, StoreTypes, OutsideTypes,
     OutcomeFits, HolderIsAtWork, InputsAreRecorded, NewestIsAtWork, PerformsItsStep, Fail,
     InPass, Interrupted, EndsAs, Goes, Stop, Crash, Idles, Queue!Leave, Log!Drop, queue, outside
<1>8. ASSUME NEW w \in Workflows, ClaimLapses(w) \/ BudgetEnds(w) \/ BecomesVisible(w) \/ DeadlinePasses(w)
      PROVE  HolderKnows'
  BY NobodyNowhere, <1>8, SMT DEF HolderKnows, SlotTypes, QueueTypes, StoreTypes, OutsideTypes,
     OutcomeFits, HolderIsAtWork, InputsAreRecorded, NewestIsAtWork, PerformsItsStep, ClaimLapses,
     Interrupted, BudgetEnds, BecomesVisible, Queue!Put, DeadlinePasses, queue, slot, outside
<1>9. ASSUME NEW w \in Workflows,
             (\E k \in Steps : Supply(w, k)) \/ Submit(w) \/ MakeReady(w) \/ ArriveDies(w)
      PROVE  HolderKnows'
  <2>1. ASSUME NEW k \in Steps, Supply(w, k) PROVE HolderKnows'
    BY <1>9, <2>1, SMT DEF Supply, HolderKnows, queue, slot
  <2>2. CASE Submit(w)
    BY NobodyNowhere, <1>9, <2>2, SMT DEF Submit, HolderKnows, Queue!Put, slot
  <2>3. CASE MakeReady(w)
    BY NobodyNowhere, <1>9, <2>3, SMT DEF MakeReady, HolderKnows, QueueTypes, Queue!Put, slot
  <2>4. CASE ArriveDies(w)
    BY <1>9, <2>4, SMT DEF ArriveDies, HolderKnows, queue, slot
  <2>. QED
    BY <1>9, <2>1, <2>2, <2>3, <2>4
<1>10. ASSUME NEW w \in Workflows, Cancel(w) \/ Discard(w)
      PROVE  HolderKnows'
  <2>1. CASE Cancel(w)
    BY NobodyNowhere, <2>1, SMT DEF HolderKnows, SlotTypes, QueueTypes, StoreTypes, OutsideTypes,
       OutcomeFits, HolderIsAtWork, InputsAreRecorded, NewestIsAtWork, PerformsItsStep, Cancel,
       Queue!Withdraw, Queue!Put, queue, slot
  <2>2. CASE Discard(w)
    BY NobodyNowhere, <2>2, SMT DEF HolderKnows, SlotTypes, QueueTypes, StoreTypes, OutsideTypes,
       OutcomeFits, HolderIsAtWork, InputsAreRecorded, NewestIsAtWork, PerformsItsStep, Discard,
       Log!Forget, queue, slot
  <2>. QED
    BY <1>10, <2>1, <2>2
<1>. QED
  BY Cases, <1>1, <1>2, <1>3, <1>4, <1>5, <1>6, <1>7, <1>8, <1>9, <1>10 DEF Advance, Elsewhere

(* A pass that has ended has ended where the body it replayed did. *)
LEMMA EndsWhereItCameKept ==
  ASSUME EndsWhereItCame, SlotTypes, StoreTypes, OutsideTypes, OutcomeFits, NewestIsAtWork,
     PerformsItsStep, Step
  PROVE  EndsWhereItCame'
<1>1. ASSUME NEW p \in Workers, NEW w \in Workflows, Take(p, w)
      PROVE  EndsWhereItCame'
  BY NobodyNowhere, AllSettled, NextIsFirst, SettledGrows, FirstIsUnanswered, FirstStays, <1>1,
     SMT DEF EndsWhereItCame, SlotTypes, StoreTypes, OutsideTypes, OutcomeFits, NewestIsAtWork,
     PerformsItsStep, Take, Queue!Take, Queue!Put, Goes, queue, outside
<1>2. ASSUME NEW p \in Workers, task[p] \in Workflows, Claim(p) \/ Load(p)
      PROVE  EndsWhereItCame'
  <2>1. CASE Claim(p)
    BY NobodyNowhere, AllSettled, NextIsFirst, SettledGrows, FirstIsUnanswered, FirstStays, <2>1,
       SMT DEF EndsWhereItCame, SlotTypes, StoreTypes, OutsideTypes, OutcomeFits, NewestIsAtWork,
       PerformsItsStep, Claim, Log!Grant, Goes, queue, outside
  <2>2. CASE Load(p)
    BY NobodyNowhere, AllSettled, NextIsFirst, SettledGrows, FirstIsUnanswered, FirstStays, <2>2,
       SMT DEF EndsWhereItCame, SlotTypes, StoreTypes, OutsideTypes, OutcomeFits, NewestIsAtWork,
       PerformsItsStep, Load, Goes, queue, outside
  <2>. QED
    BY <1>2, <2>1, <2>2
<1>3. ASSUME NEW p \in Workers, task[p] \in Workflows, Perform(p) \/ Await(p) \/ Complete(p)
      PROVE  EndsWhereItCame'
  BY NobodyNowhere, AllSettled, NextIsFirst, SettledGrows, FirstIsUnanswered, FirstStays, <1>3,
     SMT DEF EndsWhereItCame, SlotTypes, StoreTypes, OutsideTypes, OutcomeFits, NewestIsAtWork,
     PerformsItsStep, Perform, At, PerformsEffect, Goes, Await, EndsAs, Complete, queue, outside
<1>4. ASSUME NEW p \in Workers, task[p] \in Workflows, Record(p) \/ Transact(p) \/ Sleep(p)
      PROVE  EndsWhereItCame'
  <2>1. UNCHANGED <<visible, holder, newest, matured, task, ticker, told, half, deletion,
                    withdrawn, interrupted>>
    BY Writing, <1>4
  <2>a. outcome'[p] \notin {"completed", "blocked"}
    BY Writing, <1>4, SMT DEF OutcomeFits, SlotTypes
  <2>b. \A q \in Workers : q # p => outcome'[q] = outcome[q]
    BY Writing, <1>4, SMT DEF SlotTypes
  <2>2. CASE UNCHANGED <<recorded, seen, claim>>
    BY <2>1, <2>2, <2>a, <2>b, SMT DEF EndsWhereItCame
  <2>3. ASSUME newest[task[p]] = p, NEW k \in Steps, First(seen[p], matured[task[p]], k),
               Script[k] # "await", recorded' = [recorded EXCEPT ![task[p]] = @ \cup {k}],
               seen' = [seen EXCEPT ![p] = @ \cup {k}]
        PROVE  EndsWhereItCame'
    <3>1. \A q \in Workers : seen[q] \subseteq seen'[q] /\ (q # p => seen'[q] = seen[q])
      BY <2>3, SMT DEF SlotTypes
    <3>2. ASSUME NEW q \in Workers, NEW w \in Workflows, task[q] = w, deletion[w] # "deleted"
          PROVE  (outcome[q] = "completed" => Steps \subseteq Settled(seen'[q], matured[w]))
      BY <3>1, <3>2, SettledGrows DEF EndsWhereItCame
    <3>. QED
      BY <2>1, <2>a, <2>b, <3>1, <3>2, SMT DEF EndsWhereItCame
  <2>4. \/ UNCHANGED <<recorded, seen, claim>>
        \/ /\ newest[task[p]] = p
           /\ \E k \in Steps :
                /\ First(seen[p], matured[task[p]], k)
                /\ Script[k] # "await"
                /\ recorded' = [recorded EXCEPT ![task[p]] = @ \cup {k}]
                /\ seen' = [seen EXCEPT ![p] = @ \cup {k}]
    BY Writing, <1>4
  <2>. QED
    BY <2>2, <2>3, <2>4
<1>5. ASSUME NEW p \in Workers, task[p] \in Workflows, LookAgain(p) \/ Release(p) \/ Answer(p)
      PROVE  EndsWhereItCame'
  BY NobodyNowhere, AllSettled, NextIsFirst, SettledGrows, FirstIsUnanswered, FirstStays, <1>5,
     SMT DEF EndsWhereItCame, SlotTypes, StoreTypes, OutsideTypes, OutcomeFits, NewestIsAtWork,
     PerformsItsStep, LookAgain, Idles, EndsAs, Goes, Queue!Suspend, Queue!Put, Release, Fits,
     Log!Drop, Queue!Leave, Answer, Queue!Finish, queue, store, outside
<1>6. ASSUME NEW p \in Workers, task[p] \in Workflows, Renew(p) \/ Extend(p)
      PROVE  EndsWhereItCame'
  BY NobodyNowhere, AllSettled, NextIsFirst, SettledGrows, FirstIsUnanswered, FirstStays, <1>6,
     SMT DEF EndsWhereItCame, SlotTypes, StoreTypes, OutsideTypes, OutcomeFits, NewestIsAtWork,
     PerformsItsStep, Renew, InPass, Fits, Extend, Queue!Keep, Queue!Put, queue, outside
<1>7. ASSUME NEW p \in Workers, task[p] \in Workflows, Fail(p) \/ Stop(p) \/ Crash(p)
      PROVE  EndsWhereItCame'
  <2>1. CASE Fail(p)
    BY NobodyNowhere, AllSettled, NextIsFirst, SettledGrows, FirstIsUnanswered, FirstStays, <2>1,
       SMT DEF EndsWhereItCame, SlotTypes, StoreTypes, OutsideTypes, OutcomeFits, NewestIsAtWork,
       PerformsItsStep, Fail, InPass, Interrupted, EndsAs, Goes, queue, outside
  <2>2. CASE Stop(p)
    BY NobodyNowhere, AllSettled, NextIsFirst, SettledGrows, FirstIsUnanswered, FirstStays, <2>2,
       SMT DEF EndsWhereItCame, SlotTypes, StoreTypes, OutsideTypes, OutcomeFits, NewestIsAtWork,
       PerformsItsStep, Stop, InPass, Interrupted, queue, outside
  <2>3. CASE Crash(p)
    BY NobodyNowhere, AllSettled, NextIsFirst, SettledGrows, FirstIsUnanswered, FirstStays, <2>3,
       SMT DEF EndsWhereItCame, SlotTypes, StoreTypes, OutsideTypes, OutcomeFits, NewestIsAtWork,
       PerformsItsStep, Crash, Interrupted, Idles, Goes, Queue!Leave, Log!Drop, queue, outside
  <2>. QED
    BY <1>7, <2>1, <2>2, <2>3
<1>8. ASSUME NEW w \in Workflows, ClaimLapses(w) \/ BudgetEnds(w) \/ BecomesVisible(w) \/ DeadlinePasses(w)
      PROVE  EndsWhereItCame'
  <2>1. CASE ClaimLapses(w)
    BY NobodyNowhere, AllSettled, NextIsFirst, SettledGrows, FirstIsUnanswered, FirstStays, <1>8,
       <2>1, SMT DEF EndsWhereItCame, SlotTypes, StoreTypes, OutsideTypes, OutcomeFits,
       NewestIsAtWork, PerformsItsStep, ClaimLapses, Interrupted, queue, slot, outside
  <2>2. CASE BudgetEnds(w)
    BY NobodyNowhere, AllSettled, NextIsFirst, SettledGrows, FirstIsUnanswered, FirstStays, <1>8,
       <2>2, SMT DEF EndsWhereItCame, SlotTypes, StoreTypes, OutsideTypes, OutcomeFits,
       NewestIsAtWork, PerformsItsStep, BudgetEnds, Interrupted, queue, slot, outside
  <2>3. CASE BecomesVisible(w)
    BY NobodyNowhere, AllSettled, NextIsFirst, SettledGrows, FirstIsUnanswered, FirstStays, <1>8,
       <2>3, SMT DEF EndsWhereItCame, SlotTypes, StoreTypes, OutsideTypes, OutcomeFits,
       NewestIsAtWork, PerformsItsStep, BecomesVisible, Queue!Put, queue, slot, outside
  <2>4. CASE DeadlinePasses(w)
    <3>1. UNCHANGED <<task, seen, outcome, deletion>> /\ \A v \in Workflows : matured[v] \subseteq matured'[v]
      BY <1>8, <2>4, SMT DEF DeadlinePasses, slot, outside
    <3>2. ASSUME NEW q \in Workers, NEW v \in Workflows, task[q] = v, deletion[v] # "deleted", outcome[q] = "blocked"
          PROVE  \E k \in Steps : Script[k] = "await" /\ First(seen[q], matured'[v], k)
      <4>1. PICK k \in Steps : Script[k] = "await" /\ First(seen[q], matured[v], k)
        BY <3>2 DEF EndsWhereItCame
      <4>. QED
        BY <3>1, <4>1, FirstIsUnanswered, FirstStays
    <3>3. ASSUME NEW q \in Workers, NEW v \in Workflows, task[q] = v, deletion[v] # "deleted",
                 outcome[q] = "completed"
          PROVE  Steps \subseteq Settled(seen[q], matured'[v])
      BY <3>1, <3>3, SettledGrows DEF EndsWhereItCame
    <3>. QED
      BY <3>1, <3>2, <3>3 DEF EndsWhereItCame
  <2>. QED
    BY <1>8, <2>1, <2>2, <2>3, <2>4
<1>9. ASSUME NEW w \in Workflows,
             (\E k \in Steps : Supply(w, k)) \/ Submit(w) \/ MakeReady(w) \/ ArriveDies(w)
      PROVE  EndsWhereItCame'
  BY NobodyNowhere, AllSettled, NextIsFirst, SettledGrows, FirstIsUnanswered, FirstStays, <1>9,
     SMT DEF EndsWhereItCame, SlotTypes, StoreTypes, OutsideTypes, OutcomeFits, NewestIsAtWork,
     PerformsItsStep, Supply, Log!Answer, Log!Files, Submit, Queue!Put, MakeReady, ArriveDies,
     Interrupted, queue, slot
<1>10. ASSUME NEW w \in Workflows, Cancel(w) \/ Discard(w)
      PROVE  EndsWhereItCame'
  <2>1. CASE Cancel(w)
    BY NobodyNowhere, AllSettled, NextIsFirst, SettledGrows, FirstIsUnanswered, FirstStays, <2>1,
       SMT DEF EndsWhereItCame, SlotTypes, StoreTypes, OutsideTypes, OutcomeFits, NewestIsAtWork,
       PerformsItsStep, Cancel, Queue!Withdraw, Queue!Put, queue, slot
  <2>2. CASE Discard(w)
    BY NobodyNowhere, AllSettled, NextIsFirst, SettledGrows, FirstIsUnanswered, FirstStays, <2>2,
       SMT DEF EndsWhereItCame, SlotTypes, StoreTypes, OutsideTypes, OutcomeFits, NewestIsAtWork,
       PerformsItsStep, Discard, Log!Forget, queue, slot
  <2>. QED
    BY <1>10, <2>1, <2>2
<1>. QED
  BY Cases, <1>1, <1>2, <1>3, <1>4, <1>5, <1>6, <1>7, <1>8, <1>9, <1>10 DEF Advance, Elsewhere

(* A record is added where the records end. *)
LEMMA RecordedInOrderKept ==
  ASSUME RecordedInOrder, SlotTypes, StoreTypes, OutcomeFits, NewestIsAtWork, SeenIsRecorded,
     PerformsItsStep, Step
  PROVE  RecordedInOrder'
<1>1. ASSUME NEW p \in Workers, NEW w \in Workflows, Take(p, w)
      PROVE  RecordedInOrder'
  BY NobodyNowhere, NextIsFirst, FirstIsUnanswered, <1>1, SMT DEF RecordedInOrder, SlotTypes,
     StoreTypes, OutcomeFits, NewestIsAtWork, SeenIsRecorded, PerformsItsStep, Take, Queue!Take,
     Queue!Put, Goes, queue, store
<1>2. ASSUME NEW p \in Workers, task[p] \in Workflows, Claim(p) \/ Load(p)
      PROVE  RecordedInOrder'
  BY NobodyNowhere, NextIsFirst, FirstIsUnanswered, <1>2, SMT DEF RecordedInOrder, SlotTypes,
     StoreTypes, OutcomeFits, NewestIsAtWork, SeenIsRecorded, PerformsItsStep, Claim, Log!Grant,
     Goes, Load, queue, store
<1>3. ASSUME NEW p \in Workers, task[p] \in Workflows, Perform(p) \/ Await(p) \/ Complete(p)
      PROVE  RecordedInOrder'
  BY NobodyNowhere, NextIsFirst, FirstIsUnanswered, <1>3, SMT DEF RecordedInOrder, SlotTypes,
     StoreTypes, OutcomeFits, NewestIsAtWork, SeenIsRecorded, PerformsItsStep, Perform, At,
     PerformsEffect, Goes, Await, EndsAs, Complete, queue, store
<1>4. ASSUME NEW p \in Workers, task[p] \in Workflows, Record(p) \/ Transact(p) \/ Sleep(p)
      PROVE  RecordedInOrder'
  <2>1. UNCHANGED <<visible, holder, newest, matured, task, ticker, told, half, deletion,
                    withdrawn, interrupted>>
    BY Writing, <1>4
  <2>2. CASE UNCHANGED <<recorded, seen, claim>>
    BY <2>1, <2>2, SMT DEF RecordedInOrder
  <2>3. ASSUME newest[task[p]] = p, NEW k \in Steps, First(seen[p], matured[task[p]], k),
               Script[k] # "await", recorded' = [recorded EXCEPT ![task[p]] = @ \cup {k}],
               seen' = [seen EXCEPT ![p] = @ \cup {k}]
        PROVE  RecordedInOrder'
    <3>1. 1..(k - 1) \subseteq recorded[task[p]]
        <4>1. 1..(k - 1) \subseteq seen[p]
        BY <2>3, FirstIsUnanswered
      <4>2. seen[p] \subseteq recorded[task[p]]
        BY <1>4, <2>3 DEF SeenIsRecorded
      <4>. QED
        BY <4>1, <4>2
    <3>. QED
      BY <1>4, <2>3, <3>1, SMT DEF RecordedInOrder
  <2>4. \/ UNCHANGED <<recorded, seen, claim>>
        \/ /\ newest[task[p]] = p
           /\ \E k \in Steps :
                /\ First(seen[p], matured[task[p]], k)
                /\ Script[k] # "await"
                /\ recorded' = [recorded EXCEPT ![task[p]] = @ \cup {k}]
                /\ seen' = [seen EXCEPT ![p] = @ \cup {k}]
    BY Writing, <1>4
  <2>. QED
    BY <2>2, <2>3, <2>4
<1>5. ASSUME NEW p \in Workers, task[p] \in Workflows, LookAgain(p) \/ Release(p) \/ Answer(p)
      PROVE  RecordedInOrder'
  BY NobodyNowhere, NextIsFirst, FirstIsUnanswered, <1>5, SMT DEF RecordedInOrder, SlotTypes,
     StoreTypes, OutcomeFits, NewestIsAtWork, SeenIsRecorded, PerformsItsStep, LookAgain, Idles,
     EndsAs, Goes, Queue!Suspend, Queue!Put, Release, Fits, Log!Drop, Queue!Leave, Answer,
     Queue!Finish, queue, store
<1>6. ASSUME NEW p \in Workers, task[p] \in Workflows, Renew(p) \/ Extend(p)
      PROVE  RecordedInOrder'
  BY NobodyNowhere, NextIsFirst, FirstIsUnanswered, <1>6, SMT DEF RecordedInOrder, SlotTypes,
     StoreTypes, OutcomeFits, NewestIsAtWork, SeenIsRecorded, PerformsItsStep, Renew, InPass,
     Fits, Extend, Queue!Keep, Queue!Put, queue, store
<1>7. ASSUME NEW p \in Workers, task[p] \in Workflows, Fail(p) \/ Stop(p) \/ Crash(p)
      PROVE  RecordedInOrder'
  BY NobodyNowhere, NextIsFirst, FirstIsUnanswered, <1>7, SMT DEF RecordedInOrder, SlotTypes,
     StoreTypes, OutcomeFits, NewestIsAtWork, SeenIsRecorded, PerformsItsStep, Fail, InPass,
     Interrupted, EndsAs, Goes, Stop, Crash, Idles, Queue!Leave, Log!Drop, queue, store
<1>8. ASSUME NEW w \in Workflows, ClaimLapses(w) \/ BudgetEnds(w) \/ BecomesVisible(w) \/ DeadlinePasses(w)
      PROVE  RecordedInOrder'
  BY NobodyNowhere, NextIsFirst, FirstIsUnanswered, <1>8, SMT DEF RecordedInOrder, SlotTypes,
     StoreTypes, OutcomeFits, NewestIsAtWork, SeenIsRecorded, PerformsItsStep, ClaimLapses,
     Interrupted, BudgetEnds, BecomesVisible, Queue!Put, DeadlinePasses, queue, store
<1>9. ASSUME NEW w \in Workflows,
             (\E k \in Steps : Supply(w, k)) \/ Submit(w) \/ MakeReady(w) \/ ArriveDies(w)
      PROVE  RecordedInOrder'
  BY NobodyNowhere, NextIsFirst, FirstIsUnanswered, <1>9, SMT DEF RecordedInOrder, SlotTypes,
     StoreTypes, OutcomeFits, NewestIsAtWork, SeenIsRecorded, PerformsItsStep, Supply, Log!Answer,
     Log!Files, Submit, Queue!Put, MakeReady, ArriveDies, Interrupted, queue, store
<1>10. ASSUME NEW w \in Workflows, Cancel(w) \/ Discard(w)
      PROVE  RecordedInOrder'
  BY NobodyNowhere, NextIsFirst, FirstIsUnanswered, <1>10, SMT DEF RecordedInOrder, SlotTypes,
     StoreTypes, OutcomeFits, NewestIsAtWork, SeenIsRecorded, PerformsItsStep, Cancel,
     Queue!Withdraw, Queue!Put, Discard, Log!Forget, queue, store
<1>. QED
  BY Cases, <1>1, <1>2, <1>3, <1>4, <1>5, <1>6, <1>7, <1>8, <1>9, <1>10 DEF Advance, Elsewhere

(* Where the wakeup and what is recorded stay as they are, nothing is lost. *)
LEMMA StillQueued ==
  ASSUME WakeupIsKept, UNCHANGED <<recorded, matured, told, half, deletion>>,
         \A w \in Workflows : visible'[w] = "none" => visible[w] = "none"
  PROVE  WakeupIsKept'
  BY SMT DEF WakeupIsKept, Looked

(* The conjunct of the invariant is the property the run checks. *)
LEMMA RunnableIsKept == WakeupIsKept => RunnableIsQueued
<1>1. SUFFICES ASSUME WakeupIsKept, NEW w \in Workflows, Next(w, recorded[w]) > 0,
                      deletion[w] = "none", told[w] # {}, Script[Next(w, recorded[w])] # "await"
               PROVE  Looked(w)
  BY DEF RunnableIsQueued, Looked
<1>2. Next(w, recorded[w]) # 0
  BY <1>1
<1>3. PICK k \in Steps : First(recorded[w], matured[w], k)
  BY <1>2, AllSettled, FirstExists
<1>4. k = Next(w, recorded[w])
  BY <1>3, FirstIsNext
<1>. QED
  BY <1>1, <1>3, <1>4 DEF WakeupIsKept

(* A wakeup is given up only by a pass that came to where the records end. *)
LEMMA WakeupIsKeptKept ==
  ASSUME WakeupIsKept, QueueTypes, StoreTypes, SlotTypes, OutsideTypes, OutcomeFits,
         NewestIsAtWork, PerformsItsStep, SeenIsRecorded, InputsAreRecorded, HolderKnows,
         EndsWhereItCame, Step
  PROVE  WakeupIsKept'
<1>1. ASSUME NEW p \in Workers, NEW w \in Workflows, Take(p, w)
      PROVE  WakeupIsKept'
  <2>1. UNCHANGED <<recorded, matured, told, half, deletion>>
        /\ visible' = [visible EXCEPT ![w] = "later"]
    BY <1>1 DEF Take, Queue!Take, Queue!Put, store, outside
  <2>. QED
    BY <2>1, StillQueued, SMT DEF QueueTypes
<1>2. ASSUME NEW p \in Workers, task[p] \in Workflows,
             \/ Claim(p) \/ Load(p) \/ Perform(p) \/ Await(p) \/ Complete(p) \/ Renew(p)
             \/ Fail(p) \/ Stop(p) \/ Crash(p)
      PROVE  WakeupIsKept'
  <2>1. UNCHANGED <<visible, recorded, matured, told, half, deletion>>
    BY <1>2, SMT DEF Claim, Log!Grant, Load, Perform, Await, Complete, Renew, Fail, Stop, Crash,
       Log!Drop, Queue!Leave, queue, store, outside
  <2>. QED
    BY <2>1, StillQueued
<1>3. ASSUME NEW p \in Workers, task[p] \in Workflows, LookAgain(p) \/ Release(p) \/ Extend(p)
      PROVE  WakeupIsKept'
  <2>1. /\ UNCHANGED <<recorded, matured, told, half, deletion>>
        /\ \/ UNCHANGED visible
           \/ \E moment \in {"now", "later"} : visible' = [visible EXCEPT ![task[p]] = moment]
    BY <1>3, SMT DEF LookAgain, Release, Extend, Log!Drop, Queue!Suspend, Queue!Keep, Queue!Put,
       Queue!Leave, queue, store, outside
  <2>. QED
    BY <2>1, StillQueued, SMT DEF QueueTypes
<1>4. ASSUME NEW p \in Workers, task[p] \in Workflows, Answer(p)
      PROVE  WakeupIsKept'
  <2>. DEFINE w == task[p]
  <2>1. UNCHANGED <<recorded, matured, told, half, deletion>> /\ pc[p] = "answering"
    BY <1>4 DEF Answer, store, outside
  <2>2. CASE \/ UNCHANGED visible
             \/ \E moment \in {"now", "later"} : visible' = [visible EXCEPT ![w] = moment]
    BY <2>1, <2>2, StillQueued, SMT DEF QueueTypes
  <2>3. CASE holder[w] = p /\ outcome[p] # "sleeping" /\ visible' = [visible EXCEPT ![w] = "none"]
    <3>1. ASSUME NEW v \in Workflows, v # w, NEW k \in Steps, deletion[v] = "none", told[v] # {},
                 Script[k] # "await", First(recorded[v], matured[v], k)
          PROVE  Looked(v)'
      BY <2>1, <2>3, <3>1, SMT DEF WakeupIsKept, Looked
    <3>2. ASSUME NEW k \in Steps, deletion[w] = "none", Script[k] # "await",
                 First(recorded[w], matured[w], k)
          PROVE  \E i \in recorded[w] \ told[w] : Script[i] = "await"
      <4>1. outcome[p] \in {"completed", "blocked"}
        BY <2>1, <2>3 DEF OutcomeFits
      <4>2. told[w] \ {0} \subseteq seen[p]
        BY <1>4, <2>3, <3>2, <4>1, NobodyNowhere DEF HolderKnows
      <4>3. seen[p] \subseteq recorded[w]
        BY <1>4, <3>2, SMT DEF SeenIsRecorded
      <4>4. outcome[p] # "completed"
        <5>1. outcome[p] = "completed" => Steps \subseteq Settled(seen[p], matured[w])
          BY <1>4, <3>2, SMT DEF EndsWhereItCame
        <5>2. outcome[p] = "completed" => Steps \subseteq Settled(recorded[w], matured[w])
          BY <4>3, <5>1, SettledGrows
        <5>. QED
          BY <3>2, <5>2 DEF First
      <4>5. PICK j \in Steps : Script[j] = "await" /\ First(seen[p], matured[w], j)
        BY <1>4, <3>2, <4>1, <4>4, SMT DEF EndsWhereItCame
      <4>6. j \in recorded[w]
        BY <3>2, <4>3, <4>5, FirstStays, FirstIsUnique
      <4>7. j \notin told[w]
        <5>1. j # 0
          BY ScriptIsOperations DEF Steps
        <5>. QED
          BY <4>2, <4>5, <5>1, FirstIsUnanswered
      <4>. QED
        BY <4>5, <4>6, <4>7
    <3>. QED
      BY <2>1, <3>1, <3>2 DEF WakeupIsKept, Looked
  <2>. QED
    BY <1>4, <2>2, <2>3, SMT DEF Answer, Queue!Suspend, Queue!Finish, Queue!Put, queue
<1>5. ASSUME NEW p \in Workers, task[p] \in Workflows, Record(p) \/ Transact(p) \/ Sleep(p)
      PROVE  WakeupIsKept'
  <2>1. UNCHANGED <<visible, matured, told, half, deletion>>
    BY <1>5, Writing
  <2>2. CASE UNCHANGED recorded
    BY <2>1, <2>2, StillQueued
  <2>3. ASSUME newest[task[p]] = p, NEW k \in Steps, First(seen[p], matured[task[p]], k),
               Script[k] # "await", recorded' = [recorded EXCEPT ![task[p]] = @ \cup {k}]
        PROVE  WakeupIsKept'
    <3>0. PICK w \in Workflows : w = task[p]
      BY <1>5
    <3>1. CASE k \in recorded[w]
      <4>1. recorded' = recorded
        BY <3>0, <2>3, <3>1 DEF StoreTypes
      <4>. QED
        BY <2>1, <4>1, StillQueued
    <3>2. CASE k \notin recorded[w]
      <4>1. seen[p] \subseteq recorded[w]
        BY <3>0, <2>3 DEF SeenIsRecorded
      <4>2. First(recorded[w], matured[w], k)
        BY <3>0, <2>3, <3>2, <4>1, FirstStays
      <4>3. deletion[w] = "none" /\ told[w] # {} => Looked(w)
        BY <2>3, <4>2 DEF WakeupIsKept
      <4>4. Looked(w) => Looked(w)'
        BY <3>0, <2>1, <2>3, SMT DEF Looked
      <4>5. ASSUME NEW v \in Workflows, v # w
            PROVE  recorded'[v] = recorded[v] /\ (Looked(v) => Looked(v)')
        BY <3>0, <2>1, <2>3, <4>5, SMT DEF Looked
      <4>. QED
        BY <2>1, <4>3, <4>4, <4>5, SMT DEF WakeupIsKept
    <3>. QED
      BY <3>1, <3>2
  <2>. QED
    BY <1>5, <2>2, <2>3, Writing
<1>6. ASSUME NEW w \in Workflows, ClaimLapses(w) \/ BudgetEnds(w) \/ BecomesVisible(w)
      PROVE  WakeupIsKept'
  <2>1. /\ UNCHANGED <<recorded, matured, told, half, deletion>>
        /\ UNCHANGED visible \/ visible' = [visible EXCEPT ![w] = "now"]
    BY <1>6 DEF ClaimLapses, BudgetEnds, BecomesVisible, Queue!Put, queue, store, outside
  <2>. QED
    BY <2>1, StillQueued, SMT DEF QueueTypes
<1>7. ASSUME NEW w \in Workflows, DeadlinePasses(w)
      PROVE  WakeupIsKept'
  <2>1. /\ UNCHANGED <<visible, recorded, told, half, deletion>>
        /\ \A v \in Workflows : matured[v] \subseteq matured'[v]
    BY <1>7, SMT DEF DeadlinePasses, queue, store, outside
  <2>2. ASSUME NEW v \in Workflows, NEW k \in Steps, deletion[v] = "none", told[v] # {},
               Script[k] # "await", First(recorded[v], matured'[v], k)
        PROVE  Looked(v)
    <3>1. ~ (Steps \subseteq Settled(recorded[v], matured[v]))
      BY <2>1, <2>2, SettledGrows DEF First
    <3>2. PICK j \in Steps : First(recorded[v], matured[v], j)
      BY <3>1, FirstExists
    <3>3. CASE Script[j] # "await"
      BY <2>2, <3>2, <3>3 DEF WakeupIsKept
    <3>4. CASE Script[j] = "await"
      <4>1. j \notin recorded[v]
        BY <3>2, <3>4, FirstIsUnanswered
      <4>2. First(recorded[v], matured'[v], j)
        BY <2>1, <3>2, <4>1, FirstStays
      <4>. QED
        BY <2>2, <3>4, <4>2, FirstIsUnique
    <3>. QED
      BY <3>3, <3>4
  <2>. QED
    BY <2>1, <2>2 DEF WakeupIsKept, Looked
<1>8. ASSUME NEW w \in Workflows, NEW k \in Steps, Supply(w, k)
      PROVE  WakeupIsKept'
  <2>1. /\ UNCHANGED <<visible, matured, told, deletion>>
        /\ \A v \in Workflows \ {w} : UNCHANGED <<recorded[v], half[v]>>
        /\ half'[w] = k
    BY <1>8 DEF Supply, Log!Answer, Log!Files, OutsideTypes, queue
  <2>2. k # 0
    BY ScriptIsOperations DEF Steps
  <2>. QED
    BY <2>1, <2>2 DEF WakeupIsKept, Looked
<1>9. ASSUME NEW w \in Workflows, Submit(w) \/ MakeReady(w)
      PROVE  WakeupIsKept'
  <2>1. /\ UNCHANGED <<recorded, matured, deletion>>
        /\ \A v \in Workflows \ {w} : UNCHANGED <<visible[v], told[v], half[v]>>
        /\ visible'[w] = "now"
    BY <1>9 DEF Submit, MakeReady, Queue!Put, QueueTypes, OutsideTypes, store
  <2>. QED
    BY <2>1 DEF WakeupIsKept, Looked
<1>10. ASSUME NEW w \in Workflows, ArriveDies(w)
      PROVE  WakeupIsKept'
  <2>1. /\ UNCHANGED <<visible, recorded, matured, told, deletion>>
        /\ \A v \in Workflows \ {w} : UNCHANGED half[v]
    BY <1>10 DEF ArriveDies, queue, store
  <2>2. deletion[w] = "none" => half[w] \in recorded[w] \ told[w] /\ Script[half[w]] = "await"
    BY <1>10, SMT DEF ArriveDies, InputsAreRecorded
  <2>. QED
    BY <2>1, <2>2 DEF WakeupIsKept, Looked
<1>11. ASSUME NEW w \in Workflows, Cancel(w) \/ Discard(w)
      PROVE  WakeupIsKept'
  <2>1. /\ UNCHANGED <<told, half>>
        /\ \A v \in Workflows \ {w} : UNCHANGED <<visible[v], recorded[v], matured[v], deletion[v]>>
        /\ deletion'[w] # "none"
    BY <1>11 DEF Cancel, Discard, Log!Forget, Queue!Withdraw, Queue!Put, QueueTypes, StoreTypes,
       OutsideTypes, queue, store
  <2>. QED
    BY <2>1 DEF WakeupIsKept, Looked
<1>. QED
  BY Cases, <1>1, <1>2, <1>3, <1>4, <1>5, <1>6, <1>7, <1>8, <1>9, <1>10, <1>11 DEF Advance,
     Elsewhere

(* What leaves a workflow's effects as paid for as they were. *)
Quiet(w) ==
  /\ Stale(w)' \subseteq Stale(w)
  /\ Exposed(w)' => Exposed(w)
  /\ \A k \in Steps : Script[k] = "step" =>
       effects'[w][k] = effects[w][k] /\ (Covered(w, k) => Covered(w, k)')
  /\ interrupted'[w] >= interrupted[w]
  /\ deletion'[w] # "deleted" => deletion[w] # "deleted"

(* One is 1 or 0. *)
LEMMA OneIs == \A b : One(b) \in {0, 1} /\ (b => One(b) = 1) /\ (~b => One(b) = 0)
  BY DEF One

(* It is enough that what a step adds to one side it adds to the other. *)
LEMMA Balances ==
  ASSUME HistoryTypes, HistoryTypes', NEW w \in Workflows, Paid(w),
         deletion'[w] # "deleted" => deletion[w] # "deleted",
         IsFiniteSet(Stale(w)) => IsFiniteSet(Stale(w)'),
         IsFiniteSet(Stale(w)) => \A k \in Steps : Script[k] = "step" =>
           effects'[w][k] + One(Exposed(w)') + Cardinality(Stale(w)') + interrupted[w] + One(Covered(w, k))
             <= effects[w][k] + One(Exposed(w)) + Cardinality(Stale(w)) + interrupted'[w] + One(Covered(w, k)')
  PROVE  Paid(w)'
<1>1. SUFFICES ASSUME deletion'[w] # "deleted"
               PROVE  /\ IsFiniteSet(Stale(w)')
                      /\ \A k \in Steps : Script[k] = "step" =>
                           effects'[w][k] + One(Exposed(w)') + Cardinality(Stale(w)')
                             <= interrupted'[w] + One(Covered(w, k)')
  BY DEF Paid
<1>2. IsFiniteSet(Stale(w)) /\ IsFiniteSet(Stale(w)')
  BY <1>1 DEF Paid
<1>3. Cardinality(Stale(w)') \in Nat /\ Cardinality(Stale(w)) \in Nat
  BY <1>2, FS_CardinalityType
<1>4. ASSUME NEW k \in Steps, Script[k] = "step"
      PROVE  effects'[w][k] + One(Exposed(w)') + Cardinality(Stale(w)')
               <= interrupted'[w] + One(Covered(w, k)')
  <2>1. effects[w][k] + One(Exposed(w)) + Cardinality(Stale(w)) <= interrupted[w] + One(Covered(w, k))
    BY <1>1, <1>4 DEF Paid
  <2>2. effects'[w][k] + One(Exposed(w)') + Cardinality(Stale(w)') + interrupted[w] + One(Covered(w, k))
          <= effects[w][k] + One(Exposed(w)) + Cardinality(Stale(w)) + interrupted'[w] + One(Covered(w, k)')
    BY <1>2, <1>4
  <2>3. /\ One(Exposed(w)) \in Nat /\ One(Covered(w, k)) \in Nat
        /\ One(Exposed(w)') \in Nat /\ One(Covered(w, k)') \in Nat
    BY OneIs
  <2>4. /\ effects[w][k] \in Nat /\ effects'[w][k] \in Nat
        /\ interrupted[w] \in Nat /\ interrupted'[w] \in Nat
    BY InterruptionsBounded DEF HistoryTypes
  <2>. QED
    BY <1>3, <2>1, <2>2, <2>3, <2>4
<1>. QED
  BY <1>2, <1>4

(* A subset of the stale passes is no larger. *)
LEMMA FewerStale ==
  ASSUME NEW w \in Workflows, Stale(w)' \subseteq Stale(w), IsFiniteSet(Stale(w))
  PROVE  /\ IsFiniteSet(Stale(w)')
         /\ Cardinality(Stale(w)') \in Nat /\ Cardinality(Stale(w)) \in Nat
         /\ Cardinality(Stale(w)') <= Cardinality(Stale(w))
  BY FS_Subset, FS_CardinalityType

(* A quiet step keeps the accounts. *)
LEMMA QuietIsPaid ==
  ASSUME HistoryTypes, HistoryTypes', NEW w \in Workflows, Paid(w), Quiet(w)
  PROVE  Paid(w)'
<1>1. ASSUME IsFiniteSet(Stale(w)), NEW k \in Steps, Script[k] = "step"
      PROVE  effects'[w][k] + One(Exposed(w)') + Cardinality(Stale(w)') + interrupted[w] + One(Covered(w, k))
               <= effects[w][k] + One(Exposed(w)) + Cardinality(Stale(w)) + interrupted'[w] + One(Covered(w, k)')
  <2>1. /\ One(Exposed(w)) \in {0, 1} /\ One(Exposed(w)') \in {0, 1} /\ One(Exposed(w)') <= One(Exposed(w))
        /\ One(Covered(w, k)) \in {0, 1} /\ One(Covered(w, k)') \in {0, 1}
    BY OneIs DEF Quiet
  <2>2. One(Covered(w, k)) <= One(Covered(w, k)')
    BY <1>1, OneIs DEF Quiet
  <2>3. /\ effects[w][k] \in Nat /\ effects'[w][k] = effects[w][k]
        /\ interrupted[w] \in Nat /\ interrupted'[w] \in Nat /\ interrupted[w] <= interrupted'[w]
    BY <1>1, InterruptionsBounded DEF Quiet, HistoryTypes
  <2>. QED
    BY <1>1, <2>1, <2>2, <2>3, FewerStale DEF Quiet
<1>. QED
  BY <1>1, FewerStale, Balances DEF Quiet

(* An interruption pays for one thing more: a Pass exposed, or a step that *)
(* is performed and will not be recorded.                                  *)
LEMMA InterruptionPays ==
  ASSUME HistoryTypes, HistoryTypes', NEW w \in Workflows, Paid(w), Stale(w)' \subseteq Stale(w),
         \A k \in Steps : Script[k] = "step" => effects'[w][k] = effects[w][k],
         interrupted'[w] = interrupted[w] + 1,
         deletion'[w] # "deleted" => deletion[w] # "deleted",
         \/ Exposed(w)' => Exposed(w)
         \/ \A k \in Steps : Script[k] = "step" /\ Covered(w, k) => Covered(w, k)'
  PROVE  Paid(w)'
<1>1. ASSUME IsFiniteSet(Stale(w)), NEW k \in Steps, Script[k] = "step"
      PROVE  effects'[w][k] + One(Exposed(w)') + Cardinality(Stale(w)') + interrupted[w] + One(Covered(w, k))
               <= effects[w][k] + One(Exposed(w)) + Cardinality(Stale(w)) + interrupted'[w] + One(Covered(w, k)')
  <2>1. /\ One(Exposed(w)) \in {0, 1} /\ One(Exposed(w)') \in {0, 1}
        /\ One(Covered(w, k)) \in {0, 1} /\ One(Covered(w, k)') \in {0, 1}
    BY OneIs
  <2>2. One(Exposed(w)') <= One(Exposed(w)) \/ One(Covered(w, k)) <= One(Covered(w, k)')
    BY <1>1, OneIs
  <2>3. /\ effects[w][k] \in Nat /\ effects'[w][k] = effects[w][k] /\ interrupted[w] \in Nat
    BY <1>1, InterruptionsBounded DEF HistoryTypes
  <2>. QED
    BY <1>1, <2>1, <2>2, <2>3, FewerStale
<1>. QED
  BY <1>1, FewerStale, Balances

(* A task whose claim is alive is the newest. *)
LEMMA AttendedIsNewest ==
  ASSUME StoreTypes, NewestIsAtWork, NEW w \in Workflows,
         newest[w] # NoWorker, pc[newest[w]] \in {"claimed", "running", "performing"}
  PROVE  Attended(w)
<1>. newest[w] \in Workers /\ task[newest[w]] = w
  BY DEF StoreTypes, NewestIsAtWork
<1>. QED
  BY DEF Attended, InPass, Fits

(* Every step is quiet at every workflow but for these. *)
LEMMA QuietSteps ==
  ASSUME SlotTypes, StoreTypes, OutsideTypes, HistoryTypes, OutcomeFits, NewestIsAtWork,
         PerformsItsStep, Step, NEW v \in Workflows
  PROVE  \/ Quiet(v)
         \/ \E p \in Workers :
              /\ task[p] = v
              /\ (Claim(p) /\ pc'[p] # "contended") \/ Perform(p) \/ Fail(p) \/ Stop(p) \/ Crash(p)
         \/ (ClaimLapses(v) \/ BudgetEnds(v)) /\ Attended(v)
         \/ Discard(v)
<1>1. ASSUME NEW p \in Workers, NEW w \in Workflows, Take(p, w)
      PROVE  Quiet(v)
  <2>1. Stale(v)' \subseteq Stale(v)
    BY <1>1, SMT DEF Take, Queue!Take, Queue!Put, Goes, queue, store, slot, outside, history,
       Stale
  <2>2. Exposed(v)' => Exposed(v)
    BY <1>1, SMT DEF Take, Queue!Take, Queue!Put, Goes, queue, store, slot, outside, history,
       Exposed
  <2>3. \A k \in Steps : Script[k] = "step" => effects'[v][k] = effects[v][k]
    BY <1>1, SMT DEF Take, Queue!Take, Queue!Put, Goes, queue, store, history
  <2>4. \A k \in Steps : Script[k] = "step" /\ Covered(v, k) => Covered(v, k)'
    BY <1>1, SMT DEF Take, Queue!Take, Queue!Put, Goes, queue, store, slot, outside, history,
       Covered
  <2>5. interrupted'[v] >= interrupted[v] /\ (deletion'[v] # "deleted" => deletion[v] # "deleted")
    BY <1>1, SMT DEF Take, Queue!Take, Queue!Put, Goes, queue, store, slot, outside, history,
       HistoryTypes
  <2>. QED
    BY <1>1, <2>1, <2>2, <2>3, <2>4, <2>5 DEF Quiet
<1>2. ASSUME NEW p \in Workers, task[p] \in Workflows, Load(p)
      PROVE  Quiet(v)
  <2>1. Stale(v)' \subseteq Stale(v)
    BY <1>2, SMT DEF Load, Goes, queue, store, slot, outside, history, Stale
  <2>2. Exposed(v)' => Exposed(v)
    BY <1>2, SMT DEF Load, Goes, queue, store, slot, outside, history, Exposed
  <2>3. \A k \in Steps : Script[k] = "step" => effects'[v][k] = effects[v][k]
    BY <1>2, SMT DEF Load, Goes, queue, store, history
  <2>4. \A k \in Steps : Script[k] = "step" /\ Covered(v, k) => Covered(v, k)'
    BY <1>2, SMT DEF Load, Goes, queue, store, slot, outside, history, Covered
  <2>5. interrupted'[v] >= interrupted[v] /\ (deletion'[v] # "deleted" => deletion[v] # "deleted")
    BY <1>2, SMT DEF Load, Goes, queue, store, slot, outside, history, HistoryTypes
  <2>. QED
    BY <1>2, <2>1, <2>2, <2>3, <2>4, <2>5 DEF Quiet
<1>3. ASSUME NEW p \in Workers, task[p] \in Workflows, Await(p) \/ Complete(p)
      PROVE  Quiet(v)
  <2>1. Stale(v)' \subseteq Stale(v)
    BY <1>3, SMT DEF Await, At, EndsAs, Goes, Complete, queue, store, slot, outside, history,
       Stale, SlotTypes
  <2>2. Exposed(v)' => Exposed(v)
    BY <1>3, SMT DEF Await, At, EndsAs, Goes, Complete, queue, store, slot, outside, history,
       Exposed, SlotTypes, StoreTypes
  <2>3. \A k \in Steps : Script[k] = "step" => effects'[v][k] = effects[v][k]
    BY <1>3, SMT DEF Await, At, EndsAs, Goes, Complete, queue, store, history
  <2>4. \A k \in Steps : Script[k] = "step" /\ Covered(v, k) => Covered(v, k)'
    BY <1>3, SMT DEF Await, At, EndsAs, Goes, Complete, queue, store, slot, outside, history,
       Covered, SlotTypes, StoreTypes
  <2>5. interrupted'[v] >= interrupted[v] /\ (deletion'[v] # "deleted" => deletion[v] # "deleted")
    BY <1>3, SMT DEF Await, At, EndsAs, Goes, Complete, queue, store, slot, outside, history,
       HistoryTypes
  <2>. QED
    BY <1>3, <2>1, <2>2, <2>3, <2>4, <2>5 DEF Quiet
<1>4. ASSUME NEW p \in Workers, task[p] \in Workflows, LookAgain(p)
      PROVE  Quiet(v)
  <2>1. Stale(v)' \subseteq Stale(v)
    BY <1>4, SMT DEF LookAgain, Idles, EndsAs, Goes, Queue!Suspend, Queue!Put, queue, store, slot,
       outside, history, Stale, SlotTypes
  <2>2. Exposed(v)' => Exposed(v)
    BY <1>4, SMT DEF LookAgain, Idles, EndsAs, Goes, Queue!Suspend, Queue!Put, queue, store, slot,
       outside, history, Exposed, SlotTypes, StoreTypes
  <2>3. \A k \in Steps : Script[k] = "step" => effects'[v][k] = effects[v][k]
    BY <1>4, SMT DEF LookAgain, Idles, EndsAs, Goes, Queue!Suspend, Queue!Put, queue, store,
       history
  <2>4. \A k \in Steps : Script[k] = "step" /\ Covered(v, k) => Covered(v, k)'
    BY <1>4, SMT DEF LookAgain, Idles, EndsAs, Goes, Queue!Suspend, Queue!Put, queue, store, slot,
       outside, history, Covered, SlotTypes, StoreTypes
  <2>5. interrupted'[v] >= interrupted[v] /\ (deletion'[v] # "deleted" => deletion[v] # "deleted")
    BY <1>4, SMT DEF LookAgain, Idles, EndsAs, Goes, Queue!Suspend, Queue!Put, queue, store, slot,
       outside, history, HistoryTypes
  <2>. QED
    BY <1>4, <2>1, <2>2, <2>3, <2>4, <2>5 DEF Quiet
<1>5. ASSUME NEW p \in Workers, task[p] \in Workflows, Release(p)
      PROVE  Quiet(v)
  <2>1. Stale(v)' \subseteq Stale(v)
    BY <1>5, SMT DEF Release, Fits, Log!Drop, Idles, Goes, Queue!Leave, queue, store, slot,
       outside, history, Stale, SlotTypes
  <2>2. Exposed(v)' => Exposed(v)
    BY <1>5, SMT DEF Release, Fits, Log!Drop, Idles, Goes, Queue!Leave, queue, store, slot,
       outside, history, Exposed, SlotTypes, StoreTypes
  <2>3. \A k \in Steps : Script[k] = "step" => effects'[v][k] = effects[v][k]
    BY <1>5, SMT DEF Release, Fits, Log!Drop, Idles, Goes, Queue!Leave, queue, store, history
  <2>4. \A k \in Steps : Script[k] = "step" /\ Covered(v, k) => Covered(v, k)'
    BY <1>5, SMT DEF Release, Fits, Log!Drop, Idles, Goes, Queue!Leave, queue, store, slot,
       outside, history, Covered, SlotTypes, StoreTypes
  <2>5. interrupted'[v] >= interrupted[v] /\ (deletion'[v] # "deleted" => deletion[v] # "deleted")
    BY <1>5, SMT DEF Release, Fits, Log!Drop, Idles, Goes, Queue!Leave, queue, store, slot,
       outside, history, HistoryTypes
  <2>. QED
    BY <1>5, <2>1, <2>2, <2>3, <2>4, <2>5 DEF Quiet
<1>6. ASSUME NEW p \in Workers, task[p] \in Workflows, Answer(p)
      PROVE  Quiet(v)
  <2>1. Stale(v)' \subseteq Stale(v)
    BY <1>6, SMT DEF Answer, Idles, Goes, Queue!Suspend, Queue!Finish, Queue!Put, queue, store,
       slot, outside, history, Stale
  <2>2. Exposed(v)' => Exposed(v)
    BY <1>6, SMT DEF Answer, Idles, Goes, Queue!Suspend, Queue!Finish, Queue!Put, queue, store,
       slot, outside, history, Exposed
  <2>3. \A k \in Steps : Script[k] = "step" => effects'[v][k] = effects[v][k]
    BY <1>6, SMT DEF Answer, Idles, Goes, Queue!Suspend, Queue!Finish, Queue!Put, queue, store,
       history
  <2>4. \A k \in Steps : Script[k] = "step" /\ Covered(v, k) => Covered(v, k)'
    BY <1>6, SMT DEF Answer, Idles, Goes, Queue!Suspend, Queue!Finish, Queue!Put, queue, store,
       slot, outside, history, Covered
  <2>5. interrupted'[v] >= interrupted[v] /\ (deletion'[v] # "deleted" => deletion[v] # "deleted")
    BY <1>6, SMT DEF Answer, Idles, Goes, Queue!Suspend, Queue!Finish, Queue!Put, queue, store,
       slot, outside, history, HistoryTypes
  <2>. QED
    BY <1>6, <2>1, <2>2, <2>3, <2>4, <2>5 DEF Quiet
<1>7. ASSUME NEW p \in Workers, task[p] \in Workflows, Renew(p)
      PROVE  Quiet(v)
  <2>1. Stale(v)' \subseteq Stale(v)
    BY <1>7, SMT DEF Renew, InPass, Fits, queue, store, slot, outside, history, Stale, SlotTypes
  <2>2. Exposed(v)' => Exposed(v)
    BY <1>7, SMT DEF Renew, InPass, Fits, queue, store, slot, outside, history, Exposed,
       SlotTypes, StoreTypes
  <2>3. \A k \in Steps : Script[k] = "step" => effects'[v][k] = effects[v][k]
    BY <1>7, SMT DEF Renew, InPass, Fits, queue, store, history
  <2>4. \A k \in Steps : Script[k] = "step" /\ Covered(v, k) => Covered(v, k)'
    BY <1>7, SMT DEF Renew, InPass, Fits, queue, store, slot, outside, history, Covered,
       SlotTypes, StoreTypes
  <2>5. interrupted'[v] >= interrupted[v] /\ (deletion'[v] # "deleted" => deletion[v] # "deleted")
    BY <1>7, SMT DEF Renew, InPass, Fits, queue, store, slot, outside, history, HistoryTypes
  <2>. QED
    BY <1>7, <2>1, <2>2, <2>3, <2>4, <2>5 DEF Quiet
<1>8. ASSUME NEW p \in Workers, task[p] \in Workflows, Extend(p)
      PROVE  Quiet(v)
  <2>1. Stale(v)' \subseteq Stale(v)
    BY <1>8, SMT DEF Extend, Queue!Keep, Queue!Put, queue, store, slot, outside, history, Stale
  <2>2. Exposed(v)' => Exposed(v)
    BY <1>8, SMT DEF Extend, Queue!Keep, Queue!Put, queue, store, slot, outside, history, Exposed
  <2>3. \A k \in Steps : Script[k] = "step" => effects'[v][k] = effects[v][k]
    BY <1>8, SMT DEF Extend, Queue!Keep, Queue!Put, queue, store, history
  <2>4. \A k \in Steps : Script[k] = "step" /\ Covered(v, k) => Covered(v, k)'
    BY <1>8, SMT DEF Extend, Queue!Keep, Queue!Put, queue, store, slot, outside, history, Covered
  <2>5. interrupted'[v] >= interrupted[v] /\ (deletion'[v] # "deleted" => deletion[v] # "deleted")
    BY <1>8, SMT DEF Extend, Queue!Keep, Queue!Put, queue, store, slot, outside, history,
       HistoryTypes
  <2>. QED
    BY <1>8, <2>1, <2>2, <2>3, <2>4, <2>5 DEF Quiet
<1>9. ASSUME NEW w \in Workflows, BecomesVisible(w) \/ Submit(w) \/ MakeReady(w) \/ Cancel(w)
      PROVE  Quiet(v)
  <2>1. Stale(v)' \subseteq Stale(v)
    BY <1>9, SMT DEF BecomesVisible, Queue!Put, Submit, MakeReady, Cancel, Queue!Withdraw, queue,
       store, slot, outside, history, Stale
  <2>2. Exposed(v)' => Exposed(v)
    BY <1>9, SMT DEF BecomesVisible, Queue!Put, Submit, MakeReady, Cancel, Queue!Withdraw, queue,
       store, slot, outside, history, Exposed
  <2>3. \A k \in Steps : Script[k] = "step" => effects'[v][k] = effects[v][k]
    BY <1>9, SMT DEF BecomesVisible, Queue!Put, Submit, MakeReady, Cancel, Queue!Withdraw, queue,
       store, history
  <2>4. \A k \in Steps : Script[k] = "step" /\ Covered(v, k) => Covered(v, k)'
    BY <1>9, SMT DEF BecomesVisible, Queue!Put, Submit, MakeReady, Cancel, Queue!Withdraw, queue,
       store, slot, outside, history, Covered
  <2>5. interrupted'[v] >= interrupted[v] /\ (deletion'[v] # "deleted" => deletion[v] # "deleted")
    BY <1>9, SMT DEF BecomesVisible, Queue!Put, Submit, MakeReady, Cancel, Queue!Withdraw, queue,
       store, slot, outside, history, HistoryTypes, OutsideTypes
  <2>. QED
    BY <1>9, <2>1, <2>2, <2>3, <2>4, <2>5 DEF Quiet
<1>10. ASSUME NEW w \in Workflows, NEW i \in Steps, Supply(w, i)
      PROVE  Quiet(v)
  <2>1. Stale(v)' \subseteq Stale(v)
    BY <1>10, SMT DEF Supply, Log!Answer, Log!Files, queue, store, slot, outside, history, Stale
  <2>2. Exposed(v)' => Exposed(v)
    BY <1>10, SMT DEF Supply, Log!Answer, Log!Files, queue, store, slot, outside, history, Exposed
  <2>3. \A k \in Steps : Script[k] = "step" => effects'[v][k] = effects[v][k]
    BY <1>10, SMT DEF Supply, Log!Answer, Log!Files, queue, store, history
  <2>4. \A k \in Steps : Script[k] = "step" /\ Covered(v, k) => Covered(v, k)'
    BY <1>10, SMT DEF Supply, Log!Answer, Log!Files, queue, store, slot, outside, history, Covered
  <2>5. interrupted'[v] >= interrupted[v] /\ (deletion'[v] # "deleted" => deletion[v] # "deleted")
    BY <1>10, SMT DEF Supply, Log!Answer, Log!Files, queue, store, slot, history, HistoryTypes
  <2>. QED
    BY <1>10, <2>1, <2>2, <2>3, <2>4, <2>5 DEF Quiet
<1>11. ASSUME NEW w \in Workflows, DeadlinePasses(w)
      PROVE  Quiet(v)
  <2>1. Stale(v)' \subseteq Stale(v)
    BY <1>11, SMT DEF DeadlinePasses, queue, store, slot, outside, history, Stale
  <2>2. Exposed(v)' => Exposed(v)
    BY <1>11, SMT DEF DeadlinePasses, queue, store, slot, outside, history, Exposed
  <2>3. \A k \in Steps : Script[k] = "step" => effects'[v][k] = effects[v][k]
    BY <1>11, SMT DEF DeadlinePasses, queue, store, history
  <2>4. \A k \in Steps : Script[k] = "step" /\ Covered(v, k) => Covered(v, k)'
    <3>1. UNCHANGED <<newest, pc, seen, recorded>> /\ matured[v] \subseteq matured'[v]
      BY <1>11, SMT DEF DeadlinePasses, slot, store
    <3>2. ASSUME NEW k \in Steps, Script[k] = "step", First(seen[newest[v]], matured[v], k)
          PROVE  First(seen[newest[v]], matured'[v], k)
      BY <3>1, <3>2, FirstStays, FirstIsUnanswered
    <3>. QED
      BY <3>1, <3>2 DEF Covered
  <2>5. interrupted'[v] >= interrupted[v] /\ (deletion'[v] # "deleted" => deletion[v] # "deleted")
    BY <1>11, SMT DEF DeadlinePasses, queue, store, slot, outside, history, HistoryTypes
  <2>. QED
    BY <1>11, <2>1, <2>2, <2>3, <2>4, <2>5 DEF Quiet
<1>12. ASSUME NEW w \in Workflows, ArriveDies(w)
      PROVE  Quiet(v)
  <2>1. Stale(v)' \subseteq Stale(v)
    BY <1>12, SMT DEF ArriveDies, Interrupted, queue, store, slot, outside, history, Stale
  <2>2. Exposed(v)' => Exposed(v)
    BY <1>12, SMT DEF ArriveDies, Interrupted, queue, store, slot, outside, history, Exposed
  <2>3. \A k \in Steps : Script[k] = "step" => effects'[v][k] = effects[v][k]
    BY <1>12, SMT DEF ArriveDies, Interrupted, queue, store
  <2>4. \A k \in Steps : Script[k] = "step" /\ Covered(v, k) => Covered(v, k)'
    BY <1>12, SMT DEF ArriveDies, Interrupted, queue, store, slot, outside, history, Covered
  <2>5. interrupted'[v] >= interrupted[v] /\ (deletion'[v] # "deleted" => deletion[v] # "deleted")
    BY <1>12, SMT DEF ArriveDies, Interrupted, queue, store, slot, HistoryTypes
  <2>. QED
    BY <1>12, <2>1, <2>2, <2>3, <2>4, <2>5 DEF Quiet
<1>13. ASSUME NEW p \in Workers, task[p] \in Workflows, Record(p) \/ Transact(p) \/ Sleep(p)
      PROVE  Quiet(v)
  <2>1. Stale(v)' \subseteq Stale(v)
    <3>1. \A q \in Workers : pc'[q] \in {"claimed", "running"} /\ newest[v] # q /\ task[q] = v
                                 => pc[q] \in {"claimed", "running"}
      BY <1>13, SMT DEF Record, Transact, Sleep, At, Goes, EndsAs, Fits, SlotTypes
    <3>2. UNCHANGED <<task, newest>>
      BY <1>13, Writing
    <3>. QED
      BY <3>1, <3>2 DEF Stale
  <2>2. Exposed(v)' => Exposed(v)
    <3>1. /\ UNCHANGED newest
          /\ claim[v] = "alive" => claim'[v] = "alive"
          /\ \A q \in Workers : pc[q] = pc'[q] \/ pc[q] \in {"running", "performing"}
      BY <1>13, Writing, SMT DEF StoreTypes, SlotTypes
    <3>. QED
      BY <3>1, SMT DEF Exposed, StoreTypes
  <2>3. \A k \in Steps : Script[k] = "step" => effects'[v][k] = effects[v][k]
    <3>1. \/ UNCHANGED effects
          \/ \E k \in Steps : Script[k] = "transact" /\ PerformsEffect(p, k)
      BY <1>13 DEF Record, Transact, Sleep, At, history
    <3>2. ASSUME NEW j \in Steps, Script[j] = "transact", PerformsEffect(p, j),
                 NEW k \in Steps, Script[k] = "step"
          PROVE  effects'[v][k] = effects[v][k]
      <4>1. k # j
        BY <3>2
      <4>2. effects'[v] = IF v = task[p] THEN [effects[v] EXCEPT ![j] = @ + 1] ELSE effects[v]
        BY <1>13, <3>2 DEF PerformsEffect, HistoryTypes
      <4>. QED
        BY <4>1, <4>2 DEF HistoryTypes
    <3>. QED
      BY <3>1, <3>2
  <2>4. \A k \in Steps : Script[k] = "step" /\ Covered(v, k) => Covered(v, k)'
    <3>1. UNCHANGED <<newest, matured>> /\ recorded[v] \subseteq recorded'[v]
      BY <1>13, Writing, SMT DEF StoreTypes
    <3>2. ASSUME NEW k \in Steps, newest[v] # NoWorker, pc[newest[v]] = "performing",
                 First(seen[newest[v]], matured[v], k)
          PROVE  \/ k \in recorded'[v]
                 \/ pc'[newest[v]] = "performing" /\ First(seen'[newest[v]], matured'[v], k)
      <4>1. CASE newest[v] # p
        <5>1. pc'[newest[v]] = pc[newest[v]] /\ seen'[newest[v]] = seen[newest[v]]
          BY <1>13, Writing, <3>2, <4>1, SMT DEF SlotTypes, StoreTypes
        <5>. QED
          BY <3>1, <3>2, <5>1
      <4>2. CASE newest[v] = p
        <5>1. task[p] = v /\ Record(p) /\ Fits(p)
          BY <1>13, <3>2, <4>2, SMT DEF NewestIsAtWork, Transact, Sleep, At, Fits
        <5>2. Next(v, seen[p]) = k
          BY <3>2, <4>2, FirstIsNext
        <5>3. recorded' = [recorded EXCEPT ![v] = @ \cup {k}]
          BY <5>1, <5>2 DEF Record, Writes, Log!Write, Log!Files
        <5>. QED
          BY <5>3 DEF StoreTypes
      <4>. QED
        BY <4>1, <4>2
    <3>. QED
      BY <3>1, <3>2 DEF Covered
  <2>5. interrupted'[v] >= interrupted[v] /\ (deletion'[v] # "deleted" => deletion[v] # "deleted")
    BY <1>13, Writing DEF HistoryTypes
  <2>. QED
    BY <1>13, <2>1, <2>2, <2>3, <2>4, <2>5 DEF Quiet
<1>14. ASSUME NEW p \in Workers, task[p] \in Workflows, Fail(p), v # task[p]
      PROVE  Quiet(v)
  <2>1. Stale(v)' \subseteq Stale(v)
    BY <1>14, SMT DEF Fail, InPass, Interrupted, EndsAs, Goes, queue, store, slot, outside,
       history, Stale
  <2>2. Exposed(v)' => Exposed(v)
    BY <1>14, SMT DEF Fail, InPass, Interrupted, EndsAs, Goes, queue, store, slot, outside,
       history, Exposed
  <2>3. \A k \in Steps : Script[k] = "step" => effects'[v][k] = effects[v][k]
    BY <1>14, SMT DEF Fail, InPass, Interrupted, EndsAs, Goes, queue, store
  <2>4. \A k \in Steps : Script[k] = "step" /\ Covered(v, k) => Covered(v, k)'
    BY <1>14, SMT DEF Fail, InPass, Interrupted, EndsAs, Goes, queue, store, slot, outside,
       history, Covered, NewestIsAtWork
  <2>5. interrupted'[v] >= interrupted[v] /\ (deletion'[v] # "deleted" => deletion[v] # "deleted")
    BY <1>14, SMT DEF Fail, InPass, Interrupted, EndsAs, Goes, queue, store, slot, outside,
       HistoryTypes
  <2>. QED
    BY <1>14, <2>1, <2>2, <2>3, <2>4, <2>5 DEF Quiet
<1>15. ASSUME NEW p \in Workers, task[p] \in Workflows, Stop(p), v # task[p]
      PROVE  Quiet(v)
  <2>1. Stale(v)' \subseteq Stale(v)
    BY <1>15, SMT DEF Stop, InPass, Interrupted, queue, store, slot, outside, history, Stale
  <2>2. Exposed(v)' => Exposed(v)
    BY <1>15, SMT DEF Stop, InPass, Interrupted, queue, store, slot, outside, history, Exposed
  <2>3. \A k \in Steps : Script[k] = "step" => effects'[v][k] = effects[v][k]
    BY <1>15, SMT DEF Stop, InPass, Interrupted, queue, store
  <2>4. \A k \in Steps : Script[k] = "step" /\ Covered(v, k) => Covered(v, k)'
    BY <1>15, SMT DEF Stop, InPass, Interrupted, queue, store, slot, outside, history, Covered
  <2>5. interrupted'[v] >= interrupted[v] /\ (deletion'[v] # "deleted" => deletion[v] # "deleted")
    BY <1>15, SMT DEF Stop, InPass, Interrupted, queue, store, slot, outside, HistoryTypes
  <2>. QED
    BY <1>15, <2>1, <2>2, <2>3, <2>4, <2>5 DEF Quiet
<1>16. ASSUME NEW p \in Workers, task[p] \in Workflows, Crash(p), v # task[p]
      PROVE  Quiet(v)
  <2>1. Stale(v)' \subseteq Stale(v)
    BY <1>16, SMT DEF Crash, Interrupted, Idles, Goes, Queue!Leave, Log!Drop, queue, store, slot,
       outside, history, Stale, SlotTypes
  <2>2. Exposed(v)' => Exposed(v)
    BY <1>16, SMT DEF Crash, Interrupted, Idles, Goes, Queue!Leave, Log!Drop, queue, store, slot,
       outside, history, Exposed
  <2>3. \A k \in Steps : Script[k] = "step" => effects'[v][k] = effects[v][k]
    BY <1>16, SMT DEF Crash, Interrupted, Idles, Goes, Queue!Leave, Log!Drop, queue, store
  <2>4. \A k \in Steps : Script[k] = "step" /\ Covered(v, k) => Covered(v, k)'
    BY <1>16, SMT DEF Crash, Interrupted, Idles, Goes, Queue!Leave, Log!Drop, queue, store, slot,
       outside, history, Covered, NewestIsAtWork
  <2>5. interrupted'[v] >= interrupted[v] /\ (deletion'[v] # "deleted" => deletion[v] # "deleted")
    BY <1>16, SMT DEF Crash, Interrupted, Idles, Goes, Queue!Leave, Log!Drop, queue, store, slot,
       outside, HistoryTypes
  <2>. QED
    BY <1>16, <2>1, <2>2, <2>3, <2>4, <2>5 DEF Quiet
<1>17. ASSUME NEW w \in Workflows, ClaimLapses(w), v # w \/ ~ Attended(w)
      PROVE  Quiet(v)
  <2>1. Stale(v)' \subseteq Stale(v)
    BY <1>17, AttendedIsNewest, SMT DEF ClaimLapses, Interrupted, queue, store, slot, outside,
       history, Stale
  <2>2. Exposed(v)' => Exposed(v)
    BY <1>17, AttendedIsNewest, SMT DEF ClaimLapses, Interrupted, queue, store, slot, outside,
       history, Exposed
  <2>3. \A k \in Steps : Script[k] = "step" => effects'[v][k] = effects[v][k]
    BY <1>17, AttendedIsNewest, SMT DEF ClaimLapses, Interrupted, queue, store
  <2>4. \A k \in Steps : Script[k] = "step" /\ Covered(v, k) => Covered(v, k)'
    BY <1>17, AttendedIsNewest, SMT DEF ClaimLapses, Interrupted, queue, store, slot, outside,
       history, Covered
  <2>5. interrupted'[v] >= interrupted[v] /\ (deletion'[v] # "deleted" => deletion[v] # "deleted")
    BY <1>17, AttendedIsNewest, SMT DEF ClaimLapses, Interrupted, queue, store, slot, outside,
       HistoryTypes
  <2>. QED
    BY <1>17, <2>1, <2>2, <2>3, <2>4, <2>5 DEF Quiet
<1>18. ASSUME NEW w \in Workflows, BudgetEnds(w), v # w \/ ~ Attended(w)
      PROVE  Quiet(v)
  <2>1. Stale(v)' \subseteq Stale(v)
    BY <1>18, AttendedIsNewest, SMT DEF BudgetEnds, Interrupted, queue, store, slot, outside,
       history, Stale
  <2>2. Exposed(v)' => Exposed(v)
    BY <1>18, AttendedIsNewest, SMT DEF BudgetEnds, Interrupted, queue, store, slot, outside,
       history, Exposed
  <2>3. \A k \in Steps : Script[k] = "step" => effects'[v][k] = effects[v][k]
    BY <1>18, AttendedIsNewest, SMT DEF BudgetEnds, Interrupted, queue, store
  <2>4. \A k \in Steps : Script[k] = "step" /\ Covered(v, k) => Covered(v, k)'
    BY <1>18, AttendedIsNewest, SMT DEF BudgetEnds, Interrupted, queue, store, slot, outside,
       history, Covered
  <2>5. interrupted'[v] >= interrupted[v] /\ (deletion'[v] # "deleted" => deletion[v] # "deleted")
    BY <1>18, AttendedIsNewest, SMT DEF BudgetEnds, Interrupted, queue, store, slot, outside,
       HistoryTypes
  <2>. QED
    BY <1>18, <2>1, <2>2, <2>3, <2>4, <2>5 DEF Quiet
<1>19. ASSUME NEW w \in Workflows, Discard(w), v # w
      PROVE  Quiet(v)
  <2>1. Stale(v)' \subseteq Stale(v)
    BY <1>19, SMT DEF Discard, Log!Forget, queue, store, slot, outside, history, Stale
  <2>2. Exposed(v)' => Exposed(v)
    BY <1>19, SMT DEF Discard, Log!Forget, queue, store, slot, outside, history, Exposed
  <2>3. \A k \in Steps : Script[k] = "step" => effects'[v][k] = effects[v][k]
    BY <1>19, SMT DEF Discard, Log!Forget, queue, store, history
  <2>4. \A k \in Steps : Script[k] = "step" /\ Covered(v, k) => Covered(v, k)'
    BY <1>19, SMT DEF Discard, Log!Forget, queue, store, slot, outside, history, Covered
  <2>5. interrupted'[v] >= interrupted[v] /\ (deletion'[v] # "deleted" => deletion[v] # "deleted")
    BY <1>19, SMT DEF Discard, Log!Forget, queue, store, slot, history, HistoryTypes
  <2>. QED
    BY <1>19, <2>1, <2>2, <2>3, <2>4, <2>5 DEF Quiet
<1>20. ASSUME NEW p \in Workers, task[p] \in Workflows, Claim(p), v # task[p] \/ pc'[p] = "contended"
      PROVE  Quiet(v)
  <2>1. Stale(v)' \subseteq Stale(v)
    BY <1>20, SMT DEF Claim, Log!Grant, Goes, queue, store, slot, outside, history, Stale,
       SlotTypes, StoreTypes
  <2>2. Exposed(v)' => Exposed(v)
    BY <1>20, SMT DEF Claim, Log!Grant, Goes, queue, store, slot, outside, history, Exposed,
       SlotTypes, StoreTypes, NewestIsAtWork
  <2>3. \A k \in Steps : Script[k] = "step" => effects'[v][k] = effects[v][k]
    BY <1>20, SMT DEF Claim, Log!Grant, Goes, queue, store, history
  <2>4. \A k \in Steps : Script[k] = "step" /\ Covered(v, k) => Covered(v, k)'
    BY <1>20, SMT DEF Claim, Log!Grant, Goes, queue, store, slot, outside, history, Covered,
       SlotTypes, StoreTypes
  <2>5. interrupted'[v] >= interrupted[v] /\ (deletion'[v] # "deleted" => deletion[v] # "deleted")
    BY <1>20, SMT DEF Claim, Log!Grant, Goes, queue, store, slot, outside, history, HistoryTypes
  <2>. QED
    BY <1>20, <2>1, <2>2, <2>3, <2>4, <2>5 DEF Quiet
<1>21. ASSUME NEW p \in Workers, task[p] \in Workflows, Perform(p), v # task[p]
      PROVE  Quiet(v)
  <2>1. Stale(v)' \subseteq Stale(v)
    BY <1>21, SMT DEF Perform, At, PerformsEffect, Goes, queue, store, slot, outside, history,
       Stale
  <2>2. Exposed(v)' => Exposed(v)
    BY <1>21, SMT DEF Perform, At, PerformsEffect, Goes, queue, store, slot, outside, history,
       Exposed
  <2>3. \A k \in Steps : Script[k] = "step" => effects'[v][k] = effects[v][k]
    BY <1>21, SMT DEF Perform, At, PerformsEffect, Goes, queue, store
  <2>4. \A k \in Steps : Script[k] = "step" /\ Covered(v, k) => Covered(v, k)'
    BY <1>21, SMT DEF Perform, At, PerformsEffect, Goes, queue, store, slot, outside, history,
       Covered
  <2>5. interrupted'[v] >= interrupted[v] /\ (deletion'[v] # "deleted" => deletion[v] # "deleted")
    BY <1>21, SMT DEF Perform, At, PerformsEffect, Goes, queue, store, slot, outside, HistoryTypes
  <2>. QED
    BY <1>21, <2>1, <2>2, <2>3, <2>4, <2>5 DEF Quiet
<1>. QED
  BY Cases, <1>1, <1>2, <1>3, <1>4, <1>5, <1>6, <1>7, <1>8, <1>9, <1>10, <1>11, <1>12, <1>13,
     <1>14, <1>15, <1>16, <1>17, <1>18, <1>19, <1>20, <1>21 DEF Advance, Elsewhere

(* The steps that are not quiet: a claim and a step performed, a record, an *)
(* interruption.                                                            *)
LEMMA EffectsArePaidKept ==
  ASSUME SlotTypes, StoreTypes, OutsideTypes, HistoryTypes, HistoryTypes', OutcomeFits, NewestIsAtWork,
         PerformsItsStep, NewestKnows, EffectsArePaid, Step
  PROVE  EffectsArePaid'
<1>. SUFFICES ASSUME NEW v \in Workflows
              PROVE  Paid(v)'
  BY DEF EffectsArePaid
<1>0. Paid(v)
  BY DEF EffectsArePaid
<1>1. ASSUME NEW p \in Workers, task[p] \in Workflows, Fail(p), task[p] = v
      PROVE  Paid(v)'
  <2>1. Stale(v)' \subseteq Stale(v)
    BY <1>1, SMT DEF Fail, InPass, Interrupted, EndsAs, Goes, queue, store, slot, outside,
       history, Stale
  <2>3. \A k \in Steps : Script[k] = "step" => effects'[v][k] = effects[v][k]
    BY <1>1, SMT DEF Fail, InPass, Interrupted, EndsAs, Goes, queue, store
  <2>2. Exposed(v)' => Exposed(v)
    BY <1>1, SMT DEF Fail, InPass, Interrupted, EndsAs, Goes, queue, store, slot, outside,
       history, Exposed
  <2>6. interrupted'[v] = interrupted[v] + 1 /\ (deletion'[v] # "deleted" => deletion[v] # "deleted")
    BY <1>1, SMT DEF Fail, InPass, Interrupted, EndsAs, Goes, queue, store, slot, outside,
       HistoryTypes
  <2>. QED
    BY <1>1, <2>1, <2>3, <2>2, <2>6, <1>0, InterruptionPays
<1>2. ASSUME NEW p \in Workers, task[p] \in Workflows, Stop(p), task[p] = v
      PROVE  Paid(v)'
  <2>1. Stale(v)' \subseteq Stale(v)
    BY <1>2, SMT DEF Stop, InPass, Interrupted, queue, store, slot, outside, history, Stale
  <2>3. \A k \in Steps : Script[k] = "step" => effects'[v][k] = effects[v][k]
    BY <1>2, SMT DEF Stop, InPass, Interrupted, queue, store
  <2>2. Exposed(v)' => Exposed(v)
    BY <1>2, SMT DEF Stop, InPass, Interrupted, queue, store, slot, outside, history, Exposed
  <2>6. interrupted'[v] = interrupted[v] + 1 /\ (deletion'[v] # "deleted" => deletion[v] # "deleted")
    BY <1>2, SMT DEF Stop, InPass, Interrupted, queue, store, slot, outside, HistoryTypes
  <2>. QED
    BY <1>2, <2>1, <2>3, <2>2, <2>6, <1>0, InterruptionPays
<1>3. ASSUME NEW p \in Workers, task[p] \in Workflows, Crash(p), task[p] = v
      PROVE  Paid(v)'
  <2>1. Stale(v)' \subseteq Stale(v)
    BY <1>3, SMT DEF Crash, Interrupted, Idles, Goes, Queue!Leave, Log!Drop, queue, store, slot,
       outside, history, Stale, SlotTypes
  <2>3. \A k \in Steps : Script[k] = "step" => effects'[v][k] = effects[v][k]
    BY <1>3, SMT DEF Crash, Interrupted, Idles, Goes, Queue!Leave, Log!Drop, queue, store
  <2>2. Exposed(v)' => Exposed(v)
    BY <1>3, SMT DEF Crash, Interrupted, Idles, Goes, Queue!Leave, Log!Drop, queue, store, slot,
       outside, history, Exposed
  <2>6. interrupted'[v] = interrupted[v] + 1 /\ (deletion'[v] # "deleted" => deletion[v] # "deleted")
    BY <1>3, SMT DEF Crash, Interrupted, Idles, Goes, Queue!Leave, Log!Drop, queue, store, slot,
       outside, HistoryTypes
  <2>. QED
    BY <1>3, <2>1, <2>3, <2>2, <2>6, <1>0, InterruptionPays
<1>4. ASSUME ClaimLapses(v), Attended(v)
      PROVE  Paid(v)'
  <2>1. Stale(v)' \subseteq Stale(v)
    BY <1>4, SMT DEF ClaimLapses, Interrupted, queue, store, slot, outside, history, Stale
  <2>3. \A k \in Steps : Script[k] = "step" => effects'[v][k] = effects[v][k]
    BY <1>4, SMT DEF ClaimLapses, Interrupted, queue, store
  <2>4. \A k \in Steps : Script[k] = "step" /\ Covered(v, k) => Covered(v, k)'
    BY <1>4, SMT DEF ClaimLapses, Interrupted, queue, store, slot, outside, history, Covered
  <2>6. interrupted'[v] = interrupted[v] + 1 /\ (deletion'[v] # "deleted" => deletion[v] # "deleted")
    BY <1>4, SMT DEF ClaimLapses, Interrupted, queue, store, slot, outside, HistoryTypes
  <2>. QED
    BY <1>4, <2>1, <2>3, <2>4, <2>6, <1>0, InterruptionPays
<1>5. ASSUME BudgetEnds(v), Attended(v)
      PROVE  Paid(v)'
  <2>1. Stale(v)' \subseteq Stale(v)
    BY <1>5, SMT DEF BudgetEnds, Interrupted, queue, store, slot, outside, history, Stale
  <2>3. \A k \in Steps : Script[k] = "step" => effects'[v][k] = effects[v][k]
    BY <1>5, SMT DEF BudgetEnds, Interrupted, queue, store
  <2>4. \A k \in Steps : Script[k] = "step" /\ Covered(v, k) => Covered(v, k)'
    BY <1>5, SMT DEF BudgetEnds, Interrupted, queue, store, slot, outside, history, Covered
  <2>6. interrupted'[v] = interrupted[v] + 1 /\ (deletion'[v] # "deleted" => deletion[v] # "deleted")
    BY <1>5, SMT DEF BudgetEnds, Interrupted, queue, store, slot, outside, HistoryTypes
  <2>. QED
    BY <1>5, <2>1, <2>3, <2>4, <2>6, <1>0, InterruptionPays
<1>6. CASE Discard(v)
  BY <1>6 DEF Discard, Paid, OutsideTypes
<1>7. ASSUME NEW p \in Workers, task[p] = v, Claim(p), pc'[p] # "contended"
      PROVE  Paid(v)'
  <2>1. /\ pc[p] = "taken" /\ claim[v] # "alive"
        /\ newest' = [newest EXCEPT ![v] = p] /\ claim' = [claim EXCEPT ![v] = "alive"]
        /\ pc' = [pc EXCEPT ![p] = "claimed"]
        /\ UNCHANGED <<task, seen, recorded, matured, deletion, effects, interrupted>>
    BY <1>7 DEF Claim, Log!Grant, Goes, SlotTypes, outside, history
  <2>2. ~ Exposed(v)' /\ newest'[v] = p /\ pc'[p] = "claimed"
    BY <2>1 DEF Exposed, StoreTypes, SlotTypes
  <2>3. \A k \in Steps : Covered(v, k)' <=> k \in recorded[v]
    BY <2>1, <2>2 DEF Covered
  <2>4. \A q \in Workers : task[q] = v /\ pc'[q] \in {"claimed", "running"} /\ q # p
                             => q \in Stale(v) \/ q = newest[v]
    BY <2>1 DEF Stale, SlotTypes
  <2>5. CASE newest[v] # NoWorker /\ pc[newest[v]] \in {"claimed", "running"}
    <3>1. Exposed(v) /\ \A k \in Steps : Covered(v, k) <=> k \in recorded[v]
      BY <2>1, <2>5 DEF Exposed, Covered
    <3>2. newest[v] \in Workers /\ newest[v] \notin Stale(v)
      BY <2>5 DEF Stale, StoreTypes
    <3>3. Stale(v)' \subseteq Stale(v) \cup {newest[v]}
      BY <2>1, <2>2, <2>4 DEF Stale
    <3>4. ASSUME IsFiniteSet(Stale(v))
          PROVE  /\ IsFiniteSet(Stale(v)') /\ Cardinality(Stale(v)') \in Nat
                 /\ Cardinality(Stale(v)') <= Cardinality(Stale(v)) + 1
                 /\ Cardinality(Stale(v)) \in Nat
      <4>1. /\ IsFiniteSet(Stale(v) \cup {newest[v]})
            /\ Cardinality(Stale(v) \cup {newest[v]}) = Cardinality(Stale(v)) + 1
        BY <3>2, <3>4, FS_AddElement
      <4>. QED
        BY <3>3, <3>4, <4>1, FS_Subset, FS_CardinalityType
    <3>5. ASSUME IsFiniteSet(Stale(v)), NEW k \in Steps
          PROVE  effects'[v][k] + One(Exposed(v)') + Cardinality(Stale(v)') + interrupted[v] + One(Covered(v, k))
                   <= effects[v][k] + One(Exposed(v)) + Cardinality(Stale(v)) + interrupted'[v] + One(Covered(v, k)')
      <4>1. One(Exposed(v)) = 1 /\ One(Exposed(v)') = 0
        BY <2>2, <3>1 DEF One
      <4>2. One(Covered(v, k)) = One(Covered(v, k)') /\ One(Covered(v, k)) \in {0, 1}
        BY <2>3, <3>1, <3>5, OneIs
      <4>3. effects[v][k] \in Nat /\ interrupted[v] \in Nat
        BY <3>5, InterruptionsBounded DEF HistoryTypes
      <4>. QED
        BY <2>1, <3>4, <3>5, <4>1, <4>2, <4>3
    <3>. QED
      BY <1>0, <2>1, <3>4, <3>5, Balances
  <2>6. CASE newest[v] # NoWorker /\ pc[newest[v]] = "performing"
    <3>1. Exposed(v)
      BY <2>1, <2>6 DEF Exposed
    <3>2. Stale(v)' \subseteq Stale(v)
      BY <2>1, <2>2, <2>4, <2>6 DEF Stale
    <3>3. ASSUME IsFiniteSet(Stale(v)), NEW k \in Steps
          PROVE  effects'[v][k] + One(Exposed(v)') + Cardinality(Stale(v)') + interrupted[v] + One(Covered(v, k))
                   <= effects[v][k] + One(Exposed(v)) + Cardinality(Stale(v)) + interrupted'[v] + One(Covered(v, k)')
      <4>1. One(Exposed(v)) = 1 /\ One(Exposed(v)') = 0
        BY <2>2, <3>1 DEF One
      <4>2. One(Covered(v, k)) \in {0, 1} /\ One(Covered(v, k)') \in {0, 1}
        BY OneIs
      <4>3. effects[v][k] \in Nat /\ interrupted[v] \in Nat
        BY <3>3, InterruptionsBounded DEF HistoryTypes
      <4>. QED
        BY <2>1, <3>2, <3>3, <4>1, <4>2, <4>3, FewerStale
    <3>. QED
      BY <1>0, <2>1, <3>2, <3>3, FewerStale, Balances
  <2>7. CASE newest[v] = NoWorker \/ pc[newest[v]] \notin {"claimed", "running", "performing"}
    <3>1. Stale(v)' \subseteq Stale(v)
      BY <2>1, <2>2, <2>4, <2>7, NobodyNowhere DEF Stale
    <3>2. \A k \in Steps : Covered(v, k) => Covered(v, k)'
      BY <2>3, <2>7 DEF Covered
    <3>. QED
      BY <1>0, <2>1, <2>2, <3>1, <3>2, QuietIsPaid DEF Quiet, HistoryTypes
  <2>. QED
    BY <2>5, <2>6, <2>7
<1>8. ASSUME NEW p \in Workers, task[p] = v, Perform(p)
      PROVE  Paid(v)'
  <2>1. /\ pc[p] = "running" /\ pc' = [pc EXCEPT ![p] = "performing"]
        /\ UNCHANGED <<newest, claim, recorded, matured, task, seen, deletion, interrupted>>
    BY <1>8 DEF Perform, At, Goes, store, outside
  <2>2. PICK j \in Steps : /\ Script[j] = "step" /\ j = Next(v, seen[p])
                           /\ effects' = [effects EXCEPT ![v][j] = @ + 1]
    BY <1>8 DEF Perform, At, PerformsEffect
  <2>3. \A k \in Steps : effects'[v][k] = IF k = j THEN effects[v][k] + 1 ELSE effects[v][k]
    BY <2>2 DEF HistoryTypes
  <2>4. Stale(v)' = Stale(v) \ {p}
    BY <2>1 DEF Stale, SlotTypes
  <2>5. Exposed(v)' => Exposed(v)
    BY <2>1 DEF Exposed, SlotTypes, StoreTypes
  <2>6. CASE newest[v] = p
    <3>1. \A k \in Steps : Covered(v, k) <=> k \in recorded[v]
      BY <2>1, <2>6 DEF Covered
    <3>2. First(seen[p], matured[v], j)
      BY <2>2, NextIsFirst
    <3>3. ~ Covered(v, j)
      <4>1. j \notin seen[p]
        BY <2>2, <3>2, FirstIsUnanswered
      <4>2. j \notin recorded[v]
        BY <2>1, <2>2, <2>6, <4>1, NobodyNowhere DEF NewestKnows
      <4>. QED
        BY <3>1, <4>2
    <3>4. Covered(v, j)' /\ \A k \in Steps : Covered(v, k) => Covered(v, k)'
      <4>1. newest'[v] = p /\ newest'[v] # NoWorker /\ pc'[p] = "performing"
        BY <2>1, <2>6, NobodyNowhere DEF SlotTypes
      <4>. QED
        BY <2>1, <3>1, <3>2, <4>1 DEF Covered
    <3>5. ASSUME IsFiniteSet(Stale(v)), NEW k \in Steps
          PROVE  effects'[v][k] + One(Exposed(v)') + Cardinality(Stale(v)') + interrupted[v] + One(Covered(v, k))
                   <= effects[v][k] + One(Exposed(v)) + Cardinality(Stale(v)) + interrupted'[v] + One(Covered(v, k)')
      <4>1. /\ One(Exposed(v)) \in {0, 1} /\ One(Exposed(v)') \in {0, 1} /\ One(Exposed(v)') <= One(Exposed(v))
            /\ One(Covered(v, k)) \in {0, 1} /\ One(Covered(v, k)') \in {0, 1}
        BY <2>5, OneIs
      <4>2. One(Covered(v, k)) <= One(Covered(v, k)')
        BY <3>4, <3>5, OneIs
      <4>3. k = j => One(Covered(v, k)) = 0 /\ One(Covered(v, k)') = 1
        BY <3>3, <3>4 DEF One
      <4>4. effects[v][k] \in Nat /\ interrupted[v] \in Nat
        BY <3>5, InterruptionsBounded DEF HistoryTypes
      <4>5. Stale(v)' \subseteq Stale(v)
        BY <2>4
      <4>. QED
        BY <2>1, <2>3, <3>5, <4>1, <4>2, <4>3, <4>4, <4>5, FewerStale
    <3>. QED
      BY <1>0, <2>1, <2>4, <3>5, FewerStale, Balances
  <2>7. CASE newest[v] # p
    <3>1. p \in Stale(v)
      BY <1>8, <2>1, <2>7 DEF Stale
    <3>2. \A k \in Steps : Covered(v, k) => Covered(v, k)'
      BY <2>1, <2>7 DEF Covered
    <3>3. ASSUME IsFiniteSet(Stale(v))
          PROVE  /\ IsFiniteSet(Stale(v)') /\ Cardinality(Stale(v)') = Cardinality(Stale(v)) - 1
                 /\ Cardinality(Stale(v)) \in Nat
      BY <2>4, <3>1, <3>3, FS_RemoveElement, FS_CardinalityType
    <3>4. ASSUME IsFiniteSet(Stale(v)), NEW k \in Steps
          PROVE  effects'[v][k] + One(Exposed(v)') + Cardinality(Stale(v)') + interrupted[v] + One(Covered(v, k))
                   <= effects[v][k] + One(Exposed(v)) + Cardinality(Stale(v)) + interrupted'[v] + One(Covered(v, k)')
      <4>1. /\ One(Exposed(v)) \in {0, 1} /\ One(Exposed(v)') \in {0, 1} /\ One(Exposed(v)') <= One(Exposed(v))
            /\ One(Covered(v, k)) \in {0, 1} /\ One(Covered(v, k)') \in {0, 1}
        BY <2>5, OneIs
      <4>2. One(Covered(v, k)) <= One(Covered(v, k)')
        BY <3>2, <3>4, OneIs
      <4>3. effects[v][k] \in Nat /\ interrupted[v] \in Nat
        BY <3>4, InterruptionsBounded DEF HistoryTypes
      <4>. QED
        BY <2>1, <2>3, <3>3, <3>4, <4>1, <4>2, <4>3
    <3>. QED
      BY <1>0, <2>1, <3>3, <3>4, Balances
  <2>. QED
    BY <2>6, <2>7
<1>. QED
  BY <1>0, <1>1, <1>2, <1>3, <1>4, <1>5, <1>6, <1>7, <1>8, QuietSteps, QuietIsPaid

(* The invariant holds at first, is kept by a stutter, and by a step. *)
LEMMA InitHolds == Init => WorkerInv
<1>. SUFFICES ASSUME Init PROVE WorkerInv
  OBVIOUS
<1>1. Types
  <2>1. 0 \in 0..Len(Script)
    BY ScriptIsOperations
  <2>2. 0 \in 0..MaxInterruptions
    BY InterruptionsBounded
  <2>. QED
    BY <2>1, <2>2 DEF Init, Queue!Init, Log!Init, Types, QueueTypes, StoreTypes, SlotTypes,
       OutsideTypes, HistoryTypes
<1>2. OutcomeFits /\ NewestIsAtWork /\ HolderIsAtWork
  BY NobodyNowhere DEF Init, Queue!Init, Log!Init, OutcomeFits, NewestIsAtWork, HolderIsAtWork
<1>3. SeenIsRecorded /\ NewestKnows /\ PerformsItsStep
  BY DEF Init, Log!Init, SeenIsRecorded, NewestKnows, PerformsItsStep
<1>4. EffectsArePaid
  <2>1. ASSUME NEW w \in Workflows
        PROVE  Stale(w) = {} /\ ~ Exposed(w)
    BY <2>1 DEF Init, Log!Init, Stale, Exposed
  <2>2. ASSUME NEW w \in Workflows, NEW k \in Steps
        PROVE  effects[w][k] = 0 /\ interrupted[w] = 0
    BY <2>2 DEF Init
  <2>3. \A w \in Workflows, k \in Steps : One(Exposed(w)) = 0 /\ One(Covered(w, k)) \in {0, 1}
    BY <2>1, OneIs
  <2>. QED
    BY <2>1, <2>2, <2>3, FS_EmptySet DEF EffectsArePaid, Paid
<1>5. TransactsAreRecorded /\ InputsAreRecorded /\ HolderKnows /\ EndsWhereItCame
  BY NobodyNowhere DEF Init, Queue!Init, Log!Init, TransactsAreRecorded, InputsAreRecorded,
     HolderKnows, EndsWhereItCame, One
<1>6. RecordedInOrder /\ WakeupIsKept
  BY DEF Init, Log!Init, RecordedInOrder, WakeupIsKept
<1>. QED
  BY <1>1, <1>2, <1>3, <1>4, <1>5, <1>6 DEF WorkerInv

LEMMA StutterHolds == ASSUME WorkerInv, UNCHANGED vars PROVE WorkerInv'
<1>. USE DEF vars, queue, store, slot, outside, history
<1>1. Types'
  BY DEF WorkerInv, Types, QueueTypes, StoreTypes, SlotTypes, OutsideTypes, HistoryTypes
<1>2. OutcomeFits' /\ NewestIsAtWork' /\ HolderIsAtWork'
  BY DEF WorkerInv, OutcomeFits, NewestIsAtWork, HolderIsAtWork
<1>3. SeenIsRecorded' /\ NewestKnows' /\ PerformsItsStep'
  BY DEF WorkerInv, SeenIsRecorded, NewestKnows, PerformsItsStep
<1>4. EffectsArePaid'
  BY ZenonT(30) DEF WorkerInv, EffectsArePaid, Paid, Stale, Exposed, Covered
<1>5. TransactsAreRecorded' /\ InputsAreRecorded' /\ HolderKnows' /\ EndsWhereItCame'
  BY DEF WorkerInv, TransactsAreRecorded, InputsAreRecorded, HolderKnows, EndsWhereItCame
<1>6. RecordedInOrder' /\ WakeupIsKept'
  BY DEF WorkerInv, RecordedInOrder, WakeupIsKept, Looked
<1>. QED
  BY <1>1, <1>2, <1>3, <1>4, <1>5, <1>6 DEF WorkerInv

LEMMA StepHolds == ASSUME WorkerInv, Step PROVE WorkerInv'
<1>1. /\ QueueTypes /\ StoreTypes /\ SlotTypes /\ OutsideTypes /\ HistoryTypes
      /\ OutcomeFits /\ NewestIsAtWork /\ HolderIsAtWork
      /\ SeenIsRecorded /\ NewestKnows /\ PerformsItsStep
      /\ EffectsArePaid /\ TransactsAreRecorded
      /\ InputsAreRecorded /\ HolderKnows /\ EndsWhereItCame
      /\ RecordedInOrder /\ WakeupIsKept
  BY DEF WorkerInv, Types
<1>2. Types'
  BY <1>1, QueueTypesKept, StoreTypesKept, SlotTypesKept, OutsideTypesKept, HistoryTypesKept DEF
     Types
<1>3. OutcomeFits' /\ NewestIsAtWork' /\ HolderIsAtWork'
  BY <1>1, OutcomeFitsKept, NewestIsAtWorkKept, HolderIsAtWorkKept
<1>4. SeenIsRecorded' /\ NewestKnows' /\ PerformsItsStep'
  BY <1>1, SeenIsRecordedKept, NewestKnowsKept, PerformsItsStepKept
<1>5. EffectsArePaid' /\ TransactsAreRecorded'
  BY <1>1, HistoryTypesKept, EffectsArePaidKept, TransactsAreRecordedKept
<1>6. InputsAreRecorded' /\ HolderKnows' /\ EndsWhereItCame'
  BY <1>1, InputsAreRecordedKept, HolderKnowsKept, EndsWhereItCameKept
<1>7. RecordedInOrder' /\ WakeupIsKept'
  BY <1>1, RecordedInOrderKept, WakeupIsKeptKept
<1>. QED
  BY <1>2, <1>3, <1>4, <1>5, <1>6, <1>7 DEF WorkerInv

(* The inductive invariant of a worker's passes holds whatever is          *)
(* interrupted, however the tasks, the clients and the deadlines of        *)
(* worker.py's pass and interfaces.py's SplitDurable come in between.      *)
THEOREM WorkerInvariant == Spec => []WorkerInv
<1>1. WorkerInv /\ [Step]_vars => WorkerInv'
  BY StepHolds, StutterHolds
<1>. QED
  BY InitHolds, <1>1, PTL DEF Spec

(* Every variable of the worker's model has its type.                      *)
THEOREM TypesHold == Spec => []TypeOK
<1>1. WorkerInv => TypeOK
  BY DEF WorkerInv, Types, StoreTypes, SlotTypes, OutsideTypes, HistoryTypes, TypeOK
<1>. QED
  BY <1>1, WorkerInvariant, PTL

(* A step's effect is performed at most once more than its workflow was    *)
(* interrupted, for any number of workers, workflows and operations: at    *)
(* least once, and never again for nothing (worker.py, `advance').         *)
THEOREM EffectsArePaidFor == Spec => []RepeatsArePaidFor
<1>1. ASSUME WorkerInv, NEW w \in Workflows, NEW k \in Steps, deletion[w] # "deleted"
      PROVE  effects[w][k] <= 1 + interrupted[w]
  <2>1. effects[w][k] \in Nat /\ interrupted[w] \in Nat
    BY <1>1 DEF WorkerInv, Types, HistoryTypes
  <2>2. Script[k] \in Kinds
    BY ScriptIsOperations DEF Steps
  <2>3. CASE Script[k] = "step"
    <3>1. /\ effects[w][k] + One(Exposed(w)) + Cardinality(Stale(w)) <= interrupted[w] + One(Covered(w, k))
          /\ IsFiniteSet(Stale(w))
      BY <1>1, <2>3 DEF WorkerInv, EffectsArePaid, Paid
    <3>2. Cardinality(Stale(w)) \in Nat
      BY <3>1, FS_CardinalityType
    <3>3. One(Exposed(w)) \in {0, 1} /\ One(Covered(w, k)) \in {0, 1}
      BY OneIs
    <3>. QED
      BY <2>1, <3>1, <3>2, <3>3
  <2>4. CASE Script[k] = "transact"
    <3>1. effects[w][k] <= One(k \in recorded[w]) + One(deletion[w] = "deleted")
      BY <1>1, <2>4 DEF WorkerInv, TransactsAreRecorded
    <3>. QED
      BY <1>1, <2>1, <3>1 DEF One
  <2>5. CASE Script[k] \in {"await", "sleep"}
    BY <1>1, <2>1, <2>5 DEF WorkerInv, TransactsAreRecorded
  <2>. QED
    BY <2>2, <2>3, <2>4, <2>5 DEF Kinds
<1>2. WorkerInv => RepeatsArePaidFor
  BY <1>1 DEF RepeatsArePaidFor
<1>. QED
  BY <1>2, WorkerInvariant, PTL

(* A transacted effect is applied once per life of the workflow's records  *)
(* ("exactly once", the `transact' of interfaces.py's Durable).            *)
THEOREM TransactsOnce == Spec => []TransactedOnce
<1>1. WorkerInv => TransactedOnce
  <2>1. ASSUME WorkerInv, NEW w \in Workflows, NEW k \in Steps, Script[k] = "transact"
        PROVE  effects[w][k] <= IF deletion[w] = "deleted" THEN 2 ELSE 1
    <3>1. effects[w][k] <= One(k \in recorded[w]) + One(deletion[w] = "deleted")
      BY <2>1 DEF WorkerInv, TransactsAreRecorded
    <3>2. effects[w][k] \in Nat
      BY <2>1 DEF WorkerInv, Types, HistoryTypes
    <3>. QED
      BY <3>1, <3>2 DEF One
  <2>. QED
    BY <2>1 DEF TransactedOnce
<1>. QED
  BY <1>1, WorkerInvariant, PTL

(* The records of a workflow are those of a prefix of its body, inputs     *)
(* aside: replaying them (stepwise.py, Run) comes to where they end.       *)
THEOREM RecordsInOrder == Spec => []RecordedInOrder
<1>1. WorkerInv => RecordedInOrder
  BY DEF WorkerInv
<1>. QED
  BY <1>1, WorkerInvariant, PTL

(* A workflow that could get on has a wakeup, or a client about to see to  *)
(* one, between any two steps of any number of tasks and clients.          *)
THEOREM RunnableQueued == Spec => []RunnableIsQueued
<1>1. WorkerInv => RunnableIsQueued
  BY RunnableIsKept DEF WorkerInv
<1>. QED
  BY <1>1, WorkerInvariant, PTL

(* The worker asks of its queue only what a Scheduler promises, as         *)
(* interfaces.py states it: module Wakeups, in the state it keeps of it.   *)
THEOREM WakeupsAreUsed == Spec => Queue!Spec
<1>1. Init => Queue!Init
  BY DEF Init
<1>2. ASSUME WorkerInv, Step
      PROVE  Queue!Next \/ UNCHANGED <<visible, holder>>
  <2>0. QueueTypes /\ SlotTypes /\ StoreTypes /\ OutcomeFits /\ NewestIsAtWork /\ PerformsItsStep
    BY <1>2 DEF WorkerInv, Types
  <2>1. ASSUME NEW p \in Workers, NEW w \in Workflows, Take(p, w)
        PROVE  Queue!Next
    BY <2>1 DEF Take, Queue!Next
  <2>2. ASSUME NEW p \in Workers, task[p] \in Workflows,
               \/ Claim(p) \/ Load(p) \/ Perform(p) \/ Await(p) \/ Complete(p) \/ Renew(p)
               \/ Fail(p) \/ Stop(p) \/ Record(p) \/ Transact(p) \/ Sleep(p)
        PROVE  UNCHANGED <<visible, holder>>
    BY <2>2 DEF Claim, Load, Perform, Await, Complete, Renew, Fail, Stop, Record, Transact, Sleep,
       queue
  <2>3. ASSUME NEW p \in Workers, task[p] \in Workflows,
               LookAgain(p) \/ Answer(p) \/ Extend(p)
        PROVE  Queue!Next \/ UNCHANGED <<visible, holder>>
    BY <2>3 DEF LookAgain, Answer, Extend, Queue!Next, queue
  <2>4. ASSUME NEW p \in Workers, Release(p) \/ Crash(p)
        PROVE  Queue!Next \/ UNCHANGED <<visible, holder>>
    BY <2>4 DEF Release, Crash, Queue!Next, queue
  <2>5. ASSUME NEW w \in Workflows, BecomesVisible(w)
        PROVE  Queue!Next
    <3>1. {w} \in SUBSET {v \in Workflows : visible[v] = "later"}
      BY <2>5 DEF BecomesVisible
    <3>2. visible' = [v \in Workflows |-> IF v \in {w} THEN "now" ELSE visible[v]]
      BY <2>0, <2>5 DEF BecomesVisible, Queue!Put, QueueTypes
    <3>3. holder' = holder
      BY <2>0, <2>5 DEF BecomesVisible, Queue!Put, QueueTypes
    <3>4. Queue!Lapse
      BY <3>1, <3>2, <3>3 DEF Queue!Lapse
    <3>. QED
      BY <3>4 DEF Queue!Next
  <2>6. ASSUME NEW w \in Workflows, Submit(w) \/ MakeReady(w) \/ Cancel(w)
        PROVE  Queue!Next
    BY <2>6 DEF Submit, MakeReady, Cancel, Queue!Ask, Queue!Next
  <2>7. ASSUME NEW w \in Workflows,
               \/ ClaimLapses(w) \/ BudgetEnds(w) \/ DeadlinePasses(w) \/ ArriveDies(w) \/ Discard(w)
               \/ \E k \in Steps : Supply(w, k)
        PROVE  UNCHANGED <<visible, holder>>
    BY <2>7 DEF ClaimLapses, BudgetEnds, DeadlinePasses, ArriveDies, Discard, Supply, queue
  <2>. QED
    BY <1>2, <2>0, Cases, <2>1, <2>2, <2>3, <2>4, <2>5, <2>6, <2>7 DEF Advance, Elsewhere
<1>3. WorkerInv /\ [Step]_vars => [Queue!Next]_(Queue!vars)
  BY <1>2 DEF vars, queue, Queue!vars
<1>. QED
  BY <1>1, <1>3, WorkerInvariant, PTL DEF Spec, Queue!Spec

(* And of its checkpoints only what a Checkpointer promises: a Pass is     *)
(* granted, fenced and dropped, and records are added by whoever has it,   *)
(* or by the arrival of an input, as module PassLog allows.                *)
THEOREM PassesAreFenced == Spec => Log!Spec
<1>1. Init => Log!Init
  BY DEF Init
<1>2. ASSUME WorkerInv, Step
      PROVE  Log!Next \/ UNCHANGED <<newest, recorded>>
  <2>0. QueueTypes /\ SlotTypes /\ StoreTypes /\ OutcomeFits /\ NewestIsAtWork /\ PerformsItsStep
    BY <1>2 DEF WorkerInv, Types
  <2>1. ASSUME NEW p \in Workers, NEW w \in Workflows, Take(p, w)
        PROVE  UNCHANGED <<newest, recorded>>
    BY <2>1 DEF Take, store
  <2>2. ASSUME NEW p \in Workers, task[p] \in Workflows,
               \/ Load(p) \/ Perform(p) \/ Await(p) \/ Complete(p) \/ Renew(p) \/ Extend(p)
               \/ Fail(p) \/ Stop(p) \/ LookAgain(p) \/ Answer(p)
        PROVE  UNCHANGED <<newest, recorded>>
    BY <2>2 DEF Load, Perform, Await, Complete, Renew, Extend, Fail, Stop, LookAgain, Answer,
       store
  <2>3. ASSUME NEW p \in Workers, task[p] \in Workflows, Claim(p)
        PROVE  Log!Next \/ UNCHANGED <<newest, recorded>>
    BY <2>3 DEF Claim, Log!Next, store
  <2>4. ASSUME NEW p \in Workers, task[p] \in Workflows, Record(p) \/ Transact(p) \/ Sleep(p)
        PROVE  Log!Next \/ UNCHANGED <<newest, recorded>>
    <3>1. CASE UNCHANGED recorded
      BY <2>0, <2>4, <3>1, Writing
    <3>2. ASSUME newest[task[p]] = p, NEW k \in Steps,
                 recorded' = [recorded EXCEPT ![task[p]] = @ \cup {k}]
          PROVE  Log!Next
      <4>1. Log!Write(p, task[p], k)
        BY <2>0, <2>4, <3>2, Writing DEF Log!Write, Log!Files
      <4>. QED
        BY <2>4, <4>1 DEF Log!Next
    <3>. QED
      BY <2>0, <2>4, <3>1, <3>2, Writing
  <2>5. ASSUME NEW p \in Workers, task[p] \in Workflows, Release(p) \/ Crash(p)
        PROVE  Log!Next
    BY <2>5 DEF Release, Crash, Log!Next
  <2>6. ASSUME NEW w \in Workflows, Discard(w) \/ \E k \in Steps : Supply(w, k)
        PROVE  Log!Next
    BY <2>6 DEF Discard, Supply, Log!Next
  <2>7. ASSUME NEW w \in Workflows,
               \/ ClaimLapses(w) \/ BudgetEnds(w) \/ BecomesVisible(w) \/ DeadlinePasses(w)
               \/ Submit(w) \/ MakeReady(w) \/ ArriveDies(w) \/ Cancel(w)
        PROVE  UNCHANGED <<newest, recorded>>
    BY <2>7 DEF ClaimLapses, BudgetEnds, BecomesVisible, DeadlinePasses, Submit, MakeReady,
       ArriveDies, Cancel, store
  <2>. QED
    BY <1>2, <2>0, Cases, <2>1, <2>2, <2>3, <2>4, <2>5, <2>6, <2>7 DEF Advance, Elsewhere
<1>3. WorkerInv /\ [Step]_vars => [Log!Next]_(Log!vars)
  BY <1>2 DEF vars, store, Log!vars
<1>. QED
  BY <1>1, <1>3, WorkerInvariant, PTL DEF Spec, Log!Spec
=============================================================================
