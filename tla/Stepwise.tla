------------------------------ MODULE Stepwise ------------------------------
(***************************************************************************)
(* What one pass at a workflow is (stepwise.py): a body run from the top   *)
(* over the records loaded at its start, its operations fanned out over    *)
(* tasks.  A task runs without interruption until it awaits, so an action  *)
(* takes it from one await to the next: the effect of a step, and the      *)
(* record of anything.  The body owns its tasks in one of three ways: a    *)
(* TaskGroup cancels the others when one raises, `gather' raises the first *)
(* and leaves the others running, and a combinator that captures           *)
(* exceptions as values carries on without any.                            *)
(*                                                                         *)
(* Passes are numbered by the token of their claim.  A newer one may begin *)
(* whenever a claim is over or has lapsed, while tasks of an older one     *)
(* still run; nothing is deleted here.  Inbox entries are numbered in the  *)
(* order they were appended, which is the order of their keys.             *)
(***************************************************************************)
EXTENDS Integers, FiniteSets, Sequences

CONSTANTS Branches,   \* the tasks of the body
          Script,     \* per branch, its operations
          Duration,   \* per branch, how long its sleeps are, in ticks
          Limit,      \* the most entries one read takes
          Combinators,\* how the body may own its tasks
          MaxPasses,  \* bound: so many passes are made
          MaxInbox,   \* bound: so many entries are delivered
          MaxTime     \* bound: the clock stops here

Kinds == {"step", "sleep", "await", "receive", "pending"}

ASSUME ScriptsAreOperations == Script \in [Branches -> Seq(Kinds)]
ASSUME DurationsNatural == Duration \in [Branches -> Nat] /\ Limit \in Nat \ {0}
ASSUME CombinatorsKnown == Combinators \subseteq {"group", "gather", "capture"}
ASSUME BoundsNatural == MaxPasses \in Nat /\ MaxInbox \in Nat /\ MaxTime \in Nat

VARIABLES
  now,       \* the clock
  recorded,  \* per key, the value the store has; or Unrecorded
  inbox,     \* how many entries were delivered
  token,     \* the newest pass: what the fence lets through
  how,       \* the combinator the body was written with
  mine,      \* per pass, its Run.recorded
  unread,    \* per pass, how many entries it loaded
  at,        \* per pass and branch, where its task is
  pos,       \* per pass and branch, the operation it is at
  offer,     \* per pass and branch, the value it is writing
  reached,   \* per pass, the suspensions noted: Run.reached
  outcome,   \* per pass, what it came to
  due,       \* per pass, the deadline it reported
  effects,   \* history: per key, how often its effect was performed
  handed,    \* history: what reads have handed to the body
  unwritten  \* history: per key, how many effects ended without a record

store == <<recorded, inbox, token>>
tasks == <<mine, unread, at, pos, offer, reached>>
report == <<outcome, due>>
history == <<effects, handed, unwritten>>
vars == <<now, store, how, tasks, report, history>>

Passes == 1..MaxPasses

Keys == UNION {{b} \X (1..Len(Script[b])) : b \in Branches}

Kind(k) == Script[k[1]][k[2]]

Unrecorded == -1

Reads == {k \in Keys : Kind(k) \in {"receive", "pending"}}

Lesser(m, n) == IF m <= n THEN m ELSE n

(* Where the cursor stands before k: behind the last entry the branch has  *)
(* been handed. *)
After(memory, k) ==
  LET before == {memory[j] : j \in {j \in Reads : j[1] = k[1] /\ j[2] < k[2]}} IN
    IF before = {} THEN 0 ELSE CHOOSE n \in before : \A m \in before : m <= n

(* How far a pass that loaded `loaded' entries can read at k. *)
Available(memory, loaded, k) == Lesser(loaded, After(memory, k) + Limit)

(* Fault: a replay is handed whatever is there. *)
throughAll(memory, loaded, k) == (After(memory, k) + 1)..Available(memory, loaded, k)

(* The entries a read takes, cut back to how far it is recorded to have got. *)
through(memory, loaded, k) ==
  (After(memory, k) + 1)..Lesser(memory[k], Available(memory, loaded, k))

Finished == {"returned", "suspended", "failed", "lost", "cancelled"}

Unfinished(p) == {b \in Branches : at[p][b] \notin Finished}

In(p, states) == {b \in Branches : at[p][b] \in states}

(* A record of k is on its way from p to the store. *)
Writing(p, k) == at[p][k[1]] \in {"writing", "cancelling"} /\ pos[p][k[1]] = k[2]

-----------------------------------------------------------------------------
(* A task, from one await to the next. *)

(* An operation that neither awaits nor suspends. *)
Answered(memory, k) == memory[k] # Unrecorded /\ (Kind(k) = "sleep" => memory[k] <= now)

(* The first operation from i on that is not.                              *)
Stop(b, memory, i) ==
  CHOOSE j \in i..(Len(Script[b]) + 1) :
    /\ j <= Len(Script[b]) => ~ Answered(memory, <<b, j>>)
    /\ \A h \in i..(j - 1) : Answered(memory, <<b, h>>)

Suspends(memory, loaded, k) ==
  CASE Kind(k) = "sleep" -> memory[k] # Unrecorded
    [] Kind(k) = "await" -> TRUE
    [] Kind(k) = "receive" -> Available(memory, loaded, k) = After(memory, k)
    [] OTHER -> FALSE

(* What an operation other than a step writes, which it knows at once.     *)
Offer(memory, loaded, k) ==
  CASE Kind(k) = "sleep" -> now + Duration[k[1]]
    [] k \in Reads -> Available(memory, loaded, k)
    [] OTHER -> 0

(* What becomes of the task of b when it runs from operation i on, knowing *)
(* `memory' and having loaded `loaded' entries. *)
Segment(b, memory, loaded, i) ==
  LET j == Stop(b, memory, i)
      k == <<b, j>>
      over == j > Len(Script[b])
      suspends == ~ over /\ Suspends(memory, loaded, k) IN
    [pos |-> j,
     at |-> CASE over -> "returned"
              [] suspends -> "suspended"
              [] ~ over /\ ~ suspends /\ Kind(k) = "step" -> "effect"
              [] OTHER -> "writing",
     offer |-> IF over \/ suspends THEN 0 ELSE Offer(memory, loaded, k),
     notes |-> IF suspends THEN {k} ELSE {},
     hands |-> {<<h, through(memory, loaded, h)>> : h \in Reads \cap ({b} \X (i..(j - 1)))}]

Proceeds(p, b, memory) ==
  LET run == Segment(b, memory, unread[p], pos[p][b]) IN
    /\ pos' = [pos EXCEPT ![p][b] = run.pos]
    /\ at' = [at EXCEPT ![p][b] = run.at]
    /\ offer' = [offer EXCEPT ![p][b] = run.offer]
    /\ reached' = [reached EXCEPT ![p] = @ \cup run.notes]
    /\ handed' = handed \cup run.hands

(* From here on the effect has happened, and its record is held past a     *)
(* cancellation. *)
EffectReturns(p, b) ==
  /\ at[p][b] = "effect"
  /\ at' = [at EXCEPT ![p][b] = "writing"]
  /\ effects' = [effects EXCEPT ![<<b, pos[p][b]>>] = @ + 1]
  /\ UNCHANGED <<now, store, how, mine, unread, pos, offer, reached, report, handed, unwritten>>

(* The workflow's own code raises. *)
EffectFails(p, b) ==
  /\ at[p][b] = "effect"
  /\ at' = [at EXCEPT ![p][b] = "failed"]
  /\ UNCHANGED <<now, store, how, mine, unread, pos, offer, reached, report, history>>

(* The first writer of a key wins. *)
Landed(k, value) == IF recorded[k] = Unrecorded THEN value ELSE recorded[k]

(* Fault: a cancelled sleep says nothing of the deadline it recorded. *)
UnwindsSilently(p, b, k) ==
  /\ at' = [at EXCEPT ![p][b] = "cancelled"]
  /\ UNCHANGED <<pos, offer, reached, handed>>

(* A cancelled task ends once its write has, and a cancelled sleep notes   *)
(* the deadline it did not get to raise.                                   *)
Unwinds(p, b, k) ==
  /\ at' = [at EXCEPT ![p][b] = "cancelled"]
  /\ reached' = [reached EXCEPT ![p] = IF Kind(k) = "sleep" THEN @ \cup {k} ELSE @]
  /\ UNCHANGED <<pos, offer, handed>>

(* A write arrives at the store, which takes it from the newest pass only, *)
(* and the task goes on with what the store holds.                         *)
Lands(p, b) ==
  LET k == <<b, pos[p][b]>>
      value == Landed(k, offer[p][b]) IN
    /\ at[p][b] \in {"writing", "cancelling"}
    /\ IF p = token
       THEN /\ recorded' = [recorded EXCEPT ![k] = value]
            /\ mine' = [mine EXCEPT ![p][k] = value]
            /\ IF at[p][b] = "writing"
               THEN Proceeds(p, b, [mine[p] EXCEPT ![k] = value])
               ELSE Unwinds(p, b, k)
       ELSE /\ at' = [at EXCEPT ![p][b] = IF @ = "writing" THEN "lost" ELSE "cancelled"]
            /\ UNCHANGED <<recorded, mine, pos, offer, reached, handed>>
    /\ unwritten' = [unwritten EXCEPT ![k] = IF p = token THEN @ ELSE @ + 1]
    /\ UNCHANGED <<now, inbox, token, how, unread, report, effects>>

(* The store could not be reached, and wrote nothing. *)
StoreFails(p, b) ==
  /\ at[p][b] \in {"writing", "cancelling"}
  /\ at' = [at EXCEPT ![p][b] = IF @ = "writing" THEN "failed" ELSE "cancelled"]
  /\ unwritten' = [unwritten EXCEPT ![<<b, pos[p][b]>>] = @ + 1]
  /\ UNCHANGED <<now, store, how, mine, unread, pos, offer, reached, report, effects, handed>>

-----------------------------------------------------------------------------
(* The body and what becomes of it. *)

(* Fault: a write is cancelled with the task that waits for it. *)
CancelledAtOnce(state) == IF state \in {"effect", "writing"} THEN "cancelled" ELSE state

(* What cancelling a task does to it: an effect ends, a write is waited for. *)
Cancelled(state) ==
  CASE state = "effect" -> "cancelled"
    [] state = "writing" -> "cancelling"
    [] OTHER -> state

CancelTasks(p) == at' = [at EXCEPT ![p] = [b \in Branches |-> Cancelled(@[b])]]

(* A task of the group has raised: the group cancels the others. *)
Abort(p) ==
  /\ outcome[p] = "running"
  /\ how = "group"
  /\ In(p, {"suspended", "failed", "lost"}) # {}
  /\ In(p, {"effect", "writing"}) # {}
  /\ CancelTasks(p)
  /\ UNCHANGED <<now, store, how, mine, unread, pos, offer, reached, report, history>>

(* The worker cancels the pass: its claim is lost, or the pool shuts down. *)
CancelPass(p) ==
  /\ outcome[p] = "running"
  /\ In(p, {"effect", "writing"}) # {}
  /\ CancelTasks(p)
  /\ UNCHANGED <<now, store, how, mine, unread, pos, offer, reached, report, history>>

(* Fault: a body that returns has finished. *)
ReturnsReported(p) == "completed"

(* A body that returned having reached a suspension has had one caught. *)
Returns(p) == IF reached[p] # {} THEN "swallowed" ELSE "completed"

(* What a group raises of all that its tasks came to: a lost claim wins,   *)
(* then a failure. *)
Gravity == [lost |-> 4, failed |-> 3, suspended |-> 2, cancelled |-> 1, returned |-> 0]

(* The kinds of thing a body can end with, given how it owns its tasks:    *)
(* nothing, a cancellation, or an exception of one of its tasks.           *)
Ends(p) ==
  LET came == {at[p][b] : b \in Branches} \cup {"returned"} IN
    {end \in came \cap Finished :
       \/ /\ how = "group"
          /\ Unfinished(p) = {}
          /\ \A other \in came : Gravity[other] <= Gravity[end]
       \/ /\ how = "gather"
          /\ end = "returned" => came = {"returned"}
       \/ /\ how = "capture"
          /\ Unfinished(p) = {}
          /\ end = IF "cancelled" \in came THEN "cancelled" ELSE "returned"}

Deadlines(p) == {mine[p][k] : k \in {k \in reached[p] : Kind(k) = "sleep"}}

Earliest(times) == IF times = {} THEN 0 ELSE CHOOSE t \in times : \A u \in times : t <= u

(* A deadline wins over a wait on the outside world.                       *)
StoppedAt(p) == IF Deadlines(p) = {} THEN "blocked" ELSE "sleeping"

(* The pass reports what it came to.  Tasks a `gather' left behind go on.  *)
End(p) ==
  /\ outcome[p] = "running"
  /\ \E end \in Ends(p) :
       /\ outcome' = [outcome EXCEPT ![p] =
            CASE end = "returned" -> Returns(p)
              [] end = "suspended" -> StoppedAt(p)
              [] OTHER -> end]
       /\ due' = [due EXCEPT ![p] = IF end = "suspended" THEN Earliest(Deadlines(p)) ELSE 0]
  /\ UNCHANGED <<now, store, how, tasks, history>>

-----------------------------------------------------------------------------
(* Passes come and go. *)

(* Claimed and loaded, and the tasks created: they take their first run    *)
(* together, before anything one of them raises can cancel another.        *)
Begin ==
  /\ token < MaxPasses
  /\ LET p == token + 1
         run == [b \in Branches |-> Segment(b, recorded, inbox, 1)] IN
       /\ token' = p
       /\ mine' = [mine EXCEPT ![p] = recorded]
       /\ unread' = [unread EXCEPT ![p] = inbox]
       /\ pos' = [pos EXCEPT ![p] = [b \in Branches |-> run[b].pos]]
       /\ at' = [at EXCEPT ![p] = [b \in Branches |-> run[b].at]]
       /\ offer' = [offer EXCEPT ![p] = [b \in Branches |-> run[b].offer]]
       /\ reached' = [reached EXCEPT ![p] = UNION {run[b].notes : b \in Branches}]
       /\ handed' = handed \cup UNION {run[b].hands : b \in Branches}
       /\ outcome' = [outcome EXCEPT ![p] = "running"]
  /\ UNCHANGED <<now, recorded, inbox, how, due, effects, unwritten>>

(* The process of the pass is gone, and every task of it. *)
Crash(p) ==
  /\ Unfinished(p) # {}
  /\ at' = [at EXCEPT ![p] = [b \in Branches |-> "cancelled"]]
  /\ outcome' = [outcome EXCEPT ![p] = IF @ = "running" THEN "crashed" ELSE @]
  /\ unwritten' = [k \in Keys |-> IF Writing(p, k) THEN unwritten[k] + 1 ELSE unwritten[k]]
  /\ UNCHANGED <<now, store, how, mine, unread, pos, offer, reached, due, effects, handed>>

Tick ==
  /\ now < MaxTime
  /\ now' = now + 1
  /\ UNCHANGED <<store, how, tasks, report, history>>

(* A client answers, or delivers to the inbox. *)
Supply(k) ==
  /\ Kind(k) = "await"
  /\ recorded[k] = Unrecorded
  /\ recorded' = [recorded EXCEPT ![k] = 0]
  /\ UNCHANGED <<now, inbox, token, how, tasks, report, history>>

Deliver ==
  /\ inbox < MaxInbox
  /\ inbox' = inbox + 1
  /\ UNCHANGED <<now, recorded, token, how, tasks, report, history>>

Init ==
  /\ now = 0
  /\ recorded = [k \in Keys |-> Unrecorded]
  /\ inbox = 0
  /\ token = 0
  /\ how \in Combinators
  /\ mine = [p \in Passes |-> [k \in Keys |-> Unrecorded]]
  /\ unread = [p \in Passes |-> 0]
  /\ at = [p \in Passes |-> [b \in Branches |-> "returned"]]
  /\ pos = [p \in Passes |-> [b \in Branches |-> 1]]
  /\ offer = [p \in Passes |-> [b \in Branches |-> 0]]
  /\ reached = [p \in Passes |-> {}]
  /\ outcome = [p \in Passes |-> "none"]
  /\ due = [p \in Passes |-> 0]
  /\ effects = [k \in Keys |-> 0]
  /\ handed = {}
  /\ unwritten = [k \in Keys |-> 0]

Task(p, b) ==
  EffectReturns(p, b) \/ EffectFails(p, b) \/ Lands(p, b) \/ StoreFails(p, b)

Pass(p) == Abort(p) \/ CancelPass(p) \/ End(p) \/ Crash(p)

Next ==
  \/ Tick \/ Deliver \/ Begin
  \/ \E k \in Keys : Supply(k)
  \/ \E p \in Passes : Pass(p) \/ \E b \in Branches : Task(p, b)

Spec == Init /\ [][Next]_vars

-----------------------------------------------------------------------------
TypeOK ==
  /\ now \in 0..MaxTime /\ inbox \in 0..MaxInbox /\ token \in 0..MaxPasses
  /\ recorded \in [Keys -> Nat \cup {Unrecorded}]
  /\ mine \in [Passes -> [Keys -> Nat \cup {Unrecorded}]]
  /\ unread \in [Passes -> 0..MaxInbox]
  /\ at \in [Passes -> [Branches -> Finished \cup {"effect", "writing", "cancelling"}]]
  /\ \A p \in Passes, b \in Branches :
       pos[p][b] \in 1..(Len(Script[b]) + 1) /\ offer[p][b] \in Nat
  /\ reached \in [Passes -> SUBSET Keys]
  /\ outcome \in [Passes -> {"none", "running", "completed", "swallowed", "sleeping",
                             "blocked", "failed", "lost", "cancelled", "crashed"}]
  /\ due \in [Passes -> Nat]
  /\ effects \in [Keys -> Nat]
  /\ \A p \in Passes : due[p] # 0 => outcome[p] = "sleeping"

(* A pass that stopped reports the deadlines there are: while it is the    *)
(* newest, every deadline recorded and still to come is at or behind the   *)
(* wakeup it asked for, however its tasks were cancelled or cut short      *)
(* ("Left unnoted, no pass reports it and no driver schedules it").        *)
EveryDeadlineIsReported ==
  token > 0 /\ outcome[token] \in {"sleeping", "blocked"} =>
    \A k \in Keys : Kind(k) = "sleep" /\ recorded[k] > now =>
      outcome[token] = "sleeping" /\ due[token] <= recorded[k]

(* A fan-out that cancels its own tasks costs no effect: every effect      *)
(* performed has its record, or is being written, or met a crash, a        *)
(* takeover or a store that could not be reached ("the write is held past  *)
(* it deliberately"). *)
EffectsOutliveCancellation ==
  \A k \in Keys : Kind(k) = "step" =>
    effects[k] <= unwritten[k] + Cardinality({p \in Passes : Writing(p, k)})
                  + IF recorded[k] = Unrecorded THEN 0 ELSE 1

(* Reading a log somebody still writes to is replayed: whatever has come   *)
(* since, and whichever pass asks, a read hands the body the same entries. *)
ReadsReplayAlike == \A x, y \in handed : x[1] = y[1] => x = y

(* A pass reports the workflow finished only when nothing is waited for:   *)
(* no suspension is lost to whatever the body wrapped its waits in.        *)
CompletedOwesNothing ==
  \A p \in Passes : outcome[p] = "completed" =>
    \A b \in Branches : at[p][b] \notin {"suspended", "cancelled"}
=============================================================================
