---------------------------- MODULE Checkpointer ----------------------------
(***************************************************************************)
(* The checkpoint store of without_durability, as MemoryCheckpointer keeps *)
(* it (memory.py): per workflow one claim row and the records in the order *)
(* they first landed.  Every method is one action, since none of them      *)
(* awaits between reading and writing; what interleaves is the calls of    *)
(* several workers, the calls from outside any pass, the clock, and the    *)
(* death of a worker.                                                      *)
(*                                                                         *)
(* A claim row with token 0 is a workflow nobody has claimed: the code has *)
(* no row there, and the first claim mints 1.  A refused call (a claim of  *)
(* a held workflow, a write below the fence) changes nothing and is left   *)
(* out.  `load' and `history' only read.                                   *)
(***************************************************************************)
EXTENDS Integers, Sequences

CONSTANTS Workers,     \* tasks that hold a Pass: one `advance' each
          NoWorker,    \* the fence lets nobody through
          Workflows,
          StepKeys,    \* keys a caller names; inbox keys are naturals
          Values,      \* encodings
          Budgets,     \* how long a pass may be granted, in ticks
          Windows,     \* how long a sign of life may be good for, in ticks
          MaxTime,     \* bound: the clock stops here
          MaxToken,    \* bound: no claim is taken past this token
          MaxRecords   \* bound: no append to a log this long

ASSUME NoWorkerIsNone == NoWorker \notin Workers
ASSUME StepKeysNotInbox == StepKeys \cap Nat = {}
ASSUME DurationsPositive == Budgets \subseteq Nat \ {0} /\ Windows \subseteq Nat \ {0}
ASSUME BoundsNatural == MaxTime \in Nat /\ MaxToken \in Nat /\ MaxRecords \in Nat

VARIABLES
  now,       \* monotonic()
  claims,    \* per workflow, its claim row
  hashes,    \* per workflow, its records
  data,      \* per workflow and key, how often a transacted effect was applied
  held,      \* per worker and workflow, the token of its Pass; 0: none
  heard      \* history: when the newest pass last gave a sign of life

vars == <<now, claims, hashes, data, held, heard>>

Keys == StepKeys \cup (0 .. MaxRecords)

Claim == [token : Nat, held_until : Nat, alive_until : Nat, alive : Nat]

Stored == [key : Keys, value : Values, by : Nat]

Unclaimed == [token |-> 0, held_until |-> 0, alive_until |-> 0, alive |-> 0]

Lesser(a, b) == IF a <= b THEN a ELSE b
Greater(a, b) == IF a >= b THEN a ELSE b

(* Fault: a sign of life is not held below the budget. *)
HeardFromUnbounded(row) == [row EXCEPT !.alive_until = now + row.alive]

(* The row with a sign of life noted now: good for `alive', never past the budget. *)
HeardFrom(row) == [row EXCEPT !.alive_until = Lesser(now + row.alive, row.held_until)]

(* The row handed back: the token stays. *)
Over(row) == [row EXCEPT !.held_until = 0, !.alive_until = 0]

(* The row granted more budget: the later of what it had and this.         *)
Granted(row, budget, alive) ==
  HeardFrom([row EXCEPT !.held_until = Greater(@, now + budget), !.alive = alive])

(* Fault: discarding hands the row back and leaves the fence where it is. *)
SupersededInPlace(row) == IF row.token = 0 THEN row ELSE Over(row)

(* Fault: only a claim still in its budget is fenced. *)
SupersededWhenHeld(row) ==
  IF row.held_until <= now THEN row ELSE Over([row EXCEPT !.token = @ + 1])

(* The row of a discarded workflow: free, and above every Pass there is.   *)
Superseded(row) == IF row.token = 0 THEN row ELSE Over([row EXCEPT !.token = @ + 1])

KeysOf(records) == {records[i].key : i \in 1..Len(records)}

(* Fault: any Pass at all is let through. *)
FitsAnyPass(p, w) == held[p][w] > 0

(* What the fence lets through: a Pass the row's token does not outrank. *)
Fits(p, w) == held[p][w] > 0 /\ held[p][w] >= claims[w].token

Init ==
  /\ now = 0
  /\ claims = [w \in Workflows |-> Unclaimed]
  /\ hashes = [w \in Workflows |-> <<>>]
  /\ data = [w \in Workflows |-> [k \in StepKeys |-> 0]]
  /\ held = [p \in Workers |-> [w \in Workflows |-> 0]]
  /\ heard = [w \in Workflows |-> 0]

Tick ==
  /\ now < MaxTime
  /\ now' = now + 1
  /\ UNCHANGED <<claims, hashes, data, held, heard>>

Take(p, w, budget, alive) ==
  /\ held[p][w] = 0
  /\ claims[w].alive_until <= now
  /\ claims[w].token < MaxToken
  /\ claims' = [claims EXCEPT ![w] =
       [token |-> @.token + 1, held_until |-> now + budget,
        alive_until |-> now + Lesser(alive, budget), alive |-> alive]]
  /\ held' = [held EXCEPT ![p][w] = claims[w].token + 1]
  /\ heard' = [heard EXCEPT ![w] = now]
  /\ UNCHANGED <<now, hashes, data>>

Extend(p, w, budget, alive) ==
  /\ Fits(p, w)
  /\ claims' = [claims EXCEPT ![w] = Granted(@, budget, alive)]
  /\ heard' = [heard EXCEPT ![w] = IF held[p][w] = claims[w].token THEN now ELSE @]
  /\ UNCHANGED <<now, hashes, data, held>>

Renew(p, w, alive) ==
  /\ Fits(p, w)
  /\ claims[w].held_until > now
  /\ claims' = [claims EXCEPT ![w] = HeardFrom([@ EXCEPT !.alive = alive])]
  /\ heard' = [heard EXCEPT ![w] = IF held[p][w] = claims[w].token THEN now ELSE @]
  /\ UNCHANGED <<now, hashes, data, held>>

(* A write is a sign of life from the pass that makes it. *)
Wrote(p, w) ==
  /\ claims' = [claims EXCEPT ![w] = HeardFrom(@)]
  /\ heard' = [heard EXCEPT ![w] = IF held[p][w] = claims[w].token THEN now ELSE @]

(* First writer wins: a key already recorded moves neither value nor place. *)
SetDefault(w, k, v, by) ==
  hashes' = [hashes EXCEPT ![w] =
    IF k \in KeysOf(@) THEN @ ELSE Append(@, [key |-> k, value |-> v, by |-> by])]

RecordStep(p, w, k, v) ==
  /\ Fits(p, w)
  /\ Wrote(p, w)
  /\ SetDefault(w, k, v, held[p][w])
  /\ UNCHANGED <<now, data, held>>

(* Fault: the effect runs again for a step already recorded. *)
TransactAgain(p, w, k, v) ==
  /\ Fits(p, w)
  /\ Wrote(p, w)
  /\ data' = [data EXCEPT ![w][k] = @ + 1]
  /\ SetDefault(w, k, v, held[p][w])
  /\ UNCHANGED <<now, held>>

(* The effect and its record are one commit. *)
Transact(p, w, k, v) ==
  /\ Fits(p, w)
  /\ Wrote(p, w)
  /\ data' = [data EXCEPT ![w][k] = IF k \in KeysOf(hashes[w]) THEN @ ELSE @ + 1]
  /\ SetDefault(w, k, v, held[p][w])
  /\ UNCHANGED <<now, held>>

(* The effect raised, or its result would not encode: the data is put back. *)
TransactFails(p, w, k) ==
  /\ Fits(p, w)
  /\ k \notin KeysOf(hashes[w])
  /\ Wrote(p, w)
  /\ UNCHANGED <<now, hashes, data, held>>

Supply(w, k, v) ==
  /\ SetDefault(w, k, v, 0)
  /\ UNCHANGED <<now, claims, data, held, heard>>

(* The key is how many records there are, so it is above every inbox key. *)
AppendInbox(w, v) ==
  /\ Len(hashes[w]) < MaxRecords
  /\ hashes' = [hashes EXCEPT ![w] = Append(@, [key |-> Len(@), value |-> v, by |-> 0])]
  /\ UNCHANGED <<now, claims, data, held, heard>>

(* The records go and the fence rises past every Pass there is.  The       *)
(* history of the effects goes with the records: what the application      *)
(* keeps of them is not the store's.                                       *)
Discard(w) ==
  /\ claims[w].token < MaxToken
  /\ hashes' = [hashes EXCEPT ![w] = <<>>]
  /\ claims' = [claims EXCEPT ![w] = Superseded(@)]
  /\ data' = [data EXCEPT ![w] = [k \in StepKeys |-> 0]]
  /\ UNCHANGED <<now, held, heard>>

(* The Pass itself stays in its holder's hands: a write still in flight    *)
(* carries it until somebody claims the workflow anew.                     *)
Release(p, w) ==
  /\ held[p][w] > 0
  /\ claims' = [claims EXCEPT ![w] = IF held[p][w] = @.token THEN Over(@) ELSE @]
  /\ UNCHANGED <<now, hashes, data, held, heard>>

(* The task that held the Pass has ended, by itself or with its process.   *)
Forget(p, w) ==
  /\ held[p][w] > 0
  /\ held' = [held EXCEPT ![p][w] = 0]
  /\ UNCHANGED <<now, claims, hashes, data, heard>>

Passing(p, w) ==
  \/ \E alive \in Windows, budget \in Budgets :
       Take(p, w, budget, alive) \/ Extend(p, w, budget, alive)
  \/ \E alive \in Windows : Renew(p, w, alive)
  \/ \E k \in StepKeys, v \in Values : RecordStep(p, w, k, v) \/ Transact(p, w, k, v)
  \/ \E k \in StepKeys : TransactFails(p, w, k)
  \/ Release(p, w)
  \/ Forget(p, w)

Outside(w) ==
  \/ \E k \in StepKeys, v \in Values : Supply(w, k, v)
  \/ \E v \in Values : AppendInbox(w, v)
  \/ Discard(w)

Next ==
  \/ Tick
  \/ \E w \in Workflows : Outside(w) \/ \E p \in Workers : Passing(p, w)

Spec == Init /\ [][Next]_vars

-----------------------------------------------------------------------------
(* What may be believed of the store. *)

TypeOK ==
  /\ now \in Nat
  /\ claims \in [Workflows -> Claim]
  /\ hashes \in [Workflows -> Seq(Stored)]
  /\ data \in [Workflows -> [StepKeys -> Nat]]
  /\ held \in [Workers -> [Workflows -> Nat]]
  /\ heard \in [Workflows -> Nat]

(* A sign of life carries a claim neither past its budget nor past a       *)
(* release: whatever order renewals, writes, extensions and releases come  *)
(* in, the liveness deadline stays at or below the budget.                 *)
AliveWithinBudget == \A w \in Workflows : claims[w].alive_until <= claims[w].held_until

(* No Pass outranks the fence, so every write of a superseded pass is       *)
(* recognisable as one.                                                    *)
NoPassAboveFence == \A p \in Workers, w \in Workflows : held[p][w] <= claims[w].token

(* Two live passes at one workflow never carry the same token.             *)
TokensDistinct ==
  \A p, q \in Workers, w \in Workflows :
    held[p][w] > 0 /\ held[p][w] = held[q][w] => p = q

(* Exclusion: whatever has lapsed, been taken over, released or discarded, *)
(* at most one of the passes in anybody's hands is let through by the      *)
(* fence of `record' and `transact'.                                       *)
OneWriter == \A p, q \in Workers, w \in Workflows : Fits(p, w) /\ Fits(q, w) => p = q

(* A claim stays taken only as long as its own holder is heard from: no     *)
(* stray write or renewal of a superseded pass keeps a dead holder's       *)
(* claim alive.                                                            *)
AliveIsEarned == \A w \in Workflows : claims[w].alive_until <= heard[w] + claims[w].alive

(* A key is recorded once, whoever raced to record, supply or append it.   *)
KeysRecordedOnce ==
  \A w \in Workflows : \A i, j \in 1..Len(hashes[w]) :
    hashes[w][i].key = hashes[w][j].key => i = j

(* An inbox key counts the records before it, so it is never taken twice   *)
(* and the inbox reads in the order its messages were appended.            *)
InboxInOrder ==
  \A w \in Workflows : \A i \in 1..Len(hashes[w]) :
    hashes[w][i].key \in Nat => hashes[w][i].key = i - 1

(* Passes write in the order they were granted: once a pass has written,   *)
(* nothing an earlier one still had in flight lands behind it.             *)
WritesInTokenOrder ==
  \A w \in Workflows : \A i, j \in 1..Len(hashes[w]) :
    i < j /\ hashes[w][j].by > 0 => hashes[w][i].by <= hashes[w][j].by

(* An effect is applied at most once between two discards, and never       *)
(* without its record.                                                     *)
EffectWithItsRecord ==
  \A w \in Workflows, k \in StepKeys :
    data[w][k] <= 1 /\ (data[w][k] = 1 => k \in KeysOf(hashes[w]))

(* A log is only added to, or discarded whole: no step changes or moves a  *)
(* record.                                                                 *)
LogGrowsOrGoes ==
  [][\A w \in Workflows :
       \/ hashes'[w] = <<>>
       \/ /\ Len(hashes'[w]) >= Len(hashes[w])
          /\ \A i \in 1..Len(hashes[w]) : hashes'[w][i] = hashes[w][i]]_vars

(* Deletion sticks: when records go, every Pass in anybody's hands is      *)
(* below the fence, so a pass in flight cannot fill the workflow again.    *)
DiscardFencesEveryPass ==
  [][\A w \in Workflows, p \in Workers :
       hashes[w] # <<>> /\ hashes'[w] = <<>> /\ held[p][w] > 0 =>
         held'[p][w] < claims'[w].token]_vars

(* The store is a fenced log: leases and budgets decide when a pass may be *)
(* granted and never what a granted one may write.                         *)
Log == INSTANCE FencedLog WITH
         fence <- [w \in Workflows |-> claims[w].token], log <- hashes
LogSpec == Log!Spec

(* To whoever only asks who may write, the store is one Pass per workflow. *)
Newest(w) ==
  IF \E p \in Workers : Fits(p, w) THEN CHOOSE p \in Workers : Fits(p, w) ELSE NoWorker

OnePass == INSTANCE PassLog WITH
             newest <- [w \in Workflows |-> Newest(w)],
             recorded <- [w \in Workflows |-> KeysOf(hashes[w])]
PassSpec == OnePass!Spec
=============================================================================
