--------------------------- MODULE Stepwise_proofs ---------------------------
EXTENDS Stepwise, FiniteSetTheorems, WellFoundedInduction, TLAPS
(***************************************************************************)
(* The theorems of module Stepwise, for bodies of any shape, any number of *)
(* passes and entries, and a clock that runs as far as it likes.           *)
(*                                                                         *)
(* Every property is about a body that is replayed, so the inductive       *)
(* invariant StepwiseInv is about what makes a replay the same: a pass     *)
(* knows nothing but what is recorded, and the newest knows all of it; the *)
(* records of a branch are a prefix of its operations, and a task stands   *)
(* where what its pass knows ends.  From there a read is handed again what *)
(* it was recorded to have got (ReadsAreBounded, HandedIsRecorded), the    *)
(* write that lands is the first for its key (so that it pays for its      *)
(* effect), and every deadline the newest pass knows of and that is still  *)
(* to come has been noted, whether its task got to raise it or not         *)
(* (DeadlinesAreNoted).                                                    *)
(***************************************************************************)

Types ==
  /\ now \in 0..MaxTime /\ inbox \in 0..MaxInbox /\ token \in 0..MaxPasses
  /\ how \in Combinators
  /\ recorded \in [Keys -> Nat \cup {Unrecorded}]
  /\ mine \in [Passes -> [Keys -> Nat \cup {Unrecorded}]]
  /\ unread \in [Passes -> 0..MaxInbox]
  /\ at \in [Passes -> [Branches -> Finished \cup {"effect", "writing", "cancelling"}]]
  /\ pos \in [Passes -> [Branches -> Nat]]
  /\ offer \in [Passes -> [Branches -> Nat]]
  /\ reached \in [Passes -> SUBSET Keys]
  /\ outcome \in [Passes -> {"none", "running", "completed", "swallowed", "sleeping",
                             "blocked", "failed", "lost", "cancelled", "crashed"}]
  /\ due \in [Passes -> Nat]
  /\ effects \in [Keys -> Nat]
  /\ unwritten \in [Keys -> Nat]

(* A pass that has not begun has left no trace. *)
NotBegun ==
  \A p \in Passes : p > token =>
    /\ outcome[p] = "none" /\ due[p] = 0 /\ reached[p] = {}
    /\ \A b \in Branches : at[p][b] = "returned" /\ pos[p][b] = 1

DueIsOfSleepers == \A p \in Passes : due[p] # 0 => outcome[p] = "sleeping"

(* Operations 1..(i - 1) of b are behind whoever knows `memory'. *)
Behind(b, memory, i) ==
  /\ i \in 1..(Len(Script[b]) + 1)
  /\ \A h \in 1..(i - 1) : Answered(memory, <<b, h>>)

(* What a pass knows is recorded, and the newest knows it all but for the  *)
(* answers of clients; a task is where what its pass knows ends.           *)
KnownIsRecorded ==
  \A p \in Passes, k \in Keys : p <= token /\ mine[p][k] # Unrecorded => mine[p][k] = recorded[k]

NewestKnows ==
  token > 0 => \A k \in Keys : Kind(k) # "await" => mine[token][k] = recorded[k]

TasksAreBehind ==
  \A p \in Passes, b \in Branches : p <= token => Behind(b, mine[p], pos[p][b])

RecordedInOrder ==
  \A k \in Keys : Kind(k) # "await" /\ recorded[k] # Unrecorded => Behind(k[1], recorded, k[2])

(* What a task at an operation that it performs, or writes, is about to do. *)
TasksFit ==
  \A p \in Passes, b \in Branches : at[p][b] \in {"effect", "writing", "cancelling"} =>
    LET k == <<b, pos[p][b]>> IN
      /\ p <= token
      /\ k \in Keys /\ Kind(k) # "await" /\ mine[p][k] = Unrecorded
      /\ at[p][b] = "effect" => Kind(k) = "step"
      /\ k \in Reads => offer[p][b] = Available(mine[p], unread[p], k)

(* A read is recorded to have got no further than it could, and no further *)
(* than was delivered.                                                     *)
ReadsAreBounded ==
  /\ \A k \in Reads : recorded[k] # Unrecorded =>
       recorded[k] <= inbox /\ recorded[k] <= After(recorded, k) + Limit
  /\ \A p \in Passes, k \in Reads : p <= token => mine[p][k] <= unread[p] /\ unread[p] <= inbox

HandedIsRecorded ==
  \A x \in handed :
    /\ x[1] \in Reads /\ recorded[x[1]] # Unrecorded
    /\ x = <<x[1], (After(recorded, x[1]) + 1)..recorded[x[1]]>>

(* Every suspension is noted, and every deadline the newest pass knows of  *)
(* and that is still to come.                                              *)
SuspensionsAreNoted ==
  \A p \in Passes, b \in Branches : at[p][b] = "suspended" => <<b, pos[p][b]>> \in reached[p]

NotedIsKnown ==
  \A p \in Passes : \A k \in reached[p] : Kind(k) = "sleep" => mine[p][k] # Unrecorded

DeadlinesAreNoted ==
  token > 0 => \A k \in Keys : Kind(k) = "sleep" /\ mine[token][k] > now => k \in reached[token]

Memory ==
  /\ KnownIsRecorded /\ NewestKnows /\ TasksAreBehind /\ RecordedInOrder
  /\ TasksFit /\ ReadsAreBounded /\ HandedIsRecorded
  /\ SuspensionsAreNoted /\ NotedIsKnown /\ DeadlinesAreNoted

(* Only a `gather' that raised leaves tasks behind. *)
EndedIsOver ==
  \A p \in Passes :
    \/ outcome[p] \in {"none", "running"}
    \/ how = "gather" /\ outcome[p] # "completed"
    \/ Unfinished(p) = {}

StepwiseInv ==
  /\ Types /\ NotBegun /\ DueIsOfSleepers /\ Memory /\ EndedIsOver
  /\ EffectsOutliveCancellation /\ CompletedOwesNothing
  /\ how # "gather" => EveryDeadlineIsReported

(* A set of naturals that is not empty has a least member. *)
LEMMA LeastNatural ==
  ASSUME NEW T \in SUBSET Nat, T # {}
  PROVE  \E x \in T : \A y \in T : x <= y
<1> DEFINE R == {ss \in Nat \X Nat : ss[1] < ss[2]}
<1>1. IsWellFoundedOn(R, Nat)
  BY NatLessThanWellFounded DEF OpToRel
<1>2. \A a, b \in Nat : a < b => <<a, b>> \in R
  OBVIOUS
<1>. HIDE DEF R
<1>3. PICK x \in T : \A y \in T : <<y, x>> \notin R
  BY <1>1, WFMin
<1>4. \A y \in T : y \in Nat /\ x \in Nat /\ ~ (y < x)
  BY <1>2, <1>3
<1>. QED
  BY <1>4

(* The keys are the operations of the branches. *)
LEMMA KeyIs ==
  ASSUME NEW b \in Branches
  PROVE  /\ Len(Script[b]) \in Nat
         /\ \A i \in 1..Len(Script[b]) : <<b, i>> \in Keys /\ Kind(<<b, i>>) \in Kinds
         /\ \A i : <<b, i>> \in Keys => i \in 1..Len(Script[b])
<1>1. Script[b] \in Seq(Kinds)
  BY ScriptsAreOperations
<1>2. Len(Script[b]) \in Nat /\ \A i \in 1..Len(Script[b]) : Script[b][i] \in Kinds
  BY <1>1
<1>. QED
  BY <1>2 DEF Keys, Kind

(* A key is a branch and the number of one of its operations. *)
LEMMA KeyParts ==
  ASSUME NEW k \in Keys
  PROVE  /\ k[1] \in Branches /\ k[2] \in 1..Len(Script[k[1]]) /\ k[2] \in Nat /\ k[2] >= 1
         /\ k = <<k[1], k[2]>> /\ Kind(k) \in Kinds
<1>1. PICK b \in Branches : \E i \in 1..Len(Script[b]) : k = <<b, i>>
  BY DEF Keys
<1>. QED
  BY <1>1, KeyIs

(* Where the cursor stands depends on what the earlier reads of the branch *)
(* recorded, and is one of the entries that were delivered.                *)
LEMMA AfterSame ==
  ASSUME NEW k, NEW m1, NEW m2, \A j \in Reads : j[1] = k[1] /\ j[2] < k[2] => m1[j] = m2[j]
  PROVE  After(m1, k) = After(m2, k)
<1>. DEFINE before(m) == {m[j] : j \in {j \in Reads : j[1] = k[1] /\ j[2] < k[2]}}
<1>1. before(m1) = before(m2)
  OBVIOUS
<1>2. \A m : After(m, k) = IF before(m) = {} THEN 0 ELSE CHOOSE n \in before(m) : \A x \in before(m) : x <= n
  BY DEF After
<1>. HIDE DEF before
<1>. QED
  BY <1>1, <1>2

(* The cursor of a body that has come so far stands at an entry it was      *)
(* handed.                                                                  *)
LEMMA AfterIs ==
  ASSUME NEW memory \in [Keys -> Nat \cup {Unrecorded}], NEW k \in Reads, NEW loaded \in Nat,
         Behind(k[1], memory, k[2]), \A j \in Reads : memory[j] <= loaded
  PROVE  After(memory, k) \in 0..loaded
<1>. DEFINE before == {memory[j] : j \in {j \in Reads : j[1] = k[1] /\ j[2] < k[2]}}
<1>0. After(memory, k) = IF before = {} THEN 0 ELSE CHOOSE n \in before : \A m \in before : m <= n
  BY DEF After
<1>1. ASSUME NEW n \in before
      PROVE  n \in 0..loaded
  <2>1. PICK j \in Reads : j[1] = k[1] /\ j[2] < k[2] /\ n = memory[j]
    OBVIOUS
  <2>2. j[2] \in 1..(k[2] - 1) /\ j = <<k[1], j[2]>> /\ k \in Keys /\ j \in Keys
    BY <2>1, KeyParts DEF Reads
  <2>3. memory[j] # Unrecorded
    BY <2>2 DEF Behind, Answered
  <2>. QED
    BY <2>1, <2>2, <2>3
<1>2. CASE before = {}
  BY <1>0, <1>2
<1>3. CASE before # {}
  <2>. DEFINE gaps == {loaded - n : n \in before}
  <2>1. gaps \in SUBSET Nat /\ gaps # {}
    BY <1>1, <1>3
  <2>2. PICK g \in gaps : \A y \in gaps : g <= y
    BY <2>1, LeastNatural
  <2>3. PICK n \in before : g = loaded - n
    OBVIOUS
  <2>4. ASSUME NEW m \in before
        PROVE  m <= n
    <3>1. g <= loaded - m
      BY <2>2
    <3>. QED
      BY <3>1, <2>3, <1>1
  <2>5. (CHOOSE x \in before : \A m \in before : m <= x) \in before
    BY <2>4
  <2>. HIDE DEF before
  <2>. QED
    BY <1>0, <1>1, <1>3, <2>5
<1>. QED
  BY <1>2, <1>3

(* A read takes what is loaded and its limit allows, and no less than is    *)
(* recorded.                                                                *)
LEMMA AvailableIs ==
  ASSUME NEW memory \in [Keys -> Nat \cup {Unrecorded}], NEW k \in Reads, NEW loaded \in Nat,
         Behind(k[1], memory, k[2]), \A j \in Reads : memory[j] <= loaded
  PROVE  /\ Available(memory, loaded, k) \in Nat
         /\ Available(memory, loaded, k) <= loaded
         /\ Available(memory, loaded, k) <= After(memory, k) + Limit
         /\ \A n \in Nat : n <= loaded /\ n <= After(memory, k) + Limit =>
              through(memory, loaded, k) = (After(memory, k) + 1)..Lesser(memory[k], Available(memory, loaded, k))
              /\ (memory[k] = n => through(memory, loaded, k) = (After(memory, k) + 1)..n)
<1>1. After(memory, k) \in Nat /\ Limit \in Nat
  BY AfterIs, DurationsNatural
<1>. QED
  BY <1>1 DEF Available, Lesser, through

(* What becomes of a task that runs from operation i on. *)
Runs(b, memory, loaded, i, run) ==
  LET k == <<b, run.pos>> IN
    /\ run.pos \in Nat /\ run.pos >= i /\ Behind(b, memory, run.pos)
    /\ run.at \in {"returned", "suspended", "effect", "writing"}
    /\ run.at = "returned" <=> k \notin Keys
    /\ k \in Keys => ~ Answered(memory, k)
    /\ run.at = "suspended" /\ Kind(k) = "sleep" => memory[k] # Unrecorded
    /\ k \in Keys /\ Kind(k) = "sleep" /\ memory[k] # Unrecorded => run.at = "suspended"
    /\ run.notes = IF run.at = "suspended" THEN {k} ELSE {}
    /\ run.at \in {"effect", "writing"} =>
         Kind(k) # "await" /\ memory[k] = Unrecorded /\ (run.at = "effect" <=> Kind(k) = "step")
    /\ run.offer \in Nat
    /\ run.at \in {"effect", "writing"} /\ k \in Reads => run.offer = Available(memory, loaded, k)
    /\ \A x \in run.hands : \E h \in i..(run.pos - 1) :
         <<b, h>> \in Reads /\ x = <<<<b, h>>, through(memory, loaded, <<b, h>>)>>

(* The task of b does run that way. *)
LEMMA SegmentRuns ==
  ASSUME NEW b \in Branches, NEW memory \in [Keys -> Nat \cup {Unrecorded}], NEW loaded \in Nat,
         NEW i \in Nat, Behind(b, memory, i), \A j \in Reads : memory[j] <= loaded, now \in Nat
  PROVE  Runs(b, memory, loaded, i, Segment(b, memory, loaded, i))
<1>. DEFINE j == Stop(b, memory, i)
            k == <<b, j>>
            run == Segment(b, memory, loaded, i)
            over == j > Len(Script[b])
            suspends == ~ over /\ Suspends(memory, loaded, k)
<1>0. Len(Script[b]) \in Nat /\ i >= 1 /\ i <= Len(Script[b]) + 1
  BY KeyIs DEF Behind
<1>1. /\ j \in i..(Len(Script[b]) + 1)
      /\ j <= Len(Script[b]) => ~ Answered(memory, k)
      /\ \A h \in i..(j - 1) : Answered(memory, <<b, h>>)
  <2>. DEFINE T == {n \in i..(Len(Script[b]) + 1) : n <= Len(Script[b]) => ~ Answered(memory, <<b, n>>)}
  <2>1. T \in SUBSET Nat /\ Len(Script[b]) + 1 \in T
    BY <1>0
  <2>2. PICK n \in T : \A y \in T : n <= y
    BY <2>1, LeastNatural
  <2>3. n \in i..(Len(Script[b]) + 1) /\ (n <= Len(Script[b]) => ~ Answered(memory, <<b, n>>))
    BY <2>2
  <2>4. ASSUME NEW h \in i..(n - 1) PROVE Answered(memory, <<b, h>>)
    BY <2>2, <2>3, <1>0
  <2>5. \E x \in i..(Len(Script[b]) + 1) :
          /\ x <= Len(Script[b]) => ~ Answered(memory, <<b, x>>)
          /\ \A h \in i..(x - 1) : Answered(memory, <<b, h>>)
    BY <2>3, <2>4
  <2>. QED
    BY <2>5 DEF Stop
<1>. HIDE DEF j
<1>2. j \in Nat /\ j >= i /\ Behind(b, memory, j) /\ (over <=> k \notin Keys)
  BY <1>0, <1>1, KeyIs DEF Behind
<1>3. /\ run.pos = j
      /\ run.at = CASE over -> "returned"
                    [] suspends -> "suspended"
                    [] ~ over /\ ~ suspends /\ Kind(k) = "step" -> "effect"
                    [] OTHER -> "writing"
      /\ run.offer = IF over \/ suspends THEN 0 ELSE Offer(memory, loaded, k)
      /\ run.notes = IF suspends THEN {k} ELSE {}
      /\ run.hands = {<<h, through(memory, loaded, h)>> : h \in Reads \cap ({b} \X (i..(j - 1)))}
  BY DEF Segment, j
<1>. HIDE DEF run
<1>4. k \in Keys => Kind(k) \in Kinds /\ ~ Answered(memory, k) /\ memory[k] \in Nat \cup {Unrecorded}
  BY <1>0, <1>1, KeyIs
<1>5. run.offer \in Nat /\ (~ over /\ ~ suspends /\ k \in Reads => run.offer = Available(memory, loaded, k))
  <2>1. k \in Reads => Available(memory, loaded, k) \in Nat /\ Kind(k) # "sleep"
    BY <1>2, AvailableIs DEF Reads
  <2>2. Duration[b] \in Nat
    BY DurationsNatural
  <2>. QED
    BY <1>2, <1>3, <2>1, <2>2 DEF Offer
<1>6. ASSUME NEW x \in run.hands
      PROVE  \E h \in i..(j - 1) : <<b, h>> \in Reads /\ x = <<<<b, h>>, through(memory, loaded, <<b, h>>)>>
  BY <1>3
<1>. HIDE DEF over, suspends
<1>7. suspends => ~ over /\ (Kind(k) = "sleep" => memory[k] # Unrecorded)
  BY DEF suspends, Suspends
<1>8. over => run.at = "returned"
  BY <1>3, <1>7, Zenon
<1>81. ~ over /\ suspends => run.at = "suspended"
  BY <1>3, Zenon
<1>82. ~ over /\ ~ suspends /\ Kind(k) = "step" => run.at = "effect"
  BY <1>3, Zenon
<1>83. ~ over /\ ~ suspends /\ Kind(k) # "step" => run.at = "writing"
  BY <1>3, Zenon
<1>9. ~ over /\ ~ suspends => Kind(k) # "await" /\ memory[k] = Unrecorded
  BY <1>2, <1>4 DEF suspends, Suspends, Answered, Kinds
<1>10. ~ over /\ Kind(k) = "sleep" /\ memory[k] # Unrecorded => suspends
  BY DEF suspends, Suspends
<1>11. run.pos = j /\ run.notes = IF suspends THEN {k} ELSE {}
  BY <1>3
<1>12. /\ run.at \in {"returned", "suspended", "effect", "writing"}
       /\ run.at = "returned" <=> over
       /\ run.at = "suspended" <=> suspends
       /\ run.at = "effect" <=> ~ over /\ ~ suspends /\ Kind(k) = "step"
       /\ run.at = "writing" <=> ~ over /\ ~ suspends /\ Kind(k) # "step"
  BY <1>7, <1>8, <1>81, <1>82, <1>83
<1>. HIDE DEF k
<1>13. /\ run.at \in {"returned", "suspended", "effect", "writing"}
       /\ run.at = "returned" <=> k \notin Keys
       /\ run.at = "suspended" /\ Kind(k) = "sleep" => memory[k] # Unrecorded
       /\ k \in Keys /\ Kind(k) = "sleep" /\ memory[k] # Unrecorded => run.at = "suspended"
       /\ run.notes = IF run.at = "suspended" THEN {k} ELSE {}
       /\ run.at \in {"effect", "writing"} =>
            Kind(k) # "await" /\ memory[k] = Unrecorded /\ (run.at = "effect" <=> Kind(k) = "step")
       /\ run.at \in {"effect", "writing"} /\ k \in Reads => run.offer = Available(memory, loaded, k)
  BY <1>2, <1>5, <1>7, <1>9, <1>10, <1>11, <1>12
<1>14. run.pos = j /\ k = <<b, run.pos>>
  BY <1>11 DEF k
<1>15. run.pos \in Nat /\ run.pos >= i /\ Behind(b, memory, run.pos)
  BY <1>2, <1>14
<1>16. \A x \in run.hands : \E h \in i..(run.pos - 1) :
         <<b, h>> \in Reads /\ x = <<<<b, h>>, through(memory, loaded, <<b, h>>)>>
  BY <1>6, <1>14
<1>17. run.offer \in Nat /\ (k \in Keys => ~ Answered(memory, k))
  BY <1>4, <1>5
<1>18. Runs(b, memory, loaded, i, run)
  BY <1>13, <1>14, <1>15, <1>16, <1>17, Zenon DEF Runs
<1>. QED
  BY <1>18 DEF run

(* A step that writes nothing, hands nothing on, and only lets tasks end,  *)
(* or perform, or be cancelled.                                            *)
Calm ==
  /\ UNCHANGED <<now, store, how, mine, unread, pos, offer, reached, handed>>
  /\ \A p \in Passes, b \in Branches :
       \/ at'[p][b] \in {at[p][b], "failed", "lost", "cancelled"}
       \/ at[p][b] \in {"effect", "writing", "cancelling"} /\ at'[p][b] \in {"writing", "cancelling"}

(* Such a step leaves what the passes remember as it is. *)
LEMMA CalmKeeps ==
  ASSUME Types, Memory, Calm
  PROVE  Memory'
<1>1. KnownIsRecorded' /\ NewestKnows'
  BY DEF Memory, Calm, KnownIsRecorded, NewestKnows, store
<1>2. TasksAreBehind' /\ RecordedInOrder'
  BY DEF Memory, Calm, TasksAreBehind, RecordedInOrder, Behind, Answered, store
<1>3. TasksFit'
  BY DEF Memory, Calm, TasksFit, store
<1>4. ReadsAreBounded'
  BY DEF Memory, Calm, ReadsAreBounded, store
<1>6. HandedIsRecorded'
  BY DEF Memory, Calm, HandedIsRecorded, store
<1>5. SuspensionsAreNoted' /\ NotedIsKnown' /\ DeadlinesAreNoted'
  BY DEF Memory, Calm, SuspensionsAreNoted, NotedIsKnown, DeadlinesAreNoted, store
<1>. QED
  BY <1>1, <1>2, <1>3, <1>4, <1>5, <1>6 DEF Memory

(* A deadline that has passed stays passed, and one to come was to come. *)
LEMMA TickKeeps ==
  ASSUME Types, Memory, Tick
  PROVE  Memory'
<1>0. now \in Nat /\ now' \in Nat /\ now <= now' /\ UNCHANGED <<store, how, tasks, report, history>>
  BY BoundsNatural DEF Types, Tick
<1>1. KnownIsRecorded' /\ NewestKnows'
  BY <1>0 DEF Memory, KnownIsRecorded, NewestKnows, store, tasks
<1>2. ASSUME NEW b, NEW memory, NEW i, Behind(b, memory, i),
             \A h \in 1..(i - 1) : memory[<<b, h>>] \in Nat \cup {Unrecorded}
      PROVE  Behind(b, memory, i)'
  BY <1>0, <1>2 DEF Behind, Answered
<1>3. TasksAreBehind'
  <2>1. ASSUME NEW p \in Passes, NEW b \in Branches, p <= token
        PROVE  Behind(b, mine[p], pos[p][b])'
    <3>1. Behind(b, mine[p], pos[p][b])
      BY <2>1 DEF Memory, TasksAreBehind
    <3>2. \A h \in 1..(pos[p][b] - 1) : mine[p][<<b, h>>] \in Nat \cup {Unrecorded}
      <4>1. Len(Script[b]) \in Nat /\ pos[p][b] \in Nat
        BY KeyIs DEF Types
      <4>. QED
        BY <3>1, <4>1, KeyIs DEF Types, Behind
    <3>3. mine' = mine /\ pos' = pos
      BY <1>0 DEF tasks
    <3>. QED
      BY <1>2, <3>1, <3>2, <3>3
  <2>. QED
    BY <1>0, <2>1 DEF TasksAreBehind, store
<1>4. RecordedInOrder'
  <2>1. ASSUME NEW k \in Keys, Kind(k) # "await", recorded[k] # Unrecorded
        PROVE  Behind(k[1], recorded, k[2])'
    <3>1. Behind(k[1], recorded, k[2])
      BY <2>1 DEF Memory, RecordedInOrder
    <3>2. \A h \in 1..(k[2] - 1) : recorded[<<k[1], h>>] \in Nat \cup {Unrecorded}
      <4>1. k[1] \in Branches /\ k[2] \in Nat /\ k[2] <= Len(Script[k[1]]) /\ Len(Script[k[1]]) \in Nat
        BY KeyParts, KeyIs
      <4>. QED
        BY <4>1, KeyIs DEF Types
    <3>3. recorded' = recorded
      BY <1>0 DEF store
    <3>. QED
      BY <1>2, <3>1, <3>2, <3>3
  <2>. QED
    BY <1>0, <2>1 DEF RecordedInOrder, store
<1>5. TasksFit'
  BY <1>0 DEF Memory, TasksFit, store, tasks
<1>6. ReadsAreBounded' /\ HandedIsRecorded'
  <2>1. ReadsAreBounded'
    BY <1>0 DEF Memory, ReadsAreBounded, store, tasks
  <2>2. HandedIsRecorded'
    BY <1>0 DEF Memory, HandedIsRecorded, store, history
  <2>. QED
    BY <2>1, <2>2
<1>7. SuspensionsAreNoted' /\ NotedIsKnown'
  BY <1>0 DEF Memory, SuspensionsAreNoted, NotedIsKnown, tasks
<1>8. DeadlinesAreNoted'
  <2>1. token > 0 => token \in Passes
    BY BoundsNatural DEF Types, Passes
  <2>2. ASSUME token > 0, NEW k \in Keys
        PROVE  mine[token][k] \in Int
    BY <2>1, <2>2 DEF Types, Unrecorded
  <2>3. \A n \in Int : n > now' => n > now
    BY <1>0
  <2>4. token' = token /\ mine' = mine /\ reached' = reached
    BY <1>0 DEF store, tasks
  <2>. QED
    BY <2>2, <2>3, <2>4 DEF Memory, DeadlinesAreNoted
<1>. QED
  BY <1>1, <1>3, <1>4, <1>5, <1>6, <1>7, <1>8 DEF Memory

(* A client answers: no task goes by it before it is loaded. *)
LEMMA SupplyKeeps ==
  ASSUME Types, Memory, NEW k \in Keys, Supply(k)
  PROVE  Memory'
<1>0. /\ Kind(k) = "await" /\ k \notin Reads /\ recorded[k] = Unrecorded
      /\ recorded' = [recorded EXCEPT ![k] = 0]
      /\ UNCHANGED <<now, inbox, token, how, tasks, report, history>>
  BY DEF Supply, Reads
<1>1. /\ \A j \in Keys : j # k => recorded'[j] = recorded[j]
      /\ \A j : recorded[j] # Unrecorded => recorded'[j] = recorded[j]
      /\ \A j \in Reads : After(recorded', j) = After(recorded, j) /\ recorded'[j] = recorded[j]
  <2>1. \A j \in Keys : j # k => recorded'[j] = recorded[j]
    BY <1>0 DEF Types
  <2>2. \A j : recorded[j] # Unrecorded => recorded'[j] = recorded[j]
    BY <1>0 DEF Types
  <2>3. \A j \in Reads : recorded'[j] = recorded[j]
    BY <1>0, <2>1 DEF Reads
  <2>. QED
    BY <2>1, <2>2, <2>3, AfterSame
<1>2. KnownIsRecorded' /\ NewestKnows'
  BY <1>0, <1>1 DEF Memory, KnownIsRecorded, NewestKnows, tasks
<1>3. TasksAreBehind'
  BY <1>0 DEF Memory, TasksAreBehind, Behind, Answered, tasks
<1>4. RecordedInOrder'
  <2>1. ASSUME NEW j \in Keys, Kind(j) # "await", recorded'[j] # Unrecorded
        PROVE  Behind(j[1], recorded, j[2])'
    <3>1. Behind(j[1], recorded, j[2])
      BY <1>0, <1>1, <2>1 DEF Memory, RecordedInOrder
    <3>. QED
      BY <1>0, <1>1, <3>1 DEF Behind, Answered
  <2>. QED
    BY <2>1 DEF RecordedInOrder
<1>5. TasksFit'
  BY <1>0 DEF Memory, TasksFit, tasks
<1>6. ReadsAreBounded'
  BY <1>0, <1>1 DEF Memory, ReadsAreBounded, tasks
<1>7. HandedIsRecorded'
  BY <1>0, <1>1 DEF Memory, HandedIsRecorded, history
<1>8. SuspensionsAreNoted' /\ NotedIsKnown' /\ DeadlinesAreNoted'
  BY <1>0 DEF Memory, SuspensionsAreNoted, NotedIsKnown, DeadlinesAreNoted, tasks
<1>. QED
  BY <1>2, <1>3, <1>4, <1>5, <1>6, <1>7, <1>8 DEF Memory

(* What is delivered is not loaded by a pass under way. *)
LEMMA DeliverKeeps ==
  ASSUME Types, Memory, Deliver
  PROVE  Memory'
<1>0. inbox \in Nat /\ inbox' = inbox + 1 /\ UNCHANGED <<now, recorded, token, how, tasks, report, history>>
  BY BoundsNatural DEF Types, Deliver
<1>1. KnownIsRecorded' /\ NewestKnows'
  BY <1>0 DEF Memory, KnownIsRecorded, NewestKnows, tasks
<1>2. TasksAreBehind' /\ RecordedInOrder'
  BY <1>0 DEF Memory, TasksAreBehind, RecordedInOrder, Behind, Answered, tasks
<1>3. TasksFit'
  BY <1>0 DEF Memory, TasksFit, tasks
<1>4. ReadsAreBounded'
  <2>1. \A k \in Reads : recorded[k] \in Int
    BY DEF Types, Reads, Unrecorded
  <2>2. \A p \in Passes : unread[p] \in Nat
    BY BoundsNatural DEF Types
  <2>3. \A n \in Int : n <= inbox => n <= inbox'
    BY <1>0
  <2>4. UNCHANGED <<recorded, mine, unread, token>>
    BY <1>0 DEF tasks
  <2>. HIDE DEF Reads
  <2>. QED
    BY <2>1, <2>2, <2>3, <2>4 DEF Memory, ReadsAreBounded
<1>5. HandedIsRecorded'
  BY <1>0 DEF Memory, HandedIsRecorded, history
<1>6. SuspensionsAreNoted' /\ NotedIsKnown' /\ DeadlinesAreNoted'
  BY <1>0 DEF Memory, SuspensionsAreNoted, NotedIsKnown, DeadlinesAreNoted, tasks
<1>. QED
  BY <1>1, <1>2, <1>3, <1>4, <1>5, <1>6 DEF Memory

(* A pass begins with all that is recorded and delivered. *)
Begins(p, run) ==
  /\ p = token + 1 /\ token' = p /\ token \in Nat
  /\ \A b \in Branches : Runs(b, recorded, inbox, 1, run[b])
  /\ mine' = [mine EXCEPT ![p] = recorded] /\ unread' = [unread EXCEPT ![p] = inbox]
  /\ pos' = [pos EXCEPT ![p] = [b \in Branches |-> run[b].pos]]
  /\ at' = [at EXCEPT ![p] = [b \in Branches |-> run[b].at]]
  /\ offer' = [offer EXCEPT ![p] = [b \in Branches |-> run[b].offer]]
  /\ reached' = [reached EXCEPT ![p] = UNION {run[b].notes : b \in Branches}]
  /\ handed' = handed \cup UNION {run[b].hands : b \in Branches}
  /\ outcome' = [outcome EXCEPT ![p] = "running"]
  /\ UNCHANGED <<now, recorded, inbox, how, due, effects, unwritten>>

(* That is what Begin does, from what the invariant says of the records. *)
LEMMA BeginDoes ==
  ASSUME Types, Memory, Begin
  PROVE  \E p \in Passes : \E run : Begins(p, run)
<1>. DEFINE p == token + 1
            run == [b \in Branches |-> Segment(b, recorded, inbox, 1)]
<1>1. p \in Passes /\ token \in Nat /\ inbox \in Nat /\ now \in Nat
  BY BoundsNatural DEF Begin, Types, Passes
<1>2. \A j \in Reads : recorded[j] <= inbox
  BY <1>1 DEF Memory, ReadsAreBounded, Types, Reads, Unrecorded
<1>3. ASSUME NEW b \in Branches
      PROVE  Runs(b, recorded, inbox, 1, run[b])
  <2>1. Behind(b, recorded, 1)
    BY KeyIs DEF Behind
  <2>2. recorded \in [Keys -> Nat \cup {Unrecorded}]
    BY DEF Types
  <2>3. Runs(b, recorded, inbox, 1, Segment(b, recorded, inbox, 1))
    BY <1>1, <1>2, <2>1, <2>2, SegmentRuns
  <2>. QED
    BY <2>3
<1>4. /\ token' = p
      /\ mine' = [mine EXCEPT ![p] = recorded] /\ unread' = [unread EXCEPT ![p] = inbox]
      /\ pos' = [pos EXCEPT ![p] = [b \in Branches |-> run[b].pos]]
      /\ at' = [at EXCEPT ![p] = [b \in Branches |-> run[b].at]]
      /\ offer' = [offer EXCEPT ![p] = [b \in Branches |-> run[b].offer]]
      /\ reached' = [reached EXCEPT ![p] = UNION {run[b].notes : b \in Branches}]
      /\ handed' = handed \cup UNION {run[b].hands : b \in Branches}
      /\ outcome' = [outcome EXCEPT ![p] = "running"]
      /\ UNCHANGED <<now, recorded, inbox, how, due, effects, unwritten>>
  BY DEF Begin
<1>. HIDE DEF run
<1>. QED
  BY <1>1, <1>3, <1>4 DEF Begins

(* A body replayed from the top comes to where the records end, and notes   *)
(* it.                                                                      *)
LEMMA BeginKeeps ==
  ASSUME Types, Memory, Begin
  PROVE  Memory'
<1>0. PICK p \in Passes : \E run : Begins(p, run)
  BY BeginDoes
<1>1. PICK run : Begins(p, run)
  BY <1>0
<1>. USE DEF Begins
<1>2. /\ mine'[p] = recorded /\ unread'[p] = inbox /\ reached'[p] = UNION {run[b].notes : b \in Branches}
      /\ \A b \in Branches : pos'[p][b] = run[b].pos /\ at'[p][b] = run[b].at /\ offer'[p][b] = run[b].offer
  BY <1>1 DEF Types
<1>3. ASSUME NEW q \in Passes, q # p
      PROVE  /\ mine'[q] = mine[q] /\ unread'[q] = unread[q] /\ reached'[q] = reached[q]
             /\ pos'[q] = pos[q] /\ at'[q] = at[q] /\ offer'[q] = offer[q]
             /\ q <= token' => q <= token
  BY <1>1, <1>3 DEF Types, Passes
<1>4. KnownIsRecorded' /\ NewestKnows'
  <2>1. KnownIsRecorded'
    BY <1>1, <1>2, <1>3 DEF Memory, KnownIsRecorded
  <2>. QED
    BY <1>1, <1>2, <2>1 DEF NewestKnows
<1>5. TasksAreBehind'
  <2>1. ASSUME NEW q \in Passes, NEW b \in Branches, q <= token'
        PROVE  Behind(b, mine[q], pos[q][b])'
    <3>1. CASE q = p
      <4>1. Behind(b, recorded, run[b].pos)
        BY <1>1 DEF Runs
      <4>. QED
        BY <1>1, <1>2, <3>1, <4>1 DEF Behind, Answered
    <3>2. CASE q # p
      <4>1. Behind(b, mine[q], pos[q][b])
        BY <1>3, <2>1, <3>2 DEF Memory, TasksAreBehind
      <4>. QED
        BY <1>1, <1>3, <3>2, <4>1 DEF Behind, Answered
    <3>. QED
      BY <3>1, <3>2
  <2>. QED
    BY <2>1 DEF TasksAreBehind
<1>6. RecordedInOrder'
  BY <1>1 DEF Memory, RecordedInOrder, Behind, Answered
<1>7. TasksFit'
  <2>1. ASSUME NEW q \in Passes, NEW b \in Branches, at'[q][b] \in {"effect", "writing", "cancelling"}
        PROVE  LET k == <<b, pos'[q][b]>> IN
                 /\ q <= token'
                 /\ k \in Keys /\ Kind(k) # "await" /\ mine'[q][k] = Unrecorded
                 /\ at'[q][b] = "effect" => Kind(k) = "step"
                 /\ k \in Reads => offer'[q][b] = Available(mine'[q], unread'[q], k)
    <3>1. CASE q = p
      <4>1. Runs(b, recorded, inbox, 1, run[b])
        BY <1>1
      <4>2. at'[q][b] = run[b].at /\ pos'[q][b] = run[b].pos /\ offer'[q][b] = run[b].offer
        BY <1>2, <3>1
      <4>3. /\ <<b, run[b].pos>> \in Keys
            /\ Kind(<<b, run[b].pos>>) # "await" /\ recorded[<<b, run[b].pos>>] = Unrecorded
            /\ run[b].at = "effect" => Kind(<<b, run[b].pos>>) = "step"
            /\ <<b, run[b].pos>> \in Reads => run[b].offer = Available(recorded, inbox, <<b, run[b].pos>>)
        BY <2>1, <4>1, <4>2 DEF Runs
      <4>. QED
        BY <1>1, <1>2, <3>1, <4>2, <4>3
    <3>2. CASE q # p
      BY <1>1, <1>3, <2>1, <3>2 DEF Memory, TasksFit
    <3>. QED
      BY <3>1, <3>2
  <2>. QED
    BY <2>1 DEF TasksFit
<1>8. ReadsAreBounded'
  <2>1. \A j \in Reads : recorded[j] <= inbox
    BY BoundsNatural DEF Memory, ReadsAreBounded, Types, Reads, Unrecorded
  <2>2. inbox \in Nat /\ inbox' = inbox /\ recorded' = recorded
    BY <1>1, BoundsNatural DEF Types
  <2>3. \A q \in Passes, k \in Reads : q <= token' => mine'[q][k] <= unread'[q] /\ unread'[q] <= inbox'
    BY <1>2, <1>3, <2>1, <2>2 DEF Memory, ReadsAreBounded
  <2>. QED
    BY <2>2, <2>3 DEF Memory, ReadsAreBounded
<1>9. HandedIsRecorded'
  <2>1. ASSUME NEW x \in handed', x \notin handed
        PROVE  /\ x[1] \in Reads /\ recorded[x[1]] # Unrecorded
               /\ x = <<x[1], (After(recorded, x[1]) + 1)..recorded[x[1]]>>
    <3>1. PICK b \in Branches : x \in run[b].hands
      BY <1>1, <2>1
    <3>2. Runs(b, recorded, inbox, 1, run[b])
      BY <1>1
    <3>3. PICK h \in 1..(run[b].pos - 1) :
            <<b, h>> \in Reads /\ x = <<<<b, h>>, through(recorded, inbox, <<b, h>>)>>
      BY <3>1, <3>2 DEF Runs
    <3>. DEFINE k == <<b, h>>
    <3>4. recorded[k] # Unrecorded /\ Behind(k[1], recorded, k[2])
      <4>1. Behind(b, recorded, run[b].pos)
        BY <3>2 DEF Runs
      <4>2. recorded[k] # Unrecorded
        BY <3>3, <4>1 DEF Behind, Answered
      <4>3. k \in Keys /\ Kind(k) # "await"
        BY <3>3 DEF Reads
      <4>. QED
        BY <4>2, <4>3 DEF Memory, RecordedInOrder
    <3>5. recorded[k] \in Nat /\ inbox \in Nat /\ recorded \in [Keys -> Nat \cup {Unrecorded}]
      BY <3>3, <3>4, BoundsNatural DEF Types, Reads
    <3>6. recorded[k] <= inbox /\ recorded[k] <= After(recorded, k) + Limit /\ k \in Reads
      BY <3>3, <3>4 DEF Memory, ReadsAreBounded
    <3>7. \A j \in Reads : recorded[j] <= inbox
      BY <3>5 DEF Memory, ReadsAreBounded, Types, Reads, Unrecorded
    <3>8. through(recorded, inbox, k) = (After(recorded, k) + 1)..recorded[k]
      BY <3>4, <3>5, <3>6, <3>7, AvailableIs
    <3>. QED
      BY <3>3, <3>4, <3>8
  <2>. QED
    BY <1>1, <2>1 DEF Memory, HandedIsRecorded
<1>10. SuspensionsAreNoted' /\ NotedIsKnown'
  <2>1. ASSUME NEW b \in Branches, at'[p][b] = "suspended"
        PROVE  <<b, pos'[p][b]>> \in reached'[p]
    <3>1. run[b].notes = {<<b, run[b].pos>>}
      BY <1>1, <1>2, <2>1 DEF Runs
    <3>. QED
      BY <1>2, <3>1
  <2>2. ASSUME NEW k \in reached'[p], Kind(k) = "sleep"
        PROVE  mine'[p][k] # Unrecorded
    <3>1. PICK b \in Branches : k \in run[b].notes
      BY <1>2, <2>2
    <3>2. k = <<b, run[b].pos>> /\ run[b].at = "suspended"
      BY <1>1, <3>1 DEF Runs
    <3>3. recorded[k] # Unrecorded
      BY <1>1, <2>2, <3>2 DEF Runs
    <3>. QED
      BY <1>2, <3>3
  <2>3. SuspensionsAreNoted'
    BY <1>3, <2>1 DEF Memory, SuspensionsAreNoted
  <2>4. NotedIsKnown'
    BY <1>3, <2>2 DEF Memory, NotedIsKnown
  <2>. QED
    BY <2>3, <2>4
<1>11. DeadlinesAreNoted'
  <2>1. ASSUME NEW k \in Keys, Kind(k) = "sleep", recorded[k] > now
        PROVE  k \in reached'[p]
    <3>. DEFINE b == k[1]
                i == k[2]
                j == run[b].pos
    <3>1. b \in Branches /\ i \in Nat /\ i >= 1 /\ i <= Len(Script[b]) /\ k = <<b, i>>
      BY KeyParts, KeyIs
    <3>2. now \in Nat /\ recorded[k] # Unrecorded
      BY <2>1, BoundsNatural DEF Types, Unrecorded
    <3>3. Behind(b, recorded, i)
      BY <2>1, <3>2 DEF Memory, RecordedInOrder
    <3>4. Runs(b, recorded, inbox, 1, run[b])
      BY <1>1, <3>1
    <3>5. j \in Nat /\ j >= 1 /\ Behind(b, recorded, j) /\ (<<b, j>> \in Keys => ~ Answered(recorded, <<b, j>>))
      BY <3>4 DEF Runs
    <3>6. ~ Answered(recorded, k)
      BY <2>1, <3>2 DEF Answered, Types
    <3>. HIDE DEF b, i, j
    <3>7. ~ (i < j)
      BY <3>1, <3>5, <3>6 DEF Behind
    <3>8. ~ (j < i)
      <4>1. ASSUME j < i PROVE FALSE
        <5>1. j \in 1..(i - 1) /\ j \in 1..Len(Script[b])
          BY <3>1, <3>5, <4>1, KeyIs
        <5>2. Answered(recorded, <<b, j>>) /\ <<b, j>> \in Keys
          BY <3>1, <3>3, <5>1, KeyIs DEF Behind
        <5>. QED
          BY <3>5, <5>2
      <4>. QED
        BY <4>1
    <3>9. k = <<b, run[b].pos>>
      BY <3>1, <3>5, <3>7, <3>8 DEF j
    <3>10. run[b].at = "suspended" /\ run[b].notes = {k}
      BY <2>1, <3>2, <3>4, <3>9 DEF Runs
    <3>. QED
      BY <1>2, <3>1, <3>10
  <2>2. \A k \in Keys : mine'[p][k] = recorded[k] /\ now' = now
    BY <1>1, <1>2
  <2>. QED
    BY <1>1, <2>1, <2>2 DEF DeadlinesAreNoted
<1>. QED
  BY <1>4, <1>5, <1>6, <1>7, <1>8, <1>9, <1>10, <1>11 DEF Memory

(* A write of the newest pass is taken: nothing was recorded there. *)
Taken(p, b, k, v) ==
  /\ k = <<b, pos[p][b]>> /\ k \in Keys /\ v \in Nat /\ p = token
  /\ Kind(k) # "await" /\ recorded[k] = Unrecorded /\ mine[p][k] = Unrecorded
  /\ k \in Reads => v = Available(mine[p], unread[p], k)
  /\ recorded' = [recorded EXCEPT ![k] = v] /\ mine' = [mine EXCEPT ![p][k] = v]
  /\ UNCHANGED <<now, inbox, token, how, unread, report, effects, unwritten>>

GoesOn(p, b, run) ==
  /\ at[p][b] = "writing"
  /\ Runs(b, mine'[p], unread[p], pos[p][b], run)
  /\ pos' = [pos EXCEPT ![p][b] = run.pos]
  /\ at' = [at EXCEPT ![p][b] = run.at]
  /\ offer' = [offer EXCEPT ![p][b] = run.offer]
  /\ reached' = [reached EXCEPT ![p] = @ \cup run.notes]
  /\ handed' = handed \cup run.hands

IsWritten(p, b, k, v) ==
  /\ Taken(p, b, k, v)
  /\ \/ \E run : GoesOn(p, b, run)
     \/ at[p][b] = "cancelling" /\ Unwinds(p, b, k)

(* That is what the write of the newest pass does. *)
LEMMA LandsDoes ==
  ASSUME Types, Memory, NEW p \in Passes, NEW b \in Branches, Lands(p, b), p = token
  PROVE  \E k \in Keys : \E v \in Nat : IsWritten(p, b, k, v)
<1>. DEFINE k == <<b, pos[p][b]>>
            v == offer[p][b]
<1>1. /\ at[p][b] \in {"writing", "cancelling"} /\ v \in Nat
      /\ k \in Keys /\ Kind(k) # "await" /\ mine[p][k] = Unrecorded
      /\ k \in Reads => v = Available(mine[p], unread[p], k)
  BY DEF Lands, Types, Memory, TasksFit
<1>2. recorded[k] = Unrecorded
  BY <1>1, BoundsNatural DEF Memory, NewestKnows, Passes
<1>3. /\ recorded' = [recorded EXCEPT ![k] = v] /\ mine' = [mine EXCEPT ![p][k] = v]
      /\ UNCHANGED <<now, inbox, token, how, unread, report, effects>>
  BY <1>2 DEF Lands, Landed
<1>4. unwritten' = unwritten
  BY <1>1 DEF Lands, Types
<1>5. Taken(p, b, k, v)
  BY <1>1, <1>2, <1>3, <1>4 DEF Taken
<1>6. ASSUME at[p][b] = "cancelling"
      PROVE  Unwinds(p, b, k)
  BY <1>6 DEF Lands
<1>7. ASSUME at[p][b] = "writing"
      PROVE  \E run : GoesOn(p, b, run)
  <2>. DEFINE memory == [mine[p] EXCEPT ![k] = v]
              run == Segment(b, memory, unread[p], pos[p][b])
  <2>1. Proceeds(p, b, memory)
    BY <1>2, <1>7 DEF Lands, Landed
  <2>2. /\ pos' = [pos EXCEPT ![p][b] = run.pos]
        /\ at' = [at EXCEPT ![p][b] = run.at]
        /\ offer' = [offer EXCEPT ![p][b] = run.offer]
        /\ reached' = [reached EXCEPT ![p] = @ \cup run.notes]
        /\ handed' = handed \cup run.hands
    BY <2>1 DEF Proceeds
  <2>3. mine'[p] = memory /\ memory \in [Keys -> Nat \cup {Unrecorded}]
    BY <1>1, <1>3 DEF Types
  <2>4. unread[p] \in Nat /\ now \in Nat /\ pos[p][b] \in Nat
    BY BoundsNatural DEF Types
  <2>5. Behind(b, mine[p], pos[p][b])
    BY BoundsNatural DEF Memory, TasksAreBehind, Types
  <2>6. Behind(b, memory, pos[p][b])
    <3>1. \A h \in 1..(pos[p][b] - 1) : memory[<<b, h>>] = mine[p][<<b, h>>]
      BY <1>1, <2>3, <2>4 DEF Types
    <3>. QED
      BY <2>5, <3>1 DEF Behind, Answered
  <2>7. \A j \in Reads : memory[j] <= unread[p]
    <3>1. \A j \in Reads : mine[p][j] <= unread[p]
      BY BoundsNatural DEF Memory, ReadsAreBounded, Types
    <3>2. k \in Reads => v <= unread[p]
      <4>1. k[1] = b /\ k[2] = pos[p][b] /\ mine[p] \in [Keys -> Nat \cup {Unrecorded}]
        BY DEF Types
      <4>2. Behind(k[1], mine[p], k[2])
        BY <2>5, <4>1
      <4>. HIDE DEF k, v
      <4>. QED
        BY <1>1, <2>4, <3>1, <4>1, <4>2, AvailableIs
    <3>. QED
      BY <1>1, <3>1, <3>2 DEF Types, Reads
  <2>8. Runs(b, memory, unread[p], pos[p][b], run)
    BY <2>3, <2>4, <2>6, <2>7, SegmentRuns
  <2>. HIDE DEF run, memory
  <2>9. Runs(b, mine'[p], unread[p], pos[p][b], run)
    BY <2>3, <2>8
  <2>. QED
    BY <1>7, <2>2, <2>9 DEF GoesOn
<1>. QED
  BY <1>1, <1>5, <1>6, <1>7 DEF IsWritten

(* A record is written behind all those of its branch, and goes on from     *)
(* there.                                                                   *)
LEMMA LandsKeeps ==
  ASSUME Types, Memory, NEW p \in Passes, NEW b \in Branches, Lands(p, b), p = token
  PROVE  Memory'
<1>1. PICK k \in Keys, v \in Nat : IsWritten(p, b, k, v)
  BY LandsDoes
<1>. USE DEF IsWritten
<1>2. /\ k = <<b, pos[p][b]>> /\ p = token
      /\ Kind(k) # "await" /\ recorded[k] = Unrecorded /\ mine[p][k] = Unrecorded
      /\ UNCHANGED <<now, inbox, token, how, unread>>
      /\ now \in Nat /\ unread[p] \in Nat /\ inbox \in Nat /\ pos[p][b] \in Nat
      /\ token \in Nat /\ p <= token /\ token' = token
  BY <1>1, BoundsNatural DEF Taken, Types
<1>3. /\ recorded' \in [Keys -> Nat \cup {Unrecorded}] /\ mine' \in [Passes -> [Keys -> Nat \cup {Unrecorded}]]
      /\ recorded'[k] = v /\ mine'[p][k] = v
      /\ \A j \in Keys : j # k => recorded'[j] = recorded[j] /\ mine'[p][j] = mine[p][j]
      /\ \A q \in Passes : q # p => mine'[q] = mine[q]
  BY <1>1 DEF Taken, Types
<1>4. /\ \A q \in Passes, c \in Branches : q # p \/ c # b =>
           at'[q][c] = at[q][c] /\ pos'[q][c] = pos[q][c] /\ offer'[q][c] = offer[q][c]
      /\ \A q \in Passes : q # p => reached'[q] = reached[q]
      /\ reached[p] \subseteq reached'[p]
  <2>1. CASE \E run : GoesOn(p, b, run)
    BY <2>1 DEF GoesOn, Types
  <2>2. CASE Unwinds(p, b, k)
    BY <2>2 DEF Unwinds, Types
  <2>. QED
    BY <1>1, <2>1, <2>2
<1>5. at[p][b] = "cancelling" /\ Unwinds(p, b, k) =>
         /\ at'[p][b] = "cancelled" /\ pos'[p][b] = pos[p][b] /\ handed' = handed
         /\ reached'[p] = IF Kind(k) = "sleep" THEN reached[p] \cup {k} ELSE reached[p]
  BY DEF Unwinds, Types
<1>6. ASSUME NEW run, GoesOn(p, b, run)
      PROVE  /\ at'[p][b] = run.at /\ pos'[p][b] = run.pos /\ offer'[p][b] = run.offer
             /\ reached'[p] = reached[p] \cup run.notes /\ handed' = handed \cup run.hands
             /\ Runs(b, mine'[p], unread[p], pos[p][b], run)
  BY <1>6 DEF GoesOn, Types
<1>7. ASSUME NEW c \in Branches, NEW i \in Nat, NEW m1, NEW m2, Behind(c, m1, i),
             \A j \in Keys : m1[j] # Unrecorded => m2[j] = m1[j]
      PROVE  Behind(c, m2, i)
  <2>1. i <= Len(Script[c]) + 1 /\ Len(Script[c]) \in Nat
    BY <1>7, KeyIs DEF Behind
  <2>2. \A h \in 1..(i - 1) : <<c, h>> \in Keys
    BY <2>1, KeyIs
  <2>. QED
    BY <1>7, <2>2 DEF Behind, Answered
<1>8. KnownIsRecorded' /\ NewestKnows'
  <2>1. ASSUME NEW q \in Passes, NEW j \in Keys, q <= token, mine'[q][j] # Unrecorded
        PROVE  mine'[q][j] = recorded'[j]
    <3>1. CASE j = k
      BY <1>2, <1>3, <2>1, <3>1 DEF Memory, KnownIsRecorded
    <3>2. CASE j # k
      BY <1>3, <2>1, <3>2 DEF Memory, KnownIsRecorded
    <3>. QED
      BY <3>1, <3>2
  <2>2. ASSUME token > 0, NEW j \in Keys, Kind(j) # "await"
        PROVE  mine'[p][j] = recorded'[j]
    BY <1>2, <1>3, <2>2 DEF Memory, NewestKnows
  <2>. QED
    BY <1>2, <2>1, <2>2 DEF KnownIsRecorded, NewestKnows
<1>9. TasksAreBehind'
  <2>1. ASSUME NEW q \in Passes, NEW c \in Branches, q <= token
        PROVE  Behind(c, mine'[q], pos'[q][c])
    <3>1. Behind(c, mine[q], pos[q][c]) /\ pos[q][c] \in Nat
      BY <2>1 DEF Memory, TasksAreBehind, Types
    <3>2. \A j \in Keys : mine[q][j] # Unrecorded => mine'[q][j] = mine[q][j]
      BY <1>2, <1>3
    <3>3. Behind(c, mine'[q], pos[q][c])
      BY <3>1, <3>2, <1>7
    <3>4. CASE q = p /\ c = b
      <4>1. CASE \E run : GoesOn(p, b, run)
        BY <1>6, <3>4, <4>1 DEF Runs
      <4>2. CASE at[p][b] = "cancelling" /\ Unwinds(p, b, k)
        BY <1>5, <3>3, <3>4, <4>2
      <4>. QED
        BY <1>1, <4>1, <4>2
    <3>5. CASE q # p \/ c # b
      BY <1>4, <3>3, <3>5
    <3>. QED
      BY <3>4, <3>5
  <2>. QED
    BY <1>2, <2>1 DEF TasksAreBehind, Behind, Answered
<1>10. ASSUME NEW j \in Keys, Kind(j) # "await", recorded'[j] # Unrecorded
       PROVE  Behind(j[1], recorded', j[2])
  <2>0. j[1] \in Branches /\ j[2] \in Nat
    BY KeyParts
  <2>1. \A i \in Keys : recorded[i] # Unrecorded => recorded'[i] = recorded[i]
    BY <1>2, <1>3
  <2>2. CASE j # k
    <3>1. Behind(j[1], recorded, j[2])
      BY <1>3, <1>10, <2>2 DEF Memory, RecordedInOrder
    <3>. QED
      BY <1>7, <2>0, <2>1, <3>1
  <2>3. CASE j = k
    <3>1. Behind(b, mine[p], pos[p][b])
      BY <1>2 DEF Memory, TasksAreBehind
    <3>2. \A i \in Keys : mine[p][i] # Unrecorded => recorded'[i] = mine[p][i]
      BY <1>2, <2>1 DEF Memory, KnownIsRecorded
    <3>3. Behind(b, recorded', pos[p][b])
      BY <1>2, <1>7, <3>1, <3>2
    <3>4. j[1] = b /\ j[2] = pos[p][b]
      BY <1>2, <2>3
    <3>. QED
      BY <3>3, <3>4
  <2>. QED
    BY <2>2, <2>3
<1>11. RecordedInOrder'
  BY <1>2, <1>10 DEF RecordedInOrder, Behind, Answered
<1>12. TasksFit'
  <2>1. ASSUME NEW q \in Passes, NEW c \in Branches, at'[q][c] \in {"effect", "writing", "cancelling"}
        PROVE  LET j == <<c, pos'[q][c]>> IN
                 /\ q <= token'
                 /\ j \in Keys /\ Kind(j) # "await" /\ mine'[q][j] = Unrecorded
                 /\ at'[q][c] = "effect" => Kind(j) = "step"
                 /\ j \in Reads => offer'[q][c] = Available(mine'[q], unread'[q], j)
    <3>1. CASE q = p /\ c = b
      <4>1. PICK run : GoesOn(p, b, run)
        BY <1>1, <1>5, <2>1, <3>1
      <4>2. /\ at'[p][b] = run.at /\ pos'[p][b] = run.pos /\ offer'[p][b] = run.offer
            /\ Runs(b, mine'[p], unread[p], pos[p][b], run)
        BY <1>6, <4>1
      <4>3. /\ <<b, run.pos>> \in Keys
            /\ Kind(<<b, run.pos>>) # "await" /\ mine'[p][<<b, run.pos>>] = Unrecorded
            /\ run.at = "effect" => Kind(<<b, run.pos>>) = "step"
            /\ <<b, run.pos>> \in Reads => run.offer = Available(mine'[p], unread[p], <<b, run.pos>>)
        BY <2>1, <3>1, <4>2 DEF Runs
      <4>. QED
        BY <1>2, <3>1, <4>2, <4>3
    <3>2. CASE q # p \/ c # b
      <4>. DEFINE j == <<c, pos[q][c]>>
      <4>1. /\ q <= token
            /\ j \in Keys /\ Kind(j) # "await" /\ mine[q][j] = Unrecorded
            /\ at[q][c] = "effect" => Kind(j) = "step"
            /\ j \in Reads => offer[q][c] = Available(mine[q], unread[q], j)
        BY <1>4, <2>1, <3>2 DEF Memory, TasksFit
      <4>2. mine'[q][j] = Unrecorded
        BY <1>2, <1>3, <3>2, <4>1
      <4>3. After(mine'[q], j) = After(mine[q], j)
        <5>1. ASSUME NEW i \in Reads, i[1] = j[1] /\ i[2] < j[2]
              PROVE  mine'[q][i] = mine[q][i]
          BY <1>2, <1>3, <3>2, <5>1 DEF Reads
        <5>. HIDE DEF j
        <5>. QED
          BY <5>1, AfterSame
      <4>4. Available(mine'[q], unread[q], j) = Available(mine[q], unread[q], j)
        BY <4>3 DEF Available
      <4>. QED
        BY <1>2, <1>4, <3>2, <4>1, <4>2, <4>4
    <3>. QED
      BY <3>1, <3>2
  <2>. QED
    BY <2>1 DEF TasksFit
(* The reads in front of a recorded one are recorded, and stay where they are. *)
<1>13. ASSUME NEW j \in Reads, NEW m, Behind(j[1], m, j[2])
       PROVE  \A i \in Reads : i[1] = j[1] /\ i[2] < j[2] => m[i] # Unrecorded
  <2>1. ASSUME NEW i \in Reads, i[1] = j[1], i[2] < j[2]
        PROVE  m[i] # Unrecorded
    <3>1. i[2] \in 1..(j[2] - 1) /\ i = <<j[1], i[2]>>
      <4>1. i \in Keys /\ j \in Keys
        BY DEF Reads
      <4>2. i[2] \in Nat /\ j[2] \in Nat /\ i[2] >= 1 /\ i = <<i[1], i[2]>>
        BY <4>1, KeyParts
      <4>. QED
        BY <2>1, <4>2
    <3>. QED
      BY <1>13, <3>1 DEF Behind, Answered
  <2>. QED
    BY <2>1
<1>14. ASSUME NEW j \in Reads, recorded'[j] # Unrecorded
       PROVE  After(recorded', j) = After(recorded, j)
  <2>0. j \in Keys /\ Kind(j) # "await" /\ j[2] \in Nat
    BY KeyParts DEF Reads
  <2>1. ASSUME NEW i \in Reads, i[1] = j[1] /\ i[2] < j[2]
        PROVE  i # k
    <3>1. CASE j = k
      BY <2>0, <2>1, <3>1
    <3>2. CASE j # k
      <4>1. Behind(j[1], recorded, j[2])
        BY <1>3, <1>14, <2>0, <3>2 DEF Memory, RecordedInOrder
      <4>. QED
        BY <1>2, <1>13, <2>1, <4>1
    <3>. QED
      BY <3>1, <3>2
  <2>2. \A i \in Reads : i[1] = j[1] /\ i[2] < j[2] => recorded'[i] = recorded[i]
    BY <1>3, <2>1 DEF Reads
  <2>. QED
    BY <2>2, AfterSame
<1>15. ASSUME NEW j \in Reads, Behind(j[1], mine'[p], j[2])
       PROVE  After(mine'[p], j) = After(recorded', j)
  <2>1. \A i \in Reads : mine'[p][i] # Unrecorded => mine'[p][i] = recorded'[i]
    BY <1>2, <1>8 DEF KnownIsRecorded, Reads
  <2>2. \A i \in Reads : i[1] = j[1] /\ i[2] < j[2] => mine'[p][i] = recorded'[i]
    BY <1>13, <1>15, <2>1
  <2>. QED
    BY <2>2, AfterSame
<1>16. /\ Behind(k[1], mine[p], k[2])
       /\ \A j \in Reads : mine[p][j] <= unread[p]
       /\ unread[p] <= inbox \/ Reads = {}
  <2>1. Behind(b, mine[p], pos[p][b])
    BY <1>2 DEF Memory, TasksAreBehind
  <2>2. k[1] = b /\ k[2] = pos[p][b]
    BY <1>2
  <2>3. \A j \in Reads : mine[p][j] <= unread[p] /\ unread[p] <= inbox
    BY <1>2 DEF Memory, ReadsAreBounded
  <2>. QED
    BY <2>1, <2>2, <2>3
<1>17. ASSUME k \in Reads
       PROVE  v <= unread[p] /\ v <= inbox /\ v <= After(recorded', k) + Limit
  <2>1. v = Available(mine[p], unread[p], k) /\ mine[p] \in [Keys -> Nat \cup {Unrecorded}]
    BY <1>1, <1>17 DEF Taken, Types
  <2>2. v <= unread[p] /\ v <= After(mine[p], k) + Limit
    BY <1>2, <1>16, <1>17, <2>1, AvailableIs
  <2>3. After(mine[p], k) = After(recorded', k)
    <3>1. \A i \in Reads : i[1] = k[1] /\ i[2] < k[2] => mine[p][i] # Unrecorded
      BY <1>13, <1>16, <1>17
    <3>2. \A i \in Reads : mine[p][i] # Unrecorded => recorded'[i] = mine[p][i]
      <4>1. \A i \in Reads : mine[p][i] # Unrecorded => i # k /\ recorded[i] = mine[p][i]
        BY <1>2 DEF Memory, KnownIsRecorded, Reads
      <4>. QED
        BY <1>3, <4>1 DEF Reads
    <3>. QED
      BY <3>1, <3>2, AfterSame
  <2>. QED
    BY <1>2, <1>16, <1>17, <2>2, <2>3
<1>18. ReadsAreBounded'
  <2>1. ASSUME NEW j \in Reads, recorded'[j] # Unrecorded
        PROVE  recorded'[j] <= inbox /\ recorded'[j] <= After(recorded', j) + Limit
    <3>1. CASE j = k
      BY <1>3, <1>17, <2>1, <3>1
    <3>2. CASE j # k
      <4>1. recorded'[j] = recorded[j]
        BY <1>3, <3>2 DEF Reads
      <4>. QED
        BY <1>14, <2>1, <4>1 DEF Memory, ReadsAreBounded
    <3>. QED
      BY <3>1, <3>2
  <2>2. ASSUME NEW q \in Passes, NEW j \in Reads, q <= token
        PROVE  mine'[q][j] <= unread[q] /\ unread[q] <= inbox
    <3>1. mine[q][j] <= unread[q] /\ unread[q] <= inbox
      BY <2>2 DEF Memory, ReadsAreBounded
    <3>2. CASE q = p /\ j = k
      BY <1>3, <1>17, <3>1, <3>2
    <3>3. CASE q # p \/ j # k
      BY <1>3, <3>1, <3>3 DEF Reads
    <3>. QED
      BY <3>2, <3>3
  <2>. QED
    BY <1>2, <2>1, <2>2 DEF ReadsAreBounded
<1>19. HandedIsRecorded'
  <2>1. ASSUME NEW x \in handed
        PROVE  /\ x[1] \in Reads /\ recorded'[x[1]] # Unrecorded
               /\ x = <<x[1], (After(recorded', x[1]) + 1)..recorded'[x[1]]>>
    <3>1. /\ x[1] \in Reads /\ recorded[x[1]] # Unrecorded
          /\ x = <<x[1], (After(recorded, x[1]) + 1)..recorded[x[1]]>>
      BY DEF Memory, HandedIsRecorded
    <3>2. recorded'[x[1]] = recorded[x[1]]
      BY <1>2, <1>3, <3>1 DEF Reads
    <3>. QED
      BY <1>14, <3>1, <3>2
  <2>2. ASSUME NEW run, GoesOn(p, b, run), NEW x \in run.hands
        PROVE  /\ x[1] \in Reads /\ recorded'[x[1]] # Unrecorded
               /\ x = <<x[1], (After(recorded', x[1]) + 1)..recorded'[x[1]]>>
    <3>1. Runs(b, mine'[p], unread[p], pos[p][b], run)
      BY <1>6, <2>2
    <3>2. PICK h \in pos[p][b]..(run.pos - 1) :
            <<b, h>> \in Reads /\ x = <<<<b, h>>, through(mine'[p], unread[p], <<b, h>>)>>
      BY <2>2, <3>1 DEF Runs
    <3>. DEFINE j == <<b, h>>
    <3>3. j \in Keys /\ j[1] = b /\ j[2] = h /\ h \in Nat /\ h >= 1 /\ h <= run.pos - 1 /\ run.pos \in Nat
      BY <3>1, <3>2, KeyParts DEF Runs, Reads
    <3>4. Behind(b, mine'[p], run.pos)
      BY <3>1 DEF Runs
    <3>5. mine'[p][j] # Unrecorded /\ Behind(b, mine'[p], h)
      BY <3>3, <3>4 DEF Behind, Answered
    <3>6. mine'[p][j] = recorded'[j]
      BY <1>2, <1>8, <3>3, <3>5 DEF KnownIsRecorded
    <3>7. After(mine'[p], j) = After(recorded', j)
      BY <1>15, <3>2, <3>3, <3>5
    <3>8. recorded'[j] <= After(recorded', j) + Limit
      BY <1>18, <3>2, <3>5, <3>6 DEF ReadsAreBounded
    <3>9. \A i \in Reads : mine'[p][i] <= unread[p]
      BY <1>2, <1>18 DEF ReadsAreBounded
    <3>10. mine'[p] \in [Keys -> Nat \cup {Unrecorded}] /\ mine'[p][j] \in Nat
      BY <1>3, <3>3, <3>5
    <3>. HIDE DEF j
    <3>11. Behind(j[1], mine'[p], j[2])
      BY <3>3, <3>5
    <3>12. mine'[p][j] <= unread[p] /\ mine'[p][j] <= After(mine'[p], j) + Limit /\ j \in Reads
      BY <3>2, <3>6, <3>7, <3>8, <3>9 DEF j
    <3>13. through(mine'[p], unread[p], j) = (After(mine'[p], j) + 1)..mine'[p][j]
      BY <1>2, <3>9, <3>10, <3>11, <3>12, AvailableIs, SMTT(20)
    <3>14. x = <<j, through(mine'[p], unread[p], j)>>
      BY <3>2 DEF j
    <3>. QED
      BY <3>5, <3>6, <3>7, <3>12, <3>13, <3>14
  <2>3. ASSUME NEW x \in handed'
        PROVE  /\ x[1] \in Reads /\ recorded'[x[1]] # Unrecorded
               /\ x = <<x[1], (After(recorded', x[1]) + 1)..recorded'[x[1]]>>
    BY <1>1, <1>5, <1>6, <2>1, <2>2
  <2>. QED
    BY <2>3 DEF HandedIsRecorded
<1>20. SuspensionsAreNoted'
  <2>1. ASSUME NEW q \in Passes, NEW c \in Branches, at'[q][c] = "suspended"
        PROVE  <<c, pos'[q][c]>> \in reached'[q]
    <3>1. CASE q = p /\ c = b
      <4>1. PICK run : GoesOn(p, b, run)
        BY <1>1, <1>5, <2>1, <3>1
      <4>2. run.notes = {<<b, run.pos>>}
        BY <1>6, <2>1, <3>1, <4>1 DEF Runs
      <4>. QED
        BY <1>6, <3>1, <4>1, <4>2
    <3>2. CASE q # p \/ c # b
      BY <1>4, <2>1, <3>2 DEF Memory, SuspensionsAreNoted
    <3>. QED
      BY <3>1, <3>2
  <2>. QED
    BY <2>1 DEF SuspensionsAreNoted
<1>21. NotedIsKnown'
  <2>1. ASSUME NEW q \in Passes, NEW j \in reached'[q], Kind(j) = "sleep"
        PROVE  mine'[q][j] # Unrecorded
    <3>1. ASSUME j \in reached[q]
          PROVE  mine'[q][j] # Unrecorded
      <4>1. mine[q][j] # Unrecorded /\ j \in Keys
        BY <2>1, <3>1 DEF Memory, NotedIsKnown, Types
      <4>2. q # p \/ j # k
        BY <1>2, <4>1
      <4>. QED
        BY <1>3, <4>1, <4>2
    <3>2. ASSUME q = p, NEW run, GoesOn(p, b, run), j \in run.notes
          PROVE  mine'[q][j] # Unrecorded
      <4>1. Runs(b, mine'[p], unread[p], pos[p][b], run)
        BY <1>6, <3>2
      <4>2. j = <<b, run.pos>> /\ run.at = "suspended"
        BY <3>2, <4>1 DEF Runs
      <4>. QED
        BY <2>1, <3>2, <4>1, <4>2 DEF Runs
    <3>3. ASSUME j = k, q = p
          PROVE  mine'[q][j] # Unrecorded
      BY <1>3, <3>3 DEF Unrecorded
    <3>. QED
      BY <1>1, <1>4, <1>5, <1>6, <3>1, <3>2, <3>3
  <2>. QED
    BY <2>1 DEF NotedIsKnown
<1>22. DeadlinesAreNoted'
  <2>1. ASSUME token > 0, NEW j \in Keys, Kind(j) = "sleep", mine'[p][j] > now
        PROVE  j \in reached'[p]
    <3>1. CASE j # k
      BY <1>2, <1>3, <1>4, <2>1, <3>1 DEF Memory, DeadlinesAreNoted
    <3>2. CASE j = k /\ at[p][b] = "cancelling" /\ Unwinds(p, b, k)
      BY <1>5, <2>1, <3>2
    <3>3. ASSUME j = k, NEW run, GoesOn(p, b, run)
          PROVE  j \in reached'[p]
      <4>1. Runs(b, mine'[p], unread[p], pos[p][b], run)
        BY <1>6, <3>3
      <4>2. ~ Answered(mine'[p], k)
        BY <1>2, <1>3, <2>1, <3>3 DEF Answered
      <4>3. run.pos \in Nat /\ run.pos >= pos[p][b] /\ Behind(b, mine'[p], run.pos)
        BY <4>1 DEF Runs
      <4>4. pos[p][b] >= 1
        BY <1>2, KeyParts
      <4>5. run.pos = pos[p][b]
        BY <1>2, <4>2, <4>3, <4>4 DEF Behind
      <4>6. mine'[p][k] # Unrecorded /\ k = <<b, run.pos>>
        BY <1>2, <1>3, <4>5 DEF Unrecorded
      <4>7. run.notes = {k}
        BY <2>1, <3>3, <4>1, <4>6 DEF Runs
      <4>. QED
        BY <1>6, <3>3, <4>7
    <3>. QED
      BY <1>1, <3>1, <3>2, <3>3
  <2>. QED
    BY <1>2, <2>1 DEF DeadlinesAreNoted
<1>. QED
  BY <1>8, <1>9, <1>11, <1>12, <1>18, <1>19, <1>20, <1>21, <1>22 DEF Memory

(* What cancelling does to a task, and what a body can end with. *)
LEMMA CancelledIs ==
  \A state : /\ state = "effect" => Cancelled(state) = "cancelled"
             /\ state = "writing" => Cancelled(state) = "cancelling"
             /\ state \notin {"effect", "writing"} => Cancelled(state) = state
<1>. TAKE state
<1>1. state = "effect" => Cancelled(state) = "cancelled"
  BY Zenon DEF Cancelled
<1>2. state = "writing" => Cancelled(state) = "cancelling"
  BY Zenon DEF Cancelled
<1>3. state \notin {"effect", "writing"} => Cancelled(state) = state
  BY Zenon DEF Cancelled
<1>. QED
  BY <1>1, <1>2, <1>3

LEMMA CancelTasksIs ==
  ASSUME Types, NEW p \in Passes, CancelTasks(p)
  PROVE  /\ \A q \in Passes, b \in Branches : q # p => at'[q][b] = at[q][b]
         /\ \A b \in Branches :
              /\ at[p][b] = "effect" => at'[p][b] = "cancelled"
              /\ at[p][b] = "writing" => at'[p][b] = "cancelling"
              /\ at[p][b] \notin {"effect", "writing"} => at'[p][b] = at[p][b]
         /\ at' \in [Passes -> [Branches -> Finished \cup {"effect", "writing", "cancelling"}]]
<1>1. \A b \in Branches : at'[p][b] = Cancelled(at[p][b])
  BY DEF CancelTasks, Types
<1>2. \A q \in Passes, b \in Branches : q # p => at'[q][b] = at[q][b]
  BY DEF CancelTasks, Types
<1>3. \A b \in Branches : Cancelled(at[p][b]) \in Finished \cup {"effect", "writing", "cancelling"}
  <2>1. \A b \in Branches : at[p][b] \in Finished \cup {"effect", "writing", "cancelling"}
    BY DEF Types
  <2>. QED
    BY <2>1, CancelledIs DEF Finished
<1>4. at' \in [Passes -> [Branches -> Finished \cup {"effect", "writing", "cancelling"}]]
  BY <1>3 DEF CancelTasks, Types
<1>. QED
  BY <1>1, <1>2, <1>4, CancelledIs

(* A body that returns has returned in every task. *)
LEMMA EndsAre ==
  ASSUME Types, NEW p \in Passes, NEW end \in Ends(p)
  PROVE  /\ end \in {"returned", "suspended", "failed", "lost", "cancelled"}
         /\ how # "gather" => Unfinished(p) = {}
         /\ end = "returned" => /\ Unfinished(p) = {}
                                /\ \A b \in Branches : at[p][b] # "cancelled"
<1>. DEFINE came == {at[p][b] : b \in Branches} \cup {"returned"}
<1>0. how \in {"group", "gather", "capture"}
  BY CombinatorsKnown DEF Types
<1>1. /\ end \in Finished
      /\ \/ how = "group" /\ Unfinished(p) = {} /\ \A other \in came : Gravity[other] <= Gravity[end]
         \/ how = "gather" /\ (end = "returned" => came = {"returned"})
         \/ /\ how = "capture" /\ Unfinished(p) = {}
            /\ end = IF "cancelled" \in came THEN "cancelled" ELSE "returned"
  BY DEF Ends
<1>2. ASSUME end = "returned", how = "group", NEW b \in Branches, at[p][b] = "cancelled"
      PROVE  FALSE
  <2>1. "cancelled" \in came
    BY <1>2
  <2>2. Gravity["cancelled"] <= Gravity["returned"]
    BY <1>1, <1>2, <2>1
  <2>3. Gravity["cancelled"] = 1 /\ Gravity["returned"] = 0
    BY DEF Gravity
  <2>. QED
    BY <2>2, <2>3
<1>3. ASSUME end = "returned", how = "gather"
      PROVE  Unfinished(p) = {} /\ \A b \in Branches : at[p][b] # "cancelled"
  <2>1. \A b \in Branches : at[p][b] = "returned"
    BY <1>1, <1>3
  <2>. QED
    BY <2>1 DEF Unfinished, Finished
<1>4. ASSUME end = "returned", how = "capture"
      PROVE  \A b \in Branches : at[p][b] # "cancelled"
  BY <1>1, <1>4
<1>. QED
  BY <1>0, <1>1, <1>2, <1>3, <1>4 DEF Finished

(* What a pass reports, from what its body ended with. *)
EndsWith(p, end) ==
  /\ outcome[p] = "running"
  /\ \A q \in Passes : q # p => outcome'[q] = outcome[q] /\ due'[q] = due[q]
  /\ end = "returned" =>
       outcome'[p] = (IF reached[p] # {} THEN "swallowed" ELSE "completed") /\ due'[p] = 0
  /\ end = "suspended" => outcome'[p] = StoppedAt(p) /\ due'[p] = Earliest(Deadlines(p))
  /\ end \notin {"returned", "suspended"} => outcome'[p] = end /\ due'[p] = 0
  /\ outcome' = [outcome EXCEPT ![p] = outcome'[p]] /\ due' = [due EXCEPT ![p] = due'[p]]
  /\ UNCHANGED <<now, store, how, tasks, history>>

LEMMA EndDoes ==
  ASSUME Types, NEW p \in Passes, End(p)
  PROVE  \E end \in Ends(p) : EndsWith(p, end)
<1>1. PICK end \in Ends(p) :
        /\ outcome' = [outcome EXCEPT ![p] =
             CASE end = "returned" -> Returns(p)
               [] end = "suspended" -> StoppedAt(p)
               [] OTHER -> end]
        /\ due' = [due EXCEPT ![p] = IF end = "suspended" THEN Earliest(Deadlines(p)) ELSE 0]
  BY DEF End
<1>. DEFINE o == CASE end = "returned" -> Returns(p)
                   [] end = "suspended" -> StoppedAt(p)
                   [] OTHER -> end
<1>2. /\ end = "returned" => o = Returns(p)
      /\ end = "suspended" => o = StoppedAt(p)
      /\ end \notin {"returned", "suspended"} => o = end
  <2>1. end = "returned" => o = Returns(p)
    BY Zenon
  <2>2. end = "suspended" => o = StoppedAt(p)
    BY Zenon
  <2>3. end \notin {"returned", "suspended"} => o = end
    BY Zenon
  <2>. QED
    BY <2>1, <2>2, <2>3
<1>3. outcome' = [outcome EXCEPT ![p] = o]
  BY <1>1
<1>. HIDE DEF o
<1>4. outcome'[p] = o /\ \A q \in Passes : q # p => outcome'[q] = outcome[q]
  BY <1>3 DEF Types
<1>5. /\ due'[p] = IF end = "suspended" THEN Earliest(Deadlines(p)) ELSE 0
      /\ \A q \in Passes : q # p => due'[q] = due[q]
      /\ due' = [due EXCEPT ![p] = due'[p]]
  BY <1>1 DEF Types
<1>6. outcome' = [outcome EXCEPT ![p] = outcome'[p]]
  BY <1>3, <1>4
<1>7. outcome[p] = "running" /\ UNCHANGED <<now, store, how, tasks, history>>
  BY DEF End
<1>. QED
  BY <1>2, <1>4, <1>5, <1>6, <1>7 DEF Returns, EndsWith

(* The steps that write nothing: of a task ... *)
LEMMA CalmTasks ==
  ASSUME Types, NEW p \in Passes, NEW b \in Branches,
         EffectReturns(p, b) \/ EffectFails(p, b) \/ StoreFails(p, b) \/ (Lands(p, b) /\ p # token)
  PROVE  Calm
<1>1. CASE EffectReturns(p, b) \/ EffectFails(p, b) \/ StoreFails(p, b)
  <2>1. /\ at[p][b] \in {"effect", "writing", "cancelling"}
        /\ \E state \in {"writing", "failed", "cancelled"} : at' = [at EXCEPT ![p][b] = state]
        /\ UNCHANGED <<now, store, how, mine, unread, pos, offer, reached, handed>>
    <3>1. CASE EffectReturns(p, b)
      BY <3>1 DEF EffectReturns
    <3>2. CASE EffectFails(p, b)
      BY <3>2 DEF EffectFails, history
    <3>3. CASE StoreFails(p, b)
      <4>1. \E state \in {"failed", "cancelled"} : at' = [at EXCEPT ![p][b] = state]
        BY <3>3 DEF StoreFails, Types
      <4>. QED
        BY <3>3, <4>1 DEF StoreFails
    <3>. QED
      BY <1>1, <3>1, <3>2, <3>3
  <2>2. PICK state \in {"writing", "failed", "cancelled"} : at' = [at EXCEPT ![p][b] = state]
    BY <2>1
  <2>3. \A q \in Passes, c \in Branches :
          at'[q][c] = IF q = p /\ c = b THEN state ELSE at[q][c]
    BY <2>2 DEF Types
  <2>. QED
    BY <2>1, <2>3 DEF Calm
<1>2. CASE Lands(p, b) /\ p # token
  <2>1. /\ at[p][b] \in {"writing", "cancelling"}
        /\ at' = [at EXCEPT ![p][b] = IF @ = "writing" THEN "lost" ELSE "cancelled"]
        /\ UNCHANGED <<now, store, how, mine, unread, pos, offer, reached, handed>>
    BY <1>2 DEF Lands, store
  <2>. QED
    BY <2>1 DEF Calm, Types
<1>. QED
  BY <1>1, <1>2

(* ... and of a pass. *)
LEMMA CalmPasses ==
  ASSUME Types, NEW p \in Passes, Pass(p)
  PROVE  Calm
<1>1. CASE Abort(p) \/ CancelPass(p)
  <2>1. CancelTasks(p) /\ UNCHANGED <<now, store, how, mine, unread, pos, offer, reached, handed>>
    BY <1>1 DEF Abort, CancelPass, history
  <2>2. \A q \in Passes, c \in Branches :
          \/ at'[q][c] \in {at[q][c], "cancelled"}
          \/ at[q][c] = "writing" /\ at'[q][c] = "cancelling"
    BY <2>1, CancelTasksIs
  <2>. QED
    BY <2>1, <2>2 DEF Calm
<1>2. CASE End(p)
  BY <1>2 DEF End, Calm, tasks, history
<1>3. CASE Crash(p)
  BY <1>3 DEF Crash, Calm, Types
<1>. QED
  BY <1>1, <1>2, <1>3 DEF Pass

(* The deadlines a pass noted are known, and it reports the earliest. *)
LEMMA EarliestIs ==
  ASSUME Types, Memory, NEW p \in Passes
  PROVE  /\ Earliest(Deadlines(p)) \in Nat
         /\ Deadlines(p) = {} => Earliest(Deadlines(p)) = 0
         /\ \A t \in Deadlines(p) : Earliest(Deadlines(p)) <= t
<1>. DEFINE D == Deadlines(p)
<1>1. D \in SUBSET Nat
  BY DEF Deadlines, Types, Memory, NotedIsKnown
<1>2. Earliest(D) = IF D = {} THEN 0 ELSE CHOOSE t \in D : \A u \in D : t <= u
  BY DEF Earliest
<1>. HIDE DEF D
<1>3. CASE D = {}
  BY <1>2, <1>3 DEF D
<1>4. CASE D # {}
  <2>1. \E t \in D : \A u \in D : t <= u
    BY <1>1, <1>4, LeastNatural
  <2>2. Earliest(D) \in D /\ \A u \in D : Earliest(D) <= u
    BY <1>2, <1>4, <2>1
  <2>. QED
    BY <1>1, <1>4, <2>2 DEF D
<1>. QED
  BY <1>3, <1>4

(* Every step keeps the types. *)
LEMMA TypesKept ==
  ASSUME Types, Memory, Next
  PROVE  Types'
<1>1. CASE Tick \/ Deliver
  BY <1>1, BoundsNatural DEF Types, Tick, Deliver, store, tasks, report, history
<1>2. ASSUME NEW k \in Keys, Supply(k)
      PROVE  Types'
  BY <1>2 DEF Types, Supply, tasks, report, history
<1>3. CASE Begin
  <2>1. PICK p \in Passes : \E run : Begins(p, run)
    BY <1>3, BeginDoes
  <2>2. PICK run : Begins(p, run)
    BY <2>1
  <2>3. ASSUME NEW b \in Branches
        PROVE  /\ run[b].pos \in Nat /\ run[b].offer \in Nat /\ run[b].notes \in SUBSET Keys
               /\ run[b].at \in Finished \cup {"effect", "writing", "cancelling"}
    BY <2>2 DEF Begins, Runs, Finished
  <2>4. UNION {run[b].notes : b \in Branches} \in SUBSET Keys
    BY <2>3
  <2>5. /\ token' \in 0..MaxPasses
        /\ mine' \in [Passes -> [Keys -> Nat \cup {Unrecorded}]] /\ unread' \in [Passes -> 0..MaxInbox]
    BY <2>2, BoundsNatural DEF Begins, Types, Passes
  <2>6. /\ pos' \in [Passes -> [Branches -> Nat]] /\ offer' \in [Passes -> [Branches -> Nat]]
        /\ at' \in [Passes -> [Branches -> Finished \cup {"effect", "writing", "cancelling"}]]
    BY <2>2, <2>3 DEF Begins, Types
  <2>7. reached' \in [Passes -> SUBSET Keys]
    BY <2>2, <2>4 DEF Begins, Types
  <2>8. outcome' \in [Passes -> {"none", "running", "completed", "swallowed", "sleeping",
                                 "blocked", "failed", "lost", "cancelled", "crashed"}]
    BY <2>2 DEF Begins, Types
  <2>. QED
    BY <2>2, <2>5, <2>6, <2>7, <2>8 DEF Begins, Types
<1>4. ASSUME NEW p \in Passes, NEW b \in Branches, EffectReturns(p, b) \/ EffectFails(p, b) \/ StoreFails(p, b)
      PROVE  Types'
  <2>1. at' \in [Passes -> [Branches -> Finished \cup {"effect", "writing", "cancelling"}]]
    <3>1. PICK state \in {"writing", "failed", "cancelled"} : at' = [at EXCEPT ![p][b] = state]
      <4>1. CASE EffectReturns(p, b) \/ EffectFails(p, b)
        BY <4>1 DEF EffectReturns, EffectFails
      <4>2. CASE StoreFails(p, b)
        BY <4>2 DEF StoreFails, Types
      <4>. QED
        BY <1>4, <4>1, <4>2
    <3>. QED
      BY <3>1 DEF Types, Finished
  <2>2. effects' \in [Keys -> Nat] /\ unwritten' \in [Keys -> Nat]
    <3>1. <<b, pos[p][b]>> \in Keys
      BY <1>4 DEF EffectReturns, EffectFails, StoreFails, Memory, TasksFit
    <3>2. PICK k \in Keys : k = <<b, pos[p][b]>>
      BY <3>1
    <3>3. effects' = effects \/ effects' = [effects EXCEPT ![k] = effects[k] + 1]
      BY <1>4, <3>2 DEF EffectReturns, EffectFails, StoreFails, history
    <3>4. unwritten' = unwritten \/ unwritten' = [unwritten EXCEPT ![k] = unwritten[k] + 1]
      BY <1>4, <3>2 DEF EffectReturns, EffectFails, StoreFails, history
    <3>5. effects[k] + 1 \in Nat /\ unwritten[k] + 1 \in Nat
      BY DEF Types
    <3>. QED
      BY ONLY <3>3, <3>4, <3>5, Types, ZenonT(30) DEF Types
  <2>3. UNCHANGED <<now, store, how, mine, unread, pos, offer, reached, report>>
    BY <1>4 DEF EffectReturns, EffectFails, StoreFails
  <2>. QED
    BY <2>1, <2>2, <2>3 DEF Types, store, report
<1>5. ASSUME NEW p \in Passes, NEW b \in Branches, Lands(p, b), p # token
      PROVE  Types'
  <2>1. at' \in [Passes -> [Branches -> Finished \cup {"effect", "writing", "cancelling"}]]
    <3>1. at' = [at EXCEPT ![p][b] = IF @ = "writing" THEN "lost" ELSE "cancelled"]
      BY <1>5 DEF Lands
    <3>. QED
      BY <3>1 DEF Types, Finished
  <2>2. unwritten' \in [Keys -> Nat]
    <3>1. <<b, pos[p][b]>> \in Keys
      BY <1>5 DEF Lands, Memory, TasksFit
    <3>2. unwritten' = [unwritten EXCEPT ![<<b, pos[p][b]>>] = @ + 1]
      BY <1>5, <3>1 DEF Lands, Types
    <3>. QED
      BY <3>1, <3>2 DEF Types
  <2>3. UNCHANGED <<now, recorded, inbox, token, how, mine, unread, pos, offer, reached, report, effects>>
    BY <1>5 DEF Lands
  <2>. QED
    BY <2>1, <2>2, <2>3 DEF Types, report
<1>6. ASSUME NEW p \in Passes, NEW b \in Branches, Lands(p, b), p = token
      PROVE  Types'
  <2>1. PICK k \in Keys, v \in Nat : IsWritten(p, b, k, v)
    BY <1>6, LandsDoes
  <2>. USE DEF IsWritten
  <2>2. recorded' \in [Keys -> Nat \cup {Unrecorded}] /\ mine' \in [Passes -> [Keys -> Nat \cup {Unrecorded}]]
    BY <2>1 DEF Taken, Types
  <2>3. /\ pos' \in [Passes -> [Branches -> Nat]] /\ offer' \in [Passes -> [Branches -> Nat]]
        /\ at' \in [Passes -> [Branches -> Finished \cup {"effect", "writing", "cancelling"}]]
        /\ reached' \in [Passes -> SUBSET Keys]
    <3>1. ASSUME NEW run, GoesOn(p, b, run)
          PROVE  /\ run.pos \in Nat /\ run.offer \in Nat /\ run.notes \in SUBSET Keys
                 /\ run.at \in Finished \cup {"effect", "writing", "cancelling"}
      BY <3>1 DEF GoesOn, Runs, Finished
    <3>2. CASE \E run : GoesOn(p, b, run)
      <4>1. PICK run : GoesOn(p, b, run)
        BY <3>2
      <4>. QED
        BY <3>1, <4>1 DEF GoesOn, Types
    <3>3. CASE Unwinds(p, b, k)
      BY <3>3 DEF Unwinds, Types, Finished
    <3>. QED
      BY <2>1, <3>2, <3>3
  <2>. QED
    BY <2>1, <2>2, <2>3 DEF Taken, Types, report
<1>7. ASSUME NEW p \in Passes, Abort(p) \/ CancelPass(p)
      PROVE  Types'
  <2>1. CancelTasks(p) /\ UNCHANGED <<now, store, how, mine, unread, pos, offer, reached, report, history>>
    BY <1>7 DEF Abort, CancelPass
  <2>. QED
    BY <2>1, CancelTasksIs DEF Types, store, report, history
<1>8. ASSUME NEW p \in Passes, End(p)
      PROVE  Types'
  <2>1. PICK end \in Ends(p) : EndsWith(p, end)
    BY <1>8, EndDoes
  <2>. USE DEF EndsWith
  <2>2. outcome'[p] \in {"completed", "swallowed", "sleeping", "blocked", "failed", "lost", "cancelled"}
    BY <2>1, EndsAre DEF StoppedAt
  <2>3. due'[p] \in Nat
    BY <2>1, EarliestIs
  <2>. QED
    BY <2>1, <2>2, <2>3, ZenonT(30) DEF Types, store, tasks, history
<1>9. ASSUME NEW p \in Passes, Crash(p)
      PROVE  Types'
  <2>1. at' \in [Passes -> [Branches -> Finished \cup {"effect", "writing", "cancelling"}]]
    BY <1>9 DEF Crash, Types, Finished
  <2>2. outcome' \in [Passes -> {"none", "running", "completed", "swallowed", "sleeping",
                                 "blocked", "failed", "lost", "cancelled", "crashed"}]
    BY <1>9 DEF Crash, Types
  <2>3. unwritten' \in [Keys -> Nat]
    BY <1>9 DEF Crash, Types
  <2>. QED
    BY <1>9, <2>1, <2>2, <2>3 DEF Crash, Types, store
<1>. QED
  BY <1>1, <1>2, <1>3, <1>4, <1>5, <1>6, <1>7, <1>8, <1>9 DEF Next, Task, Pass

(* A pass that is over stays over, and its tasks with it. *)
LEMMA OversKept ==
  ASSUME Types, Memory, NotBegun, DueIsOfSleepers, EndedIsOver, CompletedOwesNothing, Next
  PROVE  NotBegun' /\ DueIsOfSleepers' /\ EndedIsOver' /\ CompletedOwesNothing'
<1>. USE DEF NotBegun, DueIsOfSleepers, EndedIsOver, CompletedOwesNothing
<1>1. CASE Tick \/ Deliver \/ \E k \in Keys : Supply(k)
  <2>1. UNCHANGED <<token, how, tasks, report>>
    BY <1>1 DEF Tick, Deliver, Supply, store
  <2>. QED
    BY <2>1 DEF tasks, report, Unfinished
<1>2. CASE Begin
  <2>1. PICK p \in Passes : \E run : Begins(p, run)
    BY <1>2, BeginDoes
  <2>2. PICK run : Begins(p, run)
    BY <2>1
  <2>3. /\ p = token + 1 /\ token' = p /\ token \in Nat /\ outcome'[p] = "running" /\ due'[p] = 0
        /\ UNCHANGED <<how, due>>
        /\ \A q \in Passes : q # p =>
             outcome'[q] = outcome[q] /\ reached'[q] = reached[q] /\ at'[q] = at[q] /\ pos'[q] = pos[q]
    BY <2>2 DEF Begins, Types
  <2>4. \A q \in Passes : q > token' => q > token /\ q # p
    BY <2>3 DEF Passes
  <2>5. NotBegun'
    <3>1. ASSUME NEW q \in Passes, q > token'
          PROVE  outcome'[q] = outcome[q] /\ reached'[q] = reached[q] /\ at'[q] = at[q] /\ pos'[q] = pos[q]
      BY <2>3, <2>4, <3>1
    <3>2. ASSUME NEW q \in Passes, q > token'
          PROVE  /\ outcome'[q] = "none" /\ due'[q] = 0 /\ reached'[q] = {}
                 /\ \A b \in Branches : at'[q][b] = "returned" /\ pos'[q][b] = 1
      <4>1. q > token /\ q # p
        BY <2>4, <3>2
      <4>2. /\ outcome[q] = "none" /\ due[q] = 0 /\ reached[q] = {}
            /\ \A b \in Branches : at[q][b] = "returned" /\ pos[q][b] = 1
        BY ONLY NotBegun, <4>1 DEF NotBegun
      <4>3. outcome'[q] = outcome[q] /\ due'[q] = due[q] /\ reached'[q] = reached[q]
            /\ at'[q] = at[q] /\ pos'[q] = pos[q]
        BY ONLY <4>1, <2>3
      <4>. QED
        BY ONLY <4>2, <4>3
    <3>. QED
      BY <3>2
  <2>6. DueIsOfSleepers'
    BY <2>3
  <2>7. EndedIsOver'
    BY <2>3 DEF Unfinished
  <2>8. CompletedOwesNothing'
    <3>1. ASSUME NEW q \in Passes, outcome'[q] = "completed", NEW b \in Branches
          PROVE  at'[q][b] \notin {"suspended", "cancelled"}
      <4>1. q # p
        BY ONLY <2>3, <3>1
      <4>2. outcome[q] = "completed" /\ at'[q] = at[q]
        BY ONLY <2>3, <3>1, <4>1
      <4>3. at[q][b] \notin {"suspended", "cancelled"}
        BY ONLY CompletedOwesNothing, <4>2, q \in Passes, b \in Branches DEF CompletedOwesNothing
      <4>. QED
        BY ONLY <4>2, <4>3
    <3>. QED
      BY ONLY <3>1 DEF CompletedOwesNothing
  <2>. QED
    BY <2>5, <2>6, <2>7, <2>8
<1>3. ASSUME NEW p \in Passes, NEW b \in Branches, Task(p, b)
      PROVE  NotBegun' /\ DueIsOfSleepers' /\ EndedIsOver' /\ CompletedOwesNothing'
  <2>1. /\ at[p][b] \in {"effect", "writing", "cancelling"} /\ UNCHANGED <<token, how, report>>
        /\ \A q \in Passes : q # p => reached'[q] = reached[q] /\ at'[q] = at[q] /\ pos'[q] = pos[q]
    <3>1. CASE Lands(p, b) /\ p = token
      <4>1. PICK k \in Keys, v \in Nat : IsWritten(p, b, k, v)
        BY <3>1, LandsDoes
      <4>. USE DEF IsWritten
      <4>2. \A q \in Passes : q # p => reached'[q] = reached[q] /\ at'[q] = at[q] /\ pos'[q] = pos[q]
        BY <4>1 DEF GoesOn, Unwinds, Types
      <4>. QED
        BY <3>1, <4>2 DEF Lands
    <3>2. CASE Lands(p, b) /\ p # token
      BY <3>2 DEF Lands, Types
    <3>3. CASE EffectReturns(p, b) \/ EffectFails(p, b) \/ StoreFails(p, b)
      BY <3>3 DEF EffectReturns, EffectFails, StoreFails, Types, store
    <3>. QED
      BY <1>3, <3>1, <3>2, <3>3 DEF Task
  <2>2. p <= token /\ b \in Unfinished(p)
    BY <2>1 DEF Memory, TasksFit, Unfinished, Finished
  <2>3. outcome[p] # "completed"
    BY <2>2
  <2>4. ~ (p > token)
    BY <2>2, BoundsNatural DEF Types, Passes
  <2>5. NotBegun' /\ DueIsOfSleepers'
    BY <2>1, <2>4 DEF report
  <2>6. EndedIsOver'
    BY <2>1, <2>2 DEF report, Unfinished
  <2>7. CompletedOwesNothing'
    BY <2>1, <2>3 DEF report
  <2>. QED
    BY <2>5, <2>6, <2>7
<1>4. ASSUME NEW p \in Passes, Abort(p) \/ CancelPass(p)
      PROVE  NotBegun' /\ DueIsOfSleepers' /\ EndedIsOver' /\ CompletedOwesNothing'
  <2>1. /\ CancelTasks(p) /\ outcome[p] = "running"
        /\ UNCHANGED <<token, how, pos, reached, report>>
    BY <1>4 DEF Abort, CancelPass, store
  <2>2. \A q \in Passes, b \in Branches : q # p => at'[q][b] = at[q][b]
    BY <2>1, CancelTasksIs
  <2>3. NotBegun' /\ DueIsOfSleepers'
    BY <2>1, <2>2 DEF report
  <2>4. EndedIsOver'
    BY <2>1, <2>2 DEF report, Unfinished
  <2>5. CompletedOwesNothing'
    BY <2>1, <2>2 DEF report
  <2>. QED
    BY <2>3, <2>4, <2>5
<1>5. ASSUME NEW p \in Passes, End(p)
      PROVE  NotBegun' /\ DueIsOfSleepers' /\ EndedIsOver' /\ CompletedOwesNothing'
  <2>1. PICK end \in Ends(p) : EndsWith(p, end)
    BY <1>5, EndDoes
  <2>. USE DEF EndsWith
  <2>2. UNCHANGED <<token, how, at, pos, reached>>
    BY <2>1 DEF store, tasks
  <2>3. NotBegun'
    BY <2>1, <2>2
  <2>4. DueIsOfSleepers'
    <3>1. due'[p] # 0 => outcome'[p] = "sleeping"
      BY <2>1, EarliestIs DEF StoppedAt
    <3>. QED
      BY <2>1, <3>1
  <2>5. outcome'[p] = "completed" => end = "returned" /\ reached[p] = {}
    BY <2>1, EndsAre DEF StoppedAt
  <2>6. EndedIsOver'
    <3>1. how # "gather" \/ outcome'[p] = "completed" => Unfinished(p) = {}
      BY <2>5, EndsAre
    <3>2. \A q \in Passes : Unfinished(q)' = Unfinished(q)
      BY <2>2 DEF Unfinished
    <3>. QED
      BY <2>1, <2>2, <3>1, <3>2
  <2>7. CompletedOwesNothing'
    <3>1. ASSUME outcome'[p] = "completed", NEW b \in Branches
          PROVE  at[p][b] \notin {"suspended", "cancelled"}
      <4>1. end = "returned" /\ reached[p] = {}
        BY <2>5, <3>1
      <4>2. at[p][b] # "cancelled"
        BY <4>1, EndsAre
      <4>3. at[p][b] # "suspended"
        BY <4>1 DEF Memory, SuspensionsAreNoted
      <4>. QED
        BY <4>2, <4>3
    <3>. QED
      BY <2>1, <2>2, <3>1
  <2>. QED
    BY <2>3, <2>4, <2>6, <2>7
<1>6. ASSUME NEW p \in Passes, Crash(p)
      PROVE  NotBegun' /\ DueIsOfSleepers' /\ EndedIsOver' /\ CompletedOwesNothing'
  <2>1. /\ Unfinished(p) # {} /\ UNCHANGED <<token, how, pos, reached, due>>
        /\ \A b \in Branches : at'[p][b] = "cancelled"
        /\ \A q \in Passes : q # p => at'[q] = at[q] /\ outcome'[q] = outcome[q]
        /\ outcome'[p] = IF outcome[p] = "running" THEN "crashed" ELSE outcome[p]
    BY <1>6 DEF Crash, Types, store
  <2>2. p <= token
    <3>1. PICK b \in Branches : at[p][b] \notin Finished
      BY <2>1 DEF Unfinished
    <3>2. at[p][b] \in {"effect", "writing", "cancelling"}
      BY <3>1 DEF Types
    <3>. QED
      BY <3>2 DEF Memory, TasksFit
  <2>3. ~ (p > token)
    BY <2>2, BoundsNatural DEF Types, Passes
  <2>4. outcome[p] # "completed" /\ (outcome[p] = "running" => due[p] = 0)
    BY <2>1
  <2>5. Unfinished(p)' = {} /\ \A q \in Passes : q # p => Unfinished(q)' = Unfinished(q)
    BY <2>1 DEF Unfinished, Finished
  <2>6. NotBegun' /\ DueIsOfSleepers'
    BY <2>1, <2>3, <2>4
  <2>7. EndedIsOver'
    BY <2>1, <2>5
  <2>8. CompletedOwesNothing'
    BY <2>1, <2>4
  <2>. QED
    BY <2>6, <2>7, <2>8
<1>. QED
  BY <1>1, <1>2, <1>3, <1>4, <1>5, <1>6 DEF Next, Pass

(* A pass that stopped reported every deadline, and nobody records one      *)
(* until the next.                                                          *)
LEMMA DeadlinesKept ==
  ASSUME Types, Memory, EndedIsOver, how # "gather", EveryDeadlineIsReported, Next
  PROVE  EveryDeadlineIsReported'
<1>. USE DEF EveryDeadlineIsReported
<1>0. token > 0 => token \in Passes
  BY BoundsNatural DEF Types, Passes
<1>1. CASE Tick \/ Deliver
  <2>1. UNCHANGED <<token, report, recorded>> /\ now \in Nat /\ now' \in Nat /\ now <= now'
    BY <1>1, BoundsNatural DEF Tick, Deliver, store, Types
  <2>2. \A k \in Keys : recorded[k] \in Int
    BY DEF Types, Unrecorded
  <2>3. \A k \in Keys : recorded'[k] > now' => recorded[k] > now
    BY <2>1, <2>2
  <2>. QED
    BY <2>1, <2>3 DEF report
<1>2. ASSUME NEW k \in Keys, Supply(k)
      PROVE  EveryDeadlineIsReported'
  <2>1. /\ UNCHANGED <<token, report, now>> /\ Kind(k) = "await"
        /\ \A j \in Keys : j # k => recorded'[j] = recorded[j]
    BY <1>2 DEF Supply, Types
  <2>. QED
    BY <2>1 DEF report
<1>3. CASE Begin
  <2>1. PICK p \in Passes : \E run : Begins(p, run)
    BY <1>3, BeginDoes
  <2>2. outcome'[token'] = "running"
    BY <2>1 DEF Begins, Types
  <2>. QED
    BY <2>2
<1>4. ASSUME NEW p \in Passes, NEW b \in Branches, Task(p, b)
      PROVE  EveryDeadlineIsReported'
  <2>1. UNCHANGED <<now, token, report>> /\ (p # token => recorded' = recorded)
    BY <1>4 DEF Task, EffectReturns, EffectFails, StoreFails, Lands, store
  <2>2. at[p][b] \in {"effect", "writing", "cancelling"}
    BY <1>4 DEF Task, EffectReturns, EffectFails, StoreFails, Lands
  <2>3. Unfinished(p) # {}
    BY <2>2 DEF Unfinished, Finished
  <2>4. outcome[p] \notin {"sleeping", "blocked"}
    BY <2>3 DEF EndedIsOver
  <2>. QED
    BY <1>0, <2>1, <2>4 DEF report
<1>5. ASSUME NEW p \in Passes, Abort(p) \/ CancelPass(p)
      PROVE  EveryDeadlineIsReported'
  BY <1>5 DEF Abort, CancelPass, store, report
<1>6. ASSUME NEW p \in Passes, End(p)
      PROVE  EveryDeadlineIsReported'
  <2>1. PICK end \in Ends(p) : EndsWith(p, end)
    BY <1>6, EndDoes
  <2>. USE DEF EndsWith
  <2>2. UNCHANGED <<now, token, recorded>>
    BY <2>1 DEF store
  <2>3. CASE p # token
    BY <1>0, <2>1, <2>2, <2>3
  <2>4. ASSUME p = token, outcome'[p] \in {"sleeping", "blocked"},
               NEW k \in Keys, Kind(k) = "sleep", recorded[k] > now
        PROVE  outcome'[p] = "sleeping" /\ due'[p] <= recorded[k]
    <3>1. end = "suspended"
      BY <2>1, <2>4, EndsAre
    <3>2. token > 0
      BY <2>4, BoundsNatural DEF Passes
    <3>3. mine[p][k] = recorded[k]
      BY <2>4, <3>2 DEF Memory, NewestKnows
    <3>4. recorded[k] \in Deadlines(p)
      BY <2>4, <3>2, <3>3 DEF Memory, DeadlinesAreNoted, Deadlines
    <3>5. outcome'[p] = "sleeping"
      BY <2>1, <3>1, <3>4 DEF StoppedAt
    <3>6. Earliest(Deadlines(p)) <= recorded[k]
      BY <3>4, EarliestIs
    <3>. QED
      BY <2>1, <3>1, <3>5, <3>6
  <2>. QED
    BY <2>2, <2>3, <2>4
<1>7. ASSUME NEW p \in Passes, Crash(p)
      PROVE  EveryDeadlineIsReported'
  <2>1. /\ UNCHANGED <<now, store, due>>
        /\ \A q \in Passes : outcome'[q] \in {"sleeping", "blocked"} => outcome'[q] = outcome[q]
    BY <1>7 DEF Crash, Types
  <2>. QED
    BY <1>0, <2>1 DEF store
<1>. QED
  BY <1>1, <1>2, <1>3, <1>4, <1>5, <1>6, <1>7 DEF Next, Pass

WritersOf(k) == {p \in Passes : Writing(p, k)}

Held(k) == IF recorded[k] = Unrecorded THEN 0 ELSE 1

Paid(k) == effects[k] <= unwritten[k] + Cardinality(WritersOf(k)) + Held(k)

(* There are as many writers of a key as passes at the most. *)
LEMMA WritersCount ==
  ASSUME NEW S \in SUBSET Passes, NEW T \in SUBSET Passes, NEW p \in Passes, S \ {p} \subseteq T
  PROVE  /\ Cardinality(S) \in Nat /\ Cardinality(T) \in Nat
         /\ Cardinality(S) <= Cardinality(T) + 1
         /\ S \subseteq T => Cardinality(S) <= Cardinality(T)
         /\ T = S \cup {p} /\ p \notin S => Cardinality(T) = Cardinality(S) + 1
<1>0. IsFiniteSet(Passes)
  <2>1. 1 \in Int /\ MaxPasses \in Int
    BY BoundsNatural
  <2>2. IsFiniteSet(1..MaxPasses)
    BY ONLY <2>1, FS_Interval
  <2>. QED
    BY <2>2 DEF Passes
<1>1. IsFiniteSet(S) /\ IsFiniteSet(T) /\ IsFiniteSet(T \cup {p})
  BY <1>0, FS_Subset, FS_AddElement
<1>2. Cardinality(S) \in Nat /\ Cardinality(T) \in Nat /\ Cardinality(T \cup {p}) \in Nat
  BY <1>1, FS_CardinalityType
<1>3. Cardinality(T \cup {p}) <= Cardinality(T) + 1
  BY <1>1, <1>2, FS_AddElement
<1>4. Cardinality(S) <= Cardinality(T \cup {p})
  BY <1>1, FS_Subset
<1>5. S \subseteq T => Cardinality(S) <= Cardinality(T)
  BY <1>1, FS_Subset
<1>6. T = S \cup {p} /\ p \notin S => Cardinality(T) = Cardinality(S) + 1
  BY <1>1, FS_AddElement
<1>. QED
  BY <1>2, <1>3, <1>4, <1>5, <1>6

(* What a step may do at a key without a repeat of its own. *)
Settles(k) ==
  /\ effects'[k] = effects[k] /\ unwritten'[k] >= unwritten[k]
  /\ recorded[k] # Unrecorded => recorded'[k] # Unrecorded
  /\ \/ WritersOf(k) \subseteq WritersOf(k)'
     \/ /\ \E p \in Passes : WritersOf(k) \ {p} \subseteq WritersOf(k)'
        /\ \/ unwritten'[k] >= unwritten[k] + 1
           \/ recorded[k] = Unrecorded /\ recorded'[k] # Unrecorded

(* Such a step keeps the accounts of the key. *)
LEMMA SettlesIsPaid ==
  ASSUME Types, Types', NEW k \in Keys, Paid(k), Settles(k)
  PROVE  Paid(k)'
<1>1. WritersOf(k) \in SUBSET Passes /\ WritersOf(k)' \in SUBSET Passes
  BY DEF WritersOf
<1>2. /\ effects[k] \in Nat /\ unwritten[k] \in Nat /\ unwritten'[k] \in Nat
      /\ Held(k) \in {0, 1} /\ Held(k)' \in {0, 1}
      /\ Held(k) = 1 => Held(k)' = 1
      /\ recorded[k] = Unrecorded /\ recorded'[k] # Unrecorded => Held(k) = 0 /\ Held(k)' = 1
  BY DEF Types, Held, Settles
<1>3. CASE Passes = {}
  <2>1. WritersOf(k) = {} /\ WritersOf(k)' = {}
    BY <1>1, <1>3
  <2>2. Cardinality({}) = 0
    BY FS_EmptySet
  <2>. QED
    BY <1>2, <1>3, <2>1, <2>2 DEF Paid, Settles
<1>4. ASSUME NEW p \in Passes
      PROVE  Paid(k)'
  <2>. DEFINE c == Cardinality(WritersOf(k))
              d == Cardinality(WritersOf(k)')
  <2>1. CASE WritersOf(k) \subseteq WritersOf(k)'
    <3>1. c \in Nat /\ d \in Nat /\ c <= d
      BY <1>1, <1>4, <2>1, WritersCount
    <3>. HIDE DEF c, d
    <3>2. effects[k] <= unwritten[k] + c + Held(k) /\ effects'[k] = effects[k] /\ unwritten'[k] >= unwritten[k]
      BY DEF Paid, Settles, c
    <3>3. effects'[k] <= unwritten'[k] + d + Held(k)'
      BY <1>2, <3>1, <3>2
    <3>. QED
      BY <3>3 DEF Paid, d
  <2>2. ASSUME NEW q \in Passes, WritersOf(k) \ {q} \subseteq WritersOf(k)',
               \/ unwritten'[k] >= unwritten[k] + 1
               \/ recorded[k] = Unrecorded /\ recorded'[k] # Unrecorded
        PROVE  Paid(k)'
    <3>1. c \in Nat /\ d \in Nat /\ c <= d + 1
      BY <1>1, <2>2, WritersCount
    <3>. HIDE DEF c, d
    <3>2. effects[k] <= unwritten[k] + c + Held(k) /\ effects'[k] = effects[k] /\ unwritten'[k] >= unwritten[k]
      BY DEF Paid, Settles, c
    <3>3. effects'[k] <= unwritten'[k] + d + Held(k)'
      BY <1>2, <2>2, <3>1, <3>2
    <3>. QED
      BY <3>3 DEF Paid, d
  <2>. QED
    BY <2>1, <2>2 DEF Settles
<1>. QED
  BY <1>3, <1>4

(* Every step settles every key, but for the one that performs the effect. *)
LEMMA EffectsKept ==
  ASSUME Types, Types', Memory, NotBegun, EffectsOutliveCancellation, Next
  PROVE  EffectsOutliveCancellation'
<1>0. SUFFICES ASSUME NEW k \in Keys, Kind(k) = "step"
               PROVE  Paid(k)'
  BY DEF EffectsOutliveCancellation, Paid, WritersOf, Held
<1>. DEFINE c == k[1]
            i == k[2]
<1>01. c \in Branches /\ k = <<c, i>>
  BY KeyParts
<1>02. Paid(k)
  BY <1>0 DEF EffectsOutliveCancellation, Paid, WritersOf, Held
<1>03. effects[k] \in Nat /\ unwritten[k] \in Nat
  BY DEF Types
<1>1. CASE Tick \/ Deliver
  <2>1. UNCHANGED <<recorded, at, pos, effects, unwritten>>
    BY <1>1 DEF Tick, Deliver, store, tasks, history
  <2>2. Settles(k)
    BY <1>03, <2>1 DEF Settles, WritersOf, Writing
  <2>. QED
    BY <1>02, <2>2, SettlesIsPaid
<1>2. ASSUME NEW j \in Keys, Supply(j)
      PROVE  Paid(k)'
  <2>1. UNCHANGED <<at, pos, effects, unwritten>> /\ recorded'[k] = recorded[k]
    BY <1>0, <1>2 DEF Supply, tasks, history, Types
  <2>2. Settles(k)
    BY <1>03, <2>1 DEF Settles, WritersOf, Writing
  <2>. QED
    BY <1>02, <2>2, SettlesIsPaid
<1>3. CASE Begin
  <2>1. PICK p \in Passes : \E run : Begins(p, run)
    BY <1>3, BeginDoes
  <2>2. /\ p > token /\ UNCHANGED <<recorded, effects, unwritten>>
        /\ \A q \in Passes : q # p => at'[q] = at[q] /\ pos'[q] = pos[q]
    BY <2>1 DEF Begins, Types
  <2>3. at[p][c] = "returned"
    BY <1>01, <2>2 DEF NotBegun
  <2>4. WritersOf(k) \subseteq WritersOf(k)'
    BY <2>2, <2>3 DEF WritersOf, Writing
  <2>5. Settles(k)
    BY <1>03, <2>2, <2>4 DEF Settles
  <2>. QED
    BY <1>02, <2>5, SettlesIsPaid
<1>4. ASSUME NEW p \in Passes, NEW b \in Branches, EffectReturns(p, b)
      PROVE  Paid(k)'
  <2>. DEFINE j == <<b, pos[p][b]>>
  <2>1. /\ at[p][b] = "effect" /\ at'[p][b] = "writing" /\ UNCHANGED <<recorded, pos, unwritten>>
        /\ \A q \in Passes, a \in Branches : q # p \/ a # b => at'[q][a] = at[q][a]
        /\ k = j => effects'[k] = effects[k] + 1
        /\ k # j => effects'[k] = effects[k]
    <3>1. at[p][b] = "effect" /\ UNCHANGED <<recorded, pos, unwritten>>
      BY <1>4 DEF EffectReturns, store
    <3>2. /\ at'[p][b] = "writing"
          /\ \A q \in Passes, a \in Branches : q # p \/ a # b => at'[q][a] = at[q][a]
      BY <1>4 DEF EffectReturns, Types
    <3>3. j \in Keys
      BY <3>1 DEF Memory, TasksFit
    <3>4. effects' = [effects EXCEPT ![j] = effects[j] + 1]
      BY <1>4 DEF EffectReturns
    <3>. HIDE DEF j
    <3>5. effects'[k] = IF k = j THEN effects[k] + 1 ELSE effects[k]
      BY <3>3, <3>4 DEF Types
    <3>. QED
      BY <3>1, <3>2, <3>5
  <2>2. CASE k = j
    <3>1. c = b /\ i = pos[p][b]
      BY <2>2
    <3>2. WritersOf(k)' = WritersOf(k) \cup {p} /\ p \notin WritersOf(k)
      BY <1>01, <2>1, <3>1 DEF WritersOf, Writing
    <3>3. WritersOf(k) \in SUBSET Passes /\ WritersOf(k)' \in SUBSET Passes
      BY DEF WritersOf
    <3>4. /\ Cardinality(WritersOf(k)) \in Nat
          /\ Cardinality(WritersOf(k)') = Cardinality(WritersOf(k)) + 1
      BY <3>2, <3>3, WritersCount
    <3>5. Held(k)' = Held(k) /\ Held(k) \in {0, 1}
      BY <2>1 DEF Held
    <3>. QED
      BY <1>02, <1>03, <2>1, <2>2, <3>4, <3>5 DEF Paid
  <2>3. CASE k # j
    <3>1. WritersOf(k) \subseteq WritersOf(k)'
      BY <1>01, <2>1, <2>3 DEF WritersOf, Writing
    <3>2. Settles(k)
      BY <1>03, <2>1, <2>3, <3>1 DEF Settles
    <3>. QED
      BY <1>02, <3>2, SettlesIsPaid
  <2>. QED
    BY <2>2, <2>3
<1>5. ASSUME NEW p \in Passes, NEW b \in Branches, EffectFails(p, b)
      PROVE  Paid(k)'
  <2>1. /\ at[p][b] = "effect" /\ UNCHANGED <<recorded, pos, effects, unwritten>>
        /\ \A q \in Passes, a \in Branches : q # p \/ a # b => at'[q][a] = at[q][a]
    BY <1>5 DEF EffectFails, Types, store, history
  <2>2. WritersOf(k) \subseteq WritersOf(k)'
    BY <1>01, <2>1 DEF WritersOf, Writing
  <2>3. Settles(k)
    BY <1>03, <2>1, <2>2 DEF Settles
  <2>. QED
    BY <1>02, <2>3, SettlesIsPaid
<1>6. ASSUME NEW p \in Passes, NEW b \in Branches, StoreFails(p, b) \/ (Lands(p, b) /\ p # token)
      PROVE  Paid(k)'
  <2>. DEFINE j == <<b, pos[p][b]>>
  <2>1. /\ UNCHANGED <<recorded, pos, effects>>
        /\ \A q \in Passes, a \in Branches : q # p \/ a # b => at'[q][a] = at[q][a]
        /\ at[p][b] \in {"writing", "cancelling"}
    BY <1>6 DEF StoreFails, Lands, Types, store
  <2>2. j \in Keys
    BY <2>1 DEF Memory, TasksFit
  <2>3. unwritten' = [unwritten EXCEPT ![j] = unwritten[j] + 1]
    BY <1>6, <2>2 DEF StoreFails, Lands, Types
  <2>4. unwritten'[k] = IF k = j THEN unwritten[k] + 1 ELSE unwritten[k]
    BY <2>3 DEF Types
  <2>5. WritersOf(k) \ {p} \subseteq WritersOf(k)'
    BY <1>01, <2>1 DEF WritersOf, Writing
  <2>6. k # j => WritersOf(k) \subseteq WritersOf(k)'
    BY <1>01, <2>1 DEF WritersOf, Writing
  <2>7. Settles(k)
    BY <1>03, <2>1, <2>4, <2>5, <2>6 DEF Settles
  <2>. QED
    BY <1>02, <2>7, SettlesIsPaid
<1>10. ASSUME NEW p \in Passes, NEW b \in Branches, Lands(p, b), p = token
       PROVE  Paid(k)'
  <2>1. PICK j \in Keys, v \in Nat : IsWritten(p, b, j, v)
    BY <1>10, LandsDoes
  <2>. USE DEF IsWritten
  <2>2. /\ j = <<b, pos[p][b]>> /\ UNCHANGED <<effects, unwritten>>
        /\ recorded[j] = Unrecorded /\ recorded'[j] # Unrecorded
        /\ \A x \in Keys : x # j => recorded'[x] = recorded[x]
    BY <2>1 DEF Taken, Types, Unrecorded
  <2>3. \A q \in Passes, a \in Branches :
          q # p \/ a # b => at'[q][a] = at[q][a] /\ pos'[q][a] = pos[q][a]
    BY <2>1 DEF GoesOn, Unwinds, Types
  <2>4. WritersOf(k) \ {p} \subseteq WritersOf(k)'
    BY <1>01, <2>3 DEF WritersOf, Writing
  <2>5. k # j => WritersOf(k) \subseteq WritersOf(k)'
    BY <1>01, <2>2, <2>3 DEF WritersOf, Writing
  <2>6. Settles(k)
    BY <1>03, <2>2, <2>4, <2>5 DEF Settles
  <2>. QED
    BY <1>02, <2>6, SettlesIsPaid
<1>7. ASSUME NEW p \in Passes, Abort(p) \/ CancelPass(p)
      PROVE  Paid(k)'
  <2>1. CancelTasks(p) /\ UNCHANGED <<recorded, pos, effects, unwritten>>
    BY <1>7 DEF Abort, CancelPass, store, history
  <2>2. WritersOf(k) \subseteq WritersOf(k)'
    BY <1>01, <2>1, CancelTasksIs DEF WritersOf, Writing
  <2>3. Settles(k)
    BY <1>03, <2>1, <2>2 DEF Settles
  <2>. QED
    BY <1>02, <2>3, SettlesIsPaid
<1>8. ASSUME NEW p \in Passes, End(p)
      PROVE  Paid(k)'
  <2>1. UNCHANGED <<recorded, at, pos, effects, unwritten>>
    BY <1>8 DEF End, store, tasks, history
  <2>2. Settles(k)
    BY <1>03, <2>1 DEF Settles, WritersOf, Writing
  <2>. QED
    BY <1>02, <2>2, SettlesIsPaid
<1>9. ASSUME NEW p \in Passes, Crash(p)
      PROVE  Paid(k)'
  <2>1. /\ UNCHANGED <<recorded, pos, effects>>
        /\ \A q \in Passes, a \in Branches : q # p => at'[q][a] = at[q][a]
        /\ unwritten'[k] = IF Writing(p, k) THEN unwritten[k] + 1 ELSE unwritten[k]
    BY <1>9 DEF Crash, Types, store
  <2>2. WritersOf(k) \ {p} \subseteq WritersOf(k)'
    BY <1>01, <2>1 DEF WritersOf, Writing
  <2>3. ~ Writing(p, k) => WritersOf(k) \subseteq WritersOf(k)'
    BY <2>2 DEF WritersOf
  <2>4. Settles(k)
    BY <1>03, <2>1, <2>2, <2>3 DEF Settles
  <2>. QED
    BY <1>02, <2>4, SettlesIsPaid
<1>. QED
  BY <1>1, <1>2, <1>3, <1>4, <1>5, <1>6, <1>7, <1>8, <1>9, <1>10 DEF Next, Task, Pass

(* The invariant holds at first, and is kept by a step and by a stutter. *)
LEMMA InitHolds == Init => StepwiseInv
<1>. SUFFICES ASSUME Init PROVE StepwiseInv
  OBVIOUS
<1>1. Types
  BY BoundsNatural DEF Init, Types, Finished, Unrecorded
<1>2. NotBegun /\ DueIsOfSleepers /\ EndedIsOver /\ CompletedOwesNothing
  BY DEF Init, NotBegun, DueIsOfSleepers, EndedIsOver, CompletedOwesNothing
<1>3. token = 0 /\ \A p \in Passes : ~ (p <= token)
  BY BoundsNatural DEF Init, Passes
<1>4. KnownIsRecorded /\ NewestKnows /\ TasksAreBehind /\ RecordedInOrder /\ DeadlinesAreNoted
  BY <1>3 DEF Init, KnownIsRecorded, NewestKnows, TasksAreBehind, RecordedInOrder, DeadlinesAreNoted
<1>5. TasksFit /\ SuspensionsAreNoted /\ NotedIsKnown
  BY DEF Init, TasksFit, SuspensionsAreNoted, NotedIsKnown
<1>6. ReadsAreBounded /\ HandedIsRecorded
  BY <1>3 DEF Init, ReadsAreBounded, HandedIsRecorded, Reads
<1>7. EffectsOutliveCancellation
  <2>1. \A k \in Keys : {p \in Passes : Writing(p, k)} = {}
    <3>1. ASSUME NEW k \in Keys, NEW p \in Passes
          PROVE  ~ Writing(p, k)
      BY KeyParts DEF Init, Writing
    <3>. QED
      BY <3>1
  <2>2. \A k \in Keys : WritersOf(k) = {} /\ Cardinality({}) = 0
    BY <2>1, FS_EmptySet DEF WritersOf
  <2>3. ASSUME NEW k \in Keys
        PROVE  effects[k] <= unwritten[k] + Cardinality(WritersOf(k)) + Held(k)
    <3>1. effects[k] = 0 /\ unwritten[k] = 0 /\ recorded[k] = Unrecorded
      BY DEF Init
    <3>2. Cardinality(WritersOf(k)) = 0 /\ Held(k) = 0
      BY <2>2, <3>1 DEF Held
    <3>. QED
      BY <3>1, <3>2
  <2>. QED
    BY <2>3 DEF EffectsOutliveCancellation, Held, WritersOf
<1>8. EveryDeadlineIsReported
  BY <1>3 DEF EveryDeadlineIsReported
<1>. QED
  BY <1>1, <1>2, <1>4, <1>5, <1>6, <1>7, <1>8 DEF StepwiseInv, Memory

(* Every step keeps what the passes remember true. *)
LEMMA MemoryKept ==
  ASSUME Types, Memory, Next
  PROVE  Memory'
<1>1. ASSUME NEW p \in Passes, NEW b \in Branches, Task(p, b)
      PROVE  Memory'
  <2>1. CASE Lands(p, b) /\ p = token
    BY <2>1, LandsKeeps
  <2>2. CASE ~ (Lands(p, b) /\ p = token)
    BY <1>1, <2>2, CalmTasks, CalmKeeps DEF Task
  <2>. QED
    BY <2>1, <2>2
<1>2. ASSUME NEW p \in Passes, Pass(p)
      PROVE  Memory'
  BY <1>2, CalmPasses, CalmKeeps
<1>. QED
  BY <1>1, <1>2, TickKeeps, DeliverKeeps, BeginKeeps, SupplyKeeps DEF Next

LEMMA StepHolds == ASSUME StepwiseInv, Next PROVE StepwiseInv'
<1>1. Types' /\ Memory'
  BY TypesKept, MemoryKept DEF StepwiseInv
<1>2. NotBegun' /\ DueIsOfSleepers' /\ EndedIsOver' /\ CompletedOwesNothing'
  BY OversKept DEF StepwiseInv
<1>3. EffectsOutliveCancellation'
  BY <1>1, EffectsKept DEF StepwiseInv
<1>4. how' = how
  <2>1. CASE Tick \/ Deliver \/ Begin \/ \E k \in Keys : Supply(k)
    BY <2>1 DEF Tick, Deliver, Begin, Supply
  <2>2. ASSUME NEW p \in Passes, Pass(p)
        PROVE  how' = how
    BY <2>2 DEF Pass, Abort, CancelPass, End, Crash
  <2>3. ASSUME NEW p \in Passes, NEW b \in Branches, Task(p, b)
        PROVE  how' = how
    BY <2>3 DEF Task, EffectReturns, EffectFails, Lands, StoreFails
  <2>. QED
    BY <2>1, <2>2, <2>3 DEF Next
<1>5. how' # "gather" => EveryDeadlineIsReported'
  BY <1>4, DeadlinesKept DEF StepwiseInv
<1>. QED
  BY <1>1, <1>2, <1>3, <1>5 DEF StepwiseInv

LEMMA StutterHolds == ASSUME StepwiseInv, UNCHANGED vars PROVE StepwiseInv'
<1>1. /\ UNCHANGED <<now, store, how, mine, unread, at, pos, offer, reached, handed>>
      /\ UNCHANGED <<token, recorded, outcome, due, effects, unwritten, inbox>>
  BY DEF vars, store, tasks, report, history
<1>2. Calm
  BY <1>1 DEF Calm
<1>3. Types' /\ Memory'
  <2>1. Types'
    BY <1>1 DEF StepwiseInv, Types
  <2>. QED
    BY <1>2, <2>1, CalmKeeps DEF StepwiseInv
<1>4. NotBegun' /\ DueIsOfSleepers' /\ EndedIsOver' /\ CompletedOwesNothing'
  BY <1>1 DEF StepwiseInv, NotBegun, DueIsOfSleepers, EndedIsOver, CompletedOwesNothing, Unfinished
<1>5. EffectsOutliveCancellation' /\ (how' # "gather" => EveryDeadlineIsReported')
  BY <1>1 DEF StepwiseInv, EffectsOutliveCancellation, EveryDeadlineIsReported, Writing
<1>. QED
  BY <1>3, <1>4, <1>5 DEF StepwiseInv

(* The inductive invariant of the passes at one workflow holds, however    *)
(* its body is cut into tasks and whatever cancels, overtakes or ends them *)
(* between two awaits (stepwise.py, `resume' and Run).                     *)
THEOREM StepwiseInvariant == Spec => []StepwiseInv
<1>1. StepwiseInv /\ [Next]_vars => StepwiseInv'
  BY StepHolds, StutterHolds
<1>. QED
  BY InitHolds, <1>1, PTL DEF Spec

(* Every variable of the model of a pass has its type.                     *)
THEOREM TypesHold == Spec => []TypeOK
<1>1. StepwiseInv => TypeOK
  <2>. SUFFICES ASSUME StepwiseInv PROVE TypeOK
    OBVIOUS
  <2>1. ASSUME NEW p \in Passes, NEW b \in Branches
        PROVE  pos[p][b] \in 1..(Len(Script[b]) + 1)
    <3>1. CASE p > token
      BY <3>1, KeyIs DEF StepwiseInv, NotBegun
    <3>2. CASE ~ (p > token)
      <4>1. p <= token
        BY <3>2, BoundsNatural DEF StepwiseInv, Types, Passes
      <4>. QED
        BY <4>1 DEF StepwiseInv, Memory, TasksAreBehind, Behind
    <3>. QED
      BY <3>1, <3>2
  <2>. QED
    BY <2>1 DEF StepwiseInv, Types, DueIsOfSleepers, TypeOK
<1>. QED
  BY <1>1, StepwiseInvariant, PTL

(* For a body of any shape, in any number of passes: a read of the inbox   *)
(* hands it the same entries whenever it is replayed, though entries were  *)
(* delivered in between (stepwise.py, Run.through and Run.delivered).      *)
THEOREM ReadsReplay == Spec => []ReadsReplayAlike
<1>1. StepwiseInv => ReadsReplayAlike
  BY DEF StepwiseInv, Memory, HandedIsRecorded, ReadsReplayAlike
<1>. QED
  BY <1>1, StepwiseInvariant, PTL

(* An effect is performed once for each record it has, is being written,   *)
(* or lost to a crash, a takeover or a store out of reach: a cancellation  *)
(* costs none (stepwise.py, `Run.step': the write is held past it).        *)
THEOREM EffectsOutlive == Spec => []EffectsOutliveCancellation
<1>1. StepwiseInv => EffectsOutliveCancellation
  BY DEF StepwiseInv
<1>. QED
  BY <1>1, StepwiseInvariant, PTL

(* A pass that reports its workflow completed left no task suspended or    *)
(* cancelled, whichever way its body owns its tasks (`Swallowed').         *)
THEOREM CompletedOwes == Spec => []CompletedOwesNothing
<1>1. StepwiseInv => CompletedOwesNothing
  BY DEF StepwiseInv
<1>. QED
  BY <1>1, StepwiseInvariant, PTL

(* No deadline is left unreported by a pass that stopped, unless its body  *)
(* uses `gather', which leaves tasks behind that record one after the pass *)
(* has reported (stepwise.py, Run.reached and stopped_at).                 *)
THEOREM DeadlinesAreReported ==
  ASSUME "gather" \notin Combinators
  PROVE  Spec => []EveryDeadlineIsReported
<1>1. StepwiseInv => EveryDeadlineIsReported
  BY DEF StepwiseInv, Types
<1>. QED
  BY <1>1, StepwiseInvariant, PTL

=============================================================================
