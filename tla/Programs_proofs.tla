-------------------------- MODULE Programs_proofs ---------------------------
(***************************************************************************)
(* What a program keeps in its own memory: the queue of MemoryScheduler,   *)
(* and the table of a router.                                              *)
(*                                                                         *)
(* What module MemoryScheduler says of two workers and two workflows, for  *)
(* any number of either, any lease, any delays and for all time: a wakeup  *)
(* is not lost, a cancellation sticks, and nobody is taken over early.     *)
(* The store finds a delivery by its receipt, and the worker that holds    *)
(* the receipt believes it is for the workflow it was given with.  So the  *)
(* invariant says first that receipts name deliveries (ReceiptsDiffer) and *)
(* that both sides agree on what for (HandsAgree): without that an answer  *)
(* that is late could put another workflow to sleep, a cancelled one among *)
(* them.  PromisesKept relates the two clocks of a delivery.  And since a  *)
(* sequence is made of the sleepers that are due, they must be finitely    *)
(* many, whatever the set of workflows is.                                 *)
(*                                                                         *)
(* What module Routing says of some tables and paths, for any: the walk    *)
(* has on its trail every branch below which a route that takes the path   *)
(* is still to be found (WalkHolds), in the order the routes precede each  *)
(* other in, and each branch holds the values of the parameters behind it. *)
(***************************************************************************)
EXTENDS MemoryScheduler, Routing,
        FiniteSetTheorems, SequenceTheorems, FunctionTheorems, WellFoundedInduction, TLAPS

(* How many of some places come before one of them. *)
Ahead(places, i) == Cardinality({j \in places : j < i})

LEMMA PlacesFinite ==
  ASSUME NEW n \in Nat, NEW places \in SUBSET (1 .. n)
  PROVE  IsFiniteSet(places) /\ Cardinality(places) \in Nat
<1>1. IsFiniteSet(1 .. n)
  <2>1. 1 \in Int /\ n \in Int
    OBVIOUS
  <2>. QED
    BY ONLY <2>1, FS_Interval
<1>2. IsFiniteSet(places)
  BY <1>1, FS_Subset
<1>. QED
  BY <1>2, FS_CardinalityType

LEMMA AheadIsCounted ==
  ASSUME NEW n \in Nat, NEW places \in SUBSET (1 .. n), NEW i \in places
  PROVE  /\ IsFiniteSet({j \in places : j < i})
         /\ Ahead(places, i) \in 0 .. Cardinality(places) - 1
<1>. DEFINE Before == {j \in places : j < i}
<1>1. IsFiniteSet(places) /\ Cardinality(places) \in Nat
  BY PlacesFinite
<1>2. i \in Int
  OBVIOUS
<1>3. Before \in SUBSET (places \ {i})
  BY <1>2
<1>4. IsFiniteSet(places \ {i}) /\ Cardinality(places \ {i}) = Cardinality(places) - 1
  BY <1>1, FS_RemoveElement
<1>. HIDE DEF Before
<1>5. IsFiniteSet(Before) /\ Cardinality(Before) <= Cardinality(places) - 1
  <2>1. IsFiniteSet(Before) /\ Cardinality(Before) <= Cardinality(places \ {i})
    BY <1>3, <1>4, FS_Subset
  <2>. QED
    BY <1>4, <2>1
<1>6. Cardinality(Before) \in Nat
  BY <1>5, FS_CardinalityType
<1>7. Cardinality(Before) \in 0 .. Cardinality(places) - 1
  BY <1>1, <1>5, <1>6
<1>. QED
  BY <1>5, <1>7 DEF Before, Ahead

LEMMA AheadGrows ==
  ASSUME NEW n \in Nat, NEW places \in SUBSET (1 .. n), NEW i \in places, NEW j \in places, i < j
  PROVE  Ahead(places, i) < Ahead(places, j)
<1>. DEFINE Before(k) == {m \in places : m < k}
<1>1. i \in Int /\ j \in Int /\ \A m \in places : m \in Int
  OBVIOUS
<1>2. Before(i) \cup {i} \in SUBSET Before(j) /\ i \notin Before(i)
  <2>1. \A m \in places : m < i => m < j
    BY <1>1
  <2>2. i < j /\ ~ (i < i)
    BY <1>1
  <2>. QED
    BY <2>1, <2>2
<1>3. IsFiniteSet(Before(i)) /\ IsFiniteSet(Before(j))
  BY AheadIsCounted
<1>. HIDE DEF Before
<1>4. /\ IsFiniteSet(Before(i) \cup {i})
      /\ Cardinality(Before(i) \cup {i}) = Cardinality(Before(i)) + 1
  BY <1>2, <1>3, FS_AddElement
<1>5. Cardinality(Before(i) \cup {i}) <= Cardinality(Before(j))
  BY <1>2, <1>3, FS_Subset
<1>6. Cardinality(Before(i)) \in Nat /\ Cardinality(Before(j)) \in Nat
  BY <1>3, FS_CardinalityType
<1>7. Cardinality(Before(i)) < Cardinality(Before(j))
  BY <1>4, <1>5, <1>6
<1>. QED
  BY <1>7 DEF Before, Ahead

(* Of some places the k-th is the one with k - 1 ahead of it, and there is *)
(* one: the ranks of n places are n different numbers below n.             *)
LEMMA EveryRankTaken ==
  ASSUME NEW n \in Nat, NEW places \in SUBSET (1 .. n), NEW k \in 1 .. Cardinality(places)
  PROVE  \E i \in places : Ahead(places, i) = k - 1
<1>. DEFINE size == Cardinality(places)
            Rank == [i \in places |-> Ahead(places, i) + 1]
<1>1. size \in Nat
  BY PlacesFinite
<1>2. \A i \in places : Ahead(places, i) \in 0 .. size - 1
  BY AheadIsCounted
<1>3. \A i, j \in places : i < j => Ahead(places, i) < Ahead(places, j)
  BY AheadGrows
<1>4. \A i \in places : i \in Int
  OBVIOUS
<1>5. ASSUME NEW i \in places, NEW j \in places, Rank[i] = Rank[j]
      PROVE  i = j
  <2>1. Ahead(places, i) = Ahead(places, j)
    BY <1>2, <1>5
  <2>2. ~ (i < j) /\ ~ (j < i)
    BY <1>2, <1>3, <2>1
  <2>. QED
    BY <1>4, <2>2
<1>6. Rank \in [places -> 1 .. size]
  BY <1>1, <1>2
<1>. HIDE DEF Rank
<1>7. Rank \in Injection(places, 1 .. size)
  BY <1>5, <1>6 DEF Injection, IsInjective
<1>8. IsFiniteSet(1 .. size) /\ Cardinality(1 .. size) = size
  <2>1. 1 \in Int /\ size \in Int
    BY <1>1
  <2>2. Cardinality(1 .. size) = IF 1 > size THEN 0 ELSE size - 1 + 1
    BY ONLY <2>1, FS_Interval
  <2>3. IsFiniteSet(1 .. size)
    BY ONLY <2>1, FS_Interval
  <2>. QED
    BY <1>1, <2>2, <2>3
<1>9. Cardinality(places) = Cardinality(1 .. size)
  BY <1>8
<1>10. Rank \in Surjection(places, 1 .. size)
  BY <1>7, <1>8, <1>9, FS_Injection
<1>11. PICK i \in places : Rank[i] = k
  BY <1>10 DEF Surjection
<1>12. Ahead(places, i) = k - 1
  BY <1>1, <1>2, <1>11 DEF Rank
<1>. QED
  BY <1>12

(* What is picked is what was at those places: all of it, nothing else,    *)
(* and in the order it was in.                                             *)
LEMMA PickedIs ==
  ASSUME NEW S, NEW s \in Seq(S), NEW places \in SUBSET (DOMAIN s)
  PROVE  /\ Picked(s, places) \in Seq(S)
         /\ \E At \in [DOMAIN Picked(s, places) -> places] :
              /\ \A k \in DOMAIN Picked(s, places) : Picked(s, places)[k] = s[At[k]]
              /\ \A k, m \in DOMAIN Picked(s, places) : k < m => At[k] < At[m]
              /\ \A i \in places : \E k \in DOMAIN Picked(s, places) : At[k] = i
<1>. DEFINE size == Cardinality(places)
            At == [k \in 1 .. size |-> CHOOSE i \in places : Ahead(places, i) = k - 1]
<1>1. DOMAIN s = 1 .. Len(s) /\ Len(s) \in Nat
  OBVIOUS
<1>2. size \in Nat
  BY <1>1, PlacesFinite
<1>3. \A i \in places : Ahead(places, i) \in 0 .. size - 1
  BY <1>1, AheadIsCounted
<1>4. \A i, j \in places : i < j => Ahead(places, i) < Ahead(places, j)
  BY <1>1, AheadGrows
<1>5. \A i \in places : i \in Int
  BY <1>1
<1>6. \A k \in 1 .. size : At[k] \in places /\ Ahead(places, At[k]) = k - 1
  BY <1>1, EveryRankTaken
<1>7. Picked(s, places) = [k \in 1 .. size |-> s[At[k]]]
  BY DEF Picked, Ahead
<1>8. At \in [1 .. size -> places]
  <2>1. At = [k \in 1 .. size |-> At[k]]
    OBVIOUS
  <2>. HIDE DEF At
  <2>. QED
    BY <1>6, <2>1
<1>. HIDE DEF At
<1>9. ASSUME NEW i \in places, NEW j \in places, Ahead(places, i) = Ahead(places, j)
      PROVE  i = j
  BY <1>3, <1>4, <1>5, <1>9
<1>10. ASSUME NEW k \in 1 .. size, NEW m \in 1 .. size, k < m
       PROVE  At[k] < At[m]
  <2>1. Ahead(places, At[k]) < Ahead(places, At[m])
    BY <1>2, <1>6, <1>10
  <2>2. At[k] \in places /\ At[m] \in places /\ At[k] \in Int /\ At[m] \in Int
    BY <1>5, <1>6
  <2>3. Ahead(places, At[k]) \in Int /\ Ahead(places, At[m]) \in Int
    BY <1>3, <2>2
  <2>. QED
    BY <1>4, <2>1, <2>2, <2>3
<1>11. ASSUME NEW i \in places
       PROVE  \E k \in 1 .. size : At[k] = i
  <2>. DEFINE k == Ahead(places, i) + 1
  <2>1. k \in 1 .. size /\ Ahead(places, i) = k - 1
    BY <1>2, <1>3
  <2>2. At[k] = i
    BY <1>6, <1>9, <2>1
  <2>. QED
    BY <2>1, <2>2
<1>12. Picked(s, places) \in Seq(S)
  <2>1. \A k \in 1 .. size : s[At[k]] \in S
    BY <1>1, <1>6
  <2>. QED
    BY <1>2, <1>7, <2>1
<1>13. DOMAIN Picked(s, places) = 1 .. size
  BY <1>7
<1>. QED
  BY <1>7, <1>8, <1>10, <1>11, <1>12, <1>13

-----------------------------------------------------------------------------
Entry == [receipt : Receipts, workflow : Workflows, left : 0 .. Lease]

(* A receipt names one delivery, which is how the store can find it by its *)
(* receipt alone.                                                          *)
ReceiptsDiffer ==
  \A i, j \in DOMAIN outstanding : outstanding[i].receipt = outstanding[j].receipt => i = j

(* A worker and the store agree on what the receipt it holds is for, so    *)
(* that an answer is about the workflow the worker believes it is about.   *)
HandsAgree ==
  \A p \in Workers : \A i \in DOMAIN outstanding :
    hand[p] # NoDelivery /\ outstanding[i].receipt = hand[p].receipt
      => outstanding[i].workflow = hand[p].workflow

(* A delivery is its taker's for at least as long as the taker was told. *)
PromisesKept ==
  \A p \in Workers : \A i \in DOMAIN outstanding :
    hand[p] # NoDelivery /\ outstanding[i].receipt = hand[p].receipt
      => kept[p] <= outstanding[i].left

(* However many workflows there may be, finitely many are asleep: they can *)
(* be put into a sequence when they are due.                               *)
SleepersFinite == IsFiniteSet({w \in Workflows : sleeping[w] # Never})

QueueInv ==
  /\ TypeOK
  /\ ReceiptsDiffer
  /\ HandsAgree
  /\ PromisesKept
  /\ SleepersFinite
  /\ NoWakeupLost
  /\ CancelSticks

LEMMA ElementsAre ==
  ASSUME NEW S, NEW s \in Seq(S)
  PROVE  /\ DOMAIN s = 1 .. Len(s) /\ Len(s) \in Nat
         /\ \A i \in DOMAIN s : s[i] \in S
         /\ \A x : x \in ToSet(s) <=> \E i \in DOMAIN s : s[i] = x
  BY DEF ToSet

LEMMA AppendIs ==
  ASSUME NEW S, NEW s \in Seq(S), NEW x \in S
  PROVE  /\ Append(s, x) \in Seq(S)
         /\ DOMAIN Append(s, x) = DOMAIN s \cup {Len(s) + 1}
         /\ Len(s) + 1 \notin DOMAIN s
         /\ \A i \in DOMAIN s : Append(s, x)[i] = s[i]
         /\ Append(s, x)[Len(s) + 1] = x
<1>1. Append(s, x) \in Seq(S) /\ Len(Append(s, x)) = Len(s) + 1 /\ Len(s) \in Nat
  OBVIOUS
<1>2. DOMAIN Append(s, x) = 1 .. Len(s) + 1 /\ DOMAIN s = 1 .. Len(s)
  BY <1>1
<1>3. \A i \in 1 .. Len(s) : Append(s, x)[i] = s[i]
  OBVIOUS
<1>4. Append(s, x)[Len(s) + 1] = x
  OBVIOUS
<1>. QED
  BY <1>1, <1>2, <1>3, <1>4

LEMMA TailHas ==
  ASSUME NEW S, NEW s \in Seq(S), s # <<>>
  PROVE  /\ Tail(s) \in Seq(S) /\ Head(s) \in S
         /\ \A x : x \in ToSet(Tail(s)) => x \in ToSet(s)
         /\ \A x \in ToSet(s) : x = Head(s) \/ x \in ToSet(Tail(s))
         /\ Head(s) \in ToSet(s)
<1>1. Tail(s) \in Seq(S) /\ Len(Tail(s)) = Len(s) - 1 /\ Len(s) \in Nat /\ Len(s) > 0
  BY EmptySeq
<1>2. \A i \in 1 .. Len(s) - 1 : Tail(s)[i] = s[i + 1]
  OBVIOUS
<1>3. DOMAIN Tail(s) = 1 .. Len(s) - 1 /\ DOMAIN s = 1 .. Len(s)
  BY <1>1
<1>4. ASSUME NEW x \in ToSet(s) PROVE x = Head(s) \/ x \in ToSet(Tail(s))
  <2>1. PICK i \in 1 .. Len(s) : s[i] = x
    BY <1>3 DEF ToSet
  <2>2. CASE i = 1
    BY <2>1, <2>2
  <2>3. CASE i # 1
    <3>1. i - 1 \in 1 .. Len(s) - 1 /\ (i - 1) + 1 = i
      BY <1>1, <2>3
    <3>2. Tail(s)[i - 1] = x
      BY <1>2, <2>1, <3>1
    <3>. QED
      BY <1>3, <3>1, <3>2 DEF ToSet
  <2>. QED
    BY <2>2, <2>3
<1>5. ASSUME NEW x \in ToSet(Tail(s)) PROVE x \in ToSet(s)
  <2>1. PICK i \in 1 .. Len(s) - 1 : Tail(s)[i] = x
    BY <1>3 DEF ToSet
  <2>2. s[i + 1] = x /\ i + 1 \in 1 .. Len(s)
    BY <1>1, <1>2, <2>1
  <2>. QED
    BY <1>3, <2>2 DEF ToSet
<1>6. Head(s) = s[1] /\ 1 \in 1 .. Len(s)
  BY <1>1
<1>7. Head(s) \in S /\ Head(s) \in ToSet(s)
  BY <1>3, <1>6 DEF ToSet
<1>. QED
  BY <1>1, <1>4, <1>5, <1>7

(* What the timer puts behind the queue is every sleeper that was due, *)
(* once, and nobody else.                                              *)
LEMMA WokenAre ==
  ASSUME NEW S, IsFiniteSet(S), NEW woken \in SetToSeqs(S)
  PROVE  woken \in Seq(S) /\ ToSet(woken) = S
<1>. DEFINE size == Cardinality(S)
<1>1. size \in Nat
  BY FS_CardinalityType
<1>2. woken \in [1 .. size -> S] /\ \A i, j \in 1 .. size : i # j => woken[i] # woken[j]
  BY DEF SetToSeqs
<1>3. woken \in Injection(1 .. size, S)
  BY <1>2 DEF Injection, IsInjective
<1>4. Cardinality(1 .. size) = size
  <2>1. 1 \in Int /\ size \in Int
    BY <1>1
  <2>2. Cardinality(1 .. size) = IF 1 > size THEN 0 ELSE size - 1 + 1
    BY ONLY <2>1, FS_Interval
  <2>. QED
    BY <1>1, <2>2
<1>5. woken \in Surjection(1 .. size, S)
  BY <1>3, <1>4, FS_Injection
<1>6. woken \in Seq(S)
  BY <1>1, <1>2
<1>7. DOMAIN woken = 1 .. size
  BY <1>2
<1>. QED
  BY <1>2, <1>5, <1>6, <1>7 DEF Surjection, ToSet

(* Deliveries that leave the store take nothing from the ones that stay. *)
LEMMA EntriesLeave ==
  ASSUME outstanding \in Seq(Entry), ReceiptsDiffer,
         NEW places \in SUBSET (DOMAIN outstanding),
         outstanding' = Picked(outstanding, places)
  PROVE  /\ outstanding' \in Seq(Entry)
         /\ ReceiptsDiffer'
         /\ \A k \in DOMAIN outstanding' :
              \E i \in places : outstanding'[k] = outstanding[i]
<1>1. PICK At \in [DOMAIN outstanding' -> places] :
        /\ \A k \in DOMAIN outstanding' : outstanding'[k] = outstanding[At[k]]
        /\ \A k, m \in DOMAIN outstanding' : k < m => At[k] < At[m]
  BY PickedIs
<1>2. outstanding' \in Seq(Entry)
  BY PickedIs
<1>3. ASSUME NEW k \in DOMAIN outstanding', NEW m \in DOMAIN outstanding',
             outstanding'[k].receipt = outstanding'[m].receipt
      PROVE  k = m
  <2>1. At[k] = At[m]
    BY <1>1, <1>3 DEF ReceiptsDiffer
  <2>2. k \in Int /\ m \in Int /\ At[k] \in Int
    BY <1>1, <1>2, ElementsAre
  <2>3. ~ (At[k] < At[m]) /\ ~ (At[m] < At[k])
    BY <2>1, <2>2
  <2>4. ~ (k < m) /\ ~ (m < k)
    BY <1>1, <2>3
  <2>. QED
    BY <2>2, <2>4
<1>. QED
  BY <1>1, <1>2, <1>3 DEF ReceiptsDiffer

LEMMA JoinedHas ==
  ASSUME NEW S, NEW s \in Seq(S), NEW t \in Seq(S)
  PROVE  ToSet(s \o t) = ToSet(s) \cup ToSet(t)
<1>1. /\ Len(s) \in Nat /\ Len(t) \in Nat
      /\ DOMAIN s = 1 .. Len(s) /\ DOMAIN t = 1 .. Len(t)
      /\ DOMAIN (s \o t) = 1 .. Len(s) + Len(t)
  OBVIOUS
<1>2. \A i \in 1 .. Len(s) + Len(t) :
        (s \o t)[i] = IF i <= Len(s) THEN s[i] ELSE t[i - Len(s)]
  OBVIOUS
<1>3. ASSUME NEW x \in ToSet(s \o t) PROVE x \in ToSet(s) \cup ToSet(t)
  <2>1. PICK i \in 1 .. Len(s) + Len(t) : (s \o t)[i] = x
    BY <1>1 DEF ToSet
  <2>2. CASE i <= Len(s)
    BY <1>1, <1>2, <2>1, <2>2 DEF ToSet
  <2>3. CASE ~ (i <= Len(s))
    <3>1. i - Len(s) \in 1 .. Len(t)
      BY <1>1, <2>3
    <3>. QED
      BY <1>1, <1>2, <2>1, <2>3, <3>1 DEF ToSet
  <2>. QED
    BY <2>2, <2>3
<1>4. ASSUME NEW x \in ToSet(s) PROVE x \in ToSet(s \o t)
  <2>1. PICK i \in 1 .. Len(s) : s[i] = x
    BY <1>1 DEF ToSet
  <2>2. i \in 1 .. Len(s) + Len(t) /\ i <= Len(s)
    BY <1>1
  <2>. QED
    BY <1>1, <1>2, <2>1, <2>2 DEF ToSet
<1>5. ASSUME NEW x \in ToSet(t) PROVE x \in ToSet(s \o t)
  <2>1. PICK i \in 1 .. Len(t) : t[i] = x
    BY <1>1 DEF ToSet
  <2>2. /\ i + Len(s) \in 1 .. Len(s) + Len(t) /\ ~ (i + Len(s) <= Len(s))
        /\ (i + Len(s)) - Len(s) = i
    BY <1>1
  <2>3. (s \o t)[i + Len(s)] = x
    BY <1>2, <2>1, <2>2
  <2>. QED
    BY <1>1, <2>2, <2>3 DEF ToSet
<1>. QED
  BY <1>3, <1>4, <1>5

-----------------------------------------------------------------------------
LEMMA InitiallyHolds ==
  Init => QueueInv
<1>. SUFFICES ASSUME Init PROVE QueueInv
  OBVIOUS
<1>1. TypeOK
  <2>1. <<>> \in Seq(Workflows) /\ <<>> \in Seq([receipt : Receipts, workflow : Workflows, left : 0 .. Lease])
    OBVIOUS
  <2>2. gone \in [Workflows -> BOOLEAN]
    BY DEF Init
  <2>3. failures \in 0 .. MaxFailures
    BY FailuresNatural DEF Init
  <2>4. 0 \in 0 .. Lease
    BY TimesNatural
  <2>. QED
    BY <2>1, <2>2, <2>3, <2>4 DEF TypeOK, Init, Times
<1>2. SleepersFinite
  <2>1. {w \in Workflows : sleeping[w] # Never} = {}
    BY DEF Init
  <2>. QED
    BY <2>1, FS_EmptySet DEF SleepersFinite
<1>3. DOMAIN outstanding = {}
  BY DEF Init
<1>4. NoWakeupLost /\ CancelSticks
  BY DEF Init, NoWakeupLost, CancelSticks
<1>. QED
  BY <1>1, <1>2, <1>3, <1>4 DEF QueueInv, ReceiptsDiffer, HandsAgree, PromisesKept

(* Time passes alike for what is promised and for what is kept. *)
LEMMA TickKeeps ==
  ASSUME QueueInv, Tick
  PROVE  QueueInv'
<1>. USE DEF Tick
<1>0. TypeOK /\ outstanding \in Seq(Entry) /\ Lease \in Nat
  BY TimesNatural DEF QueueInv, TypeOK, Entry
<1>1a. \A i \in DOMAIN outstanding : outstanding[i] \in Entry
  BY <1>0, ElementsAre
<1>1. \A t \in Times : Passed(t) \in Times /\ (Passed(t) = Never <=> t = Never)
  BY DEF Passed, Times, Never
<1>2. \A t \in 0 .. Lease : Passed(t) \in 0 .. Lease
  BY <1>0 DEF Passed
<1>3. \A s, t \in 0 .. Lease : s <= t => Passed(s) <= Passed(t)
  BY <1>0 DEF Passed
<1>4. /\ DOMAIN outstanding' = DOMAIN outstanding
      /\ \A i \in DOMAIN outstanding :
           /\ outstanding'[i].receipt = outstanding[i].receipt
           /\ outstanding'[i].workflow = outstanding[i].workflow
           /\ outstanding'[i].left = Passed(outstanding[i].left)
  BY <1>1a DEF Entry
<1>5. outstanding' \in Seq(Entry)
  <2>1. DOMAIN outstanding = 1 .. Len(outstanding) /\ Len(outstanding) \in Nat
    BY <1>0
  <2>2. \A i \in DOMAIN outstanding : [outstanding[i] EXCEPT !.left = Passed(@)] \in Entry
    BY <1>2, <1>1a DEF Entry
  <2>. QED
    BY <2>1, <2>2
<1>6. TypeOK'
  <2>1. sleeping' \in [Workflows -> Times] /\ asked' \in [Workflows -> Times]
    BY <1>0, <1>1 DEF TypeOK
  <2>2. kept' \in [Workers -> 0 .. Lease]
    BY <1>0, <1>2 DEF TypeOK
  <2>. QED
    BY <1>0, <1>5, <2>1, <2>2 DEF TypeOK, Entry
<1>7. ReceiptsDiffer'
  BY <1>4, ZenonT(30) DEF QueueInv, ReceiptsDiffer
<1>7a. hand' = hand /\ gone' = gone /\ queue' = queue
  OBVIOUS
<1>8. HandsAgree'
  BY ONLY QueueInv, <1>4, <1>7a DEF QueueInv, HandsAgree
<1>9. PromisesKept'
  <2>1. \A i \in DOMAIN outstanding : outstanding[i].left \in 0 .. Lease
    BY <1>1a DEF Entry
  <2>2. \A p \in Workers : kept[p] \in 0 .. Lease /\ kept'[p] = Passed(kept[p])
    BY <1>0 DEF TypeOK
  <2>. QED
    BY <1>3, <1>4, <2>1, <2>2 DEF QueueInv, PromisesKept
<1>10. \A w \in Workflows : sleeping'[w] = Never <=> sleeping[w] = Never
  BY <1>0, <1>1 DEF TypeOK
<1>11. \A w \in Workflows : asked'[w] = Never <=> asked[w] = Never
  BY <1>0, <1>1 DEF TypeOK
<1>12. SleepersFinite'
  <2>1. {w \in Workflows : sleeping'[w] # Never} = {w \in Workflows : sleeping[w] # Never}
    BY <1>10
  <2>. QED
    BY <2>1 DEF QueueInv, SleepersFinite
<1>13. NoWakeupLost'
  BY <1>10, <1>11 DEF QueueInv, NoWakeupLost
<1>14. CancelSticks'
  BY ONLY QueueInv, <1>4, <1>10, <1>7a DEF QueueInv, CancelSticks
<1>. QED
  BY <1>6, <1>7, <1>8, <1>9, <1>12, <1>13, <1>14 DEF QueueInv

LEMMA WakeDueKeeps ==
  ASSUME QueueInv, WakeDue
  PROVE  QueueInv'
<1>. DEFINE due == {w \in Workflows : sleeping[w] = 0}
<1>0. TypeOK
  BY DEF QueueInv
<1>1. PICK woken \in SetToSeqs(due) : queue' = queue \o woken
  BY DEF WakeDue
<1>2. woken \in Seq(due) /\ ToSet(woken) = due
  <2>1. due \in SUBSET {w \in Workflows : sleeping[w] # Never}
    BY DEF Never
  <2>2. IsFiniteSet(due)
    BY <2>1, FS_Subset DEF QueueInv, SleepersFinite
  <2>. QED
    BY <2>2, WokenAre
<1>3. queue \in Seq(Workflows) /\ woken \in Seq(Workflows)
  <2>1. due \subseteq Workflows
    OBVIOUS
  <2>. QED
    BY <1>0, <1>2, <2>1 DEF TypeOK
<1>4. queue' \in Seq(Workflows)
  BY <1>1, <1>3
<1>5. ToSet(queue') = ToSet(queue) \cup due
  <2>1. ToSet(queue \o woken) = ToSet(queue) \cup ToSet(woken)
    BY <1>3, JoinedHas
  <2>. QED
    BY <1>1, <1>2, <2>1
<1>6. sleeping' = [w \in Workflows |-> IF w \in due THEN Never ELSE sleeping[w]]
  BY DEF WakeDue
<1>7. UNCHANGED <<outstanding, hand, failures, asked, gone, kept>>
  BY DEF WakeDue
<1>8. \A w \in Workflows : /\ w \in due => sleeping[w] # Never
                           /\ sleeping'[w] # Never => sleeping[w] # Never
                           /\ sleeping[w] # Never => sleeping'[w] # Never \/ w \in due
  BY <1>0, <1>6 DEF TypeOK, Never
<1>. HIDE DEF due
<1>9. TypeOK'
  <2>1. sleeping' \in [Workflows -> Times]
    BY <1>0, <1>6 DEF TypeOK, Times
  <2>. QED
    BY <1>0, <1>4, <1>7, <2>1 DEF TypeOK
<1>10. ReceiptsDiffer' /\ HandsAgree' /\ PromisesKept'
  BY <1>7 DEF QueueInv, ReceiptsDiffer, HandsAgree, PromisesKept
<1>11. SleepersFinite'
  <2>1. {w \in Workflows : sleeping'[w] # Never} \in SUBSET {w \in Workflows : sleeping[w] # Never}
    BY <1>8
  <2>. QED
    BY <2>1, FS_Subset DEF QueueInv, SleepersFinite
<1>12. NoWakeupLost'
  BY <1>5, <1>7, <1>8 DEF QueueInv, NoWakeupLost
<1>13. CancelSticks'
  BY <1>5, <1>7, <1>8 DEF QueueInv, CancelSticks
<1>. QED
  BY <1>9, <1>10, <1>11, <1>12, <1>13 DEF QueueInv

LEMMA MakeReadyKeeps ==
  ASSUME QueueInv, NEW w \in Workflows, MakeReady(w)
  PROVE  QueueInv'
<1>. USE DEF MakeReady
<1>0. TypeOK
  BY DEF QueueInv
<1>1. queue' \in Seq(Workflows) /\ ToSet(queue') = ToSet(queue) \cup {w}
  <2>1. queue \in Seq(Workflows)
    BY <1>0 DEF TypeOK
  <2>2. ToSet(Append(queue, w)) = ToSet(queue) \cup {w}
    BY <2>1, AppendIs DEF ToSet
  <2>. QED
    BY <2>1, <2>2
<1>2. TypeOK'
  <2>1. asked' \in [Workflows -> Times]
    BY <1>0 DEF TypeOK, Times
  <2>2. gone' \in [Workflows -> BOOLEAN]
    BY <1>0 DEF TypeOK
  <2>. QED
    BY <1>0, <1>1, <2>1, <2>2 DEF TypeOK
<1>3. ReceiptsDiffer' /\ HandsAgree' /\ PromisesKept' /\ SleepersFinite'
  BY DEF QueueInv, ReceiptsDiffer, HandsAgree, PromisesKept, SleepersFinite
<1>4. NoWakeupLost'
  BY <1>0, <1>1 DEF QueueInv, NoWakeupLost, TypeOK
<1>5. CancelSticks'
  <2>1. ~ gone'[w] /\ \A v \in Workflows \ {w} : gone'[v] = gone[v]
    BY <1>0 DEF TypeOK
  <2>. QED
    BY <1>1, <2>1 DEF QueueInv, CancelSticks
<1>. QED
  BY <1>2, <1>3, <1>4, <1>5 DEF QueueInv

(* Deliveries leave the store, and workers let go of theirs. *)
LEMMA LeavingKeeps ==
  ASSUME QueueInv,
         NEW places \in SUBSET (DOMAIN outstanding),
         outstanding' = Picked(outstanding, places),
         \A p \in Workers : hand'[p] = NoDelivery \/ (hand'[p] = hand[p] /\ kept'[p] = kept[p])
  PROVE  /\ outstanding' \in Seq(Entry)
         /\ ReceiptsDiffer' /\ HandsAgree' /\ PromisesKept'
         /\ \A k \in DOMAIN outstanding' : \E i \in places : outstanding'[k] = outstanding[i]
<1>1. outstanding \in Seq(Entry) /\ ReceiptsDiffer
  BY DEF QueueInv, TypeOK, Entry
<1>2. outstanding' \in Seq(Entry) /\ ReceiptsDiffer'
  BY <1>1, EntriesLeave
<1>3. \A k \in DOMAIN outstanding' : \E i \in places : outstanding'[k] = outstanding[i]
  BY <1>1, EntriesLeave
<1>4. \A k \in DOMAIN outstanding' : \E i \in DOMAIN outstanding : outstanding'[k] = outstanding[i]
  BY <1>3
<1>5. HandsAgree'
  BY <1>4 DEF QueueInv, HandsAgree
<1>6. PromisesKept'
  BY <1>4 DEF QueueInv, PromisesKept
<1>. QED
  BY <1>2, <1>3, <1>5, <1>6

LEMMA RestartedIs ==
  ASSUME outstanding \in Seq(Entry), NEW r, outstanding' = Restarted(r)
  PROVE  /\ outstanding' \in Seq(Entry)
         /\ DOMAIN outstanding' = DOMAIN outstanding
         /\ \A i \in DOMAIN outstanding :
              /\ outstanding'[i].receipt = outstanding[i].receipt
              /\ outstanding'[i].workflow = outstanding[i].workflow
              /\ outstanding[i].left \in 0 .. Lease
              /\ outstanding'[i].left = IF outstanding[i].receipt = r THEN Lease ELSE outstanding[i].left
<1>1. DOMAIN outstanding = 1 .. Len(outstanding) /\ Len(outstanding) \in Nat
  OBVIOUS
<1>2. \A i \in DOMAIN outstanding : outstanding[i] \in Entry
  BY ElementsAre
<1>3. Lease \in 0 .. Lease
  BY TimesNatural
<1>4. /\ DOMAIN outstanding' = DOMAIN outstanding
      /\ \A i \in DOMAIN outstanding :
           outstanding'[i] = IF outstanding[i].receipt = r
                             THEN [outstanding[i] EXCEPT !.left = Lease] ELSE outstanding[i]
  BY DEF Restarted
<1>5. \A i \in DOMAIN outstanding : outstanding'[i] \in Entry
  BY <1>2, <1>3, <1>4 DEF Entry
<1>6. outstanding' \in Seq(Entry)
  <2>1. outstanding' = [i \in DOMAIN outstanding |-> outstanding'[i]]
    BY DEF Restarted
  <2>. QED
    BY <1>1, <1>5, <2>1
<1>. QED
  BY <1>2, <1>4, <1>6 DEF Entry

(* A worker that lets go leaves the others what they have. *)
LEMMA LetsGoIs ==
  ASSUME TypeOK, NEW p \in Workers, LetsGo(p)
  PROVE  /\ hand' \in [Workers -> Delivery \cup {NoDelivery}]
         /\ kept' \in [Workers -> 0 .. Lease]
         /\ \A q \in Workers : hand'[q] = NoDelivery \/ (hand'[q] = hand[q] /\ kept'[q] = kept[q])
<1>1. 0 \in 0 .. Lease
  BY TimesNatural
<1>. QED
  BY <1>1 DEF TypeOK, LetsGo

LEMMA CancelKeeps ==
  ASSUME QueueInv, NEW w \in Workflows, Cancel(w)
  PROVE  QueueInv'
<1>. DEFINE places == {i \in DOMAIN outstanding : outstanding[i].workflow # w}
            stay == {i \in DOMAIN queue : queue[i] # w}
<1>0. TypeOK /\ queue \in Seq(Workflows)
  BY DEF QueueInv, TypeOK
<1>1. /\ outstanding' = Picked(outstanding, places)
      /\ queue' = Picked(queue, stay)
      /\ sleeping' = [sleeping EXCEPT ![w] = Never]
      /\ asked' = [asked EXCEPT ![w] = Never]
      /\ gone' = [gone EXCEPT ![w] = TRUE]
      /\ UNCHANGED <<hand, failures, kept>>
  BY DEF Cancel
<1>2. /\ outstanding' \in Seq(Entry)
      /\ ReceiptsDiffer' /\ HandsAgree' /\ PromisesKept'
      /\ \A k \in DOMAIN outstanding' : \E i \in places : outstanding'[k] = outstanding[i]
  <2>1. places \in SUBSET (DOMAIN outstanding)
    OBVIOUS
  <2>. HIDE DEF places
  <2>. QED
    BY <1>1, <2>1, LeavingKeeps
<1>3. queue' \in Seq(Workflows) /\ ToSet(queue') = ToSet(queue) \ {w}
  <2>1. stay \in SUBSET (DOMAIN queue)
    OBVIOUS
  <2>2. /\ queue' \in Seq(Workflows)
        /\ \E At \in [DOMAIN queue' -> stay] :
             /\ \A k \in DOMAIN queue' : queue'[k] = queue[At[k]]
             /\ \A i \in stay : \E k \in DOMAIN queue' : At[k] = i
    <3>. HIDE DEF stay
    <3>. QED
      BY <1>0, <1>1, <2>1, PickedIs
  <2>3. \A x : x \in ToSet(queue') <=> \E k \in DOMAIN queue' : queue'[k] = x
    BY DEF ToSet
  <2>4. \A x : x \in ToSet(queue) <=> \E k \in DOMAIN queue : queue[k] = x
    BY DEF ToSet
  <2>. QED
    BY <2>2, <2>3, <2>4
<1>4. \A v \in Workflows : /\ sleeping'[v] = IF v = w THEN Never ELSE sleeping[v]
                           /\ asked'[v] = IF v = w THEN Never ELSE asked[v]
  BY <1>0, <1>1 DEF TypeOK
<1>5. TypeOK'
  <2>1. sleeping' \in [Workflows -> Times] /\ asked' \in [Workflows -> Times]
    BY <1>0, <1>1 DEF TypeOK, Times
  <2>2. gone' \in [Workflows -> BOOLEAN]
    BY <1>0, <1>1 DEF TypeOK
  <2>. QED
    BY <1>0, <1>1, <1>2, <1>3, <2>1, <2>2 DEF TypeOK, Entry
<1>6. SleepersFinite'
  <2>1. {v \in Workflows : sleeping'[v] # Never} \in SUBSET {v \in Workflows : sleeping[v] # Never}
    BY <1>4
  <2>. QED
    BY <2>1, FS_Subset DEF QueueInv, SleepersFinite
<1>7. NoWakeupLost'
  BY <1>3, <1>4 DEF QueueInv, NoWakeupLost
<1>8. CancelSticks'
  <2>1. \A v \in Workflows \ {w} : gone'[v] = gone[v]
    BY <1>0, <1>1 DEF TypeOK
  <2>. QED
    BY <1>2, <1>3, <1>4, <2>1 DEF QueueInv, CancelSticks
<1>. QED
  BY <1>2, <1>5, <1>6, <1>7, <1>8 DEF QueueInv

LEMMA DoneKeeps ==
  ASSUME QueueInv, NEW p \in Workers, Done(p)
  PROVE  QueueInv'
<1>. DEFINE places == {i \in DOMAIN outstanding : outstanding[i].receipt # hand[p].receipt}
<1>0. TypeOK
  BY DEF QueueInv
<1>1. /\ outstanding' = Picked(outstanding, places)
      /\ LetsGo(p)
      /\ UNCHANGED <<queue, sleeping, failures, asked, gone>>
  BY DEF Done, Popped
<1>2. /\ outstanding' \in Seq(Entry)
      /\ ReceiptsDiffer' /\ HandsAgree' /\ PromisesKept'
      /\ \A k \in DOMAIN outstanding' : \E i \in DOMAIN outstanding : outstanding'[k] = outstanding[i]
  <2>1. places \in SUBSET (DOMAIN outstanding)
    OBVIOUS
  <2>. HIDE DEF places
  <2>. QED
    BY <1>0, <1>1, <2>1, LetsGoIs, LeavingKeeps
<1>3. TypeOK'
  BY <1>0, <1>1, <1>2, LetsGoIs DEF TypeOK, Entry
<1>4. SleepersFinite' /\ NoWakeupLost'
  BY <1>1 DEF QueueInv, SleepersFinite, NoWakeupLost
<1>5. CancelSticks'
  BY <1>1, <1>2 DEF QueueInv, CancelSticks
<1>. QED
  BY <1>2, <1>3, <1>4, <1>5 DEF QueueInv

(* A deadline is written only while the store has the delivery, and it is  *)
(* the workflow of that delivery that is put to sleep: one that was        *)
(* cancelled has none.                                                     *)
LEMMA WakeAtKeeps ==
  ASSUME QueueInv, NEW p \in Workers, NEW delay \in Delays, WakeAt(p, delay)
  PROVE  QueueInv'
<1>0. TypeOK /\ delay \in Times /\ delay # Never
  BY TimesNatural DEF QueueInv, Times, Never
<1>1. /\ hand[p] # NoDelivery /\ hand[p] \in Delivery
      /\ LetsGo(p)
      /\ UNCHANGED <<queue, failures, gone>>
  BY <1>0 DEF WakeAt, TypeOK
<1>2. CASE Holds(hand[p].receipt)
  <2>. DEFINE places == {i \in DOMAIN outstanding : outstanding[i].receipt # hand[p].receipt}
  <2>1. /\ outstanding' = Picked(outstanding, places)
        /\ sleeping' = [sleeping EXCEPT ![hand[p].workflow] = delay]
        /\ asked' = [asked EXCEPT ![hand[p].workflow] = Sooner(@, delay)]
    BY <1>2 DEF WakeAt, Popped
  <2>2. /\ outstanding' \in Seq(Entry)
        /\ ReceiptsDiffer' /\ HandsAgree' /\ PromisesKept'
        /\ \A k \in DOMAIN outstanding' : \E i \in DOMAIN outstanding : outstanding'[k] = outstanding[i]
    <3>1. places \in SUBSET (DOMAIN outstanding)
      OBVIOUS
    <3>. HIDE DEF places
    <3>. QED
      BY <1>0, <1>1, <2>1, <3>1, LetsGoIs, LeavingKeeps
  <2>3. PICK w \in Workflows : w = hand[p].workflow
    BY <1>1 DEF Delivery
  <2>4. ~ gone[w]
    <3>1. PICK i \in DOMAIN outstanding : outstanding[i].receipt = hand[p].receipt
      BY <1>2 DEF Holds
    <3>2. outstanding[i].workflow = w
      BY <1>1, <2>3, <3>1 DEF QueueInv, HandsAgree
    <3>. QED
      BY <3>2 DEF QueueInv, CancelSticks
  <2>5. \A v \in Workflows : /\ sleeping'[v] = IF v = w THEN delay ELSE sleeping[v]
                             /\ v # w => asked'[v] = asked[v]
    BY <1>0, <2>1, <2>3 DEF TypeOK
  <2>6. TypeOK'
    <3>1. \A t \in Times : Sooner(t, delay) \in Times
      BY <1>0 DEF Sooner
    <3>2. sleeping' \in [Workflows -> Times]
      BY <1>0, <2>1, <2>3 DEF TypeOK
    <3>3. asked' \in [Workflows -> Times]
      BY <1>0, <2>1, <2>3, <3>1 DEF TypeOK
    <3>. QED
      BY <1>0, <1>1, <2>2, <3>2, <3>3, LetsGoIs DEF TypeOK, Entry
  <2>7. SleepersFinite'
    <3>. DEFINE before == {v \in Workflows : sleeping[v] # Never}
    <3>1. IsFiniteSet(before \cup {w})
      BY FS_AddElement DEF QueueInv, SleepersFinite
    <3>2. {v \in Workflows : sleeping'[v] # Never} \in SUBSET (before \cup {w})
      BY <2>5
    <3>. QED
      BY <3>1, <3>2, FS_Subset DEF SleepersFinite
  <2>8. NoWakeupLost'
    BY <1>0, <1>1, <2>5 DEF QueueInv, NoWakeupLost
  <2>9. CancelSticks'
    BY <1>1, <2>2, <2>4, <2>5 DEF QueueInv, CancelSticks
  <2>. QED
    BY <2>2, <2>6, <2>7, <2>8, <2>9 DEF QueueInv
<1>3. CASE ~ Holds(hand[p].receipt)
  <2>1. UNCHANGED <<outstanding, sleeping, asked>>
    BY <1>3 DEF WakeAt
  <2>2. TypeOK'
    BY <1>0, <1>1, <2>1, LetsGoIs DEF TypeOK
  <2>3. HandsAgree' /\ PromisesKept'
    BY <1>0, <1>1, <2>1, LetsGoIs DEF QueueInv, HandsAgree, PromisesKept
  <2>4. ReceiptsDiffer' /\ SleepersFinite' /\ NoWakeupLost' /\ CancelSticks'
    BY <1>1, <2>1 DEF QueueInv, ReceiptsDiffer, SleepersFinite, NoWakeupLost, CancelSticks
  <2>. QED
    BY <2>2, <2>3, <2>4 DEF QueueInv
<1>. QED
  BY <1>2, <1>3

LEMMA AbandonKeeps ==
  ASSUME QueueInv, NEW p \in Workers, Abandon(p)
  PROVE  QueueInv'
<1>0. TypeOK
  BY DEF QueueInv
<1>1. LetsGo(p) /\ UNCHANGED <<queue, sleeping, outstanding, asked, gone>>
  BY DEF Abandon, store
<1>2. TypeOK'
  <2>1. failures' \in 0 .. MaxFailures
    BY <1>0, FailuresNatural DEF Abandon, TypeOK
  <2>. QED
    BY <1>0, <1>1, <2>1, LetsGoIs DEF TypeOK
<1>3. HandsAgree' /\ PromisesKept'
  BY <1>0, <1>1, LetsGoIs DEF QueueInv, HandsAgree, PromisesKept
<1>4. ReceiptsDiffer' /\ SleepersFinite' /\ NoWakeupLost' /\ CancelSticks'
  BY <1>1 DEF QueueInv, ReceiptsDiffer, SleepersFinite, NoWakeupLost, CancelSticks
<1>. QED
  BY <1>2, <1>3, <1>4 DEF QueueInv

LEMMA ExtendKeeps ==
  ASSUME QueueInv, NEW p \in Workers, Extend(p)
  PROVE  QueueInv'
<1>0. TypeOK /\ outstanding \in Seq(Entry) /\ Lease \in 0 .. Lease
  BY TimesNatural DEF QueueInv, TypeOK, Entry
<1>1. /\ outstanding' = Restarted(hand[p].receipt)
      /\ kept' = [kept EXCEPT ![p] = IF Holds(hand[p].receipt) THEN Lease ELSE @]
      /\ UNCHANGED <<queue, sleeping, hand, failures, asked, gone>>
  BY DEF Extend
<1>2. /\ outstanding' \in Seq(Entry)
      /\ DOMAIN outstanding' = DOMAIN outstanding
      /\ \A i \in DOMAIN outstanding :
           /\ outstanding'[i].receipt = outstanding[i].receipt
           /\ outstanding'[i].workflow = outstanding[i].workflow
           /\ outstanding[i].left \in 0 .. Lease
           /\ outstanding'[i].left = IF outstanding[i].receipt = hand[p].receipt
                                     THEN Lease ELSE outstanding[i].left
  BY <1>0, <1>1, RestartedIs
<1>3. \A q \in Workers : kept[q] \in 0 .. Lease /\ kept'[q] \in 0 .. Lease
  BY <1>0, <1>1 DEF TypeOK
<1>4. TypeOK'
  <2>1. kept' \in [Workers -> 0 .. Lease]
    BY <1>0, <1>1 DEF TypeOK
  <2>. QED
    BY <1>0, <1>1, <1>2, <2>1 DEF TypeOK, Entry
<1>5. ReceiptsDiffer' /\ HandsAgree'
  BY <1>1, <1>2 DEF QueueInv, ReceiptsDiffer, HandsAgree
<1>6. PromisesKept'
  <2>. SUFFICES ASSUME NEW q \in Workers, NEW i \in DOMAIN outstanding,
                       hand[q] # NoDelivery, outstanding[i].receipt = hand[q].receipt
                PROVE  kept'[q] <= outstanding'[i].left
    BY <1>1, <1>2 DEF PromisesKept
  <2>1. kept[q] <= outstanding[i].left
    BY DEF QueueInv, PromisesKept
  <2>2. CASE outstanding[i].receipt = hand[p].receipt
    BY <1>0, <1>2, <1>3, <2>2
  <2>3. CASE outstanding[i].receipt # hand[p].receipt
    <3>1. kept'[q] = kept[q]
      BY <1>0, <1>1, <2>3 DEF TypeOK
    <3>. QED
      BY <1>2, <2>1, <2>3, <3>1
  <2>. QED
    BY <2>2, <2>3
<1>7. SleepersFinite' /\ NoWakeupLost'
  BY <1>1 DEF QueueInv, SleepersFinite, NoWakeupLost
<1>8. CancelSticks'
  BY <1>1, <1>2 DEF QueueInv, CancelSticks
<1>. QED
  BY <1>4, <1>5, <1>6, <1>7, <1>8 DEF QueueInv

LEMMA BeginsIs ==
  ASSUME TypeOK, NEW p \in Workers, NEW d \in Delivery, Begins(p, d)
  PROVE  /\ hand' \in [Workers -> Delivery \cup {NoDelivery}]
         /\ kept' \in [Workers -> 0 .. Lease]
         /\ asked' \in [Workflows -> Times]
         /\ hand'[p] = d /\ kept'[p] = Lease
         /\ \A q \in Workers \ {p} : hand'[q] = hand[q] /\ kept'[q] = kept[q]
         /\ d.workflow \in Workflows
         /\ \A w \in Workflows : asked'[w] = IF w = d.workflow THEN Never ELSE asked[w]
<1>1. Lease \in 0 .. Lease /\ Never \in Times /\ d.workflow \in Workflows
  BY TimesNatural DEF Times, Delivery
<1>. QED
  BY <1>1 DEF TypeOK, Begins

(* A delivery changes hands: the store has it once, and it starts anew. *)
LEMMA ReclaimKeeps ==
  ASSUME QueueInv, NEW p \in Workers, Reclaim(p)
  PROVE  QueueInv'
<1>0. TypeOK /\ outstanding \in Seq(Entry) /\ Lease \in 0 .. Lease
  BY TimesNatural DEF QueueInv, TypeOK, Entry
<1>1. PICK i \in DOMAIN outstanding :
        /\ outstanding' = Restarted(outstanding[i].receipt)
        /\ Begins(p, [receipt |-> outstanding[i].receipt, workflow |-> outstanding[i].workflow])
        /\ UNCHANGED <<queue, sleeping, failures, gone>>
  BY DEF Reclaim
<1>2. PICK d \in Delivery : d.receipt = outstanding[i].receipt
                            /\ d.workflow = outstanding[i].workflow
                            /\ Begins(p, d)
  <2>1. outstanding[i] \in Entry
    BY <1>0, ElementsAre
  <2>. QED
    BY <1>1, <2>1 DEF Entry, Delivery
<1>3. /\ outstanding' \in Seq(Entry)
      /\ DOMAIN outstanding' = DOMAIN outstanding
      /\ \A j \in DOMAIN outstanding :
           /\ outstanding'[j].receipt = outstanding[j].receipt
           /\ outstanding'[j].workflow = outstanding[j].workflow
           /\ outstanding[j].left \in 0 .. Lease
           /\ outstanding'[j].left = IF outstanding[j].receipt = d.receipt
                                     THEN Lease ELSE outstanding[j].left
  BY <1>0, <1>1, <1>2, RestartedIs
<1>4. /\ hand' \in [Workers -> Delivery \cup {NoDelivery}]
      /\ kept' \in [Workers -> 0 .. Lease]
      /\ asked' \in [Workflows -> Times]
      /\ hand'[p] = d /\ kept'[p] = Lease
      /\ \A q \in Workers \ {p} : hand'[q] = hand[q] /\ kept'[q] = kept[q]
      /\ \A w \in Workflows : asked'[w] # Never => asked[w] # Never
  BY <1>0, <1>2, BeginsIs
<1>5. TypeOK'
  BY <1>0, <1>1, <1>3, <1>4 DEF TypeOK, Entry
<1>6. ReceiptsDiffer'
  BY <1>3 DEF QueueInv, ReceiptsDiffer
<1>7. HandsAgree'
  <2>1. \A j \in DOMAIN outstanding : outstanding[j].receipt = d.receipt
                                      => outstanding[j].workflow = d.workflow
    BY <1>2 DEF QueueInv, ReceiptsDiffer
  <2>. QED
    BY <1>3, <1>4, <2>1 DEF QueueInv, HandsAgree
<1>8. PromisesKept'
  <2>. SUFFICES ASSUME NEW q \in Workers, NEW j \in DOMAIN outstanding,
                       hand'[q] # NoDelivery, outstanding[j].receipt = hand'[q].receipt
                PROVE  kept'[q] <= outstanding'[j].left
    BY <1>3 DEF PromisesKept
  <2>1. kept'[q] \in 0 .. Lease
    BY <1>4
  <2>2. CASE outstanding[j].receipt = d.receipt
    BY <1>0, <1>3, <2>1, <2>2
  <2>3. CASE outstanding[j].receipt # d.receipt
    <3>1. q # p
      BY <1>4, <2>3
    <3>2. kept[q] <= outstanding[j].left
      BY <1>4, <3>1 DEF QueueInv, PromisesKept
    <3>. QED
      BY <1>3, <1>4, <2>3, <3>1, <3>2
  <2>. QED
    BY <2>2, <2>3
<1>9. SleepersFinite' /\ NoWakeupLost'
  BY <1>1, <1>4 DEF QueueInv, SleepersFinite, NoWakeupLost
<1>10. CancelSticks'
  BY <1>1, <1>3 DEF QueueInv, CancelSticks
<1>. QED
  BY <1>5, <1>6, <1>7, <1>8, <1>9, <1>10 DEF QueueInv

(* A fresh receipt is nobody's, neither the store's nor a worker's that    *)
(* still believes in one the store has forgotten.                          *)
LEMMA NextReadyKeeps ==
  ASSUME QueueInv, NEW p \in Workers, NextReady(p)
  PROVE  QueueInv'
<1>0. /\ TypeOK /\ outstanding \in Seq(Entry) /\ Lease \in 0 .. Lease
      /\ queue \in Seq(Workflows) /\ queue # <<>>
  BY TimesNatural DEF QueueInv, TypeOK, Entry, NextReady
<1>1. PICK r \in Fresh :
        /\ outstanding' = Append(outstanding, [receipt |-> r, workflow |-> Head(queue), left |-> Lease])
        /\ Begins(p, [receipt |-> r, workflow |-> Head(queue)])
  BY DEF NextReady
<1>2. queue' = Tail(queue) /\ UNCHANGED <<sleeping, failures, gone>>
  BY DEF NextReady
<1>3. /\ queue' \in Seq(Workflows)
      /\ \A x : x \in ToSet(queue') => x \in ToSet(queue)
      /\ \A x \in ToSet(queue) : x = Head(queue) \/ x \in ToSet(queue')
      /\ Head(queue) \in ToSet(queue) /\ Head(queue) \in Workflows
  BY <1>0, <1>2, TailHas
<1>4. PICK d \in Delivery, e \in Entry :
        /\ d.receipt = r /\ d.workflow = Head(queue)
        /\ e.receipt = r /\ e.workflow = Head(queue) /\ e.left = Lease
        /\ outstanding' = Append(outstanding, e)
        /\ Begins(p, d)
  <2>1. r \in Receipts
    BY DEF Fresh
  <2>2. [receipt |-> r, workflow |-> Head(queue)] \in Delivery
    BY <1>3, <2>1 DEF Delivery
  <2>3. [receipt |-> r, workflow |-> Head(queue), left |-> Lease] \in Entry
    BY <1>0, <1>3, <2>1 DEF Entry
  <2>. QED
    BY <1>1, <2>2, <2>3
<1>5. /\ \A i \in DOMAIN outstanding : outstanding[i].receipt # r
      /\ \A q \in Workers : hand[q] = NoDelivery \/ hand[q].receipt # r
  BY <1>1 DEF Fresh, Holds
<1>6. PICK n : /\ outstanding' \in Seq(Entry)
               /\ DOMAIN outstanding' = DOMAIN outstanding \cup {n} /\ n \notin DOMAIN outstanding
               /\ \A i \in DOMAIN outstanding : outstanding'[i] = outstanding[i]
               /\ outstanding'[n] = e
  BY <1>0, <1>4, AppendIs
<1>7. /\ hand' \in [Workers -> Delivery \cup {NoDelivery}]
      /\ kept' \in [Workers -> 0 .. Lease]
      /\ asked' \in [Workflows -> Times]
      /\ hand'[p] = d /\ kept'[p] = Lease
      /\ \A q \in Workers \ {p} : hand'[q] = hand[q] /\ kept'[q] = kept[q]
      /\ \A w \in Workflows : asked'[w] = IF w = d.workflow THEN Never ELSE asked[w]
  BY <1>0, <1>4, BeginsIs
<1>8. TypeOK'
  BY <1>0, <1>2, <1>3, <1>6, <1>7 DEF TypeOK, Entry
<1>9. ReceiptsDiffer'
  BY <1>4, <1>5, <1>6 DEF QueueInv, ReceiptsDiffer
<1>10. ASSUME NEW q \in Workers, NEW i \in DOMAIN outstanding', hand'[q] # NoDelivery,
              outstanding'[i].receipt = hand'[q].receipt
       PROVE  outstanding'[i].workflow = hand'[q].workflow /\ kept'[q] <= outstanding'[i].left
  <2>1. CASE i = n
    <3>1. q = p
      BY <1>4, <1>5, <1>6, <1>7, <1>10, <2>1, SMTT(20)
    <3>. QED
      BY <1>0, <1>4, <1>6, <1>7, <2>1, <3>1
  <2>2. CASE i # n
    <3>1. i \in DOMAIN outstanding /\ outstanding'[i] = outstanding[i] /\ q # p
      BY <1>4, <1>5, <1>6, <1>7, <1>10, <2>2
    <3>. QED
      BY <1>7, <1>10, <3>1 DEF QueueInv, HandsAgree, PromisesKept
  <2>. QED
    BY <2>1, <2>2
<1>11. HandsAgree' /\ PromisesKept'
  BY <1>10 DEF HandsAgree, PromisesKept
<1>12. SleepersFinite'
  BY <1>2 DEF QueueInv, SleepersFinite
<1>13. NoWakeupLost'
  BY <1>2, <1>3, <1>4, <1>7 DEF QueueInv, NoWakeupLost
<1>14. CancelSticks'
  <2>. SUFFICES ASSUME NEW w \in Workflows, gone[w]
                PROVE  /\ w \notin ToSet(queue') /\ sleeping[w] = Never
                       /\ \A i \in DOMAIN outstanding' : outstanding'[i].workflow # w
    BY <1>2 DEF CancelSticks
  <2>1. /\ w \notin ToSet(queue) /\ sleeping[w] = Never
        /\ \A i \in DOMAIN outstanding : outstanding[i].workflow # w
    BY DEF QueueInv, CancelSticks
  <2>. QED
    BY <1>3, <1>4, <1>6, <2>1
<1>. QED
  BY <1>8, <1>9, <1>11, <1>12, <1>13, <1>14 DEF QueueInv

LEMMA StutterKeeps ==
  ASSUME QueueInv, UNCHANGED vars
  PROVE  QueueInv'
  BY DEF QueueInv, vars, TypeOK, ReceiptsDiffer, HandsAgree, PromisesKept, SleepersFinite,
         NoWakeupLost, CancelSticks

-----------------------------------------------------------------------------
(* Receipts name deliveries, holders and store agree on them, and          *)
(* everything below: the invariant the properties of this queue rest on.   *)
THEOREM QueueInvariant == Spec => []QueueInv
<1>1. Init => QueueInv
  BY InitiallyHolds
<1>2. QueueInv /\ [Next]_vars => QueueInv'
  <2>. SUFFICES ASSUME QueueInv, [Next]_vars PROVE QueueInv'
    OBVIOUS
  <2>1. CASE Tick
    BY <2>1, TickKeeps
  <2>2. CASE WakeDue
    BY <2>2, WakeDueKeeps
  <2>3. ASSUME NEW w \in Workflows, MakeReady(w) PROVE QueueInv'
    BY <2>3, MakeReadyKeeps
  <2>4. ASSUME NEW w \in Workflows, Cancel(w) PROVE QueueInv'
    BY <2>4, CancelKeeps
  <2>5. ASSUME NEW p \in Workers, Reclaim(p) PROVE QueueInv'
    BY <2>5, ReclaimKeeps
  <2>6. ASSUME NEW p \in Workers, NextReady(p) PROVE QueueInv'
    BY <2>6, NextReadyKeeps
  <2>7. ASSUME NEW p \in Workers, Done(p) PROVE QueueInv'
    BY <2>7, DoneKeeps
  <2>8. ASSUME NEW p \in Workers, NEW delay \in Delays, WakeAt(p, delay) PROVE QueueInv'
    BY <2>8, WakeAtKeeps
  <2>9. ASSUME NEW p \in Workers, Extend(p) PROVE QueueInv'
    BY <2>9, ExtendKeeps
  <2>10. ASSUME NEW p \in Workers, Abandon(p) PROVE QueueInv'
    BY <2>10, AbandonKeeps
  <2>11. CASE UNCHANGED vars
    BY <2>11, StutterKeeps
  <2>. QED
    BY <2>1, <2>2, <2>3, <2>4, <2>5, <2>6, <2>7, <2>8, <2>9, <2>10, <2>11 DEF Next, Pull, Answer
<1>. QED
  BY <1>1, <1>2, PTL DEF Spec

(* The queue keeps its types for any workers, workflows, receipts, lease   *)
(* and delays (memory.py: the fields of `MemoryScheduler').                *)
THEOREM TypesHold == Spec => []TypeOK
<1>1. QueueInv => TypeOK
  BY DEF QueueInv
<1>. QED
  BY <1>1, QueueInvariant, PTL

(* What was asked for and not begun stays in the queue or asleep, whoever  *)
(* answers for whatever in the meantime (memory.py: `wake_at', `done').    *)
THEOREM WakeupsAreKept == Spec => []NoWakeupLost
<1>1. QueueInv => NoWakeupLost
  BY DEF QueueInv
<1>. QED
  BY <1>1, QueueInvariant, PTL

(* Nothing puts a cancelled workflow back, however late the answers to     *)
(* the deliveries that were out come in (memory.py: `cancel', `wake_at').  *)
THEOREM CancellationsStick == Spec => []CancelSticks
<1>1. QueueInv => CancelSticks
  BY DEF QueueInv
<1>. QED
  BY <1>1, QueueInvariant, PTL

(* A worker loses its delivery to another only when what it was promised   *)
(* has run out (memory.py: `next_ready' and `_reclaim').                   *)
THEOREM TakeoversAreFair == Spec => TakenOverWhenSilent
<1>1. ASSUME QueueInv, [Next]_vars, NEW p \in Workers, NEW q \in Workers,
             hand[q] = NoDelivery, hand[p] # NoDelivery, hand'[q] = hand[p]
      PROVE  kept[p] = 0 \/ ~ Holds(hand[p].receipt)
  <2>0. TypeOK /\ q # p /\ hand'[q] # hand[q]
    BY <1>1 DEF QueueInv
  <2>1. Reclaim(q) \/ NextReady(q)
    <3>1. ~ (\E w \in Workflows : MakeReady(w) \/ Cancel(w)) /\ ~ Tick /\ ~ WakeDue /\ ~ UNCHANGED vars
      BY <2>0 DEF MakeReady, Cancel, Tick, WakeDue, vars
    <3>2. \A o \in Workers : ~ Extend(o)
      BY <2>0 DEF Extend
    <3>3. ASSUME NEW o \in Workers, LetsGo(o) PROVE FALSE
      BY <1>1, <2>0, <3>3, LetsGoIs
    <3>4. \A o \in Workers : ~ Done(o) /\ ~ Abandon(o) /\ ~ \E delay \in Delays : WakeAt(o, delay)
      BY <3>3 DEF Done, Abandon, WakeAt
    <3>5. ASSUME NEW o \in Workers, Reclaim(o) \/ NextReady(o) PROVE o = q
      BY <2>0, <3>5 DEF Reclaim, NextReady, Begins, TypeOK
    <3>. QED
      BY <1>1, <3>1, <3>2, <3>4, <3>5 DEF Next, Pull, Answer
  <2>2. CASE Reclaim(q)
    <3>1. PICK i \in DOMAIN outstanding :
            /\ outstanding[i].left = 0
            /\ Begins(q, [receipt |-> outstanding[i].receipt, workflow |-> outstanding[i].workflow])
      BY <2>2 DEF Reclaim
    <3>2. hand[p].receipt = outstanding[i].receipt
      BY <1>1, <2>0, <3>1 DEF Begins, TypeOK
    <3>3. kept[p] <= 0
      BY <1>1, <3>1, <3>2 DEF QueueInv, PromisesKept
    <3>4. kept[p] \in 0 .. Lease
      BY <2>0 DEF TypeOK
    <3>. QED
      BY <3>3, <3>4, TimesNatural
  <2>3. CASE NextReady(q)
    <3>1. PICK r \in Fresh : Begins(q, [receipt |-> r, workflow |-> Head(queue)])
      BY <2>3 DEF NextReady
    <3>2. hand[p].receipt = r
      BY <1>1, <2>0, <3>1 DEF Begins, TypeOK
    <3>. QED
      BY <1>1, <3>1, <3>2 DEF Fresh
  <2>. QED
    BY <2>1, <2>2, <2>3
<1>2. QueueInv /\ [Next]_vars =>
        [\A p, q \in Workers :
           hand[q] = NoDelivery /\ hand[p] # NoDelivery /\ hand'[q] = hand[p]
             => kept[p] = 0 \/ ~ Holds(hand[p].receipt)]_vars
  BY <1>1
<1>. QED
  BY <1>2, QueueInvariant, PTL DEF Spec, TakenOverWhenSilent

-----------------------------------------------------------------------------
(* The router: any tables of routes, any paths.                               *)

LEMMA LowestOf ==
  ASSUME NEW T \in SUBSET Nat, T # {}
  PROVE  Min(T) \in T /\ \A y \in T : Min(T) <= y
<1> DEFINE R == {pair \in Nat \X Nat : pair[1] < pair[2]}
<1>1. IsWellFoundedOn(R, Nat)
  BY NatLessThanWellFounded DEF OpToRel
<1>2. \A x, y \in Nat : x < y => <<x, y>> \in R
  OBVIOUS
<1>. HIDE DEF R
<1>3. PICK x \in T : \A y \in T : <<y, x>> \notin R
  BY <1>1, WFMin
<1>4. \A y \in T : y \in Nat /\ x \in Nat /\ ~ (y < x)
  BY <1>2, <1>3
<1>5. \E z \in T : \A y \in T : z <= y
  BY <1>4
<1>. QED
  BY <1>5 DEF Min

LEMMA HighestOf ==
  ASSUME NEW n \in Nat, NEW T \in SUBSET (1 .. n), T # {}
  PROVE  Max(T) \in T
<1>. DEFINE D == {n - i : i \in T}
<1>1. D \in SUBSET Nat /\ D # {}
  <2>1. \A i \in T : n - i \in Nat
    OBVIOUS
  <2>2. PICK i \in T : TRUE
    OBVIOUS
  <2>3. n - i \in D
    OBVIOUS
  <2>4. D \in SUBSET Nat
    BY <2>1
  <2>. QED
    BY <2>3, <2>4
<1>. HIDE DEF D
<1>2. PICK d \in D : \A e \in D : d <= e
  BY <1>1, LowestOf
<1>3. PICK i \in T : d = n - i
  BY DEF D
<1>4. \A k \in T : n - k \in D /\ k \in 1 .. n
  BY DEF D
<1>5. \A k \in T : i >= k
  BY <1>2, <1>3, <1>4
<1>. QED
  BY <1>5 DEF Max

(* How many of some numbers come before one of them.                          *)
LowerIn(numbers, i) == Cardinality({j \in numbers : j < i})

LEMMA LowerIsCounted ==
  ASSUME NEW n \in Nat, NEW numbers \in SUBSET (1 .. n), NEW i \in numbers
  PROVE  /\ IsFiniteSet(numbers) /\ Cardinality(numbers) \in Nat
         /\ IsFiniteSet({j \in numbers : j < i})
         /\ LowerIn(numbers, i) \in 0 .. Cardinality(numbers) - 1
<1>. DEFINE Lower == {j \in numbers : j < i}
<1>1. IsFiniteSet(1 .. n)
  <2>1. 1 \in Int /\ n \in Int
    OBVIOUS
  <2>. QED
    BY ONLY <2>1, FS_Interval
<1>2. IsFiniteSet(numbers) /\ Cardinality(numbers) \in Nat
  BY <1>1, FS_Subset, FS_CardinalityType
<1>3. i \in Int
  OBVIOUS
<1>4. Lower \in SUBSET (numbers \ {i})
  BY <1>3
<1>5. IsFiniteSet(numbers \ {i}) /\ Cardinality(numbers \ {i}) = Cardinality(numbers) - 1
  BY <1>2, FS_RemoveElement
<1>. HIDE DEF Lower
<1>6. IsFiniteSet(Lower) /\ Cardinality(Lower) <= Cardinality(numbers \ {i})
  BY <1>4, <1>5, FS_Subset
<1>7. Cardinality(Lower) \in Nat
  BY <1>6, FS_CardinalityType
<1>8. Cardinality(Lower) \in 0 .. Cardinality(numbers) - 1
  BY <1>2, <1>5, <1>6, <1>7
<1>. QED
  BY <1>2, <1>6, <1>8 DEF Lower, LowerIn

LEMMA LowerGrows ==
  ASSUME NEW n \in Nat, NEW numbers \in SUBSET (1 .. n), NEW i \in numbers, NEW j \in numbers, i < j
  PROVE  LowerIn(numbers, i) < LowerIn(numbers, j)
<1>. DEFINE Lower(k) == {m \in numbers : m < k}
<1>1. i \in Int /\ j \in Int /\ \A m \in numbers : m \in Int
  OBVIOUS
<1>2. Lower(i) \cup {i} \in SUBSET Lower(j) /\ i \notin Lower(i)
  <2>1. \A m \in numbers : m < i => m < j
    BY <1>1
  <2>2. i < j /\ ~ (i < i)
    BY <1>1
  <2>. QED
    BY <2>1, <2>2
<1>3. IsFiniteSet(Lower(i)) /\ IsFiniteSet(Lower(j))
  BY LowerIsCounted
<1>. HIDE DEF Lower
<1>4. /\ IsFiniteSet(Lower(i) \cup {i})
      /\ Cardinality(Lower(i) \cup {i}) = Cardinality(Lower(i)) + 1
  BY <1>2, <1>3, FS_AddElement
<1>5. Cardinality(Lower(i) \cup {i}) <= Cardinality(Lower(j))
  BY <1>2, <1>3, FS_Subset
<1>6. Cardinality(Lower(i)) \in Nat /\ Cardinality(Lower(j)) \in Nat
  BY <1>3, FS_CardinalityType
<1>7. Cardinality(Lower(i)) < Cardinality(Lower(j))
  BY <1>4, <1>5, <1>6
<1>. QED
  BY <1>7 DEF Lower, LowerIn

(* Of some numbers the k-th is the one with k - 1 below it, and there is one. *)
LEMMA EveryPlaceTaken ==
  ASSUME NEW n \in Nat, NEW numbers \in SUBSET (1 .. n), NEW k \in 1 .. Cardinality(numbers)
  PROVE  \E i \in numbers : LowerIn(numbers, i) = k - 1
<1>. DEFINE size == Cardinality(numbers)
            Rank == [i \in numbers |-> LowerIn(numbers, i) + 1]
<1>1. IsFiniteSet(numbers) /\ size \in Nat
  <2>1. IsFiniteSet(1 .. n)
    <3>1. 1 \in Int /\ n \in Int
      OBVIOUS
    <3>. QED
      BY ONLY <3>1, FS_Interval
  <2>. QED
    BY <2>1, FS_Subset, FS_CardinalityType
<1>2. \A i \in numbers : LowerIn(numbers, i) \in 0 .. size - 1
  BY LowerIsCounted
<1>3. \A i, j \in numbers : i < j => LowerIn(numbers, i) < LowerIn(numbers, j)
  BY LowerGrows
<1>4. \A i \in numbers : i \in Int
  OBVIOUS
<1>5. ASSUME NEW i \in numbers, NEW j \in numbers, Rank[i] = Rank[j]
      PROVE  i = j
  <2>1. LowerIn(numbers, i) = LowerIn(numbers, j)
    BY <1>2, <1>5
  <2>2. ~ (i < j) /\ ~ (j < i)
    BY <1>2, <1>3, <2>1
  <2>. QED
    BY <1>4, <2>2
<1>6. Rank \in [numbers -> 1 .. size]
  BY <1>1, <1>2
<1>. HIDE DEF Rank
<1>7. Rank \in Injection(numbers, 1 .. size)
  BY <1>5, <1>6 DEF Injection, IsInjective
<1>8. IsFiniteSet(1 .. size) /\ Cardinality(1 .. size) = size
  <2>1. 1 \in Int /\ size \in Int
    BY <1>1
  <2>2. Cardinality(1 .. size) = IF 1 > size THEN 0 ELSE size - 1 + 1
    BY ONLY <2>1, FS_Interval
  <2>3. IsFiniteSet(1 .. size)
    BY ONLY <2>1, FS_Interval
  <2>. QED
    BY <1>1, <2>2, <2>3
<1>9. Cardinality(numbers) = Cardinality(1 .. size)
  BY <1>8
<1>10. Rank \in Surjection(numbers, 1 .. size)
  BY <1>1, <1>7, <1>8, <1>9, FS_Injection
<1>11. PICK i \in numbers : Rank[i] = k
  BY <1>10 DEF Surjection
<1>12. LowerIn(numbers, i) = k - 1
  BY <1>1, <1>2, <1>11 DEF Rank
<1>. QED
  BY <1>12

(* Numbers in their order are all of them, none else, and each below the next.*)
LEMMA AscendingIs ==
  ASSUME NEW n \in Nat, NEW numbers \in SUBSET (1 .. n)
  PROVE  /\ Ascending(numbers) \in Seq(numbers)
         /\ \A k, m \in DOMAIN Ascending(numbers) : k < m => Ascending(numbers)[k] < Ascending(numbers)[m]
         /\ \A i \in numbers : \E k \in DOMAIN Ascending(numbers) : Ascending(numbers)[k] = i
<1>. DEFINE size == Cardinality(numbers)
            At == [k \in 1 .. size |-> CHOOSE i \in numbers : LowerIn(numbers, i) = k - 1]
<1>1. size \in Nat
  <2>1. IsFiniteSet(1 .. n)
    <3>1. 1 \in Int /\ n \in Int
      OBVIOUS
    <3>. QED
      BY ONLY <3>1, FS_Interval
  <2>. QED
    BY <2>1, FS_Subset, FS_CardinalityType
<1>2. \A i \in numbers : LowerIn(numbers, i) \in 0 .. size - 1
  BY LowerIsCounted
<1>3. \A i, j \in numbers : i < j => LowerIn(numbers, i) < LowerIn(numbers, j)
  BY LowerGrows
<1>4. \A i \in numbers : i \in Int
  OBVIOUS
<1>5. \A k \in 1 .. size : At[k] \in numbers /\ LowerIn(numbers, At[k]) = k - 1
  BY EveryPlaceTaken
<1>6. Ascending(numbers) = At
  BY DEF Ascending, LowerIn
<1>7. At \in [1 .. size -> numbers]
  <2>1. At = [k \in 1 .. size |-> At[k]]
    OBVIOUS
  <2>. HIDE DEF At
  <2>. QED
    BY <1>5, <2>1
<1>. HIDE DEF At
<1>8. ASSUME NEW i \in numbers, NEW j \in numbers, LowerIn(numbers, i) = LowerIn(numbers, j)
      PROVE  i = j
  BY <1>2, <1>3, <1>4, <1>8
<1>9. ASSUME NEW k \in 1 .. size, NEW m \in 1 .. size, k < m
      PROVE  At[k] < At[m]
  <2>1. LowerIn(numbers, At[k]) < LowerIn(numbers, At[m])
    BY <1>1, <1>5, <1>9
  <2>2. At[k] \in numbers /\ At[m] \in numbers /\ At[k] \in Int /\ At[m] \in Int
    BY <1>4, <1>5
  <2>3. LowerIn(numbers, At[k]) \in Int /\ LowerIn(numbers, At[m]) \in Int
    BY <1>2, <2>2
  <2>. QED
    BY <1>3, <2>1, <2>2, <2>3
<1>10. ASSUME NEW i \in numbers
       PROVE  \E k \in 1 .. size : At[k] = i
  <2>. DEFINE k == LowerIn(numbers, i) + 1
  <2>1. k \in 1 .. size /\ LowerIn(numbers, i) = k - 1
    BY <1>1, <1>2
  <2>2. At[k] = i
    BY <1>5, <1>8, <2>1
  <2>. QED
    BY <2>1, <2>2
<1>11. At \in Seq(numbers) /\ DOMAIN At = 1 .. size
  BY <1>1, <1>7
<1>. QED
  BY <1>6, <1>9, <1>10, <1>11

-----------------------------------------------------------------------------
(* A table that was built is rows of segments, and so is a path a sequence.   *)
SegmentShapes == RouteSegments \cup {Rest("mount", "path")}
RowShapes == [segments : Seq(SegmentShapes), target : Int, verbs : SUBSET STRING]

LEMMA FlattenedIsTable ==
  ASSUME entries \in Seq(RouteEntries)
  PROVE  Flattened \in Seq(RowShapes)
<1>. DEFINE n == Len(entries)
            F == {i \in DOMAIN entries : IsRoute(entries[i]) /\ ~\E j \in 1 .. i - 1 : SameRoute(i, j)}
            M == {i \in DOMAIN entries : ~IsRoute(entries[i])}
            A == [k \in DOMAIN Firsts |-> Merged(Firsts[k])]
            B == [k \in 1 .. 2 * Len(Mounts) |-> Delegated(Mounts[(k + 1) \div 2])[2 - (k % 2)]]
<1>1. n \in Nat /\ F \in SUBSET (1 .. n) /\ M \in SUBSET (1 .. n)
  OBVIOUS
<1>2. Ascending(F) \in Seq(F) /\ Ascending(M) \in Seq(M)
  <2>. HIDE DEF n, F, M
  <2>. QED
    BY <1>1, AscendingIs
<1>3. Firsts \in Seq(1 .. n) /\ Mounts \in Seq(1 .. n)
  <2>1. Firsts \in Seq(F) /\ Mounts \in Seq(M)
    BY <1>2 DEF Firsts, Mounts
  <2>2. F \subseteq 1 .. n /\ M \subseteq 1 .. n
    OBVIOUS
  <2>. HIDE DEF n, F, M
  <2>. QED
    BY <2>1, <2>2, SeqMonotonic
<1>4. ASSUME NEW i \in 1 .. n
      PROVE  Merged(i) \in RowShapes /\ Delegated(i) \in Seq(RowShapes) /\ Len(Delegated(i)) = 2
  <2>1. entries[i] \in RouteEntries /\ i \in Int
    OBVIOUS
  <2>2. entries[i].segments \in Seq(SegmentShapes)
    <3>1. entries[i].segments \in Seq(RouteSegments)
      BY <2>1 DEF RouteEntries
    <3>2. RouteSegments \subseteq SegmentShapes
      BY DEF SegmentShapes
    <3>. QED
      BY <3>1, <3>2, SeqMonotonic
  <2>3. {entries[j].verb : j \in {k \in DOMAIN entries : SameRoute(i, k)}} \in SUBSET STRING
    <3>1. \A j \in DOMAIN entries : entries[j] \in RouteEntries
      OBVIOUS
    <3>2. \A j \in DOMAIN entries : entries[j].verb \in STRING
      BY <3>1 DEF RouteEntries
    <3>. QED
      BY <3>2
  <2>4. Rest("mount", "path") \in SegmentShapes
    BY DEF SegmentShapes
  <2>5. Append(entries[i].segments, Rest("mount", "path")) \in Seq(SegmentShapes)
    BY <2>2, <2>4
  <2>6. Merged(i) \in RowShapes
    BY <2>1, <2>2, <2>3 DEF Merged, RowShapes
  <2>. DEFINE r == [segments |-> entries[i].segments, target |-> i, verbs |-> {}]
              q == [segments |-> Append(entries[i].segments, Rest("mount", "path")),
                    target |-> i, verbs |-> {}]
  <2>7. r \in RowShapes /\ q \in RowShapes
    BY <2>1, <2>2, <2>5 DEF RowShapes
  <2>8. Delegated(i) = <<r, q>>
    BY DEF Delegated
  <2>. HIDE DEF r, q
  <2>. QED
    BY <2>6, <2>7, <2>8
<1>5. A \in Seq(RowShapes)
  <2>1. \A k \in DOMAIN Firsts : Firsts[k] \in 1 .. n
    BY <1>3
  <2>2. \A k \in DOMAIN Firsts : Merged(Firsts[k]) \in RowShapes
    BY <1>4, <2>1
  <2>3. DOMAIN Firsts = 1 .. Len(Firsts) /\ Len(Firsts) \in Nat
    BY <1>3
  <2>. QED
    BY <2>2, <2>3
<1>6. B \in Seq(RowShapes)
  <2>1. Len(Mounts) \in Nat /\ \A k \in 1 .. Len(Mounts) : Mounts[k] \in 1 .. n
    BY <1>3
  <2>. DEFINE size == Len(Mounts)
  <2>2. ASSUME NEW k \in 1 .. 2 * size
        PROVE  (k + 1) \div 2 \in 1 .. size /\ 2 - (k % 2) \in 1 .. 2
    <3>. HIDE DEF size
    <3>1. size \in Nat
      BY <2>1 DEF size
    <3>. QED
      BY <3>1
  <2>3. ASSUME NEW k \in 1 .. 2 * size
        PROVE  Delegated(Mounts[(k + 1) \div 2])[2 - (k % 2)] \in RowShapes
    BY <1>4, <2>1, <2>2
  <2>. QED
    BY <2>1, <2>3
<1>. HIDE DEF A, B
<1>7. A \o B \in Seq(RowShapes)
  BY <1>5, <1>6
<1>. QED
  BY <1>7 DEF A, B, Flattened

LEMMA SplitPathIs ==
  ASSUME NEW path \in Seq(STRING)
  PROVE  SplitPath(path) \in Seq(STRING)
<1>. DEFINE full == {i \in DOMAIN path : path[i] # Blank}
            n == Len(path)
<1>1. n \in Nat /\ DOMAIN path = 1 .. n
  OBVIOUS
<1>2. full \in SUBSET (1 .. n) /\ full \in SUBSET Nat
  BY <1>1
<1>3. CASE full = {}
  BY <1>3 DEF SplitPath
<1>4. CASE full # {}
  <2>. HIDE DEF full
  <2>1. Min(full) \in full
    BY <1>2, <1>4, LowestOf
  <2>2. Max(full) \in full
    BY <1>1, <1>2, <1>4, HighestOf
  <2>3. Min(full) \in 1 .. n /\ Max(full) \in 1 .. n
    BY <1>2, <2>1, <2>2
  <2>. DEFINE a == Min(full)
              b == Max(full)
  <2>. HIDE DEF a, b
  <2>4. a \in 1 .. n /\ b \in 1 .. n
    BY <2>3 DEF a, b
  <2>5. SubSeq(path, a, b) \in Seq(STRING)
    BY <1>1, <2>4
  <2>. QED
    BY <1>4, <2>5 DEF SplitPath, full, a, b
<1>. QED
  BY <1>3, <1>4

-----------------------------------------------------------------------------
(* The keys that lead to a row.                                               *)
Words == STRING \cup {"slot", "path"}
TrieKeys == {"literal", "param", "rest"} \X Words
RowsFit == flat \in Seq(RowShapes)
SpineOf(n) == Spine(flat[n].segments)

LEMMA KeyIs ==
  ASSUME NEW s \in SegmentShapes
  PROVE  /\ Key(s) \in TrieKeys /\ s.converter \in Words /\ Key(s)[1] = s.kind
         /\ s.kind \in {"literal", "param", "rest"}
         /\ s.kind = "literal" => Key(s) = <<"literal", s.text>>
         /\ s.kind = "param" => Key(s) = <<"param", s.converter>>
         /\ s.kind = "rest" => Key(s) = <<"rest", "slot">>
<1>1. CASE s \in RouteSegments
  <2>1. s.kind \in {"literal", "param", "rest"} /\ s.text \in STRING /\ s.converter \in STRING
    BY <1>1 DEF RouteSegments
  <2>2. s.text \in Words /\ s.converter \in Words /\ "slot" \in Words
    BY <2>1 DEF Words
  <2>3. s.kind = "literal" => Key(s) = <<"literal", s.text>>
    BY DEF Key
  <2>4. s.kind = "param" => Key(s) = <<"param", s.converter>>
    BY DEF Key
  <2>5. s.kind = "rest" => Key(s) = <<"rest", "slot">>
    BY DEF Key
  <2>. QED
    BY <2>1, <2>2, <2>3, <2>4, <2>5 DEF TrieKeys
<1>2. CASE s = Rest("mount", "path")
  <2>1. s.kind = "rest" /\ s.converter = "path"
    BY <1>2 DEF Rest
  <2>2. "slot" \in Words /\ "path" \in Words
    BY DEF Words
  <2>3. Key(s) = <<"rest", "slot">>
    BY <2>1 DEF Key
  <2>. QED
    BY <2>1, <2>2, <2>3 DEF TrieKeys
<1>. QED
  BY <1>1, <1>2 DEF SegmentShapes

LEMMA SpineIs ==
  ASSUME NEW segments \in Seq(SegmentShapes)
  PROVE  /\ Spine(segments) \in Seq(TrieKeys) /\ Len(Spine(segments)) = Len(segments)
         /\ Len(segments) \in Nat
         /\ \A i \in 1 .. Len(segments) : /\ segments[i] \in SegmentShapes
                                          /\ Spine(segments)[i] = Key(segments[i])
<1>. DEFINE n == Len(segments)
            z == [i \in 1 .. n |-> Key(segments[i])]
<1>1. n \in Nat /\ DOMAIN segments = 1 .. n /\ \A i \in 1 .. n : segments[i] \in SegmentShapes
  OBVIOUS
<1>2. Spine(segments) = z
  BY <1>1 DEF Spine
<1>3. \A i \in 1 .. n : Key(segments[i]) \in TrieKeys
  BY <1>1, KeyIs
<1>. HIDE DEF n
<1>4. z \in Seq(TrieKeys) /\ Len(z) = n /\ \A i \in 1 .. n : z[i] = Key(segments[i])
  BY <1>1, <1>3
<1>. QED
  BY <1>1, <1>2, <1>4 DEF n

LEMMA RowIs ==
  ASSUME RowsFit, NEW n \in DOMAIN flat
  PROVE  /\ flat[n].segments \in Seq(SegmentShapes) /\ Len(flat[n].segments) \in Nat
         /\ DOMAIN flat[n].segments = 1 .. Len(flat[n].segments)
         /\ SpineOf(n) \in Seq(TrieKeys) /\ Len(SpineOf(n)) = Len(flat[n].segments)
         /\ \A i \in 1 .. Len(flat[n].segments) :
              flat[n].segments[i] \in SegmentShapes /\ SpineOf(n)[i] = Key(flat[n].segments[i])
<1>1. flat[n] \in RowShapes
  BY DEF RowsFit
<1>. DEFINE segments == flat[n].segments
<1>2. segments \in Seq(SegmentShapes)
  BY <1>1 DEF RowShapes
<1>. HIDE DEF segments
<1>3. /\ Len(segments) \in Nat /\ DOMAIN segments = 1 .. Len(segments)
      /\ Spine(segments) \in Seq(TrieKeys) /\ Len(Spine(segments)) = Len(segments)
      /\ \A i \in 1 .. Len(segments) : segments[i] \in SegmentShapes /\ Spine(segments)[i] = Key(segments[i])
  BY <1>2, SpineIs
<1>. QED
  BY <1>2, <1>3 DEF segments, SpineOf

LEMMA KeyPrefixIs ==
  ASSUME NEW a \in Seq(TrieKeys), NEW b \in Seq(TrieKeys)
  PROVE  IsPrefix(a, b) <=> Len(a) <= Len(b) /\ \A i \in 1 .. Len(a) : a[i] = b[i]
<1>1. Len(a) \in Nat /\ Len(b) \in Nat
  OBVIOUS
<1>2. SubSeq(a, 1, Len(a)) = a
  BY SubSeqFull
<1>3. ASSUME Len(a) <= Len(b)
      PROVE  SubSeq(b, 1, Len(a)) = a <=> \A i \in 1 .. Len(a) : a[i] = b[i]
  <2>1. \A i \in 1 .. Len(a) : b[i] \in TrieKeys
    BY <1>1, <1>3
  <2>2. /\ SubSeq(b, 1, Len(a)) \in Seq(TrieKeys) /\ Len(SubSeq(b, 1, Len(a))) = Len(a)
        /\ \A i \in 1 .. Len(a) : SubSeq(b, 1, Len(a))[i] = b[i]
    BY <1>1, <2>1, SubSeqProperties
  <2>3. ASSUME \A i \in 1 .. Len(a) : a[i] = b[i]
        PROVE  SubSeq(b, 1, Len(a)) = a
    BY <2>2, <2>3, SeqEqual
  <2>. QED
    BY <2>2, <2>3
<1>. QED
  BY <1>2, <1>3 DEF IsPrefix

(* The beginning of a sequence.                                               *)
LEMMA BeginningIs ==
  ASSUME NEW S, NEW a \in Seq(S), NEW n \in 0 .. Len(a)
  PROVE  /\ SubSeq(a, 1, n) \in Seq(S) /\ Len(SubSeq(a, 1, n)) = n
         /\ \A i \in 1 .. n : SubSeq(a, 1, n)[i] = a[i]
<1>1. Len(a) \in Nat /\ n \in Int /\ 1 \in Int /\ n \in Nat
  OBVIOUS
<1>2. \A i \in 1 .. n : a[i] \in S
  BY <1>1
<1>3. /\ SubSeq(a, 1, n) \in Seq(S) /\ Len(SubSeq(a, 1, n)) = IF 1 <= n THEN n - 1 + 1 ELSE 0
      /\ \A i \in 1 .. n - 1 + 1 : SubSeq(a, 1, n)[i] = a[1 + i - 1]
  BY <1>1, <1>2, SubSeqProperties
<1>. QED
  BY <1>1, <1>3

LEMMA BeginningsAgree ==
  ASSUME NEW S, NEW a \in Seq(S), NEW b \in Seq(S), NEW n \in 0 .. Len(a), n <= Len(b)
  PROVE  SubSeq(a, 1, n) = SubSeq(b, 1, n) <=> \A i \in 1 .. n : a[i] = b[i]
<1>. DEFINE x == SubSeq(a, 1, n)
            y == SubSeq(b, 1, n)
<1>1. n \in 0 .. Len(b)
  OBVIOUS
<1>2. x \in Seq(S) /\ Len(x) = n /\ \A i \in 1 .. n : x[i] = a[i]
  BY BeginningIs
<1>3. y \in Seq(S) /\ Len(y) = n /\ \A i \in 1 .. n : y[i] = b[i]
  BY <1>1, BeginningIs
<1>. HIDE DEF x, y
<1>4. (\A i \in 1 .. n : x[i] = y[i]) => x = y
  BY <1>2, <1>3, SeqEqual
<1>. QED
  BY <1>2, <1>3, <1>4 DEF x, y

LEMMA SpineOfBeginning ==
  ASSUME NEW segments \in Seq(SegmentShapes), NEW n \in 0 .. Len(segments)
  PROVE  Spine(SubSeq(segments, 1, n)) = SubSeq(Spine(segments), 1, n)
<1>. DEFINE part == SubSeq(segments, 1, n)
            s == Spine(segments)
<1>1. part \in Seq(SegmentShapes) /\ Len(part) = n /\ \A i \in 1 .. n : part[i] = segments[i]
  BY BeginningIs
<1>2. s \in Seq(TrieKeys) /\ Len(s) = Len(segments) /\ \A i \in 1 .. Len(segments) : s[i] = Key(segments[i])
  BY SpineIs
<1>. HIDE DEF part, s
<1>3. /\ Spine(part) \in Seq(TrieKeys) /\ Len(Spine(part)) = n
      /\ \A i \in 1 .. n : Spine(part)[i] = Key(part[i])
  BY <1>1, SpineIs
<1>4. /\ SubSeq(s, 1, n) \in Seq(TrieKeys) /\ Len(SubSeq(s, 1, n)) = n
      /\ \A i \in 1 .. n : SubSeq(s, 1, n)[i] = s[i]
  <2>1. n \in 0 .. Len(s)
    BY <1>2
  <2>. QED
    BY <1>2, <2>1, BeginningIs
<1>5. \A i \in 1 .. n : Spine(part)[i] = SubSeq(s, 1, n)[i]
  <2>1. Len(segments) \in Nat /\ \A i \in 1 .. n : i \in 1 .. Len(segments)
    OBVIOUS
  <2>. QED
    BY <1>1, <1>2, <1>3, <1>4, <2>1
<1>6. Spine(part) = SubSeq(s, 1, n)
  BY <1>3, <1>4, <1>5, SeqEqual
<1>. QED
  BY <1>6 DEF part, s

-----------------------------------------------------------------------------
(* Which of two branches the walk tries first: where they part, by the kind   *)
(* of the keys, and of two converters but str by the row that brought each.   *)
KeyClass(key) ==
    CASE key[1] = "literal" -> 0
      [] key[1] = "rest" -> 3
      [] key[1] = "param" /\ key[2] = "str" -> 2
      [] OTHER -> 1

PartAt(a, b, i) ==
    LET first(node) == Min(Leading(SubSeq(node, 1, i)))
    IN  /\ i \in 1 .. Len(a) /\ i \in 1 .. Len(b)
        /\ \A j \in 1 .. i - 1 : a[j] = b[j]
        /\ a[i] # b[i]
        /\ \/ KeyClass(a[i]) < KeyClass(b[i])
           \/ KeyClass(a[i]) = KeyClass(b[i]) /\ first(a) < first(b)
TriedBefore(a, b) == \E i \in Nat : PartAt(a, b, i)

LEMMA ClassIs ==
  ASSUME NEW s \in SegmentShapes
  PROVE  Class(s) = KeyClass(Key(s))
<1>1. /\ Key(s)[1] = s.kind /\ s.kind \in {"literal", "param", "rest"}
      /\ s.kind = "param" => Key(s)[2] = s.converter
  BY KeyIs
<1>. QED
  BY <1>1 DEF Class, KeyClass

LEMMA PartBelow ==
  ASSUME NEW a \in Seq(TrieKeys), NEW b \in Seq(TrieKeys),
         NEW c \in Seq(TrieKeys), NEW d \in Seq(TrieKeys),
         IsPrefix(a, c), IsPrefix(b, d), TriedBefore(a, b)
  PROVE  TriedBefore(c, d)
<1>1. PICK i \in Nat : PartAt(a, b, i)
  BY DEF TriedBefore
<1>2. /\ Len(a) <= Len(c) /\ \A j \in 1 .. Len(a) : a[j] = c[j]
      /\ Len(b) <= Len(d) /\ \A j \in 1 .. Len(b) : b[j] = d[j]
  BY KeyPrefixIs
<1>3. i \in 1 .. Len(a) /\ i \in 1 .. Len(b) /\ \A j \in 1 .. i - 1 : a[j] = b[j]
  BY <1>1 DEF PartAt
<1>4. Len(a) \in Nat /\ Len(b) \in Nat /\ Len(c) \in Nat /\ Len(d) \in Nat
  OBVIOUS
<1>5. i \in 1 .. Len(c) /\ i \in 1 .. Len(d) /\ \A j \in 1 .. i - 1 : c[j] = d[j]
  <2>1. i \in 1 .. Len(c) /\ i \in 1 .. Len(d)
    BY <1>2, <1>3, <1>4
  <2>2. \A j \in 1 .. i - 1 : j \in 1 .. Len(a) /\ j \in 1 .. Len(b)
    BY <1>3, <1>4
  <2>3. \A j \in 1 .. i - 1 : c[j] = d[j]
    BY <1>2, <1>3, <2>2
  <2>. QED
    BY <2>1, <2>3
<1>6. a[i] = c[i] /\ b[i] = d[i]
  BY <1>2, <1>3
<1>7. SubSeq(a, 1, i) = SubSeq(c, 1, i) /\ SubSeq(b, 1, i) = SubSeq(d, 1, i)
  <2>1. i \in 0 .. Len(a) /\ i <= Len(c) /\ i \in 0 .. Len(b) /\ i <= Len(d)
    BY <1>3, <1>4, <1>5
  <2>2. \A j \in 1 .. i : a[j] = c[j] /\ b[j] = d[j]
    BY <1>2, <1>3, <1>4
  <2>. QED
    BY <2>1, <2>2, BeginningsAgree
<1>8. PartAt(c, d, i)
  BY <1>1, <1>5, <1>6, <1>7 DEF PartAt
<1>. QED
  BY <1>8 DEF TriedBefore

(* The order of the branches is the order of the rows below them.             *)
LEMMA PartPrecedes ==
  ASSUME RowsFit, NEW m \in DOMAIN flat, NEW n \in DOMAIN flat, TriedBefore(SpineOf(m), SpineOf(n))
  PROVE  m # n /\ Precedes(m, n)
<1>. DEFINE p == flat[m].segments
            q == flat[n].segments
            a == SpineOf(m)
            b == SpineOf(n)
            Fork(i) == Spine(SubSeq(p, 1, i - 1)) = Spine(SubSeq(q, 1, i - 1)) /\ Key(p[i]) # Key(q[i])
<1>1. p \in Seq(SegmentShapes) /\ q \in Seq(SegmentShapes)
  BY RowIs
<1>. HIDE DEF p, q
<1>2. /\ a = Spine(p) /\ a \in Seq(TrieKeys) /\ Len(a) = Len(p) /\ Len(p) \in Nat
      /\ \A i \in 1 .. Len(p) : p[i] \in SegmentShapes /\ a[i] = Key(p[i])
  <2>1. a = Spine(p)
    BY DEF SpineOf, p
  <2>. QED
    BY <1>1, <2>1, SpineIs
<1>3. /\ b = Spine(q) /\ b \in Seq(TrieKeys) /\ Len(b) = Len(q) /\ Len(q) \in Nat
      /\ \A i \in 1 .. Len(q) : q[i] \in SegmentShapes /\ b[i] = Key(q[i])
  <2>1. b = Spine(q)
    BY DEF SpineOf, q
  <2>. QED
    BY <1>1, <2>1, SpineIs
<1>4. TriedBefore(a, b)
  OBVIOUS
<1>. HIDE DEF a, b
<1>5. PICK i \in Nat : PartAt(a, b, i)
  BY <1>4 DEF TriedBefore
<1>6. /\ i \in 1 .. Len(p) /\ i \in 1 .. Len(q) /\ Key(p[i]) # Key(q[i])
      /\ \A j \in 1 .. i - 1 : Key(p[j]) = Key(q[j])
  <2>1. i \in 1 .. Len(p) /\ i \in 1 .. Len(q) /\ a[i] # b[i] /\ \A j \in 1 .. i - 1 : a[j] = b[j]
    BY <1>2, <1>3, <1>5 DEF PartAt
  <2>2. \A j \in 1 .. i : j \in 1 .. Len(p) /\ j \in 1 .. Len(q)
    BY <1>2, <1>3, <2>1
  <2>3. \A j \in 1 .. i - 1 : j \in 1 .. i
    OBVIOUS
  <2>. QED
    BY <1>2, <1>3, <2>1, <2>2, <2>3
<1>7. Fork(i)
  <2>1. i - 1 \in 0 .. Len(p) /\ i - 1 \in 0 .. Len(q) /\ i - 1 \in 0 .. Len(a) /\ i - 1 <= Len(b)
    BY <1>2, <1>3, <1>6
  <2>2. Spine(SubSeq(p, 1, i - 1)) = SubSeq(a, 1, i - 1)
    BY <1>1, <1>2, <2>1, SpineOfBeginning
  <2>3. Spine(SubSeq(q, 1, i - 1)) = SubSeq(b, 1, i - 1)
    BY <1>1, <1>3, <2>1, SpineOfBeginning
  <2>4. \A j \in 1 .. i - 1 : a[j] = b[j]
    BY <1>5 DEF PartAt
  <2>5. SubSeq(a, 1, i - 1) = SubSeq(b, 1, i - 1)
    BY <1>2, <1>3, <2>1, <2>4, BeginningsAgree
  <2>. QED
    BY <1>6, <2>2, <2>3, <2>5
<1>8. ASSUME NEW k \in DOMAIN p, Fork(k)
      PROVE  k = i
  <2>1. k \in 1 .. Len(p) /\ k \in Nat
    BY <1>1, <1>8
  <2>2. CASE k < i
    BY <1>6, <1>8, <2>1, <2>2
  <2>3. CASE i < k
    <3>. DEFINE x == SubSeq(p, 1, k - 1)
                y == SubSeq(q, 1, k - 1)
    <3>1. i \in 1 .. k - 1
      BY <1>6, <2>1, <2>3
    <3>2. x = [j \in 1 .. k - 1 |-> p[j]] /\ y = [j \in 1 .. k - 1 |-> q[j]]
      BY <2>1
    <3>3. DOMAIN x = 1 .. k - 1 /\ DOMAIN y = 1 .. k - 1 /\ x[i] = p[i] /\ y[i] = q[i]
      BY <3>1, <3>2
    <3>. HIDE DEF x, y
    <3>4. Spine(x)[i] = Key(p[i]) /\ Spine(y)[i] = Key(q[i])
      BY <3>1, <3>3 DEF Spine
    <3>5. Spine(x) = Spine(y)
      BY <1>8 DEF x, y
    <3>. QED
      BY <1>6, <3>4, <3>5
  <2>. QED
    BY <2>1, <2>2, <2>3
<1>9. (CHOOSE k \in DOMAIN p : Fork(k)) = i
  <2>1. i \in DOMAIN p
    BY <1>1, <1>6
  <2>. HIDE DEF Fork
  <2>. QED
    BY <1>7, <1>8, <2>1
<1>10. Class(p[i]) = KeyClass(a[i]) /\ Class(q[i]) = KeyClass(b[i])
  BY <1>2, <1>3, <1>6, ClassIs
<1>11. Spine(SubSeq(p, 1, i)) = SubSeq(a, 1, i) /\ Spine(SubSeq(q, 1, i)) = SubSeq(b, 1, i)
  <2>1. i \in 0 .. Len(p) /\ i \in 0 .. Len(q)
    BY <1>2, <1>3, <1>6
  <2>. QED
    BY <1>1, <1>2, <1>3, <2>1, SpineOfBeginning
<1>12. Precedes(m, n)
  <2>. DEFINE first(s) == Min(Leading(Spine(SubSeq(s, 1, i))))
  <2>1. \/ Class(p[i]) < Class(q[i])
        \/ Class(p[i]) = Class(q[i]) /\ first(p) < first(q)
    BY <1>5, <1>10, <1>11 DEF PartAt
  <2>. HIDE DEF first
  <2>2. Precedes(m, n) <=> \/ Class(p[i]) < Class(q[i])
                           \/ Class(p[i]) = Class(q[i]) /\ first(p) < first(q)
    BY <1>9 DEF Precedes, p, q, Fork, first
  <2>. QED
    BY <2>1, <2>2
<1>13. m # n
  BY <1>6 DEF p, q
<1>. QED
  BY <1>12, <1>13

-----------------------------------------------------------------------------
LEMMA RestIsLast ==
  ASSUME RowsFit, ~Buried(flat), NEW n \in DOMAIN flat, NEW i \in 1 .. Len(SpineOf(n)),
         SpineOf(n)[i][1] = "rest"
  PROVE  i = Len(SpineOf(n))
<1>. DEFINE segments == flat[n].segments
<1>1. /\ Len(segments) \in Nat /\ DOMAIN segments = 1 .. Len(segments)
      /\ Len(SpineOf(n)) = Len(segments)
      /\ \A k \in 1 .. Len(segments) : segments[k] \in SegmentShapes /\ SpineOf(n)[k] = Key(segments[k])
  BY RowIs
<1>2. segments[i].kind = "rest" /\ i \in DOMAIN segments
  BY <1>1, KeyIs
<1>3. ~(i < Len(segments))
  BY <1>2 DEF Buried
<1>. QED
  BY <1>1, <1>3

LEMMA LeavesApart ==
  ASSUME RowsFit, ~Ambiguous(flat), NEW m \in DOMAIN flat, NEW n \in DOMAIN flat, SpineOf(m) = SpineOf(n)
  PROVE  m = n
<1>1. m \in Nat /\ n \in Nat
  BY DEF RowsFit
<1>2. ~(m < n) /\ ~(n < m)
  BY DEF Ambiguous, SpineOf
<1>. QED
  BY <1>1, <1>2

(* One more key.                                                              *)
LEMMA OneKeyMore ==
  ASSUME NEW S, NEW a \in Seq(S), NEW e \in S
  PROVE  /\ Append(a, e) \in Seq(S) /\ Len(Append(a, e)) = Len(a) + 1 /\ Len(a) \in Nat
         /\ Append(a, e)[Len(a) + 1] = e
         /\ \A i \in 1 .. Len(a) : Append(a, e)[i] = a[i]
OBVIOUS

LEMMA ChildOf ==
  ASSUME NEW node \in Seq(TrieKeys), NEW key \in TrieKeys, NEW spine \in Seq(TrieKeys)
  PROVE  IsPrefix(Append(node, key), spine) <=>
            /\ IsPrefix(node, spine) /\ Len(node) < Len(spine) /\ spine[Len(node) + 1] = key
<1>. DEFINE child == Append(node, key)
            n == Len(node)
<1>1. /\ child \in Seq(TrieKeys) /\ Len(child) = n + 1 /\ n \in Nat /\ child[n + 1] = key
      /\ \A i \in 1 .. n : child[i] = node[i]
  BY OneKeyMore
<1>. HIDE DEF child
<1>2. IsPrefix(child, spine) <=> n + 1 <= Len(spine) /\ \A i \in 1 .. n + 1 : child[i] = spine[i]
  BY <1>1, KeyPrefixIs
<1>3. IsPrefix(node, spine) <=> n <= Len(spine) /\ \A i \in 1 .. n : node[i] = spine[i]
  BY KeyPrefixIs
<1>4. Len(spine) \in Nat
  OBVIOUS
<1>. HIDE DEF n
<1>5. (\A i \in 1 .. n + 1 : child[i] = spine[i])
        <=> (\A i \in 1 .. n : node[i] = spine[i]) /\ spine[n + 1] = key
  <2>1. ASSUME \A i \in 1 .. n + 1 : child[i] = spine[i]
        PROVE  (\A i \in 1 .. n : node[i] = spine[i]) /\ spine[n + 1] = key
    <3>1. \A i \in 1 .. n : i \in 1 .. n + 1
      BY <1>1
    <3>2. n + 1 \in 1 .. n + 1
      BY <1>1
    <3>. QED
      BY <1>1, <2>1, <3>1, <3>2
  <2>2. ASSUME \A i \in 1 .. n : node[i] = spine[i], spine[n + 1] = key
        PROVE  \A i \in 1 .. n + 1 : child[i] = spine[i]
    <3>1. \A i \in 1 .. n + 1 : i \in 1 .. n \/ i = n + 1
      BY <1>1
    <3>. QED
      BY <1>1, <2>2, <3>1
  <2>. QED
    BY <2>1, <2>2
<1>6. IsPrefix(child, spine) <=> IsPrefix(node, spine) /\ n < Len(spine) /\ spine[n + 1] = key
  BY <1>1, <1>2, <1>3, <1>4, <1>5
<1>. QED
  BY <1>6 DEF child, n

LEMMA SiblingsPart ==
  ASSUME NEW node \in Seq(TrieKeys), NEW k \in TrieKeys, NEW l \in TrieKeys, k # l,
         \/ KeyClass(k) < KeyClass(l)
         \/ /\ KeyClass(k) = KeyClass(l)
            /\ Min(Leading(Append(node, k))) < Min(Leading(Append(node, l)))
  PROVE  TriedBefore(Append(node, k), Append(node, l))
<1>. DEFINE a == Append(node, k)
            b == Append(node, l)
            n == Len(node) + 1
<1>1. /\ a \in Seq(TrieKeys) /\ Len(a) = n /\ a[n] = k /\ b \in Seq(TrieKeys) /\ Len(b) = n /\ b[n] = l
      /\ n \in Nat /\ n > 0 /\ \A i \in 1 .. n - 1 : a[i] = node[i] /\ b[i] = node[i]
  OBVIOUS
<1>2. \/ KeyClass(k) < KeyClass(l)
      \/ KeyClass(k) = KeyClass(l) /\ Min(Leading(a)) < Min(Leading(b))
  OBVIOUS
<1>. HIDE DEF a, b, n
<1>3. SubSeq(a, 1, n) = a /\ SubSeq(b, 1, n) = b
  BY <1>1, SubSeqFull
<1>4. n \in 1 .. n /\ \A i \in 1 .. n - 1 : a[i] = b[i]
  BY <1>1
<1>5. PartAt(a, b, n)
  BY <1>1, <1>2, <1>3, <1>4 DEF PartAt
<1>. QED
  BY <1>1, <1>5 DEF TriedBefore, a, b

(* The first row below a branch of a converter is the one that brought it.    *)
LEMMA BringsFirst ==
  ASSUME RowsFit, NEW node \in Seq(TrieKeys), NEW r, Brings(node, r)
  PROVE  /\ r \in DOMAIN flat /\ r \in Nat /\ ConverterAt(node, r) \in Words
         /\ <<"param", ConverterAt(node, r)>> \in TrieKeys
         /\ Min(Leading(Append(node, <<"param", ConverterAt(node, r)>>))) = r
<1>. DEFINE n == Len(node)
            key == <<"param", ConverterAt(node, r)>>
            below == Leading(Append(node, key))
<1>1. DOMAIN flat \in SUBSET Nat
  BY DEF RowsFit
<1>2. /\ r \in DOMAIN flat /\ IsPrefix(node, SpineOf(r)) /\ Len(flat[r].segments) > n
      /\ flat[r].segments[n + 1].kind = "param"
      /\ \A m \in Parted(node) : m < r => ConverterAt(node, m) # ConverterAt(node, r)
  BY DEF Brings, Parted, Leading, SpineOf
<1>3. n \in Nat
  OBVIOUS
<1>4. ASSUME NEW m \in DOMAIN flat, n < Len(flat[m].segments)
      PROVE  flat[m].segments[n + 1] \in SegmentShapes /\ SpineOf(m)[n + 1] = Key(flat[m].segments[n + 1])
  <2>1. n + 1 \in 1 .. Len(flat[m].segments)
    BY <1>3, <1>4, RowIs
  <2>. QED
    BY <2>1, RowIs
<1>5. /\ ConverterAt(node, r) \in Words /\ key \in TrieKeys
      /\ SpineOf(r)[n + 1] = key
  <2>1. flat[r].segments[n + 1] \in SegmentShapes /\ SpineOf(r)[n + 1] = Key(flat[r].segments[n + 1])
    BY <1>2, <1>3, <1>4, RowIs
  <2>. QED
    BY <1>2, <2>1, KeyIs DEF ConverterAt, n
<1>6. r \in below
  <2>1. Len(SpineOf(r)) = Len(flat[r].segments) /\ Len(flat[r].segments) \in Nat /\ SpineOf(r) \in Seq(TrieKeys)
    BY <1>2, RowIs
  <2>2. n < Len(SpineOf(r))
    BY <1>2, <1>3, <2>1
  <2>3. IsPrefix(Append(node, key), SpineOf(r))
    BY <1>2, <1>5, <2>1, <2>2, ChildOf
  <2>. QED
    BY <1>2, <2>3 DEF Leading, SpineOf
<1>7. ASSUME NEW m \in below
      PROVE  r <= m
  <2>1. m \in DOMAIN flat /\ IsPrefix(Append(node, key), SpineOf(m))
    BY DEF Leading, SpineOf
  <2>2. SpineOf(m) \in Seq(TrieKeys) /\ Len(SpineOf(m)) = Len(flat[m].segments) /\ Len(flat[m].segments) \in Nat
    BY <2>1, RowIs
  <2>3. IsPrefix(node, SpineOf(m)) /\ n < Len(SpineOf(m)) /\ SpineOf(m)[n + 1] = key
    BY <1>5, <2>1, <2>2, ChildOf
  <2>4. flat[m].segments[n + 1] \in SegmentShapes /\ Key(flat[m].segments[n + 1]) = key
    BY <1>4, <2>1, <2>2, <2>3
  <2>5. flat[m].segments[n + 1].kind = "param"
    BY <2>4, KeyIs
  <2>6. ConverterAt(node, m) = ConverterAt(node, r)
    BY <2>4, <2>5, KeyIs DEF ConverterAt, n
  <2>7. m \in Parted(node)
    BY <1>3, <2>1, <2>2, <2>3, <2>5 DEF Parted, Leading, SpineOf
  <2>. QED
    BY <1>1, <1>2, <2>1, <2>6, <2>7
<1>8. below \in SUBSET Nat /\ below # {}
  BY <1>1, <1>6 DEF Leading
<1>. HIDE DEF below
<1>9. Min(below) \in below /\ \A y \in below : Min(below) <= y
  BY <1>8, LowestOf
<1>10. Min(below) = r
  BY <1>1, <1>2, <1>6, <1>7, <1>8, <1>9
<1>. QED
  BY <1>1, <1>2, <1>5, <1>10 DEF below

-----------------------------------------------------------------------------
(* The values a walk has taken, one for each key that is no literal.          *)
Slots(keys, n) == {j \in 1 .. n : keys[j][1] # "literal"}
Given(keys, values, path) ==
    /\ Len(values) = Cardinality(Slots(keys, Len(keys)))
    /\ \A i \in 1 .. Len(keys) :
         LET k == Cardinality(Slots(keys, i))
         IN  /\ keys[i][1] = "param" => values[k] = <<path[i]>>
             /\ keys[i][1] = "rest" => values[k] = SubSeq(path, i, Len(path))

LEMMA SlotsAre ==
  ASSUME NEW keys, NEW m \in Nat, NEW n \in 0 .. m
  PROVE  /\ IsFiniteSet(Slots(keys, n)) /\ Cardinality(Slots(keys, n)) \in Nat
         /\ Cardinality(Slots(keys, n)) <= Cardinality(Slots(keys, m))
         /\ n > 0 /\ keys[n][1] # "literal" => Cardinality(Slots(keys, n)) > 0
<1>1. IsFiniteSet(1 .. m)
  <2>1. 1 \in Int /\ m \in Int
    OBVIOUS
  <2>. QED
    BY ONLY <2>1, FS_Interval
<1>2. Slots(keys, n) \subseteq Slots(keys, m) /\ Slots(keys, m) \subseteq 1 .. m
  BY DEF Slots
<1>3. IsFiniteSet(Slots(keys, m)) /\ IsFiniteSet(Slots(keys, n))
  BY <1>1, <1>2, FS_Subset
<1>4. Cardinality(Slots(keys, n)) \in Nat /\ Cardinality(Slots(keys, n)) <= Cardinality(Slots(keys, m))
  BY <1>2, <1>3, FS_Subset, FS_CardinalityType
<1>5. ASSUME n > 0, keys[n][1] # "literal"
      PROVE  Cardinality(Slots(keys, n)) > 0
  <2>1. n \in Slots(keys, n)
    BY <1>5 DEF Slots
  <2>2. Cardinality(Slots(keys, n)) # 0
    BY <1>3, <2>1, FS_EmptySet
  <2>. QED
    BY <1>4, <2>2
<1>. QED
  BY <1>3, <1>4, <1>5

LEMMA GivenOnward ==
  ASSUME NEW keys \in Seq(TrieKeys), NEW key \in TrieKeys, NEW path \in Seq(STRING),
         NEW values \in Seq(Seq(STRING)), NEW value \in Seq(STRING), NEW onward,
         onward = IF key[1] = "literal" THEN values ELSE Append(values, value),
         key[1] = "param" => value = <<path[Len(keys) + 1]>>,
         key[1] = "rest" => value = SubSeq(path, Len(keys) + 1, Len(path)),
         Given(keys, values, path)
  PROVE  onward \in Seq(Seq(STRING)) /\ Given(Append(keys, key), onward, path)
<1>. DEFINE n == Len(keys)
            longer == Append(keys, key)
            held == Len(values)
<1>1. /\ longer \in Seq(TrieKeys) /\ Len(longer) = n + 1 /\ n \in Nat /\ longer[n + 1] = key
      /\ \A i \in 1 .. n : longer[i] = keys[i]
  BY OneKeyMore
<1>. HIDE DEF longer
<1>2. /\ held \in Nat /\ onward \in Seq(Seq(STRING)) /\ \A k \in 1 .. held : onward[k] = values[k]
      /\ key[1] = "literal" => Len(onward) = held
      /\ key[1] # "literal" => Len(onward) = held + 1 /\ onward[held + 1] = value
  <2>1. CASE key[1] = "literal"
    BY <2>1
  <2>2. CASE key[1] # "literal"
    <3>1. onward = Append(values, value)
      BY <2>2
    <3>. QED
      BY <2>2, <3>1, OneKeyMore
  <2>. QED
    BY <2>1, <2>2
<1>3. /\ held = Cardinality(Slots(keys, n))
      /\ \A i \in 1 .. n : /\ keys[i][1] = "param" => values[Cardinality(Slots(keys, i))] = <<path[i]>>
                           /\ keys[i][1] = "rest" => values[Cardinality(Slots(keys, i))] = SubSeq(path, i, Len(path))
  BY DEF Given
<1>4. ASSUME NEW i \in 0 .. n
      PROVE  Slots(longer, i) = Slots(keys, i)
  <2>1. \A j \in 1 .. i : j \in 1 .. n
    BY <1>1
  <2>. QED
    BY <1>1, <2>1 DEF Slots
<1>. HIDE DEF n, held
<1>5. /\ IsFiniteSet(Slots(keys, n)) /\ n + 1 \notin Slots(keys, n)
      /\ Slots(longer, n + 1) = IF key[1] = "literal" THEN Slots(keys, n) ELSE Slots(keys, n) \cup {n + 1}
  <2>1. n \in 0 .. n
    BY <1>1
  <2>2. IsFiniteSet(Slots(keys, n))
    BY <1>1, <2>1, SlotsAre
  <2>3. n + 1 \notin Slots(keys, n)
    BY <1>1 DEF Slots
  <2>4. \A j : j \in 1 .. n + 1 <=> j \in 1 .. n \/ j = n + 1
    BY <1>1
  <2>5. Slots(longer, n + 1) = IF key[1] = "literal" THEN Slots(keys, n) ELSE Slots(keys, n) \cup {n + 1}
    BY <1>1, <2>4 DEF Slots
  <2>. QED
    BY <2>2, <2>3, <2>5
<1>6. Cardinality(Slots(longer, n + 1)) = IF key[1] = "literal" THEN held ELSE held + 1
  BY <1>3, <1>5, FS_AddElement
<1>7. Len(onward) = Cardinality(Slots(longer, Len(longer)))
  BY <1>1, <1>2, <1>6
<1>8. ASSUME NEW i \in 1 .. n, keys[i][1] # "literal"
      PROVE  Cardinality(Slots(longer, i)) = Cardinality(Slots(keys, i)) /\ Cardinality(Slots(keys, i)) \in 1 .. held
  <2>1. i \in 0 .. n /\ n \in Nat /\ i > 0
    BY <1>1
  <2>2. /\ Cardinality(Slots(keys, i)) \in Nat /\ Cardinality(Slots(keys, i)) <= held
        /\ Cardinality(Slots(keys, i)) > 0
    BY <1>3, <1>8, <2>1, SlotsAre
  <2>3. Slots(longer, i) = Slots(keys, i)
    BY <1>4, <2>1
  <2>. QED
    BY <1>2, <2>2, <2>3
<1>9. ASSUME NEW i \in 1 .. n + 1
      PROVE  LET k == Cardinality(Slots(longer, i))
             IN  /\ longer[i][1] = "param" => onward[k] = <<path[i]>>
                 /\ longer[i][1] = "rest" => onward[k] = SubSeq(path, i, Len(path))
  <2>1. CASE i \in 1 .. n
    <3>1. longer[i] = keys[i]
      BY <1>1, <2>1
    <3>2. CASE keys[i][1] = "param" \/ keys[i][1] = "rest"
      <4>1. keys[i][1] # "literal"
        BY <3>2
      <4>2. /\ Cardinality(Slots(longer, i)) = Cardinality(Slots(keys, i))
            /\ Cardinality(Slots(keys, i)) \in 1 .. held
        BY <1>8, <2>1, <4>1
      <4>3. onward[Cardinality(Slots(longer, i))] = values[Cardinality(Slots(keys, i))]
        BY <1>2, <4>2
      <4>. QED
        BY <1>3, <2>1, <3>1, <4>3
    <3>. QED
      BY <3>1, <3>2
  <2>2. CASE i = n + 1
    <3>1. longer[i] = key
      BY <1>1, <2>2
    <3>2. CASE key[1] = "param" \/ key[1] = "rest"
      <4>1. key[1] # "literal"
        BY <3>2
      <4>2. Cardinality(Slots(longer, i)) = held + 1 /\ onward[held + 1] = value
        BY <1>2, <1>6, <2>2, <4>1
      <4>. QED
        BY <2>2, <3>1, <4>2 DEF n
    <3>. QED
      BY <3>1, <3>2
  <2>3. i \in 1 .. n \/ i = n + 1
    BY <1>1
  <2>. QED
    BY <2>1, <2>2, <2>3
<1>10. Given(longer, onward, path)
  BY <1>1, <1>7, <1>9 DEF Given
<1>. QED
  BY <1>2, <1>10 DEF longer

LEMMA GivenStill ==
  ASSUME NEW keys \in Seq(TrieKeys), NEW key \in TrieKeys, NEW path \in Seq(STRING),
         NEW values \in Seq(Seq(STRING)), key[1] = "literal", Given(keys, values, path)
  PROVE  Given(Append(keys, key), values, path)
<1>. DEFINE value == <<>>
            onward == values
<1>1. value \in Seq(STRING) /\ onward = IF key[1] = "literal" THEN values ELSE Append(values, value)
  OBVIOUS
<1>2. key[1] = "param" => value = <<path[Len(keys) + 1]>>
  OBVIOUS
<1>3. key[1] = "rest" => value = SubSeq(path, Len(keys) + 1, Len(path))
  OBVIOUS
<1>. HIDE DEF value, onward
<1>4. Given(Append(keys, key), onward, path)
  BY <1>1, <1>2, <1>3, GivenOnward
<1>. QED
  BY <1>4 DEF onward

LEMMA GivenMore ==
  ASSUME NEW keys \in Seq(TrieKeys), NEW key \in TrieKeys, NEW path \in Seq(STRING),
         NEW values \in Seq(Seq(STRING)), NEW value \in Seq(STRING), key[1] # "literal",
         key[1] = "param" => value = <<path[Len(keys) + 1]>>,
         key[1] = "rest" => value = SubSeq(path, Len(keys) + 1, Len(path)),
         Given(keys, values, path)
  PROVE  Append(values, value) \in Seq(Seq(STRING)) /\ Given(Append(keys, key), Append(values, value), path)
<1>. DEFINE onward == Append(values, value)
<1>1. onward = IF key[1] = "literal" THEN values ELSE Append(values, value)
  OBVIOUS
<1>. HIDE DEF onward
<1>2. onward \in Seq(Seq(STRING)) /\ Given(Append(keys, key), onward, path)
  BY <1>1, GivenOnward
<1>. QED
  BY <1>2 DEF onward

-----------------------------------------------------------------------------
(* A frame of the walk: every key of its branch takes the segment in its      *)
(* place, or all of it but the last, which takes the rest.                    *)
WalkFrames == [at : Seq(TrieKeys), left : Seq(STRING), values : Seq(Seq(STRING))]
TakesKey(key, text) ==
    \/ key = <<"literal", text>>
    \/ \E c \in Words : key = <<"param", c>> /\ Converts(c, text)
Halfway(f, path) ==
    /\ Len(f.at) <= Len(path)
    /\ f.left = SubSeq(path, Len(f.at) + 1, Len(path))
    /\ \A i \in 1 .. Len(f.at) : TakesKey(f.at[i], path[i])
AtRest(f, path) ==
    LET n == Len(f.at)
    IN  /\ n \in 1 .. Len(path) /\ f.left = <<>> /\ f.at[n] = <<"rest", "slot">>
        /\ \A i \in 1 .. n - 1 : TakesKey(f.at[i], path[i])
        /\ \E r \in LeafOf(f.at) :
             ConvertsRest(Last(flat[r].segments).converter, SubSeq(path, n, Len(path)))
OnPath(f, path) ==
    f \in WalkFrames /\ Given(f.at, f.values, path) /\ (Halfway(f, path) \/ AtRest(f, path))

LEMMA LeftIs ==
  ASSUME NEW path \in Seq(STRING), NEW n \in 0 .. Len(path)
  PROVE  LET left == SubSeq(path, n + 1, Len(path))
         IN  /\ left \in Seq(STRING)
             /\ left = <<>> <=> n = Len(path)
             /\ n < Len(path) => /\ Head(left) = path[n + 1] /\ Head(left) \in STRING
                                 /\ Tail(left) = SubSeq(path, n + 2, Len(path))
<1>. DEFINE left == SubSeq(path, n + 1, Len(path))
            m == n + 1
            e == Len(path)
<1>1. e \in Nat /\ n \in Nat /\ m \in Int /\ e \in Int /\ m <= e + 1
  OBVIOUS
<1>2. \A i \in m .. e : path[i] \in STRING
  BY <1>1
<1>3. left \in Seq(STRING) /\ Len(left) = IF m <= e THEN e - m + 1 ELSE 0
  BY <1>1, <1>2, SubSeqProperties
<1>4. left = <<>> <=> Len(left) = 0
  BY <1>3, EmptySeq
<1>5. ASSUME n < e
      PROVE  Head(left) = path[m] /\ Head(left) \in STRING /\ Tail(left) = SubSeq(path, m + 1, e)
  <2>1. m \in 1 .. Len(path) /\ e \in m .. Len(path)
    BY <1>1, <1>5
  <2>2. Head(SubSeq(path, m, e)) = path[m] /\ Tail(SubSeq(path, m, e)) = SubSeq(path, m + 1, e)
    BY <2>1, HeadTailOfSubSeq
  <2>. QED
    BY <1>2, <2>1, <2>2
<1>6. left = <<>> <=> n = e
  BY <1>1, <1>3, <1>4
<1>7. m + 1 = n + 2
  BY <1>1
<1>. QED
  BY <1>3, <1>5, <1>6, <1>7

(* A frame with something left is on its way, and what is left is known.      *)
LEMMA BranchGoesOn ==
  ASSUME NEW path \in Seq(STRING), NEW f, OnPath(f, path), f.left # <<>>
  PROVE  /\ f \in WalkFrames /\ Given(f.at, f.values, path) /\ Halfway(f, path)
         /\ f.at \in Seq(TrieKeys) /\ f.left \in Seq(STRING) /\ f.values \in Seq(Seq(STRING))
         /\ Len(f.at) \in Nat /\ Len(f.at) < Len(path)
         /\ Head(f.left) = path[Len(f.at) + 1] /\ Head(f.left) \in STRING
         /\ f.left = SubSeq(path, Len(f.at) + 1, Len(path))
         /\ Tail(f.left) = SubSeq(path, Len(f.at) + 2, Len(path))
<1>1. f \in WalkFrames /\ Given(f.at, f.values, path) /\ Halfway(f, path)
  BY DEF OnPath, AtRest
<1>. DEFINE n == Len(f.at)
<1>2. n \in Nat /\ Len(path) \in Nat
  BY <1>1 DEF WalkFrames
<1>3. n <= Len(path) /\ f.left = SubSeq(path, n + 1, Len(path))
  BY <1>1 DEF Halfway
<1>. HIDE DEF n
<1>4. n \in 0 .. Len(path)
  BY <1>2, <1>3
<1>5. n # Len(path)
  BY <1>3, <1>4, LeftIs
<1>6. n < Len(path)
  BY <1>2, <1>3, <1>5
<1>7. Head(f.left) = path[n + 1] /\ Head(f.left) \in STRING /\ Tail(f.left) = SubSeq(path, n + 2, Len(path))
  BY <1>3, <1>4, <1>6, LeftIs
<1>8. f.at \in Seq(TrieKeys) /\ f.left \in Seq(STRING) /\ f.values \in Seq(Seq(STRING))
  BY <1>1 DEF WalkFrames
<1>. QED
  BY <1>1, <1>2, <1>3, <1>6, <1>7, <1>8 DEF n

(* One segment further, by a literal or a converter.                          *)
LEMMA StepsOn ==
  ASSUME NEW path \in Seq(STRING), NEW f, OnPath(f, path), f.left # <<>>,
         NEW key \in TrieKeys, TakesKey(key, Head(f.left)), NEW g,
         g = [at |-> Append(f.at, key), left |-> Tail(f.left),
              values |-> IF key[1] = "literal" THEN f.values ELSE Append(f.values, <<Head(f.left)>>)]
  PROVE  OnPath(g, path) /\ IsPrefix(f.at, g.at)
<1>. DEFINE n == Len(f.at)
            text == Head(f.left)
            longer == Append(f.at, key)
            onward == IF key[1] = "literal" THEN f.values ELSE Append(f.values, <<text>>)
<1>1. /\ f.at \in Seq(TrieKeys) /\ f.values \in Seq(Seq(STRING)) /\ Given(f.at, f.values, path)
      /\ Halfway(f, path) /\ n \in Nat /\ n < Len(path) 
      /\ text = path[n + 1] /\ text \in STRING
      /\ Tail(f.left) = SubSeq(path, n + 2, Len(path))
  BY BranchGoesOn
<1>0. Len(path) \in Nat
  OBVIOUS
<1>2. g.at = longer /\ g.left = Tail(f.left) /\ g.values = onward
      /\ g = [at |-> g.at, left |-> g.left, values |-> g.values]
  OBVIOUS
<1>3. TakesKey(key, text)
  OBVIOUS
<1>4. onward = IF key[1] = "literal" THEN f.values ELSE Append(f.values, <<text>>)
  OBVIOUS
<1>5. /\ longer \in Seq(TrieKeys) /\ Len(longer) = n + 1 /\ longer[n + 1] = key
      /\ \A i \in 1 .. n : longer[i] = f.at[i]
  BY <1>1, OneKeyMore
<1>6. longer = Append(f.at, key) /\ n = Len(f.at)
  OBVIOUS
<1>. HIDE DEF longer, onward, text, n
<1>7. key[1] # "rest"
  BY <1>3 DEF TakesKey
<1>8. <<text>> \in Seq(STRING)
  BY <1>1
<1>9. onward \in Seq(Seq(STRING)) /\ Given(longer, onward, path)
  <2>1. CASE key[1] = "literal"
    <3>1. Given(Append(f.at, key), f.values, path)
      BY <1>1, <2>1, GivenStill
    <3>. QED
      BY <1>1, <1>4, <1>6, <2>1, <3>1
  <2>2. CASE key[1] # "literal"
    <3>. DEFINE value == <<text>>
    <3>1. key[1] = "param" => value = <<path[Len(f.at) + 1]>>
      BY <1>1, <1>6
    <3>2. value \in Seq(STRING) /\ onward = Append(f.values, value)
      BY <1>4, <1>8, <2>2
    <3>. HIDE DEF value
    <3>3. Append(f.values, value) \in Seq(Seq(STRING)) /\ Given(Append(f.at, key), Append(f.values, value), path)
      BY <1>1, <1>7, <2>2, <3>1, <3>2, GivenMore
    <3>. QED
      BY <1>6, <3>2, <3>3
  <2>. QED
    BY <2>1, <2>2
<1>10. Tail(f.left) \in Seq(STRING)
  <2>1. n + 1 \in 0 .. Len(path) /\ n + 1 + 1 = n + 2
    BY <1>0, <1>1
  <2>2. SubSeq(path, n + 1 + 1, Len(path)) \in Seq(STRING)
    BY <2>1, LeftIs
  <2>. QED
    BY <1>1, <2>1, <2>2
<1>11. g \in WalkFrames
  BY <1>2, <1>5, <1>9, <1>10 DEF WalkFrames
<1>12. \A i \in 1 .. n + 1 : TakesKey(longer[i], path[i])
  <2>1. \A i \in 1 .. n : TakesKey(f.at[i], path[i])
    BY <1>1, <1>6 DEF Halfway
  <2>2. \A i \in 1 .. n + 1 : i \in 1 .. n \/ i = n + 1
    BY <1>1
  <2>. QED
    BY <1>1, <1>3, <1>5, <2>1, <2>2
<1>13. Halfway(g, path)
  <2>1. n + 1 <= Len(path) /\ n + 1 + 1 = n + 2
    BY <1>0, <1>1
  <2>. QED
    BY <1>1, <1>2, <1>5, <1>12, <2>1 DEF Halfway
<1>14. IsPrefix(f.at, longer)
  <2>1. Len(f.at) <= Len(longer)
    BY <1>1, <1>5, <1>6
  <2>. QED
    BY <1>1, <1>5, <1>6, <2>1, KeyPrefixIs
<1>. QED
  BY <1>2, <1>9, <1>11, <1>13, <1>14 DEF OnPath

-----------------------------------------------------------------------------
(* What a frame forks into.                                                   *)
RestKey == <<"rest", "slot">>
Ordered(T) == \A x, y \in DOMAIN T : x < y => TriedBefore(T[x].at, T[y].at)
AllBefore(T, U) == \A x \in DOMAIN T, y \in DOMAIN U : TriedBefore(T[x].at, U[y].at)
BranchesBelow(T, f, path) == \A x \in DOMAIN T : OnPath(T[x], path) /\ IsPrefix(f.at, T[x].at)

LEMMA LiteralFork ==
  ASSUME RowsFit, NEW path \in Seq(STRING), NEW f, OnPath(f, path), f.left # <<>>
  PROVE  LET T == OnLiteral(f)
             node == Append(f.at, <<"literal", Head(f.left)>>)
         IN  /\ T \in Seq(WalkFrames) /\ BranchesBelow(T, f, path) /\ Ordered(T)
             /\ \A x \in DOMAIN T : T[x].at = node
             /\ IsNode(node) => \E x \in DOMAIN T : T[x].at = node
<1>. DEFINE key == <<"literal", Head(f.left)>>
            node == Append(f.at, key)
            g == [at |-> node, left |-> Tail(f.left),
                  values |-> IF key[1] = "literal" THEN f.values ELSE Append(f.values, <<Head(f.left)>>)]
<1>1. f \in WalkFrames /\ Head(f.left) \in STRING
  BY BranchGoesOn
<1>2. key \in TrieKeys /\ TakesKey(key, Head(f.left)) /\ key[1] = "literal"
  BY <1>1 DEF TrieKeys, TakesKey, Words
<1>3. g = [at |-> Append(f.at, key), left |-> Tail(f.left),
           values |-> IF key[1] = "literal" THEN f.values ELSE Append(f.values, <<Head(f.left)>>)]
  OBVIOUS
<1>4. g = [at |-> node, left |-> Tail(f.left), values |-> f.values]
  BY <1>2
<1>5. g.at = node
  OBVIOUS
<1>. HIDE DEF g
<1>6. OnPath(g, path) /\ IsPrefix(f.at, g.at)
  <2>. HIDE DEF key
  <2>. QED
    BY <1>2, <1>3, StepsOn
<1>7. g \in WalkFrames
  BY <1>6 DEF OnPath
<1>. DEFINE T == OnLiteral(f)
<1>8. T = IF IsNode(node) THEN <<g>> ELSE <<>>
  BY <1>4 DEF OnLiteral
<1>. HIDE DEF T, node, key
<1>9. CASE IsNode(node)
  <2>1. T = <<g>>
    BY <1>8, <1>9
  <2>2. T \in Seq(WalkFrames) /\ DOMAIN T = {1} /\ T[1] = g
    BY <1>7, <2>1
  <2>3. BranchesBelow(T, f, path) /\ Ordered(T)
    BY <1>6, <2>2 DEF BranchesBelow, Ordered
  <2>. QED
    BY <1>5, <2>2, <2>3 DEF T, node, key
<1>10. CASE ~IsNode(node)
  <2>1. T = <<>>
    BY <1>8, <1>10
  <2>2. T \in Seq(WalkFrames) /\ DOMAIN T = {}
    BY <2>1
  <2>3. BranchesBelow(T, f, path) /\ Ordered(T)
    BY <2>2 DEF BranchesBelow, Ordered
  <2>. QED
    BY <1>10, <2>2, <2>3 DEF T, node, key
<1>. QED
  BY <1>9, <1>10

LEMMA RestFork ==
  ASSUME RowsFit, NEW path \in Seq(STRING), NEW f, OnPath(f, path), f.left # <<>>
  PROVE  LET T == OnRest(f)
             node == Append(f.at, RestKey)
         IN  /\ T \in Seq(WalkFrames) /\ BranchesBelow(T, f, path) /\ Ordered(T)
             /\ \A x \in DOMAIN T : T[x].at = node
             /\ (\E r \in LeafOf(node) : ConvertsRest(Last(flat[r].segments).converter, f.left))
                  => \E x \in DOMAIN T : T[x].at = node
<1>. DEFINE n == Len(f.at)
            node == Append(f.at, RestKey)
            onward == Append(f.values, f.left)
            g == [at |-> node, left |-> <<>>, values |-> onward]
            T == OnRest(f)
            takes == \E r \in LeafOf(node) : ConvertsRest(Last(flat[r].segments).converter, f.left)
<1>1. /\ f.at \in Seq(TrieKeys) /\ f.values \in Seq(Seq(STRING)) /\ f.left \in Seq(STRING)
      /\ Given(f.at, f.values, path)
      /\ Halfway(f, path) /\ n \in Nat /\ n < Len(path)
      /\ f.left = SubSeq(path, n + 1, Len(path))
  BY BranchGoesOn
<1>0. Len(path) \in Nat
  OBVIOUS
<1>2. RestKey \in TrieKeys /\ RestKey[1] = "rest" /\ RestKey = <<"rest", "slot">>
  BY DEF RestKey, TrieKeys, Words
<1>3. /\ node \in Seq(TrieKeys) /\ Len(node) = n + 1 /\ node[n + 1] = RestKey
      /\ \A i \in 1 .. n : node[i] = f.at[i]
  BY <1>1, <1>2, OneKeyMore
<1>4. onward \in Seq(Seq(STRING)) /\ Given(node, onward, path)
  <2>1. RestKey[1] = "param" => f.left = <<path[Len(f.at) + 1]>>
    BY <1>2
  <2>2. RestKey[1] = "rest" => f.left = SubSeq(path, Len(f.at) + 1, Len(path))
    BY <1>1
  <2>3. RestKey[1] # "literal"
    BY <1>2
  <2>. QED
    BY <1>1, <1>2, <2>1, <2>2, <2>3, GivenMore
<1>5. T = IF takes THEN <<g>> ELSE <<>>
  BY DEF OnRest, RestKey
<1>6. g.at = node /\ g.left = <<>> /\ g.values = onward /\ g \in [at : {node}, left : {<<>>}, values : {onward}]
  OBVIOUS
<1>7. IsPrefix(f.at, node)
  <2>1. Len(f.at) <= Len(node)
    BY <1>1, <1>3
  <2>. HIDE DEF node
  <2>. QED
    BY <1>1, <1>3, <2>1, KeyPrefixIs
<1>8. g \in WalkFrames
  <2>1. <<>> \in Seq(STRING)
    OBVIOUS
  <2>. HIDE DEF node, onward
  <2>. QED
    BY <1>3, <1>4, <2>1 DEF WalkFrames
<1>9. takes => AtRest(g, path)
  <2>1. \A i \in 1 .. n : TakesKey(f.at[i], path[i])
    BY <1>1 DEF Halfway
  <2>. HIDE DEF g, node, n, takes
  <2>2. Len(g.at) = n + 1 /\ n + 1 \in 1 .. Len(path) /\ n + 1 - 1 = n
    BY <1>0, <1>1, <1>3, <1>6
  <2>3. \A i \in 1 .. n : TakesKey(node[i], path[i])
    BY <1>3, <2>1
  <2>4. takes => \E r \in LeafOf(node) : ConvertsRest(Last(flat[r].segments).converter, SubSeq(path, n + 1, Len(path)))
    BY <1>1 DEF takes
  <2>. DEFINE m == Len(g.at)
  <2>5. m = n + 1
    BY <2>2
  <2>6. m \in 1 .. Len(path) /\ g.left = <<>> /\ g.at[m] = <<"rest", "slot">>
    BY <1>2, <1>3, <1>6, <2>2, <2>5
  <2>7. \A i \in 1 .. m - 1 : TakesKey(g.at[i], path[i])
    <3>. HIDE DEF m
    <3>1. m - 1 = n
      BY <1>1, <2>5
    <3>. QED
      BY <1>6, <2>3, <3>1
  <2>8. takes => \E r \in LeafOf(g.at) : ConvertsRest(Last(flat[r].segments).converter, SubSeq(path, m, Len(path)))
    BY <1>6, <2>4, <2>5
  <2>. QED
    BY <2>6, <2>7, <2>8 DEF AtRest
<1>10. takes => OnPath(g, path)
  BY <1>4, <1>6, <1>8, <1>9 DEF OnPath
<1>. HIDE DEF T, takes, g, node
<1>11. CASE takes
  <2>1. T = <<g>>
    BY <1>5, <1>11
  <2>2. T \in Seq(WalkFrames) /\ DOMAIN T = {1} /\ T[1] = g
    BY <1>8, <2>1
  <2>3. BranchesBelow(T, f, path) /\ Ordered(T)
    BY <1>6, <1>7, <1>10, <1>11, <2>2 DEF BranchesBelow, Ordered
  <2>. QED
    BY <1>6, <2>2, <2>3 DEF T, node
<1>12. CASE ~takes
  <2>1. T = <<>>
    BY <1>5, <1>12
  <2>2. T \in Seq(WalkFrames) /\ DOMAIN T = {}
    BY <2>1
  <2>3. BranchesBelow(T, f, path) /\ Ordered(T)
    BY <2>2 DEF BranchesBelow, Ordered
  <2>. QED
    BY <1>12, <2>2, <2>3 DEF T, node, takes
<1>. QED
  BY <1>11, <1>12

-----------------------------------------------------------------------------
(* Converters below a node: each brought by one row, and tried in their order.*)
ByConverter(node, r) == <<"param", ConverterAt(node, r)>>

LEMMA ConvertersPart ==
  ASSUME RowsFit, NEW node \in Seq(TrieKeys), NEW r, NEW s, Brings(node, r), Brings(node, s),
         \/ ConverterAt(node, r) # "str" /\ ConverterAt(node, s) = "str"
         \/ r < s /\ ConverterAt(node, r) # "str" /\ ConverterAt(node, s) # "str"
  PROVE  TriedBefore(Append(node, ByConverter(node, r)), Append(node, ByConverter(node, s)))
<1>. DEFINE k == ByConverter(node, r)
            l == ByConverter(node, s)
<1>1. /\ k \in TrieKeys /\ l \in TrieKeys /\ r \in Nat /\ s \in Nat
      /\ Min(Leading(Append(node, k))) = r /\ Min(Leading(Append(node, l))) = s
  BY BringsFirst DEF ByConverter
<1>2. k[1] = "param" /\ l[1] = "param" /\ k[2] = ConverterAt(node, r) /\ l[2] = ConverterAt(node, s)
  BY DEF ByConverter
<1>3. KeyClass(k) = (IF k[2] = "str" THEN 2 ELSE 1) /\ KeyClass(l) = (IF l[2] = "str" THEN 2 ELSE 1)
  BY <1>2 DEF KeyClass
<1>4. r < s => ConverterAt(node, r) # ConverterAt(node, s)
  BY DEF Brings
<1>5. k # l
  BY <1>2, <1>4
<1>. HIDE DEF k, l
<1>6. \/ KeyClass(k) < KeyClass(l)
      \/ KeyClass(k) = KeyClass(l) /\ Min(Leading(Append(node, k))) < Min(Leading(Append(node, l)))
  BY <1>1, <1>2, <1>3
<1>7. TriedBefore(Append(node, k), Append(node, l))
  BY <1>1, <1>5, <1>6, SiblingsPart
<1>. QED
  BY <1>7 DEF k, l

LEMMA ByPrecedenceIs ==
  ASSUME RowsFit, NEW node \in Seq(TrieKeys), NEW rows \in SUBSET DOMAIN flat,
         \A r \in rows : Brings(node, r)
  PROVE  LET taking == ByPrecedence(node, rows)
         IN  /\ taking \in Seq(rows)
             /\ \A r \in rows : \E x \in DOMAIN taking : taking[x] = r
             /\ \A x, y \in DOMAIN taking : x < y =>
                  TriedBefore(Append(node, ByConverter(node, taking[x])),
                              Append(node, ByConverter(node, taking[y])))
<1>. DEFINE n == Len(flat)
            typed == {r \in rows : ConverterAt(node, r) # "str"}
            others == rows \ typed
            A == Ascending(typed)
            B == Ascending(others)
<1>1. n \in Nat /\ DOMAIN flat = 1 .. n
  BY DEF RowsFit
<1>2. /\ typed \in SUBSET (1 .. n) /\ others \in SUBSET (1 .. n)
      /\ typed \subseteq rows /\ others \subseteq rows /\ rows = typed \cup others
      /\ \A r \in typed : ConverterAt(node, r) # "str"
      /\ \A r \in others : ConverterAt(node, r) = "str"
  BY <1>1
<1>3. ByPrecedence(node, rows) = A \o B
  BY DEF ByPrecedence
<1>. HIDE DEF n, typed, others
<1>4. /\ A \in Seq(typed) /\ \A k, m \in DOMAIN A : k < m => A[k] < A[m]
      /\ \A i \in typed : \E k \in DOMAIN A : A[k] = i
  BY <1>1, <1>2, AscendingIs
<1>5. /\ B \in Seq(others) /\ \A k, m \in DOMAIN B : k < m => B[k] < B[m]
      /\ \A i \in others : \E k \in DOMAIN B : B[k] = i
  BY <1>1, <1>2, AscendingIs
<1>. HIDE DEF A, B
<1>6. /\ A \in Seq(rows) /\ DOMAIN A = 1 .. Len(A) /\ Len(A) \in Nat /\ \A k \in DOMAIN A : A[k] \in typed
      /\ B \in Seq(rows) /\ DOMAIN B = 1 .. Len(B) /\ Len(B) \in Nat /\ \A k \in DOMAIN B : B[k] \in others
  BY <1>2, <1>4, <1>5, SeqMonotonic
<1>. DEFINE T == A \o B
<1>7. /\ T \in Seq(rows) /\ DOMAIN T = 1 .. Len(A) + Len(B)
      /\ \A i \in 1 .. Len(A) + Len(B) : T[i] = IF i <= Len(A) THEN A[i] ELSE B[i - Len(A)]
  BY <1>6, ConcatProperties
<1>. HIDE DEF T
<1>8. ASSUME NEW r \in rows
      PROVE  \E x \in DOMAIN T : T[x] = r
  <2>1. CASE r \in typed
    <3>1. PICK k \in DOMAIN A : A[k] = r
      BY <1>4, <2>1
    <3>2. k \in DOMAIN T /\ T[k] = r
      BY <1>6, <1>7, <3>1
    <3>. QED
      BY <3>2
  <2>2. CASE r \in others
    <3>1. PICK k \in DOMAIN B : B[k] = r
      BY <1>5, <2>2
    <3>2. k + Len(A) \in 1 .. Len(A) + Len(B) /\ ~(k + Len(A) <= Len(A)) /\ k + Len(A) - Len(A) = k
      BY <1>6, <3>1
    <3>3. T[k + Len(A)] = r
      BY <1>7, <3>1, <3>2
    <3>. QED
      BY <1>7, <3>2, <3>3
  <2>. QED
    BY <1>2, <2>1, <2>2
<1>9. \A k, m \in DOMAIN B : ~(k < m)
  <2>. SUFFICES ASSUME NEW k \in DOMAIN B, NEW m \in DOMAIN B, k < m
                PROVE  FALSE
    OBVIOUS
  <2>1. B[k] \in others /\ B[m] \in others /\ B[k] < B[m]
    BY <1>5, <1>6
  <2>2. ConverterAt(node, B[k]) = ConverterAt(node, B[m])
    BY <1>2, <2>1
  <2>3. Brings(node, B[k]) /\ Brings(node, B[m])
    BY <1>2, <2>1
  <2>. QED
    BY <2>1, <2>2, <2>3 DEF Brings
<1>10. ASSUME NEW x \in DOMAIN T, NEW y \in DOMAIN T, x < y
       PROVE  TriedBefore(Append(node, ByConverter(node, T[x])), Append(node, ByConverter(node, T[y])))
  <2>1. x \in 1 .. Len(A) + Len(B) /\ y \in 1 .. Len(A) + Len(B)
    BY <1>7
  <2>2. CASE y <= Len(A)
    <3>1. x \in DOMAIN A /\ y \in DOMAIN A /\ T[x] = A[x] /\ T[y] = A[y]
      BY <1>6, <1>7, <1>10, <2>1, <2>2
    <3>2. T[x] \in typed /\ T[y] \in typed /\ T[x] < T[y]
      BY <1>4, <1>6, <1>10, <3>1
    <3>. QED
      BY <1>2, <3>2, ConvertersPart
  <2>3. CASE x <= Len(A) /\ ~(y <= Len(A))
    <3>1. x \in DOMAIN A /\ y - Len(A) \in DOMAIN B /\ T[x] = A[x] /\ T[y] = B[y - Len(A)]
      BY <1>6, <1>7, <1>10, <2>1, <2>3
    <3>2. T[x] \in typed /\ T[y] \in others
      BY <1>6, <3>1
    <3>. QED
      BY <1>2, <3>2, ConvertersPart
  <2>4. CASE ~(x <= Len(A))
    <3>1. x - Len(A) \in DOMAIN B /\ y - Len(A) \in DOMAIN B /\ x - Len(A) < y - Len(A)
      BY <1>6, <1>10, <2>1, <2>4
    <3>. QED
      BY <1>9, <3>1
  <2>. QED
    BY <2>2, <2>3, <2>4
<1>. QED
  BY <1>3, <1>7, <1>8, <1>10 DEF T

LEMMA SomeBrings ==
  ASSUME RowsFit, NEW node, NEW n \in Parted(node)
  PROVE  \E r \in Parted(node) : Brings(node, r) /\ ConverterAt(node, r) = ConverterAt(node, n)
<1>. DEFINE alike == {m \in Parted(node) : ConverterAt(node, m) = ConverterAt(node, n)}
<1>1. Parted(node) \in SUBSET Nat
  BY DEF RowsFit, Parted, Leading
<1>2. alike \in SUBSET Nat /\ alike # {}
  BY <1>1
<1>. DEFINE r == Min(alike)
<1>3. r \in alike /\ \A m \in alike : r <= m
  <2>. HIDE DEF alike
  <2>. QED
    BY <1>2, LowestOf
<1>. HIDE DEF r
<1>4. r \in Parted(node) /\ ConverterAt(node, r) = ConverterAt(node, n)
  BY <1>3
<1>5. ASSUME NEW m \in Parted(node), m < r
      PROVE  ConverterAt(node, m) # ConverterAt(node, r)
  <2>1. m \notin alike
    BY <1>1, <1>3, <1>4, <1>5
  <2>. QED
    BY <1>4, <2>1
<1>6. Brings(node, r)
  BY <1>4, <1>5 DEF Brings
<1>. QED
  BY <1>4, <1>6

LEMMA ParamForks ==
  ASSUME RowsFit, NEW path \in Seq(STRING), NEW f, OnPath(f, path), f.left # <<>>
  PROVE  LET T == OnParams(f)
         IN  /\ T \in Seq(WalkFrames) /\ BranchesBelow(T, f, path) /\ Ordered(T)
             /\ \A x \in DOMAIN T : \E c \in Words : T[x].at = Append(f.at, <<"param", c>>)
             /\ \A r : Brings(f.at, r) /\ Converts(ConverterAt(f.at, r), Head(f.left))
                         => \E x \in DOMAIN T : T[x].at = Append(f.at, <<"param", ConverterAt(f.at, r)>>)
<1>. DEFINE node == f.at
            text == Head(f.left)
            rows == {n \in Parted(node) : Brings(node, n) /\ Converts(ConverterAt(node, n), text)}
            taking == ByPrecedence(node, rows)
            Frame(r) == [at |-> Append(node, ByConverter(node, r)), left |-> Tail(f.left),
                         values |-> Append(f.values, <<text>>)]
            T == [i \in DOMAIN taking |-> Frame(taking[i])]
<1>1. node \in Seq(TrieKeys)
  BY BranchGoesOn
<1>2. OnParams(f) = T
  BY DEF OnParams, ByConverter
<1>3. rows \in SUBSET DOMAIN flat /\ \A r \in rows : Brings(node, r) /\ Converts(ConverterAt(node, r), text)
  BY DEF Parted, Leading
<1>4. \A r : Brings(node, r) /\ Converts(ConverterAt(node, r), text) => r \in rows
  BY DEF Brings
<1>5. ASSUME NEW r \in rows
      PROVE  /\ OnPath(Frame(r), path) /\ IsPrefix(node, Frame(r).at) /\ Frame(r) \in WalkFrames
             /\ Frame(r).at = Append(node, ByConverter(node, r)) /\ ConverterAt(node, r) \in Words
  <2>. DEFINE key == ByConverter(node, r)
              g == Frame(r)
  <2>1. key \in TrieKeys /\ ConverterAt(node, r) \in Words
    BY <1>1, <1>3, BringsFirst DEF ByConverter
  <2>2. TakesKey(key, Head(f.left)) /\ key[1] = "param"
    BY <1>3, <2>1 DEF TakesKey, ByConverter
  <2>3. g = [at |-> Append(f.at, key), left |-> Tail(f.left),
             values |-> IF key[1] = "literal" THEN f.values ELSE Append(f.values, <<Head(f.left)>>)]
    BY <2>2
  <2>4. g.at = Append(node, key)
    OBVIOUS
  <2>. HIDE DEF g, key, rows
  <2>5. OnPath(g, path) /\ IsPrefix(f.at, g.at)
    BY <2>1, <2>2, <2>3, StepsOn
  <2>6. g \in WalkFrames
    BY <2>5 DEF OnPath
  <2>. QED
    BY <2>1, <2>4, <2>5, <2>6 DEF g, key
<1>. HIDE DEF rows, taking, Frame, node
<1>6. /\ taking \in Seq(rows)
      /\ \A r \in rows : \E x \in DOMAIN taking : taking[x] = r
      /\ \A x, y \in DOMAIN taking : x < y =>
            TriedBefore(Append(node, ByConverter(node, taking[x])), Append(node, ByConverter(node, taking[y])))
  BY <1>1, <1>3, ByPrecedenceIs DEF taking
<1>7. /\ DOMAIN taking = 1 .. Len(taking) /\ Len(taking) \in Nat
      /\ DOMAIN T = DOMAIN taking /\ \A x \in DOMAIN taking : taking[x] \in rows /\ T[x] = Frame(taking[x])
  BY <1>6
<1>8. T \in Seq(WalkFrames)
  <2>. DEFINE size == Len(taking)
  <2>1. T = [i \in 1 .. size |-> Frame(taking[i])] /\ size \in Nat
    BY <1>7
  <2>2. \A i \in 1 .. size : Frame(taking[i]) \in WalkFrames
    BY <1>5, <1>7
  <2>. HIDE DEF size, T
  <2>. QED
    BY <2>1, <2>2
<1>. HIDE DEF T
<1>9. BranchesBelow(T, f, path)
  BY <1>5, <1>7 DEF BranchesBelow, node
<1>10. \A x \in DOMAIN T : T[x].at = Append(node, ByConverter(node, taking[x])) /\ ConverterAt(node, taking[x]) \in Words
  BY <1>5, <1>7
<1>11. Ordered(T)
  <2>. SUFFICES ASSUME NEW x \in DOMAIN T, NEW y \in DOMAIN T, x < y
                PROVE  TriedBefore(T[x].at, T[y].at)
    BY DEF Ordered
  <2>1. TriedBefore(Append(node, ByConverter(node, taking[x])), Append(node, ByConverter(node, taking[y])))
    BY <1>6, <1>7
  <2>2. /\ T[x].at = Append(node, ByConverter(node, taking[x]))
        /\ T[y].at = Append(node, ByConverter(node, taking[y]))
    BY <1>10
  <2>. QED
    BY <2>1, <2>2
<1>12. \A x \in DOMAIN T : \E c \in Words : T[x].at = Append(node, <<"param", c>>)
  BY <1>10 DEF ByConverter
<1>13. ASSUME NEW r, Brings(node, r), Converts(ConverterAt(node, r), text)
       PROVE  \E x \in DOMAIN T : T[x].at = Append(node, <<"param", ConverterAt(node, r)>>)
  <2>1. r \in rows
    BY <1>4, <1>13
  <2>2. PICK x \in DOMAIN taking : taking[x] = r
    BY <1>6, <2>1
  <2>3. x \in DOMAIN T /\ T[x].at = Append(node, ByConverter(node, r))
    BY <1>7, <1>10, <2>2
  <2>. QED
    BY <2>3 DEF ByConverter
<1>. QED
  BY <1>2, <1>8, <1>9, <1>11, <1>12, <1>13 DEF node

-----------------------------------------------------------------------------
(* One sequence of frames before another.                                     *)
LEMMA JoinIs ==
  ASSUME NEW T \in Seq(WalkFrames), NEW U \in Seq(WalkFrames)
  PROVE  /\ T \o U \in Seq(WalkFrames)
         /\ \A z \in DOMAIN (T \o U) : \/ \E x \in DOMAIN T : (T \o U)[z] = T[x]
                                       \/ \E y \in DOMAIN U : (T \o U)[z] = U[y]
         /\ \A x \in DOMAIN T : \E z \in DOMAIN (T \o U) : (T \o U)[z] = T[x]
         /\ \A y \in DOMAIN U : \E z \in DOMAIN (T \o U) : (T \o U)[z] = U[y]
         /\ Ordered(T) /\ Ordered(U) /\ AllBefore(T, U) => Ordered(T \o U)
<1>. DEFINE J == T \o U
            m == Len(T)
            n == Len(U)
<1>1. /\ J \in Seq(WalkFrames) /\ DOMAIN J = 1 .. m + n /\ DOMAIN T = 1 .. m /\ DOMAIN U = 1 .. n
      /\ m \in Nat /\ n \in Nat
      /\ \A i \in 1 .. m + n : J[i] = IF i <= m THEN T[i] ELSE U[i - m]
  BY ConcatProperties
<1>. HIDE DEF J, m, n
<1>2. ASSUME NEW z \in DOMAIN J
      PROVE  \/ z \in DOMAIN T /\ z <= m /\ J[z] = T[z]
             \/ z - m \in DOMAIN U /\ z > m /\ J[z] = U[z - m]
  BY <1>1
<1>3. ASSUME NEW x \in DOMAIN T
      PROVE  x \in DOMAIN J /\ J[x] = T[x]
  BY <1>1
<1>4. ASSUME NEW y \in DOMAIN U
      PROVE  y + m \in DOMAIN J /\ J[y + m] = U[y]
  <2>1. y + m \in 1 .. m + n /\ ~(y + m <= m) /\ y + m - m = y
    BY <1>1
  <2>. QED
    BY <1>1, <2>1
<1>5. ASSUME Ordered(T), Ordered(U), AllBefore(T, U)
      PROVE  Ordered(J)
  <2>. SUFFICES ASSUME NEW x \in DOMAIN J, NEW y \in DOMAIN J, x < y
                PROVE  TriedBefore(J[x].at, J[y].at)
    BY DEF Ordered
  <2>0. x \in Int /\ y \in Int
    BY <1>1
  <2>1. CASE y <= m
    <3>1. x \in DOMAIN T /\ y \in DOMAIN T /\ J[x] = T[x] /\ J[y] = T[y]
      BY <1>1, <1>2, <2>0, <2>1
    <3>. QED
      BY <1>5, <3>1 DEF Ordered
  <2>2. CASE x <= m /\ y > m
    <3>1. x \in DOMAIN T /\ y - m \in DOMAIN U /\ J[x] = T[x] /\ J[y] = U[y - m]
      BY <1>1, <1>2, <2>0, <2>2
    <3>. QED
      BY <1>5, <3>1 DEF AllBefore
  <2>3. CASE x > m
    <3>1. x - m \in DOMAIN U /\ y - m \in DOMAIN U /\ J[x] = U[x - m] /\ J[y] = U[y - m] /\ x - m < y - m
      BY <1>1, <1>2, <2>0, <2>3
    <3>. QED
      BY <1>5, <3>1 DEF Ordered
  <2>. QED
    BY <1>1, <2>0, <2>1, <2>2, <2>3
<1>6. /\ \A z \in DOMAIN J : (\E x \in DOMAIN T : J[z] = T[x]) \/ \E y \in DOMAIN U : J[z] = U[y]
      /\ \A x \in DOMAIN T : \E z \in DOMAIN J : J[z] = T[x]
      /\ \A y \in DOMAIN U : \E z \in DOMAIN J : J[z] = U[y]
  BY <1>2, <1>3, <1>4
<1>. QED
  BY <1>1, <1>5, <1>6 DEF J

(* Everything under a branch of one kind is tried before a branch of another. *)
LEMMA KindsPart ==
  ASSUME NEW node \in Seq(TrieKeys), NEW T, NEW U,
         \A x \in DOMAIN T : \E k \in TrieKeys : T[x].at = Append(node, k) /\ k[1] # "rest",
         \A y \in DOMAIN U : \E l \in TrieKeys : U[y].at = Append(node, l) /\ l[1] # "literal",
         \A x \in DOMAIN T, y \in DOMAIN U, k, l \in TrieKeys :
            T[x].at = Append(node, k) /\ U[y].at = Append(node, l) => k[1] # l[1]
  PROVE  AllBefore(T, U)
<1>. SUFFICES ASSUME NEW x \in DOMAIN T, NEW y \in DOMAIN U
              PROVE  TriedBefore(T[x].at, U[y].at)
  BY DEF AllBefore
<1>1. PICK k \in TrieKeys : T[x].at = Append(node, k) /\ k[1] # "rest"
  OBVIOUS
<1>2. PICK l \in TrieKeys : U[y].at = Append(node, l) /\ l[1] # "literal"
  OBVIOUS
<1>3. k[1] # l[1]
  BY <1>1, <1>2
<1>4. k[1] \in {"literal", "param"} /\ l[1] \in {"param", "rest"}
  BY <1>1, <1>2 DEF TrieKeys
<1>5. KeyClass(k) < KeyClass(l) /\ k # l
  <2>1. k[1] = "literal" => KeyClass(k) = 0
    BY DEF KeyClass
  <2>2. k[1] = "param" => KeyClass(k) \in {1, 2}
    BY DEF KeyClass
  <2>3. l[1] = "param" => KeyClass(l) \in {1, 2}
    BY DEF KeyClass
  <2>4. l[1] = "rest" => KeyClass(l) = 3
    BY DEF KeyClass
  <2>. QED
    BY <1>3, <1>4, <2>1, <2>2, <2>3, <2>4
<1>6. TriedBefore(Append(node, k), Append(node, l))
  BY <1>5, SiblingsPart
<1>. QED
  BY <1>1, <1>2, <1>6

LEMMA ForksAre ==
  ASSUME RowsFit, NEW path \in Seq(STRING), NEW f, OnPath(f, path), f.left # <<>>
  PROVE  LET T == Forks(f)
         IN  /\ T \in Seq(WalkFrames) /\ BranchesBelow(T, f, path) /\ Ordered(T)
             /\ \A x \in DOMAIN OnLiteral(f) : \E z \in DOMAIN T : T[z] = OnLiteral(f)[x]
             /\ \A x \in DOMAIN OnParams(f) : \E z \in DOMAIN T : T[z] = OnParams(f)[x]
             /\ \A x \in DOMAIN OnRest(f) : \E z \in DOMAIN T : T[z] = OnRest(f)[x]
<1>. DEFINE L == OnLiteral(f)
            P == OnParams(f)
            R == OnRest(f)
            node == f.at
            LP == L \o P
<1>1. node \in Seq(TrieKeys) /\ Head(f.left) \in STRING
  BY BranchGoesOn
<1>2. /\ L \in Seq(WalkFrames) /\ BranchesBelow(L, f, path) /\ Ordered(L)
      /\ \A x \in DOMAIN L : L[x].at = Append(node, <<"literal", Head(f.left)>>)
  BY LiteralFork
<1>3. /\ P \in Seq(WalkFrames) /\ BranchesBelow(P, f, path) /\ Ordered(P)
      /\ \A x \in DOMAIN P : \E c \in Words : P[x].at = Append(node, <<"param", c>>)
  BY ParamForks
<1>4. /\ R \in Seq(WalkFrames) /\ BranchesBelow(R, f, path) /\ Ordered(R)
      /\ \A x \in DOMAIN R : R[x].at = Append(node, RestKey)
  BY RestFork
<1>5. Forks(f) = LP \o R
  BY DEF Forks
<1>. HIDE DEF L, P, R, node
<1>6. ASSUME NEW k \in TrieKeys, NEW l \in TrieKeys, Append(node, k) = Append(node, l)
      PROVE  k = l
  BY <1>1, <1>6, OneKeyMore
<1>7. /\ \A x \in DOMAIN L : \E k \in TrieKeys : L[x].at = Append(node, k) /\ k[1] = "literal"
      /\ \A x \in DOMAIN P : \E k \in TrieKeys : P[x].at = Append(node, k) /\ k[1] = "param"
      /\ \A x \in DOMAIN R : \E k \in TrieKeys : R[x].at = Append(node, k) /\ k[1] = "rest"
  <2>1. <<"literal", Head(f.left)>> \in TrieKeys /\ RestKey \in TrieKeys /\ RestKey[1] = "rest"
    BY <1>1 DEF TrieKeys, RestKey, Words
  <2>2. \A c \in Words : <<"param", c>> \in TrieKeys
    BY DEF TrieKeys
  <2>. QED
    BY <1>2, <1>3, <1>4, <2>1, <2>2
<1>8. AllBefore(L, P)
  BY <1>1, <1>6, <1>7, KindsPart
<1>9. /\ LP \in Seq(WalkFrames) /\ Ordered(LP)
      /\ \A z \in DOMAIN LP : (\E x \in DOMAIN L : LP[z] = L[x]) \/ \E y \in DOMAIN P : LP[z] = P[y]
      /\ \A x \in DOMAIN L : \E z \in DOMAIN LP : LP[z] = L[x]
      /\ \A y \in DOMAIN P : \E z \in DOMAIN LP : LP[z] = P[y]
  BY <1>2, <1>3, <1>8, JoinIs
<1>. HIDE DEF LP
<1>10. \A z \in DOMAIN LP : \E k \in TrieKeys : LP[z].at = Append(node, k) /\ k[1] \in {"literal", "param"}
  <2>. SUFFICES ASSUME NEW z \in DOMAIN LP
                PROVE  \E k \in TrieKeys : LP[z].at = Append(node, k) /\ k[1] \in {"literal", "param"}
    OBVIOUS
  <2>1. CASE \E x \in DOMAIN L : LP[z] = L[x]
    BY <1>7, <2>1
  <2>2. CASE \E x \in DOMAIN P : LP[z] = P[x]
    BY <1>7, <2>2
  <2>. QED
    BY <1>9, <2>1, <2>2
<1>11. AllBefore(LP, R)
  BY <1>1, <1>6, <1>7, <1>10, KindsPart
<1>. DEFINE T == LP \o R
<1>12. /\ T \in Seq(WalkFrames) /\ Ordered(T)
       /\ \A z \in DOMAIN T : (\E x \in DOMAIN LP : T[z] = LP[x]) \/ \E y \in DOMAIN R : T[z] = R[y]
       /\ \A x \in DOMAIN LP : \E z \in DOMAIN T : T[z] = LP[x]
       /\ \A y \in DOMAIN R : \E z \in DOMAIN T : T[z] = R[y]
  BY <1>4, <1>9, <1>11, JoinIs
<1>0. Forks(f) = T
  BY <1>5
<1>. HIDE DEF T
<1>13. BranchesBelow(T, f, path)
  <2>1. \A x \in DOMAIN LP : OnPath(LP[x], path) /\ IsPrefix(f.at, LP[x].at)
    BY <1>2, <1>3, <1>9 DEF BranchesBelow
  <2>. QED
    BY <1>4, <1>12, <2>1 DEF BranchesBelow
<1>14. /\ \A x \in DOMAIN L : \E z \in DOMAIN T : T[z] = L[x]
       /\ \A x \in DOMAIN P : \E z \in DOMAIN T : T[z] = P[x]
  <2>1. ASSUME NEW x \in DOMAIN L
        PROVE  \E z \in DOMAIN T : T[z] = L[x]
    <3>1. PICK y \in DOMAIN LP : LP[y] = L[x]
      BY <1>9
    <3>. QED
      BY <1>12, <3>1
  <2>2. ASSUME NEW x \in DOMAIN P
        PROVE  \E z \in DOMAIN T : T[z] = P[x]
    <3>1. PICK y \in DOMAIN LP : LP[y] = P[x]
      BY <1>9
    <3>. QED
      BY <1>12, <3>1
  <2>. QED
    BY <2>1, <2>2
<1>. QED
  BY <1>0, <1>12, <1>13, <1>14 DEF L, P, R

-----------------------------------------------------------------------------
(* The rows that take a path, and how they do.                                *)
Takers(path) == {n \in DOMAIN flat : Matches(flat[n].segments, path)}
Suits(n, path) ==
    LET s == SpineOf(n)  e == Len(s)
        open == e > 0 /\ s[e][1] = "rest"
    IN  /\ \A i \in 1 .. e : s[i][1] = "rest" \/ TakesKey(s[i], path[i])
        /\ open => Len(path) >= e /\ ConvertsRest(Last(flat[n].segments).converter, SubSeq(path, e, Len(path)))
        /\ ~open => Len(path) = e

LEMMA SegmentTakes ==
  ASSUME NEW s \in SegmentShapes, s.kind # "rest", NEW text
  PROVE  (IF s.kind = "literal" THEN s.text = text ELSE Converts(s.converter, text)) <=> TakesKey(Key(s), text)
<1>1. CASE s.kind = "literal"
  BY <1>1, KeyIs DEF TakesKey
<1>2. CASE s.kind = "param"
  BY <1>2, KeyIs DEF TakesKey
<1>. QED
  BY <1>1, <1>2, KeyIs

LEMMA TakersSuit ==
  ASSUME RowsFit, ~Buried(flat), NEW path \in Seq(STRING), NEW n \in DOMAIN flat
  PROVE  n \in Takers(path) <=> Suits(n, path)
<1>. DEFINE p == flat[n].segments
            s == SpineOf(n)
            e == Len(p)
            open == p # <<>> /\ Last(p).kind = "rest"
            fixed == IF open THEN Front(p) ELSE p
            size == IF open THEN e - 1 ELSE e
<1>1. /\ p \in Seq(SegmentShapes) /\ e \in Nat /\ s \in Seq(TrieKeys) /\ Len(s) = e
      /\ \A i \in 1 .. e : p[i] \in SegmentShapes /\ s[i] = Key(p[i])
  BY RowIs
<1>2. \A i \in 1 .. e : s[i][1] = p[i].kind /\ p[i].kind \in {"literal", "param", "rest"}
  BY <1>1, KeyIs
<1>3. p # <<>> <=> e > 0
  BY <1>1, EmptySeq
<1>4. open <=> e > 0 /\ s[e][1] = "rest"
  BY <1>1, <1>2, <1>3 DEF Last
<1>5. \A i \in 1 .. e : s[i][1] = "rest" => i = e
  BY <1>1, RestIsLast
<1>. HIDE DEF p, s, open
<1>6. /\ size \in Nat /\ DOMAIN fixed = 1 .. size /\ Len(fixed) = size /\ size <= e
      /\ \A i \in 1 .. size : fixed[i] = p[i]
  <2>1. CASE open
    <3>1. e > 0 /\ fixed = SubSeq(p, 1, e - 1) /\ size = e - 1
      BY <1>4, <2>1 DEF Front
    <3>2. e - 1 \in 0 .. Len(p)
      BY <1>1, <3>1
    <3>3. /\ SubSeq(p, 1, e - 1) \in Seq(SegmentShapes) /\ Len(SubSeq(p, 1, e - 1)) = e - 1
          /\ \A i \in 1 .. e - 1 : SubSeq(p, 1, e - 1)[i] = p[i]
      BY <1>1, <3>2, BeginningIs
    <3>. HIDE DEF e
    <3>4. size \in Nat /\ size <= e
      BY <1>1, <3>1
    <3>. QED
      BY <3>1, <3>3, <3>4
  <2>2. CASE ~open
    BY <1>1, <2>2
  <2>. QED
    BY <2>1, <2>2
<1>7. ASSUME NEW i \in 1 .. size
      PROVE  /\ i \in 1 .. e /\ s[i][1] # "rest"
             /\ (IF fixed[i].kind = "literal" THEN fixed[i].text = path[i]
                 ELSE Converts(fixed[i].converter, path[i])) <=> TakesKey(s[i], path[i])
  <2>1. i \in 1 .. e
    BY <1>1, <1>6
  <2>2. s[i][1] # "rest"
    <3>1. CASE open
      BY <1>1, <1>5, <2>1, <3>1
    <3>2. CASE ~open
      BY <1>1, <1>4, <1>5, <2>1, <3>2
    <3>. QED
      BY <3>1, <3>2
  <2>3. fixed[i] = p[i] /\ p[i] \in SegmentShapes /\ p[i].kind # "rest" /\ s[i] = Key(p[i])
    BY <1>1, <1>2, <1>6, <2>1, <2>2
  <2>. QED
    BY <2>1, <2>2, <2>3, SegmentTakes
<1>8. (\A i \in 1 .. e : s[i][1] = "rest" \/ TakesKey(s[i], path[i]))
        <=> \A i \in 1 .. size : TakesKey(s[i], path[i])
  <2>1. \A i \in 1 .. e : i \in 1 .. size \/ s[i][1] = "rest"
    BY <1>1, <1>4
  <2>. QED
    BY <1>7, <2>1
<1>9. Matches(p, path) <=>
        /\ IF open THEN Len(path) > size ELSE Len(path) = size
        /\ \A i \in 1 .. size : TakesKey(s[i], path[i])
        /\ open => ConvertsRest(Last(p).converter, SubSeq(path, size + 1, Len(path)))
  <2>. HIDE DEF size
  <2>1. Matches(p, path) <=>
          /\ IF open THEN Len(path) > Len(fixed) ELSE Len(path) = Len(fixed)
          /\ \A i \in DOMAIN fixed :
               IF fixed[i].kind = "literal" THEN fixed[i].text = path[i]
               ELSE Converts(fixed[i].converter, path[i])
          /\ open => ConvertsRest(Last(p).converter, SubSeq(path, Len(fixed) + 1, Len(path)))
    BY DEF Matches, open
  <2>. HIDE DEF fixed
  <2>. QED
    BY <1>6, <1>7, <2>1
<1>10. open => size = e - 1 /\ size + 1 = e /\ (Len(path) > size <=> Len(path) >= e)
  BY <1>1
<1>11. Suits(n, path) <=>
        /\ \A i \in 1 .. e : s[i][1] = "rest" \/ TakesKey(s[i], path[i])
        /\ open => Len(path) >= e /\ ConvertsRest(Last(p).converter, SubSeq(path, e, Len(path)))
        /\ ~open => Len(path) = e
  <2>. DEFINE E == Len(s)
  <2>1. Suits(n, path) <=>
        /\ \A i \in 1 .. E : s[i][1] = "rest" \/ TakesKey(s[i], path[i])
        /\ (E > 0 /\ s[E][1] = "rest")
              => Len(path) >= E /\ ConvertsRest(Last(p).converter, SubSeq(path, E, Len(path)))
        /\ ~(E > 0 /\ s[E][1] = "rest") => Len(path) = E
    BY DEF Suits, s, p
  <2>2. E = e
    BY <1>1
  <2>. HIDE DEF E, e
  <2>. QED
    BY <1>4, <2>1, <2>2
<1>12. Matches(p, path) <=> Suits(n, path)
  <2>1. CASE open
    <3>. HIDE DEF size, e
    <3>. QED
      BY <1>8, <1>9, <1>10, <1>11, <2>1
  <2>2. CASE ~open
    <3>1. size = e
      BY <2>2
    <3>. HIDE DEF size, e
    <3>. QED
      BY <1>8, <1>9, <1>11, <2>2, <3>1
  <2>. QED
    BY <2>1, <2>2
<1>. QED
  BY <1>12 DEF Takers, p

-----------------------------------------------------------------------------
(* A row below a frame that takes the path is below one of its forks.         *)
LEMMA TakerGoesOn ==
  ASSUME RowsFit, ~Buried(flat), NEW path \in Seq(STRING), NEW f, OnPath(f, path), f.left # <<>>,
         NEW n \in Takers(path), IsPrefix(f.at, SpineOf(n))
  PROVE  \E z \in DOMAIN Forks(f) : IsPrefix(Forks(f)[z].at, SpineOf(n))
<1>. DEFINE p == flat[n].segments
            s == SpineOf(n)
            e == Len(s)
            node == f.at
            k == Len(node)
            open == e > 0 /\ s[e][1] = "rest"
            key == s[k + 1]
            text == Head(f.left)
<1>1. n \in DOMAIN flat
  BY DEF Takers
<1>2. /\ p \in Seq(SegmentShapes) /\ s \in Seq(TrieKeys) /\ Len(p) = e /\ e \in Nat
      /\ \A i \in 1 .. e : p[i] \in SegmentShapes /\ s[i] = Key(p[i])
  BY <1>1, RowIs
<1>3. /\ \A i \in 1 .. e : s[i][1] = "rest" \/ TakesKey(s[i], path[i])
      /\ open => Len(path) >= e /\ ConvertsRest(Last(p).converter, SubSeq(path, e, Len(path)))
      /\ ~open => Len(path) = e
  BY <1>1, TakersSuit DEF Suits
<1>4. /\ node \in Seq(TrieKeys) /\ Halfway(f, path) /\ k \in Nat /\ k < Len(path)
      /\ text = path[k + 1] /\ f.left = SubSeq(path, k + 1, Len(path))
  BY BranchGoesOn
<1>5. k <= e /\ \A i \in 1 .. k : node[i] = s[i]
  BY <1>2, <1>4, KeyPrefixIs
<1>6. \A i \in 1 .. e : s[i][1] = "rest" => i = e
  BY <1>1, RestIsLast
<1>7. IsPrefix(node, s)
  OBVIOUS
<1>0. Len(path) \in Nat
  OBVIOUS
<1>8. k < e
  <2>1. CASE ~open
    BY <1>2, <1>3, <1>4, <2>1
  <2>2. CASE open
    <3>. SUFFICES ASSUME k = e
                  PROVE  FALSE
      BY <1>2, <1>4, <1>5
    <3>1. TakesKey(node[e], path[e]) /\ node[e] = s[e]
      BY <1>4, <1>5, <2>2 DEF Halfway
    <3>. QED
      BY <2>2, <3>1 DEF TakesKey
  <2>. QED
    BY <2>1, <2>2
<1>. HIDE DEF p, s, node, e, k
<1>9. k + 1 \in 1 .. e /\ key \in TrieKeys /\ p[k + 1] \in SegmentShapes /\ key = Key(p[k + 1])
  <2>1. k + 1 \in 1 .. e
    BY <1>2, <1>4, <1>8
  <2>2. p[k + 1] \in SegmentShapes /\ key = Key(p[k + 1])
    BY <1>2, <2>1 DEF key
  <2>. QED
    BY <2>1, <2>2, KeyIs
<1>10. IsPrefix(Append(node, key), s)
  <2>1. s[k + 1] = key /\ k < Len(s) /\ k = Len(node) /\ Len(s) = e
    BY <1>8 DEF e, k
  <2>. HIDE DEF key
  <2>. QED
    BY <1>2, <1>4, <1>7, <1>9, <2>1, ChildOf
<1>. HIDE DEF key, text, open
<1>11. CASE key[1] = "rest"
  <2>1. k + 1 = e /\ key = s[e]
    BY <1>6, <1>9, <1>11 DEF key
  <2>2. open
    BY <1>2, <1>9, <1>11, <2>1 DEF open
  <2>3. key = RestKey
    BY <1>9, <1>11, KeyIs DEF RestKey
  <2>. DEFINE child == Append(node, RestKey)
  <2>4. child \in Seq(TrieKeys) /\ Len(child) = k + 1 /\ IsPrefix(child, s)
    <3>1. key \in TrieKeys /\ child = Append(node, key)
      BY <1>9, <2>3
    <3>. HIDE DEF child
    <3>. QED
      BY <1>4, <1>10, <3>1, OneKeyMore DEF k
  <2>5. s = child
    <3>. HIDE DEF child
    <3>1. Len(s) = Len(child) /\ \A i \in 1 .. Len(child) : child[i] = s[i]
      BY <1>2, <2>1, <2>4, KeyPrefixIs DEF e
    <3>. QED
      BY <1>2, <2>4, <3>1, SeqEqual
  <2>6. n \in LeafOf(child)
    BY <1>1, <2>5 DEF LeafOf, s, SpineOf
  <2>7. ConvertsRest(Last(flat[n].segments).converter, f.left)
    BY <1>3, <1>4, <2>1, <2>2 DEF p
  <2>8. PICK x \in DOMAIN OnRest(f) : OnRest(f)[x].at = child
    BY <2>6, <2>7, RestFork DEF node
  <2>9. PICK z \in DOMAIN Forks(f) : Forks(f)[z] = OnRest(f)[x]
    BY <2>8, ForksAre
  <2>. QED
    BY <2>4, <2>8, <2>9 DEF s
<1>12. CASE key[1] # "rest"
  <2>1. TakesKey(key, text)
    BY <1>3, <1>4, <1>9, <1>12 DEF key
  <2>2. CASE key = <<"literal", text>>
    <3>. DEFINE child == Append(node, <<"literal", text>>)
    <3>1. IsPrefix(child, s)
      BY <1>10, <2>2
    <3>2. IsNode(child)
      BY <1>1, <3>1 DEF IsNode, Leading, s, SpineOf
    <3>3. PICK x \in DOMAIN OnLiteral(f) : OnLiteral(f)[x].at = child
      BY <3>2, LiteralFork DEF node, text
    <3>4. PICK z \in DOMAIN Forks(f) : Forks(f)[z] = OnLiteral(f)[x]
      BY <3>3, ForksAre
    <3>. QED
      BY <3>1, <3>3, <3>4 DEF s
  <2>3. CASE key # <<"literal", text>>
    <3>1. PICK c \in Words : key = <<"param", c>> /\ Converts(c, text)
      BY <2>1, <2>3 DEF TakesKey
    <3>2. p[k + 1].kind = "param" /\ p[k + 1].converter = c
      <4>1. Key(p[k + 1])[1] = "param" /\ Key(p[k + 1])[2] = c
        BY <1>9, <3>1
      <4>. QED
        BY <1>9, <4>1, KeyIs
    <3>3. n \in Parted(node) /\ ConverterAt(node, n) = c
      <4>1. IsPrefix(node, Spine(flat[n].segments)) /\ Len(flat[n].segments) > Len(node)
        BY <1>2, <1>7, <1>8 DEF s, SpineOf, p, k
      <4>2. flat[n].segments[Len(node) + 1].kind = "param" /\ flat[n].segments[Len(node) + 1].converter = c
        BY <3>2 DEF p, k
      <4>. QED
        BY <1>1, <4>1, <4>2 DEF Parted, Leading, ConverterAt
    <3>4. PICK r \in Parted(node) : Brings(node, r) /\ ConverterAt(node, r) = c
      BY <3>3, SomeBrings
    <3>5. PICK x \in DOMAIN OnParams(f) : OnParams(f)[x].at = Append(node, <<"param", ConverterAt(node, r)>>)
      BY <3>1, <3>4, ParamForks DEF node, text
    <3>6. PICK z \in DOMAIN Forks(f) : Forks(f)[z] = OnParams(f)[x]
      BY <3>5, ForksAre
    <3>7. IsPrefix(Forks(f)[z].at, s)
      BY <1>10, <3>1, <3>4, <3>5, <3>6
    <3>. QED
      BY <3>7 DEF s
  <2>. QED
    BY <2>2, <2>3
<1>. QED
  BY <1>11, <1>12

(* Where nothing is left, a row below that takes the path ends there.         *)
LEMMA TakerEnds ==
  ASSUME RowsFit, ~Buried(flat), NEW path \in Seq(STRING), NEW f, OnPath(f, path), f.left = <<>>,
         NEW n \in Takers(path), IsPrefix(f.at, SpineOf(n))
  PROVE  n \in LeafOf(f.at)
<1>. DEFINE s == SpineOf(n)
            e == Len(s)
            node == f.at
            k == Len(node)
<1>1. n \in DOMAIN flat /\ s \in Seq(TrieKeys) /\ e \in Nat /\ Len(path) \in Nat
  BY RowIs DEF Takers
<1>2. /\ e > 0 /\ s[e][1] = "rest" => Len(path) >= e
      /\ ~(e > 0 /\ s[e][1] = "rest") => Len(path) = e
  BY <1>1, TakersSuit DEF Suits
<1>3. f \in WalkFrames /\ (Halfway(f, path) \/ AtRest(f, path))
  BY DEF OnPath
<1>4. node \in Seq(TrieKeys) /\ k \in Nat
  BY <1>3 DEF WalkFrames
<1>5. k <= e /\ \A i \in 1 .. k : node[i] = s[i]
  BY <1>1, <1>4, KeyPrefixIs
<1>6. k = e
  <2>1. CASE Halfway(f, path)
    <3>1. k <= Len(path) /\ f.left = SubSeq(path, k + 1, Len(path))
      BY <2>1 DEF Halfway
    <3>. HIDE DEF k
    <3>2. k \in 0 .. Len(path)
      BY <1>1, <1>4, <3>1
    <3>3. k = Len(path)
      BY <3>1, <3>2, LeftIs
    <3>. HIDE DEF e
    <3>. QED
      BY <1>1, <1>2, <1>5, <3>3
  <2>2. CASE AtRest(f, path)
    <3>1. k > 0 /\ node[k] = <<"rest", "slot">>
      BY <1>1, <1>4, <2>2 DEF AtRest
    <3>2. k \in 1 .. Len(SpineOf(n)) /\ SpineOf(n)[k][1] = "rest"
      BY <1>1, <1>4, <1>5, <3>1
    <3>. QED
      BY <1>1, <3>2, RestIsLast
  <2>. QED
    BY <1>3, <2>1, <2>2
<1>. HIDE DEF s, node
<1>7. s = node
  BY <1>1, <1>4, <1>5, <1>6, SeqEqual
<1>. QED
  BY <1>1, <1>7 DEF LeafOf, s, SpineOf, node

(* And the row that ends there takes it, by the values the frame holds.       *)
LEMMA LeafTakes ==
  ASSUME RowsFit, ~Buried(flat), ~Ambiguous(flat), NEW path \in Seq(STRING),
         NEW f, OnPath(f, path), f.left = <<>>, NEW n \in LeafOf(f.at)
  PROVE  n \in Takers(path) /\ SpineOf(n) = f.at
<1>. DEFINE s == SpineOf(n)
            e == Len(s)
            open == e > 0 /\ s[e][1] = "rest"
<1>1. n \in DOMAIN flat /\ s = f.at
  BY DEF LeafOf, SpineOf
<1>2. s \in Seq(TrieKeys) /\ e \in Nat /\ Len(path) \in Nat
  BY <1>1, RowIs
<1>3. Halfway(f, path) \/ AtRest(f, path)
  BY DEF OnPath
<1>4. CASE Halfway(f, path)
  <2>1. /\ e <= Len(path) /\ f.left = SubSeq(path, e + 1, Len(path))
        /\ \A i \in 1 .. e : TakesKey(s[i], path[i])
    BY <1>1, <1>4 DEF Halfway
  <2>2. Len(path) = e
    <3>. HIDE DEF e
    <3>1. e \in 0 .. Len(path)
      BY <1>2, <2>1
    <3>. QED
      BY <2>1, <3>1, LeftIs
  <2>3. ~open
    <3>. SUFFICES ASSUME open
                  PROVE  FALSE
      OBVIOUS
    <3>1. TakesKey(s[e], path[e])
      BY <1>2, <2>1
    <3>. QED
      BY <3>1 DEF TakesKey
  <2>4. Suits(n, path)
    BY <2>1, <2>2, <2>3 DEF Suits
  <2>. QED
    BY <1>1, <2>4, TakersSuit
<1>5. CASE AtRest(f, path)
  <2>1. /\ e \in 1 .. Len(path) /\ s[e] = <<"rest", "slot">>
        /\ \A i \in 1 .. e - 1 : TakesKey(s[i], path[i])
        /\ \E r \in LeafOf(f.at) :
             ConvertsRest(Last(flat[r].segments).converter, SubSeq(path, e, Len(path)))
    BY <1>1, <1>5 DEF AtRest
  <2>2. PICK r \in LeafOf(f.at) : ConvertsRest(Last(flat[r].segments).converter, SubSeq(path, e, Len(path)))
    BY <2>1
  <2>3. r = n
    <3>1. r \in DOMAIN flat /\ SpineOf(r) = SpineOf(n)
      BY <1>1 DEF LeafOf, SpineOf
    <3>. QED
      BY <1>1, <3>1, LeavesApart
  <2>4. open
    BY <2>1
  <2>5. \A i \in 1 .. e : s[i][1] = "rest" \/ TakesKey(s[i], path[i])
    <3>1. \A i \in 1 .. e : i \in 1 .. e - 1 \/ i = e
      BY <1>2
    <3>. QED
      BY <2>1, <3>1
  <2>6. Len(path) >= e
    BY <1>2, <2>1
  <2>7. ConvertsRest(Last(flat[n].segments).converter, SubSeq(path, e, Len(path)))
    BY <2>2, <2>3
  <2>8. Suits(n, path)
    BY <2>4, <2>5, <2>6, <2>7 DEF Suits
  <2>. QED
    BY <1>1, <2>8, TakersSuit
<1>. QED
  BY <1>1, <1>3, <1>4, <1>5

(* What is bound to the parameters of a row.                                  *)
BoundFor(n, values, path) ==
    LET segments == flat[n].segments
    IN  /\ Len(values) = Cardinality(Parameters(segments))
        /\ \A i \in DOMAIN segments :
             LET step == segments[i]
                 k == Cardinality(Parameters(SubSeq(segments, 1, i)))
             IN  /\ step.kind = "param" => values[k] = <<path[i]>>
                 /\ step.kind = "rest" => values[k] = SubSeq(path, i, Len(path))

LEMMA GivenIsBound ==
  ASSUME RowsFit, NEW n \in DOMAIN flat, NEW path, NEW values, Given(SpineOf(n), values, path)
  PROVE  BoundFor(n, values, path)
<1>. DEFINE p == flat[n].segments
            s == SpineOf(n)
            e == Len(p)
<1>1. /\ p \in Seq(SegmentShapes) /\ e \in Nat /\ DOMAIN p = 1 .. e /\ s \in Seq(TrieKeys) /\ Len(s) = e
      /\ \A i \in 1 .. e : p[i] \in SegmentShapes /\ s[i] = Key(p[i])
  BY RowIs
<1>2. \A i \in 1 .. e : s[i][1] = p[i].kind
  BY <1>1, KeyIs
<1>3. /\ Len(values) = Cardinality(Slots(s, Len(s)))
      /\ \A i \in 1 .. Len(s) :
           LET k == Cardinality(Slots(s, i))
           IN  /\ s[i][1] = "param" => values[k] = <<path[i]>>
               /\ s[i][1] = "rest" => values[k] = SubSeq(path, i, Len(path))
  BY DEF Given
<1>. HIDE DEF p, s
<1>4. Parameters(p) = Slots(s, e)
  BY <1>1, <1>2 DEF Parameters, Slots
<1>5. ASSUME NEW i \in 1 .. e
      PROVE  Parameters(SubSeq(p, 1, i)) = Slots(s, i)
  <2>. DEFINE q == SubSeq(p, 1, i)
  <2>1. i \in 0 .. Len(p) /\ \A j \in 1 .. i : j \in 1 .. e
    BY <1>1
  <2>2. q \in Seq(SegmentShapes) /\ Len(q) = i /\ \A j \in 1 .. i : q[j] = p[j]
    BY <1>1, <2>1, BeginningIs
  <2>. HIDE DEF q
  <2>3. DOMAIN q = 1 .. i
    BY <2>2
  <2>4. Parameters(q) = Slots(s, i)
    BY <1>2, <2>1, <2>2, <2>3 DEF Parameters, Slots
  <2>. QED
    BY <2>4 DEF q
<1>. HIDE DEF e
<1>6. ASSUME NEW i \in 1 .. e
      PROVE  LET k == Cardinality(Parameters(SubSeq(p, 1, i)))
             IN  /\ p[i].kind = "param" => values[k] = <<path[i]>>
                 /\ p[i].kind = "rest" => values[k] = SubSeq(path, i, Len(path))
  BY <1>1, <1>2, <1>3, <1>5
<1>7. Len(values) = Cardinality(Parameters(p))
  BY <1>1, <1>3, <1>4
<1>. QED
  BY <1>1, <1>6, <1>7 DEF BoundFor, p

-----------------------------------------------------------------------------
(* The walk, with its branches in their order.                                *)
WalkHolds(T, path) ==
    /\ T \in Seq(WalkFrames) /\ Ordered(T)
    /\ \A x \in DOMAIN T : OnPath(T[x], path)
    /\ \A n \in Takers(path) : \E x \in DOMAIN T : IsPrefix(T[x].at, SpineOf(n))

Answered(path) ==
    /\ resolved.at = "none" => Takers(path) = {}
    /\ resolved.at \in {"found", "405"} =>
         /\ resolved.row \in Takers(path)
         /\ \A n \in Takers(path) \ {resolved.row} : Precedes(resolved.row, n)
         /\ BoundFor(resolved.row, bound, path)

Wanted == SplitPath(wanted.path)

LEMMA LeadingStill ==
  ASSUME UNCHANGED flat
  PROVE  \A node : Leading(node)' = Leading(node)
BY DEF Leading

LEMMA OrderStill ==
  ASSUME UNCHANGED flat
  PROVE  \A a, b : TriedBefore(a, b)' <=> TriedBefore(a, b)
<1>1. \A a, b, i : PartAt(a, b, i)' <=> PartAt(a, b, i)
  BY LeadingStill DEF PartAt
<1>. QED
  BY <1>1 DEF TriedBefore

LEMMA WalkStill ==
  ASSUME UNCHANGED flat, NEW path, Wanted' = path, NEW T, trail' = T, WalkHolds(T, path)
  PROVE  WalkHolds(trail, Wanted)'
<1>1. T \in Seq(WalkFrames) /\ Ordered(T)
  BY DEF WalkHolds
<1>3. Ordered(trail)'
  BY <1>1, OrderStill DEF Ordered
<1>4. \A x \in DOMAIN trail' : OnPath(trail[x], Wanted)'
  BY DEF WalkHolds, OnPath, AtRest, LeafOf
<1>5. \A n \in Takers(Wanted)' : \E x \in DOMAIN trail' : IsPrefix(trail[x].at, SpineOf(n))'
  BY DEF WalkHolds, Takers, SpineOf
<1>. QED
  BY <1>1, <1>3, <1>4, <1>5 DEF WalkHolds

(* One forward, and one backward.                                             *)
LEMMA FirstBranch ==
  ASSUME NEW path \in Seq(STRING)
  PROVE  WalkHolds(<<[at |-> <<>>, left |-> path, values |-> <<>>]>>, path)
<1>. DEFINE f == [at |-> <<>>, left |-> path, values |-> <<>>]
            T == <<f>>
<1>1. f \in WalkFrames
  BY DEF WalkFrames
<1>2. Slots(f.at, 0) = {} /\ Len(f.at) = 0 /\ Len(f.values) = 0
  BY DEF Slots
<1>3. Given(f.at, f.values, path)
  BY <1>2, FS_EmptySet DEF Given
<1>4. Halfway(f, path)
  <2>1. Len(path) \in Nat
    OBVIOUS
  <2>2. SubSeq(path, 1, Len(path)) = path
    BY SubSeqFull
  <2>. QED
    BY <2>1, <2>2 DEF Halfway
<1>5. OnPath(f, path)
  BY <1>1, <1>3, <1>4 DEF OnPath
<1>6. T \in Seq(WalkFrames) /\ DOMAIN T = {1} /\ T[1] = f
  BY <1>1
<1>7. ASSUME NEW n \in Takers(path)
      PROVE  IsPrefix(f.at, SpineOf(n))
  BY DEF IsPrefix
<1>. HIDE DEF T
<1>8. Ordered(T)
  BY <1>6 DEF Ordered
<1>9. WalkHolds(T, path)
  BY <1>5, <1>6, <1>7, <1>8 DEF WalkHolds
<1>. QED
  BY <1>9 DEF T

LEMMA HeadTail ==
  ASSUME NEW T \in Seq(WalkFrames), T # <<>>
  PROVE  /\ Head(T) \in WalkFrames /\ Tail(T) \in Seq(WalkFrames)
         /\ 1 \in DOMAIN T /\ T[1] = Head(T)
         /\ \A y \in DOMAIN Tail(T) : y + 1 \in DOMAIN T /\ Tail(T)[y] = T[y + 1] /\ y > 0 /\ y \in Nat
         /\ \A x \in DOMAIN T : x = 1 \/ (x - 1 \in DOMAIN Tail(T) /\ Tail(T)[x - 1] = T[x])
OBVIOUS

LEMMA TailOrdered ==
  ASSUME NEW T \in Seq(WalkFrames), T # <<>>, Ordered(T)
  PROVE  /\ Ordered(Tail(T))
         /\ \A y \in DOMAIN Tail(T) : TriedBefore(Head(T).at, Tail(T)[y].at)
<1>. DEFINE U == Tail(T)
<1>1. /\ 1 \in DOMAIN T /\ T[1] = Head(T)
      /\ \A y \in DOMAIN U : y + 1 \in DOMAIN T /\ U[y] = T[y + 1] /\ y > 0 /\ y \in Nat
  BY HeadTail
<1>. HIDE DEF U
<1>2. \A x, y \in DOMAIN U : x < y => TriedBefore(U[x].at, U[y].at)
  BY <1>1 DEF Ordered
<1>3. \A y \in DOMAIN U : TriedBefore(T[1].at, T[y + 1].at)
  BY <1>1 DEF Ordered
<1>4. \A y \in DOMAIN U : TriedBefore(Head(T).at, U[y].at)
  BY <1>1, <1>3
<1>. QED
  BY <1>2, <1>4 DEF Ordered, U

LEMMA ForksHold ==
  ASSUME RowsFit, ~Buried(flat), NEW path \in Seq(STRING), NEW T, WalkHolds(T, path), T # <<>>,
         Head(T).left # <<>>
  PROVE  WalkHolds(Forks(Head(T)) \o Tail(T), path)
<1>. DEFINE f == Head(T)
            F == Forks(f)
            U == Tail(T)
            J == F \o U
<1>1. T \in Seq(WalkFrames) /\ Ordered(T) /\ \A x \in DOMAIN T : OnPath(T[x], path)
  BY DEF WalkHolds
<1>2. /\ f \in WalkFrames /\ U \in Seq(WalkFrames) /\ 1 \in DOMAIN T /\ T[1] = f
      /\ \A y \in DOMAIN U : y + 1 \in DOMAIN T /\ U[y] = T[y + 1]
      /\ \A x \in DOMAIN T : x = 1 \/ (x - 1 \in DOMAIN U /\ U[x - 1] = T[x])
  BY <1>1, HeadTail
<1>3. OnPath(f, path)
  BY <1>1, <1>2
<1>4. Ordered(U) /\ \A y \in DOMAIN U : TriedBefore(f.at, U[y].at)
  BY <1>1, TailOrdered
<1>. HIDE DEF f, U
<1>0. f.left # <<>>
  BY DEF f
<1>5. F \in Seq(WalkFrames) /\ BranchesBelow(F, f, path) /\ Ordered(F)
  BY <1>0, <1>3, ForksAre
<1>6. ASSUME NEW n \in Takers(path), IsPrefix(f.at, SpineOf(n))
      PROVE  \E z \in DOMAIN F : IsPrefix(F[z].at, SpineOf(n))
  BY <1>0, <1>3, <1>6, TakerGoesOn
<1>. HIDE DEF F
<1>7. AllBefore(F, U)
  <2>. SUFFICES ASSUME NEW x \in DOMAIN F, NEW y \in DOMAIN U
                PROVE  TriedBefore(F[x].at, U[y].at)
    BY DEF AllBefore
  <2>1. F[x] \in WalkFrames /\ U[y] \in WalkFrames /\ IsPrefix(f.at, F[x].at)
    BY <1>2, <1>5 DEF BranchesBelow
  <2>2. f.at \in Seq(TrieKeys) /\ F[x].at \in Seq(TrieKeys) /\ U[y].at \in Seq(TrieKeys)
    BY <1>2, <2>1 DEF WalkFrames
  <2>3. IsPrefix(U[y].at, U[y].at)
    BY <2>2, KeyPrefixIs
  <2>. QED
    BY <1>4, <2>1, <2>2, <2>3, PartBelow
<1>8. /\ J \in Seq(WalkFrames) /\ Ordered(J)
      /\ \A z \in DOMAIN J : \/ \E x \in DOMAIN F : J[z] = F[x]
                            \/ \E y \in DOMAIN U : J[z] = U[y]
      /\ \A x \in DOMAIN F : \E z \in DOMAIN J : J[z] = F[x]
      /\ \A y \in DOMAIN U : \E z \in DOMAIN J : J[z] = U[y]
  BY <1>2, <1>4, <1>5, <1>7, JoinIs
<1>. HIDE DEF J
<1>9. \A z \in DOMAIN J : OnPath(J[z], path)
  <2>1. \A x \in DOMAIN F : OnPath(F[x], path)
    BY <1>5 DEF BranchesBelow
  <2>2. \A y \in DOMAIN U : OnPath(U[y], path)
    BY <1>1, <1>2
  <2>. QED
    BY <1>8, <2>1, <2>2
<1>10. ASSUME NEW n \in Takers(path)
       PROVE  \E z \in DOMAIN J : IsPrefix(J[z].at, SpineOf(n))
  <2>1. PICK x \in DOMAIN T : IsPrefix(T[x].at, SpineOf(n))
    BY DEF WalkHolds
  <2>2. CASE x = 1
    <3>1. PICK w \in DOMAIN F : IsPrefix(F[w].at, SpineOf(n))
      BY <1>2, <1>6, <2>1, <2>2
    <3>. QED
      BY <1>8, <3>1
  <2>3. CASE x # 1
    <3>1. x - 1 \in DOMAIN U /\ U[x - 1] = T[x]
      BY <1>2, <2>3
    <3>2. PICK z \in DOMAIN J : J[z] = U[x - 1]
      BY <1>8, <3>1
    <3>. QED
      BY <2>1, <3>1, <3>2
  <2>. QED
    BY <2>2, <2>3
<1>11. WalkHolds(J, path)
  BY <1>8, <1>9, <1>10 DEF WalkHolds
<1>. QED
  BY <1>11 DEF J, F, U, f

LEMMA TurningBackHolds ==
  ASSUME RowsFit, ~Buried(flat), NEW path \in Seq(STRING), NEW T, WalkHolds(T, path), T # <<>>,
         Head(T).left = <<>>, LeafOf(Head(T).at) = {}
  PROVE  WalkHolds(Tail(T), path)
<1>. DEFINE f == Head(T)
            U == Tail(T)
<1>1. T \in Seq(WalkFrames) /\ Ordered(T) /\ \A x \in DOMAIN T : OnPath(T[x], path)
  BY DEF WalkHolds
<1>2. /\ U \in Seq(WalkFrames) /\ 1 \in DOMAIN T /\ T[1] = f
      /\ \A y \in DOMAIN U : y + 1 \in DOMAIN T /\ U[y] = T[y + 1]
      /\ \A x \in DOMAIN T : x = 1 \/ (x - 1 \in DOMAIN U /\ U[x - 1] = T[x])
  BY <1>1, HeadTail
<1>3. OnPath(f, path)
  BY <1>1, <1>2
<1>4. Ordered(U)
  BY <1>1, TailOrdered
<1>5. ASSUME NEW n \in Takers(path)
      PROVE  ~IsPrefix(f.at, SpineOf(n))
  BY <1>3, TakerEnds
<1>. HIDE DEF f, U
<1>6. \A y \in DOMAIN U : OnPath(U[y], path)
  BY <1>1, <1>2
<1>7. ASSUME NEW n \in Takers(path)
      PROVE  \E y \in DOMAIN U : IsPrefix(U[y].at, SpineOf(n))
  <2>1. PICK x \in DOMAIN T : IsPrefix(T[x].at, SpineOf(n))
    BY DEF WalkHolds
  <2>2. x # 1
    BY <1>2, <1>5, <2>1
  <2>. QED
    BY <1>2, <2>1, <2>2
<1>8. WalkHolds(U, path)
  BY <1>2, <1>4, <1>6, <1>7 DEF WalkHolds
<1>. QED
  BY <1>8 DEF U

LEMMA ArrivalAnswers ==
  ASSUME RowsFit, ~Buried(flat), ~Ambiguous(flat), NEW path \in Seq(STRING),
         NEW T, WalkHolds(T, path), T # <<>>,
         Head(T).left = <<>>, NEW n \in LeafOf(Head(T).at)
  PROVE  /\ n \in Takers(path) /\ BoundFor(n, Head(T).values, path)
         /\ \A m \in Takers(path) \ {n} : Precedes(n, m)
<1>. DEFINE f == Head(T)
            U == Tail(T)
<1>1. T \in Seq(WalkFrames) /\ Ordered(T) /\ \A x \in DOMAIN T : OnPath(T[x], path)
  BY DEF WalkHolds
<1>2. /\ f \in WalkFrames /\ U \in Seq(WalkFrames) /\ 1 \in DOMAIN T /\ T[1] = f
      /\ \A x \in DOMAIN T : x = 1 \/ (x - 1 \in DOMAIN U /\ U[x - 1] = T[x])
  BY <1>1, HeadTail
<1>3. OnPath(f, path)
  BY <1>1, <1>2
<1>4. \A y \in DOMAIN U : TriedBefore(f.at, U[y].at)
  BY <1>1, TailOrdered
<1>5. n \in Takers(path) /\ SpineOf(n) = f.at
  BY <1>3, LeafTakes
<1>6. n \in DOMAIN flat
  BY <1>5 DEF Takers
<1>7. BoundFor(n, f.values, path)
  BY <1>3, <1>5, <1>6, GivenIsBound DEF OnPath
<1>8. ASSUME NEW m \in Takers(path), m # n
      PROVE  Precedes(n, m)
  <2>1. m \in DOMAIN flat /\ SpineOf(m) \in Seq(TrieKeys) /\ SpineOf(n) \in Seq(TrieKeys)
    BY <1>6, RowIs DEF Takers
  <2>2. PICK x \in DOMAIN T : IsPrefix(T[x].at, SpineOf(m))
    BY DEF WalkHolds
  <2>3. x # 1
    <3>. SUFFICES ASSUME x = 1
                  PROVE  FALSE
      OBVIOUS
    <3>1. m \in LeafOf(f.at)
      BY <1>2, <1>3, <2>2, TakerEnds
    <3>2. SpineOf(m) = SpineOf(n)
      BY <1>5, <3>1 DEF LeafOf, SpineOf
    <3>. QED
      BY <1>6, <1>8, <2>1, <3>2, LeavesApart
  <2>4. TriedBefore(SpineOf(n), T[x].at) /\ T[x].at \in Seq(TrieKeys)
    <3>1. x - 1 \in DOMAIN U /\ U[x - 1] = T[x] /\ U[x - 1] \in WalkFrames
      BY <1>2, <2>3
    <3>. HIDE DEF U, f
    <3>. QED
      BY <1>4, <1>5, <3>1 DEF WalkFrames
  <2>5. IsPrefix(SpineOf(n), SpineOf(n))
    BY <2>1, KeyPrefixIs
  <2>6. TriedBefore(SpineOf(n), SpineOf(m))
    BY <2>1, <2>2, <2>4, <2>5, PartBelow
  <2>. QED
    BY <1>6, <2>1, <2>6, PartPrecedes
<1>. QED
  BY <1>5, <1>7, <1>8

-----------------------------------------------------------------------------
(* A table that was built is unambiguous, the walk over it holds what takes   *)
(* the path, and its answer is the first of it.                               *)
RouteStages == {"building", "refused", "built", "walking", "none", "found", "405"}

RoutesTyped ==
    /\ entries \in Seq(RouteEntries) /\ RowsFit
    /\ wanted.path \in Seq(STRING)
    /\ resolved \in [at : RouteStages, row : Nat]
    /\ statusLines \in {0, 1}

RoutesInv ==
    /\ RoutesTyped
    /\ resolved.at \notin {"building", "refused"} => ~Buried(flat) /\ ~Ambiguous(flat)
    /\ resolved.at = "walking" => WalkHolds(trail, Wanted)
    /\ Answered(Wanted)
    /\ run = "mapped" => statusLines = 1

LEMMA WantedIs ==
  ASSUME RoutesTyped
  PROVE  Wanted \in Seq(STRING)
BY SplitPathIs DEF Wanted, RoutesTyped

LEMMA AnsweredStill ==
  ASSUME UNCHANGED <<flat, wanted, bound>>, Answered(Wanted),
         \/ UNCHANGED resolved
         \/ resolved'.at \notin {"none", "found", "405"}
         \/ resolved'.row = resolved.row /\ resolved.at = "found" /\ resolved'.at = "405"
  PROVE  Answered(Wanted)'
<1>1. Wanted' = Wanted
  BY DEF Wanted
<1>2. Takers(Wanted)' = Takers(Wanted)
  BY <1>1 DEF Takers
<1>3. \A m, n : Precedes(m, n)' <=> Precedes(m, n)
  BY LeadingStill DEF Precedes
<1>4. \A n : BoundFor(n, bound, Wanted)' <=> BoundFor(n, bound, Wanted)
  BY <1>1 DEF BoundFor
<1>5. BoundFor(resolved.row, bound, Wanted)' <=> BoundFor(resolved'.row, bound, Wanted)
  BY <1>1 DEF BoundFor
<1>6. \A n : Precedes(resolved.row, n)' <=> Precedes(resolved'.row, n)
  BY LeadingStill DEF Precedes
<1>. QED
  BY <1>2, <1>5, <1>6 DEF Answered

LEMMA RoutesInit ==
  ASSUME RoutingInit
  PROVE  RoutesInv
<1>1. entries \in Seq(RouteEntries)
  BY RoutingAssumption DEF RoutingInit
<1>2. RoutesTyped
  BY <1>1 DEF RoutingInit, RoutesTyped, RowsFit, RouteStages
<1>. QED
  BY <1>2 DEF RoutingInit, RoutesInv, Answered

LEMMA BuildsRouterHolds ==
  ASSUME RoutesInv, BuildsRouter
  PROVE  RoutesInv'
<1>1. RoutesTyped /\ resolved.at = "building" /\ flat' = Flattened
  BY DEF RoutesInv, BuildsRouter
<1>. DEFINE refused == DeclaredTwice \/ Buried(Flattened) \/ Ambiguous(Flattened)
<1>3. resolved' = [resolved EXCEPT !.at = IF refused THEN "refused" ELSE "built"]
  BY DEF BuildsRouter
<1>4. Flattened \in Seq(RowShapes)
  BY <1>1, FlattenedIsTable DEF RoutesTyped
<1>5. /\ resolved' \in [at : RouteStages, row : Nat]
      /\ resolved'.at = IF refused THEN "refused" ELSE "built"
  BY <1>1, <1>3 DEF RoutesTyped, RouteStages
<1>. HIDE DEF refused
<1>6. RoutesTyped'
  BY <1>1, <1>4, <1>5 DEF RoutesTyped, RowsFit, BuildsRouter
<1>7. resolved'.at # "refused" => ~Buried(flat') /\ ~Ambiguous(flat')
  BY <1>1, <1>5 DEF refused
<1>8. resolved'.at \notin {"walking", "none", "found", "405"}
  BY <1>5
<1>9. run' = run /\ statusLines' = statusLines
  BY DEF BuildsRouter
<1>. QED
  BY <1>6, <1>7, <1>8, <1>9 DEF RoutesInv, Answered

LEMMA DispatchesHolds ==
  ASSUME RoutesInv, Dispatches
  PROVE  RoutesInv'
<1>. DEFINE T == <<[at |-> <<>>, left |-> Wanted', values |-> <<>>]>>
<1>1. /\ RoutesTyped /\ resolved.at = "built" /\ wanted' \in [path : Paths, verb : Verbs]
      /\ resolved' = [resolved EXCEPT !.at = "walking"] /\ trail' = T
      /\ UNCHANGED <<entries, flat, bound, run, statusLines>>
  BY DEF RoutesInv, Dispatches, Wanted
<1>2. wanted'.path \in Seq(STRING)
  BY <1>1, RoutingAssumption
<1>3. resolved' \in [at : RouteStages, row : Nat] /\ resolved'.at = "walking"
  BY <1>1 DEF RoutesTyped, RouteStages
<1>4. RoutesTyped'
  BY <1>1, <1>2, <1>3 DEF RoutesTyped, RowsFit
<1>5. ~Buried(flat) /\ ~Ambiguous(flat)
  BY <1>1 DEF RoutesInv
<1>6. Wanted' \in Seq(STRING)
  BY <1>2, SplitPathIs DEF Wanted
<1>7. WalkHolds(T, Wanted')
  BY <1>6, FirstBranch
<1>. HIDE DEF T
<1>8. WalkHolds(trail, Wanted)'
  <2>. DEFINE path == Wanted'
  <2>1. Wanted' = path /\ WalkHolds(T, path) /\ trail' = T
    BY <1>1, <1>7
  <2>. HIDE DEF path
  <2>. QED
    BY <1>1, <2>1, WalkStill
<1>. QED
  BY <1>1, <1>3, <1>4, <1>5, <1>8 DEF RoutesInv, Answered

LEMMA WalksHolds ==
  ASSUME RoutesInv, Walks
  PROVE  RoutesInv'
<1>. DEFINE f == Head(trail)
<1>1. /\ RoutesTyped /\ resolved.at = "walking" /\ trail # <<>>
      /\ UNCHANGED <<entries, wanted, flat, run, statusLines>>
  BY DEF RoutesInv, Walks
<1>2. RowsFit /\ ~Buried(flat) /\ ~Ambiguous(flat) /\ WalkHolds(trail, Wanted)
  BY <1>1 DEF RoutesInv, RoutesTyped
<1>3. Wanted \in Seq(STRING)
  BY <1>1, WantedIs
<1>4. \/ f.left # <<>> /\ trail' = Forks(f) \o Tail(trail) /\ UNCHANGED <<resolved, bound>>
      \/ f.left = <<>> /\ LeafOf(f.at) = {} /\ trail' = Tail(trail) /\ UNCHANGED <<resolved, bound>>
      \/ f.left = <<>> /\ \E n \in LeafOf(f.at) :
                             /\ resolved' = [at |-> "found", row |-> n] /\ bound' = f.values
                             /\ trail' = <<>>
  BY DEF Walks
<1>5. ASSUME NEW T, WalkHolds(T, Wanted), trail' = T, UNCHANGED <<resolved, bound>>
      PROVE  RoutesInv'
  <2>1. RoutesTyped'
    BY <1>1, <1>5 DEF RoutesTyped, RowsFit
  <2>2. WalkHolds(trail, Wanted)'
    <3>1. Wanted' = Wanted
      BY <1>1 DEF Wanted
    <3>. QED
      BY <1>1, <1>5, <3>1, WalkStill
  <2>3. resolved'.at = "walking" /\ ~Buried(flat') /\ ~Ambiguous(flat') /\ run' = run
        /\ statusLines' = statusLines
    BY <1>1, <1>2, <1>5
  <2>. QED
    BY <2>1, <2>2, <2>3 DEF RoutesInv, Answered
<1>6. CASE f.left # <<>> /\ trail' = Forks(f) \o Tail(trail) /\ UNCHANGED <<resolved, bound>>
  <2>1. WalkHolds(Forks(f) \o Tail(trail), Wanted)
    BY <1>1, <1>2, <1>3, <1>6, ForksHold
  <2>. HIDE DEF f
  <2>. QED
    BY <1>5, <1>6, <2>1
<1>7. CASE f.left = <<>> /\ LeafOf(f.at) = {} /\ trail' = Tail(trail) /\ UNCHANGED <<resolved, bound>>
  <2>1. WalkHolds(Tail(trail), Wanted)
    BY <1>1, <1>2, <1>3, <1>7, TurningBackHolds
  <2>. HIDE DEF f
  <2>. QED
    BY <1>5, <1>7, <2>1
<1>8. ASSUME f.left = <<>>, NEW n \in LeafOf(f.at), bound' = f.values,
             resolved' = [at |-> "found", row |-> n]
      PROVE  RoutesInv'
  <2>1. /\ n \in Takers(Wanted) /\ BoundFor(n, f.values, Wanted)
        /\ \A m \in Takers(Wanted) \ {n} : Precedes(n, m)
    BY <1>1, <1>2, <1>3, <1>8, ArrivalAnswers
  <2>. HIDE DEF f
  <2>2. n \in Nat
    BY <1>2, <2>1 DEF Takers, RowsFit
  <2>3. /\ resolved' \in [at : RouteStages, row : Nat] /\ resolved'.at = "found"
        /\ resolved'.row = n
    BY <1>8, <2>2 DEF RouteStages
  <2>4. RoutesTyped'
    BY <1>1, <2>3 DEF RoutesTyped, RowsFit
  <2>5. Wanted' = Wanted
    BY <1>1 DEF Wanted
  <2>6. Takers(Wanted)' = Takers(Wanted)
    BY <1>1, <2>5 DEF Takers
  <2>7. \A m : Precedes(resolved.row, m)' <=> Precedes(n, m)
    BY <1>1, <2>3, LeadingStill DEF Precedes
  <2>8. BoundFor(resolved.row, bound, Wanted)' <=> BoundFor(n, f.values, Wanted)
    BY <1>1, <1>8, <2>3, <2>5 DEF BoundFor
  <2>9. Answered(Wanted)'
    BY <2>1, <2>3, <2>6, <2>7, <2>8 DEF Answered
  <2>. QED
    BY <1>1, <1>2, <2>3, <2>4, <2>9 DEF RoutesInv
<1>. QED
  BY <1>4, <1>6, <1>7, <1>8

LEMMA FallsBackHolds ==
  ASSUME RoutesInv, FallsBack
  PROVE  RoutesInv'
<1>1. /\ RoutesTyped /\ resolved.at = "walking" /\ trail = <<>>
      /\ resolved' = [resolved EXCEPT !.at = "none"]
      /\ UNCHANGED <<entries, wanted, flat, trail, bound, run, statusLines>>
  BY DEF RoutesInv, FallsBack
<1>2. ~Buried(flat) /\ ~Ambiguous(flat) /\ WalkHolds(trail, Wanted)
  BY <1>1 DEF RoutesInv
<1>3. Takers(Wanted) = {}
  BY <1>1, <1>2 DEF WalkHolds
<1>4. resolved' \in [at : RouteStages, row : Nat] /\ resolved'.at = "none"
  BY <1>1 DEF RoutesTyped, RouteStages
<1>5. RoutesTyped'
  BY <1>1, <1>4 DEF RoutesTyped, RowsFit
<1>6. Wanted' = Wanted
  BY <1>1 DEF Wanted
<1>7. Takers(Wanted)' = Takers(Wanted)
  BY <1>1, <1>6 DEF Takers
<1>8. Answered(Wanted)'
  BY <1>3, <1>4, <1>7 DEF Answered
<1>. QED
  BY <1>1, <1>2, <1>4, <1>5, <1>8 DEF RoutesInv

LEMMA RefusesVerbHolds ==
  ASSUME RoutesInv, RefusesVerb
  PROVE  RoutesInv'
<1>1. /\ RoutesTyped /\ resolved.at = "found" /\ Answered(Wanted)
      /\ resolved' = [resolved EXCEPT !.at = "405"]
      /\ UNCHANGED <<entries, wanted, flat, trail, bound, run, statusLines>>
  BY DEF RoutesInv, RefusesVerb
<1>2. /\ resolved' \in [at : RouteStages, row : Nat] /\ resolved'.at = "405"
      /\ resolved'.row = resolved.row
  BY <1>1 DEF RoutesTyped, RouteStages
<1>3. RoutesTyped'
  BY <1>1, <1>2 DEF RoutesTyped, RowsFit
<1>4. Answered(Wanted)'
  BY <1>1, <1>2, AnsweredStill
<1>. QED
  BY <1>1, <1>2, <1>3, <1>4 DEF RoutesInv

(* What the handler does, and what nothing does.                              *)
LEMMA HandlerHolds ==
  ASSUME RoutesInv, UNCHANGED <<entries, wanted, flat, trail, resolved, bound>>,
         statusLines' \in {0, 1}, run' = "mapped" => statusLines' = 1
  PROVE  RoutesInv'
<1>1. RoutesTyped'
  BY DEF RoutesInv, RoutesTyped, RowsFit
<1>2. Answered(Wanted)'
  BY AnsweredStill DEF RoutesInv
<1>3. resolved.at = "walking" => WalkHolds(trail, Wanted)'
  <2>1. Wanted' = Wanted
    BY DEF Wanted
  <2>. QED
    BY <2>1, WalkStill DEF RoutesInv
<1>. QED
  BY <1>1, <1>2, <1>3 DEF RoutesInv

LEMMA RoutesStep ==
  ASSUME RoutesInv, [RoutingNext]_routingVars
  PROVE  RoutesInv'
<1>0. statusLines \in {0, 1} /\ (run = "mapped" => statusLines = 1)
  BY DEF RoutesInv, RoutesTyped
<1>1. CASE BuildsRouter
  BY <1>1, BuildsRouterHolds
<1>2. CASE Dispatches
  BY <1>2, DispatchesHolds
<1>3. CASE Walks
  BY <1>3, WalksHolds
<1>4. CASE FallsBack
  BY <1>4, FallsBackHolds
<1>5. CASE RefusesVerb
  BY <1>5, RefusesVerbHolds
<1>6. CASE StartsHandler
  <2>1. run' # "mapped" /\ statusLines' = statusLines
    BY <1>6 DEF StartsHandler
  <2>. QED
    BY <1>0, <1>6, <2>1, HandlerHolds DEF StartsHandler
<1>7. CASE EmitsStart
  BY <1>0, <1>7, HandlerHolds DEF EmitsStart
<1>8. CASE HandlerRaises
  BY <1>0, <1>8, HandlerHolds DEF HandlerRaises, Recoverable
<1>9. CASE HandlerEnds
  BY <1>0, <1>9, HandlerHolds DEF HandlerEnds
<1>10. CASE UNCHANGED routingVars
  BY <1>0, <1>10, HandlerHolds DEF routingVars
<1>. QED
  BY <1>1, <1>2, <1>3, <1>4, <1>5, <1>6, <1>7, <1>8, <1>9, <1>10 DEF RoutingNext

(* RoutesAsDeclared: whatever the table, the path and the order of its rows,  *)
(* the trie of trie.py walked with backtracking (router.py) answers with the  *)
(* one route that takes the path and comes before every other that does, its  *)
(* parameters bound to what stands in their place, and with the fallback only *)
(* where no route takes it; and `catching' (exceptions.py) lets no second     *)
(* status line out.                                                           *)
THEOREM RoutesDeclared == RoutingSpec => []RoutesAsDeclared
<1>1. RoutingInit => RoutesInv
  BY RoutesInit
<1>2. RoutesInv /\ [RoutingNext]_routingVars => RoutesInv'
  BY RoutesStep
<1>3. RoutesInv => RoutesAsDeclared
  BY DEF RoutesInv, RoutesTyped, RoutesAsDeclared, Answered, BoundFor, Wanted, Takers, Reached
<1>. QED
  BY <1>1, <1>2, <1>3, PTL DEF RoutingSpec
=============================================================================
