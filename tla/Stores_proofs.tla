--------------------------- MODULE Stores_proofs ----------------------------
(***************************************************************************)
(* What is promised by windows and by the stores that are processes of     *)
(* their own, for any steps, budgets, commands, sessions, workflows and    *)
(* consumers: a step keeps the window it named (Extending), a command at a *)
(* SQLite file is there whole or not at all (SqliteStore), an effect at    *)
(* Postgres has its record (PostgresStore), the stream at Redis keeps what *)
(* it owes (RedisStream), and the fence at Redis outlives its passes       *)
(* (RedisCheckpointer). And, for every set of workers and workflows, every *)
(* lease, delay and skew, that a receipt of VisibilityQueue answers for one*)
(* delivery, where two takes never share a tick, and that no wakeup is     *)
(* removed or put off, where receipts carry the half tick.                 *)
(***************************************************************************)
EXTENDS VisibilityQueue, Extending, SqliteStore, PostgresStore, RedisStream, RedisCheckpointer,
        FiniteSetTheorems, WellFoundedInduction, TLAPS

(* Liveness ends no later than the budget, a pass is only superseded when it  *)
(* has lapsed, and what it remembers of a grant is not from the future.       *)
ClaimInOrder ==
    /\ aliveUntil <= heldUntil
    /\ superseded => aliveUntil <= instant
    /\ since <= instant

(* A window that was granted lies inside the budget, and its answer is on its *)
(* way no longer than an answer takes.                                        *)
GrantsAreHeld ==
    \A x \in Steps :
        /\ act[x] \in {"asking", "granted"} => named[x] \in Spans
        /\ act[x] = "granted" =>
            /\ until[x] <= heldUntil
            /\ until[x] <= instant + named[x]
            /\ instant + named[x] <= until[x] + Lag

(* Under a worker the pass counts on no more than its budget and the delay of *)
(* one answer, which a lease is longer than; and what its ticker keeps alive  *)
(* lapses only with the budget.                                               *)
TickedWithinBudget ==
    driver = "worker" =>
        /\ word = TickWorth
        /\ since + covered <= heldUntil + Lag
        /\ \A x \in Steps : act[x] = "running" => until[x] <= heldUntil \/ until[x] <= instant
        /\ ~superseded => aliveUntil > instant \/ aliveUntil = heldUntil
        /\ superseded => heldUntil <= instant

(* Without a ticker, and one step at a time: what the pass counts on is alive *)
(* and stays so at every write, or else a grant is on its way to correct it.  *)
OneAtATime == \A x, y \in Steps : UnderWay(x) /\ UnderWay(y) => x = y
GrantsAreAlive ==
    \A x \in Steps :
        /\ act[x] = "granted" => until[x] <= aliveUntil /\ word = named[x]
        /\ act[x] = "running" /\ instant < until[x] => until[x] <= aliveUntil
CountsOnLess ==
    (\A x \in Steps : act[x] # "granted") => since + covered <= aliveUntil + Lag /\ covered <= word
AloneWithinLiveness ==
    driver # "worker" /\ ~abreast => OneAtATime /\ GrantsAreAlive /\ CountsOnLess

(* The inductive invariant.                                                   *)
ExtInv == ExtTypeOK /\ ClaimInOrder /\ GrantsAreHeld /\ TickedWithinBudget /\ AloneWithinLiveness

-----------------------------------------------------------------------------
LEMMA ExtInitInv == ExtInit => ExtInv
<1> SUFFICES ASSUME ExtInit PROVE ExtInv
  OBVIOUS
<1> USE ExtendingAssumption DEF ExtInit, Nearer
<1>1. ExtTypeOK
  <2>1. instant \in Nat /\ heldUntil \in Nat /\ word \in Nat /\ aliveUntil \in Nat
    OBVIOUS
  <2>2. since \in Nat /\ covered \in Nat
    OBVIOUS
  <2>3. act \in [Steps -> {"idle", "asking", "granted", "running", "ended", "fenced"}]
    OBVIOUS
  <2>4. named \in [Steps -> Nat] /\ until \in [Steps -> Nat]
    OBVIOUS
  <2> QED BY <2>1, <2>2, <2>3, <2>4 DEF ExtTypeOK
<1>2. ClaimInOrder /\ GrantsAreHeld
  BY DEF ClaimInOrder, GrantsAreHeld
<1>3. TickedWithinBudget
  BY DEF TickedWithinBudget
<1>4. AloneWithinLiveness
  BY DEF AloneWithinLiveness, OneAtATime, UnderWay, GrantsAreAlive, CountsOnLess
<1> QED BY <1>1, <1>2, <1>3, <1>4 DEF ExtInv

(* No other step is under way when one begins, where none is abreast.         *)
LEMMA BeginsAlone ==
  ASSUME NEW x \in Steps, act[x] = "idle", Alongside(x), ~abreast'
  PROVE  ~abreast /\ \A y \in Steps : ~UnderWay(y)
BY DEF Alongside, UnderWay

LEMMA AsksInv == ASSUME ExtInv, NEW x \in Steps, NEW span \in Spans, AsksWindow(x, span) PROVE ExtInv'
<1> USE ExtendingAssumption DEF ExtInv, AsksWindow, claimRow
<1>1. ExtTypeOK'
  BY DEF ExtTypeOK, Alongside
<1>2. ClaimInOrder'
  BY DEF ExtTypeOK, ClaimInOrder
<1>3. GrantsAreHeld'
  BY DEF ExtTypeOK, GrantsAreHeld
<1>4. TickedWithinBudget'
  BY DEF ExtTypeOK, TickedWithinBudget, Spare, Liveness
<1>5. AloneWithinLiveness'
  <2> SUFFICES ASSUME driver # "worker", ~abreast'
               PROVE  OneAtATime' /\ GrantsAreAlive' /\ CountsOnLess'
    BY DEF AloneWithinLiveness
  <2>1. ~abreast /\ \A y \in Steps : ~UnderWay(y)
    BY BeginsAlone
  <2>2. OneAtATime'
    BY <2>1 DEF ExtTypeOK, OneAtATime, UnderWay
  <2>3. since + covered <= aliveUntil + Lag /\ covered <= word
    BY <2>1 DEF AloneWithinLiveness, CountsOnLess, UnderWay
  <2>4. GrantsAreAlive'
    BY <2>1, <2>3 DEF ExtTypeOK, GrantsAreAlive, UnderWay, Spare, Liveness
  <2> QED BY <2>2, <2>3, <2>4 DEF CountsOnLess
<1> QED BY <1>1, <1>2, <1>3, <1>4, <1>5

LEMMA StartsInv == ASSUME ExtInv, NEW x \in Steps, Starts(x) PROVE ExtInv'
<1> USE ExtendingAssumption DEF ExtInv, Starts, claimRow
<1>1. ExtTypeOK'
  BY DEF ExtTypeOK, Alongside
<1>2. ClaimInOrder'
  BY DEF ExtTypeOK, ClaimInOrder
<1>3. GrantsAreHeld'
  BY DEF ExtTypeOK, GrantsAreHeld
<1>4. TickedWithinBudget'
  BY DEF ExtTypeOK, TickedWithinBudget
<1>5. AloneWithinLiveness'
  <2> SUFFICES ASSUME driver # "worker", ~abreast'
               PROVE  OneAtATime' /\ GrantsAreAlive' /\ CountsOnLess'
    BY DEF AloneWithinLiveness
  <2>1. ~abreast /\ \A y \in Steps : ~UnderWay(y)
    BY BeginsAlone
  <2>2. OneAtATime'
    BY <2>1 DEF ExtTypeOK, OneAtATime, UnderWay
  <2>3. since + covered <= aliveUntil + Lag /\ covered <= word
    BY <2>1 DEF AloneWithinLiveness, CountsOnLess, UnderWay
  <2>4. GrantsAreAlive'
    BY <2>1 DEF ExtTypeOK, GrantsAreAlive, UnderWay
  <2> QED BY <2>2, <2>3, <2>4 DEF CountsOnLess
<1> QED BY <1>1, <1>2, <1>3, <1>4, <1>5

LEMMA ExtendsInv == ASSUME ExtInv, NEW x \in Steps, Extends(x) PROVE ExtInv'
<1> USE ExtendingAssumption DEF ExtInv, Extends, claimRow, Liveness, Nearer, Farther
<1>1. named[x] \in Spans /\ named[x] \in Nat
  BY DEF GrantsAreHeld
<1>2. ExtTypeOK'
  BY <1>1 DEF ExtTypeOK
<1>3. ClaimInOrder'
  BY <1>1 DEF ExtTypeOK, ClaimInOrder
<1>4. GrantsAreHeld'
  BY <1>1 DEF ExtTypeOK, GrantsAreHeld
<1>5. TickedWithinBudget'
  BY <1>1 DEF ExtTypeOK, TickedWithinBudget
<1>6. AloneWithinLiveness'
  <2> SUFFICES ASSUME driver # "worker", ~abreast
               PROVE  OneAtATime' /\ GrantsAreAlive' /\ CountsOnLess'
    BY DEF AloneWithinLiveness
  <2>1. OneAtATime /\ OneAtATime'
    BY DEF ExtTypeOK, AloneWithinLiveness, OneAtATime, UnderWay
  <2>2. \A y \in Steps \ {x} : act[y] \notin {"granted", "running"}
    BY <2>1 DEF OneAtATime, UnderWay
  <2>3. GrantsAreAlive'
    BY <1>1, <2>2 DEF ExtTypeOK, GrantsAreAlive
  <2>4. CountsOnLess'
    BY <2>2 DEF ExtTypeOK, AloneWithinLiveness, CountsOnLess
  <2> QED BY <2>1, <2>3, <2>4
<1> QED BY <1>2, <1>3, <1>4, <1>5, <1>6

LEMMA AnsweredInv == ASSUME ExtInv, NEW x \in Steps, Answered(x) PROVE ExtInv'
<1> USE ExtendingAssumption DEF ExtInv, Answered, claimRow
<1>1. ExtTypeOK'
  BY DEF ExtTypeOK
<1>2. ClaimInOrder' /\ GrantsAreHeld'
  BY DEF ExtTypeOK, ClaimInOrder, GrantsAreHeld
<1>3. TickedWithinBudget'
  BY DEF ExtTypeOK, GrantsAreHeld, TickedWithinBudget
<1>4. AloneWithinLiveness'
  <2> SUFFICES ASSUME driver # "worker", ~abreast
               PROVE  OneAtATime' /\ GrantsAreAlive' /\ CountsOnLess'
    BY DEF AloneWithinLiveness
  <2>1. OneAtATime /\ OneAtATime'
    BY DEF ExtTypeOK, AloneWithinLiveness, OneAtATime, UnderWay
  <2>2. until[x] <= aliveUntil /\ word = named[x] /\ instant + named[x] <= until[x] + Lag
    BY DEF AloneWithinLiveness, GrantsAreAlive, GrantsAreHeld
  <2>3. GrantsAreAlive'
    BY <2>2 DEF ExtTypeOK, AloneWithinLiveness, GrantsAreAlive
  <2>4. CountsOnLess'
    BY <2>2 DEF ExtTypeOK, CountsOnLess
  <2> QED BY <2>1, <2>3, <2>4
<1> QED BY <1>1, <1>2, <1>3, <1>4

LEMMA RecordsInv == ASSUME ExtInv, NEW x \in Steps, RecordsEffect(x) PROVE ExtInv'
<1> USE ExtendingAssumption DEF ExtInv, RecordsEffect, Nearer
<1>1. ExtTypeOK'
  BY DEF ExtTypeOK
<1>2. ClaimInOrder' /\ GrantsAreHeld'
  BY DEF ExtTypeOK, ClaimInOrder, GrantsAreHeld
<1>3. TickedWithinBudget'
  BY DEF ExtTypeOK, TickedWithinBudget
<1>4. AloneWithinLiveness'
  <2> SUFFICES ASSUME driver # "worker", ~abreast
               PROVE  OneAtATime' /\ GrantsAreAlive' /\ CountsOnLess'
    BY DEF AloneWithinLiveness
  <2>1. OneAtATime /\ OneAtATime'
    BY DEF ExtTypeOK, AloneWithinLiveness, OneAtATime, UnderWay
  <2>2. \A y \in Steps \ {x} : act[y] \notin {"granted", "running"}
    BY <2>1 DEF OneAtATime, UnderWay
  <2>3. GrantsAreAlive'
    BY <2>2 DEF ExtTypeOK, GrantsAreAlive
  <2>4. since + covered <= aliveUntil + Lag /\ covered <= word
    BY <2>2 DEF AloneWithinLiveness, CountsOnLess
  <2>5. CountsOnLess'
    BY <2>4 DEF ExtTypeOK, ClaimInOrder, CountsOnLess
  <2> QED BY <2>1, <2>3, <2>5
<1> QED BY <1>1, <1>2, <1>3, <1>4

LEMMA FailsInv == ASSUME ExtInv, NEW x \in Steps, EffectFails(x) PROVE ExtInv'
<1> USE DEF ExtInv, EffectFails, claimRow
<1>1. ExtTypeOK'
  BY DEF ExtTypeOK
<1>2. ClaimInOrder' /\ GrantsAreHeld'
  BY DEF ExtTypeOK, ClaimInOrder, GrantsAreHeld
<1>3. TickedWithinBudget'
  BY DEF ExtTypeOK, TickedWithinBudget
<1>4. AloneWithinLiveness'
  BY DEF ExtTypeOK, AloneWithinLiveness, OneAtATime, UnderWay, GrantsAreAlive, CountsOnLess
<1> QED BY <1>1, <1>2, <1>3, <1>4

LEMMA TicksInv == ASSUME ExtInv, Ticks PROVE ExtInv'
<1> USE ExtendingAssumption DEF ExtInv, Ticks, Nearer
<1>1. ExtTypeOK'
  BY DEF ExtTypeOK
<1>2. ClaimInOrder' /\ GrantsAreHeld'
  BY DEF ExtTypeOK, ClaimInOrder, GrantsAreHeld
<1>3. TickedWithinBudget'
  BY DEF ExtTypeOK, TickedWithinBudget
<1>4. AloneWithinLiveness'
  BY DEF AloneWithinLiveness
<1> QED BY <1>1, <1>2, <1>3, <1>4

LEMMA TakenInv == ASSUME ExtInv, TakenOver PROVE ExtInv'
<1> USE DEF ExtInv, TakenOver, claimRow
<1>1. ExtTypeOK' /\ ClaimInOrder' /\ GrantsAreHeld'
  BY DEF ExtTypeOK, ClaimInOrder, GrantsAreHeld
<1>2. TickedWithinBudget'
  BY DEF ExtTypeOK, TickedWithinBudget
<1>3. AloneWithinLiveness'
  BY DEF AloneWithinLiveness, OneAtATime, UnderWay, GrantsAreAlive, CountsOnLess
<1> QED BY <1>1, <1>2, <1>3

LEMMA PassesInv == ASSUME ExtInv, InstantPasses PROVE ExtInv'
<1> USE ExtendingAssumption DEF ExtInv, InstantPasses, claimRow
<1>1. ExtTypeOK' /\ ClaimInOrder'
  BY DEF ExtTypeOK, ClaimInOrder
<1>2. GrantsAreHeld'
  BY DEF ExtTypeOK, GrantsAreHeld
<1>3. TickedWithinBudget'
  BY DEF ExtTypeOK, TickedWithinBudget
<1>4. AloneWithinLiveness'
  BY DEF ExtTypeOK, AloneWithinLiveness, OneAtATime, UnderWay, GrantsAreAlive, CountsOnLess
<1> QED BY <1>1, <1>2, <1>3, <1>4

(* Whatever the pass, its ticker, the store and time do, the inductive        *)
(* invariant stays.                                                           *)
LEMMA ExtNextInv == ExtInv /\ [ExtNext]_extVars => ExtInv'
<1> SUFFICES ASSUME ExtInv, [ExtNext]_extVars PROVE ExtInv'
  OBVIOUS
<1>1. CASE Ticks
  BY <1>1, TicksInv
<1>2. CASE TakenOver
  BY <1>2, TakenInv
<1>3. CASE InstantPasses
  BY <1>3, PassesInv
<1>4. CASE \E x \in Steps : \E span \in Spans : AsksWindow(x, span)
  BY <1>4, AsksInv
<1>5. CASE \E x \in Steps : Starts(x) \/ Extends(x) \/ Answered(x) \/ RecordsEffect(x) \/ EffectFails(x)
  BY <1>5, StartsInv, ExtendsInv, AnsweredInv, RecordsInv, FailsInv
<1>6. CASE UNCHANGED extVars
  BY <1>6 DEF extVars, ExtInv, ExtTypeOK, ClaimInOrder, GrantsAreHeld, TickedWithinBudget,
              AloneWithinLiveness, OneAtATime, UnderWay, GrantsAreAlive, CountsOnLess
<1> QED BY <1>1, <1>2, <1>3, <1>4, <1>5, <1>6 DEF ExtNext

(* The invariant, for every set of steps and windows, budget, lease and delay. *)
THEOREM WindowsInvariant == ExtSpec => []ExtInv
<1> QED BY ExtInitInv, ExtNextInv, PTL DEF ExtSpec

(* Until the window a step named is over, bought or skipped, nobody else may  *)
(* take the workflow, and the step's record is not refused.                   *)
THEOREM WindowsHonoured == ExtSpec => []WindowsAreHonoured
<1>1. ExtInv => WindowsAreHonoured
  <2> SUFFICES ASSUME ExtInv, driver = "worker" \/ ~abreast,
                      NEW x \in Steps, act[x] = "running", instant < until[x]
               PROVE  ~superseded /\ aliveUntil > instant
    BY DEF WindowsAreHonoured
  <2>1. CASE driver = "worker"
    BY <2>1 DEF ExtInv, ExtTypeOK, TickedWithinBudget
  <2>2. CASE driver # "worker"
    BY <2>2 DEF ExtInv, ExtTypeOK, ClaimInOrder, AloneWithinLiveness, GrantsAreAlive
  <2> QED BY <2>1, <2>2
<1> QED BY <1>1, WindowsInvariant, PTL

-----------------------------------------------------------------------------
(* SQLite: any commands, in any number of processes. *)

(* A command is in a process from the call on until its thread is over.      *)
AtHome ==
    \A w \in Commands :
        /\ caller[w] = "new" => home[w] = Idler /\ thread[w] = "none"
        /\ caller[w] = "asked" => thread[w] = "none"
        /\ caller[w] = "waiting" => thread[w] # "none"
        /\ thread[w] # "none" => caller[w] \in {"waiting", "gone"}
        /\ home[w] # Idler <=> caller[w] \in {"asked", "waiting"} \/ thread[w] # "none"

(* The guard is held by the thread that is inside, though its caller be gone. *)
GuardIsInside ==
    \A w \in Commands, p \in Procs : guard[p] = w <=> home[w] = p /\ thread[w] # "none"

(* A thread that has begun a transaction has the write lock until the end, and *)
(* what it has written lies in the draft of its connection.                   *)
HasBegun(w) == thread[w] \in {"first", "second", "committing"}
LockIsHeld ==
    /\ \A w \in Commands : HasBegun(w) => writer = home[w]
    /\ \A p \in Procs : writer = p =>
         \E w \in Commands : home[w] = p /\ thread[w] \in {"first", "second", "committing", "undoing"}
DraftIsOpen ==
    /\ \A p \in Procs : writer # p => draft[p] = {}
    /\ \A w \in Commands :
         /\ thread[w] = "first" => draft[home[w]] = {}
         /\ thread[w] = "second" => draft[home[w]] = {<<w, 1>>}
         /\ thread[w] = "committing" => draft[home[w]] = Halves(w)

(* Only transactions begin, and only they are undone.                        *)
ThreadsFit ==
    \A w \in Commands :
        /\ thread[w] = "stating" => w \notin wrapped
        /\ thread[w] \in {"beginning", "first", "second", "committing", "undoing"} => w \in wrapped

(* What is in the file of a command, by how far it is.                        *)
FiledSoFar ==
    \A w \in Commands :
        /\ caller[w] \in {"new", "asked", "failed"} => Halves(w) \cap file = {}
        /\ thread[w] \notin {"none", "finished"} => Halves(w) \cap file = {}
        /\ thread[w] = "finished" \/ caller[w] = "stored" => WritesOf(w) \subseteq file
        /\ WritesOf(w) \subseteq file \/ Halves(w) \cap file = {}

ClosedIsQuiet == \A w \in Commands : home[w] \in shutc /\ thread[w] # "none" => thread[w] = "raised"

SqliteInv ==
    /\ SqliteTypeOK /\ AtHome /\ GuardIsInside /\ LockIsHeld /\ DraftIsOpen
    /\ ThreadsFit /\ FiledSoFar /\ ClosedIsQuiet
LEMMA IssuesKeeps == ASSUME SqliteInv, NEW w \in Commands, Issues(w) PROVE SqliteInv'
<1>. USE IdlerIsNobody DEF SqliteInv
<1>1. SqliteTypeOK'
  BY DEF SqliteTypeOK, Issues, Unissued
<1>2. AtHome'
  BY DEF SqliteTypeOK, AtHome, Issues, Unissued
<1>3. GuardIsInside'
  BY DEF AtHome, GuardIsInside, Issues, Unissued
<1>4. LockIsHeld'
  BY DEF AtHome, LockIsHeld, HasBegun, Issues, Unissued
<1>5. DraftIsOpen'
  BY DEF AtHome, DraftIsOpen, Issues, Unissued
<1>6. ThreadsFit'
  BY DEF AtHome, ThreadsFit, Issues, Unissued
<1>7. FiledSoFar'
  BY DEF AtHome, WritesOf, FiledSoFar, Issues, Unissued
<1>8. ClosedIsQuiet'
  BY DEF AtHome, ClosedIsQuiet, Issues, Unissued
<1>. QED
  BY <1>1, <1>2, <1>3, <1>4, <1>5, <1>6, <1>7, <1>8

LEMMA EntersKeeps == ASSUME SqliteInv, NEW w \in Commands, Enters(w) PROVE SqliteInv'
<1>. USE IdlerIsNobody DEF SqliteInv
<1>1. SqliteTypeOK'
  BY DEF SqliteTypeOK, AtHome, Enters
<1>2. AtHome'
  BY DEF SqliteTypeOK, AtHome, Enters
<1>3. GuardIsInside'
  BY DEF SqliteTypeOK, GuardIsInside, Enters
<1>4. LockIsHeld'
  BY DEF GuardIsInside, LockIsHeld, HasBegun, Enters
<1>5. DraftIsOpen'
  BY DEF DraftIsOpen, Enters
<1>6. ThreadsFit'
  BY DEF ThreadsFit, Enters
<1>7. FiledSoFar'
  BY DEF WritesOf, FiledSoFar, Enters
<1>8. ClosedIsQuiet'
  BY DEF ClosedIsQuiet, Enters
<1>. QED
  BY <1>1, <1>2, <1>3, <1>4, <1>5, <1>6, <1>7, <1>8

LEMMA StatesKeeps == ASSUME SqliteInv, NEW w \in Commands, States(w) PROVE SqliteInv'
<1>. USE IdlerIsNobody DEF SqliteInv
<1>1. SqliteTypeOK'
  BY DEF SqliteTypeOK, WritesOf, ThreadsFit, States
<1>2. AtHome'
  BY DEF AtHome, States
<1>3. GuardIsInside'
  BY DEF GuardIsInside, States
<1>4. LockIsHeld'
  BY DEF LockIsHeld, HasBegun, States
<1>5. DraftIsOpen'
  BY DEF SqliteTypeOK, GuardIsInside, LockIsHeld, DraftIsOpen, States
<1>6. ThreadsFit'
  BY DEF ThreadsFit, States
<1>7. FiledSoFar'
  BY DEF SqliteTypeOK, AtHome, GuardIsInside, LockIsHeld, Halves, WritesOf, FiledSoFar, States
<1>8. ClosedIsQuiet'
  BY DEF ClosedIsQuiet, States
<1>. QED
  BY <1>1, <1>2, <1>3, <1>4, <1>5, <1>6, <1>7, <1>8

LEMMA BeginsKeeps == ASSUME SqliteInv, NEW w \in Commands, Begins(w) PROVE SqliteInv'
<1>. USE IdlerIsNobody DEF SqliteInv
<1>1. SqliteTypeOK'
  BY DEF SqliteTypeOK, Begins
<1>2. AtHome'
  BY DEF SqliteTypeOK, AtHome, Begins
<1>3. GuardIsInside'
  BY DEF SqliteTypeOK, GuardIsInside, Begins
<1>4. LockIsHeld'
  BY DEF SqliteTypeOK, AtHome, LockIsHeld, HasBegun, Begins
<1>5. DraftIsOpen'
  BY DEF SqliteTypeOK, DraftIsOpen, Begins
<1>6. ThreadsFit'
  BY DEF SqliteTypeOK, ThreadsFit, Begins
<1>7. FiledSoFar'
  BY DEF SqliteTypeOK, WritesOf, FiledSoFar, Begins
<1>8. ClosedIsQuiet'
  BY DEF SqliteTypeOK, ClosedIsQuiet, Begins
<1>. QED
  BY <1>1, <1>2, <1>3, <1>4, <1>5, <1>6, <1>7, <1>8

LEMMA BusyKeeps == ASSUME SqliteInv, NEW w \in Commands, Busy(w) PROVE SqliteInv'
<1>. USE IdlerIsNobody DEF SqliteInv
<1>1. SqliteTypeOK'
  BY DEF SqliteTypeOK, Busy
<1>2. AtHome'
  BY DEF AtHome, Busy
<1>3. GuardIsInside'
  BY DEF GuardIsInside, Busy
<1>4. LockIsHeld'
  BY DEF LockIsHeld, HasBegun, Busy
<1>5. DraftIsOpen'
  BY DEF DraftIsOpen, Busy
<1>6. ThreadsFit'
  BY DEF ThreadsFit, Busy
<1>7. FiledSoFar'
  BY DEF WritesOf, FiledSoFar, Busy
<1>8. ClosedIsQuiet'
  BY DEF ClosedIsQuiet, Busy
<1>. QED
  BY <1>1, <1>2, <1>3, <1>4, <1>5, <1>6, <1>7, <1>8

LEMMA FirstHalfKeeps == ASSUME SqliteInv, NEW w \in Commands, Half(w, "first", 1, "second") PROVE SqliteInv'
<1>. USE IdlerIsNobody DEF SqliteInv
<1>1. SqliteTypeOK'
  BY DEF SqliteTypeOK, AtHome, Half
<1>2. AtHome'
  BY DEF AtHome, Half
<1>3. GuardIsInside'
  BY DEF GuardIsInside, Half
<1>4. LockIsHeld'
  BY DEF LockIsHeld, HasBegun, Half
<1>5. DraftIsOpen'
  BY DEF SqliteTypeOK, AtHome, GuardIsInside, LockIsHeld, HasBegun, DraftIsOpen, Half
<1>6. ThreadsFit'
  BY DEF ThreadsFit, Half
<1>7. FiledSoFar'
  BY DEF WritesOf, FiledSoFar, Half
<1>8. ClosedIsQuiet'
  BY DEF ClosedIsQuiet, Half
<1>. QED
  BY <1>1, <1>2, <1>3, <1>4, <1>5, <1>6, <1>7, <1>8

LEMMA SecondHalfKeeps == ASSUME SqliteInv, NEW w \in Commands, Half(w, "second", 2, "committing") PROVE SqliteInv'
<1>. USE IdlerIsNobody DEF SqliteInv
<1>1. SqliteTypeOK'
  BY DEF SqliteTypeOK, AtHome, Half
<1>2. AtHome'
  BY DEF AtHome, Half
<1>3. GuardIsInside'
  BY DEF GuardIsInside, Half
<1>4. LockIsHeld'
  BY DEF LockIsHeld, HasBegun, Half
<1>5. DraftIsOpen'
  BY DEF SqliteTypeOK, AtHome, GuardIsInside, LockIsHeld, HasBegun, DraftIsOpen, Halves, Half
<1>6. ThreadsFit'
  BY DEF ThreadsFit, Half
<1>7. FiledSoFar'
  BY DEF WritesOf, FiledSoFar, Half
<1>8. ClosedIsQuiet'
  BY DEF ClosedIsQuiet, Half
<1>. QED
  BY <1>1, <1>2, <1>3, <1>4, <1>5, <1>6, <1>7, <1>8

LEMMA TripsKeeps == ASSUME SqliteInv, NEW w \in Commands, Trips(w) PROVE SqliteInv'
<1>. USE IdlerIsNobody DEF SqliteInv
<1>1. SqliteTypeOK'
  BY DEF SqliteTypeOK, Trips
<1>2. AtHome'
  BY DEF AtHome, Trips
<1>3. GuardIsInside'
  BY DEF GuardIsInside, Trips
<1>4. LockIsHeld'
  BY DEF LockIsHeld, HasBegun, Trips
<1>5. DraftIsOpen'
  BY DEF DraftIsOpen, Trips
<1>6. ThreadsFit'
  BY DEF ThreadsFit, Trips
<1>7. FiledSoFar'
  BY DEF WritesOf, FiledSoFar, Trips
<1>8. ClosedIsQuiet'
  BY DEF ClosedIsQuiet, Trips
<1>. QED
  BY <1>1, <1>2, <1>3, <1>4, <1>5, <1>6, <1>7, <1>8

LEMMA TripsRolledBackKeeps == ASSUME SqliteInv, NEW w \in Commands, TripsRolledBack(w) PROVE SqliteInv'
<1>. USE IdlerIsNobody DEF SqliteInv
<1>1. SqliteTypeOK'
  BY DEF SqliteTypeOK, AtHome, TripsRolledBack
<1>2. AtHome'
  BY DEF AtHome, TripsRolledBack
<1>3. GuardIsInside'
  BY DEF GuardIsInside, TripsRolledBack
<1>4. LockIsHeld'
  BY DEF SqliteTypeOK, GuardIsInside, LockIsHeld, HasBegun, TripsRolledBack
<1>5. DraftIsOpen'
  BY DEF SqliteTypeOK, LockIsHeld, HasBegun, DraftIsOpen, Halves, TripsRolledBack
<1>6. ThreadsFit'
  BY DEF ThreadsFit, TripsRolledBack
<1>7. FiledSoFar'
  BY DEF WritesOf, FiledSoFar, TripsRolledBack
<1>8. ClosedIsQuiet'
  BY DEF ClosedIsQuiet, TripsRolledBack
<1>. QED
  BY <1>1, <1>2, <1>3, <1>4, <1>5, <1>6, <1>7, <1>8

LEMMA CommitsKeeps == ASSUME SqliteInv, NEW w \in Commands, Commits(w) PROVE SqliteInv'
<1>. USE IdlerIsNobody DEF SqliteInv
<1>1. SqliteTypeOK'
  BY DEF SqliteTypeOK, AtHome, Commits
<1>2. AtHome'
  BY DEF AtHome, Commits
<1>3. GuardIsInside'
  BY DEF GuardIsInside, Commits
<1>4. LockIsHeld'
  BY DEF SqliteTypeOK, GuardIsInside, LockIsHeld, HasBegun, Commits
<1>5. DraftIsOpen'
  BY DEF SqliteTypeOK, LockIsHeld, HasBegun, DraftIsOpen, Halves, Commits
<1>6. ThreadsFit'
  BY DEF ThreadsFit, Commits
<1>7. FiledSoFar'
  BY DEF SqliteTypeOK, AtHome, DraftIsOpen, Halves, WritesOf, FiledSoFar, Commits
<1>8. ClosedIsQuiet'
  BY DEF ClosedIsQuiet, Commits
<1>. QED
  BY <1>1, <1>2, <1>3, <1>4, <1>5, <1>6, <1>7, <1>8

LEMMA RollsBackKeeps == ASSUME SqliteInv, NEW w \in Commands, RollsBack(w) PROVE SqliteInv'
<1>. USE IdlerIsNobody DEF SqliteInv
<1>1. SqliteTypeOK'
  BY DEF SqliteTypeOK, RollsBack
<1>2. AtHome'
  BY DEF AtHome, RollsBack
<1>3. GuardIsInside'
  BY DEF GuardIsInside, RollsBack
<1>4. LockIsHeld'
  BY DEF SqliteTypeOK, GuardIsInside, LockIsHeld, HasBegun, RollsBack
<1>5. DraftIsOpen'
  BY DEF SqliteTypeOK, GuardIsInside, LockIsHeld, HasBegun, DraftIsOpen, RollsBack
<1>6. ThreadsFit'
  BY DEF ThreadsFit, RollsBack
<1>7. FiledSoFar'
  BY DEF WritesOf, FiledSoFar, RollsBack
<1>8. ClosedIsQuiet'
  BY DEF ClosedIsQuiet, RollsBack
<1>. QED
  BY <1>1, <1>2, <1>3, <1>4, <1>5, <1>6, <1>7, <1>8

LEMMA ConcludesKeeps == ASSUME SqliteInv, NEW w \in Commands, Concludes(w) PROVE SqliteInv'
<1>. USE IdlerIsNobody DEF SqliteInv
<1>1. SqliteTypeOK'
  BY DEF SqliteTypeOK, AtHome, Concludes
<1>2. AtHome'
  BY DEF SqliteTypeOK, AtHome, Concludes
<1>3. GuardIsInside'
  BY DEF SqliteTypeOK, GuardIsInside, Concludes
<1>4. LockIsHeld'
  BY DEF LockIsHeld, HasBegun, Concludes
<1>5. DraftIsOpen'
  BY DEF DraftIsOpen, Concludes
<1>6. ThreadsFit'
  BY DEF ThreadsFit, Concludes
<1>7. FiledSoFar'
  BY DEF WritesOf, FiledSoFar, Concludes
<1>8. ClosedIsQuiet'
  BY DEF SqliteTypeOK, ClosedIsQuiet, Concludes
<1>. QED
  BY <1>1, <1>2, <1>3, <1>4, <1>5, <1>6, <1>7, <1>8

LEMMA CallerCancelledKeeps == ASSUME SqliteInv, NEW w \in Commands, CallerCancelled(w) PROVE SqliteInv'
<1>. USE IdlerIsNobody DEF SqliteInv
<1>1. SqliteTypeOK'
  BY DEF SqliteTypeOK, CallerCancelled
<1>2. AtHome'
  BY DEF SqliteTypeOK, AtHome, CallerCancelled
<1>3. GuardIsInside'
  BY DEF GuardIsInside, CallerCancelled
<1>4. LockIsHeld'
  BY DEF LockIsHeld, HasBegun, CallerCancelled
<1>5. DraftIsOpen'
  BY DEF DraftIsOpen, CallerCancelled
<1>6. ThreadsFit'
  BY DEF ThreadsFit, CallerCancelled
<1>7. FiledSoFar'
  BY DEF WritesOf, FiledSoFar, CallerCancelled
<1>8. ClosedIsQuiet'
  BY DEF ClosedIsQuiet, CallerCancelled
<1>. QED
  BY <1>1, <1>2, <1>3, <1>4, <1>5, <1>6, <1>7, <1>8

LEMMA ClosesFileKeeps == ASSUME SqliteInv, NEW p \in Procs, ClosesFile(p) PROVE SqliteInv'
<1>. USE IdlerIsNobody DEF SqliteInv
<1>1. SqliteTypeOK'
  BY DEF SqliteTypeOK, ClosesFile
<1>2. AtHome'
  BY DEF AtHome, ClosesFile
<1>3. GuardIsInside'
  BY DEF GuardIsInside, ClosesFile
<1>4. LockIsHeld'
  BY DEF LockIsHeld, HasBegun, ClosesFile
<1>5. DraftIsOpen'
  BY DEF DraftIsOpen, ClosesFile
<1>6. ThreadsFit'
  BY DEF ThreadsFit, ClosesFile
<1>7. FiledSoFar'
  BY DEF WritesOf, FiledSoFar, ClosesFile
<1>8. ClosedIsQuiet'
  BY DEF GuardIsInside, ClosedIsQuiet, ClosesFile
<1>. QED
  BY <1>1, <1>2, <1>3, <1>4, <1>5, <1>6, <1>7, <1>8

LEMMA ProcDiesKeeps == ASSUME SqliteInv, NEW p \in Procs, ProcDies(p) PROVE SqliteInv'
<1>. USE IdlerIsNobody DEF SqliteInv
<1>1. SqliteTypeOK'
  BY DEF SqliteTypeOK, ProcDies
<1>2. AtHome'
  BY DEF AtHome, ProcDies, Inside
<1>3. GuardIsInside'
  BY DEF SqliteTypeOK, GuardIsInside, ProcDies, Inside
<1>4. LockIsHeld'
  BY DEF LockIsHeld, HasBegun, ProcDies, Inside
<1>5. DraftIsOpen'
  BY DEF SqliteTypeOK, DraftIsOpen, ProcDies, Inside
<1>6. ThreadsFit'
  BY DEF ThreadsFit, ProcDies
<1>7. FiledSoFar'
  BY DEF WritesOf, FiledSoFar, ProcDies
<1>8. ClosedIsQuiet'
  BY DEF ClosedIsQuiet, ProcDies, Inside
<1>. QED
  BY <1>1, <1>2, <1>3, <1>4, <1>5, <1>6, <1>7, <1>8

LEMMA SqliteInitHolds == SqliteInit => SqliteInv
  BY IdlerIsNobody DEF SqliteInit, SqliteInv, SqliteTypeOK, AtHome, GuardIsInside, LockIsHeld,
     HasBegun,
     DraftIsOpen, ThreadsFit, FiledSoFar, ClosedIsQuiet, Halves, WritesOf

(* The invariant, for any commands and processes.                             *)
THEOREM SqliteInvariant == SqliteSpec => []SqliteInv
<1>1. ASSUME SqliteInv, [SqliteNext]_sqliteVars
      PROVE  SqliteInv'
  <2>1. CASE SqliteNext
    BY <1>1, <2>1, IssuesKeeps, EntersKeeps, StatesKeeps, BeginsKeeps, BusyKeeps, FirstHalfKeeps,
       SecondHalfKeeps, TripsKeeps, TripsRolledBackKeeps, CommitsKeeps, RollsBackKeeps,
       ConcludesKeeps, CallerCancelledKeeps, ClosesFileKeeps, ProcDiesKeeps
       DEF SqliteNext
  <2>2. CASE UNCHANGED sqliteVars
    BY <1>1, <2>2 DEF sqliteVars, SqliteInv, SqliteTypeOK, AtHome, GuardIsInside, LockIsHeld,
       HasBegun,
       DraftIsOpen, ThreadsFit, FiledSoFar, ClosedIsQuiet, Halves, WritesOf
  <2>. QED
    BY <1>1, <2>1, <2>2
<1>. QED
  BY SqliteInitHolds, <1>1, PTL DEF SqliteSpec

(* A command whose caller is told that it is stored is in the file, one that  *)
(* is told it failed is not, and none is there by halves: whatever is         *)
(* cancelled, however often the process dies (SqliteDurable's commands).      *)
THEOREM StoredStays == SqliteSpec => []StoredIsStored
<1>1. SqliteInv => StoredIsStored
  <2>. SUFFICES ASSUME SqliteInv
                PROVE  StoredIsStored
    OBVIOUS
  <2>1. \A w \in Commands : WritesOf(w) \subseteq Halves(w)
    BY DEF WritesOf, Halves
  <2>2. ASSUME NEW w \in Commands
        PROVE  /\ caller[w] = "stored" => WritesOf(w) \subseteq file
               /\ caller[w] = "failed" => WritesOf(w) \cap file = {}
               /\ WritesOf(w) \subseteq file \/ WritesOf(w) \cap file = {}
    BY <2>1 DEF SqliteInv, FiledSoFar
  <2>3. ASSUME NEW p \in Procs
        PROVE  /\ writer = p => \E w \in Inside(p) : thread[w] \in {"first", "second", "committing", "undoing"}
               /\ p \in shutc => \A w \in Inside(p) : thread[w] = "raised"
    BY DEF SqliteInv, LockIsHeld, ClosedIsQuiet, Inside
  <2>. QED
    BY <2>2, <2>3 DEF StoredIsStored
<1>. QED
  BY SqliteInvariant, <1>1, PTL

-----------------------------------------------------------------------------
(* Postgres: any number of sessions at the rows of one workflow. *)

Rows == [key : Nat, by : Nat, how : {"record", "transact", "supply", "append"}]
Transactions ==
    [op : {"none", "claim", "record", "transact", "supply", "append", "discard"},
     at : {"none", "claim", "lock", "fence", "already", "effect", "insert", "reread", "supply",
           "append", "discard", "delete", "commit"},
     token : Nat, lock : Nat, adds : SUBSET Rows, drops : SUBSET Rows, acted : BOOLEAN]

PgTypes ==
    /\ trans \in [Sessions -> Transactions]
    /\ rows \subseteq Rows
    /\ fence \in Nat /\ raised \in Nat /\ effects \in Nat /\ drawn \in Nat
    /\ granted \subseteq Nat

(* No Pass is above the fence, nor is one what a deletion raised it to.       *)
GrantsAreBelow ==
    /\ \A tok \in granted : 0 < tok /\ tok <= fence /\ tok # raised
    /\ raised <= fence

(* What a transaction is, by the statement it is to come to.                  *)
StatementFits(tr) ==
    /\ tr.at = "claim" => tr.op = "claim"
    /\ tr.at \in {"fence", "already", "effect"} => tr.op = "transact"
    /\ tr.at = "lock" => tr.op \in {"record", "transact"}
    /\ tr.at = "insert" => tr.op \in {"record", "transact", "supply"}
    /\ tr.at = "supply" => tr.op = "supply"
    /\ tr.at = "append" => tr.op = "append"
    /\ tr.at \in {"discard", "delete"} => tr.op = "discard"
    /\ tr.at \in {"none", "reread"} => tr.lock = 0 /\ ~tr.acted
    /\ tr.acted <=> tr.op = "transact" /\ tr.at \in {"lock", "insert", "commit"}
    /\ tr.at = "commit" => tr.op # "none"

(* A write's Pass is the newest, and its row is signed by it.                 *)
HoldsTheFence(tr) ==
    /\ tr.op \in {"record", "transact"} => tr.token \in granted \/ tr.at = "reread"
    /\ tr.op \notin {"record", "transact"} => tr.token = 0
    /\ tr.op \in {"record", "transact"} /\ tr.at \in {"insert", "commit"} =>
         tr.lock = fence /\ tr.token = fence

(* The claim row's lock, and the token that goes into the row with it.        *)
LockFits(tr) ==
    /\ tr.at \notin {"insert", "delete", "commit"} => tr.lock = 0
    /\ tr.op \in {"supply", "append"} => tr.lock = 0
    /\ tr.op = "claim" /\ tr.at = "commit" => tr.lock = fence + 1
    /\ tr.op = "discard" /\ tr.lock # 0 => tr.lock = fence + 1

(* What is about to be inserted, and what is about to be deleted.             *)
HasStep(S) == \E r \in S : r.key = 0
AddsFit(tr) ==
    /\ tr.at # "commit" \/ tr.op \in {"claim", "discard"} => tr.adds = {}
    /\ \A r \in tr.adds : r.by = tr.token /\ r.how = tr.op
    /\ tr.op = "append" => ~HasStep(tr.adds)
    /\ tr.op = "transact" /\ tr.at = "commit" => HasStep(tr.adds)
    /\ \A r, s \in tr.adds : r = s
DropsFit(tr) ==
    /\ tr.at # "commit" \/ tr.op # "discard" => tr.drops = {}
    /\ tr.op = "discard" /\ tr.at = "commit" /\ tr.lock # 0 =>
         \A r \in rows : r.by # 0 => r \in tr.drops

Fits(tr) == StatementFits(tr) /\ HoldsTheFence(tr) /\ LockFits(tr) /\ AddsFit(tr) /\ DropsFit(tr)
TransactionsFit == \A x \in Sessions : Fits(trans[x])

(* The claim row is locked by one at a time.                                  *)
OneLock == \A x, y \in Sessions : trans[x].lock # 0 /\ trans[y].lock # 0 => x = y

(* One transaction inserts the step, where it is not, and while no other      *)
(* inserts or deletes it.                                                     *)
OneInserter ==
    \A x \in Sessions : HasStep(trans[x].adds) => Step = {} /\ KeyFree(x)

(* The property, of the rows themselves.                                      *)
OneStep == \A r, s \in Step : r = s
EffectHasItsRow ==
    /\ effects \in {0, 1}
    /\ effects = 1 <=> \E r \in Step : r.how = "transact"
FencedByDeletion == \A r \in rows : r.by # 0 => r.by > raised

PgInv ==
    /\ PgTypes /\ GrantsAreBelow /\ TransactionsFit /\ OneLock /\ OneInserter
    /\ OneStep /\ EffectHasItsRow /\ FencedByDeletion

(* A step that moves one transaction only.                                    *)
LEMMA MoveKeeps ==
  ASSUME PgInv, NEW x \in Sessions, NEW to \in Transactions, Moves(x, to), UNCHANGED store, drawn' \in Nat,
         Fits(to),
         to.lock # 0 => RowFree(x),
         HasStep(to.adds) => Step = {} /\ KeyFree(x),
         HasStep(to.adds \cup to.drops) => \A y \in Sessions \ {x} : ~HasStep(trans[y].adds)
  PROVE  PgInv'
<1>1. /\ trans \in [Sessions -> Transactions] /\ trans' = [trans EXCEPT ![x] = to]
      /\ UNCHANGED <<fence, rows, effects, granted, raised>>
  BY DEF PgInv, PgTypes, Moves, store
<1>2. trans'[x] = to /\ \A y \in Sessions : y # x => trans'[y] = trans[y]
  BY <1>1
<1>3. PgTypes'
  BY <1>1 DEF PgInv, PgTypes
<1>4. GrantsAreBelow' /\ OneStep' /\ EffectHasItsRow' /\ FencedByDeletion'
  BY <1>1 DEF PgInv, GrantsAreBelow, OneStep, EffectHasItsRow, FencedByDeletion, Step
<1>5. TransactionsFit'
  <2>1. ASSUME NEW tr, Fits(tr)
        PROVE  Fits(tr)'
    BY <1>1, <2>1 DEF Fits, HoldsTheFence, LockFits, DropsFit
  <2>. QED
    BY <1>2, <2>1 DEF PgInv, TransactionsFit
<1>6. OneLock'
  BY <1>2 DEF PgInv, OneLock, RowFree
<1>7. OneInserter'
  <2>1. Step' = Step
    BY <1>1 DEF Step
  <2>2. ASSUME NEW y \in Sessions, HasStep(trans'[y].adds)
        PROVE  Step' = {} /\ KeyFree(y)'
    BY <1>2, <2>1, <2>2 DEF PgInv, OneInserter, KeyFree, HasStep
  <2>. QED
    BY <2>2 DEF OneInserter, HasStep
<1>. QED
  BY <1>3, <1>4, <1>5, <1>6, <1>7 DEF PgInv

(* What a session is in, of which an action makes the next.                   *)
LEMMA InTransaction ==
  ASSUME PgInv, NEW x \in Sessions
  PROVE  /\ trans[x] \in Transactions /\ Fits(trans[x])
         /\ trans[x].lock \in Nat /\ trans[x].token \in Nat
         /\ trans[x].adds \subseteq Rows /\ trans[x].drops \subseteq Rows
         /\ drawn \in Nat /\ fence \in Nat
  BY DEF PgInv, PgTypes, TransactionsFit, Transactions

(* A transaction that locks and writes nothing so far.                        *)
LEMMA EmptyKeeps ==
  ASSUME PgInv, NEW x \in Sessions, NEW to \in Transactions, Moves(x, to), UNCHANGED store, drawn' \in Nat,
         Fits(to), to.lock = 0, to.adds = {}, to.drops = {}
  PROVE  PgInv'
  BY MoveKeeps DEF HasStep

LEMMA QuietKeeps ==
  ASSUME PgInv, NEW x \in Sessions, Moves(x, Quiet), UNCHANGED store, drawn' = drawn
  PROVE  PgInv'
<1>1. Quiet \in Transactions /\ Fits(Quiet)
  BY DEF Quiet, Transactions, Fits, StatementFits, HoldsTheFence, LockFits, AddsFit, DropsFit
<1>. QED
  BY <1>1, InTransaction, EmptyKeeps DEF Quiet

(* The statements that read.                                                  *)
LEMMA ReadsKeep ==
  ASSUME PgInv, NEW x \in Sessions,
         ReadsFence(x) \/ ReadsAlready(x) \/ Acts(x) \/ ReadsBack(x) \/ SupplyDraws(x) \/ Aborts(x)
  PROVE  PgInv'
<1>1. CASE Moves(x, Quiet) /\ UNCHANGED <<store, drawn>>
  BY <1>1, QuietKeeps
<1>2. ASSUME NEW to, Moves(x, to), UNCHANGED store, drawn' \in Nat,
             \/ /\ trans[x].at = "fence" /\ to = [trans[x] EXCEPT !.at = "already"]
             \/ /\ trans[x].at = "already" /\ to = [trans[x] EXCEPT !.at = "effect"]
             \/ /\ trans[x].at = "effect" /\ to = [trans[x] EXCEPT !.acted = TRUE, !.at = "lock"]
             \/ /\ trans[x].at = "supply" /\ to = [trans[x] EXCEPT !.at = "insert"]
      PROVE  PgInv'
  <2>1. trans[x] \in Transactions /\ Fits(trans[x])
    BY InTransaction
  <2>2. to \in Transactions
    BY <1>2, <2>1 DEF Transactions
  <2>3. /\ to.op = trans[x].op /\ to.token = trans[x].token /\ to.lock = trans[x].lock
        /\ to.adds = trans[x].adds /\ to.drops = trans[x].drops
        /\ \/ trans[x].at = "fence" /\ to.at = "already" /\ to.acted = trans[x].acted
           \/ trans[x].at = "already" /\ to.at = "effect" /\ to.acted = trans[x].acted
           \/ trans[x].at = "effect" /\ to.at = "lock" /\ to.acted
           \/ trans[x].at = "supply" /\ to.at = "insert" /\ to.acted = trans[x].acted
    BY <1>2, <2>1 DEF Transactions
  <2>4. Fits(to) /\ to.lock = 0 /\ to.adds = {} /\ to.drops = {}
    BY <2>1, <2>3 DEF Fits, StatementFits, HoldsTheFence, LockFits, AddsFit, DropsFit
  <2>. QED
    BY <1>2, <2>2, <2>4, EmptyKeeps
<1>. QED
  BY <1>1, <1>2, InTransaction
     DEF ReadsFence, ReadsAlready, Acts, ReadsBack, SupplyDraws, Aborts, Goes, Draws, store

LEMMA CallsKeep ==
  ASSUME PgInv, NEW x \in Sessions, Calls(x)
  PROVE  PgInv'
<1>1. ASSUME NEW op, NEW at, NEW tok \in Nat, StartsTrans(x, op, at, tok),
             \/ op \in {"claim", "supply", "append", "discard"} /\ at = op /\ tok = 0
             \/ op = "record" /\ at = "lock" /\ tok \in granted
             \/ op = "transact" /\ at = "fence" /\ tok \in granted
      PROVE  PgInv'
  <2>. DEFINE to == [Quiet EXCEPT !.op = op, !.at = at, !.token = tok]
  <2>1. to \in Transactions /\ to.op = op /\ to.at = at /\ to.token = tok /\ to.lock = 0
        /\ to.adds = {} /\ to.drops = {} /\ ~to.acted
    BY <1>1 DEF Quiet, Transactions
  <2>. HIDE DEF to
  <2>2. Fits(to)
    BY <1>1, <2>1 DEF Fits, StatementFits, HoldsTheFence, LockFits, AddsFit, DropsFit, HasStep
  <2>3. Moves(x, to) /\ UNCHANGED store /\ drawn' \in Nat
    BY <1>1, InTransaction DEF StartsTrans, to
  <2>. QED
    BY <2>1, <2>2, <2>3, EmptyKeeps
<1>2. granted \subseteq Nat
  BY DEF PgInv, PgTypes
<1>. QED
  BY <1>1, <1>2 DEF Calls

LEMMA AppendsKeep ==
  ASSUME PgInv, NEW x \in Sessions, Appends(x)
  PROVE  PgInv'
<1>. DEFINE row == Row(drawn + 1, 0, "append")
            to == [trans[x] EXCEPT !.adds = {row}, !.at = "commit"]
<1>1. trans[x] \in Transactions /\ Fits(trans[x]) /\ trans[x].at = "append" /\ drawn \in Nat
  BY InTransaction DEF Appends
<1>2. row \in Rows /\ row.key # 0 /\ row.by = 0 /\ row.how = "append"
  BY <1>1 DEF Row, Rows
<1>. HIDE DEF row
<1>3. /\ to \in Transactions /\ to.op = trans[x].op /\ to.at = "commit" /\ to.token = trans[x].token
      /\ to.lock = trans[x].lock /\ to.adds = {row} /\ to.drops = trans[x].drops
      /\ to.acted = trans[x].acted
  BY <1>1, <1>2 DEF Transactions
<1>4. Moves(x, to) /\ UNCHANGED store /\ drawn' \in Nat
  BY <1>1 DEF Appends, Draws, row
<1>. HIDE DEF to
<1>5. Fits(to) /\ to.lock = 0 /\ to.drops = {} /\ ~HasStep(to.adds)
  BY <1>1, <1>2, <1>3 DEF Fits, StatementFits, HoldsTheFence, LockFits, AddsFit, DropsFit, HasStep
<1>6. to.adds \cup to.drops = to.adds
  BY <1>5
<1>. QED
  BY <1>3, <1>4, <1>5, <1>6, MoveKeeps

(* The claim row's lock is taken when it is free.                             *)
LEMMA LocksKeep ==
  ASSUME PgInv, NEW x \in Sessions, ClaimRow(x) \/ LocksFence(x) \/ SupersedesRow(x)
  PROVE  PgInv'
<1>1. trans[x] \in Transactions /\ Fits(trans[x]) /\ drawn \in Nat /\ fence \in Nat
  BY InTransaction
<1>2. ASSUME NEW lock \in Nat, NEW at, NEW to, to = [trans[x] EXCEPT !.lock = lock, !.at = at],
             Moves(x, to), UNCHANGED store, drawn' \in Nat,
             lock # 0 => RowFree(x),
             \/ trans[x].at = "claim" /\ at = "commit" /\ lock = fence + 1
             \/ trans[x].at = "lock" /\ at = "insert" /\ lock = fence /\ trans[x].token >= fence
             \/ trans[x].at = "discard" /\ at = "delete" /\ lock \in {0, fence + 1}
      PROVE  PgInv'
  <2>1. /\ to \in Transactions /\ to.op = trans[x].op /\ to.at = at /\ to.token = trans[x].token
        /\ to.lock = lock /\ to.adds = trans[x].adds /\ to.drops = trans[x].drops
        /\ to.acted = trans[x].acted
    BY <1>1, <1>2 DEF Transactions
  <2>2. trans[x].at = "lock" /\ trans[x].token >= fence => trans[x].token = fence
    <3>1. trans[x].at = "lock" => trans[x].token \in granted
      BY <1>1 DEF Fits, StatementFits, HoldsTheFence
    <3>2. trans[x].token \in granted => trans[x].token <= fence
      BY DEF PgInv, GrantsAreBelow
    <3>. QED
      BY <1>1, <3>1, <3>2, InTransaction
  <2>3. Fits(to) /\ to.adds = {} /\ to.drops = {}
    BY <1>1, <1>2, <2>1, <2>2 DEF Fits, StatementFits, HoldsTheFence, LockFits, AddsFit, DropsFit
  <2>. QED
    BY <1>2, <2>1, <2>3, MoveKeeps DEF HasStep
<1>3. CASE Moves(x, Quiet) /\ UNCHANGED <<store, drawn>>
  BY <1>3, QuietKeeps
<1>4. trans[x].at = "discard" => [trans[x] EXCEPT !.at = "delete"] = [trans[x] EXCEPT !.lock = 0, !.at = "delete"]
  BY <1>1 DEF Fits, LockFits, Transactions
<1>5. CASE ClaimRow(x)
  <2>. DEFINE to == [trans[x] EXCEPT !.lock = fence + 1, !.at = "commit"]
  <2>1. trans[x].at = "claim" /\ RowFree(x) /\ UNCHANGED store /\ drawn' \in Nat /\ fence + 1 \in Nat
    BY <1>1, <1>5 DEF ClaimRow
  <2>2. Moves(x, to) \/ (Moves(x, Quiet) /\ drawn' = drawn)
    BY <1>5 DEF ClaimRow
  <2>. HIDE DEF to
  <2>3. to = [trans[x] EXCEPT !.lock = fence + 1, !.at = "commit"]
    BY DEF to
  <2>. QED
    BY <1>2, <1>3, <2>1, <2>2, <2>3
<1>6. CASE LocksFence(x)
  <2>1. drawn' = drawn + 1 => drawn' \in Nat
    BY <1>1
  <2>. QED
    BY <1>1, <1>2, <1>3, <1>6, <2>1 DEF LocksFence, Draws, FenceHolds
<1>7. CASE SupersedesRow(x)
  <2>. DEFINE to(lock) == [trans[x] EXCEPT !.lock = lock, !.at = "delete"]
  <2>1. /\ trans[x].at = "discard" /\ UNCHANGED store /\ drawn' \in Nat
        /\ 0 \in Nat /\ fence + 1 \in Nat
    BY <1>1, <1>7 DEF SupersedesRow
  <2>2. Moves(x, to(0)) \/ (RowFree(x) /\ Moves(x, to(fence + 1)))
    <3>1. to(0) = [trans[x] EXCEPT !.at = "delete"]
      BY <1>4, <2>1
    <3>2. \/ Moves(x, [trans[x] EXCEPT !.at = "delete"])
          \/ RowFree(x) /\ Moves(x, to(fence + 1))
      BY <1>7 DEF SupersedesRow, Goes
    <3>. QED
      BY <3>1, <3>2
  <2>3. \A lock \in Nat : to(lock) = [trans[x] EXCEPT !.lock = lock, !.at = "delete"]
    OBVIOUS
  <2>. HIDE DEF to
  <2>4. CASE Moves(x, to(0))
    BY <1>2, <2>1, <2>3, <2>4
  <2>5. CASE RowFree(x) /\ Moves(x, to(fence + 1))
    BY <1>2, <2>1, <2>3, <2>5
  <2>. QED
    BY <2>2, <2>4, <2>5
<1>. QED
  BY <1>5, <1>6, <1>7

LEMMA InsertsKeep ==
  ASSUME PgInv, NEW x \in Sessions, InsertsStep(x)
  PROVE  PgInv'
<1>1. trans[x] \in Transactions /\ Fits(trans[x]) /\ drawn \in Nat /\ fence \in Nat
  BY InTransaction
<1>2. trans[x].at = "insert" /\ KeyFree(x) /\ UNCHANGED store /\ drawn' \in Nat
  BY <1>1 DEF InsertsStep
<1>3. CASE Step = {} /\ Moves(x, [trans[x] EXCEPT !.adds = {Row(0, trans[x].token, trans[x].op)}, !.at = "commit"])
  <2>. DEFINE row == Row(0, trans[x].token, trans[x].op)
              to == [trans[x] EXCEPT !.adds = {row}, !.at = "commit"]
  <2>1. row \in Rows /\ row.key = 0 /\ row.by = trans[x].token /\ row.how = trans[x].op
    BY <1>1, <1>2 DEF Row, Rows, Transactions, Fits, StatementFits
  <2>. HIDE DEF row
  <2>2. /\ to \in Transactions /\ to.op = trans[x].op /\ to.at = "commit" /\ to.token = trans[x].token
        /\ to.lock = trans[x].lock /\ to.adds = {row} /\ to.drops = trans[x].drops
        /\ to.acted = trans[x].acted
    BY <1>1, <2>1 DEF Transactions
  <2>3. Moves(x, to)
    BY <1>3 DEF row
  <2>. HIDE DEF to
  <2>4. Fits(to) /\ to.drops = {}
    BY <1>1, <1>2, <2>1, <2>2 DEF Fits, StatementFits, HoldsTheFence, LockFits, AddsFit,
       DropsFit, HasStep
  <2>5. to.lock # 0 => RowFree(x)
    BY <2>2 DEF PgInv, OneLock, RowFree
  <2>6. \A y \in Sessions \ {x} : ~HasStep(trans[y].adds)
    BY <1>2 DEF KeyFree, HasStep
  <2>. QED
    BY <1>2, <1>3, <2>2, <2>3, <2>4, <2>5, <2>6, MoveKeeps
<1>4. CASE Step # {} /\ trans[x].op = "transact" /\ Moves(x, [Quiet EXCEPT !.op = "transact", !.at = "reread"])
  <2>. DEFINE to == [Quiet EXCEPT !.op = "transact", !.at = "reread"]
  <2>1. to \in Transactions /\ to.op = "transact" /\ to.at = "reread" /\ to.token = 0 /\ to.lock = 0
        /\ to.adds = {} /\ to.drops = {} /\ ~to.acted
    BY DEF Quiet, Transactions
  <2>2. Moves(x, to)
    BY <1>4
  <2>. HIDE DEF to
  <2>3. Fits(to)
    BY <2>1 DEF Fits, StatementFits, HoldsTheFence, LockFits, AddsFit, DropsFit
  <2>. QED
    BY <1>2, <2>1, <2>2, <2>3, EmptyKeeps
<1>5. CASE Step # {} /\ trans[x].op # "transact" /\ Goes(x, "commit")
  <2>. DEFINE to == [trans[x] EXCEPT !.at = "commit"]
  <2>1. /\ to \in Transactions /\ to.op = trans[x].op /\ to.at = "commit" /\ to.token = trans[x].token
        /\ to.lock = trans[x].lock /\ to.adds = trans[x].adds /\ to.drops = trans[x].drops
        /\ to.acted = trans[x].acted
    BY <1>1 DEF Transactions
  <2>2. Moves(x, to)
    BY <1>5 DEF Goes
  <2>. HIDE DEF to
  <2>3. Fits(to) /\ to.adds = {} /\ to.drops = {}
    BY <1>1, <1>2, <1>5, <2>1 DEF Fits, StatementFits, HoldsTheFence, LockFits, AddsFit, DropsFit
  <2>4. to.lock # 0 => RowFree(x)
    BY <2>1 DEF PgInv, OneLock, RowFree
  <2>. QED
    BY <1>2, <2>1, <2>2, <2>3, <2>4, MoveKeeps DEF HasStep
<1>. QED
  BY <1>3, <1>4, <1>5 DEF InsertsStep

LEMMA DeletesKeep ==
  ASSUME PgInv, NEW x \in Sessions, DeletesRows(x)
  PROVE  PgInv'
<1>. DEFINE to == [trans[x] EXCEPT !.drops = rows, !.at = "commit"]
<1>1. /\ trans[x] \in Transactions /\ Fits(trans[x]) /\ drawn \in Nat
      /\ rows \subseteq Rows
  BY InTransaction DEF PgInv, PgTypes
<1>2. trans[x].at = "delete" /\ Moves(x, to) /\ UNCHANGED store /\ drawn' \in Nat
  BY <1>1 DEF DeletesRows
<1>3. /\ to \in Transactions /\ to.op = trans[x].op /\ to.at = "commit" /\ to.token = trans[x].token
      /\ to.lock = trans[x].lock /\ to.adds = trans[x].adds /\ to.drops = rows
      /\ to.acted = trans[x].acted
  BY <1>1 DEF Transactions
<1>. HIDE DEF to
<1>4. Fits(to) /\ to.adds = {}
  BY <1>1, <1>2, <1>3 DEF Fits, StatementFits, HoldsTheFence, LockFits, AddsFit, DropsFit
<1>5. to.lock # 0 => RowFree(x)
  BY <1>3 DEF PgInv, OneLock, RowFree
<1>6. HasStep(to.adds \cup to.drops) => \A y \in Sessions \ {x} : ~HasStep(trans[y].adds)
  BY <1>3, <1>4 DEF PgInv, OneInserter, HasStep, Step
<1>. QED
  BY <1>2, <1>3, <1>4, <1>5, <1>6, MoveKeeps DEF HasStep

(* A commit changes the rows, and the fence when it holds its lock.           *)
LEMMA CommitKeeps ==
  ASSUME PgInv, NEW x \in Sessions, CommitsTrans(x)
  PROVE  PgInv'
<1>. DEFINE tr == trans[x]
<1>1. /\ tr \in Transactions /\ Fits(tr) /\ tr.at = "commit"
      /\ tr.lock \in Nat /\ tr.token \in Nat /\ fence \in Nat /\ raised \in Nat
      /\ tr.adds \subseteq Rows /\ tr.drops \subseteq Rows
  BY InTransaction DEF CommitsTrans, PgInv, PgTypes
<1>2. /\ trans' = [trans EXCEPT ![x] = Quiet] /\ drawn' = drawn
      /\ fence' = IF tr.lock > 0 THEN tr.lock ELSE fence
      /\ granted' = granted \cup (IF tr.op = "claim" THEN {tr.lock} ELSE {})
      /\ rows' = (rows \ tr.drops) \cup tr.adds
      /\ raised' = IF tr.op = "discard" /\ tr.lock > 0 THEN tr.lock ELSE raised
  BY DEF CommitsTrans, Moves
<1>3. effects' = IF tr.op = "discard" /\ Step \subseteq tr.drops THEN 0
                 ELSE IF tr.acted THEN effects + 1 ELSE effects
  BY DEF CommitsTrans
<1>4. trans \in [Sessions -> Transactions]
  BY DEF PgInv, PgTypes
<1>5. trans'[x] = Quiet /\ \A y \in Sessions : y # x => trans'[y] = trans[y] /\ trans[y] \in Transactions
  BY <1>2, <1>4
<1>6. Quiet \in Transactions /\ Fits(Quiet)' /\ Quiet.lock = 0 /\ Quiet.adds = {} /\ Quiet.drops = {}
  BY DEF Quiet, Transactions, Fits, StatementFits, HoldsTheFence, LockFits, AddsFit, DropsFit
<1>7. /\ tr.op \in {"claim", "record", "transact", "supply", "append", "discard"}
      /\ tr.acted <=> tr.op = "transact"
      /\ tr.op \in {"record", "transact"} => tr.token \in granted /\ tr.lock = fence /\ tr.token = fence
      /\ tr.op \notin {"record", "transact"} => tr.token = 0
      /\ tr.op \in {"supply", "append"} => tr.lock = 0
      /\ tr.op = "claim" => tr.lock = fence + 1
      /\ tr.op = "discard" /\ tr.lock # 0 => tr.lock = fence + 1
  BY <1>1 DEF Fits, StatementFits, HoldsTheFence, LockFits, Transactions
<1>8. /\ tr.op \in {"claim", "discard"} => tr.adds = {}
      /\ \A r \in tr.adds : r.by = tr.token /\ r.how = tr.op
      /\ tr.op = "append" => ~HasStep(tr.adds)
      /\ tr.op = "transact" => HasStep(tr.adds)
      /\ \A r, s \in tr.adds : r = s
      /\ tr.op # "discard" => tr.drops = {}
      /\ tr.op = "discard" /\ tr.lock # 0 => \A r \in rows : r.by # 0 => r \in tr.drops
  BY <1>1 DEF Fits, AddsFit, DropsFit
<1>9. /\ HasStep(tr.adds) => Step = {}
      /\ \A y \in Sessions \ {x} : HasStep(trans[y].adds) => Step = {} /\ ~HasStep(tr.adds)
  BY DEF PgInv, OneInserter, KeyFree, HasStep
<1>. HIDE DEF tr
<1>10. Step' = {r \in Step : r \notin tr.drops} \cup {r \in tr.adds : r.key = 0}
  BY <1>2 DEF Step
<1>11. PgTypes'
  <2>1. fence' \in Nat /\ raised' \in Nat /\ drawn' \in Nat
    BY <1>1, <1>2 DEF PgInv, PgTypes
  <2>4. granted' \subseteq Nat
    BY <1>1, <1>2 DEF PgInv, PgTypes
  <2>5. effects' \in Nat
    BY <1>3 DEF PgInv, EffectHasItsRow
  <2>2. rows' \subseteq Rows
    BY <1>1, <1>2 DEF PgInv, PgTypes
  <2>3. trans' \in [Sessions -> Transactions]
    BY <1>2, <1>4, <1>6
  <2>. QED
    BY <2>1, <2>2, <2>3, <2>4, <2>5 DEF PgTypes
<1>12. GrantsAreBelow'
  BY <1>1, <1>2, <1>7 DEF PgInv, GrantsAreBelow, PgTypes
<1>13. OneLock' /\ OneInserter'
  <2>1. OneLock'
    BY <1>5, <1>6 DEF PgInv, OneLock
  <2>2. ASSUME NEW y \in Sessions, HasStep(trans'[y].adds)
        PROVE  Step' = {} /\ KeyFree(y)'
    <3>1. y # x /\ HasStep(trans[y].adds)
      BY <1>5, <1>6, <2>2 DEF HasStep
    <3>2. Step' = {}
      BY <1>9, <1>10, <3>1 DEF HasStep
    <3>3. KeyFree(y)'
      BY <1>5, <1>6, <3>1 DEF PgInv, OneInserter, KeyFree
    <3>. QED
      BY <3>2, <3>3
  <2>. QED
    BY <2>1, <2>2 DEF OneInserter, HasStep
<1>14. TransactionsFit'
  <2>1. ASSUME NEW other \in Transactions, Fits(other), tr.lock # 0 => other.lock = 0
        PROVE  Fits(other)'
    <3>1. other.lock \in Nat
      BY DEF Transactions
    <3>3. other.lock # 0 => fence' = fence /\ raised' = raised
      BY <1>1, <1>2, <2>1, <3>1
    <3>4. StatementFits(other)' /\ AddsFit(other)'
      BY <2>1 DEF Fits, StatementFits, AddsFit, HasStep
    <3>5. LockFits(other)'
      BY <1>1, <2>1, <3>3 DEF Fits, LockFits
    <3>6. HoldsTheFence(other)'
      <4>1. granted \subseteq granted'
        BY <1>2
      <4>2. other.op \in {"record", "transact"} /\ other.at \in {"insert", "commit"} => other.lock # 0
        BY <2>1 DEF Fits, HoldsTheFence, PgInv, GrantsAreBelow
      <4>. QED
        BY <2>1, <3>3, <4>1, <4>2 DEF Fits, HoldsTheFence
    <3>7. DropsFit(other)'
      <4>1. ASSUME other.op = "discard", other.at = "commit", other.lock # 0, NEW r \in rows', r.by # 0
            PROVE  r \in other.drops
        <5>1. tr.lock = 0
          BY <2>1, <4>1
        <5>2. tr.op \notin {"record", "transact"}
          BY <1>7, <5>1 DEF PgInv, GrantsAreBelow
        <5>3. r \notin tr.adds
          BY <1>7, <1>8, <4>1, <5>2
        <5>. QED
          BY <1>2, <2>1, <4>1, <5>3 DEF Fits, DropsFit
      <4>2. other.at # "commit" \/ other.op # "discard" => other.drops = {}
        BY <2>1 DEF Fits, DropsFit
      <4>. QED
        BY <4>1, <4>2 DEF DropsFit
    <3>. QED
      BY <3>4, <3>5, <3>6, <3>7 DEF Fits
  <2>2. ASSUME NEW y \in Sessions, y # x
        PROVE  trans[y] \in Transactions /\ Fits(trans[y]) /\ (tr.lock # 0 => trans[y].lock = 0)
    BY <2>2, InTransaction DEF tr, PgInv, OneLock
  <2>3. ASSUME NEW y \in Sessions
        PROVE  Fits(trans[y])'
    BY <1>5, <1>6, <2>1, <2>2
  <2>. QED
    BY <2>3 DEF TransactionsFit
<1>15. OneStep'
  BY <1>8, <1>9, <1>10 DEF PgInv, OneStep, HasStep
<1>16. EffectHasItsRow'
  <2>1. effects \in {0, 1} /\ (effects = 1 <=> \E r \in Step : r.how = "transact")
    BY DEF PgInv, EffectHasItsRow
  <2>2. CASE tr.op = "transact"
    <3>1. Step = {} /\ effects = 0 /\ effects' = 1
      BY <1>3, <1>7, <1>8, <1>9, <2>1, <2>2
    <3>2. \E r \in Step' : r.how = "transact"
      BY <1>8, <1>10, <2>2 DEF HasStep
    <3>. QED
      BY <3>1, <3>2 DEF EffectHasItsRow
  <2>3. CASE tr.op = "discard" /\ Step \subseteq tr.drops
    <3>1. effects' = 0 /\ Step' = {}
      BY <1>3, <1>8, <1>10, <2>3
    <3>. QED
      BY <3>1 DEF EffectHasItsRow
  <2>4. CASE tr.op = "discard" /\ ~(Step \subseteq tr.drops)
    <3>1. Step' = Step /\ effects' = effects
      BY <1>3, <1>7, <1>8, <1>10, <2>4 DEF PgInv, OneStep
    <3>. QED
      BY <2>1, <3>1 DEF EffectHasItsRow
  <2>5. CASE tr.op \notin {"transact", "discard"}
    <3>1. effects' = effects /\ Step' = Step \cup {r \in tr.adds : r.key = 0}
      BY <1>3, <1>7, <1>8, <1>10, <2>5
    <3>2. \A r \in tr.adds : r.how # "transact"
      BY <1>8, <2>5
    <3>. QED
      BY <2>1, <3>1, <3>2 DEF EffectHasItsRow
  <2>. QED
    BY <2>2, <2>3, <2>4, <2>5
<1>17. FencedByDeletion'
  <2>1. ASSUME NEW r \in rows', r.by # 0
        PROVE  r.by > raised'
    <3>1. CASE r \in tr.adds
      <4>1. tr.op \in {"record", "transact"} /\ r.by = tr.token /\ raised' = raised
        BY <1>2, <1>7, <1>8, <2>1, <3>1
      <4>. QED
        BY <1>1, <1>7, <4>1 DEF PgInv, GrantsAreBelow
    <3>2. CASE r \in rows /\ r \notin tr.drops
      <4>1. raised' = raised
        BY <1>1, <1>2, <1>8, <2>1, <3>2
      <4>. QED
        BY <2>1, <3>2, <4>1 DEF PgInv, FencedByDeletion
    <3>. QED
      BY <1>2, <3>1, <3>2
  <2>. QED
    BY <2>1 DEF FencedByDeletion
<1>. QED
  BY <1>11, <1>12, <1>13, <1>14, <1>15, <1>16, <1>17 DEF PgInv

(* The invariant, for any sessions at the rows of one workflow.               *)
THEOREM PgInvariant == PgSpec => []PgInv
<1>1. PgInit => PgInv
  <2>1. Quiet \in Transactions
    BY DEF Quiet, Transactions
  <2>2. PgInit => Fits(Quiet)
    BY DEF Quiet, Fits, StatementFits, HoldsTheFence, LockFits, AddsFit, DropsFit
  <2>3. PgInit => \A x \in Sessions : trans[x] = Quiet /\ trans[x].lock = 0 /\ trans[x].adds = {}
    BY DEF PgInit, Quiet
  <2>. QED
    BY <2>1, <2>2, <2>3 DEF PgInit, PgInv, PgTypes, GrantsAreBelow, TransactionsFit, OneLock,
       OneInserter,
       OneStep, EffectHasItsRow, FencedByDeletion, Step, HasStep
<1>2. ASSUME PgInv, [PgNext]_pgVars
      PROVE  PgInv'
  <2>1. ASSUME NEW x \in Sessions,
               \/ Calls(x) \/ ClaimRow(x) \/ LocksFence(x) \/ SupplyDraws(x) \/ InsertsStep(x)
               \/ ReadsFence(x) \/ ReadsAlready(x) \/ Acts(x) \/ ReadsBack(x) \/ Appends(x)
               \/ SupersedesRow(x) \/ DeletesRows(x) \/ CommitsTrans(x) \/ Aborts(x)
        PROVE  PgInv'
    BY <1>2, <2>1, CallsKeep, LocksKeep, ReadsKeep, InsertsKeep, AppendsKeep, DeletesKeep,
       CommitKeeps
  <2>2. ASSUME UNCHANGED <<trans, fence, rows, effects, drawn, granted, raised>>
        PROVE  PgInv'
    <3>1. PgTypes' /\ GrantsAreBelow' /\ OneLock'
      BY <1>2, <2>2 DEF PgInv, PgTypes, GrantsAreBelow, OneLock
    <3>2. TransactionsFit'
      BY <1>2, <2>2 DEF PgInv, TransactionsFit, Fits, HoldsTheFence, LockFits, DropsFit
    <3>3. OneInserter'
      BY <1>2, <2>2 DEF PgInv, OneInserter, KeyFree, Step
    <3>4. OneStep' /\ EffectHasItsRow' /\ FencedByDeletion'
      BY <1>2, <2>2 DEF PgInv, OneStep, EffectHasItsRow, FencedByDeletion, Step
    <3>. QED
      BY <3>1, <3>2, <3>3, <3>4 DEF PgInv
  <2>3. CASE TakesInbox \/ UNCHANGED pgVars
    BY <2>2, <2>3 DEF TakesInbox, pgVars
  <2>. QED
    BY <1>2, <2>1, <2>3 DEF PgNext
<1>. QED
  BY <1>1, <1>2, PTL DEF PgSpec

(* However transactions interleave under READ COMMITTED and sessions are lost, *)
(* the effect of a step is there exactly with its record (transact).          *)
THEOREM EffectsHaveRecords == PgSpec => []EffectsMatchRecords
<1>1. PgInv => EffectsMatchRecords
  <2>. SUFFICES ASSUME PgInv
                PROVE  EffectsMatchRecords
    OBVIOUS
  <2>1. \A S : (\A r, s \in S : r = s) => S = {} \/ \E r \in S : S = {r}
    OBVIOUS
  <2>2. \A S : (\A r, s \in S : r = s) => Cardinality(S) = IF S = {} THEN 0 ELSE 1
    BY <2>1, FS_EmptySet, FS_Singleton
  <2>3. Cardinality(Step) <= 1
    BY <2>2 DEF PgInv, OneStep
  <2>4. effects = Cardinality({r \in Step : r.how = "transact"})
    <3>. DEFINE acts == {r \in Step : r.how = "transact"}
    <3>1. \A r, s \in acts : r = s
      BY DEF PgInv, OneStep
    <3>2. effects \in {0, 1} /\ (effects = 1 <=> acts # {})
      BY DEF PgInv, EffectHasItsRow
    <3>. HIDE DEF acts
    <3>3. Cardinality(acts) = IF acts = {} THEN 0 ELSE 1
      BY <2>2, <3>1
    <3>4. effects = Cardinality(acts)
      BY <3>2, <3>3
    <3>. QED
      BY <3>4 DEF acts
  <2>. QED
    BY <2>3, <2>4 DEF EffectsMatchRecords, PgInv, FencedByDeletion
<1>. QED
  BY PgInvariant, <1>1, PTL

-----------------------------------------------------------------------------
(* Redis: any workflows and consumers at the stream. *)

RsTypes ==
    /\ RsTypeOK
    /\ sweep \in [of : Flows \cup {Nil}, from : Nat]

(* Ids only rise: what is in the stream, or was read, was appended.           *)
StreamIsAppended ==
    readTo <= tail /\ \A i \in stream : i <= tail /\ about[i] \in Flows

(* A sweep goes on behind what it has swept: what it was called for is owed   *)
(* ahead of it only, or was asked for since.                                  *)
SweepGoesOn ==
    sweep # NoSweep =>
        /\ sweep.of \in Flows
        /\ sweep.of \notin requeued =>
             sweep.of \notin sleeping /\ \A i \in owed : about[i] = sweep.of => sweep.from <= i

(* OwedIsKept in its parts.                                                   *)
OwedIsInStream == owed \subseteq stream /\ \A i \in owed : i > readTo \/ pendingOf[i] # Nil
TakersAgree == \A i \in Ids : pendingOf[i] # Nil => pendingOf[i] = taker[i]
CancelledIsGone ==
    \A w \in Flows : w \notin requeued /\ sweep.of # w =>
        w \notin sleeping /\ \A i \in owed : about[i] # w

RsInv ==
    /\ RsTypes /\ StreamIsAppended /\ SweepGoesOn
    /\ OwedIsInStream /\ TakersAgree /\ CancelledIsGone
(* A set of naturals that is not empty has a least member. *)
LEMMA LeastNatural ==
  ASSUME NEW T \in SUBSET Nat, T # {}
  PROVE  \E x \in T : \A y \in T : x <= y
<1> DEFINE R == {ss \in Nat \X Nat : ss[1] < ss[2]}
<1>1. IsWellFoundedOn(R, Nat)
  BY NatLessThanWellFounded DEF OpToRel
<1>2. \A a, b \in Nat : a < b => <<a, b>> \in R
  OBVIOUS
<1>. HIDE DEF R
<1>3. PICK x \in T : \A y \in T : <<y, x>> \notin R
  BY <1>1, WFMin
<1>4. \A y \in T : y \in Nat /\ x \in Nat /\ ~ (y < x)
  BY <1>2, <1>3
<1>. QED
  BY <1>4

LEMMA LeastIs ==
  ASSUME NEW S \in SUBSET Nat, S # {}
  PROVE  Least(S) \in S /\ \A j \in S : Least(S) <= j
  BY LeastNatural DEF Least


LEMMA PrepareKeeps == ASSUME RsInv, Prepare PROVE RsInv'
<1>. USE StreamAssumption DEF RsInv
<1>1. RsTypes'
  BY DEF RsTypes, RsTypeOK, Prepare
<1>2. StreamIsAppended'
  BY DEF StreamIsAppended, Prepare
<1>3. SweepGoesOn'
  BY DEF SweepGoesOn, Prepare
<1>4. OwedIsInStream'
  BY DEF OwedIsInStream, Prepare
<1>5. TakersAgree'
  BY DEF TakersAgree, Prepare
<1>6. CancelledIsGone'
  BY DEF CancelledIsGone, Prepare
<1>. QED
  BY <1>1, <1>2, <1>3, <1>4, <1>5, <1>6

LEMMA XAddKeeps == ASSUME RsInv, NEW w \in Flows, XAdd(w) PROVE RsInv'
<1>. USE StreamAssumption DEF RsInv
<1>1. RsTypes'
  BY DEF RsTypes, RsTypeOK, Ids, XAdd, Appended
<1>2. StreamIsAppended'
  BY DEF RsTypes, StreamIsAppended, RsTypeOK, Ids, XAdd, Appended
<1>3. SweepGoesOn'
  BY DEF RsTypes, SweepGoesOn, RsTypeOK, Ids, XAdd, Appended
<1>4. OwedIsInStream'
  BY DEF RsTypes, StreamIsAppended, OwedIsInStream, RsTypeOK, XAdd, Appended
<1>5. TakersAgree'
  BY DEF TakersAgree, XAdd
<1>6. CancelledIsGone'
  BY DEF RsTypes, CancelledIsGone, RsTypeOK, Ids, XAdd, Appended
<1>. QED
  BY <1>1, <1>2, <1>3, <1>4, <1>5, <1>6

LEMMA MovesDueKeeps == ASSUME RsInv, NEW w \in Flows, MovesDue(w) PROVE RsInv'
<1>. USE StreamAssumption DEF RsInv
<1>1. RsTypes'
  BY DEF RsTypes, RsTypeOK, Ids, MovesDue, Appended
<1>2. StreamIsAppended'
  BY DEF RsTypes, StreamIsAppended, RsTypeOK, Ids, MovesDue, Appended
<1>3. SweepGoesOn'
  BY DEF RsTypes, SweepGoesOn, RsTypeOK, Ids, MovesDue, Appended
<1>4. OwedIsInStream'
  BY DEF RsTypes, StreamIsAppended, OwedIsInStream, RsTypeOK, MovesDue, Appended
<1>5. TakersAgree'
  BY DEF TakersAgree, MovesDue
<1>6. CancelledIsGone'
  BY DEF RsTypes, CancelledIsGone, RsTypeOK, Ids, MovesDue, Appended
<1>. QED
  BY <1>1, <1>2, <1>3, <1>4, <1>5, <1>6

LEMMA XReadGroupKeeps == ASSUME RsInv, NEW n \in Consumers, XReadGroup(n) PROVE RsInv'
<1>. USE StreamAssumption DEF RsInv
<1>. DEFINE i == Least(Undelivered)
<1>0. /\ i \in Ids /\ i \in stream /\ i > readTo /\ \A j \in stream : j > readTo => i <= j
      /\ readTo' = i
      /\ pendingOf' = [pendingOf EXCEPT ![i] = n] /\ taker' = [taker EXCEPT ![i] = n]
      /\ silent' = silent \ {i} /\ inHand' = [inHand EXCEPT ![n] = i]
      /\ UNCHANGED <<about, tail, stream, group, sleeping, scanned, sweep, owed, requeued>>
  <2>0. stream \in SUBSET Nat /\ stream \subseteq Ids
    BY DEF RsTypes, RsTypeOK, Ids
  <2>1. Undelivered \in SUBSET Nat /\ Undelivered # {} /\ Undelivered \subseteq stream
    BY <2>0 DEF XReadGroup, Undelivered
  <2>2. i \in Undelivered /\ \A j \in Undelivered : i <= j
    BY <2>1, LeastIs
  <2>. QED
    BY <2>0, <2>1, <2>2 DEF XReadGroup, TakenBy, Undelivered
<1>. HIDE DEF i
<1>1. RsTypes'
  BY <1>0 DEF RsTypes, RsTypeOK, Ids
<1>2. StreamIsAppended'
  BY <1>0 DEF StreamIsAppended, RsTypes, RsTypeOK, Ids
<1>3. SweepGoesOn'
  BY DEF SweepGoesOn, XReadGroup
<1>4. OwedIsInStream'
  BY <1>0 DEF OwedIsInStream, RsTypes, RsTypeOK, Ids
<1>5. TakersAgree'
  BY <1>0 DEF TakersAgree, RsTypes, RsTypeOK
<1>6. CancelledIsGone'
  BY DEF CancelledIsGone, XReadGroup
<1>. QED
  BY <1>1, <1>2, <1>3, <1>4, <1>5, <1>6

LEMMA XAutoClaimKeeps == ASSUME RsInv, NEW n \in Consumers, XAutoClaim(n) PROVE RsInv'
<1>. USE StreamAssumption DEF RsInv
<1>. DEFINE ahead == {i \in Pending : i >= scanned[n]}
            seen == {i \in ahead : Cardinality({j \in ahead : j < i}) < Reach}
            found == {i \in seen : i \in silent \cap stream}
            passed == IF found = {} THEN seen ELSE {i \in seen : i <= Least(found)}
            dropped == passed \ stream
            left == ahead \ passed
<1>0. /\ inHand[n] = 0
      /\ scanned' = [scanned EXCEPT ![n] = IF left = {} THEN 0 ELSE Least(left)]
      /\ IF found = {}
         THEN /\ pendingOf' = [i \in Ids |-> IF i \in dropped THEN Nil ELSE pendingOf[i]]
              /\ UNCHANGED <<silent, inHand, taker>>
         ELSE /\ pendingOf' = [i \in Ids |-> IF i = Least(found) THEN n
                                             ELSE IF i \in dropped THEN Nil ELSE pendingOf[i]]
              /\ silent' = silent \ {Least(found)}
              /\ inHand' = [inHand EXCEPT ![n] = Least(found)]
              /\ taker' = [taker EXCEPT ![Least(found)] = n]
      /\ UNCHANGED <<about, tail, stream, group, readTo, sleeping, sweep, owed, requeued>>
  BY DEF XAutoClaim
<1>a. /\ found \in SUBSET Nat /\ found \subseteq Ids /\ found \subseteq stream
      /\ left \in SUBSET Nat /\ left \subseteq Ids /\ dropped \cap stream = {}
  BY DEF Pending, Ids
<1>. HIDE DEF found, left, dropped
<1>b. /\ found # {} => Least(found) \in Ids /\ Least(found) \in stream
      /\ left # {} => Least(left) \in Ids
  BY <1>a, LeastIs
<1>1. RsTypes'
  <2>1. scanned' \in [Consumers -> 0 .. MaxEntry]
    BY <1>0, <1>b DEF RsTypes, RsTypeOK, Ids
  <2>2. /\ pendingOf' \in [Ids -> Consumers \cup {Nil}] /\ silent' \subseteq Ids
        /\ taker' \in [Ids -> Consumers \cup {Nil}]
    BY <1>0, <1>b DEF RsTypes, RsTypeOK
  <2>3. inHand' \in [Consumers -> 0 .. MaxEntry]
    BY <1>0, <1>b DEF RsTypes, RsTypeOK, Ids
  <2>. QED
    BY <1>0, <2>1, <2>2, <2>3 DEF RsTypes, RsTypeOK
<1>2. StreamIsAppended'
  BY <1>0 DEF StreamIsAppended
<1>3. SweepGoesOn'
  BY <1>0 DEF SweepGoesOn
<1>4. OwedIsInStream'
  BY <1>0, <1>a, <1>b DEF OwedIsInStream, RsTypes, RsTypeOK
<1>5. TakersAgree'
  BY <1>0, <1>a, <1>b DEF TakersAgree, RsTypes, RsTypeOK
<1>6. CancelledIsGone'
  BY <1>0 DEF CancelledIsGone
<1>. QED
  BY <1>1, <1>2, <1>3, <1>4, <1>5, <1>6

LEMMA GrowsIdleKeeps == ASSUME RsInv, NEW i \in Ids, GrowsIdle(i) PROVE RsInv'
<1>. USE StreamAssumption DEF RsInv
<1>1. RsTypes'
  BY DEF RsTypes, RsTypeOK, GrowsIdle
<1>2. StreamIsAppended'
  BY DEF StreamIsAppended, GrowsIdle
<1>3. SweepGoesOn'
  BY DEF SweepGoesOn, GrowsIdle
<1>4. OwedIsInStream'
  BY DEF OwedIsInStream, GrowsIdle
<1>5. TakersAgree'
  BY DEF TakersAgree, GrowsIdle
<1>6. CancelledIsGone'
  BY DEF CancelledIsGone, GrowsIdle
<1>. QED
  BY <1>1, <1>2, <1>3, <1>4, <1>5, <1>6

LEMMA HoldKeeps == ASSUME RsInv, NEW n \in Consumers, Hold(n) PROVE RsInv'
<1>. USE StreamAssumption DEF RsInv
<1>1. RsTypes'
  BY DEF RsTypes, StreamIsAppended, SweepGoesOn, OwedIsInStream, TakersAgree, CancelledIsGone,
     RsTypeOK, Ids, NoSweep, Hold
<1>2. StreamIsAppended'
  BY DEF StreamIsAppended, Hold
<1>3. SweepGoesOn'
  BY DEF SweepGoesOn, Hold
<1>4. OwedIsInStream'
  BY DEF OwedIsInStream, Hold
<1>5. TakersAgree'
  BY DEF TakersAgree, Hold
<1>6. CancelledIsGone'
  BY DEF CancelledIsGone, Hold
<1>. QED
  BY <1>1, <1>2, <1>3, <1>4, <1>5, <1>6

LEMMA XAckKeeps == ASSUME RsInv, NEW n \in Consumers, XAck(n) PROVE RsInv'
<1>. USE StreamAssumption DEF RsInv
<1>1. RsTypes'
  <2>1. inHand' \in [Consumers -> 0 .. MaxEntry]
    BY DEF XAck, Acknowledged, RsTypes, RsTypeOK
  <2>3. pendingOf' \in [Ids -> Consumers \cup {Nil}] /\ silent' \subseteq Ids /\ owed' \subseteq Ids
    BY DEF XAck, Acknowledged, RsTypes, RsTypeOK
  <2>2. sleeping' \subseteq Flows /\ requeued' \subseteq Flows
    <3>1. inHand[n] \in stream => about[inHand[n]] \in Flows
      BY DEF StreamIsAppended
    <3>. QED
      BY <3>1 DEF XAck, Acknowledged, RsTypes, RsTypeOK
  <2>. QED
    BY <2>1, <2>2, <2>3 DEF XAck, RsTypes, RsTypeOK
<1>2. StreamIsAppended'
  BY DEF StreamIsAppended, XAck
<1>3. SweepGoesOn'
  BY DEF SweepGoesOn, XAck, Acknowledged
<1>4. OwedIsInStream'
  BY DEF RsTypes, StreamIsAppended, SweepGoesOn, OwedIsInStream, TakersAgree, CancelledIsGone,
     RsTypeOK, Ids, NoSweep, XAck, Acknowledged
<1>5. TakersAgree'
  BY DEF TakersAgree, XAck, Acknowledged
<1>6. CancelledIsGone'
  BY DEF CancelledIsGone, XAck, Acknowledged
<1>. QED
  BY <1>1, <1>2, <1>3, <1>4, <1>5, <1>6

LEMMA SuspendAtKeeps == ASSUME RsInv, NEW n \in Consumers, SuspendAt(n) PROVE RsInv'
<1>. USE StreamAssumption DEF RsInv
<1>1. RsTypes'
  <2>1. inHand' \in [Consumers -> 0 .. MaxEntry]
    BY DEF SuspendAt, Acknowledged, RsTypes, RsTypeOK
  <2>3. pendingOf' \in [Ids -> Consumers \cup {Nil}] /\ silent' \subseteq Ids /\ owed' \subseteq Ids
    BY DEF SuspendAt, Acknowledged, RsTypes, RsTypeOK
  <2>2. sleeping' \subseteq Flows /\ requeued' \subseteq Flows
    <3>1. inHand[n] \in stream => about[inHand[n]] \in Flows
      BY DEF StreamIsAppended
    <3>. QED
      BY <3>1 DEF SuspendAt, Acknowledged, RsTypes, RsTypeOK
  <2>. QED
    BY <2>1, <2>2, <2>3 DEF SuspendAt, RsTypes, RsTypeOK
<1>2. StreamIsAppended'
  BY DEF StreamIsAppended, SuspendAt
<1>3. SweepGoesOn'
  BY DEF SweepGoesOn, SuspendAt, Acknowledged
<1>4. OwedIsInStream'
  BY DEF RsTypes, StreamIsAppended, SweepGoesOn, OwedIsInStream, TakersAgree, CancelledIsGone,
     RsTypeOK, Ids, NoSweep, SuspendAt, Acknowledged
<1>5. TakersAgree'
  BY DEF TakersAgree, SuspendAt, Acknowledged
<1>6. CancelledIsGone'
  BY DEF CancelledIsGone, SuspendAt, Acknowledged
<1>. QED
  BY <1>1, <1>2, <1>3, <1>4, <1>5, <1>6

LEMMA LetsFallKeeps == ASSUME RsInv, NEW n \in Consumers, LetsFall(n) PROVE RsInv'
<1>. USE StreamAssumption DEF RsInv
<1>1. RsTypes'
  BY DEF RsTypes, RsTypeOK, LetsFall
<1>2. StreamIsAppended'
  BY DEF StreamIsAppended, LetsFall
<1>3. SweepGoesOn'
  BY DEF SweepGoesOn, LetsFall
<1>4. OwedIsInStream'
  BY DEF OwedIsInStream, LetsFall
<1>5. TakersAgree'
  BY DEF TakersAgree, LetsFall
<1>6. CancelledIsGone'
  BY DEF CancelledIsGone, LetsFall
<1>. QED
  BY <1>1, <1>2, <1>3, <1>4, <1>5, <1>6

LEMMA ZRemSleeperKeeps == ASSUME RsInv, NEW w \in Flows, ZRemSleeper(w) PROVE RsInv'
<1>. USE StreamAssumption DEF RsInv
<1>1. RsTypes'
  BY DEF RsTypes, RsTypeOK, ZRemSleeper
<1>2. StreamIsAppended'
  BY DEF StreamIsAppended, ZRemSleeper
<1>3. SweepGoesOn'
  BY DEF RsTypes, SweepGoesOn, RsTypeOK, Ids, ZRemSleeper
<1>4. OwedIsInStream'
  BY DEF OwedIsInStream, ZRemSleeper
<1>5. TakersAgree'
  BY DEF TakersAgree, ZRemSleeper
<1>6. CancelledIsGone'
  BY DEF CancelledIsGone, NoSweep, ZRemSleeper
<1>. QED
  BY <1>1, <1>2, <1>3, <1>4, <1>5, <1>6

(* A page of the sweep: the first entries from where it got to.               *)
LEMMA PageCounts ==
  ASSUME RsTypes
  PROVE  \A T \in SUBSET stream : IsFiniteSet(T) /\ Cardinality(T) \in Nat
<1>1. 1 \in Int /\ MaxEntry \in Int
  BY StreamAssumption
<1>2. IsFiniteSet(1 .. MaxEntry)
  BY ONLY <1>1, FS_Interval
<1>3. stream \subseteq 1 .. MaxEntry
  BY DEF RsTypes, RsTypeOK, Ids
<1>. QED
  BY <1>2, <1>3, FS_Subset, FS_CardinalityType

LEMMA PageIsFirst ==
  ASSUME RsTypes, sweep.from \in Nat, Page = {}
  PROVE  \A i \in stream : i < sweep.from
<1>. SUFFICES ASSUME NEW e \in stream, e >= sweep.from
              PROVE  FALSE
  BY DEF RsTypes, RsTypeOK, Ids
<1>. DEFINE ahead == {i \in stream : i >= sweep.from}
<1>1. ahead \in SUBSET Nat /\ ahead # {}
  <2>1. stream \in SUBSET Nat
    BY StreamAssumption DEF RsTypes, RsTypeOK, Ids
  <2>. QED
    BY <2>1
<1>2. PICK i \in ahead : \A j \in ahead : i <= j
  BY <1>1, LeastNatural
<1>3. {j \in stream : sweep.from <= j /\ j < i} = {}
  BY <1>1, <1>2
<1>4. Cardinality({}) = 0
  BY FS_EmptySet
<1>5. 0 < Batch
  BY StreamAssumption
<1>6. i \in Page
  BY <1>2, <1>3, <1>4, <1>5 DEF Page
<1>. QED
  BY <1>6

LEMMA PageIsDown ==
  ASSUME RsTypes, sweep.from \in Nat, NEW last \in Page, NEW i \in stream, sweep.from <= i, i <= last
  PROVE  i \in Page
<1>0. stream \in SUBSET Nat
  BY StreamAssumption DEF RsTypes, RsTypeOK, Ids
<1>. DEFINE before(k) == {j \in stream : sweep.from <= j /\ j < k}
<1>1. last \in stream /\ Cardinality(before(last)) < Batch
  BY DEF Page
<1>2. before(i) \subseteq before(last)
  <2>1. last \in Nat /\ i \in Nat
    BY <1>0, <1>1
  <2>2. ASSUME NEW j \in Nat, j < i
        PROVE  j < last
    BY <2>1, <2>2
  <2>. QED
    BY <1>0, <2>2
<1>3. /\ IsFiniteSet(before(last))
      /\ Cardinality(before(i)) \in Nat /\ Cardinality(before(last)) \in Nat
  BY PageCounts
<1>4. Cardinality(before(i)) <= Cardinality(before(last))
  BY <1>2, <1>3, FS_Subset
<1>5. Cardinality(before(i)) < Batch
  BY <1>1, <1>3, <1>4, StreamAssumption
<1>. QED
  BY <1>0, <1>5 DEF Page

LEMMA PageHasLast ==
  ASSUME RsTypes, Page # {}
  PROVE  (CHOOSE i \in Page : \A j \in Page : j <= i) \in Page
<1>. DEFINE above == {k \in Nat : \A i \in Page : i <= k}
<1>1. Page \subseteq 1 .. MaxEntry /\ MaxEntry \in Nat /\ MaxEntry \in above
  <2>1. Page \subseteq 1 .. MaxEntry
    BY DEF Page, RsTypes, RsTypeOK, Ids
  <2>. QED
    BY <2>1, StreamAssumption
<1>2. PICK k \in above : \A m \in above : k <= m
  <2>1. above \in SUBSET Nat /\ above # {}
    BY <1>1
  <2>. QED
    BY <2>1, LeastNatural
<1>3. k \in Page
  <2>1. SUFFICES ASSUME k \notin Page
                 PROVE  FALSE
    OBVIOUS
  <2>2. k # 0 /\ k \in Nat
    <3>1. PICK i \in Page : TRUE
      OBVIOUS
    <3>2. i \in 1 .. MaxEntry /\ i <= k /\ k \in Nat
      BY <1>1, <1>2, <3>1
    <3>. QED
      BY <1>1, <3>2
  <2>3. k - 1 \in Nat /\ \A i \in Page : i <= k - 1
    BY <1>1, <1>2, <2>1, <2>2
  <2>. QED
    BY <1>2, <2>3
<1>. QED
  BY <1>2, <1>3

LEMMA SweepsPageKeeps == ASSUME RsInv, SweepsPage PROVE RsInv'
<1>. USE StreamAssumption DEF RsInv
<1>0. /\ sweep # NoSweep /\ sweep \in [of : Flows \cup {Nil}, from : Nat]
      /\ UNCHANGED <<about, tail, group, readTo, pendingOf, silent, sleeping, inHand, scanned,
                     taker, requeued>>
      /\ stream' = stream \ {i \in Page : about[i] = sweep.of}
      /\ owed' = owed \ {i \in Page : about[i] = sweep.of}
      /\ sweep' = IF Page = {} THEN NoSweep
                  ELSE [sweep EXCEPT !.from = 1 + CHOOSE i \in Page : \A j \in Page : j <= i]
  BY DEF SweepsPage, RsTypes
<1>a. stream \in SUBSET Nat /\ sweep.from \in Nat
  BY <1>0 DEF RsTypes, RsTypeOK, Ids
<1>b. Page \subseteq stream /\ \A i \in Page : i >= sweep.from
  BY DEF Page
<1>c. Page = {} => \A i \in stream : i < sweep.from
  BY <1>a, PageIsFirst
<1>d. ASSUME Page # {}
      PROVE  \E last \in Page : /\ \A i \in stream : sweep.from <= i /\ i <= last => i \in Page
                                /\ sweep' = [sweep EXCEPT !.from = 1 + last]
  <2>. DEFINE last == CHOOSE i \in Page : \A j \in Page : j <= i
  <2>1. last \in Page
    BY <1>d, PageHasLast
  <2>2. \A i \in stream : sweep.from <= i /\ i <= last => i \in Page
    BY <1>a, <2>1, PageIsDown
  <2>. QED
    BY <1>0, <1>d, <2>1, <2>2
<1>1. RsTypes'
  <2>1. sweep' \in [of : Flows \cup {Nil}, from : Nat]
    <3>1. CASE Page = {}
      BY <1>0, <3>1 DEF NoSweep
    <3>2. CASE Page # {}
      <4>1. PICK last \in Page : sweep' = [sweep EXCEPT !.from = 1 + last]
        BY <1>d, <3>2
      <4>2. 1 + last \in Nat
        BY <1>a, <1>b
      <4>. QED
        BY <1>0, <4>1, <4>2
    <3>. QED
      BY <3>1, <3>2
  <2>2. sweep'.of \in Flows \cup {Nil}
    BY <2>1
  <2>. QED
    BY <1>0, <2>1, <2>2 DEF RsTypes, RsTypeOK
<1>2. StreamIsAppended'
  BY DEF StreamIsAppended, SweepsPage
<1>3. SweepGoesOn'
  <2>1. CASE Page = {}
    BY <1>0, <2>1 DEF SweepGoesOn
  <2>2. CASE Page # {}
    <3>1. PICK last \in Page :
            /\ \A i \in stream : sweep.from <= i /\ i <= last => i \in Page
            /\ sweep' = [sweep EXCEPT !.from = 1 + last]
      BY <1>d, <2>2
    <3>2. sweep'.of = sweep.of /\ sweep'.from = 1 + last /\ last \in Nat
      BY <1>0, <1>a, <1>b, <3>1
    <3>3. ASSUME NEW i \in owed', about[i] = sweep.of, sweep.of \notin requeued
          PROVE  1 + last <= i
      <4>1. i \in stream /\ i \in Nat /\ sweep.from <= i /\ i \notin Page
        BY <1>0, <1>a, <3>3 DEF SweepGoesOn, OwedIsInStream
      <4>. QED
        BY <3>1, <3>2, <4>1
    <3>. QED
      BY <1>0, <3>2, <3>3 DEF SweepGoesOn
  <2>. QED
    BY <2>1, <2>2
<1>4. OwedIsInStream'
  BY DEF OwedIsInStream, SweepsPage
<1>5. TakersAgree'
  BY DEF TakersAgree, SweepsPage
<1>6. CancelledIsGone'
  <2>1. CASE Page # {}
    <3>1. sweep'.of = sweep.of
      BY <1>0, <1>d, <2>1
    <3>. QED
      BY <1>0, <3>1 DEF CancelledIsGone
  <2>2. CASE Page = {}
    <3>1. sweep.of \notin requeued => sweep.of \notin sleeping /\ \A i \in owed : about[i] # sweep.of
      <4>1. \A i \in owed : i \in stream /\ i \in Nat /\ i < sweep.from
        BY <1>a, <1>c, <2>2 DEF OwedIsInStream
      <4>. QED
        BY <1>0, <1>a, <4>1 DEF SweepGoesOn
    <3>. QED
      BY <1>0, <2>2, <3>1 DEF CancelledIsGone
  <2>. QED
    BY <2>1, <2>2
<1>. QED
  BY <1>1, <1>2, <1>3, <1>4, <1>5, <1>6

LEMMA SweepDiesKeeps == ASSUME RsInv, SweepDies PROVE RsInv'
<1>. USE StreamAssumption DEF RsInv
<1>1. RsTypes'
  BY DEF RsTypes, SweepGoesOn, RsTypeOK, NoSweep, SweepDies
<1>2. StreamIsAppended'
  BY DEF StreamIsAppended, SweepDies
<1>3. SweepGoesOn'
  BY DEF SweepGoesOn, SweepDies
<1>4. OwedIsInStream'
  BY DEF OwedIsInStream, SweepDies
<1>5. TakersAgree'
  BY DEF TakersAgree, SweepDies
<1>6. CancelledIsGone'
  BY DEF CancelledIsGone, SweepDies
<1>. QED
  BY <1>1, <1>2, <1>3, <1>4, <1>5, <1>6

LEMMA TrimKeeps == ASSUME RsInv, Trim PROVE RsInv'
<1>. USE StreamAssumption DEF RsInv
<1>1. RsTypes'
  BY DEF RsTypes, StreamIsAppended, SweepGoesOn, OwedIsInStream, TakersAgree, CancelledIsGone,
     RsTypeOK, Ids, NoSweep, Trim, Trims, Trimmed
<1>2. StreamIsAppended'
  BY DEF StreamIsAppended, Trim, Trims
<1>3. SweepGoesOn'
  BY DEF SweepGoesOn, Trim, Trims
<1>4. OwedIsInStream'
  BY DEF RsTypes, OwedIsInStream, RsTypeOK, Ids, Trim, Trims, Trimmed
<1>5. TakersAgree'
  BY DEF TakersAgree, Trim, Trims
<1>6. CancelledIsGone'
  BY DEF CancelledIsGone, Trim, Trims
<1>. QED
  BY <1>1, <1>2, <1>3, <1>4, <1>5, <1>6

(* The invariant, for any workflows, consumers and bound of the stream.       *)
THEOREM StreamInvariant == RsSpec => []RsInv
<1>1. RsInit => RsInv
  <2>. SUFFICES ASSUME RsInit
                PROVE  RsInv
    OBVIOUS
  <2>1. RsTypes
    <3>1. 0 \in 0 .. MaxEntry
      BY StreamAssumption
    <3>. QED
      BY <3>1 DEF RsInit, NoSweep, RsTypes, RsTypeOK
  <2>2. StreamIsAppended /\ SweepGoesOn
    BY DEF RsInit, StreamIsAppended, SweepGoesOn
  <2>3. OwedIsInStream /\ TakersAgree /\ CancelledIsGone
    BY DEF RsInit, OwedIsInStream, TakersAgree, CancelledIsGone
  <2>. QED
    BY <2>1, <2>2, <2>3 DEF RsInv
<1>2. ASSUME RsInv, [RsNext]_rsVars
      PROVE  RsInv'
  <2>1. CASE RsNext
    BY <1>2, <2>1, PrepareKeeps, TrimKeeps, SweepsPageKeeps, SweepDiesKeeps, XAddKeeps,
       MovesDueKeeps,
       ZRemSleeperKeeps, XReadGroupKeeps, XAutoClaimKeeps, HoldKeeps, XAckKeeps, SuspendAtKeeps,
       LetsFallKeeps, GrowsIdleKeeps DEF RsNext
  <2>2. CASE UNCHANGED rsVars
    BY <1>2, <2>2 DEF rsVars, RsInv, RsTypes, RsTypeOK, StreamIsAppended, SweepGoesOn,
       OwedIsInStream,
       TakersAgree, CancelledIsGone
  <2>. QED
    BY <1>2, <2>1, <2>2
<1>. QED
  BY <1>1, <1>2, PTL DEF RsSpec

(* What is owed stays in the stream, pending or asleep, over takeovers and    *)
(* trims; a cancelled workflow keeps nothing behind its sweep.                *)
THEOREM OwedStays == RsSpec => []OwedIsKept
<1>1. RsInv => OwedIsKept
  BY DEF RsInv, OwedIsKept, OwedIsInStream, TakersAgree, CancelledIsGone, Pending
<1>. QED
  BY StreamInvariant, <1>1, PTL

-----------------------------------------------------------------------------
(* Redis: any tasks, fields and durations at the checkpoints of one workflow. *)

FieldRecords == [name : Fields \cup Nat, position : Nat, by : Nat]
PassHashes ==
    [token : Nat, until : Nat, alive : Nat, span : Nat, gone : Nat, owner : Passers \cup {NoPasser}]
StepsHashes == [fields : SUBSET FieldRecords, gone : Nat]
RcTypes ==
    /\ rcClock \in Nat /\ rcClock > 0
    /\ passHash \in PassHashes
    /\ stepsHash \in StepsHashes
    /\ rcHeld \in [Passers -> Nat]
    /\ lastFenced \in [Passers -> Nat]
    /\ lastWritten \in Nat
    /\ minted \in 0 .. MaxMinted

(* Every token a Pass or a record has is below the next one: below the        *)
(* fence's, while it is there, and below the clock when it has expired.       *)
Below(tok) == IF passHash.token > 0 THEN tok <= passHash.token ELSE tok < rcClock
TokensAreOld ==
    /\ \A p \in Passers : Below(rcHeld[p])
    /\ \A f \in stepsHash.fields : Below(f.by)
OwnerHasTheToken ==
    passHash.token > 0 => \A p \in Passers : rcHeld[p] = passHash.token => passHash.owner = p

(* The fence outlasts its token, which is ahead of the clock by no more than  *)
(* what was minted, and those it let through.                                 *)
FenceOutlasts ==
    /\ passHash.gone <= rcClock + Ttl
    /\ passHash.token > 0 =>
         /\ passHash.token + Ttl < passHash.gone + minted
         /\ \A p \in Passers : rcHeld[p] > 0 => lastFenced[p] + Ttl <= passHash.gone
    /\ passHash.token = 0 =>
         \A p \in Passers : rcHeld[p] > 0 => lastFenced[p] + Ttl <= rcClock

(* Records are numbered without gaps, in the order of the tokens.             *)
InPlace(S) ==
    /\ IsFiniteSet(S)
    /\ \A f \in S : f.position < Cardinality(S)
    /\ \A f, g \in S : f.name = g.name <=> f.position = g.position
    /\ \A f \in S : f.name \notin Fields => f.name = f.position
InOrder(S) ==
    \A f, g \in S : f.position < g.position /\ f.by > 0 /\ g.by > 0 => f.by <= g.by
FieldsInPlace == InPlace(stepsHash.fields) /\ InOrder(stepsHash.fields)
RecordsOutlast == stepsHash.fields # {} => stepsHash.gone >= lastWritten + Ttl
ClaimEnds == passHash.alive <= passHash.until

RcInv ==
    /\ RcTypes /\ TokensAreOld /\ OwnerHasTheToken /\ FenceOutlasts
    /\ FieldsInPlace /\ RecordsOutlast /\ ClaimEnds

LEMMA MinMax ==
  ASSUME NEW i \in Nat, NEW j \in Nat
  PROVE  /\ Min({i, j}) = (IF i <= j THEN i ELSE j)
         /\ Max({i, j}) = (IF i >= j THEN i ELSE j)
  BY DEF Min, Max

(* A record is filed behind those there are.                                  *)
LEMMA FiledBehind ==
  ASSUME RedisAssumption, NEW S \in SUBSET FieldRecords, InPlace(S), InOrder(S),
         NEW name \in Fields \cup Nat, NEW by \in Nat, \A f \in S : f.name # name,
         name \in Nat => name = Cardinality(S),
         by > 0 => \A f \in S : f.by <= by
  PROVE  LET row == [name |-> name, position |-> Cardinality(S), by |-> by]
             T == S \cup {row}
         IN  row.by = by /\ T \in SUBSET FieldRecords /\ InPlace(T) /\ InOrder(T)
<1>. DEFINE row == [name |-> name, position |-> Cardinality(S), by |-> by]
            T == S \cup {row}
<1>1. IsFiniteSet(S) /\ Cardinality(S) \in Nat
  BY FS_CardinalityType DEF InPlace
<1>2. row \in FieldRecords /\ row.name = name /\ row.position = Cardinality(S) /\ row.by = by
  BY <1>1 DEF FieldRecords
<1>. HIDE DEF row
<1>3. \A f \in S : f \in FieldRecords /\ f.position < row.position /\ f.name # row.name
  BY <1>2 DEF InPlace
<1>4. row \notin S
  BY <1>1, <1>2, <1>3 DEF FieldRecords
<1>5. IsFiniteSet(T) /\ Cardinality(T) = Cardinality(S) + 1
  BY <1>1, <1>4, FS_AddElement
<1>6. \A f \in T : f.position < Cardinality(T)
  BY <1>1, <1>2, <1>3, <1>5 DEF FieldRecords
<1>7. \A f, g \in T : f.name = g.name <=> f.position = g.position
  BY <1>1, <1>2, <1>3 DEF InPlace, FieldRecords
<1>8. \A f \in T : f.name \notin Fields => f.name = f.position
  BY <1>2, <1>3 DEF InPlace
<1>9. InOrder(T)
  BY <1>1, <1>2, <1>3 DEF InOrder, FieldRecords
<1>. QED
  BY <1>2, <1>5, <1>6, <1>7, <1>8, <1>9 DEF InPlace, row

(* What a task writes it signs with the fence's token, where there is one.    *)
LEMMA Signs ==
  ASSUME RcInv, NEW p \in Passers, RcFits(p)
  PROVE  /\ By(p) \in Nat /\ Below(By(p))
         /\ By(p) > 0 => \A f \in stepsHash.fields : f.by <= By(p)
<1>1. rcHeld[p] \in Nat /\ passHash.token \in Nat /\ rcClock > 0 /\ rcClock \in Nat
  BY DEF RcInv, RcTypes, PassHashes
<1>2. Below(rcHeld[p]) /\ \A f \in stepsHash.fields : Below(f.by)
  BY DEF RcInv, TokensAreOld
<1>3. passHash.token > 0 => rcHeld[p] = passHash.token
  BY <1>1, <1>2 DEF Below, RcFits
<1>. QED
  BY <1>1, <1>2, <1>3 DEF By, Below

LEMMA FilesKeep ==
  ASSUME RcInv, NEW name \in Fields, NEW by \in Nat, Below(by),
         by > 0 => \A f \in stepsHash.fields : f.by <= by,
         stepsHash' = Filed(name, by)
  PROVE  /\ stepsHash' \in StepsHashes /\ stepsHash'.gone = rcClock + Ttl
         /\ InPlace(stepsHash'.fields) /\ InOrder(stepsHash'.fields)
         /\ \A f \in stepsHash'.fields : f \in stepsHash.fields \/ Below(f.by)
<1>. DEFINE S == stepsHash.fields
            T == S \cup {[name |-> name, position |-> Cardinality(S), by |-> by]}
<1>1. S \in SUBSET FieldRecords /\ InPlace(S) /\ InOrder(S) /\ rcClock + Ttl \in Nat
  BY RedisAssumption DEF RcInv, RcTypes, StepsHashes, FieldsInPlace
<1>2. stepsHash' = [fields |-> IF name \in Names THEN S ELSE T, gone |-> rcClock + Ttl]
  BY DEF Filed
<1>3. name \notin Nat
  BY RedisAssumption
<1>4. CASE name \in Names
  BY <1>1, <1>2, <1>4 DEF StepsHashes
<1>5. CASE name \notin Names
  <2>1. \A f \in S : f.name # name
    BY <1>5 DEF Names
  <2>2. T \in SUBSET FieldRecords /\ InPlace(T) /\ InOrder(T)
    BY <1>1, <1>3, <2>1, RedisAssumption, FiledBehind
  <2>3. \A f \in T : f \in S \/ f.by = by
    OBVIOUS
  <2>. HIDE DEF S, T
  <2>4. stepsHash'.fields = T /\ stepsHash'.gone = rcClock + Ttl /\ stepsHash' \in StepsHashes
    BY <1>1, <1>2, <1>5, <2>2 DEF StepsHashes
  <2>. QED
    BY <2>2, <2>3, <2>4 DEF S
<1>. QED
  BY <1>4, <1>5

(* A step that leaves the fence's token alone.                                *)
LEMMA TokenKept ==
  ASSUME RcInv, UNCHANGED <<rcClock, minted>>,
         passHash' \in PassHashes, passHash'.token = passHash.token, passHash'.owner = passHash.owner,
         passHash'.alive <= passHash'.until, passHash'.gone \in {passHash.gone, rcClock + Ttl},
         rcHeld' \in [Passers -> Nat], \A p \in Passers : rcHeld'[p] \in {rcHeld[p], 0},
         lastFenced' \in [Passers -> Nat],
         \A p \in Passers : \/ lastFenced'[p] = lastFenced[p]
                            \/ lastFenced'[p] = rcClock /\ passHash.token > 0
                                 /\ passHash'.gone = rcClock + Ttl,
         stepsHash' \in StepsHashes, InPlace(stepsHash'.fields), InOrder(stepsHash'.fields),
         \A f \in stepsHash'.fields : f \in stepsHash.fields \/ Below(f.by),
         lastWritten' \in Nat, RecordsOutlast'
  PROVE  RcInv'
<1>1. /\ passHash.token \in Nat /\ passHash.gone \in Nat /\ rcClock \in Nat /\ minted \in Nat
      /\ rcClock > 0 /\ Ttl \in Nat /\ rcHeld \in [Passers -> Nat] /\ lastFenced \in [Passers -> Nat]
  BY RedisAssumption DEF RcInv, RcTypes, PassHashes
<1>2. RcTypes'
  BY DEF RcInv, RcTypes
<1>3. TokensAreOld'
  BY <1>1 DEF RcInv, TokensAreOld, Below
<1>4. OwnerHasTheToken'
  BY <1>1 DEF RcInv, OwnerHasTheToken
<1>5. FenceOutlasts'
  <2>1. passHash'.gone \in Nat /\ passHash.gone <= passHash'.gone /\ passHash'.gone <= rcClock + Ttl
    BY <1>1 DEF RcInv, FenceOutlasts
  <2>2. ASSUME passHash.token > 0, NEW p \in Passers, rcHeld'[p] > 0
        PROVE  lastFenced'[p] + Ttl <= passHash'.gone
    <3>1. lastFenced[p] + Ttl <= passHash.gone
      BY <1>1, <2>2 DEF RcInv, FenceOutlasts
    <3>. QED
      BY <1>1, <2>1, <3>1
  <2>3. passHash.token > 0 => passHash.token + Ttl < passHash'.gone + minted
    BY <1>1, <2>1 DEF RcInv, FenceOutlasts
  <2>4. ASSUME passHash.token = 0, NEW p \in Passers, rcHeld'[p] > 0
        PROVE  lastFenced'[p] + Ttl <= rcClock
    BY <1>1, <2>4 DEF RcInv, FenceOutlasts
  <2>. QED
    BY <2>1, <2>2, <2>3, <2>4 DEF FenceOutlasts
<1>6. FieldsInPlace' /\ ClaimEnds'
  BY DEF FieldsInPlace, ClaimEnds
<1>. QED
  BY <1>2, <1>3, <1>4, <1>5, <1>6 DEF RcInv

(* What the steps of one task leave as it was.                                *)
LEMMA Untouched ==
  ASSUME RcInv
  PROVE  /\ rcClock \in Nat /\ rcClock > 0 /\ Ttl \in Nat /\ Budget \in Nat /\ Window \in Nat
         /\ passHash.token \in Nat /\ passHash.until \in Nat /\ passHash.alive \in Nat
         /\ passHash.span \in Nat /\ passHash.gone \in Nat
         /\ passHash.owner \in Passers \cup {NoPasser} /\ passHash.alive <= passHash.until
         /\ rcHeld \in [Passers -> Nat] /\ lastFenced \in [Passers -> Nat] /\ lastWritten \in Nat
         /\ stepsHash \in StepsHashes /\ InPlace(stepsHash.fields) /\ InOrder(stepsHash.fields)
         /\ RecordsOutlast /\ minted \in 0 .. MaxMinted
  BY RedisAssumption DEF RcInv, RcTypes, PassHashes, FieldsInPlace, ClaimEnds

(* A script that passed the fence, arms it and files nothing.                 *)
LEMMA HeardKeeps ==
  ASSUME RcInv, NEW p \in Passers, Heard(p),
         UNCHANGED <<rcClock, minted, stepsHash, rcHeld, lastWritten>>,
         NEW ends \in Nat, NEW alive \in Nat, NEW span \in Nat, alive <= ends,
         passHash' = [passHash EXCEPT !.until = ends, !.alive = alive, !.span = span,
                                      !.gone = rcClock + Ttl]
  PROVE  RcInv'
<1>1. passHash \in PassHashes
  BY DEF RcInv, RcTypes
<1>2. /\ passHash' \in PassHashes /\ passHash'.token = passHash.token
      /\ passHash'.owner = passHash.owner /\ passHash'.alive <= passHash'.until
      /\ passHash'.gone = rcClock + Ttl
  <2>1. passHash' = [token |-> passHash.token, until |-> ends, alive |-> alive, span |-> span,
                     gone |-> rcClock + Ttl, owner |-> passHash.owner]
    BY <1>1 DEF PassHashes
  <2>2. /\ passHash.token \in Nat /\ rcClock + Ttl \in Nat
        /\ passHash.owner \in Passers \cup {NoPasser}
    BY Untouched
  <2>3. passHash' \in PassHashes
    BY <2>1, <2>2 DEF PassHashes
  <2>. QED
    BY <2>1, <2>3
<1>3. /\ lastFenced' \in [Passers -> Nat]
      /\ \A q \in Passers : \/ lastFenced'[q] = lastFenced[q]
                            \/ lastFenced'[q] = rcClock /\ passHash.token > 0
  BY Untouched DEF Heard
<1>4. RecordsOutlast'
  BY Untouched DEF RecordsOutlast
<1>. QED
  BY <1>2, <1>3, <1>4, Untouched, TokenKept

LEMMA ExtendKeeps == ASSUME RcInv, NEW p \in Passers, ExtendScript(p) PROVE RcInv'
<1>. DEFINE ends == Max({passHash.until, rcClock + Budget})
            alive == Min({rcClock + Window, ends})
<1>1. ends \in Nat /\ alive \in Nat /\ alive <= ends
  <2>1. ends \in Nat
    <3>1. passHash.until \in Nat /\ rcClock + Budget \in Nat
      BY Untouched
    <3>. QED
      BY <3>1, MinMax
  <2>. HIDE DEF ends
  <2>. QED
    BY <2>1, Untouched, MinMax
<1>2. passHash' = Armed([passHash EXCEPT !.until = ends, !.span = Window, !.alive = alive])
  BY DEF ExtendScript
<1>3. Heard(p) /\ UNCHANGED <<rcClock, minted, stepsHash, rcHeld, lastWritten>>
  BY DEF ExtendScript
<1>. HIDE DEF ends, alive
<1>4. passHash' = [passHash EXCEPT !.until = ends, !.alive = alive, !.span = Window,
                                   !.gone = rcClock + Ttl]
  BY <1>2 DEF Armed
<1>. QED
  BY <1>1, <1>3, <1>4, Untouched, HeardKeeps

LEMMA RenewKeeps == ASSUME RcInv, NEW p \in Passers, RenewScript(p) PROVE RcInv'
<1>. DEFINE alive == HeardNow(passHash, Window)
<1>1. alive \in Nat /\ alive <= passHash.until
  BY Untouched, MinMax DEF HeardNow
<1>2. passHash' = Armed([passHash EXCEPT !.span = Window, !.alive = alive])
  BY DEF RenewScript
<1>3. Heard(p) /\ UNCHANGED <<rcClock, minted, stepsHash, rcHeld, lastWritten>>
  BY DEF RenewScript
<1>. HIDE DEF alive
<1>4. passHash \in PassHashes
  BY DEF RcInv, RcTypes
<1>5. passHash' = [passHash EXCEPT !.until = passHash.until, !.alive = alive, !.span = Window,
                                   !.gone = rcClock + Ttl]
  BY <1>2, <1>4 DEF Armed, PassHashes
<1>. QED
  BY <1>1, <1>3, <1>5, Untouched, HeardKeeps

LEMMA ReleaseKeeps == ASSUME RcInv, NEW p \in Passers, ReleaseScript(p) PROVE RcInv'
<1>1. passHash \in PassHashes /\ passHash' = [passHash EXCEPT !.until = 0, !.alive = 0]
  BY DEF RcInv, RcTypes, ReleaseScript
<1>2. /\ passHash' \in PassHashes /\ passHash'.token = passHash.token
      /\ passHash'.owner = passHash.owner /\ passHash'.alive <= passHash'.until
      /\ passHash'.gone = passHash.gone
  <2>1. passHash' = [token |-> passHash.token, until |-> 0, alive |-> 0, span |-> passHash.span,
                     gone |-> passHash.gone, owner |-> passHash.owner]
    BY <1>1 DEF PassHashes
  <2>2. /\ passHash.token \in Nat /\ passHash.span \in Nat /\ passHash.gone \in Nat
        /\ passHash.owner \in Passers \cup {NoPasser}
    BY Untouched
  <2>3. passHash' \in PassHashes
    BY <2>1, <2>2 DEF PassHashes
  <2>. QED
    BY <2>1, <2>3
<1>3. UNCHANGED <<rcClock, minted, stepsHash, rcHeld, lastWritten, lastFenced>>
  BY DEF ReleaseScript
<1>4. RecordsOutlast'
  BY <1>3, Untouched DEF RecordsOutlast
<1>. QED
  BY <1>2, <1>3, <1>4, Untouched, TokenKept

LEMMA ForgetsKeeps == ASSUME RcInv, NEW p \in Passers, ForgetsPass(p) PROVE RcInv'
<1>1. UNCHANGED <<rcClock, minted, stepsHash, passHash, lastWritten, lastFenced>>
  BY DEF ForgetsPass
<1>2. rcHeld' \in [Passers -> Nat] /\ \A q \in Passers : rcHeld'[q] \in {rcHeld[q], 0}
  BY Untouched DEF ForgetsPass
<1>3. RecordsOutlast' /\ passHash \in PassHashes
  BY <1>1, Untouched DEF RecordsOutlast, RcInv, RcTypes
<1>. QED
  BY <1>1, <1>2, <1>3, Untouched, TokenKept

(* A script that files a record under its fence.                              *)
LEMMA FiledKeeps ==
  ASSUME RcInv, NEW p \in Passers, RcFits(p), NEW name \in Fields, Heard(p),
         stepsHash' = Filed(name, By(p)), lastWritten' = rcClock,
         passHash' \in {Armed(passHash), Signed}, UNCHANGED <<rcClock, minted, rcHeld>>
  PROVE  RcInv'
<1>. DEFINE alive == HeardNow(passHash, passHash.span)
<1>1. alive \in Nat /\ alive <= passHash.until /\ passHash \in PassHashes
  BY Untouched, MinMax DEF HeardNow, RcInv, RcTypes
<1>2. passHash' \in {Armed(passHash), Armed([passHash EXCEPT !.alive = alive])}
  BY DEF Signed
<1>. HIDE DEF alive
<1>3. /\ passHash' \in PassHashes /\ passHash'.token = passHash.token
      /\ passHash'.owner = passHash.owner /\ passHash'.alive <= passHash'.until
      /\ passHash'.gone = rcClock + Ttl
  <2>1. PICK soon \in {passHash.alive, alive} :
          passHash' = [token |-> passHash.token, until |-> passHash.until, alive |-> soon,
                       span |-> passHash.span, gone |-> rcClock + Ttl, owner |-> passHash.owner]
    BY <1>1, <1>2 DEF PassHashes, Armed
  <2>2. /\ passHash.token \in Nat /\ rcClock + Ttl \in Nat /\ passHash.until \in Nat
        /\ passHash.span \in Nat /\ passHash.owner \in Passers \cup {NoPasser}
        /\ soon \in Nat /\ soon <= passHash.until
    BY <1>1, Untouched
  <2>3. passHash' \in PassHashes
    BY <2>1, <2>2 DEF PassHashes
  <2>. QED
    BY <2>1, <2>2, <2>3
<1>4. /\ lastFenced' \in [Passers -> Nat]
      /\ \A q \in Passers : \/ lastFenced'[q] = lastFenced[q]
                            \/ lastFenced'[q] = rcClock /\ passHash.token > 0
  BY Untouched DEF Heard
<1>5. /\ stepsHash' \in StepsHashes /\ stepsHash'.gone = rcClock + Ttl
      /\ InPlace(stepsHash'.fields) /\ InOrder(stepsHash'.fields)
      /\ \A f \in stepsHash'.fields : f \in stepsHash.fields \/ Below(f.by)
  BY Signs, FilesKeep
<1>6. RecordsOutlast' /\ lastWritten' \in Nat
  BY <1>5, Untouched DEF RecordsOutlast
<1>. QED
  BY <1>3, <1>4, <1>5, <1>6, Untouched, TokenKept

LEMMA RecordScriptKeeps ==
  ASSUME RcInv, NEW p \in Passers, NEW name \in Fields, RecordScript(p, name) PROVE RcInv'
<1>1. /\ RcFits(p) /\ Heard(p) /\ stepsHash' = Filed(name, By(p)) /\ lastWritten' = rcClock
      /\ passHash' = Signed /\ UNCHANGED <<rcClock, minted, rcHeld>>
  BY DEF RecordScript
<1>. QED
  BY <1>1, FiledKeeps

LEMMA TransactScriptKeeps ==
  ASSUME RcInv, NEW p \in Passers, NEW name \in Fields, TransactScript(p, name) PROVE RcInv'
<1>1. /\ RcFits(p) /\ Heard(p) /\ stepsHash' = Filed(name, By(p)) /\ lastWritten' = rcClock
      /\ passHash' \in {Armed(passHash), Signed} /\ UNCHANGED <<rcClock, minted, rcHeld>>
  BY DEF TransactScript
<1>. QED
  BY <1>1, FiledKeeps

LEMMA TransactRaisesKeeps ==
  ASSUME RcInv, NEW p \in Passers, NEW name \in Fields, TransactRaises(p, name) PROVE RcInv'
<1>1. UNCHANGED <<rcClock, minted, stepsHash, passHash, rcHeld, lastWritten, lastFenced>>
  BY DEF TransactRaises
<1>2. RecordsOutlast' /\ passHash \in PassHashes
  BY <1>1, Untouched DEF RecordsOutlast, RcInv, RcTypes
<1>. QED
  BY <1>1, <1>2, Untouched, TokenKept

LEMMA SupplyKeeps ==
  ASSUME RcInv, NEW name \in Fields, SupplyScript(name) PROVE RcInv'
<1>1. /\ UNCHANGED <<rcClock, minted, passHash, rcHeld, lastFenced>>
      /\ stepsHash' = Filed(name, 0) /\ lastWritten' = rcClock
  BY DEF SupplyScript
<1>2. Below(0)
  BY Untouched DEF Below
<1>3. /\ stepsHash' \in StepsHashes /\ stepsHash'.gone = rcClock + Ttl
      /\ InPlace(stepsHash'.fields) /\ InOrder(stepsHash'.fields)
      /\ \A f \in stepsHash'.fields : f \in stepsHash.fields \/ Below(f.by)
  BY <1>1, <1>2, FilesKeep
<1>4. RecordsOutlast' /\ passHash \in PassHashes /\ lastWritten' \in Nat
  BY <1>1, <1>3, Untouched DEF RecordsOutlast, RcInv, RcTypes
<1>. QED
  BY <1>1, <1>3, <1>4, Untouched, TokenKept

LEMMA AppendKeeps == ASSUME RcInv, AppendScript PROVE RcInv'
<1>. DEFINE S == stepsHash.fields
            name == Cardinality(S)
            T == S \cup {[name |-> name, position |-> name, by |-> 0]}
<1>1. /\ UNCHANGED <<rcClock, minted, passHash, rcHeld, lastFenced>> /\ lastWritten' = rcClock
      /\ stepsHash' = [fields |-> T, gone |-> rcClock + Ttl]
  BY DEF AppendScript
<1>2. /\ S \in SUBSET FieldRecords /\ InPlace(S) /\ InOrder(S) /\ rcClock + Ttl \in Nat
      /\ name \in Nat
  <2>1. S \in SUBSET FieldRecords /\ InPlace(S) /\ InOrder(S) /\ rcClock + Ttl \in Nat
    BY Untouched DEF StepsHashes
  <2>2. IsFiniteSet(S)
    BY <2>1 DEF InPlace
  <2>. HIDE DEF S
  <2>. QED
    BY <2>1, <2>2, FS_CardinalityType
<1>3. \A f \in S : f.name # name
  <2>1. SUFFICES ASSUME NEW f \in S, f.name = name
                 PROVE  FALSE
    OBVIOUS
  <2>2. f.name \notin Fields /\ f.position < name /\ f.position \in Nat
    BY <1>2, <2>1, RedisAssumption DEF InPlace, FieldRecords
  <2>3. f.name = f.position
    BY <1>2, <2>1, <2>2 DEF InPlace
  <2>. QED
    BY <1>2, <2>1, <2>2, <2>3
<1>4. T \in SUBSET FieldRecords /\ InPlace(T) /\ InOrder(T)
  <2>. HIDE DEF S, name
  <2>1. name \in Fields \cup Nat /\ 0 \in Nat /\ ~(0 > 0) /\ RedisAssumption
    BY <1>2, RedisAssumption DEF RedisAssumption
  <2>2. name = Cardinality(S)
    BY DEF name
  <2>. QED
    BY ONLY <1>2, <1>3, <2>1, <2>2, FiledBehind
<1>5. Below(0)
  BY Untouched DEF Below
<1>6. \A f \in T : f \in S \/ f.by = 0
  OBVIOUS
<1>. HIDE DEF T
<1>7. /\ stepsHash' \in StepsHashes /\ stepsHash'.gone = rcClock + Ttl
      /\ InPlace(stepsHash'.fields) /\ InOrder(stepsHash'.fields)
      /\ \A f \in stepsHash'.fields : f \in stepsHash.fields \/ Below(f.by)
  BY <1>1, <1>2, <1>4, <1>5, <1>6 DEF StepsHashes
<1>8. RecordsOutlast' /\ passHash \in PassHashes /\ lastWritten' \in Nat
  BY <1>1, <1>7, Untouched DEF RecordsOutlast, RcInv, RcTypes
<1>. QED
  BY <1>1, <1>7, <1>8, Untouched, TokenKept

(* The hash of the records as it is or gone.                                  *)
LEMMA StepsKept ==
  ASSUME RcInv, stepsHash' \in {stepsHash, NoSteps}, lastWritten' = lastWritten
  PROVE  /\ stepsHash' \in StepsHashes /\ stepsHash'.fields \subseteq stepsHash.fields
         /\ FieldsInPlace' /\ RecordsOutlast' /\ lastWritten' \in Nat
<1>1. CASE stepsHash' = stepsHash
  BY <1>1, Untouched DEF FieldsInPlace, RecordsOutlast
<1>2. CASE stepsHash' = NoSteps
  <2>1. InPlace({}) /\ InOrder({})
    BY FS_EmptySet DEF InPlace, InOrder
  <2>2. stepsHash' = [fields |-> {}, gone |-> 0]
    BY <1>2 DEF NoSteps
  <2>. QED
    BY <2>1, <2>2, Untouched DEF FieldsInPlace, RecordsOutlast, StepsHashes
<1>. QED
  BY <1>1, <1>2

(* A token is minted above every token there was, and above the clock.        *)
LEMMA Mints ==
  ASSUME RcInv
  PROVE  LET token == Minted(passHash.token)
         IN  /\ token \in Nat /\ token > 0 /\ token <= rcClock + minted
             /\ \A tok \in Nat : Below(tok) => tok < token
<1>. DEFINE token == Minted(passHash.token)
<1>1. token = IF rcClock >= passHash.token + 1 THEN rcClock ELSE passHash.token + 1
  <2>1. rcClock \in Nat /\ passHash.token + 1 \in Nat
    BY Untouched
  <2>. QED
    BY <2>1, MinMax DEF Minted
<1>. HIDE DEF token
<1>2. passHash.token > 0 => passHash.token + Ttl < passHash.gone + minted
  BY DEF RcInv, FenceOutlasts
<1>3. passHash.gone <= rcClock + Ttl
  BY DEF RcInv, FenceOutlasts
<1>4. token <= rcClock + minted
  BY <1>1, <1>2, <1>3, Untouched, RedisAssumption
<1>5. \A tok \in Nat : Below(tok) => tok < token
  BY <1>1, Untouched DEF Below
<1>. QED
  BY <1>1, <1>4, <1>5, Untouched DEF token

LEMMA NewFence ==
  ASSUME RcInv, minted < MaxMinted, minted' = minted + 1, rcClock' = rcClock,
         NEW owner \in Passers \cup {NoPasser},
         passHash' \in PassHashes, passHash'.token = Minted(passHash.token),
         passHash'.owner = owner, passHash'.alive <= passHash'.until,
         passHash'.gone = rcClock + Ttl,
         rcHeld' \in [Passers -> Nat], lastFenced' \in [Passers -> Nat],
         \A q \in Passers :
           \/ rcHeld'[q] = rcHeld[q] /\ lastFenced'[q] = lastFenced[q]
           \/ q = owner /\ rcHeld'[q] = passHash'.token /\ lastFenced'[q] = rcClock,
         stepsHash' \in {stepsHash, NoSteps}, lastWritten' = lastWritten
  PROVE  RcInv'
<1>. DEFINE token == passHash'.token
<1>1. /\ token \in Nat /\ token > 0 /\ token <= rcClock + minted
      /\ \A tok \in Nat : Below(tok) => tok < token
  BY Mints
<1>2. /\ rcClock \in Nat /\ rcClock > 0 /\ Ttl \in Nat /\ rcHeld \in [Passers -> Nat]
      /\ minted \in 0 .. MaxMinted /\ MaxMinted \in Nat /\ lastFenced \in [Passers -> Nat]
      /\ passHash.gone \in Nat
  BY Untouched, RedisAssumption
<1>3. /\ stepsHash' \in StepsHashes /\ stepsHash'.fields \subseteq stepsHash.fields
      /\ FieldsInPlace' /\ RecordsOutlast' /\ lastWritten' \in Nat
  BY StepsKept
<1>4. RcTypes'
  BY <1>2, <1>3 DEF RcTypes
<1>5. /\ \A q \in Passers : rcHeld[q] < token
      /\ \A f \in stepsHash.fields : f.by < token
  <2>1. /\ \A q \in Passers : rcHeld[q] \in Nat /\ Below(rcHeld[q])
        /\ \A f \in stepsHash.fields : f.by \in Nat /\ Below(f.by)
    BY <1>2, Untouched DEF RcInv, TokensAreOld, StepsHashes, FieldRecords
  <2>. QED
    BY ONLY <1>1, <2>1
<1>6. TokensAreOld'
  <2>1. \A tok \in Nat : tok <= token => (passHash'.token > 0 => tok <= passHash'.token)
    OBVIOUS
  <2>2. \A f \in stepsHash.fields : f.by \in Nat
    BY Untouched DEF StepsHashes, FieldRecords
  <2>3. \A q \in Passers : rcHeld'[q] <= token
    BY <1>1, <1>2, <1>5
  <2>4. \A f \in stepsHash'.fields : f.by <= token
    BY <1>1, <1>3, <1>5, <2>2
  <2>. QED
    BY <1>1, <2>3, <2>4 DEF TokensAreOld, Below
<1>7. OwnerHasTheToken'
  BY <1>1, <1>2, <1>5 DEF OwnerHasTheToken
<1>8. FenceOutlasts'
  <2>1. token + Ttl < passHash'.gone + minted'
    BY <1>1, <1>2
  <2>2. ASSUME NEW q \in Passers, rcHeld'[q] > 0
        PROVE  lastFenced'[q] + Ttl <= passHash'.gone
    <3>1. rcHeld[q] > 0 => lastFenced[q] + Ttl <= rcClock + Ttl
      <4>1. passHash.gone <= rcClock + Ttl /\ passHash.token \in Nat
        BY Untouched DEF RcInv, FenceOutlasts
      <4>2. rcHeld[q] > 0 => \/ lastFenced[q] + Ttl <= passHash.gone
                             \/ lastFenced[q] + Ttl <= rcClock
        BY <4>1 DEF RcInv, FenceOutlasts
      <4>. QED
        BY <1>2, <4>1, <4>2
    <3>. QED
      BY <1>2, <2>2, <3>1
  <2>. QED
    BY <1>1, <1>2, <2>1, <2>2 DEF FenceOutlasts
<1>. QED
  BY <1>3, <1>4, <1>6, <1>7, <1>8 DEF RcInv, ClaimEnds

LEMMA ClaimScriptKeeps == ASSUME RcInv, NEW p \in Passers, ClaimScript(p) PROVE RcInv'
<1>. DEFINE token == Minted(passHash.token)
            ends == rcClock + Budget
            alive == Min({rcClock + Window, ends})
<1>1. ends \in Nat /\ alive \in Nat /\ alive <= ends
  <2>1. ends \in Nat /\ rcClock + Window \in Nat
    BY Untouched
  <2>. HIDE DEF ends
  <2>. QED
    BY <2>1, MinMax
<1>2. token \in Nat
  BY Mints
<1>3. /\ passHash' = Armed([passHash EXCEPT !.token = token, !.until = ends, !.span = Window,
                                            !.alive = alive, !.owner = p])
      /\ rcHeld' = [rcHeld EXCEPT ![p] = token]
  BY DEF ClaimScript
<1>4. /\ minted < MaxMinted /\ minted' = minted + 1 /\ rcClock' = rcClock
      /\ lastFenced' = [lastFenced EXCEPT ![p] = rcClock]
      /\ stepsHash' \in {stepsHash, NoSteps} /\ lastWritten' = lastWritten
  BY DEF ClaimScript
<1>. HIDE DEF ends, alive
<1>5. passHash' = [token |-> token, until |-> ends, alive |-> alive, span |-> Window,
                   gone |-> rcClock + Ttl, owner |-> p]
  <2>1. passHash \in PassHashes
    BY DEF RcInv, RcTypes
  <2>. HIDE DEF token
  <2>. QED
    BY <1>3, <2>1 DEF Armed, PassHashes
<1>6. Window \in Nat /\ rcClock + Ttl \in Nat /\ rcClock \in Nat
  BY Untouched
<1>7. passHash' \in PassHashes
  <2>. HIDE DEF token
  <2>. QED
    BY <1>1, <1>2, <1>5, <1>6 DEF PassHashes
<1>8. /\ passHash'.token = token /\ passHash'.owner = p /\ passHash'.alive <= passHash'.until
      /\ passHash'.gone = rcClock + Ttl
  <2>. HIDE DEF token
  <2>. QED
    BY <1>1, <1>5
<1>9. /\ rcHeld' \in [Passers -> Nat] /\ lastFenced' \in [Passers -> Nat]
      /\ \A q \in Passers :
           \/ rcHeld'[q] = rcHeld[q] /\ lastFenced'[q] = lastFenced[q]
           \/ q = p /\ rcHeld'[q] = passHash'.token /\ lastFenced'[q] = rcClock
  <2>. HIDE DEF token
  <2>. QED
    BY <1>2, <1>3, <1>4, <1>6, <1>8, Untouched
<1>. QED
  BY <1>4, <1>7, <1>8, <1>9, NewFence

LEMMA DiscardScriptKeeps == ASSUME RcInv, DiscardScript PROVE RcInv'
<1>. DEFINE token == Minted(passHash.token)
<1>1. /\ minted < MaxMinted /\ stepsHash' = NoSteps
      /\ UNCHANGED <<rcClock, rcHeld, lastFenced, lastWritten>>
  BY DEF DiscardScript
<1>2. CASE passHash.token > 0
  <2>1. /\ passHash' = Armed([passHash EXCEPT !.token = token, !.until = 0, !.alive = 0,
                                              !.owner = NoPasser])
        /\ minted' = minted + 1
    BY <1>2 DEF DiscardScript
  <2>2. token \in Nat /\ rcClock + Ttl \in Nat /\ passHash.span \in Nat
    BY Mints, Untouched
  <2>3. passHash' = [token |-> token, until |-> 0, alive |-> 0, span |-> passHash.span,
                     gone |-> rcClock + Ttl, owner |-> NoPasser]
    <3>1. passHash \in PassHashes
      BY DEF RcInv, RcTypes
    <3>. HIDE DEF token
    <3>. QED
      BY <2>1, <3>1 DEF Armed, PassHashes
  <2>4. /\ passHash' \in PassHashes /\ passHash'.token = token /\ passHash'.owner = NoPasser
        /\ passHash'.alive <= passHash'.until /\ passHash'.gone = rcClock + Ttl
    <3>. HIDE DEF token
    <3>. QED
      BY <2>2, <2>3 DEF PassHashes
  <2>. QED
    BY <1>1, <2>1, <2>4, Untouched, NewFence
<1>3. CASE ~(passHash.token > 0)
  <2>1. UNCHANGED <<passHash, minted>>
    BY <1>3 DEF DiscardScript
  <2>2. /\ stepsHash' \in StepsHashes /\ stepsHash'.fields \subseteq stepsHash.fields
        /\ FieldsInPlace' /\ RecordsOutlast' /\ lastWritten' \in Nat
    BY <1>1, StepsKept
  <2>3. InPlace(stepsHash'.fields) /\ InOrder(stepsHash'.fields) /\ passHash \in PassHashes
    BY <2>2 DEF FieldsInPlace, RcInv, RcTypes
  <2>. QED
    BY <1>1, <2>1, <2>2, <2>3, Untouched, TokenKept
<1>. QED
  BY <1>2, <1>3

(* A fence that expires has let every token there was fall behind the clock.  *)
LEMMA RcTickKeeps == ASSUME RcInv, RcTick PROVE RcInv'
<1>1. /\ rcClock' = rcClock + 1 /\ UNCHANGED <<rcHeld, lastFenced, lastWritten, minted>>
      /\ passHash' = IF passHash.gone <= rcClock + 1 THEN NoHash ELSE passHash
      /\ stepsHash' \in {stepsHash, NoSteps}
  BY DEF RcTick
<1>2. /\ stepsHash' \in StepsHashes /\ stepsHash'.fields \subseteq stepsHash.fields
      /\ FieldsInPlace' /\ RecordsOutlast' /\ lastWritten' \in Nat
  BY <1>1, StepsKept
<1>3. /\ rcClock \in Nat /\ rcClock > 0 /\ Ttl \in Nat /\ rcHeld \in [Passers -> Nat]
      /\ minted \in Nat /\ minted <= Ttl /\ lastFenced \in [Passers -> Nat]
      /\ passHash.gone \in Nat /\ passHash.token \in Nat
  BY Untouched, RedisAssumption
<1>4. /\ \A q \in Passers : rcHeld[q] \in Nat /\ Below(rcHeld[q])
      /\ \A f \in stepsHash.fields : f.by \in Nat /\ Below(f.by)
  BY <1>3, Untouched DEF RcInv, TokensAreOld, StepsHashes, FieldRecords
<1>5. /\ passHash.gone <= rcClock + Ttl
      /\ passHash.token > 0 => passHash.token + Ttl < passHash.gone + minted
      /\ \A q \in Passers : rcHeld[q] > 0 =>
           /\ passHash.token > 0 => lastFenced[q] + Ttl <= passHash.gone
           /\ passHash.token = 0 => lastFenced[q] + Ttl <= rcClock
  BY DEF RcInv, FenceOutlasts
<1>6. CASE passHash.gone <= rcClock + 1
  <2>1. passHash' = NoHash
    BY <1>1, <1>6
  <2>2. passHash' \in PassHashes /\ passHash'.token = 0 /\ passHash'.gone = 0 /\ ClaimEnds'
    BY <2>1 DEF NoHash, PassHashes, ClaimEnds
  <2>3. \A tok \in Nat : Below(tok) => tok < rcClock + 1
    BY <1>3, <1>5, <1>6 DEF Below
  <2>4. TokensAreOld'
    BY <1>1, <1>2, <1>4, <2>2, <2>3 DEF TokensAreOld, Below
  <2>5. OwnerHasTheToken'
    BY <2>2 DEF OwnerHasTheToken
  <2>6. FenceOutlasts'
    BY <1>1, <1>3, <1>5, <1>6, <2>2 DEF FenceOutlasts
  <2>7. RcTypes'
    BY <1>1, <1>2, <1>3, <2>2, Untouched DEF RcTypes
  <2>. QED
    BY <1>2, <2>2, <2>4, <2>5, <2>6, <2>7 DEF RcInv
<1>7. CASE ~(passHash.gone <= rcClock + 1)
  <2>1. passHash' = passHash
    BY <1>1, <1>7
  <2>2. \A tok \in Nat : Below(tok) => (passHash.token > 0 => tok <= passHash.token)
                                       /\ (passHash.token = 0 => tok < rcClock + 1)
    BY <1>3 DEF Below
  <2>3. TokensAreOld'
    BY <1>1, <1>2, <1>3, <1>4, <2>1, <2>2 DEF TokensAreOld, Below
  <2>4. OwnerHasTheToken' /\ ClaimEnds'
    BY <1>1, <2>1 DEF OwnerHasTheToken, ClaimEnds, RcInv
  <2>5. FenceOutlasts'
    BY <1>1, <1>3, <1>5, <2>1 DEF FenceOutlasts
  <2>6. RcTypes'
    BY <1>1, <1>2, <1>3, <2>1 DEF RcTypes, RcInv
  <2>. QED
    BY <1>2, <2>3, <2>4, <2>5, <2>6 DEF RcInv
<1>. QED
  BY <1>6, <1>7

LEMMA RcStepKeeps == ASSUME RcInv, [RcNext]_rcVars PROVE RcInv'
<1>1. CASE RcTick \/ AppendScript \/ DiscardScript
  BY <1>1, RcTickKeeps, AppendKeeps, DiscardScriptKeeps
<1>2. CASE \E name \in Fields : SupplyScript(name)
  BY <1>2, SupplyKeeps
<1>3. ASSUME NEW p \in Passers,
             \/ ClaimScript(p) \/ ExtendScript(p) \/ RenewScript(p) \/ ReleaseScript(p)
             \/ ForgetsPass(p)
      PROVE  RcInv'
  BY <1>3, ClaimScriptKeeps, ExtendKeeps, RenewKeeps, ReleaseKeeps, ForgetsKeeps
<1>4. ASSUME NEW p \in Passers, NEW name \in Fields,
             RecordScript(p, name) \/ TransactScript(p, name) \/ TransactRaises(p, name)
      PROVE  RcInv'
  BY <1>4, RecordScriptKeeps, TransactScriptKeeps, TransactRaisesKeeps
<1>5. CASE UNCHANGED rcVars
  <2>1. UNCHANGED <<rcClock, minted, stepsHash, passHash, rcHeld, lastWritten, lastFenced>>
    BY <1>5 DEF rcVars
  <2>2. RecordsOutlast' /\ passHash \in PassHashes
    BY <2>1, Untouched DEF RecordsOutlast, RcInv, RcTypes
  <2>. QED
    BY <2>1, <2>2, Untouched, TokenKept
<1>. QED
  BY <1>1, <1>2, <1>3, <1>4, <1>5 DEF RcNext

LEMMA RcStarts == ASSUME RcInit PROVE RcInv
<1>1. InPlace({}) /\ InOrder({})
  BY FS_EmptySet DEF InPlace, InOrder
<1>2. RcTypes
  BY RedisAssumption DEF RcInit, RcTypes, NoHash, NoSteps, PassHashes, StepsHashes
<1>3. stepsHash.fields = {} /\ passHash.token = 0 /\ passHash.gone = 0 /\ rcClock = 1
  BY DEF RcInit, NoHash, NoSteps
<1>4. TokensAreOld /\ OwnerHasTheToken /\ ClaimEnds
  BY <1>3 DEF RcInit, TokensAreOld, OwnerHasTheToken, Below, ClaimEnds, NoHash
<1>5. FenceOutlasts
  BY <1>3, RedisAssumption DEF RcInit, FenceOutlasts
<1>. QED
  BY <1>1, <1>2, <1>3, <1>4, <1>5 DEF RcInv, FieldsInPlace, RecordsOutlast

(* The fence, the tokens and the records of a workflow at Redis stay in step  *)
(* through every script and every expiry.                                     *)
THEOREM RcInvariant == RcSpec => []RcInv
<1>1. RcInit => RcInv
  BY RcStarts
<1>2. RcInv /\ [RcNext]_rcVars => RcInv'
  BY RcStepKeeps
<1>. QED
  BY <1>1, <1>2, PTL DEF RcSpec

(* No Pass outranks the fence, one from before an expiry included, what is    *)
(* written under it is in the order of the tokens, and records last their ttl *)
(* from the last write or replay of one.                                      *)
THEOREM CheckpointsOutlive == RcSpec => []CheckpointsOutliveSilence
<1>1. RcInv => CheckpointsOutliveSilence
  <2>. SUFFICES ASSUME RcInv PROVE CheckpointsOutliveSilence
    OBVIOUS
  <2>1. ASSUME NEW p \in Passers
        PROVE  /\ passHash.token > 0 =>
                    rcHeld[p] <= passHash.token /\ (rcHeld[p] = passHash.token => passHash.owner = p)
               /\ rcHeld[p] > 0 /\ passHash.token = 0 => rcClock >= lastFenced[p] + Ttl
    <3>1. lastFenced[p] + Ttl \in Nat /\ rcClock \in Nat
      BY Untouched
    <3>. QED
      BY <3>1 DEF RcInv, TokensAreOld, OwnerHasTheToken, FenceOutlasts, Below
  <2>2. InPlace(stepsHash.fields) /\ InOrder(stepsHash.fields) /\ RecordsOutlast /\ ClaimEnds
    BY DEF RcInv, FieldsInPlace
  <2>3. FenceSurvivesExpiry
    BY <2>1, <2>2 DEF FenceSurvivesExpiry, InOrder
  <2>4. RecordsLastTheirTtl
    BY <2>2 DEF RecordsLastTheirTtl, InPlace, RecordsOutlast, ClaimEnds
  <2>. QED
    BY <2>3, <2>4 DEF CheckpointsOutliveSilence
<1>. QED
  BY <1>1, RcInvariant, PTL

-----------------------------------------------------------------------------
(* The queue scored by visibility. *)
(* A receipt and a named moment are scores; a later of two is one of them. *)
LEMMA ScoresTyped ==
  ASSUME NEW t \in Nat
  PROVE  score(t) \in Nat /\ receipted(t) \in Nat
BY TimesNatural, MarkIsHalf DEF score, receipted

(* Every moment a caller's clock may show is a natural number.             *)
LEMMA ClocksNatural ==
  ASSUME now \in Nat, NEW at \in Clocks
  PROVE  at \in Nat /\ at <= now + Skew
BY TimesNatural DEF Clocks, Later

(* The sooner of a request and a moment is a moment.                       *)
LEMMA SoonerTyped ==
  ASSUME NEW s \in Nat \cup {Never}, NEW t \in Nat
  PROVE  Sooner(s, t) \in Nat /\ Sooner(s, t) <= t /\ (s # Never => Sooner(s, t) <= s)
BY DEF Sooner, Never

(* A worker that holds something holds a delivery.                         *)
LEMMA HandTyped ==
  ASSUME TypeOK, NEW p \in Workers, hand[p] # NoDelivery
  PROVE  /\ hand[p] \in Delivery
         /\ hand[p].workflow \in Workflows
         /\ hand[p].receipt \in Nat
BY DEF TypeOK, Delivery

(* A moment some ticks from now is a moment.                               *)
LEMMA DelayedTyped ==
  ASSUME now \in Nat, NEW delay \in Delays
  PROVE  now + delay \in Nat /\ now + delay >= now
BY TimesNatural

-----------------------------------------------------------------------------
(* The clock is a number, entries are scores, and a worker holds at most   *)
(* one delivery under a receipt.                                           *)
THEOREM TypeInvariant == Spec => []TypeOK
<1>1. Init => TypeOK
  BY DEF Init, TypeOK, Scores, Absent, Never
<1>2. TypeOK /\ [Next]_vars => TypeOK'
  <2> SUFFICES ASSUME TypeOK, [Next]_vars PROVE TypeOK'
    OBVIOUS
  <2> USE DEF TypeOK
  <2>1. CASE UNCHANGED vars
    BY <2>1 DEF vars
  <2>2. CASE Tick
    BY <2>2 DEF Tick
  <2>3. ASSUME NEW w \in Workflows, NEW at \in Clocks, MakeReady(w, at) PROVE TypeOK'
    <3>1. at \in Nat /\ score(at) \in Nat /\ Sooner(asked[w], at) \in Nat
      BY ClocksNatural, ScoresTyped, SoonerTyped
    <3> QED BY <2>3, <3>1 DEF MakeReady, Scores
  <2>4. ASSUME NEW w \in Workflows, Cancel(w) PROVE TypeOK'
    BY <2>4 DEF Cancel, Scores, Never, Absent
  <2>5. ASSUME NEW w \in Workflows, NEW p \in Workers, NextReady(p, w) PROVE TypeOK'
    <3>1. receipted(now) \in Nat
      BY ScoresTyped
    <3>2. [workflow |-> w, receipt |-> receipted(now)] \in Delivery
      BY <3>1 DEF Delivery
    <3> QED BY <2>5, <3>1, <3>2 DEF NextReady, Scores, Never
  <2>6. ASSUME NEW p \in Workers, Done(p) PROVE TypeOK'
    <3>1. hand[p].workflow \in Workflows
      BY <2>6, HandTyped DEF Done
    <3> QED BY <2>6, <3>1 DEF Done, LetsGo, Scores, Absent
  <2>7. ASSUME NEW p \in Workers, Extend(p) PROVE TypeOK'
    <3>1. hand[p] \in Delivery /\ hand[p].workflow \in Workflows
      BY <2>7, HandTyped DEF Extend, Live
    <3>2. receipted(now) \in Nat
      BY ScoresTyped
    <3>3. [hand[p] EXCEPT !.receipt = receipted(now)] \in Delivery
      BY <3>1, <3>2 DEF Delivery
    <3>4. schedule' \in [Workflows -> Scores]
      BY <2>7, <3>1, <3>2 DEF Extend, Scores
    <3>5. hand' \in [Workers -> Delivery \cup {NoDelivery}]
      BY <2>7, <3>3 DEF Extend
    <3> QED BY <2>7, <3>4, <3>5 DEF Extend
  <2>8. ASSUME NEW p \in Workers, NEW delay \in Delays, WakeAt(p, delay) PROVE TypeOK'
    <3> DEFINE w == hand[p].workflow
    <3>1. w \in Workflows
      BY <2>8, HandTyped DEF WakeAt
    <3>2. now + delay \in Nat /\ score(now + delay) \in Nat
      BY DelayedTyped, ScoresTyped
    <3>3. Sooner(asked[w], now + delay) \in Nat
      BY <3>1, <3>2, SoonerTyped
    <3>4. CASE Live(p)
      BY <2>8, <3>1, <3>2, <3>3, <3>4 DEF WakeAt, LetsGo, Scores
    <3>5. CASE ~ Live(p)
      BY <2>8, <3>5 DEF WakeAt, LetsGo
    <3> QED BY <3>4, <3>5
  <2>9. ASSUME NEW p \in Workers, Abandon(p) PROVE TypeOK'
    BY <2>9 DEF Abandon, LetsGo
  <2> QED
    BY <2>1, <2>2, <2>3, <2>4, <2>5, <2>6, <2>7, <2>8, <2>9 DEF Next
<1> QED BY <1>1, <1>2, PTL DEF Spec

(* A cancelled workflow has no entry until somebody makes it ready again:  *)
(* taking, answering and renewing all need one.                            *)
THEOREM CancellationSticks == Spec => []CancelSticks
<1>1. Init => CancelSticks
  BY DEF Init, CancelSticks
<1>2. TypeOK /\ CancelSticks /\ [Next]_vars => CancelSticks'
  <2> SUFFICES ASSUME TypeOK, CancelSticks, [Next]_vars, NEW u \in Workflows, gone'[u]
               PROVE  schedule'[u] = Absent
    BY DEF CancelSticks
  <2> USE DEF CancelSticks
  <2>1. CASE UNCHANGED vars
    BY <2>1 DEF vars
  <2>2. CASE Tick
    BY <2>2 DEF Tick
  <2>3. ASSUME NEW w \in Workflows, NEW at \in Clocks, MakeReady(w, at)
        PROVE  schedule'[u] = Absent
    BY <2>3 DEF MakeReady, TypeOK
  <2>4. ASSUME NEW w \in Workflows, Cancel(w) PROVE schedule'[u] = Absent
    BY <2>4 DEF Cancel, TypeOK
  <2>5. ASSUME NEW w \in Workflows, NEW p \in Workers, NextReady(p, w)
        PROVE  schedule'[u] = Absent
    BY <2>5 DEF NextReady, TypeOK
  <2>6. ASSUME NEW p \in Workers, Live(p) PROVE hand[p].workflow # u \/ ~ gone[u]
    BY <2>6, HandTyped DEF Live, Absent
  <2>7. ASSUME NEW p \in Workers, Done(p) PROVE schedule'[u] = Absent
    BY <2>7, HandTyped DEF Done, TypeOK
  <2>8. ASSUME NEW p \in Workers, Extend(p) PROVE schedule'[u] = Absent
    BY <2>8, <2>6 DEF Extend, TypeOK
  <2>9. ASSUME NEW p \in Workers, NEW delay \in Delays, WakeAt(p, delay)
        PROVE  schedule'[u] = Absent
    BY <2>9, <2>6 DEF WakeAt, TypeOK
  <2>10. ASSUME NEW p \in Workers, Abandon(p) PROVE schedule'[u] = Absent
    BY <2>10 DEF Abandon
  <2> QED
    BY <2>1, <2>2, <2>3, <2>4, <2>5, <2>7, <2>8, <2>9, <2>10 DEF Next
<1> QED BY <1>1, <1>2, TypeInvariant, PTL DEF Spec

(* An entry goes only with a cancellation or with the answer of whoever    *)
(* holds the delivery it was last taken under.                             *)
THEOREM LeavesOnlyAnswered == Spec => LeavesWhenAnswered
<1>1. ASSUME TypeOK, [Next]_vars, NEW u \in Workflows,
             schedule[u] # Absent, schedule'[u] = Absent
      PROVE  \/ gone'[u]
             \/ \E p \in Workers : Live(p) /\ hand[p].workflow = u /\ hand'[p] = NoDelivery
  <2> DEFINE Goal == \/ gone'[u]
                     \/ \E p \in Workers : Live(p) /\ hand[p].workflow = u /\ hand'[p] = NoDelivery
  <2> SUFFICES Goal
    OBVIOUS
  <2>1. CASE UNCHANGED vars
    BY <1>1, <2>1 DEF vars
  <2>2. CASE Tick
    BY <1>1, <2>2 DEF Tick
  <2>3. ASSUME NEW w \in Workflows, NEW at \in Clocks, MakeReady(w, at) PROVE Goal
    <3>1. score(at) # Absent
      BY <1>1, ClocksNatural, ScoresTyped DEF Absent, TypeOK
    <3> QED BY <1>1, <2>3, <3>1 DEF MakeReady, TypeOK
  <2>4. ASSUME NEW w \in Workflows, Cancel(w) PROVE Goal
    BY <1>1, <2>4 DEF Cancel, TypeOK
  <2>5. receipted(now) # Absent
    BY <1>1, ScoresTyped DEF Absent, TypeOK
  <2>6. ASSUME NEW w \in Workflows, NEW p \in Workers, NextReady(p, w) PROVE Goal
    BY <1>1, <2>5, <2>6 DEF NextReady, TypeOK
  <2>7. ASSUME NEW p \in Workers, Done(p) PROVE Goal
    BY <1>1, <2>7 DEF Done, LetsGo, TypeOK
  <2>8. ASSUME NEW p \in Workers, Extend(p) PROVE Goal
    BY <1>1, <2>5, <2>8 DEF Extend, TypeOK
  <2>9. ASSUME NEW p \in Workers, NEW delay \in Delays, WakeAt(p, delay) PROVE Goal
    <3>1. score(now + delay) # Absent
      BY <1>1, DelayedTyped, ScoresTyped DEF Absent, TypeOK
    <3> QED BY <1>1, <2>9, <3>1 DEF WakeAt, TypeOK
  <2>10. ASSUME NEW p \in Workers, Abandon(p) PROVE Goal
    BY <1>1, <2>10 DEF Abandon
  <2> HIDE DEF Goal
  <2> QED
    BY <1>1, <2>1, <2>2, <2>3, <2>4, <2>6, <2>7, <2>8, <2>9, <2>10 DEF Next
<1>2. TypeOK /\ [Next]_vars =>
        [\A w \in Workflows :
           schedule[w] # Absent /\ schedule'[w] = Absent =>
             \/ gone'[w]
             \/ \E p \in Workers : Live(p) /\ hand[p].workflow = w /\ hand'[p] = NoDelivery]_vars
  BY <1>1
<1> QED BY <1>2, TypeInvariant, PTL DEF Spec, LeavesWhenAnswered

-----------------------------------------------------------------------------
(* Receipts are odd, in half ticks.                                        *)
HandsMarked ==
  \A p \in Workers : hand[p] # NoDelivery =>
    \E t \in Nat : hand[p].receipt = 2 * t + 1

(* A wakeup asked for has an even score, visible by the time asked for.    *)
AskedNamed ==
  \A w \in Workflows : asked[w] # Never =>
    \E t \in Nat : schedule[w] = 2 * t /\ t <= Later(asked[w], now) + Skew

(* The half tick tells every receipt from every moment somebody names.     *)
LEMMA ReceiptIsNoMoment ==
  ASSUME NEW s \in Nat, NEW t \in Nat
  PROVE  2 * s # 2 * t + 1
OBVIOUS

(* A delivery still live is of a workflow nobody has asked for since.      *)
LEMMA LiveUnasked ==
  ASSUME TypeOK, HandsMarked, AskedNamed, NEW p \in Workers, Live(p)
  PROVE  asked[hand[p].workflow] = Never
<1>1. hand[p].workflow \in Workflows
  BY HandTyped DEF Live
<1>2. PICK t \in Nat : schedule[hand[p].workflow] = 2 * t + 1
  BY DEF HandsMarked, Live
<1> QED BY <1>1, <1>2, ReceiptIsNoMoment DEF AskedNamed

(* Every hand is filled with a marked receipt.                             *)
LEMMA HandsMarkedStep ==
  ASSUME Mark = 1, TypeOK, HandsMarked, [Next]_vars
  PROVE  HandsMarked'
<1> USE DEF HandsMarked
<1>1. ASSUME NEW p \in Workers, LetsGo(p) PROVE HandsMarked'
  BY <1>1 DEF LetsGo, TypeOK
<1>2. CASE UNCHANGED hand
  BY <1>2
<1>3. now + Lease \in Nat /\ receipted(now) = 2 * (now + Lease) + 1
  BY TimesNatural DEF receipted, TypeOK
<1>4. ASSUME NEW p \in Workers, Extend(p) PROVE HandsMarked'
  <2>1. hand[p] \in Delivery
    BY <1>4, HandTyped DEF Extend, Live
  <2>2. [hand[p] EXCEPT !.receipt = receipted(now)].receipt = receipted(now)
    BY <2>1 DEF Delivery
  <2>3. CASE hand' = [hand EXCEPT ![p].receipt = receipted(now)]
    <3>1. hand'[p].receipt = receipted(now)
      BY <2>1, <2>2, <2>3 DEF TypeOK
    <3>2. \A q \in Workers \ {p} : hand'[q] = hand[q]
      BY <2>3 DEF TypeOK
    <3> QED BY <1>3, <3>1, <3>2
  <2> QED BY <1>2, <1>4, <2>3 DEF Extend
<1>5. ASSUME NEW p \in Workers, NEW w \in Workflows, NextReady(p, w) PROVE HandsMarked'
  <2>1. hand'[p].receipt = receipted(now)
    BY <1>5 DEF NextReady, TypeOK
  <2>2. \A q \in Workers \ {p} : hand'[q] = hand[q]
    BY <1>5 DEF NextReady, TypeOK
  <2> QED BY <1>3, <2>1, <2>2
<1>6. ASSUME NEW p \in Workers,
             Done(p) \/ Abandon(p) \/ \E delay \in Delays : WakeAt(p, delay)
      PROVE  HandsMarked'
  BY <1>1, <1>6 DEF Done, Abandon, WakeAt
<1>7. ASSUME NEW w \in Workflows, Cancel(w) \/ \E at \in Clocks : MakeReady(w, at)
      PROVE  HandsMarked'
  BY <1>2, <1>7 DEF Cancel, MakeReady
<1>8. CASE Tick
  BY <1>2, <1>8 DEF Tick
<1>9. CASE UNCHANGED vars
  BY <1>2, <1>9 DEF vars
<1> QED BY <1>4, <1>5, <1>6, <1>7, <1>8, <1>9 DEF Next

(* Only a take may move the entry of a workflow that was asked for.        *)
LEMMA AskedNamedStep ==
  ASSUME TypeOK, HandsMarked, AskedNamed, [Next]_vars
  PROVE  AskedNamed'
<1> SUFFICES ASSUME NEW u \in Workflows, asked'[u] # Never
             PROVE  \E t \in Nat : schedule'[u] = 2 * t /\ t <= Later(asked'[u], now') + Skew
  BY DEF AskedNamed
<1> DEFINE Goal == \E t \in Nat : schedule'[u] = 2 * t /\ t <= Later(asked'[u], now') + Skew
<1> SUFFICES Goal
  OBVIOUS
<1>1. ASSUME asked'[u] = asked[u], schedule'[u] = schedule[u],
             now' = now \/ now' = now + 1
      PROVE  Goal
  <2>1. PICK t \in Nat : schedule[u] = 2 * t /\ t <= Later(asked[u], now) + Skew
    BY <1>1 DEF AskedNamed
  <2>2. Later(asked[u], now) <= Later(asked'[u], now')
    BY <1>1 DEF Later, TypeOK, Never
  <2>3. Later(asked[u], now) \in Int /\ Later(asked'[u], now') \in Int
    BY <1>1 DEF Later, TypeOK, Never
  <2>4. t <= Later(asked'[u], now') + Skew
    BY <2>1, <2>2, <2>3, TimesNatural
  <2> QED BY <1>1, <2>1, <2>4
<1>2. CASE UNCHANGED vars
  BY <1>1, <1>2 DEF vars
<1>3. CASE Tick
  BY <1>1, <1>3 DEF Tick
<1>4. ASSUME NEW w \in Workflows, NEW at \in Clocks, MakeReady(w, at) PROVE Goal
  <2>1. CASE w # u
    BY <1>1, <1>4, <2>1 DEF MakeReady, TypeOK
  <2>2. CASE w = u
    <3>1. at \in Nat /\ at <= now + Skew
      BY ClocksNatural DEF TypeOK
    <3>2. schedule'[u] = 2 * at
      BY <1>4, <2>2 DEF MakeReady, score, TypeOK
    <3>3. Sooner(asked[u], at) \in Nat
      BY <3>1, SoonerTyped DEF TypeOK
    <3>4. asked'[u] \in Nat /\ now' = now
      BY <1>4, <2>2, <3>3 DEF MakeReady, TypeOK
    <3>5. at <= Later(asked'[u], now') + Skew
      BY <3>1, <3>4, TimesNatural DEF Later, TypeOK
    <3> QED BY <3>1, <3>2, <3>5
  <2> QED BY <2>1, <2>2
<1>5. ASSUME NEW w \in Workflows, Cancel(w) PROVE Goal
  BY <1>1, <1>5 DEF Cancel, TypeOK
<1>6. ASSUME NEW w \in Workflows, NEW p \in Workers, NextReady(p, w) PROVE Goal
  BY <1>1, <1>6 DEF NextReady, TypeOK
<1>7. ASSUME NEW p \in Workers, Done(p) PROVE Goal
  <2>1. Live(p) => hand[p].workflow # u
    BY <1>7, LiveUnasked DEF Done
  <2> QED BY <1>1, <1>7, <2>1 DEF Done, TypeOK
<1>8. ASSUME NEW p \in Workers, Extend(p) PROVE Goal
  <2>1. hand[p].workflow # u
    BY <1>8, LiveUnasked DEF Extend
  <2> QED BY <1>1, <1>8, <2>1 DEF Extend, TypeOK
<1>9. ASSUME NEW p \in Workers, NEW delay \in Delays, WakeAt(p, delay) PROVE Goal
  <2>1. CASE ~ Live(p) \/ hand[p].workflow # u
    BY <1>1, <1>9, <2>1 DEF WakeAt, TypeOK
  <2>2. CASE Live(p) /\ hand[p].workflow = u
    <3>1. asked[u] = Never
      BY <2>2, LiveUnasked
    <3>2. now + delay \in Nat
      BY DelayedTyped DEF TypeOK
    <3>3. schedule'[u] = 2 * (now + delay) /\ asked'[u] = now + delay
      BY <1>9, <2>2, <3>1 DEF WakeAt, score, Sooner, TypeOK
    <3>4. now + delay <= Later(asked'[u], now') + Skew
      BY <1>9, <3>2, <3>3, TimesNatural DEF WakeAt, Later, TypeOK
    <3> QED BY <3>2, <3>3, <3>4
  <2> QED BY <2>1, <2>2
<1>10. ASSUME NEW p \in Workers, Abandon(p) PROVE Goal
  BY <1>1, <1>10 DEF Abandon
<1> HIDE DEF Goal
<1> QED
  BY <1>2, <1>3, <1>4, <1>5, <1>6, <1>7, <1>8, <1>9, <1>10 DEF Next

(* With the half tick in every receipt, no answer and no renewal removes a *)
(* wakeup that arrived since the take, or puts it off.                     *)
THEOREM WakeupsKept == ASSUME Mark = 1 PROVE Spec => []AskedIsKept
<1>1. Init => HandsMarked /\ AskedNamed
  BY DEF Init, HandsMarked, AskedNamed
<1>2. TypeOK /\ HandsMarked /\ AskedNamed /\ [Next]_vars => HandsMarked' /\ AskedNamed'
  BY HandsMarkedStep, AskedNamedStep
<1>3. TypeOK /\ AskedNamed => AskedIsKept
  <2> SUFFICES ASSUME TypeOK, AskedNamed, NEW w \in Workflows, asked[w] # Never
               PROVE  schedule[w] # Absent /\ schedule[w] <= score(Later(asked[w], now) + Skew)
    BY DEF AskedIsKept
  <2>1. PICK t \in Nat : schedule[w] = 2 * t /\ t <= Later(asked[w], now) + Skew
    BY DEF AskedNamed
  <2>2. Later(asked[w], now) \in Int
    BY DEF Later, TypeOK, Never
  <2> QED BY <2>1, <2>2, TimesNatural DEF score, Absent
<1> QED BY <1>1, <1>2, <1>3, TypeInvariant, PTL DEF Spec
-----------------------------------------------------------------------------
(* No receipt is of a moment still to come, and none an entry still has is *)
(* of a moment before its workflow was last made ready.  Two workers go by *)
(* one receipt only of a workflow made ready when it was written or since; *)
(* and what this tick's receipt is of has it, is gone, or was made ready   *)
(* again in this tick.                                                     *)
ReceiptsPast ==
  /\ \A w \in Workflows : made[w] <= now
  /\ \A p \in Workers : hand[p] # NoDelivery => hand[p].receipt <= receipted(now)

LiveSinceMade ==
  \A p \in Workers, w \in Workflows :
    Live(p) /\ hand[p].workflow = w /\ made[w] # Never => receipted(made[w]) <= hand[p].receipt

SharedWasMade ==
  \A p, q \in Workers, w \in Workflows :
    p # q /\ hand[p] # NoDelivery /\ hand[p].workflow = w /\ hand[p] = hand[q] =>
      made[w] # Never /\ hand[p].receipt <= receipted(made[w])

JustReceipted ==
  \A p \in Workers, w \in Workflows :
    hand[p] # NoDelivery /\ hand[p].workflow = w /\ hand[p].receipt = receipted(now) =>
      schedule[w] = receipted(now) \/ schedule[w] = Absent \/ made[w] = now

SharedInv == ReceiptsPast /\ LiveSinceMade /\ SharedWasMade /\ JustReceipted

(* Receipts are in the order of the moments they are of, and ahead of them. *)
LEMMA ReceiptsOrdered ==
  ASSUME Mark = 1, NEW s \in Nat, NEW t \in Nat
  PROVE  /\ receipted(s) \in Nat /\ receipted(s) = 2 * (s + Lease) + 1
         /\ receipted(s) <= receipted(t) <=> s <= t
         /\ receipted(s) = receipted(t) <=> s = t
         /\ receipted(s) > score(s)
BY TimesNatural DEF receipted, score

(* Letting go of a delivery, with no entry touched or with the entry of    *)
(* that live delivery moved off its receipt.                               *)
LEMMA SharedLetsGo ==
  ASSUME Mark = 1, TypeOK, TypeOK', HandsMarked', SharedInv, NEW p \in Workers,
         hand[p] # NoDelivery, LetsGo(p), UNCHANGED <<now, made>>,
         \/ schedule' = schedule
         \/ /\ Live(p)
            /\ \A u \in Workflows : u # hand[p].workflow => schedule'[u] = schedule[u]
            /\ \/ schedule'[hand[p].workflow] = Absent
               \/ \E t \in Nat : schedule'[hand[p].workflow] = 2 * t
  PROVE  SharedInv'
<1>0. /\ hand \in [Workers -> Delivery \cup {NoDelivery}] /\ now \in Nat
      /\ made \in [Workflows -> Nat \cup {Never}] /\ schedule \in [Workflows -> Scores]
      /\ hand'[p] = NoDelivery /\ \A q \in Workers : q # p => hand'[q] = hand[q]
      /\ receipted(now)' = receipted(now)
  BY DEF TypeOK, LetsGo, receipted
<1>1. ReceiptsPast'
  BY <1>0 DEF SharedInv, ReceiptsPast
<1>2. LiveSinceMade'
  <2> SUFFICES ASSUME NEW q \in Workers, NEW w \in Workflows, Live(q)', hand'[q].workflow = w,
                      made'[w] # Never
               PROVE  receipted(made'[w]) <= hand'[q].receipt
    BY DEF LiveSinceMade, receipted
  <2>1. q # p /\ hand'[q] = hand[q] /\ hand[q] # NoDelivery /\ schedule'[w] = hand[q].receipt
    BY <1>0 DEF Live
  <2>2. schedule'[w] = schedule[w]
    <3>1. hand'[q].receipt \in Nat /\ \A t \in Nat : hand'[q].receipt # 2 * t
      BY <1>0, <2>1, ReceiptIsNoMoment DEF HandsMarked, TypeOK, Delivery
    <3> QED BY <2>1, <3>1 DEF Absent
  <2> QED BY <2>1, <2>2 DEF SharedInv, LiveSinceMade, Live
<1>3. SharedWasMade'
  BY <1>0 DEF SharedInv, SharedWasMade, receipted
<1>4. JustReceipted'
  <2> SUFFICES ASSUME NEW q \in Workers, NEW w \in Workflows, hand'[q] # NoDelivery,
                      hand'[q].workflow = w, hand'[q].receipt = receipted(now)
               PROVE  schedule'[w] = receipted(now) \/ schedule'[w] = Absent \/ made'[w] = now
    BY <1>0 DEF JustReceipted
  <2>1. q # p /\ hand'[q] = hand[q]
    BY <1>0
  <2>2. schedule[w] = receipted(now) \/ schedule[w] = Absent \/ made[w] = now
    BY <1>0, <2>1 DEF SharedInv, JustReceipted
  <2>3. CASE schedule'[w] = schedule[w]
    BY <2>2, <2>3
  <2>4. CASE schedule'[w] # schedule[w] /\ schedule'[w] # Absent /\ made[w] # now
    <3>1. Live(p) /\ hand[p].workflow = w
      BY <2>4
    <3>2. schedule[w] = hand[p].receipt
      BY <3>1 DEF Live
    <3>3. hand[p].receipt = receipted(now)
      BY <2>2, <2>4, <3>2, <1>0 DEF Delivery, Absent
    <3>4. hand[p] = hand[q]
      BY <1>0, <2>1, <3>1, <3>3 DEF Delivery
    <3>5. made[w] # Never /\ receipted(now) <= receipted(made[w])
      BY <2>1, <3>1, <3>3, <3>4 DEF SharedInv, SharedWasMade
    <3>6. made[w] \in Nat /\ made[w] <= now
      BY <1>0, <3>5 DEF SharedInv, ReceiptsPast
    <3>7. made[w] = now
      BY <1>0, <3>5, <3>6, ReceiptsOrdered
    <3> QED BY <2>4, <3>7
  <2> QED BY <2>3, <2>4
<1> QED BY <1>1, <1>2, <1>3, <1>4 DEF SharedInv

(* A receipt of this moment, for the worker who wrote it and the entry.    *)
LEMMA SharedReceipted ==
  ASSUME Mark = 1, TypeOK, TypeOK', SharedInv, NEW p \in Workers, NEW w \in Workflows,
         UNCHANGED <<now, made>>, schedule'[w] = receipted(now),
         \A u \in Workflows : u # w => schedule'[u] = schedule[u],
         \A q \in Workers : q # p => hand'[q] = hand[q],
         \/ hand'[p] = [workflow |-> w, receipt |-> receipted(now)]
         \/ hand'[p] = hand[p],
         \/ hand[p] = NoDelivery /\ schedule[w] # Absent /\ schedule[w] <= score(now)
         \/ Live(p) /\ hand[p].workflow = w
  PROVE  SharedInv'
<1>0. /\ hand \in [Workers -> Delivery \cup {NoDelivery}] /\ now \in Nat
      /\ made \in [Workflows -> Nat \cup {Never}] /\ schedule \in [Workflows -> Scores]
      /\ receipted(now)' = receipted(now)
      /\ receipted(now) \in Nat /\ receipted(now) > score(now)
  BY ReceiptsOrdered DEF TypeOK, receipted
<1>1. ReceiptsPast'
  BY <1>0 DEF SharedInv, ReceiptsPast
<1>2. ASSUME NEW v \in Workflows, made[v] # Never PROVE receipted(made[v]) <= receipted(now)
  BY <1>0, <1>2, ReceiptsOrdered DEF SharedInv, ReceiptsPast
<1>3. LiveSinceMade'
  <2> SUFFICES ASSUME NEW q \in Workers, NEW v \in Workflows, Live(q)', hand'[q].workflow = v,
                      made'[v] # Never
               PROVE  receipted(made[v]) <= hand'[q].receipt
    BY <1>0 DEF LiveSinceMade, receipted
  <2>1. schedule'[v] = hand'[q].receipt
    BY DEF Live
  <2>2. CASE v = w
    BY <1>2, <2>1, <2>2
  <2>3. CASE v # w
    <3>1. hand'[q] = hand[q]
      BY <2>3
    <3> QED BY <2>1, <2>3, <3>1 DEF SharedInv, LiveSinceMade, Live
  <2> QED BY <2>2, <2>3
<1>4. ASSUME NEW q \in Workers, q # p, hand[q] = [workflow |-> w, receipt |-> receipted(now)]
      PROVE  made[w] # Never /\ receipted(now) <= receipted(made[w])
  <2>0. hand[q] # NoDelivery /\ hand[q].workflow = w /\ hand[q].receipt = receipted(now)
    <3>1. hand[q] \in Delivery
      BY <1>0, <1>4 DEF Delivery
    <3> QED BY <1>4, <3>1, NoDeliveryIsNone
  <2>1. schedule[w] = receipted(now) \/ schedule[w] = Absent \/ made[w] = now
    BY <2>0 DEF SharedInv, JustReceipted
  <2>2. CASE made[w] = now
    BY <1>0, <2>2 DEF Never
  <2>3. CASE made[w] # now /\ hand[p] = NoDelivery /\ schedule[w] # Absent /\ schedule[w] <= score(now)
    BY <1>0, <2>1, <2>3 DEF score
  <2>4. CASE made[w] # now /\ Live(p) /\ hand[p].workflow = w
    <3>1. hand[p] \in Delivery /\ schedule[w] = hand[p].receipt
      BY <1>0, <2>4 DEF Live
    <3>2. hand[p].receipt = receipted(now)
      BY <2>1, <2>4, <3>1 DEF Delivery, Absent
    <3>3. hand[p] = hand[q]
      BY <1>4, <2>4, <3>1, <3>2 DEF Delivery
    <3> QED BY <1>4, <2>4, <3>2, <3>3 DEF SharedInv, SharedWasMade, Live
  <2> QED BY <2>2, <2>3, <2>4
<1>5. SharedWasMade'
  <2> SUFFICES ASSUME NEW x \in Workers, NEW y \in Workers, NEW v \in Workflows, x # y,
                      hand'[x] # NoDelivery, hand'[x].workflow = v, hand'[x] = hand'[y]
               PROVE  made[v] # Never /\ hand'[x].receipt <= receipted(made[v])
    BY <1>0 DEF SharedWasMade, receipted
  <2>1. CASE hand'[x] = hand[x] /\ hand'[y] = hand[y]
    BY <2>1 DEF SharedInv, SharedWasMade
  <2>2. CASE x = p /\ hand'[p] = [workflow |-> w, receipt |-> receipted(now)]
    BY <1>4, <2>2
  <2>3. CASE y = p /\ hand'[p] = [workflow |-> w, receipt |-> receipted(now)]
    BY <1>4, <2>3
  <2> QED BY <2>1, <2>2, <2>3
<1>6. JustReceipted'
  <2> SUFFICES ASSUME NEW q \in Workers, NEW v \in Workflows, hand'[q] # NoDelivery,
                      hand'[q].workflow = v, hand'[q].receipt = receipted(now)
               PROVE  schedule'[v] = receipted(now) \/ schedule'[v] = Absent \/ made'[v] = now
    BY <1>0 DEF JustReceipted
  <2>1. CASE v # w
    <3>1. hand'[q] = hand[q]
      BY <2>1
    <3> QED BY <2>1, <3>1 DEF SharedInv, JustReceipted
  <2> QED BY <2>1
<1> QED BY <1>1, <1>3, <1>5, <1>6 DEF SharedInv

(* Every script keeps what two workers may share to what was made ready.   *)
LEMMA SharedStep ==
  ASSUME Mark = 1, TypeOK, TypeOK', HandsMarked', SharedInv, [Next]_vars
  PROVE  SharedInv'
<1>0. /\ hand \in [Workers -> Delivery \cup {NoDelivery}] /\ now \in Nat
      /\ made \in [Workflows -> Nat \cup {Never}] /\ schedule \in [Workflows -> Scores]
  BY DEF TypeOK
<1>1. CASE UNCHANGED vars
  BY <1>1 DEF vars, SharedInv, ReceiptsPast, LiveSinceMade, SharedWasMade, JustReceipted, Live, receipted
<1>2. CASE Tick
  <2>0. /\ now' = now + 1 /\ UNCHANGED <<schedule, hand, made>>
        /\ receipted(now) \in Nat /\ receipted(now)' = receipted(now + 1)
        /\ receipted(now + 1) \in Nat /\ receipted(now) < receipted(now + 1)
    BY <1>0, <1>2, TimesNatural, MarkIsHalf DEF Tick, receipted
  <2>1. \A p \in Workers : hand[p] # NoDelivery => hand[p].receipt \in Nat
    BY <1>0 DEF Delivery
  <2>2. ReceiptsPast'
    BY <1>0, <2>0, <2>1 DEF SharedInv, ReceiptsPast, Never
  <2>3. LiveSinceMade' /\ SharedWasMade'
    BY <2>0 DEF SharedInv, LiveSinceMade, SharedWasMade, Live, receipted
  <2>4. JustReceipted'
    BY <2>0, <2>1 DEF SharedInv, ReceiptsPast, JustReceipted
  <2> QED BY <2>2, <2>3, <2>4 DEF SharedInv
<1>3. ASSUME NEW w \in Workflows, NEW at \in Clocks, MakeReady(w, at) PROVE SharedInv'
  <2>0. /\ now' = now /\ hand' = hand /\ made'[w] = now /\ receipted(now)' = receipted(now)
        /\ \A u \in Workflows : u # w => schedule'[u] = schedule[u] /\ made'[u] = made[u]
        /\ \E t \in Nat : schedule'[w] = 2 * t
    BY <1>0, <1>3, ClocksNatural DEF MakeReady, score, receipted
  <2>1. ReceiptsPast'
    BY <1>0, <2>0 DEF SharedInv, ReceiptsPast
  <2>2. \A p \in Workers : ~ (Live(p)' /\ hand[p].workflow = w)
    BY <2>0, ReceiptIsNoMoment DEF HandsMarked, Live
  <2>3. LiveSinceMade'
    BY <2>0, <2>2 DEF SharedInv, LiveSinceMade, Live, receipted
  <2>4. SharedWasMade'
    <3> SUFFICES ASSUME NEW p \in Workers, NEW q \in Workers, p # q, hand[p] # NoDelivery,
                        hand[p].workflow = w, hand[p] = hand[q]
                 PROVE  made'[w] # Never /\ hand[p].receipt <= receipted(now)
      BY <2>0 DEF SharedInv, SharedWasMade, receipted
    <3> QED BY <1>0, <2>0 DEF SharedInv, ReceiptsPast, Never
  <2>5. JustReceipted'
    BY <2>0 DEF SharedInv, JustReceipted
  <2> QED BY <2>1, <2>3, <2>4, <2>5 DEF SharedInv
<1>4. ASSUME NEW w \in Workflows, Cancel(w) PROVE SharedInv'
  <2>0. /\ now' = now /\ hand' = hand /\ made' = made /\ receipted(now)' = receipted(now)
        /\ \A u \in Workflows : u # w => schedule'[u] = schedule[u]
        /\ schedule'[w] = Absent
    BY <1>0, <1>4 DEF Cancel, receipted
  <2>1. \A p \in Workers : ~ (Live(p)' /\ hand[p].workflow = w)
    BY <1>0, <2>0 DEF Live, Delivery, Absent
  <2>2. LiveSinceMade'
    BY <2>0, <2>1 DEF SharedInv, LiveSinceMade, Live, receipted
  <2>3. ReceiptsPast' /\ SharedWasMade' /\ JustReceipted'
    BY <2>0 DEF SharedInv, ReceiptsPast, SharedWasMade, JustReceipted, receipted
  <2> QED BY <2>2, <2>3 DEF SharedInv
<1>5. ASSUME NEW w \in Workflows, NEW p \in Workers, NextReady(p, w) PROVE SharedInv'
  BY <1>0, <1>5, SharedReceipted DEF NextReady
<1>6. ASSUME NEW p \in Workers, Done(p) PROVE SharedInv'
  <2>1. /\ hand[p] # NoDelivery /\ LetsGo(p) /\ UNCHANGED <<now, made>>
        /\ hand[p].workflow \in Workflows
    BY <1>6, HandTyped DEF Done
  <2>2. \/ schedule' = schedule
        \/ Live(p) /\ schedule' = [schedule EXCEPT ![hand[p].workflow] = Absent]
    BY <1>6 DEF Done
  <2> QED BY <1>0, <2>1, <2>2, SharedLetsGo
<1>7. ASSUME NEW p \in Workers, NEW delay \in Delays, WakeAt(p, delay) PROVE SharedInv'
  <2>1. /\ hand[p] # NoDelivery /\ LetsGo(p) /\ UNCHANGED <<now, made>>
        /\ hand[p].workflow \in Workflows /\ now + delay \in Nat
    BY <1>0, <1>7, HandTyped, DelayedTyped DEF WakeAt
  <2>2. \/ schedule' = schedule
        \/ Live(p) /\ schedule' = [schedule EXCEPT ![hand[p].workflow] = 2 * (now + delay)]
    BY <1>7 DEF WakeAt, score
  <2> QED BY <1>0, <2>1, <2>2, SharedLetsGo
<1>8. ASSUME NEW p \in Workers, Extend(p) PROVE SharedInv'
  <2>0. hand[p] \in Delivery /\ Live(p) /\ UNCHANGED <<now, made>>
    BY <1>8, HandTyped DEF Extend, Live
  <2>1. PICK w \in Workflows : w = hand[p].workflow
    BY <2>0 DEF Delivery
  <2>2. /\ schedule'[w] = receipted(now)
        /\ \A u \in Workflows : u # w => schedule'[u] = schedule[u]
    BY <1>0, <1>8, <2>1 DEF Extend
  <2>3. [hand[p] EXCEPT !.receipt = receipted(now)] = [workflow |-> w, receipt |-> receipted(now)]
    BY <2>0, <2>1 DEF Delivery
  <2>4. /\ \A q \in Workers : q # p => hand'[q] = hand[q]
        /\ \/ hand'[p] = [workflow |-> w, receipt |-> receipted(now)]
           \/ hand'[p] = hand[p]
    BY <1>0, <1>8, <2>3 DEF Extend
  <2> QED BY <2>0, <2>1, <2>2, <2>4, SharedReceipted
<1>9. ASSUME NEW p \in Workers, Abandon(p) PROVE SharedInv'
  BY <1>9, SharedLetsGo DEF Abandon
<1> QED BY <1>1, <1>2, <1>3, <1>4, <1>5, <1>6, <1>7, <1>8, <1>9 DEF Next

(* With marked receipts two workers can both still finish a workflow only  *)
(* if it was made ready in the very tick both were delivered it in.        *)
THEOREM ReceiptsExclusive == ASSUME Mark = 1 PROVE Spec => []OneLiveDelivery
<1>1. Init => HandsMarked /\ SharedInv
  BY DEF Init, HandsMarked, SharedInv, ReceiptsPast, LiveSinceMade, SharedWasMade, JustReceipted,
         Live, Never
<1>2. TypeOK /\ TypeOK' /\ HandsMarked /\ SharedInv /\ [Next]_vars => HandsMarked' /\ SharedInv'
  BY HandsMarkedStep, SharedStep
<1>3. TypeOK /\ SharedInv => OneLiveDelivery
  <2> SUFFICES ASSUME TypeOK, SharedInv, NEW p \in Workers, NEW q \in Workers, p # q,
                      Live(p), Live(q), hand[p].workflow = hand[q].workflow
               PROVE  /\ made[hand[p].workflow] # Never
                      /\ hand[p].receipt = receipted(made[hand[p].workflow])
    BY DEF OneLiveDelivery
  <2>1. hand[p] \in Delivery /\ hand[q] \in Delivery
    BY HandTyped DEF Live
  <2>2. hand[p] = hand[q]
    BY <2>1 DEF Live, Delivery
  <2>3. PICK w \in Workflows : w = hand[p].workflow
    BY <2>1 DEF Delivery
  <2>4. made[w] # Never /\ hand[p].receipt <= receipted(made[w])
    BY <2>2, <2>3 DEF SharedInv, SharedWasMade, Live
  <2>5. receipted(made[w]) <= hand[p].receipt
    BY <2>3, <2>4 DEF SharedInv, LiveSinceMade
  <2>6. receipted(made[w]) \in Nat /\ hand[p].receipt \in Nat
    BY <2>1, <2>4, ReceiptsOrdered DEF TypeOK, Delivery
  <2> QED BY <2>3, <2>4, <2>5, <2>6
<1> QED BY <1>1, <1>2, <1>3, TypeInvariant, PTL DEF Spec

-----------------------------------------------------------------------------
(* One wakeup per workflow, and one delivery that may answer for it: the   *)
(* queue implements Wakeups.                                               *)

Moments == [w \in Workflows |-> Visibility(w)]

Holders == [w \in Workflows |-> Holder(w)]

LiveAt(p, w) == Live(p) /\ hand[p].workflow = w

(* Who may answer is a function of the entries and the receipts held.      *)
HoldersAreWhoIsLive ==
  \A w \in Workflows :
    /\ Holders[w] \in Workers \cup {NoDelivery}
    /\ \A p \in Workers : Holders[w] = p <=> LiveAt(p, w)

(* Since at most one is live, the one chosen is the one that is.           *)
LEMMA LiveIsHolder == TypeOK /\ ReceiptsApart => HoldersAreWhoIsLive
<1> SUFFICES ASSUME TypeOK, ReceiptsApart, NEW w \in Workflows
             PROVE  /\ Holder(w) \in Workers \cup {NoDelivery}
                    /\ \A p \in Workers : Holder(w) = p <=> LiveAt(p, w)
  BY DEF HoldersAreWhoIsLive, Holders
<1>1. ASSUME NEW p \in Workers, NEW q \in Workers, LiveAt(p, w), LiveAt(q, w) PROVE p = q
  <2>1. hand[p] \in Delivery /\ hand[q] \in Delivery
    BY <1>1, HandTyped DEF LiveAt, Live
  <2>2. hand[p] = hand[q]
    BY <1>1, <2>1 DEF LiveAt, Live, Delivery
  <2> QED BY <1>1, <2>2 DEF ReceiptsApart, LiveAt, Live
<1>2. \A p \in Workers : p \in LiveHolders(w) <=> LiveAt(p, w)
  BY DEF LiveHolders, LiveAt
<1>3. CASE LiveHolders(w) = {}
  BY <1>2, <1>3, NobodyIsNone DEF Holder
<1>4. CASE LiveHolders(w) # {}
  <2>1. Holder(w) \in LiveHolders(w)
    BY <1>4 DEF Holder
  <2>2. LiveHolders(w) \subseteq Workers
    BY DEF LiveHolders
  <2> QED BY <1>1, <1>2, <2>1, <2>2
<1> QED BY <1>3, <1>4

(* The same of the state a step leads to.                                  *)
LEMMA LiveIsHolderNext == TypeOK' /\ ReceiptsApart' => HoldersAreWhoIsLive'
BY LiveIsHolder, PTL

(* Where a step leaves live who was live before, the holder stays.         *)
LEMMA HolderStays ==
  ASSUME HoldersAreWhoIsLive, HoldersAreWhoIsLive', NEW w \in Workflows,
         \A p \in Workers : LiveAt(p, w)' <=> LiveAt(p, w)
  PROVE  Holders'[w] = Holders[w]
<1>1. /\ Holders[w] \in Workers \cup {NoDelivery}
      /\ \A p \in Workers : Holders[w] = p <=> LiveAt(p, w)
  BY DEF HoldersAreWhoIsLive
<1>2. /\ Holders'[w] \in Workers \cup {NoDelivery}
      /\ \A p \in Workers : Holders'[w] = p <=> LiveAt(p, w)'
  BY DEF HoldersAreWhoIsLive
<1> QED BY <1>1, <1>2

(* Where nobody but perhaps p is live, the holder is p or nobody.          *)
LEMMA HolderIsOrNobody ==
  ASSUME HoldersAreWhoIsLive', NEW w \in Workflows, NEW p \in Workers,
         \A q \in Workers : q # p => ~ LiveAt(q, w)'
  PROVE  Holders'[w] \in {p, NoDelivery}
<1>1. /\ Holders'[w] \in Workers \cup {NoDelivery}
      /\ \A q \in Workers : Holders'[w] = q <=> LiveAt(q, w)'
  BY DEF HoldersAreWhoIsLive
<1> QED BY <1>1

(* Where nobody is live, nobody holds.                                     *)
LEMMA NoHolderWhereNobodyIsLive ==
  ASSUME HoldersAreWhoIsLive', NEW w \in Workflows, \A p \in Workers : ~ LiveAt(p, w)'
  PROVE  Holders'[w] = NoDelivery
<1>1. /\ Holders'[w] \in Workers \cup {NoDelivery}
      /\ \A p \in Workers : Holders'[w] = p <=> LiveAt(p, w)'
  BY DEF HoldersAreWhoIsLive
<1> QED BY <1>1

(* A step at w changes at most the entry of w, and no hand but p's, which  *)
(* is about w before and after, or empty.                                  *)
StepsAt(w, p) ==
  /\ now' = now
  /\ \A u \in Workflows : u # w => schedule'[u] = schedule[u]
  /\ \A q \in Workers : q # p => hand'[q] = hand[q]
  /\ hand[p] = NoDelivery \/ hand[p].workflow = w
  /\ hand'[p] = NoDelivery \/ hand'[p].workflow = w

(* Such a step puts a wakeup at w and a holder of it, and nothing else.    *)
LEMMA PutAt ==
  ASSUME HoldersAreWhoIsLive, HoldersAreWhoIsLive',
         NEW w \in Workflows, NEW p \in Workers, StepsAt(w, p)
  PROVE  /\ Moments' = [Moments EXCEPT ![w] = Moments'[w]]
         /\ Holders' = [Holders EXCEPT ![w] = Holders'[w]]
<1>1. \A u \in Workflows, q \in Workers : u # w => (LiveAt(q, u)' <=> LiveAt(q, u))
  BY DEF StepsAt, LiveAt, Live
<1>2. \A u \in Workflows : u # w => Holders'[u] = Holders[u]
  BY <1>1, HolderStays
<1>3. \A u \in Workflows : u # w => Moments'[u] = Moments[u]
  BY DEF StepsAt, Moments, Visibility
<1>4. /\ Moments = [u \in Workflows |-> Moments[u]] /\ Moments' = [u \in Workflows |-> Moments'[u]]
      /\ Holders = [u \in Workflows |-> Holders[u]] /\ Holders' = [u \in Workflows |-> Holders'[u]]
  BY DEF Moments, Holders
<1> HIDE DEF Moments, Holders
<1> QED BY <1>2, <1>3, <1>4

(* A step that is about w without a worker touches no hand.                *)
LEMMA PutOutside ==
  ASSUME HoldersAreWhoIsLive, HoldersAreWhoIsLive', NEW w \in Workflows,
         now' = now, hand' = hand,
         \A u \in Workflows : u # w => schedule'[u] = schedule[u]
  PROVE  /\ Moments' = [Moments EXCEPT ![w] = Moments'[w]]
         /\ Holders' = [Holders EXCEPT ![w] = Holders'[w]]
<1>1. \A u \in Workflows, q \in Workers : u # w => (LiveAt(q, u)' <=> LiveAt(q, u))
  BY DEF LiveAt, Live
<1>2. \A u \in Workflows : u # w => Holders'[u] = Holders[u]
  BY <1>1, HolderStays
<1>3. \A u \in Workflows : u # w => Moments'[u] = Moments[u]
  BY DEF Moments, Visibility
<1>4. /\ Moments = [u \in Workflows |-> Moments[u]] /\ Moments' = [u \in Workflows |-> Moments'[u]]
      /\ Holders = [u \in Workflows |-> Holders[u]] /\ Holders' = [u \in Workflows |-> Holders'[u]]
  BY DEF Moments, Holders
<1> HIDE DEF Moments, Holders
<1> QED BY <1>2, <1>3, <1>4

(* No marked receipt answers for an entry at a moment somebody named.      *)
LEMMA NamedMomentEndsDelivery ==
  ASSUME TypeOK', HandsMarked', NEW w \in Workflows, NEW t \in Nat, schedule'[w] = 2 * t
  PROVE  /\ \A p \in Workers : ~ LiveAt(p, w)'
         /\ Moments'[w] \in {"now", "later"}
<1>1. \A p \in Workers : hand'[p] # NoDelivery => hand'[p].receipt # 2 * t
  BY ReceiptIsNoMoment DEF HandsMarked
<1>2. schedule'[w] # Absent
  BY DEF Absent
<1>3. Visibility(w)' \in {"now", "later"}
  BY <1>2 DEF Visibility
<1> QED BY <1>1, <1>3 DEF LiveAt, Live, Moments

(* No receipt answers for an entry that is not there.                      *)
LEMMA AbsenceEndsDelivery ==
  ASSUME TypeOK', NEW w \in Workflows, schedule'[w] = Absent
  PROVE  /\ \A p \in Workers : ~ LiveAt(p, w)'
         /\ Moments'[w] = "none"
<1>1. \A p \in Workers : hand'[p] # NoDelivery => hand'[p].receipt # Absent
  BY DEF TypeOK, Delivery, Absent
<1> QED BY <1>1 DEF LiveAt, Live, Moments, Visibility

(* An entry a take or a renewal wrote is a lease ahead.                    *)
LEMMA ReceiptedIsLater ==
  ASSUME now \in Nat, now' = now, NEW w \in Workflows, schedule'[w] = receipted(now)
  PROVE  Moments'[w] = "later"
<1>1. receipted(now) \in Nat /\ receipted(now) > 2 * now
  BY TimesNatural, MarkIsHalf DEF receipted
<1>2. Visibility(w)' = "later"
  BY <1>1 DEF Visibility, score, Absent
<1> QED BY <1>2 DEF Moments

(* Letting go and leaving the entries alone is leaving.                    *)
LEMMA LettingGoIsLeaving ==
  ASSUME TypeOK, HoldersAreWhoIsLive, HoldersAreWhoIsLive', NEW p \in Workers,
         LetsGo(p), UNCHANGED <<now, schedule>>
  PROVE  Wake!Leave(p)
<1>1. hand'[p] = NoDelivery /\ \A q \in Workers : q # p => hand'[q] = hand[q]
  BY DEF LetsGo, TypeOK
<1>2. ASSUME NEW w \in Workflows
      PROVE  Holders'[w] = IF Holders[w] = p THEN NoDelivery ELSE Holders[w]
  <2>1. ~ LiveAt(p, w)' /\ \A q \in Workers : q # p => (LiveAt(q, w)' <=> LiveAt(q, w))
    BY <1>1 DEF LiveAt, Live
  <2>2. /\ Holders[w] \in Workers \cup {NoDelivery}
        /\ \A q \in Workers : Holders[w] = q <=> LiveAt(q, w)
        /\ Holders'[w] \in Workers \cup {NoDelivery}
        /\ \A q \in Workers : Holders'[w] = q <=> LiveAt(q, w)'
    BY DEF HoldersAreWhoIsLive
  <2> QED BY <2>1, <2>2, NobodyIsNone
<1>3. Holders' = [w \in Workflows |-> IF Holders[w] = p THEN NoDelivery ELSE Holders[w]]
  <2>1. Holders' = [w \in Workflows |-> Holders'[w]]
    BY DEF Holders
  <2> HIDE DEF Holders
  <2> QED BY <1>2, <2>1
<1>4. Moments' = Moments
  BY DEF Moments, Visibility
<1> QED BY <1>3, <1>4 DEF Wake!Leave, Holders, Moments

(* As the clock moves on, some entries become visible.                     *)
LEMMA TickIsLapse ==
  ASSUME TypeOK, HoldersAreWhoIsLive, HoldersAreWhoIsLive', Tick
  PROVE  Wake!Lapse
<1> DEFINE due == {w \in Workflows : Moments[w] = "later" /\ Moments'[w] = "now"}
<1>1. \A w \in Workflows : schedule[w] \in Scores /\ schedule'[w] = schedule[w] /\ now' = now + 1
  BY DEF Tick, TypeOK
<1>2. \A w \in Workflows :
        Moments'[w] = IF w \in due THEN "now" ELSE Moments[w]
  BY <1>1 DEF Moments, Visibility, score, Scores, TypeOK, Absent
<1>3. Moments' = [w \in Workflows |-> IF w \in due THEN "now" ELSE Moments[w]]
  <2>1. Moments' = [w \in Workflows |-> Moments'[w]]
    BY DEF Moments
  <2> HIDE DEF Moments
  <2> QED BY <1>2, <2>1
<1>4. Holders' = Holders
  <2>1. \A w \in Workflows, p \in Workers : LiveAt(p, w)' <=> LiveAt(p, w)
    BY DEF Tick, LiveAt, Live
  <2>2. \A w \in Workflows : Holders'[w] = Holders[w]
    BY <2>1, HolderStays
  <2> QED BY <2>2 DEF Holders
<1>5. due \in SUBSET {w \in Workflows : Moments[w] = "later"}
  OBVIOUS
<1> HIDE DEF due
<1> QED BY <1>3, <1>4, <1>5 DEF Wake!Lapse, Holders, Moments

(* Every script is a step of the abstract queue, or a stutter.             *)
LEMMA WakeStep ==
  ASSUME Mark = 1
  PROVE  /\ TypeOK /\ ReceiptsApart /\ HandsMarked /\ SharedInv
         /\ TypeOK' /\ ReceiptsApart' /\ HandsMarked'
         /\ [Next]_vars
         => [Wake!Next]_(Wake!vars)
<1> SUFFICES ASSUME TypeOK, ReceiptsApart, HandsMarked, SharedInv,
                    TypeOK', ReceiptsApart', HandsMarked', [Next]_vars
             PROVE  Wake!Next \/ UNCHANGED <<Moments, Holders>>
  BY DEF Wake!vars, Moments, Holders
<1>0. /\ HoldersAreWhoIsLive /\ HoldersAreWhoIsLive'
      /\ now \in Nat
      /\ schedule \in [Workflows -> Scores]
      /\ hand \in [Workers -> Delivery \cup {NoDelivery}]
  BY LiveIsHolder, LiveIsHolderNext DEF TypeOK
<1>1. CASE UNCHANGED vars
  BY <1>1 DEF vars, Moments, Holders, Visibility, Holder, LiveHolders, Live
<1>2. CASE Tick
  BY <1>0, <1>2, TickIsLapse DEF Wake!Next
<1>3. ASSUME NEW w \in Workflows, NEW at \in Clocks, MakeReady(w, at) PROVE Wake!Next
  <2>1. at \in Nat /\ schedule'[w] = 2 * at
    BY <1>0, <1>3, ClocksNatural DEF MakeReady, score
  <2>2. Holders'[w] = NoDelivery /\ Moments'[w] \in {"now", "later"}
    BY <1>0, <2>1, NamedMomentEndsDelivery, NoHolderWhereNobodyIsLive
  <2>3. /\ Moments' = [Moments EXCEPT ![w] = Moments'[w]]
        /\ Holders' = [Holders EXCEPT ![w] = Holders'[w]]
    BY <1>0, <1>3, PutOutside DEF MakeReady
  <2>4. Wake!Ask(w)
    BY <2>2, <2>3 DEF Wake!Ask, Wake!Put, Moments, Holders
  <2> QED BY <2>4 DEF Wake!Next
<1>4. ASSUME NEW w \in Workflows, Cancel(w) PROVE Wake!Next
  <2>1. schedule'[w] = Absent
    BY <1>0, <1>4 DEF Cancel
  <2>2. Holders'[w] = NoDelivery /\ Moments'[w] = "none"
    BY <1>0, <2>1, AbsenceEndsDelivery, NoHolderWhereNobodyIsLive
  <2>3. /\ Moments' = [Moments EXCEPT ![w] = Moments'[w]]
        /\ Holders' = [Holders EXCEPT ![w] = Holders'[w]]
    BY <1>0, <1>4, PutOutside DEF Cancel
  <2>4. Wake!Withdraw(w)
    BY <2>2, <2>3 DEF Wake!Withdraw, Wake!Put, Moments, Holders
  <2> QED BY <2>4 DEF Wake!Next
<1>5. ASSUME NEW w \in Workflows, NEW p \in Workers, NextReady(p, w) PROVE Wake!Next
  <2>1. /\ schedule'[w] = receipted(now) /\ now' = now /\ hand[p] = NoDelivery
        /\ hand'[p] = [workflow |-> w, receipt |-> receipted(now)]
        /\ \A q \in Workers : q # p => hand'[q] = hand[q]
        /\ \A u \in Workflows : u # w => schedule'[u] = schedule[u]
    BY <1>0, <1>5 DEF NextReady
  <2>2. Moments[w] = "now"
    BY <1>5 DEF NextReady, Moments, Visibility
  <2>3. Moments'[w] = "later"
    BY <1>0, <2>1, ReceiptedIsLater
  <2>4. LiveAt(p, w)'
    <3>1. hand'[p] \in Delivery
      BY <2>1, ScoresTyped, <1>0 DEF Delivery
    <3> QED BY <2>1, <3>1, NoDeliveryIsNone DEF LiveAt, Live
  <2>5. Holders'[w] = p
    BY <1>0, <2>4 DEF HoldersAreWhoIsLive
  <2>6. StepsAt(w, p)
    BY <2>1 DEF StepsAt
  <2>7. /\ Moments' = [Moments EXCEPT ![w] = Moments'[w]]
        /\ Holders' = [Holders EXCEPT ![w] = Holders'[w]]
    BY <1>0, <2>6, PutAt
  <2>8. Wake!Take(p, w)
    BY <2>2, <2>3, <2>5, <2>7 DEF Wake!Take, Wake!Put, Moments, Holders
  <2> QED BY <2>8 DEF Wake!Next
<1>6. ASSUME NEW p \in Workers, LetsGo(p), UNCHANGED <<now, schedule>> PROVE Wake!Next
  BY <1>0, <1>6, LettingGoIsLeaving DEF Wake!Next
<1>7. ASSUME NEW p \in Workers, Live(p), LetsGo(p), now' = now,
             \A u \in Workflows : u # hand[p].workflow => schedule'[u] = schedule[u]
      PROVE  /\ hand[p].workflow \in Workflows /\ Holders[hand[p].workflow] = p
             /\ Moments' = [Moments EXCEPT ![hand[p].workflow] = Moments'[hand[p].workflow]]
             /\ Holders' = [Holders EXCEPT ![hand[p].workflow] = Holders'[hand[p].workflow]]
  <2>1. hand[p].workflow \in Workflows
    BY <1>7, HandTyped DEF Live
  <2>2. StepsAt(hand[p].workflow, p)
    BY <1>0, <1>7 DEF StepsAt, LetsGo
  <2>3. LiveAt(p, hand[p].workflow)
    BY <1>7 DEF LiveAt
  <2>4. Holders[hand[p].workflow] = p
    BY <1>0, <2>1, <2>3 DEF HoldersAreWhoIsLive
  <2> QED BY <1>0, <2>1, <2>2, <2>4, PutAt
<1>8. ASSUME NEW p \in Workers, Done(p) PROVE Wake!Next
  <2>1. CASE ~ Live(p)
    BY <1>6, <1>8, <2>1 DEF Done
  <2>2. CASE Live(p)
    <3> DEFINE w == hand[p].workflow
    <3>1. w \in Workflows
      BY <2>2, HandTyped DEF Live
    <3>2. /\ schedule'[w] = Absent /\ LetsGo(p) /\ now' = now
          /\ \A u \in Workflows : u # w => schedule'[u] = schedule[u]
      BY <1>0, <1>8, <2>2, <3>1 DEF Done
    <3>3. /\ Holders[w] = p
          /\ Moments' = [Moments EXCEPT ![w] = Moments'[w]]
          /\ Holders' = [Holders EXCEPT ![w] = Holders'[w]]
      BY <1>7, <2>2, <3>2
    <3>4. Holders'[w] = NoDelivery /\ Moments'[w] = "none"
      BY <1>0, <3>1, <3>2, AbsenceEndsDelivery, NoHolderWhereNobodyIsLive
    <3> HIDE DEF w
    <3>5. Wake!Finish(p, w)
      BY <3>1, <3>3, <3>4 DEF Wake!Finish, Wake!Put, Moments, Holders
    <3> QED BY <3>1, <3>5 DEF Wake!Next
  <2> QED BY <2>1, <2>2
<1>9. ASSUME NEW p \in Workers, NEW delay \in Delays, WakeAt(p, delay) PROVE Wake!Next
  <2>1. CASE ~ Live(p)
    BY <1>6, <1>9, <2>1 DEF WakeAt
  <2>2. CASE Live(p)
    <3> DEFINE w == hand[p].workflow
    <3>1. w \in Workflows /\ now + delay \in Nat
      BY <1>0, <2>2, HandTyped, DelayedTyped DEF Live
    <3>2. /\ schedule'[w] = 2 * (now + delay) /\ LetsGo(p) /\ now' = now
          /\ \A u \in Workflows : u # w => schedule'[u] = schedule[u]
      BY <1>0, <1>9, <2>2, <3>1 DEF WakeAt, score
    <3>3. /\ Holders[w] = p
          /\ Moments' = [Moments EXCEPT ![w] = Moments'[w]]
          /\ Holders' = [Holders EXCEPT ![w] = Holders'[w]]
      BY <1>7, <2>2, <3>2
    <3>4. Holders'[w] = NoDelivery /\ Moments'[w] \in {"now", "later"}
      BY <1>0, <3>1, <3>2, NamedMomentEndsDelivery, NoHolderWhereNobodyIsLive
    <3> HIDE DEF w
    <3>5. Wake!Suspend(p, w)
      BY <3>1, <3>3, <3>4 DEF Wake!Suspend, Wake!Put, Moments, Holders
    <3> QED BY <3>1, <3>5 DEF Wake!Next
  <2> QED BY <2>1, <2>2
<1>10. ASSUME NEW p \in Workers, Extend(p) PROVE Wake!Next
  <2>0. hand[p] \in Delivery /\ hand[p].workflow \in Workflows /\ Live(p) /\ now' = now
    BY <1>10, HandTyped DEF Extend, Live
  <2>1. PICK w \in Workflows : w = hand[p].workflow
    BY <2>0
  <2>2. /\ schedule'[w] = receipted(now)
        /\ \A u \in Workflows : u # w => schedule'[u] = schedule[u]
    BY <1>0, <1>10, <2>1 DEF Extend
  <2>3. /\ hand'[p].workflow = w
        /\ \A q \in Workers : q # p => hand'[q] = hand[q]
    <3>1. [hand[p] EXCEPT !.receipt = receipted(now)].workflow = w
      BY <2>0, <2>1 DEF Delivery
    <3>2. CASE hand' = hand
      BY <2>1, <3>2
    <3>3. CASE hand' = [hand EXCEPT ![p].receipt = receipted(now)]
      BY <1>0, <3>1, <3>3
    <3> QED BY <1>10, <3>2, <3>3 DEF Extend
  <2>4. Holders[w] = p
    <3>1. LiveAt(p, w)
      BY <2>0, <2>1 DEF LiveAt
    <3> QED BY <1>0, <2>1, <3>1 DEF HoldersAreWhoIsLive
  <2>5. \A q \in Workers : q # p => ~ LiveAt(q, w)'
    <3> SUFFICES ASSUME NEW q \in Workers, q # p, LiveAt(q, w)' PROVE FALSE
      OBVIOUS
    <3>1. /\ hand[q] # NoDelivery /\ hand[q].workflow = w
          /\ hand[q].receipt = receipted(now)
      BY <2>2, <2>3 DEF LiveAt, Live
    <3>2. hand[q] = [workflow |-> w, receipt |-> receipted(now)]
      BY <1>0, <3>1 DEF Delivery
    <3>3. schedule[w] = receipted(now) \/ schedule[w] = Absent \/ made[w] = now
      BY <3>1 DEF SharedInv, JustReceipted
    <3>4. schedule[w] = hand[p].receipt /\ hand[p].receipt \in Nat /\ hand[p] # NoDelivery
      BY <2>0, <2>1 DEF Live, Delivery
    <3>5. made[w] = now => receipted(now) <= hand[p].receipt
      BY <1>0, <2>0, <2>1 DEF SharedInv, LiveSinceMade, Never
    <3>6. hand[p].receipt <= receipted(now) /\ receipted(now) \in Nat
      BY <1>0, <3>4, ReceiptsOrdered DEF SharedInv, ReceiptsPast
    <3>7. hand[p].receipt = receipted(now)
      BY <3>3, <3>4, <3>5, <3>6 DEF Absent
    <3>8. hand[p] = [workflow |-> w, receipt |-> receipted(now)]
      BY <2>0, <2>1, <3>7 DEF Delivery
    <3> QED BY <3>2, <3>4, <3>8 DEF ReceiptsApart
  <2>6. Holders'[w] \in {p, NoDelivery}
    BY <1>0, <2>1, <2>5, HolderIsOrNobody
  <2>7. Moments'[w] = "later"
    BY <1>0, <2>0, <2>1, <2>2, ReceiptedIsLater
  <2>8. StepsAt(w, p)
    BY <2>0, <2>1, <2>2, <2>3 DEF StepsAt
  <2>9. /\ Moments' = [Moments EXCEPT ![w] = Moments'[w]]
        /\ Holders' = [Holders EXCEPT ![w] = Holders'[w]]
    BY <1>0, <2>1, <2>8, PutAt
  <2>10. Wake!Keep(p, w)
    BY <2>1, <2>4, <2>6, <2>7, <2>9 DEF Wake!Keep, Wake!Put, Moments, Holders
  <2> QED BY <2>1, <2>10 DEF Wake!Next
<1>11. ASSUME NEW p \in Workers, Abandon(p) PROVE Wake!Next
  BY <1>6, <1>11 DEF Abandon
<1> QED BY <1>1, <1>2, <1>3, <1>4, <1>5, <1>8, <1>9, <1>10, <1>11 DEF Next

(* Scores, receipts and clocks come to one wakeup per workflow and one     *)
(* delivery that may answer for it, given marked receipts and wherever no  *)
(* two workers go by one receipt.                                          *)
THEOREM ImplementsWakeups == ASSUME Mark = 1 PROVE Spec => QueueSpec
<1>1. Init => Wake!Init /\ HandsMarked /\ SharedInv
  <2> SUFFICES ASSUME Init PROVE Wake!Init /\ HandsMarked /\ SharedInv
    OBVIOUS
  <2>1. \A p \in Workers : ~ Live(p)
    BY DEF Init, Live
  <2>2. \A w \in Workflows : Visibility(w) = "none" /\ Holder(w) = NoDelivery
    BY <2>1 DEF Init, Visibility, Holder, LiveHolders
  <2>3. Wake!Init /\ HandsMarked
    BY <2>2 DEF Init, Wake!Init, HandsMarked
  <2>4. SharedInv
    BY <2>1 DEF Init, SharedInv, ReceiptsPast, LiveSinceMade, SharedWasMade, JustReceipted, Never
  <2> QED BY <2>3, <2>4
<1>2. TypeOK /\ TypeOK' /\ HandsMarked /\ SharedInv /\ [Next]_vars => HandsMarked' /\ SharedInv'
  BY HandsMarkedStep, SharedStep
<1>3. TypeOK /\ TypeOK' /\ HandsMarked /\ HandsMarked' /\ SharedInv /\ [Next]_vars
      => [ReceiptsApart /\ ReceiptsApart' => Wake!Next]_(Wake!vars)
  BY WakeStep
<1> QED BY <1>1, <1>2, <1>3, TypeInvariant, PTL DEF Spec, QueueSpec
=============================================================================
