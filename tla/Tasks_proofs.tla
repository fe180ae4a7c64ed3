---------------------------- MODULE Tasks_proofs ----------------------------
(***************************************************************************)
(* What the runs say of a few jobs, connections, chunks and records, for   *)
(* any number of them.  limit_concurrency has accounted for every job it   *)
(* pulled, whichever way it is left.  The graph driver, for every acyclic  *)
(* graph, every limit, and every order in which nodes finish, fail and are *)
(* cut off: values are held for exactly as long as somebody is to read     *)
(* them, and the record is a barrier.  The pool of a host keeps its bound, *)
(* and hands no connection to two.  Streams that cross to a thread or fan  *)
(* out in the loop deliver what was put into them or say why not, and so   *)
(* do the records of a log, over threads, rotations and restarts.  The     *)
(* client's HTTP/2 responses are whole and its credit comes back, its      *)
(* credentials stay with their origin, and coded bodies decode whole.      *)
(***************************************************************************)
EXTENDS TaskLimiter, DagDriver, HttpPool, ThreadBridge, StreamWiring, Logging,
        Http2Client, ClientMiddleware, BodyCoding,
        FiniteSetTheorems, FunctionTheorems, SequenceTheorems, WellFoundedInduction,
        TLAPS

-----------------------------------------------------------------------------
(* limit_concurrency: any jobs, and any limit.                             *)

(* Every job in flight is in the one set that is counted, or has left it on  *)
(* its way to the consumer.                                                  *)
RunningIsCounted == Running \subseteq pending
WithinLimit == Cardinality(pending) <= JobLimit
NoneMislaid ==
    loop \in {"filling", "waiting", "yielding"} =>
        \A j \in Jobs : fate[j] # "unborn" => j \in pending \cup batch \cup yielded
BatchIsOut == loop \in {"filling", "waiting"} => batch = {}

(* A teardown has told everything that runs to stop, and has all of it to    *)
(* await still.                                                              *)
AllTold == loop = "closing" => Running \subseteq asked \cap unwaited
OutcomeAtEnd == outcome # "none" => loop = "over"

LimiterInv ==
    /\ LimiterTypeOK
    /\ RunningIsCounted
    /\ WithinLimit
    /\ NoneMislaid
    /\ BatchIsOut
    /\ AllTold
    /\ OutcomeAtEnd
    /\ PulledIsAccountedFor

(* The futures in flight are finitely many.                                  *)
LEMMA PendingFinite ==
  ASSUME LimiterTypeOK
  PROVE  IsFiniteSet(pending) /\ Cardinality(pending) \in Nat
<1>1. IsFiniteSet(pending)
  BY LimiterAssumption, FS_Subset DEF LimiterTypeOK
<1> QED BY <1>1, FS_CardinalityType

-----------------------------------------------------------------------------
(* Before the first job is pulled nothing is owed.                           *)
LEMMA InitLimiter == LimiterInit => LimiterInv
<1> SUFFICES ASSUME LimiterInit PROVE LimiterInv
  OBVIOUS
<1>1. Running = {} /\ Cardinality(pending) = 0
  BY FS_EmptySet DEF LimiterInit, Running
<1> QED
  BY <1>1, LimiterAssumption DEF LimiterInit, LimiterInv, LimiterTypeOK, RunningIsCounted,
     WithinLimit, NoneMislaid, BatchIsOut, AllTold, OutcomeAtEnd, PulledIsAccountedFor

(* Every step of the limiter, its jobs and its consumer keeps the invariant. *)
LEMMA NextLimiter == LimiterInv /\ [LimiterNext]_limiterVars => LimiterInv'
<1> SUFFICES ASSUME LimiterInv, [LimiterNext]_limiterVars PROVE LimiterInv'
  OBVIOUS
<1> USE DEF LimiterInv, RunningIsCounted, WithinLimit, NoneMislaid, BatchIsOut, AllTold,
    OutcomeAtEnd, PulledIsAccountedFor
<1>a. /\ IsFiniteSet(pending) /\ Cardinality(pending) \in Nat
      /\ Cardinality(pending) <= JobLimit
  BY PendingFinite
<1>b. JobLimit \in Nat
  BY LimiterAssumption
<1>1. CASE UNCHANGED limiterVars
  <2>1. Running' = Running /\ UNCHANGED <<loop, fate, pending, batch, yielded, asked, unwaited, outcome>>
    BY <1>1 DEF limiterVars, Running
  <2> QED BY <2>1 DEF LimiterTypeOK
<1>2. CASE SourceEnds
  <2>1. Running' = Running
    BY <1>2 DEF SourceEnds, Running
  <2>2. pending = {} => Running = {} /\ yielded = Jobs
    BY <1>2 DEF SourceEnds, LimiterTypeOK
  <2> QED BY <1>2, <2>1, <2>2 DEF SourceEnds, LimiterTypeOK
<1>3. CASE Full
  <2>1. Running' = Running
    BY <1>3 DEF Full, Running
  <2> QED BY <1>3, <2>1 DEF Full, LimiterTypeOK
<1>4. CASE Woken
  <2>1. Running' = Running /\ Running \cap Ended = {}
    BY <1>4 DEF Woken, Running, Ended
  <2>2. IsFiniteSet(pending) /\ pending' \subseteq pending
    BY <1>4, <1>a DEF Woken
  <2>3. /\ Cardinality(pending') <= Cardinality(pending)
        /\ Cardinality(pending') \in Nat
    BY <2>2, FS_Subset, FS_CardinalityType
  <2> HIDE DEF LimiterInv
  <2>4. Cardinality(pending') <= JobLimit
    BY <1>a, <1>b, <2>3
  <2> USE DEF LimiterInv
  <2> QED BY <1>4, <2>1, <2>4 DEF Woken, LimiterTypeOK
<1>5. CASE TearsDown
  <2>1. Running' = Running
    BY <1>5 DEF TearsDown, Running
  <2> QED BY <1>5, <2>1 DEF TearsDown, LimiterTypeOK
<1>6. CASE TornAway
  <2>1. Running' = Running /\ Running = {}
    BY <1>6 DEF TornAway, Running
  <2> QED BY <1>6, <2>1 DEF TornAway, LimiterTypeOK
<1>7. ASSUME NEW j \in Jobs, PullsJob(j) PROVE LimiterInv'
  <2>1. Running' = Running \cup {j}
    BY <1>7 DEF PullsJob, Running, LimiterTypeOK
  <2>2. Cardinality(pending) < JobLimit /\ pending' = pending \cup {j}
    BY <1>7 DEF PullsJob
  <2>3. Cardinality(pending \cup {j}) \in {Cardinality(pending), Cardinality(pending) + 1}
    BY <1>a, FS_AddElement
  <2> HIDE DEF LimiterInv
  <2>4. Cardinality(pending') <= JobLimit
    BY <1>a, <1>b, <2>2, <2>3
  <2> USE DEF LimiterInv
  <2>5. LimiterTypeOK'
    BY <1>7 DEF PullsJob, LimiterTypeOK
  <2> QED BY <1>7, <2>1, <2>4, <2>5 DEF PullsJob, LimiterTypeOK
<1>8. ASSUME NEW j \in Jobs, Ends(j) PROVE LimiterInv'
  <2>1. PICK end \in {"returned", "raised", "cancelled"} : fate' = [fate EXCEPT ![j] = end]
    BY <1>8 DEF Ends
  <2>2. Running' \subseteq Running
    BY <2>1 DEF Running, LimiterTypeOK
  <2>3. LimiterTypeOK'
    BY <1>8, <2>1 DEF Ends, LimiterTypeOK
  <2>4. NoneMislaid'
    BY <1>8, <2>1 DEF Ends, LimiterTypeOK
  <2> QED BY <1>8, <2>2, <2>3, <2>4 DEF Ends
<1>9. ASSUME NEW j \in Jobs, HandsOver(j) PROVE LimiterInv'
  <2>1. Running' = Running
    BY <1>9 DEF HandsOver, Running
  <2> QED BY <1>9, <2>1 DEF HandsOver, LimiterTypeOK
<1>10. ASSUME NEW j \in Jobs, Awaits(j) PROVE LimiterInv'
  <2>1. Running' = Running /\ j \notin Running
    BY <1>10 DEF Awaits, Running, Ended
  <2> QED BY <1>10, <2>1 DEF Awaits, LimiterTypeOK
<1> QED
  BY <1>1, <1>2, <1>3, <1>4, <1>5, <1>6, <1>7, <1>8, <1>9, <1>10 DEF LimiterNext

-----------------------------------------------------------------------------
(* The jobs in flight are counted, the consumer gets every one, and a        *)
(* teardown reaches all that still runs.                                     *)
THEOREM LimiterInvariant == LimiterSpec => []LimiterInv
BY InitLimiter, NextLimiter, PTL DEF LimiterSpec

(* No more than the limit run at once; a job outlives the iteration only     *)
(* behind the failure of another, told to stop; a source that runs out has   *)
(* had every job handed over.                                                *)
THEOREM PulledAccounted == LimiterSpec => []PulledIsAccountedFor
<1>1. LimiterInv => PulledIsAccountedFor
  BY DEF LimiterInv
<1> QED BY <1>1, LimiterInvariant, PTL

-----------------------------------------------------------------------------
(* The graph driver: any acyclic graph, any limit. *)

Active == phase \in {"filling", "waiting", "writing"}

(* The sorter: a key has been handed out exactly when all it depends on is   *)
(* done, and is in one place since.                                          *)
Frontier ==
    Active =>
        /\ \A k \in Keys : DepsOf(k) \subseteq done <=> k \in ready \cup running \cup done
        /\ ready \cap (running \cup done) = {}
        /\ running \cap done = {}

(* The releases: whoever was handed out has captured what it reads.          *)
ClaimsAreKept == Active => \A d \in Keys : claimedBy[d] = Readers(d) \cap (done \cup running)

(* The values in memory, as HeldWhileRead says.                              *)
HeldForReaders ==
    Active => results = {k \in Entries \cup recorded \cup done :
                            Readers(k) = {} \/ \E n \in Readers(k) : n \notin done \cup running}

(* The queue of completions holds nodes in flight, each once.                *)
CompletedOnce ==
    Active => /\ \A i \in DOMAIN completed : completed[i] \in running
              /\ \A i, j \in DOMAIN completed : completed[i] = completed[j] => i = j

(* Between two results, what is done is in the store.                        *)
DoneIsRecorded == phase \in {"filling", "waiting"} => done \cap Nodes \subseteq recorded

DagInv ==
    /\ DagTypeOK
    /\ Frontier
    /\ ClaimsAreKept
    /\ HeldForReaders
    /\ CompletedOnce
    /\ DoneIsRecorded
    /\ RecordIsABarrier

-----------------------------------------------------------------------------
(* Dependencies are keys, and a reader of a key is a node that depends on it.*)
LEMMA DependenciesAreKeys ==
  /\ \A k \in Keys : DepsOf(k) \subseteq Keys
  /\ \A k \in Keys, d \in Keys : d \in DepsOf(k) <=> k \in Readers(d)
  /\ \A d : Readers(d) \subseteq Nodes
  /\ Nodes \subseteq Keys
BY DagAssumption DEF DepsOf, Readers, Keys

(* No reader of a key that is not done has been handed out.                  *)
LEMMA ReadersWait ==
  ASSUME DagInv, Active, NEW k \in Keys, k \notin done
  PROVE  /\ Readers(k) \cap (ready \cup running \cup done) = {}
         /\ Readers(k) = {} \/ \E n \in Readers(k) : n \notin done \cup running
<1>1. \A n \in Readers(k) : n \in Keys /\ ~ (DepsOf(n) \subseteq done)
  BY DependenciesAreKeys
<1>2. \A n \in Readers(k) : n \notin ready \cup running \cup done
  BY <1>1 DEF DagInv, Frontier
<1> QED BY <1>2

(* A key that is not done and whose value was supplied is in memory still.   *)
LEMMA SuppliedIsHeld ==
  ASSUME DagInv, Active, NEW k \in Keys, k \notin done, k \in Entries \cup recorded
  PROVE  k \in results
BY ReadersWait DEF DagInv, HeldForReaders

(* A key that is handed out now leaves its place among the ready; what that  *)
(* makes of the claims and of the values held is the same whether it is run  *)
(* or passed over.                                                           *)
LEMMA HandedOut ==
  ASSUME DagInv, Active, NEW k \in ready, Claims(k),
         results' = results \ Released(k),
         done' \cup running' = done \cup running \cup {k},
         Entries \cup recorded' \cup done' = Entries \cup recorded \cup done
  PROVE  ClaimsAreKept' /\ HeldForReaders'
<1>1. k \in Keys /\ k \notin done \cup running
  BY DEF DagInv, DagTypeOK, Frontier
<1>2. \A d \in Keys : claimedBy[d] = Readers(d) \cap (done \cup running)
  BY DEF DagInv, ClaimsAreKept
<1>3. \A d \in Keys : claimedBy'[d] = Readers(d) \cap (done' \cup running')
  <2> SUFFICES ASSUME NEW d \in Keys PROVE claimedBy'[d] = Readers(d) \cap (done' \cup running')
    OBVIOUS
  <2>1. CASE d \in DepsOf(k)
    <3>1. claimedBy'[d] = claimedBy[d] \cup {k} /\ k \in Readers(d)
      BY <1>1, <2>1, DependenciesAreKeys DEF Claims
    <3> QED BY <1>2, <3>1
  <2>2. CASE d \notin DepsOf(k)
    <3>1. claimedBy'[d] = claimedBy[d] /\ k \notin Readers(d)
      BY <1>1, <2>2, DependenciesAreKeys DEF Claims
    <3> QED BY <1>2, <3>1
  <2> QED BY <2>1, <2>2
<1>4. \A d \in Keys : d \in Released(k) <=>
                        Readers(d) # {} /\ k \in Readers(d) /\ Readers(d) \subseteq done' \cup running'
  BY <1>1, <1>2, DependenciesAreKeys DEF Released
<1>5. \A d \in Entries \cup recorded \cup done :
        d \in results' <=> Readers(d) = {} \/ \E n \in Readers(d) : n \notin done' \cup running'
  <2> SUFFICES ASSUME NEW d \in Entries \cup recorded \cup done
               PROVE d \in results' <=> Readers(d) = {} \/ \E n \in Readers(d) : n \notin done' \cup running'
    OBVIOUS
  <2>1. d \in Keys
    BY DEF DagInv, DagTypeOK, Keys
  <2>2. d \in results <=> Readers(d) = {} \/ \E n \in Readers(d) : n \notin done \cup running
    BY DEF DagInv, HeldForReaders
  <2>3. CASE k \in Readers(d)
    BY <1>1, <1>4, <2>1, <2>2, <2>3
  <2>4. CASE k \notin Readers(d)
    BY <1>1, <1>4, <2>1, <2>2, <2>4
  <2> QED BY <2>3, <2>4
<1>6. results' \subseteq Entries \cup recorded \cup done
  BY DEF DagInv, HeldForReaders
<1> QED BY <1>3, <1>5, <1>6 DEF ClaimsAreKept, HeldForReaders

-----------------------------------------------------------------------------
(* Before the first pass nothing is held and nothing recorded.               *)
LEMMA InitDag == DagInit => DagInv
BY DagAssumption, FS_EmptySet DEF DagInit, DagInv, DagTypeOK, Frontier, ClaimsAreKept, HeldForReaders,
   CompletedOnce, DoneIsRecorded, RecordIsABarrier, Active, Keys

(* What a pass starts from: the sources of the graph ready, and what was     *)
(* supplied or recorded in memory.                                           *)
LEMMA PullsInv ==
  ASSUME DagInv, Pulls
  PROVE  DagInv'
<1>1. DagTypeOK'
  <2>1. Nodes \subseteq Keys /\ Entries \subseteq Keys
    BY DEF Keys
  <2>2. ready' \subseteq Keys /\ results' \subseteq Keys /\ claimedBy' \in [Keys -> SUBSET Keys]
    BY <2>1 DEF Pulls, DagInv, DagTypeOK
  <2>3. completed' \in Seq(Nodes)
    BY DEF Pulls
  <2> QED BY <2>2, <2>3 DEF Pulls, DagInv, DagTypeOK
<1>2. Frontier'
  BY DEF Pulls, Frontier
<1>3. ClaimsAreKept'
  BY DEF Pulls, ClaimsAreKept
<1>4. HeldForReaders'
  BY DEF Pulls, HeldForReaders
<1>5. CompletedOnce' /\ DoneIsRecorded'
  BY DEF Pulls, CompletedOnce, DoneIsRecorded
<1>6. RecordIsABarrier'
  <2>1. Cardinality(running') <= NodeLimit
    <3>1. running' = {} /\ NodeLimit \in Nat
      BY DagAssumption DEF Pulls
    <3>2. Cardinality(running') = 0
      BY <3>1, FS_EmptySet
    <3> QED BY <3>1, <3>2
  <2>2. /\ starts' = {} /\ running' = {} /\ phase' = "filling" /\ verdict' = "none"
        /\ recorded' = recorded
    BY DEF Pulls
  <2> QED BY <2>1, <2>2 DEF RecordIsABarrier, DagInv
<1> QED BY <1>1, <1>2, <1>3, <1>4, <1>5, <1>6 DEF DagInv

(* A key passed over, or a node that is collected, may hand out others: the  *)
(* sorter unlocks exactly those whose dependencies are now all done.         *)
LEMMA UnlockedJoin ==
  ASSUME DagInv, Active, NEW k \in Keys, k \notin done, DepsOf(k) \subseteq done,
         done' = done \cup {k},
         ready' = (ready \ {k}) \cup Unlocked(done, done \cup {k}),
         running' = running \ {k}
  PROVE  /\ \A n \in Keys : DepsOf(n) \subseteq done' <=> n \in ready' \cup running' \cup done'
         /\ ready' \cap (running' \cup done') = {}
         /\ running' \cap done' = {}
         /\ ready' \subseteq Keys
<1>1. /\ \A n \in Keys : DepsOf(n) \subseteq done <=> n \in ready \cup running \cup done
      /\ ready \cap (running \cup done) = {}
      /\ running \cap done = {}
      /\ ready \subseteq Keys
  BY DEF DagInv, Frontier, DagTypeOK
<1>2. \A n \in Keys : n \in Unlocked(done, done \cup {k}) <=>
                     DepsOf(n) \subseteq done \cup {k} /\ ~ (DepsOf(n) \subseteq done)
  BY DEF Unlocked
<1>3. Unlocked(done, done \cup {k}) \subseteq Keys
  BY DEF Unlocked
<1>4. \A n \in Keys : DepsOf(n) \subseteq done => DepsOf(n) \subseteq done \cup {k}
  OBVIOUS
<1> QED BY <1>1, <1>2, <1>3, <1>4

(* With nothing in flight and nothing ready, the sorter has handed out every *)
(* key: a group of nodes none of which is done would hold one that waits for *)
(* none of them.                                                             *)
LEMMA NothingLeft ==
  ASSUME DagInv, phase = "filling", ready = {}, running = {}
  PROVE  recorded = Nodes
<1>1. \A k \in Keys : DepsOf(k) \subseteq done => k \in done
  BY DEF DagInv, Frontier, Active
<1>2. Nodes \subseteq done
  <2>1. SUFFICES ASSUME Nodes \ done # {} PROVE FALSE
    OBVIOUS
  <2>2. PICK n \in Nodes \ done : Deps[n] \cap (Nodes \ done) = {}
    BY <2>1, DagAssumption
  <2>3. Deps[n] \subseteq Keys /\ n \in Keys
    BY DagAssumption DEF Keys
  <2>4. Entries \subseteq done
    BY <1>1, DagAssumption DEF DepsOf, Keys
  <2>5. DepsOf(n) \subseteq done
    BY <2>2, <2>3, <2>4 DEF DepsOf, Keys
  <2> QED BY <1>1, <2>2, <2>3, <2>5
<1> QED BY <1>2 DEF DagInv, DoneIsRecorded, DagTypeOK

(* A pass that has room and runs nothing has an empty deque.                 *)
LEMMA FillsInv ==
  ASSUME DagInv, Fills
  PROVE  DagInv'
<1>1. running = {} => recorded = Nodes
  <2>1. SUFFICES ASSUME running = {} PROVE recorded = Nodes
    OBVIOUS
  <2>2. Room
    BY <2>1, FS_EmptySet, DagAssumption DEF Room
  <2> QED BY <2>1, <2>2, NothingLeft DEF Fills
<1>2. UNCHANGED <<recorded, ready, done, claimedBy, results, running, completed, failed, starts>>
  BY DEF Fills, volatile
<1>3. phase = "filling" /\ phase' \in {"down", "waiting"} /\ verdict' \in {verdict, "whole"}
      /\ (phase' = "down" => running = {}) /\ (verdict' = "whole" => running = {} \/ verdict = "whole")
  BY DEF Fills
<1>4. DagTypeOK' /\ Frontier' /\ ClaimsAreKept' /\ HeldForReaders' /\ CompletedOnce' /\ DoneIsRecorded'
  BY <1>2, <1>3 DEF DagInv, DagTypeOK, Frontier, ClaimsAreKept, HeldForReaders, CompletedOnce, DoneIsRecorded,
     Active
<1>5. RecordIsABarrier'
  BY <1>1, <1>2, <1>3 DEF DagInv, RecordIsABarrier
<1> QED BY <1>4, <1>5 DEF DagInv

(* A supplied key that is passed over counts as done from then on.           *)
LEMMA SkipsInv ==
  ASSUME DagInv, NEW k \in Keys, Skips(k)
  PROVE  DagInv'
<1>1. Active /\ k \in ready /\ k \notin done /\ k \notin running /\ DepsOf(k) \subseteq done
  BY DEF Skips, DagInv, Frontier, Active
<1>2. k \in Entries \cup recorded
  BY <1>1 DEF Skips, DagInv, HeldForReaders
<1>3. /\ Frontier' /\ ready' \subseteq Keys
  <2>1. running = running \ {k}
    BY <1>1
  <2> QED BY <1>1, <2>1, UnlockedJoin DEF Skips, Frontier, Active
<1>4. ClaimsAreKept' /\ HeldForReaders'
  BY <1>1, <1>2, HandedOut DEF Skips
<1>5. DagTypeOK'
  BY <1>3 DEF Skips, Claims, DagInv, DagTypeOK
<1>6. CompletedOnce' /\ RecordIsABarrier'
  BY DEF Skips, DagInv, CompletedOnce, RecordIsABarrier, Active
<1>7. DoneIsRecorded'
  BY <1>2, DagAssumption DEF Skips, DagInv, DoneIsRecorded
<1> QED BY <1>3, <1>4, <1>5, <1>6, <1>7 DEF DagInv

(* A node is run with all it depends on recorded, and itself not.            *)
LEMMA SpawnsInv ==
  ASSUME DagInv, NEW k \in Keys, Spawns(k)
  PROVE  DagInv'
<1>1. /\ Active /\ k \in ready /\ k \in Nodes /\ k \notin done /\ k \notin running
      /\ Deps[k] \subseteq done /\ done \cap Nodes \subseteq recorded
  BY DEF Spawns, DagInv, Frontier, Active, DoneIsRecorded, DepsOf
<1>2. k \notin recorded
  BY <1>1, SuppliedIsHeld DEF Spawns
<1>3. Frontier'
  BY <1>1 DEF Spawns, DagInv, Frontier, Active
<1>4. ClaimsAreKept' /\ HeldForReaders'
  BY <1>1, HandedOut DEF Spawns
<1>5. DagTypeOK'
  BY <1>1 DEF Spawns, Claims, DagInv, DagTypeOK
<1>6. CompletedOnce' /\ DoneIsRecorded'
  BY DEF Spawns, DagInv, CompletedOnce, DoneIsRecorded, Active
<1>7. Cardinality(running') <= NodeLimit
  <2>1. IsFiniteSet(running)
    BY DagAssumption, FS_Subset DEF DagInv, DagTypeOK, Keys
  <2>2. Cardinality(running) \in Nat
    BY <2>1, FS_CardinalityType
  <2>3. Cardinality(running \cup {k}) = Cardinality(running) + 1
    BY <1>1, <2>1, FS_AddElement
  <2>4. Cardinality(running) < NodeLimit /\ running' = running \cup {k} /\ NodeLimit \in Nat
    BY DagAssumption DEF Spawns, Room
  <2> QED BY <2>2, <2>3, <2>4
<1>8. RecordIsABarrier'
  BY <1>1, <1>2, <1>7 DEF Spawns, DagInv, RecordIsABarrier
<1> QED BY <1>3, <1>4, <1>5, <1>6, <1>8 DEF DagInv

(* A node in flight that finishes, fails or unwinds queues itself once.      *)
LEMMA FinishesInv ==
  ASSUME DagInv, NEW n \in Nodes, Finishes(n) \/ Raises(n) \/ Unwinds(n)
  PROVE  DagInv'
<1>1. /\ n \in running /\ \A i \in DOMAIN completed : completed[i] # n
      /\ completed \in Seq(Nodes) /\ completed' = Append(completed, n)
  BY DEF Finishes, Raises, Unwinds, InFlight, DagInv, DagTypeOK
<1>2. /\ UNCHANGED <<phase, verdict, recorded, ready, done, claimedBy, results, running, starts>>
      /\ failed' \subseteq failed \cup {n}
  BY DEF Finishes, Raises, Unwinds
<1>3. DagTypeOK'
  <2>1. completed' \in Seq(Nodes)
    BY <1>1
  <2>2. failed' \subseteq Nodes
    BY <1>2 DEF DagInv, DagTypeOK
  <2> QED BY <1>2, <2>1, <2>2 DEF DagInv, DagTypeOK
<1>4. Frontier' /\ ClaimsAreKept' /\ HeldForReaders' /\ DoneIsRecorded' /\ RecordIsABarrier'
  BY <1>2 DEF DagInv, Frontier, ClaimsAreKept, HeldForReaders, DoneIsRecorded, RecordIsABarrier, Active
<1>5. CompletedOnce'
  <2> SUFFICES ASSUME Active PROVE CompletedOnce'
    BY <1>2 DEF CompletedOnce, Active
  <2>1. /\ \A i \in DOMAIN completed : completed[i] \in running
        /\ \A i, j \in DOMAIN completed : completed[i] = completed[j] => i = j
    BY DEF DagInv, CompletedOnce
  <2>2. DOMAIN completed = 1..Len(completed) /\ Len(completed) \in Nat
    BY <1>1
  <2>3. /\ DOMAIN completed' = 1..(Len(completed) + 1)
        /\ \A i \in 1..Len(completed) : completed'[i] = completed[i]
        /\ completed'[Len(completed) + 1] = n
    BY <1>1, <2>2
  <2>4. \A i \in DOMAIN completed' : i \in DOMAIN completed \/ i = Len(completed) + 1
    BY <2>2, <2>3
  <2>5. \A i \in DOMAIN completed' : completed'[i] \in running
    BY <1>1, <2>1, <2>2, <2>3, <2>4
  <2>6. \A i, j \in DOMAIN completed' : completed'[i] = completed'[j] => i = j
    BY <1>1, <2>1, <2>2, <2>3, <2>4
  <2> QED BY <1>2, <2>5, <2>6 DEF CompletedOnce
<1> QED BY <1>3, <1>4, <1>5 DEF DagInv

(* The next completion is of a node in flight, whose readers all wait for it.*)
LEMMA CollectsInv ==
  ASSUME DagInv, Collects
  PROVE  DagInv'
<1> DEFINE n == Head(completed)
<1>1. Active /\ phase = "waiting" /\ completed \in Seq(Nodes) /\ completed # <<>>
  BY DEF Collects, Active, DagInv, DagTypeOK
<1>2. /\ Len(completed) \in Nat \ {0} /\ DOMAIN completed = 1..Len(completed)
      /\ n = completed[1] /\ 1 \in DOMAIN completed
      /\ Tail(completed) \in Seq(Nodes)
      /\ DOMAIN Tail(completed) = 1..(Len(completed) - 1)
      /\ \A i \in DOMAIN Tail(completed) : Tail(completed)[i] = completed[i + 1]
  BY <1>1
<1>3. /\ \A i \in DOMAIN completed : completed[i] \in running
      /\ \A i, j \in DOMAIN completed : completed[i] = completed[j] => i = j
  BY <1>1 DEF DagInv, CompletedOnce
<1>4. /\ \A i \in DOMAIN Tail(completed) : Tail(completed)[i] \in running \ {n}
      /\ \A i, j \in DOMAIN Tail(completed) : Tail(completed)[i] = Tail(completed)[j] => i = j
  <2>1. \A i \in DOMAIN Tail(completed) : i + 1 \in DOMAIN completed /\ i + 1 # 1 /\ i \in Nat
    BY <1>2
  <2> QED BY <1>2, <1>3, <2>1
<1>5. n \in running /\ n \in Nodes /\ n \in Keys
  <2>1. completed[1] \in running
    BY <1>2, <1>3
  <2>2. running \subseteq Nodes /\ Nodes \subseteq Keys
    BY DEF DagInv, DagTypeOK, Keys
  <2> HIDE DEF n
  <2> QED BY <1>2, <2>1, <2>2
<1>6. n \notin done /\ n \notin ready /\ DepsOf(n) \subseteq done
  BY <1>1, <1>5 DEF DagInv, Frontier
<1> HIDE DEF n
<1>7. /\ running' = running \ {n} /\ completed' = Tail(completed)
      /\ UNCHANGED <<recorded, claimedBy, failed, starts>>
  BY DEF Collects, n
<1>8. Cardinality(running') <= NodeLimit
  <2>1. IsFiniteSet(running)
    BY DagAssumption, FS_Subset DEF DagInv, DagTypeOK, Keys
  <2>2. /\ Cardinality(running) \in Nat /\ Cardinality(running') \in Nat
        /\ Cardinality(running') <= Cardinality(running)
    BY <1>7, <2>1, FS_CardinalityType, FS_Subset
  <2>3. Cardinality(running) <= NodeLimit /\ NodeLimit \in Nat
    BY DagAssumption DEF DagInv, RecordIsABarrier
  <2> QED BY <2>2, <2>3
<1>9. CASE phase' = "tearing"
  <2>1. verdict' = "failed" /\ UNCHANGED <<results, done, ready>>
    BY <1>9 DEF Collects
  <2>2. DagTypeOK'
    BY <1>2, <1>7, <1>9, <2>1 DEF DagInv, DagTypeOK
  <2>3. RecordIsABarrier'
    BY <1>7, <1>8, <1>9, <2>1 DEF DagInv, RecordIsABarrier
  <2> QED BY <1>9, <2>2, <2>3 DEF DagInv, Frontier, ClaimsAreKept, HeldForReaders, CompletedOnce,
         DoneIsRecorded, Active
<1>10. CASE phase' # "tearing"
  <2>1. /\ phase' = "writing" /\ UNCHANGED verdict
        /\ results' = results \cup {n} /\ done' = done \cup {n}
        /\ ready' = ready \cup Unlocked(done, done \cup {n})
    BY <1>10 DEF Collects, n
  <2>2. Frontier' /\ ready' \subseteq Keys
    <3>1. ready = ready \ {n}
      BY <1>6
    <3> QED BY <1>1, <1>5, <1>6, <1>7, <2>1, <3>1, UnlockedJoin DEF Frontier
  <2>3. done' \cup running' = done \cup running
    BY <1>5, <1>7, <2>1
  <2>4. ClaimsAreKept'
    BY <1>1, <1>7, <2>3 DEF DagInv, ClaimsAreKept
  <2>5. HeldForReaders'
    BY <1>1, <1>5, <1>6, <1>7, <2>1, <2>3, ReadersWait DEF DagInv, HeldForReaders
  <2>6. DagTypeOK'
    BY <1>2, <1>5, <1>7, <2>1, <2>2 DEF DagInv, DagTypeOK
  <2>7. CompletedOnce'
    BY <1>4, <1>7 DEF CompletedOnce
  <2>8. DoneIsRecorded'
    BY <2>1 DEF DoneIsRecorded
  <2>9. RecordIsABarrier'
    BY <1>7, <1>8, <2>1 DEF DagInv, RecordIsABarrier
  <2> QED BY <2>2, <2>4, <2>5, <2>6, <2>7, <2>8, <2>9 DEF DagInv
<1> QED BY <1>9, <1>10

(* What is written is done, and all it depends on is written before it.      *)
LEMMA WritesInv ==
  ASSUME DagInv, Records \/ StoredAndStops
  PROVE  DagInv'
<1>1. /\ phase = "writing" /\ Active /\ recorded' = recorded \cup Fresh
      /\ phase' \in {"filling", "tearing"} /\ verdict' \in {verdict, "stopped"}
      /\ UNCHANGED <<ready, done, claimedBy, results, running, completed, failed, starts>>
  BY DEF Records, StoredAndStops, volatile, Active
<1>2. Fresh = (done \cap Nodes) \ recorded /\ recorded' = recorded \cup (done \cap Nodes)
  BY <1>1 DEF Fresh
<1>3. \A n \in done \cap Nodes : Deps[n] \cap Nodes \subseteq recorded'
  <2>1. \A n \in done \cap Nodes : n \in Keys /\ DepsOf(n) = Deps[n]
    BY DEF DepsOf, Keys
  <2>2. \A n \in done \cap Nodes : Deps[n] \subseteq done
    BY <1>1, <2>1 DEF DagInv, Frontier
  <2> QED BY <1>2, <2>2
<1>4. RecordIsABarrier'
  <2>1. running \cap done = {}
    BY <1>1 DEF DagInv, Frontier
  <2>2. recorded \subseteq Nodes
    BY DEF DagInv, DagTypeOK
  <2>3. \A n \in starts' \cup recorded' : Deps[n] \cap Nodes \subseteq recorded'
    BY <1>1, <1>2, <1>3 DEF DagInv, RecordIsABarrier
  <2>4. running' \cap recorded' = {} /\ Cardinality(running') <= NodeLimit
    BY <1>1, <1>2, <2>1 DEF DagInv, RecordIsABarrier
  <2> QED BY <1>1, <1>2, <2>2, <2>3, <2>4 DEF DagInv, RecordIsABarrier
<1>5. DagTypeOK'
  BY <1>1, <1>2 DEF DagInv, DagTypeOK
<1>6. HeldForReaders'
  <2>1. Entries \cup recorded' \cup done' = Entries \cup recorded \cup done
    BY <1>1, <1>2
  <2> QED BY <1>1, <2>1 DEF DagInv, HeldForReaders
<1>7. Frontier' /\ ClaimsAreKept' /\ CompletedOnce' /\ DoneIsRecorded'
  BY <1>1, <1>2 DEF DagInv, Frontier, ClaimsAreKept, CompletedOnce, DoneIsRecorded, Active
<1> QED BY <1>4, <1>5, <1>6, <1>7 DEF DagInv

(* However a pass comes to its end, what is recorded stays as it was.        *)
LEMMA EndsInv ==
  ASSUME DagInv, Refused \/ Cancelled \/ TornDown \/ WaitCutShort \/ Dies
  PROVE  DagInv'
<1>1. /\ phase' \in {"tearing", "down"} /\ running' \in {running, {}}
      /\ verdict' \in {verdict, "refused", "stopped", "cut short", "died"}
      /\ phase' = "down" /\ verdict' # "cut short" => running' = {}
      /\ UNCHANGED <<recorded, ready, done, claimedBy, results, completed, failed, starts>>
  BY DEF Refused, Cancelled, TornDown, WaitCutShort, Dies, volatile
<1>2. DagTypeOK'
  BY <1>1 DEF DagInv, DagTypeOK
<1>3. Cardinality(running') <= NodeLimit
  <2>1. CASE running' = running
    BY <2>1 DEF DagInv, RecordIsABarrier
  <2>2. CASE running' = {}
    <3>1. NodeLimit \in Nat
      BY DagAssumption
    <3>2. Cardinality(running') = 0
      BY <2>2, FS_EmptySet
    <3> QED BY <3>1, <3>2
  <2> QED BY <1>1, <2>1, <2>2
<1>4. RecordIsABarrier'
  BY <1>1, <1>3 DEF DagInv, RecordIsABarrier
<1> QED BY <1>1, <1>2, <1>4 DEF DagInv, Frontier, ClaimsAreKept, HeldForReaders, CompletedOnce,
       DoneIsRecorded, Active

(* Every step of a pass, and of the passes after it, keeps the invariant.    *)
LEMMA NextDag == DagInv /\ [DagNext]_dagVars => DagInv'
<1> SUFFICES ASSUME DagInv, [DagNext]_dagVars PROVE DagInv'
  OBVIOUS
<1>1. CASE UNCHANGED dagVars
  BY <1>1 DEF dagVars, DagInv, DagTypeOK, Frontier, ClaimsAreKept, HeldForReaders, CompletedOnce,
     DoneIsRecorded, RecordIsABarrier, Active
<1>2. CASE Pulls
  BY <1>2, PullsInv
<1>3. CASE Fills
  BY <1>3, FillsInv
<1>4. CASE Collects
  BY <1>4, CollectsInv
<1>5. CASE Records \/ StoredAndStops
  BY <1>5, WritesInv
<1>6. CASE Refused \/ Cancelled \/ TornDown \/ WaitCutShort \/ Dies
  BY <1>6, EndsInv
<1>7. CASE \E k \in Keys : Skips(k) \/ Spawns(k)
  BY <1>7, SkipsInv, SpawnsInv
<1>8. CASE \E n \in Nodes : Finishes(n) \/ Raises(n) \/ Unwinds(n)
  BY <1>8, FinishesInv
<1> QED BY <1>1, <1>2, <1>3, <1>4, <1>5, <1>6, <1>7, <1>8 DEF DagNext

-----------------------------------------------------------------------------
(* For every acyclic graph: each key is in one place, each release counted,  *)
(* each completion queued once, and what is done is in the store.            *)
THEOREM DagInvariant == DagSpec => []DagInv
<1>1. DagInit => DagInv
  BY InitDag
<1>2. DagInv /\ [DagNext]_dagVars => DagInv'
  BY NextDag
<1> QED BY <1>1, <1>2, PTL DEF DagSpec

(* For every acyclic graph, a value is in memory exactly from when it is     *)
(* known until its last reader has captured it, and no node runs before all  *)
(* it depends on is recorded, nor again once it is.                          *)
THEOREM DriveSound == DagSpec => []DriveIsSound
<1>1. DagInv => DriveIsSound
  <2> SUFFICES ASSUME DagInv PROVE HeldWhileRead /\ RecordIsABarrier
    BY DEF DriveIsSound
  <2>1. ASSUME phase = "filling", NEW n \in (ready \cap Nodes) \ results
        PROVE  Deps[n] \subseteq results
    <3>1. Active /\ n \in Keys /\ DepsOf(n) = Deps[n]
      BY <2>1 DEF Active, DepsOf, Keys
    <3>2. DepsOf(n) \subseteq done /\ n \notin done \cup running
      BY <2>1, <3>1 DEF DagInv, Frontier
    <3>3. \A d \in Deps[n] : d \in done /\ n \in Readers(d)
      BY <3>1, <3>2 DEF Readers
    <3> QED BY <3>1, <3>2, <3>3 DEF DagInv, HeldForReaders
  <2> QED BY <2>1 DEF HeldWhileRead, DagInv, HeldForReaders, Active
<1>2. DagSpec => []DagInv
  BY DagInvariant
<1> QED BY <1>1, <1>2, PTL

-----------------------------------------------------------------------------
(* The pool of a host: any number of callers, sockets and permits.            *)

Holders == {c \in Callers : stage[c] \in Holding}
Borrowing == {"opening", "head", "body", "closing"}
Borrowers == {c \in Callers : stage[c] \in Borrowing}
LentOut == {c \in Callers : stage[c] \in {"head", "body"}}

(* Whoever shakes hands has the lock, and no other protocol was chosen before. *)
ShakesAlone ==
    \A c \in Callers : stage[c] = "shaking" => lock = c /\ ~h11only /\ h2 # "up"
LinesCounted == lines = IF h2 = "up" THEN 1 ELSE 0

(* Nobody borrows before the origin is known to speak HTTP/1.1.               *)
UnusedBefore ==
    ~h11only =>
        /\ \A c \in Callers : stage[c] \in {"new", "locking", "shaking", "h2", "done"}
        /\ idle = <<>> /\ waiting = <<>>

SocketsInHand ==
    \A c \in Callers :
        /\ socket[c] # NoSocket <=> stage[c] \in {"head", "body"}
        /\ sender[c] # "none" => stage[c] \in {"head", "body"}
InHandAlone ==
    \A c, d \in Callers : c # d /\ socket[c] # NoSocket => socket[c] # socket[d]
IdleAreClean ==
    \A i \in DOMAIN idle :
        /\ sent[idle[i]] = "idle" /\ heard[idle[i]] = "idle" /\ link[idle[i]] # "closed"
        /\ \A c \in Callers : socket[c] # idle[i]
        /\ \A j \in DOMAIN idle : i # j => idle[i] # idle[j]
LiveIsSomewhere ==
    \A s \in Sockets : link[s] # "closed" =>
        (\E i \in DOMAIN idle : idle[i] = s) \/ (\E c \in Callers : socket[c] = s)

(* The semaphore's waiters are queued callers, each once, and none waits      *)
(* while a permit is free.                                                    *)
WaitsOnce ==
    /\ \A i \in DOMAIN waiting : stage[waiting[i]] = "queued"
    /\ \A i, j \in DOMAIN waiting : waiting[i] = waiting[j] => i = j
WaitsForNone == waiting # <<>> => permits = 0
PermitsCounted == permits + Cardinality(Holders) = MaxConnections

(* A connection that comes back to the pool takes the place of its borrower,  *)
(* who is not yet followed by whoever was granted the permit: so opening one  *)
(* has always its place.                                                      *)
PlacesSuffice == Cardinality(Borrowers) + Len(idle) <= MaxConnections

PoolInv ==
    /\ PoolTypeOK /\ ShakesAlone /\ LinesCounted /\ UnusedBefore
    /\ SocketsInHand /\ InHandAlone /\ IdleAreClean /\ LiveIsSomewhere
    /\ WaitsOnce /\ WaitsForNone /\ PermitsCounted /\ PlacesSuffice

LEMMA HasLeast ==
  ASSUME NEW T \in SUBSET Nat, T # {}
  PROVE  \E x \in T : \A y \in T : x <= y
<1> DEFINE R == {pair \in Nat \X Nat : pair[1] < pair[2]}
<1>1. IsWellFoundedOn(R, Nat)
  BY NatLessThanWellFounded DEF OpToRel
<1>2. \A x, y \in Nat : x < y => <<x, y>> \in R
  OBVIOUS
<1>. HIDE DEF R
<1>3. PICK x \in T : \A y \in T : <<y, x>> \notin R
  BY <1>1, WFMin
<1>4. \A y \in T : y \in Nat /\ x \in Nat /\ ~ (y < x)
  BY <1>2, <1>3
<1>. QED
  BY <1>4

(* The last of the idle connections that are usable.                          *)
LEMMA NewestIsUsable ==
  ASSUME PoolTypeOK, Usable # {}
  PROVE  Newest \in Usable
<1>. DEFINE n == Len(idle)
            T == {n - i : i \in Usable}
<1>1. n \in Nat /\ Usable \subseteq 1 .. n
  BY DEF PoolTypeOK, Usable
<1>. HIDE DEF n
<1>2. T \in SUBSET Nat /\ T # {}
  <2>1. \A i \in Usable : n - i \in Nat
    BY <1>1
  <2>. QED
    BY <2>1
<1>3. PICK x \in T : \A y \in T : x <= y
  BY <1>2, HasLeast
<1>4. PICK i \in Usable : x = n - i
  BY <1>3
<1>5. \A j \in Usable : n - j \in T
  OBVIOUS
<1>6. \A j \in Usable : j <= i
  <2>. HIDE DEF T
  <2>. QED
    BY <1>1, <1>3, <1>4, <1>5
<1>. QED
  BY <1>6 DEF Newest

(* What is counted is finite, and a permit that is out is counted once.       *)
LEMMA PermitsOnce ==
  ASSUME PoolInv
  PROVE  /\ IsFiniteSet(Holders) /\ Cardinality(Holders) \in Nat
         /\ IsFiniteSet(Borrowers) /\ Cardinality(Borrowers) \in Nat
         /\ Borrowers \subseteq Holders /\ permits \in Nat /\ Len(idle) \in Nat
         /\ MaxConnections \in Nat \ {0}
<1>1. Holders \in SUBSET Callers /\ Borrowers \in SUBSET Holders
  BY DEF Holders, Borrowers, Holding, Borrowing
<1>2. IsFiniteSet(Holders) /\ IsFiniteSet(Borrowers)
  BY <1>1, PoolAssumption, FS_Subset
<1>. QED
  BY <1>1, <1>2, FS_CardinalityType, PoolAssumption DEF PoolInv, PoolTypeOK

(* Who may borrow from the semaphore has none of what it lends.               *)
LEMMA OneMoreHolder ==
  ASSUME PoolInv, NEW c \in Callers, stage[c] \notin Holding,
         NEW to \in Borrowing, stage' = [stage EXCEPT ![c] = to],
         permits > 0, permits' = permits - 1
  PROVE  /\ PermitsCounted' /\ Cardinality(Borrowers') = Cardinality(Borrowers) + 1
         /\ Cardinality(Borrowers') <= MaxConnections /\ Cardinality(Borrowers') \in Nat
<1>1. stage \in [Callers -> STRING] \/ stage \in [Callers -> {"new", "locking", "shaking", "queued",
             "granted", "opening", "head", "body", "closing", "h2", "done"}]
  BY DEF PoolInv, PoolTypeOK
<1>2. \A d \in Callers : stage'[d] = IF d = c THEN to ELSE stage[d]
  BY <1>1
<1>3. to \in Holding /\ stage[c] \notin Borrowing
  BY DEF Holding, Borrowing
<1>4. Holders' = Holders \cup {c} /\ c \notin Holders
  BY <1>2, <1>3 DEF Holders
<1>5. Borrowers' = Borrowers \cup {c} /\ c \notin Borrowers
  BY <1>2, <1>3 DEF Borrowers
<1>6. Cardinality(Holders') = Cardinality(Holders) + 1
  BY <1>4, PermitsOnce, FS_AddElement
<1>7. Cardinality(Borrowers') = Cardinality(Borrowers) + 1
  BY <1>5, PermitsOnce, FS_AddElement
<1>8. IsFiniteSet(Holders') /\ Borrowers' \in SUBSET Holders'
  BY <1>4, <1>5, PermitsOnce, FS_AddElement
<1>9. Cardinality(Borrowers') <= Cardinality(Holders')
  BY <1>8, FS_Subset
<1>10. permits + Cardinality(Holders) = MaxConnections
  BY DEF PoolInv, PermitsCounted
<1>. QED
  BY <1>6, <1>7, <1>9, <1>10, PermitsOnce DEF PermitsCounted

(* The same for whoever was granted a permit while it waited.                 *)
LEMMA GrantedBorrows ==
  ASSUME PoolInv, NEW c \in Callers, stage[c] = "granted",
         NEW to \in Borrowing, stage' = [stage EXCEPT ![c] = to], permits' = permits
  PROVE  /\ PermitsCounted' /\ Cardinality(Borrowers') = Cardinality(Borrowers) + 1
         /\ Cardinality(Borrowers') <= MaxConnections /\ Cardinality(Borrowers') \in Nat
<1>1. stage \in [Callers -> {"new", "locking", "shaking", "queued",
             "granted", "opening", "head", "body", "closing", "h2", "done"}]
  BY DEF PoolInv, PoolTypeOK
<1>2. \A d \in Callers : stage'[d] = IF d = c THEN to ELSE stage[d]
  BY <1>1
<1>3. to \in Holding /\ stage[c] \in Holding /\ stage[c] \notin Borrowing
  BY DEF Holding, Borrowing
<1>4. Holders' = Holders
  BY <1>2, <1>3 DEF Holders
<1>5. Borrowers' = Borrowers \cup {c} /\ c \notin Borrowers
  BY <1>2, <1>3 DEF Borrowers
<1>6. Cardinality(Borrowers') = Cardinality(Borrowers) + 1
  BY <1>5, PermitsOnce, FS_AddElement
<1>7. Borrowers' \in SUBSET Holders
  BY <1>2, <1>3, <1>4 DEF Borrowers, Holders, Borrowing, Holding
<1>8. Cardinality(Borrowers') <= Cardinality(Holders)
  BY <1>7, PermitsOnce, FS_Subset
<1>9. permits + Cardinality(Holders) = MaxConnections
  BY DEF PoolInv, PermitsCounted
<1>. QED
  BY <1>4, <1>6, <1>8, <1>9, PermitsOnce DEF PermitsCounted

(* The counts of whoever neither takes nor returns a permit.                  *)
LEMMA SameHolders ==
  ASSUME PoolInv, permits' = permits, idle' = idle,
         \A d \in Callers : stage'[d] \in Holding <=> stage[d] \in Holding,
         \A d \in Callers : stage'[d] \in Borrowing <=> stage[d] \in Borrowing
  PROVE  PermitsCounted' /\ PlacesSuffice'
<1>1. Holders' = Holders /\ Borrowers' = Borrowers
  BY DEF Holders, Borrowers
<1>. QED
  BY <1>1 DEF PoolInv, PermitsCounted, PlacesSuffice

(* Semaphore.release: nobody is left waiting beside a free permit.            *)
LEMMA GivesBack ==
  ASSUME PoolInv, NEW c \in Callers, stage[c] \in Holding, GiveBack(c)
  PROVE  /\ permits' \in Nat /\ waiting' \in Seq(Callers)
         /\ stage' \in [Callers -> {"new", "locking", "shaking", "queued", "granted",
                                    "opening", "head", "body", "closing", "h2", "done"}]
         /\ stage'[c] = "done"
         /\ \A d \in Callers : d # c => \/ stage'[d] = stage[d]
                                        \/ stage[d] = "queued" /\ stage'[d] = "granted"
         /\ WaitsOnce' /\ WaitsForNone' /\ PermitsCounted'
         /\ Cardinality(Borrowers') =
              Cardinality(Borrowers) - (IF stage[c] \in Borrowing THEN 1 ELSE 0)
         /\ Cardinality(Borrowers') \in Nat
<1>. DEFINE StageNames == {"new", "locking", "shaking", "queued", "granted",
                       "opening", "head", "body", "closing", "h2", "done"}
<1>1. /\ stage \in [Callers -> StageNames] /\ waiting \in Seq(Callers) /\ permits \in Nat
      /\ WaitsOnce /\ WaitsForNone /\ permits + Cardinality(Holders) = MaxConnections
  BY DEF PoolInv, PoolTypeOK, PermitsCounted
<1>2. CASE waiting = <<>>
  <2>1. permits' = permits + 1 /\ stage' = [stage EXCEPT ![c] = "done"] /\ waiting' = <<>>
    BY <1>2 DEF GiveBack
  <2>2. \A d \in Callers : stage'[d] = IF d = c THEN "done" ELSE stage[d]
    BY <1>1, <2>1
  <2>3. Holders' = Holders \ {c} /\ c \in Holders
    BY <2>2 DEF Holders, Holding
  <2>4. Borrowers' = Borrowers \ {c} /\ (c \in Borrowers <=> stage[c] \in Borrowing)
    BY <2>2 DEF Borrowers, Borrowing
  <2>5. Cardinality(Holders') = Cardinality(Holders) - 1
    BY <2>3, PermitsOnce, FS_RemoveElement
  <2>6. /\ IsFiniteSet(Borrowers')
        /\ Cardinality(Borrowers') =
             Cardinality(Borrowers) - (IF c \in Borrowers THEN 1 ELSE 0)
    <3>1. IsFiniteSet(Borrowers) /\ Cardinality(Borrowers) \in Nat
      BY PermitsOnce
    <3>2. /\ IsFiniteSet(Borrowers \ {c})
          /\ Cardinality(Borrowers \ {c}) =
               IF c \in Borrowers THEN Cardinality(Borrowers) - 1 ELSE Cardinality(Borrowers)
      BY <3>1, FS_RemoveElement
    <3>. QED
      BY <2>4, <3>1, <3>2
  <2>7. Cardinality(Borrowers') \in Nat
    BY <2>6, FS_CardinalityType
  <2>8. PermitsCounted'
    BY <1>1, <2>1, <2>5, PermitsOnce DEF PermitsCounted
  <2>9. WaitsOnce' /\ WaitsForNone'
    BY <2>1 DEF WaitsOnce, WaitsForNone
  <2>10. stage' \in [Callers -> StageNames]
    BY <1>1, <2>1
  <2>. QED
    BY <1>1, <2>1, <2>2, <2>4, <2>6, <2>7, <2>8, <2>9, <2>10
<1>3. CASE waiting # <<>>
  <2>. DEFINE h == Head(waiting)
  <2>1. /\ permits' = permits /\ waiting' = Tail(waiting)
        /\ stage' = [stage EXCEPT ![c] = "done", ![h] = "granted"]
    BY <1>3 DEF GiveBack
  <2>2. /\ h \in Callers /\ h = waiting[1] /\ 1 \in DOMAIN waiting
        /\ Tail(waiting) \in Seq(Callers) /\ Len(Tail(waiting)) = Len(waiting) - 1
        /\ \A i \in DOMAIN Tail(waiting) :
             i + 1 \in DOMAIN waiting /\ i \in Nat /\ i > 0 /\ Tail(waiting)[i] = waiting[i + 1]
    BY <1>1, <1>3
  <2>3. stage[h] = "queued" /\ h # c
    BY <1>1, <2>2 DEF WaitsOnce, Holding
  <2>. HIDE DEF h
  <2>4. \A d \in Callers : stage'[d] = IF d = h THEN "granted" ELSE IF d = c THEN "done" ELSE stage[d]
    BY <1>1, <2>1, <2>2, <2>3
  <2>5. Holders' = (Holders \ {c}) \cup {h} /\ c \in Holders /\ h \notin Holders
    BY <2>2, <2>3, <2>4 DEF Holders, Holding
  <2>6. Borrowers' = Borrowers \ {c} /\ (c \in Borrowers <=> stage[c] \in Borrowing)
    BY <2>2, <2>3, <2>4 DEF Borrowers, Borrowing
  <2>7. Cardinality(Holders') = Cardinality(Holders)
    <3>1. IsFiniteSet(Holders) /\ Cardinality(Holders) \in Nat
      BY PermitsOnce
    <3>2. IsFiniteSet(Holders \ {c}) /\ Cardinality(Holders \ {c}) = Cardinality(Holders) - 1
      BY <2>5, <3>1, FS_RemoveElement
    <3>3. Cardinality((Holders \ {c}) \cup {h}) = Cardinality(Holders \ {c}) + 1
      BY <2>5, <3>2, FS_AddElement
    <3>. QED
      BY <2>5, <3>1, <3>2, <3>3
  <2>8. /\ IsFiniteSet(Borrowers')
        /\ Cardinality(Borrowers') =
             Cardinality(Borrowers) - (IF c \in Borrowers THEN 1 ELSE 0)
    <3>1. IsFiniteSet(Borrowers) /\ Cardinality(Borrowers) \in Nat
      BY PermitsOnce
    <3>2. /\ IsFiniteSet(Borrowers \ {c})
          /\ Cardinality(Borrowers \ {c}) =
               IF c \in Borrowers THEN Cardinality(Borrowers) - 1 ELSE Cardinality(Borrowers)
      BY <3>1, FS_RemoveElement
    <3>. QED
      BY <2>6, <3>1, <3>2
  <2>9. Cardinality(Borrowers') \in Nat
    BY <2>8, FS_CardinalityType
  <2>10. PermitsCounted' /\ permits' \in Nat
    BY <1>1, <2>1, <2>7 DEF PermitsCounted
  <2>11. WaitsOnce'
    <3>1. \A i \in DOMAIN waiting' : stage[waiting'[i]] = "queued" /\ waiting'[i] # h
                                     /\ waiting'[i] \in Callers
      BY <1>1, <2>1, <2>2 DEF WaitsOnce
    <3>2. \A i \in DOMAIN waiting' : stage'[waiting'[i]] = "queued"
      BY <2>4, <3>1 DEF Holding
    <3>3. \A i, j \in DOMAIN waiting' : waiting'[i] = waiting'[j] => i = j
      BY <1>1, <2>1, <2>2 DEF WaitsOnce
    <3>. QED
      BY <3>2, <3>3 DEF WaitsOnce
  <2>12. WaitsForNone'
    BY <1>1, <1>3, <2>1 DEF WaitsForNone
  <2>13. stage' \in [Callers -> StageNames]
    BY <1>1, <2>1
  <2>14. \A d \in Callers : d # c => \/ stage'[d] = stage[d]
                                     \/ stage[d] = "queued" /\ stage'[d] = "granted"
    BY <2>3, <2>4
  <2>15. stage'[c] = "done"
    BY <2>3, <2>4
  <2>16. waiting' \in Seq(Callers)
    BY <2>1, <2>2
  <2>. QED
    BY <2>6, <2>8, <2>9, <2>10, <2>11, <2>12, <2>13, <2>14, <2>15, <2>16
<1>. QED
  BY <1>2, <1>3

(* checkout, past the permit: what it lends is open, clean and in no other    *)
(* hands; what it passes over is closed.                                      *)
LEMMA Lends ==
  ASSUME PoolInv, NEW c \in Callers, stage[c] \in {"new", "locking", "granted"}, Lend(c),
         UNCHANGED <<sender, sent, heard>>
  PROVE  /\ \E to \in {"head", "opening"} :
              /\ stage' = [stage EXCEPT ![c] = to]
              /\ Len(idle') + (IF to = "head" THEN 1 ELSE Len(idle)) <= Len(idle)
         /\ socket' \in [Callers -> Sockets \cup {NoSocket}]
         /\ link' \in [Sockets -> {"closed", "open", "gone"}] /\ idle' \in Seq(Sockets)
         /\ SocketsInHand' /\ InHandAlone' /\ IdleAreClean' /\ LiveIsSomewhere'
<1>1. /\ stage \in [Callers -> {"new", "locking", "shaking", "queued", "granted",
                                "opening", "head", "body", "closing", "h2", "done"}]
      /\ socket \in [Callers -> Sockets \cup {NoSocket}] /\ NoSocket \notin Sockets
      /\ link \in [Sockets -> {"closed", "open", "gone"}] /\ idle \in Seq(Sockets)
      /\ sender \in [Callers -> {"none", "running", "returned"}]
      /\ SocketsInHand /\ InHandAlone /\ IdleAreClean /\ LiveIsSomewhere
  BY PoolAssumption DEF PoolInv, PoolTypeOK
<1>2. socket[c] = NoSocket /\ sender[c] = "none"
  BY <1>1 DEF SocketsInHand
<1>3. CASE Usable # {}
  <2>. DEFINE n == Newest
  <2>1. /\ stage' = [stage EXCEPT ![c] = "head"]
        /\ socket' = [socket EXCEPT ![c] = idle[n]]
        /\ link' = [s \in Sockets |-> IF s \in Unusable(n) THEN "closed" ELSE link[s]]
        /\ idle' = SubSeq(idle, 1, n - 1)
    BY <1>2, <1>3 DEF Lend
  <2>2. n \in 1 .. Len(idle) /\ link[idle[n]] = "open" /\ Len(idle) \in Nat
    BY <1>1, <1>3, NewestIsUsable DEF Usable, PoolInv
  <2>. HIDE DEF n
  <2>3. /\ idle' \in Seq(Sockets) /\ Len(idle') = n - 1 /\ DOMAIN idle' = 1 .. n - 1
        /\ \A i \in 1 .. n - 1 : idle'[i] = idle[i] /\ i \in DOMAIN idle /\ i # n
    BY <1>1, <2>1, <2>2
  <2>4. /\ \A j \in DOMAIN idle : idle[j] \in Sockets /\ (idle[j] \in Unusable(n) <=> j > n)
    <3>1. \A i, j \in DOMAIN idle : i # j => idle[i] # idle[j]
      BY <1>1 DEF IdleAreClean
    <3>2. n + 1 .. Len(idle) \subseteq DOMAIN idle /\ n \in DOMAIN idle
      BY <1>1, <2>2
    <3>3. \A j \in DOMAIN idle : idle[j] \in Sockets
      BY <1>1
    <3>4. \A j \in DOMAIN idle : j > n <=> j \in n + 1 .. Len(idle)
      BY <1>1, <2>2
    <3>. QED
      BY ONLY <3>1, <3>2, <3>3, <3>4 DEF Unusable
  <2>5. /\ idle[n] \in Sockets /\ n \in DOMAIN idle
        /\ \A d \in Callers : socket'[d] = IF d = c THEN idle[n] ELSE socket[d]
        /\ \A d \in Callers : stage'[d] = IF d = c THEN "head" ELSE stage[d]
        /\ \A d \in Callers : socket[d] # idle[n]
    BY <1>1, <2>1, <2>2, <2>4 DEF IdleAreClean
  <2>6. socket' \in [Callers -> Sockets \cup {NoSocket}]
        /\ link' \in [Sockets -> {"closed", "open", "gone"}]
    BY <1>1, <2>1, <2>5
  <2>7. SocketsInHand'
    BY <1>1, <1>2, <2>5 DEF SocketsInHand
  <2>8. InHandAlone'
    BY <1>1, <2>5 DEF InHandAlone
  <2>9. IdleAreClean'
    <3>1. ASSUME NEW i \in DOMAIN idle'
          PROVE  /\ sent[idle'[i]] = "idle" /\ heard[idle'[i]] = "idle" /\ link'[idle'[i]] # "closed"
                 /\ \A d \in Callers : socket'[d] # idle'[i]
      <4>1. i \in DOMAIN idle /\ i # n /\ idle'[i] = idle[i] /\ idle[i] # idle[n] /\ ~(i > n)
            /\ idle[i] \in Sockets
        BY <1>1, <2>2, <2>3, <2>4, <2>5 DEF IdleAreClean
      <4>2. link'[idle[i]] = link[idle[i]]
        BY <2>1, <2>4, <4>1
      <4>. QED
        BY <1>1, <2>5, <4>1, <4>2 DEF IdleAreClean
    <3>2. \A i, j \in DOMAIN idle' : i # j => idle'[i] # idle'[j]
      BY <1>1, <2>3 DEF IdleAreClean
    <3>. QED
      BY <3>1, <3>2 DEF IdleAreClean
  <2>10. LiveIsSomewhere'
    <3>1. SUFFICES ASSUME NEW s \in Sockets, link'[s] # "closed"
                   PROVE  (\E i \in DOMAIN idle' : idle'[i] = s) \/ (\E d \in Callers : socket'[d] = s)
      BY DEF LiveIsSomewhere
    <3>2. s \notin Unusable(n) /\ link[s] # "closed"
      BY <1>1, <2>1, <3>1
    <3>3. CASE \E d \in Callers : socket[d] = s
      BY <1>1, <1>2, <2>5, <3>3
    <3>4. CASE \E i \in DOMAIN idle : idle[i] = s
      <4>1. PICK i \in DOMAIN idle : idle[i] = s
        BY <3>4
      <4>2. ~(i > n) /\ i \in 1 .. Len(idle)
        BY <1>1, <2>4, <3>2, <4>1
      <4>3. CASE i = n
        BY <2>5, <4>1, <4>3
      <4>4. CASE i # n
        <5>1. i \in 1 .. n - 1
          BY <2>2, <4>2, <4>4
        <5>. QED
          BY <2>3, <4>1, <5>1
      <4>. QED
        BY <4>3, <4>4
    <3>. QED
      BY <1>1, <3>2, <3>3, <3>4 DEF LiveIsSomewhere
  <2>11. Len(idle') + 1 <= Len(idle)
    BY <2>2, <2>3
  <2>. QED
    BY <2>1, <2>3, <2>6, <2>7, <2>8, <2>9, <2>10, <2>11
<1>4. CASE Usable = {}
  <2>1. /\ stage' = [stage EXCEPT ![c] = "opening"]
        /\ link' = [s \in Sockets |-> IF s \in Unusable(0) THEN "closed" ELSE link[s]]
        /\ idle' = <<>> /\ socket' = socket
    BY <1>2, <1>4 DEF Lend
  <2>2. \A j \in DOMAIN idle : idle[j] \in Unusable(0)
    BY <1>1 DEF Unusable
  <2>3. \A d \in Callers : stage'[d] = IF d = c THEN "opening" ELSE stage[d]
    BY <1>1, <2>1
  <2>4. socket' \in [Callers -> Sockets \cup {NoSocket}]
        /\ link' \in [Sockets -> {"closed", "open", "gone"}] /\ idle' \in Seq(Sockets)
    BY <1>1, <2>1
  <2>5. SocketsInHand'
    BY <1>1, <1>2, <2>1, <2>3 DEF SocketsInHand
  <2>6. InHandAlone' /\ IdleAreClean'
    BY <1>1, <2>1 DEF InHandAlone, IdleAreClean
  <2>7. LiveIsSomewhere'
    BY <1>1, <2>1, <2>2 DEF LiveIsSomewhere
  <2>8. Len(idle') + Len(idle) <= Len(idle)
    BY <1>1, <2>1
  <2>. QED
    BY <2>1, <2>4, <2>5, <2>6, <2>7, <2>8
<1>. QED
  BY <1>3, <1>4

(* checkout as a whole: the permit at once, or a place behind those who wait. *)
LEMMA CheckedOut ==
  ASSUME PoolInv, NEW c \in Callers, stage[c] \in {"new", "locking"}, h11only, Checkout(c),
         UNCHANGED <<sender, sent, heard, lines, h11only>>,
         lock' \in Callers \cup {Nobody}, \A d \in Callers : stage[d] # "shaking",
         h2' \in {"none", "up", "down"}, h2' = "up" <=> h2 = "up"
  PROVE  PoolInv'
<1>. DEFINE StageNames == {"new", "locking", "shaking", "queued", "granted",
                       "opening", "head", "body", "closing", "h2", "done"}
<1>1. /\ stage \in [Callers -> StageNames] /\ waiting \in Seq(Callers) /\ permits \in Nat
      /\ WaitsOnce /\ WaitsForNone /\ PlacesSuffice
  BY DEF PoolInv, PoolTypeOK
<1>2. LinesCounted' /\ UnusedBefore'
  BY DEF PoolInv, LinesCounted, UnusedBefore
<1>3. CASE permits > 0 /\ waiting = <<>>
  <2>1. permits' = permits - 1 /\ Lend(c) /\ UNCHANGED <<waiting, shut>>
    BY <1>1, <1>3 DEF Checkout
  <2>2. /\ socket' \in [Callers -> Sockets \cup {NoSocket}]
        /\ link' \in [Sockets -> {"closed", "open", "gone"}] /\ idle' \in Seq(Sockets)
        /\ SocketsInHand' /\ InHandAlone' /\ IdleAreClean' /\ LiveIsSomewhere'
    BY <2>1, Lends
  <2>3. PICK to \in {"head", "opening"} :
              /\ stage' = [stage EXCEPT ![c] = to]
              /\ Len(idle') + (IF to = "head" THEN 1 ELSE Len(idle)) <= Len(idle)
    BY <2>1, Lends
  <2>4. to \in Borrowing /\ stage[c] \notin Holding
    BY DEF Borrowing, Holding
  <2>5. /\ PermitsCounted' /\ Cardinality(Borrowers') = Cardinality(Borrowers) + 1
        /\ Cardinality(Borrowers') <= MaxConnections /\ Cardinality(Borrowers') \in Nat
    BY <1>3, <2>1, <2>3, <2>4, OneMoreHolder
  <2>6. PlacesSuffice'
    <3>1. Len(idle') \in Nat /\ Len(idle) \in Nat /\ Cardinality(Borrowers) \in Nat
          /\ MaxConnections \in Nat
      BY <2>2, PermitsOnce
    <3>. QED
      BY <1>1, <2>3, <2>5, <3>1 DEF PlacesSuffice
  <2>7. \A d \in Callers : stage'[d] = IF d = c THEN to ELSE stage[d]
    BY <1>1, <2>3
  <2>8. ShakesAlone'
    BY <2>7 DEF ShakesAlone
  <2>9. WaitsOnce' /\ WaitsForNone'
    BY <1>3, <2>1 DEF WaitsOnce, WaitsForNone
  <2>10. PoolTypeOK'
    BY <1>1, <1>3, <2>1, <2>2, <2>3 DEF PoolInv, PoolTypeOK
  <2>. QED
    BY <1>2, <2>2, <2>5, <2>6, <2>8, <2>9, <2>10 DEF PoolInv
<1>4. CASE ~(permits > 0 /\ waiting = <<>>)
  <2>1. /\ permits = 0 \/ waiting # <<>>
        /\ waiting' = Append(waiting, c) /\ stage' = [stage EXCEPT ![c] = "queued"]
        /\ UNCHANGED <<socket, link, idle, permits, shut>>
    BY <1>1, <1>4 DEF Checkout
  <2>2. \A d \in Callers : stage'[d] = IF d = c THEN "queued" ELSE stage[d]
    BY <1>1, <2>1
  <2>3. /\ waiting' \in Seq(Callers) /\ Len(waiting') = Len(waiting) + 1 /\ Len(waiting) \in Nat
        /\ DOMAIN waiting' = 1 .. Len(waiting) + 1 /\ DOMAIN waiting = 1 .. Len(waiting)
        /\ \A i \in DOMAIN waiting' :
             waiting'[i] = IF i = Len(waiting) + 1 THEN c ELSE waiting[i]
        /\ \A i \in DOMAIN waiting : waiting[i] \in Callers
    BY <1>1, <2>1
  <2>4. WaitsOnce'
    <3>1. \A i \in DOMAIN waiting : waiting[i] # c /\ stage[waiting[i]] = "queued"
      BY <1>1 DEF WaitsOnce
    <3>2. \A i \in DOMAIN waiting' : i # Len(waiting) + 1 => i \in DOMAIN waiting
      BY <2>3
    <3>. QED
      BY <1>1, <2>2, <2>3, <3>1, <3>2 DEF WaitsOnce
  <2>5. WaitsForNone'
    BY <1>1, <2>1 DEF WaitsForNone
  <2>6. PermitsCounted' /\ PlacesSuffice'
    BY <2>1, <2>2, SameHolders DEF Holding, Borrowing
  <2>7. ShakesAlone'
    BY <2>2 DEF ShakesAlone
  <2>8. SocketsInHand' /\ InHandAlone' /\ IdleAreClean' /\ LiveIsSomewhere'
    BY <2>1, <2>2
       DEF PoolInv, SocketsInHand, InHandAlone, IdleAreClean, LiveIsSomewhere
  <2>9. PoolTypeOK'
    BY <1>1, <2>1, <2>3 DEF PoolInv, PoolTypeOK
  <2>. QED
    BY <1>2, <2>4, <2>5, <2>6, <2>7, <2>8, <2>9 DEF PoolInv
<1>. QED
  BY <1>3, <1>4

(* Steps that leave the connections, the permits and who waits alone.         *)
LEMMA Moves ==
  ASSUME PoolInv, UNCHANGED <<socket, sender, wires, hosted, h11only>>,
         stage' \in [Callers -> {"new", "locking", "shaking", "queued", "granted",
                                 "opening", "head", "body", "closing", "h2", "done"}],
         \A d \in Callers :
           \/ stage'[d] = stage[d]
           \/ {stage[d], stage'[d]} \subseteq {"new", "locking", "shaking", "h2", "done"}
           \/ stage[d] = "head" /\ stage'[d] = "body",
         lock' \in Callers \cup {Nobody}, h2' \in {"none", "up", "down"}, lines' \in Nat,
         ShakesAlone', LinesCounted'
  PROVE  PoolInv'
<1>1. UNCHANGED <<socket, sender, link, sent, heard, idle, permits, waiting, shut, h11only>>
  BY DEF wires, hosted
<1>2. PoolTypeOK'
  BY <1>1 DEF PoolInv, PoolTypeOK
<1>3. PermitsCounted' /\ PlacesSuffice'
  BY <1>1, SameHolders DEF Holding, Borrowing
<1>4. UnusedBefore'
  BY <1>1 DEF PoolInv, UnusedBefore
<1>5. SocketsInHand'
  BY <1>1 DEF PoolInv, SocketsInHand
<1>6. InHandAlone' /\ IdleAreClean' /\ LiveIsSomewhere' /\ WaitsForNone'
  BY <1>1 DEF PoolInv, InHandAlone, IdleAreClean, LiveIsSomewhere, WaitsForNone
<1>7. WaitsOnce'
  <2>1. \A i \in DOMAIN waiting : waiting[i] \in Callers
    BY DEF PoolInv, PoolTypeOK
  <2>. QED
    BY <1>1, <2>1 DEF PoolInv, WaitsOnce
<1>. QED
  BY <1>2, <1>3, <1>4, <1>5, <1>6, <1>7 DEF PoolInv

(* Steps of an exchange at the connection it has in hand.                     *)
LEMMA BorrowerAtWork ==
  ASSUME PoolInv, NEW c \in Callers, stage[c] \in {"head", "body"},
         UNCHANGED <<stage, socket, hosted, origin>>,
         sender' \in [Callers -> {"none", "running", "returned"}],
         \A d \in Callers : d # c => sender'[d] = sender[d],
         sent' \in [Sockets -> {"idle", "busy", "done"}],
         heard' \in [Sockets -> {"idle", "busy", "done"}],
         link' \in [Sockets -> {"closed", "open", "gone"}],
         \A s \in Sockets : s # socket[c] =>
           sent'[s] = sent[s] /\ heard'[s] = heard[s] /\ link'[s] = link[s],
         \A s \in Sockets : link'[s] # "closed" => link[s] # "closed"
  PROVE  PoolInv'
<1>1. UNCHANGED <<stage, socket, idle, permits, waiting, shut, lock, h2, lines, h11only>>
  BY DEF origin, hosted
<1>2. PoolTypeOK'
  BY <1>1 DEF PoolInv, PoolTypeOK
<1>3. PermitsCounted' /\ PlacesSuffice'
  BY <1>1, SameHolders
<1>4. UnusedBefore' /\ ShakesAlone' /\ LinesCounted' /\ InHandAlone' /\ WaitsOnce' /\ WaitsForNone'
  BY <1>1 DEF PoolInv, UnusedBefore, ShakesAlone, LinesCounted, InHandAlone, WaitsOnce, WaitsForNone
<1>5. SocketsInHand'
  BY <1>1 DEF PoolInv, SocketsInHand
<1>6. IdleAreClean'
  <2>1. \A i \in DOMAIN idle : idle[i] \in Sockets /\ idle[i] # socket[c]
    BY DEF PoolInv, PoolTypeOK, IdleAreClean
  <2>. QED
    BY <1>1, <2>1 DEF PoolInv, IdleAreClean
<1>7. LiveIsSomewhere'
  BY <1>1 DEF PoolInv, LiveIsSomewhere
<1>. QED
  BY <1>2, <1>3, <1>4, <1>5, <1>6, <1>7 DEF PoolInv

LEMMA PoolTyped ==
  ASSUME PoolInv
  PROVE  /\ stage \in [Callers -> {"new", "locking", "shaking", "queued", "granted",
                                   "opening", "head", "body", "closing", "h2", "done"}]
         /\ socket \in [Callers -> Sockets \cup {NoSocket}]
         /\ sender \in [Callers -> {"none", "running", "returned"}]
         /\ link \in [Sockets -> {"closed", "open", "gone"}]
         /\ sent \in [Sockets -> {"idle", "busy", "done"}]
         /\ heard \in [Sockets -> {"idle", "busy", "done"}]
         /\ idle \in Seq(Sockets) /\ permits \in Nat /\ waiting \in Seq(Callers)
         /\ shut \in BOOLEAN /\ lock \in Callers \cup {Nobody}
         /\ h2 \in {"none", "up", "down"} /\ lines \in Nat /\ h11only \in BOOLEAN
         /\ lines = (IF h2 = "up" THEN 1 ELSE 0)
         /\ \A c \in Callers : stage[c] = "shaking" => lock = c /\ ~h11only /\ h2 # "up"
         /\ \A c \in Callers :
              /\ socket[c] # NoSocket <=> stage[c] \in {"head", "body"}
              /\ sender[c] # "none" => stage[c] \in {"head", "body"}
         /\ NoSocket \notin Sockets /\ Nobody \notin Callers
  BY PoolAssumption DEF PoolInv, PoolTypeOK, LinesCounted, ShakesAlone, SocketsInHand

LEMMA BeginKeeps == ASSUME PoolInv, NEW c \in Callers, Begin(c) PROVE PoolInv'
<1>1. /\ stage[c] = "new" /\ h2' = (IF h2 = "down" THEN "none" ELSE h2)
      /\ UNCHANGED <<sender, sent, heard, lock, lines, h11only>>
  BY DEF Begin
<1>2. h2' \in {"none", "up", "down"} /\ (h2' = "up" <=> h2 = "up")
  BY <1>1, PoolTyped
<1>3. CASE h11only /\ Checkout(c)
  BY <1>1, <1>2, <1>3, PoolTyped, CheckedOut
<1>4. ASSUME NEW to \in {"h2", "locking"}, stage' = [stage EXCEPT ![c] = to],
             UNCHANGED <<socket, link, hosted>>
      PROVE  PoolInv'
  <2>1. /\ stage' \in [Callers -> {"new", "locking", "shaking", "queued", "granted",
                                   "opening", "head", "body", "closing", "h2", "done"}]
        /\ \A d \in Callers : stage'[d] = IF d = c THEN to ELSE stage[d]
    BY <1>4, PoolTyped
  <2>2. ShakesAlone' /\ LinesCounted'
    BY <1>1, <1>2, <2>1, PoolTyped DEF ShakesAlone, LinesCounted
  <2>3. UNCHANGED <<socket, sender, wires, hosted, h11only>>
    BY <1>1, <1>4 DEF wires
  <2>. QED
    BY <1>1, <1>2, <2>1, <2>2, <2>3, PoolTyped, Moves
<1>. QED
  BY <1>3, <1>4 DEF Begin

LEMMA LockedKeeps == ASSUME PoolInv, NEW c \in Callers, Locked(c) PROVE PoolInv'
<1>1. /\ stage[c] = "locking" /\ h2' = (IF h2 = "down" THEN "none" ELSE h2) /\ lock = Nobody
      /\ UNCHANGED <<sender, sent, heard, lines, h11only>>
  BY DEF Locked
<1>2. h2' \in {"none", "up", "down"} /\ (h2' = "up" <=> h2 = "up")
  BY <1>1, PoolTyped
<1>3. CASE h11only /\ Checkout(c) /\ UNCHANGED lock
  BY <1>1, <1>2, <1>3, PoolTyped, CheckedOut
<1>4. ASSUME NEW to \in {"h2", "shaking"}, stage' = [stage EXCEPT ![c] = to],
             to = "shaking" => lock' = c /\ ~h11only /\ h2 # "up",
             lock' \in {lock, c}, UNCHANGED <<socket, link, hosted>>
      PROVE  PoolInv'
  <2>1. /\ stage' \in [Callers -> {"new", "locking", "shaking", "queued", "granted",
                                   "opening", "head", "body", "closing", "h2", "done"}]
        /\ \A d \in Callers : stage'[d] = IF d = c THEN to ELSE stage[d]
    BY <1>4, PoolTyped
  <2>2. ShakesAlone' /\ LinesCounted'
    BY <1>1, <1>2, <1>4, <2>1, PoolTyped DEF ShakesAlone, LinesCounted
  <2>3. UNCHANGED <<socket, sender, wires, hosted, h11only>> /\ lock' \in Callers \cup {Nobody}
    BY <1>1, <1>4 DEF wires
  <2>. QED
    BY <1>1, <1>2, <1>4, <2>1, <2>2, <2>3, PoolTyped, Moves
<1>. QED
  BY <1>3, <1>4 DEF Locked

LEMMA ShakesH2Keeps == ASSUME PoolInv, NEW c \in Callers, ShakesH2(c) PROVE PoolInv'
<1>1. /\ stage[c] = "shaking" /\ h2' = "up" /\ lines' = lines + 1 /\ lock' = Nobody
      /\ stage' = [stage EXCEPT ![c] = "h2"] /\ UNCHANGED <<socket, sender, wires, hosted, h11only>>
  BY DEF ShakesH2
<1>2. /\ stage' \in [Callers -> {"new", "locking", "shaking", "queued", "granted",
                                 "opening", "head", "body", "closing", "h2", "done"}]
      /\ \A d \in Callers : stage'[d] = IF d = c THEN "h2" ELSE stage[d]
  BY <1>1, PoolTyped
<1>3. ShakesAlone' /\ LinesCounted' /\ lines' \in Nat
  BY <1>1, <1>2, PoolTyped DEF ShakesAlone, LinesCounted
<1>. QED
  BY <1>1, <1>2, <1>3, Moves

LEMMA ReadHeadKeeps == ASSUME PoolInv, NEW c \in Callers, ReadHead(c) PROVE PoolInv'
<1>1. /\ stage[c] = "head" /\ stage' = [stage EXCEPT ![c] = "body"]
      /\ UNCHANGED <<socket, sender, wires, hosted, lock, h2, lines, h11only>>
  BY DEF ReadHead, origin
<1>2. /\ stage' \in [Callers -> {"new", "locking", "shaking", "queued", "granted",
                                 "opening", "head", "body", "closing", "h2", "done"}]
      /\ \A d \in Callers : stage'[d] = IF d = c THEN "body" ELSE stage[d]
  BY <1>1, PoolTyped
<1>3. ShakesAlone' /\ LinesCounted'
  BY <1>1, <1>2, PoolTyped DEF ShakesAlone, LinesCounted
<1>. QED
  BY <1>1, <1>2, <1>3, PoolTyped, Moves

LEMMA GivesUpLockingKeeps == ASSUME PoolInv, NEW c \in Callers, GivesUpLocking(c) PROVE PoolInv'
<1>1. /\ stage[c] \in {"locking", "shaking"} /\ lock' = (IF lock = c THEN Nobody ELSE lock)
      /\ stage' = [stage EXCEPT ![c] = "done"]
      /\ UNCHANGED <<socket, sender, wires, hosted, h2, lines, h11only>>
  BY DEF GivesUpLocking
<1>2. /\ stage' \in [Callers -> {"new", "locking", "shaking", "queued", "granted",
                                 "opening", "head", "body", "closing", "h2", "done"}]
      /\ \A d \in Callers : stage'[d] = IF d = c THEN "done" ELSE stage[d]
  BY <1>1, PoolTyped
<1>3. ShakesAlone' /\ LinesCounted' /\ lock' \in Callers \cup {Nobody}
  BY <1>1, <1>2, PoolTyped DEF ShakesAlone, LinesCounted
<1>. QED
  BY <1>1, <1>2, <1>3, PoolTyped, Moves

(* The next request of a caller, the end of one over HTTP/2, or its line's.   *)
LEMMA TurnsKeep ==
  ASSUME PoolInv, (\E c \in Callers : EndsH2(c) \/ Again(c)) \/ LineDrops PROVE PoolInv'
<1>1. ASSUME NEW c \in Callers, EndsH2(c) \/ Again(c) PROVE PoolInv'
  <2>1. PICK to \in {"done", "new"} : stage[c] \in {"h2", "done"} /\ stage' = [stage EXCEPT ![c] = to]
    BY <1>1 DEF EndsH2, Again
  <2>2. UNCHANGED <<socket, sender, wires, hosted, lock, h2, lines, h11only>>
    BY <1>1 DEF EndsH2, Again, origin
  <2>3. /\ stage' \in [Callers -> {"new", "locking", "shaking", "queued", "granted",
                                   "opening", "head", "body", "closing", "h2", "done"}]
        /\ \A d \in Callers : stage'[d] = IF d = c THEN to ELSE stage[d]
    BY <2>1, PoolTyped
  <2>4. ShakesAlone' /\ LinesCounted'
    BY <2>2, <2>3, PoolTyped DEF ShakesAlone, LinesCounted
  <2>. QED
    BY <2>1, <2>2, <2>3, <2>4, PoolTyped, Moves
<1>2. ASSUME LineDrops PROVE PoolInv'
  <2>1. /\ h2 = "up" /\ h2' = "down" /\ lines' = lines - 1
        /\ UNCHANGED <<stage, socket, sender, wires, hosted, lock, h11only>>
    BY <1>2 DEF LineDrops, exchanges
  <2>2. ShakesAlone' /\ LinesCounted' /\ lines' \in Nat
    BY <2>1, PoolTyped DEF ShakesAlone, LinesCounted
  <2>. QED
    BY <2>1, <2>2, PoolTyped, Moves
<1>. QED
  BY <1>1, <1>2

(* What the two halves of an exchange do to its connection.                   *)
LEMMA ExchangeKeeps ==
  ASSUME PoolInv, NEW c \in Callers,
         SendHead(c) \/ SentAll(c) \/ SendStops(c) \/ SendFails(c) \/ ReadAll(c)
  PROVE  PoolInv'
<1>1. stage[c] \in {"head", "body"} /\ UNCHANGED <<stage, socket, hosted, origin>>
  BY PoolTyped DEF SendHead, SentAll, SendStops, SendFails, ReadAll, wires, exchanges
<1>2. socket[c] \in Sockets
  BY <1>1, PoolTyped
<1>3. /\ sender' \in [Callers -> {"none", "running", "returned"}]
      /\ \A d \in Callers : d # c => sender'[d] = sender[d]
  BY PoolTyped DEF SendHead, SentAll, SendStops, SendFails, ReadAll, exchanges
<1>4. /\ sent' \in [Sockets -> {"idle", "busy", "done"}]
      /\ \A s \in Sockets : s # socket[c] => sent'[s] = sent[s]
  BY <1>2, PoolTyped DEF SendHead, SentAll, SendStops, SendFails, ReadAll, wires
<1>5. /\ heard' \in [Sockets -> {"idle", "busy", "done"}]
      /\ \A s \in Sockets : s # socket[c] => heard'[s] = heard[s]
  BY <1>2, PoolTyped DEF SendHead, SentAll, SendStops, SendFails, ReadAll, wires
<1>6. /\ link' \in [Sockets -> {"closed", "open", "gone"}]
      /\ \A s \in Sockets : s # socket[c] => link'[s] = link[s]
      /\ \A s \in Sockets : link'[s] # "closed" => link[s] # "closed"
  BY <1>2, PoolTyped DEF SendHead, SentAll, SendStops, SendFails, ReadAll, wires
<1>. QED
  BY <1>1, <1>3, <1>4, <1>5, <1>6, BorrowerAtWork

LEMMA HangsUpKeeps == ASSUME PoolInv, NEW s \in Sockets, HangsUp(s) PROVE PoolInv'
<1>1. /\ link[s] = "open" /\ link' = [link EXCEPT ![s] = "gone"]
      /\ UNCHANGED <<stage, socket, sender, sent, heard, idle, permits, waiting, shut, lock, h2,
                     lines, h11only>>
  BY DEF HangsUp, exchanges, hosted, origin
<1>2. link' \in [Sockets -> {"closed", "open", "gone"}]
      /\ \A t \in Sockets : link'[t] = "closed" <=> link[t] = "closed"
  BY <1>1, PoolTyped
<1>3. PermitsCounted' /\ PlacesSuffice'
  BY <1>1, SameHolders
<1>4. PoolTypeOK'
  BY <1>1, <1>2 DEF PoolInv, PoolTypeOK
<1>5. \A i \in DOMAIN idle : idle[i] \in Sockets
  BY PoolTyped
<1>6. IdleAreClean' /\ LiveIsSomewhere'
  BY <1>1, <1>2, <1>5 DEF PoolInv, IdleAreClean, LiveIsSomewhere
<1>7. UnusedBefore' /\ ShakesAlone' /\ LinesCounted' /\ SocketsInHand' /\ InHandAlone'
  BY <1>1 DEF PoolInv, UnusedBefore, ShakesAlone, LinesCounted, SocketsInHand, InHandAlone
<1>8. WaitsOnce' /\ WaitsForNone'
  BY <1>1 DEF PoolInv, WaitsOnce, WaitsForNone
<1>. QED
  BY <1>3, <1>4, <1>6, <1>7, <1>8 DEF PoolInv

LEMMA ShutKeeps == ASSUME PoolInv, Shut PROVE PoolInv'
<1>1. /\ shut' = TRUE /\ idle' = <<>>
      /\ link' = [s \in Sockets |-> IF s \in Unusable(0) THEN "closed" ELSE link[s]]
      /\ UNCHANGED <<stage, socket, sender, sent, heard, permits, waiting, lock, h2,
                     lines, h11only>>
  BY DEF Shut, exchanges, origin
<1>2. PermitsCounted' /\ PlacesSuffice'
  <2>1. Holders' = Holders /\ Borrowers' = Borrowers
    BY <1>1 DEF Holders, Borrowers
  <2>2. Len(idle') = 0
    BY <1>1
  <2>. QED
    BY <1>1, <2>1, <2>2, PermitsOnce DEF PoolInv, PermitsCounted, PlacesSuffice
<1>3. PoolTypeOK'
  BY <1>1 DEF PoolInv, PoolTypeOK
<1>4. \A j \in DOMAIN idle : idle[j] \in Unusable(0)
  BY PoolTyped DEF Unusable
<1>5. LiveIsSomewhere'
  BY <1>1, <1>4, PoolTyped DEF PoolInv, LiveIsSomewhere
<1>6. IdleAreClean' /\ UnusedBefore'
  BY <1>1 DEF PoolInv, IdleAreClean, UnusedBefore
<1>7. ShakesAlone' /\ LinesCounted' /\ SocketsInHand' /\ InHandAlone'
  BY <1>1 DEF PoolInv, ShakesAlone, LinesCounted, SocketsInHand, InHandAlone
<1>8. WaitsOnce' /\ WaitsForNone'
  BY <1>1 DEF PoolInv, WaitsOnce, WaitsForNone
<1>. QED
  BY <1>2, <1>3, <1>5, <1>6, <1>7, <1>8 DEF PoolInv

(* A connection that is aborted: its permit waits for the transport.          *)
LEMMA DiscardsKeeps ==
  ASSUME PoolInv, NEW c \in Callers, stage[c] \in {"head", "body"}, Discards(c),
         sender' = [sender EXCEPT ![c] = "none"], UNCHANGED <<shut, origin>>
  PROVE  PoolInv'
<1>1. socket[c] \in Sockets
  BY PoolTyped
<1>2. /\ stage' = [stage EXCEPT ![c] = "closing"] /\ socket' = [socket EXCEPT ![c] = NoSocket]
      /\ link' = [link EXCEPT ![socket[c]] = "closed"]
      /\ UNCHANGED <<sent, heard, idle, permits, waiting, shut, lock, h2, lines, h11only>>
  BY DEF Discards, origin
<1>3. /\ \A d \in Callers : stage'[d] = IF d = c THEN "closing" ELSE stage[d]
      /\ \A d \in Callers : socket'[d] = IF d = c THEN NoSocket ELSE socket[d]
      /\ \A d \in Callers : sender'[d] = IF d = c THEN "none" ELSE sender[d]
      /\ \A t \in Sockets : link'[t] = IF t = socket[c] THEN "closed" ELSE link[t]
  BY <1>1, <1>2, PoolTyped
<1>4. PoolTypeOK'
  BY <1>1, <1>2, PoolTyped DEF PoolTypeOK
<1>5. PermitsCounted' /\ PlacesSuffice'
  BY <1>2, <1>3, SameHolders DEF Holding, Borrowing
<1>6. \A i \in DOMAIN idle : idle[i] \in Sockets /\ idle[i] # socket[c]
  BY PoolTyped DEF PoolInv, IdleAreClean
<1>7. IdleAreClean'
  BY <1>2, <1>3, <1>6, PoolTyped DEF PoolInv, IdleAreClean
<1>8. LiveIsSomewhere'
  BY <1>2, <1>3 DEF PoolInv, LiveIsSomewhere
<1>9. UnusedBefore' /\ ShakesAlone' /\ LinesCounted' /\ SocketsInHand' /\ InHandAlone'
  BY <1>2, <1>3, PoolTyped
     DEF PoolInv, UnusedBefore, ShakesAlone, LinesCounted, SocketsInHand, InHandAlone
<1>10. WaitsOnce' /\ WaitsForNone'
  <2>1. \A i \in DOMAIN waiting : waiting[i] \in Callers
    BY PoolTyped
  <2>. QED
    BY <1>2, <1>3, <2>1 DEF PoolInv, WaitsOnce, WaitsForNone
<1>. QED
  BY <1>4, <1>5, <1>7, <1>8, <1>9, <1>10 DEF PoolInv

(* A connection that is kept: it was its borrower's alone.                    *)
LEMMA KeepsKeeps ==
  ASSUME PoolInv, NEW c \in Callers, stage[c] = "body", link[socket[c]] = "open", Keeps(c),
         sender' = [sender EXCEPT ![c] = "none"], UNCHANGED <<shut, origin>>
  PROVE  PoolInv'
<1>1. socket[c] \in Sockets /\ stage[c] \in Holding /\ stage[c] \in Borrowing
  BY PoolTyped DEF Holding, Borrowing
<1>2. /\ idle' = Append(idle, socket[c]) /\ socket' = [socket EXCEPT ![c] = NoSocket]
      /\ sent' = [sent EXCEPT ![socket[c]] = "idle"] /\ heard' = [heard EXCEPT ![socket[c]] = "idle"]
      /\ GiveBack(c) /\ UNCHANGED <<link, shut, lock, h2, lines, h11only>>
  BY DEF Keeps, origin
<1>3. /\ permits' \in Nat /\ waiting' \in Seq(Callers)
      /\ stage' \in [Callers -> {"new", "locking", "shaking", "queued", "granted",
                                 "opening", "head", "body", "closing", "h2", "done"}]
      /\ stage'[c] = "done"
      /\ \A d \in Callers : d # c => \/ stage'[d] = stage[d]
                                     \/ stage[d] = "queued" /\ stage'[d] = "granted"
      /\ WaitsOnce' /\ WaitsForNone' /\ PermitsCounted'
      /\ Cardinality(Borrowers') = Cardinality(Borrowers) - 1 /\ Cardinality(Borrowers') \in Nat
  BY <1>1, <1>2, GivesBack
<1>4. /\ \A d \in Callers : socket'[d] = IF d = c THEN NoSocket ELSE socket[d]
      /\ \A d \in Callers : sender'[d] = IF d = c THEN "none" ELSE sender[d]
      /\ \A t \in Sockets : sent'[t] = IF t = socket[c] THEN "idle" ELSE sent[t]
      /\ \A t \in Sockets : heard'[t] = IF t = socket[c] THEN "idle" ELSE heard[t]
  BY <1>1, <1>2, PoolTyped
<1>5. /\ idle' \in Seq(Sockets) /\ Len(idle') = Len(idle) + 1 /\ Len(idle) \in Nat
      /\ DOMAIN idle' = 1 .. Len(idle) + 1 /\ DOMAIN idle = 1 .. Len(idle)
      /\ \A i \in DOMAIN idle' : idle'[i] = IF i = Len(idle) + 1 THEN socket[c] ELSE idle[i]
  BY <1>1, <1>2, PoolTyped
<1>6. PoolTypeOK'
  BY <1>1, <1>2, <1>3, <1>5, PoolTyped DEF PoolTypeOK
<1>7. PlacesSuffice'
  <2>1. Cardinality(Borrowers) + Len(idle) <= MaxConnections
    BY DEF PoolInv, PlacesSuffice
  <2>. QED
    BY <1>3, <1>5, <2>1, PermitsOnce DEF PlacesSuffice
<1>8. \A i \in DOMAIN idle : idle[i] \in Sockets /\ idle[i] # socket[c]
  BY PoolTyped DEF PoolInv, IdleAreClean
<1>9. \A i \in DOMAIN idle' : i = Len(idle) + 1 \/ i \in DOMAIN idle
  BY <1>5
<1>10. IdleAreClean'
  <2>1. ASSUME NEW i \in DOMAIN idle'
        PROVE  /\ sent'[idle'[i]] = "idle" /\ heard'[idle'[i]] = "idle" /\ link'[idle'[i]] # "closed"
               /\ \A d \in Callers : socket'[d] # idle'[i]
    <3>1. CASE i = Len(idle) + 1
      BY <1>1, <1>2, <1>4, <1>5, <3>1, PoolTyped DEF PoolInv, InHandAlone
    <3>2. CASE i \in DOMAIN idle
      <4>1. idle'[i] = idle[i]
        BY <1>5, <3>2
      <4>. QED
        BY <1>2, <1>4, <1>8, <3>2, <4>1, PoolTyped DEF PoolInv, IdleAreClean
    <3>. QED
      BY <1>9, <3>1, <3>2
  <2>2. \A i, j \in DOMAIN idle' : i # j => idle'[i] # idle'[j]
    BY <1>5, <1>8, <1>9 DEF PoolInv, IdleAreClean
  <2>. QED
    BY <2>1, <2>2 DEF IdleAreClean
<1>11. LiveIsSomewhere'
  <2>1. SUFFICES ASSUME NEW t \in Sockets, link'[t] # "closed"
                 PROVE  (\E i \in DOMAIN idle' : idle'[i] = t) \/ (\E d \in Callers : socket'[d] = t)
    BY DEF LiveIsSomewhere
  <2>2. CASE t = socket[c]
    <3>1. Len(idle) + 1 \in DOMAIN idle' /\ idle'[Len(idle) + 1] = t
      BY <1>5, <2>2
    <3>. QED
      BY <3>1
  <2>3. CASE t # socket[c]
    <3>1. (\E i \in DOMAIN idle : idle[i] = t) \/ (\E d \in Callers : socket[d] = t)
      BY <1>2, <2>1 DEF PoolInv, LiveIsSomewhere
    <3>2. \A i \in DOMAIN idle : i \in DOMAIN idle' /\ idle'[i] = idle[i]
      BY <1>5
    <3>. QED
      BY <1>4, <2>3, <3>1, <3>2
  <2>. QED
    BY <2>2, <2>3
<1>12. ShakesAlone' /\ LinesCounted'
  <2>1. \A d \in Callers : stage'[d] = "shaking" => stage[d] = "shaking"
    BY <1>3
  <2>. QED
    BY <1>2, <2>1 DEF PoolInv, ShakesAlone, LinesCounted
<1>13. UnusedBefore'
  BY <1>2 DEF PoolInv, UnusedBefore
<1>14. SocketsInHand'
  <2>1. \A d \in Callers : d # c => (stage'[d] \in {"head", "body"} <=> stage[d] \in {"head", "body"})
    BY <1>3
  <2>. QED
    BY <1>3, <1>4, <2>1 DEF PoolInv, SocketsInHand
<1>15. InHandAlone'
  BY <1>4 DEF PoolInv, InHandAlone
<1>. QED
  BY <1>3, <1>6, <1>7, <1>10, <1>11, <1>12, <1>13, <1>14, <1>15 DEF PoolInv

LEMMA ReleaseKeepsPool == ASSUME PoolInv, NEW c \in Callers, Release(c) \/ HeadFails(c) PROVE PoolInv'
<1>1. CASE HeadFails(c)
  <2>1. stage[c] = "head" /\ Discards(c) /\ sender' = [sender EXCEPT ![c] = "none"]
        /\ UNCHANGED <<shut, origin>>
    BY <1>1 DEF HeadFails
  <2>. QED
    BY <2>1, DiscardsKeeps
<1>2. CASE Release(c)
  <2>1. /\ stage[c] = "body" /\ sender' = [sender EXCEPT ![c] = "none"] /\ UNCHANGED <<shut, origin>>
        /\ \/ Keeps(c) /\ link[socket[c]] = "open"
           \/ Discards(c)
    BY <1>2 DEF Release, Reusable
  <2>. QED
    BY <2>1, DiscardsKeeps, KeepsKeeps
<1>. QED
  BY <1>1, <1>2

(* A permit that comes back without a connection.                             *)
LEMMA GivesBackKeeps ==
  ASSUME PoolInv, NEW c \in Callers, stage[c] \in {"granted", "opening", "closing"}, GiveBack(c),
         UNCHANGED <<socket, sender, link, sent, heard, idle, shut, origin>>
  PROVE  PoolInv'
<1>1. stage[c] \in Holding
  BY DEF Holding
<1>2. UNCHANGED <<socket, sender, link, sent, heard, idle, shut, lock, h2, lines, h11only>>
  BY DEF origin
<1>3. /\ permits' \in Nat /\ waiting' \in Seq(Callers)
      /\ stage' \in [Callers -> {"new", "locking", "shaking", "queued", "granted",
                                 "opening", "head", "body", "closing", "h2", "done"}]
      /\ stage'[c] = "done"
      /\ \A d \in Callers : d # c => \/ stage'[d] = stage[d]
                                     \/ stage[d] = "queued" /\ stage'[d] = "granted"
      /\ WaitsOnce' /\ WaitsForNone' /\ PermitsCounted'
      /\ Cardinality(Borrowers') = Cardinality(Borrowers) - (IF stage[c] \in Borrowing THEN 1 ELSE 0)
      /\ Cardinality(Borrowers') \in Nat
  BY <1>1, GivesBack
<1>4. PoolTypeOK'
  BY <1>2, <1>3 DEF PoolInv, PoolTypeOK
<1>5. PlacesSuffice'
  <2>1. Cardinality(Borrowers) + Len(idle) <= MaxConnections
    BY DEF PoolInv, PlacesSuffice
  <2>2. Cardinality(Borrowers') <= Cardinality(Borrowers)
    BY <1>3, PermitsOnce
  <2>. QED
    BY <1>2, <1>3, <2>1, <2>2, PermitsOnce DEF PlacesSuffice
<1>6. IdleAreClean' /\ LiveIsSomewhere' /\ InHandAlone'
  BY <1>2 DEF PoolInv, IdleAreClean, LiveIsSomewhere, InHandAlone
<1>7. \A d \in Callers : /\ stage'[d] = "shaking" <=> stage[d] = "shaking"
                         /\ stage'[d] \in {"head", "body"} <=> stage[d] \in {"head", "body"}
  <2>. SUFFICES ASSUME NEW d \in Callers
                PROVE  /\ stage'[d] = "shaking" <=> stage[d] = "shaking"
                       /\ stage'[d] \in {"head", "body"} <=> stage[d] \in {"head", "body"}
    OBVIOUS
  <2>1. CASE d = c
    BY <1>3, <2>1
  <2>2. CASE d # c
    BY <1>3, <2>2
  <2>. QED
    BY <2>1, <2>2
<1>8. ShakesAlone' /\ LinesCounted' /\ SocketsInHand'
  BY <1>2, <1>7, PoolTyped DEF ShakesAlone, LinesCounted, SocketsInHand
<1>9. UnusedBefore'
  BY <1>2 DEF PoolInv, UnusedBefore
<1>. QED
  BY <1>3, <1>4, <1>5, <1>6, <1>8, <1>9 DEF PoolInv

LEMMA ReturnsKeep == ASSUME PoolInv, NEW c \in Callers, Closed(c) \/ GivesUpHolding(c) PROVE PoolInv'
<1>1. CASE Closed(c)
  <2>1. /\ stage[c] = "closing" /\ GiveBack(c)
        /\ UNCHANGED <<socket, sender, link, sent, heard, idle, shut, origin>>
    BY <1>1 DEF Closed, wires
  <2>. QED
    BY <2>1, GivesBackKeeps
<1>2. CASE GivesUpHolding(c)
  <2>1. /\ stage[c] \in {"granted", "opening"} /\ GiveBack(c)
        /\ link' = [s \in Sockets |-> IF s = socket[c] THEN "closed" ELSE link[s]]
        /\ socket' = [socket EXCEPT ![c] = NoSocket]
        /\ UNCHANGED <<sender, sent, heard, idle, shut, origin>>
    BY <1>2 DEF GivesUpHolding
  <2>2. socket[c] = NoSocket
    BY <2>1, PoolTyped
  <2>3. UNCHANGED <<socket, link>>
    BY <2>1, <2>2, PoolTyped
  <2>. QED
    BY <2>1, <2>3, GivesBackKeeps
<1>. QED
  BY <1>1, <1>2

LEMMA GivesUpQueuedKeeps == ASSUME PoolInv, NEW c \in Callers, GivesUpQueued(c) PROVE PoolInv'
<1>1. PICK k \in DOMAIN waiting :
        /\ waiting[k] = c
        /\ waiting' = SubSeq(waiting, 1, k - 1) \o SubSeq(waiting, k + 1, Len(waiting))
  BY DEF GivesUpQueued
<1>2. /\ stage[c] = "queued" /\ stage' = [stage EXCEPT ![c] = "done"]
      /\ link' = [s \in Sockets |-> IF s = socket[c] THEN "closed" ELSE link[s]]
      /\ socket' = [socket EXCEPT ![c] = NoSocket]
      /\ UNCHANGED <<sender, sent, heard, idle, permits, shut, lock, h2, lines, h11only>>
  BY DEF GivesUpQueued, origin
<1>3. UNCHANGED <<socket, link>>
  <2>1. socket[c] = NoSocket
    BY <1>2, PoolTyped
  <2>. QED
    BY <1>2, <2>1, PoolTyped
<1>4. k \in 1 .. Len(waiting) /\ Len(waiting) \in Nat /\ DOMAIN waiting = 1 .. Len(waiting)
  BY PoolTyped
<1>5. /\ waiting' \in Seq(Callers) /\ Len(waiting') = Len(waiting) - 1
      /\ \A i \in DOMAIN waiting' : waiting'[i] = waiting[IF i < k THEN i ELSE i + 1]
  <2>. DEFINE front == SubSeq(waiting, 1, k - 1)
              back == SubSeq(waiting, k + 1, Len(waiting))
  <2>1. /\ front \in Seq(Callers) /\ Len(front) = k - 1
        /\ \A i \in 1 .. k - 1 : front[i] = waiting[i]
    BY <1>4, PoolTyped, SubSeqProperties
  <2>2. /\ back \in Seq(Callers) /\ Len(back) = Len(waiting) - k
        /\ \A i \in 1 .. Len(waiting) - k : back[i] = waiting[i + k]
    <3>1. /\ k + 1 \in 1 .. Len(waiting) + 1 /\ Len(waiting) \in k .. Len(waiting)
          /\ waiting \in Seq(Callers)
      BY <1>4, PoolTyped
    <3>2. /\ back \in Seq(Callers)
          /\ Len(back) = IF k + 1 <= Len(waiting) THEN Len(waiting) - (k + 1) + 1 ELSE 0
          /\ \A i \in 1 .. Len(waiting) - (k + 1) + 1 : back[i] = waiting[k + 1 + i - 1]
      BY <3>1, SubSeqProperties
    <3>. HIDE DEF back
    <3>3. Len(back) = Len(waiting) - k /\ Len(waiting) - (k + 1) + 1 = Len(waiting) - k
      BY <1>4, <3>2
    <3>4. \A i \in 1 .. Len(waiting) - k : k + 1 + i - 1 = i + k
      BY <1>4
    <3>. QED
      BY ONLY <3>2, <3>3, <3>4
  <2>. HIDE DEF front, back
  <2>3. waiting' = front \o back
    BY <1>1 DEF front, back
  <2>4. /\ waiting' \in Seq(Callers) /\ Len(waiting') = Len(waiting) - 1
        /\ \A i \in 1 .. Len(waiting) - 1 :
             waiting'[i] = IF i < k THEN front[i] ELSE back[i - (k - 1)]
    <3>1. /\ front \o back \in Seq(Callers) /\ Len(front \o back) = Len(front) + Len(back)
          /\ \A i \in 1 .. Len(front) + Len(back) :
               (front \o back)[i] = IF i <= Len(front) THEN front[i] ELSE back[i - Len(front)]
      BY <2>1, <2>2, ConcatProperties
    <3>2. Len(front) + Len(back) = Len(waiting) - 1
      BY <1>4, <2>1, <2>2
    <3>3. \A i \in 1 .. Len(waiting) - 1 : i <= Len(front) <=> i < k
      BY <1>4, <2>1
    <3>. QED
      BY <2>1, <2>3, <3>1, <3>2, <3>3
  <2>5. \A i \in 1 .. Len(waiting) - 1 :
          /\ i < k => i \in 1 .. k - 1
          /\ ~(i < k) => i - (k - 1) \in 1 .. Len(waiting) - k /\ (i - (k - 1)) + k = i + 1
    BY <1>4
  <2>6. DOMAIN waiting' = 1 .. Len(waiting) - 1
    BY <2>4
  <2>. QED
    BY ONLY <1>4, <2>1, <2>2, <2>4, <2>5, <2>6
<1>6. \A d \in Callers : stage'[d] = IF d = c THEN "done" ELSE stage[d]
  BY <1>2, PoolTyped
<1>7. /\ \A i \in DOMAIN waiting : waiting[i] \in Callers /\ stage[waiting[i]] = "queued"
      /\ \A i, j \in DOMAIN waiting : waiting[i] = waiting[j] => i = j
  BY PoolTyped DEF PoolInv, WaitsOnce
<1>8. WaitsOnce'
  <2>1. /\ DOMAIN waiting' = 1 .. Len(waiting) - 1
        /\ \A i \in DOMAIN waiting' : (IF i < k THEN i ELSE i + 1) \in DOMAIN waiting
                                      /\ (IF i < k THEN i ELSE i + 1) # k
    BY <1>4, <1>5
  <2>2. ASSUME NEW i \in DOMAIN waiting'
        PROVE  waiting'[i] \in Callers /\ waiting'[i] # c /\ stage[waiting'[i]] = "queued"
    <3>1. PICK m \in DOMAIN waiting : m # k /\ waiting'[i] = waiting[m]
      BY <1>5, <2>1
    <3>. QED
      BY <1>1, <1>7, <3>1
  <2>3. \A i, j \in DOMAIN waiting' : waiting'[i] = waiting'[j] => i = j
    BY <1>4, <1>5, <1>7, <2>1
  <2>. QED
    BY <1>6, <2>2, <2>3 DEF WaitsOnce
<1>9. WaitsForNone'
  <2>1. waiting # <<>>
    BY <1>4
  <2>. QED
    BY <1>2, <2>1 DEF PoolInv, WaitsForNone
<1>10. PermitsCounted' /\ PlacesSuffice'
  BY <1>2, <1>6, SameHolders DEF Holding, Borrowing
<1>11. PoolTypeOK'
  BY <1>2, <1>3, <1>5, PoolTyped DEF PoolTypeOK
<1>12. IdleAreClean' /\ LiveIsSomewhere' /\ InHandAlone'
  BY <1>2, <1>3 DEF PoolInv, IdleAreClean, LiveIsSomewhere, InHandAlone
<1>13. ShakesAlone' /\ LinesCounted' /\ SocketsInHand'
  BY <1>2, <1>3, <1>6, PoolTyped DEF ShakesAlone, LinesCounted, SocketsInHand
<1>14. UnusedBefore'
  BY <1>2 DEF PoolInv, UnusedBefore
<1>. QED
  BY <1>8, <1>9, <1>10, <1>11, <1>12, <1>13, <1>14 DEF PoolInv

LEMMA GrantedKeeps == ASSUME PoolInv, NEW c \in Callers, Granted(c) PROVE PoolInv'
<1>1. /\ stage[c] = "granted" /\ Lend(c)
      /\ UNCHANGED <<sender, sent, heard, permits, waiting, shut, lock, h2, lines, h11only>>
  BY DEF Granted, origin
<1>2. /\ socket' \in [Callers -> Sockets \cup {NoSocket}]
      /\ link' \in [Sockets -> {"closed", "open", "gone"}] /\ idle' \in Seq(Sockets)
      /\ SocketsInHand' /\ InHandAlone' /\ IdleAreClean' /\ LiveIsSomewhere'
  BY <1>1, Lends
<1>3. PICK to \in {"head", "opening"} :
            /\ stage' = [stage EXCEPT ![c] = to]
            /\ Len(idle') + (IF to = "head" THEN 1 ELSE Len(idle)) <= Len(idle)
  BY <1>1, Lends
<1>4. to \in Borrowing
  BY DEF Borrowing
<1>5. /\ PermitsCounted' /\ Cardinality(Borrowers') = Cardinality(Borrowers) + 1
      /\ Cardinality(Borrowers') <= MaxConnections /\ Cardinality(Borrowers') \in Nat
  BY <1>1, <1>3, <1>4, GrantedBorrows
<1>6. PlacesSuffice'
  <2>1. Len(idle') \in Nat /\ Len(idle) \in Nat /\ Cardinality(Borrowers) \in Nat
        /\ MaxConnections \in Nat
    BY <1>2, PermitsOnce
  <2>2. Cardinality(Borrowers) + Len(idle) <= MaxConnections
    BY DEF PoolInv, PlacesSuffice
  <2>. QED
    BY <1>3, <1>5, <2>1, <2>2 DEF PlacesSuffice
<1>7. \A d \in Callers : stage'[d] = IF d = c THEN to ELSE stage[d]
  BY <1>3, PoolTyped
<1>8. ShakesAlone' /\ LinesCounted'
  BY <1>1, <1>7, PoolTyped DEF ShakesAlone, LinesCounted
<1>9. WaitsOnce' /\ WaitsForNone'
  <2>1. \A i \in DOMAIN waiting : waiting[i] \in Callers /\ stage[waiting[i]] = "queued"
    BY PoolTyped DEF PoolInv, WaitsOnce
  <2>. QED
    BY <1>1, <1>7, <2>1 DEF PoolInv, WaitsOnce, WaitsForNone
<1>10. UnusedBefore'
  BY <1>1 DEF PoolInv, UnusedBefore
<1>11. PoolTypeOK'
  BY <1>1, <1>2, <1>3, PoolTyped DEF PoolTypeOK
<1>. QED
  BY <1>2, <1>5, <1>6, <1>8, <1>9, <1>10, <1>11 DEF PoolInv

(* A new connection is in nobody's hands and not among the idle ones.         *)
LEMMA NewIsNobodys ==
  ASSUME PoolInv, NEW s \in Sockets, New(s)
  PROVE  /\ link[s] = "closed" /\ \A d \in Callers : socket[d] # s
         /\ \A i \in DOMAIN idle : idle[i] \in Sockets /\ idle[i] # s
<1>1. s \in Unheld
  BY DEF New
<1>2. link[s] = "closed" /\ \A d \in Callers : socket[d] # s
  BY <1>1 DEF Unheld
<1>. QED
  BY <1>2, PoolTyped DEF PoolInv, IdleAreClean

LEMMA OpenedIsClean ==
  ASSUME PoolInv, NEW c \in Callers, NEW s \in Sockets, New(s), stage[c] \in {"shaking", "opening"},
         stage' = [stage EXCEPT ![c] = "head"], socket' = [socket EXCEPT ![c] = s],
         link' = [link EXCEPT ![s] = "open"], sent' = [sent EXCEPT ![s] = "idle"],
         heard' = [heard EXCEPT ![s] = "idle"], UNCHANGED <<sender, idle>>
  PROVE  SocketsInHand' /\ InHandAlone' /\ IdleAreClean' /\ LiveIsSomewhere'
<1>1. /\ \A d \in Callers : stage'[d] = IF d = c THEN "head" ELSE stage[d]
      /\ \A d \in Callers : socket'[d] = IF d = c THEN s ELSE socket[d]
      /\ \A t \in Sockets : link'[t] = IF t = s THEN "open" ELSE link[t]
      /\ \A t \in Sockets : sent'[t] = IF t = s THEN "idle" ELSE sent[t]
      /\ \A t \in Sockets : heard'[t] = IF t = s THEN "idle" ELSE heard[t]
  BY PoolTyped
<1>2. SocketsInHand' /\ InHandAlone'
  BY <1>1, PoolTyped, NewIsNobodys DEF PoolInv, SocketsInHand, InHandAlone
<1>3. IdleAreClean'
  BY <1>1, NewIsNobodys DEF PoolInv, IdleAreClean
<1>4. socket[c] = NoSocket
  BY PoolTyped
<1>5. LiveIsSomewhere'
  <2>1. ASSUME NEW t \in Sockets, t # s, link[t] # "closed"
        PROVE  (\E i \in DOMAIN idle : idle[i] = t) \/ (\E d \in Callers : socket'[d] = t)
    <3>1. (\E i \in DOMAIN idle : idle[i] = t) \/ (\E d \in Callers : socket[d] = t)
      BY <2>1 DEF PoolInv, LiveIsSomewhere
    <3>2. \A d \in Callers : socket[d] = t => d # c
      BY <1>4, PoolTyped
    <3>. QED
      BY <1>1, <3>1, <3>2
  <2>. QED
    BY <1>1, <2>1 DEF LiveIsSomewhere
<1>. QED
  BY <1>2, <1>3, <1>5

LEMMA OpensKeeps ==
  ASSUME PoolInv, NEW c \in Callers, NEW s \in Sockets, Opens(c, s) PROVE PoolInv'
<1>1. /\ stage[c] = "opening" /\ New(s) /\ stage' = [stage EXCEPT ![c] = "head"]
      /\ socket' = [socket EXCEPT ![c] = s] /\ link' = [link EXCEPT ![s] = "open"]
      /\ sent' = [sent EXCEPT ![s] = "idle"] /\ heard' = [heard EXCEPT ![s] = "idle"]
      /\ UNCHANGED <<sender, idle, permits, waiting, shut, lock, h2, lines, h11only>>
  BY DEF Opens, hosted, origin
<1>2. SocketsInHand' /\ InHandAlone' /\ IdleAreClean' /\ LiveIsSomewhere'
  BY <1>1, OpenedIsClean
<1>3. \A d \in Callers : stage'[d] = IF d = c THEN "head" ELSE stage[d]
  BY <1>1, PoolTyped
<1>4. PermitsCounted' /\ PlacesSuffice'
  BY <1>1, <1>3, SameHolders DEF Holding, Borrowing
<1>5. PoolTypeOK'
  BY <1>1, PoolTyped DEF PoolTypeOK
<1>6. ShakesAlone' /\ LinesCounted'
  BY <1>1, <1>3, PoolTyped DEF ShakesAlone, LinesCounted
<1>7. UnusedBefore'
  BY <1>1 DEF PoolInv, UnusedBefore
<1>8. WaitsOnce' /\ WaitsForNone'
  <2>1. \A i \in DOMAIN waiting : waiting[i] \in Callers
    BY PoolTyped
  <2>. QED
    BY <1>1, <1>3, <2>1 DEF PoolInv, WaitsOnce, WaitsForNone
<1>. QED
  BY <1>2, <1>4, <1>5, <1>6, <1>7, <1>8 DEF PoolInv

(* The first connection of an origin finds every permit free: nobody borrowed *)
(* before its protocol was known.                                             *)
LEMMA FallsKeeps ==
  ASSUME PoolInv, NEW c \in Callers, NEW s \in Sockets, Falls(c, s) PROVE PoolInv'
<1>1. /\ stage[c] = "shaking" /\ New(s) /\ h11only' = TRUE /\ lock' = Nobody
      /\ socket' = [socket EXCEPT ![c] = s] /\ link' = [link EXCEPT ![s] = "open"]
      /\ sent' = [sent EXCEPT ![s] = "idle"] /\ heard' = [heard EXCEPT ![s] = "idle"]
      /\ UNCHANGED <<sender, idle, shut, h2, lines>>
  BY DEF Falls
<1>2. ~h11only /\ lock = c /\ h2 # "up"
  BY <1>1, PoolTyped
<1>3. /\ \A d \in Callers : stage[d] \in {"new", "locking", "shaking", "h2", "done"}
      /\ idle = <<>> /\ waiting = <<>>
  BY <1>2 DEF PoolInv, UnusedBefore
<1>4. permits = MaxConnections /\ permits > 0
  <2>1. Holders = {} /\ Cardinality({}) = 0
    BY <1>3, FS_EmptySet DEF Holders, Holding
  <2>. QED
    BY <2>1, PermitsOnce DEF PoolInv, PermitsCounted
<1>5. permits' = permits - 1 /\ stage' = [stage EXCEPT ![c] = "head"] /\ waiting' = waiting
  BY <1>3, <1>4 DEF Falls
<1>6. SocketsInHand' /\ InHandAlone' /\ IdleAreClean' /\ LiveIsSomewhere'
  BY <1>1, <1>5, OpenedIsClean
<1>7. \A d \in Callers : stage'[d] = IF d = c THEN "head" ELSE stage[d]
  BY <1>5, PoolTyped
<1>8. "head" \in Borrowing /\ stage[c] \notin Holding
  BY <1>1 DEF Borrowing, Holding
<1>9. /\ PermitsCounted' /\ Cardinality(Borrowers') <= MaxConnections
      /\ Cardinality(Borrowers') \in Nat
  BY <1>4, <1>5, <1>8, OneMoreHolder
<1>10. PlacesSuffice'
  <2>1. Len(idle') = 0
    BY <1>1, <1>3
  <2>. QED
    BY <1>9, <2>1, PermitsOnce DEF PlacesSuffice
<1>11. ShakesAlone' /\ LinesCounted' /\ UnusedBefore'
  <2>1. \A d \in Callers : stage'[d] # "shaking"
    BY <1>2, <1>7, PoolTyped
  <2>. QED
    BY <1>1, <2>1, PoolTyped DEF ShakesAlone, LinesCounted, UnusedBefore
<1>12. WaitsOnce' /\ WaitsForNone'
  BY <1>3, <1>5 DEF WaitsOnce, WaitsForNone
<1>13. PoolTypeOK'
  BY <1>1, <1>4, <1>5, PoolTyped DEF PoolTypeOK
<1>. QED
  BY <1>6, <1>9, <1>10, <1>11, <1>12, <1>13 DEF PoolInv

LEMMA PoolStarts == ASSUME PoolInit PROVE PoolInv
<1>0. permits \in 0 .. MaxConnections /\ idle \in Seq(Sockets) /\ waiting \in Seq(Callers)
  <2>1. permits \in 0 .. MaxConnections
    BY PoolAssumption DEF PoolInit
  <2>2. idle = << >> /\ waiting = << >>
    BY DEF PoolInit
  <2>. QED
    BY <2>1, <2>2, EmptySeq
<1>1. PoolTypeOK
  <2>1. /\ permits \in Nat
        /\ lines \in Nat /\ lock \in Callers \cup {Nobody}
        /\ shut \in BOOLEAN /\ h11only \in BOOLEAN /\ h2 \in {"none", "up", "down"}
    BY <1>0, PoolAssumption DEF PoolInit
  <2>2. /\ stage \in [Callers -> {"new", "locking", "shaking", "queued", "granted",
                                  "opening", "head", "body", "closing", "h2", "done"}]
        /\ socket \in [Callers -> Sockets \cup {NoSocket}]
        /\ sender \in [Callers -> {"none", "running", "returned"}]
    BY DEF PoolInit
  <2>3. /\ link \in [Sockets -> {"closed", "open", "gone"}]
        /\ sent \in [Sockets -> {"idle", "busy", "done"}]
        /\ heard \in [Sockets -> {"idle", "busy", "done"}]
    BY DEF PoolInit
  <2>. QED
    BY <1>0, <2>1, <2>2, <2>3 DEF PoolTypeOK
<1>2. Holders = {} /\ Borrowers = {} /\ Cardinality({}) = 0 /\ Len(idle) = 0
  BY FS_EmptySet DEF PoolInit, Holders, Borrowers, Holding, Borrowing
<1>3. PermitsCounted /\ PlacesSuffice
  BY <1>2, PoolAssumption DEF PoolInit, PermitsCounted, PlacesSuffice
<1>4. ShakesAlone /\ LinesCounted /\ UnusedBefore /\ SocketsInHand
  BY DEF PoolInit, ShakesAlone, LinesCounted, UnusedBefore, SocketsInHand
<1>5. InHandAlone /\ IdleAreClean /\ LiveIsSomewhere /\ WaitsOnce /\ WaitsForNone
  BY DEF PoolInit, InHandAlone, IdleAreClean, LiveIsSomewhere, WaitsOnce, WaitsForNone
<1>. QED
  BY <1>1, <1>3, <1>4, <1>5 DEF PoolInv

LEMMA PoolStepKeeps == ASSUME PoolInv, [PoolNext]_poolVars PROVE PoolInv'
<1>1. ASSUME NEW c \in Callers,
             \/ Begin(c) \/ Locked(c) \/ ShakesH2(c) \/ Granted(c) \/ ReadHead(c)
             \/ GivesUpLocking(c) \/ GivesUpQueued(c)
      PROVE  PoolInv'
  BY <1>1, BeginKeeps, LockedKeeps, ShakesH2Keeps, GrantedKeeps, ReadHeadKeeps,
     GivesUpLockingKeeps, GivesUpQueuedKeeps
<1>2. ASSUME NEW c \in Callers,
             \/ SendHead(c) \/ SentAll(c) \/ SendStops(c) \/ SendFails(c) \/ ReadAll(c)
             \/ HeadFails(c) \/ Release(c) \/ Closed(c) \/ GivesUpHolding(c)
      PROVE  PoolInv'
  BY <1>2, ExchangeKeeps, ReleaseKeepsPool, ReturnsKeep
<1>3. CASE (\E c \in Callers : EndsH2(c) \/ Again(c)) \/ LineDrops
  BY <1>3, TurnsKeep
<1>4. ASSUME NEW c \in Callers, NEW s \in Sockets, Falls(c, s) \/ Opens(c, s) PROVE PoolInv'
  BY <1>4, FallsKeeps, OpensKeeps
<1>5. ASSUME NEW s \in Sockets, HangsUp(s) PROVE PoolInv'
  BY <1>5, HangsUpKeeps
<1>6. CASE Shut
  BY <1>6, ShutKeeps
<1>7. CASE UNCHANGED poolVars
  <2>1. UNCHANGED <<stage, socket, sender, wires, hosted, origin>>
    BY <1>7 DEF poolVars, exchanges
  <2>2. UNCHANGED <<lock, h2, lines, h11only>> /\ ShakesAlone' /\ LinesCounted'
    BY <2>1, PoolTyped DEF origin, ShakesAlone, LinesCounted
  <2>. QED
    BY <2>1, <2>2, PoolTyped, Moves
<1>. QED
  BY <1>1, <1>2, <1>3, <1>4, <1>5, <1>6, <1>7 DEF PoolNext

(* The pool's permits, its connections and its lock stay in step, whatever    *)
(* fails, hangs up, times out or is cancelled at whatever await.              *)
THEOREM PoolInvariant == PoolSpec => []PoolInv
<1>1. PoolInit => PoolInv
  BY PoolStarts
<1>2. PoolInv /\ [PoolNext]_poolVars => PoolInv'
  BY PoolStepKeeps
<1>. QED
  BY <1>1, <1>2, PTL DEF PoolSpec

(* What is live is idle or in hand, so it is counted.                         *)
LEMMA LiveIsBounded == ASSUME PoolInv PROVE Cardinality(Live) <= MaxConnections
<1>. DEFINE Idle == {idle[i] : i \in 1 .. Len(idle)}
            Lent == {socket[c] : c \in LentOut}
            holds == [c \in LentOut |-> socket[c]]
<1>1. /\ Len(idle) \in Nat /\ Cardinality(Borrowers) \in Nat /\ IsFiniteSet(Borrowers)
      /\ Cardinality(Borrowers) + Len(idle) <= MaxConnections /\ MaxConnections \in Nat
  BY PermitsOnce DEF PoolInv, PlacesSuffice
<1>2. IsFiniteSet(Idle) /\ Cardinality(Idle) <= Len(idle)
  <2>1. 1 \in Int /\ Len(idle) \in Int
    BY <1>1
  <2>2. IsFiniteSet(1 .. Len(idle)) /\ Cardinality(1 .. Len(idle)) = Len(idle)
    <3>1. /\ IsFiniteSet(1 .. Len(idle))
          /\ Cardinality(1 .. Len(idle)) = IF 1 > Len(idle) THEN 0 ELSE Len(idle) - 1 + 1
      BY ONLY <2>1, FS_Interval
    <3>. QED
      BY <1>1, <3>1
  <2>3. idle \in Surjection(1 .. Len(idle), Idle)
    BY PoolTyped DEF Surjection
  <2>. HIDE DEF Idle
  <2>. QED
    BY <2>2, <2>3, FS_Surjection
<1>3. IsFiniteSet(Lent) /\ Cardinality(Lent) <= Cardinality(Borrowers)
  <2>1. LentOut \in SUBSET Borrowers
    BY DEF LentOut, Borrowers, Borrowing
  <2>2. IsFiniteSet(LentOut) /\ Cardinality(LentOut) <= Cardinality(Borrowers)
    BY <1>1, <2>1, FS_Subset
  <2>3. holds \in Surjection(LentOut, Lent)
    BY DEF Surjection
  <2>. HIDE DEF holds, Lent
  <2>4. IsFiniteSet(Lent) /\ Cardinality(Lent) <= Cardinality(LentOut)
    BY <2>2, <2>3, FS_Surjection
  <2>5. Cardinality(Lent) \in Nat /\ Cardinality(LentOut) \in Nat
    BY <2>2, <2>4, FS_CardinalityType
  <2>. QED
    BY <1>1, <2>2, <2>4, <2>5
<1>4. Live \in SUBSET (Idle \cup Lent)
  <2>1. ASSUME NEW t \in Sockets, link[t] # "closed"
        PROVE  t \in Idle \/ t \in Lent
    <3>1. CASE \E i \in DOMAIN idle : idle[i] = t
      BY <3>1, PoolTyped
    <3>2. CASE \E c \in Callers : socket[c] = t
      BY <3>2, PoolTyped DEF LentOut
    <3>. QED
      BY <2>1, <3>1, <3>2 DEF PoolInv, LiveIsSomewhere
  <2>. QED
    BY <2>1 DEF Live
<1>. HIDE DEF Idle, Lent
<1>5. /\ IsFiniteSet(Idle \cup Lent)
      /\ Cardinality(Idle \cup Lent) =
           Cardinality(Idle) + Cardinality(Lent) - Cardinality(Idle \cap Lent)
  BY <1>2, <1>3, FS_Union
<1>6. IsFiniteSet(Idle \cap Lent)
  BY <1>2, FS_Intersection
<1>7. IsFiniteSet(Live) /\ Cardinality(Live) <= Cardinality(Idle \cup Lent)
  BY <1>4, <1>5, FS_Subset
<1>8. /\ Cardinality(Live) \in Nat /\ Cardinality(Idle) \in Nat /\ Cardinality(Lent) \in Nat
      /\ Cardinality(Idle \cap Lent) \in Nat
  BY <1>2, <1>3, <1>6, <1>7, FS_CardinalityType
<1>. QED
  BY <1>1, <1>2, <1>3, <1>5, <1>7, <1>8

(* However requests race, fail and are cancelled: no more sockets are open    *)
(* than the bound, every permit is free or out, a connection waits clean and  *)
(* in nobody's hands, and there is one HTTP/2 connection to an origin.        *)
THEOREM PoolHolds == PoolSpec => []PoolIsSound
<1>1. PoolInv => PoolIsSound
  <2>. SUFFICES ASSUME PoolInv PROVE PoolIsSound
    OBVIOUS
  <2>1. PermitsBoundSockets
    <3>1. permits + Cardinality({c \in Callers : stage[c] \in Holding}) = MaxConnections
      BY DEF PoolInv, PermitsCounted, Holders
    <3>2. waiting # <<>> => permits = 0
      BY DEF PoolInv, WaitsForNone
    <3>. QED
      BY <3>1, <3>2, LiveIsBounded DEF PermitsBoundSockets
  <2>2. IdleIsClean
    BY DEF PoolInv, IdleAreClean, InHandAlone, IdleIsClean
  <2>3. OneLinePerOrigin
    BY PoolTyped DEF OneLinePerOrigin
  <2>. QED
    BY <2>1, <2>2, <2>3 DEF PoolIsSound
<1>. QED
  BY <1>1, PoolInvariant, PTL

-----------------------------------------------------------------------------
(* Streams across a thread boundary: a source of any length, any room ahead.  *)

(* A thread that is done may have handed over why: that is the last it says.  *)
Stopped == handoff # <<>> /\ handoff[Len(handoff)] # "produced"
Carried == IF Stopped THEN Len(handoff) - 1 ELSE Len(handoff)
StopsLast ==
    /\ \A i \in DOMAIN handoff : i < Len(handoff) => handoff[i] = "produced"
    /\ Stopped => producer = "ended"
    /\ producer = "ended" => Stopped \/ abandoned

(* Room is what is free, on its way or in the thread's hands; the consumer's  *)
(* leave makes one more, for the thread to wake by.                           *)
RoomCounted ==
    room + Carried + (IF producer = "acquiring" THEN 0 ELSE 1)
        = Ahead + (IF abandoned THEN 1 ELSE 0)
FetchedCounted == fetched = taken + Carried
LeaverWakes ==
    /\ abandoned <=> consumer = "left"
    /\ abandoned /\ producer \in {"acquiring", "fetching"} => room > 0
    /\ late <= 1
    /\ late > 0 => abandoned /\ producer # "fetching"

(* What was put is queued, in hand or worked.                                 *)
PutsCounted ==
    /\ puts = items + burst + worked
    /\ shutdown <=> block # "open"
    /\ worker = "blocked" => burst = 0
    /\ worker = "ended" => shutdown /\ items = 0 /\ burst = 0
    /\ block = "left" => worker = "ended"

BridgeInv ==
    /\ BridgeTypeOK
    /\ StopsLast /\ RoomCounted /\ FetchedCounted /\ LeaverWakes
    /\ PutsCounted

LEMMA BridgeStarts == ASSUME BridgeInit PROVE BridgeInv
<1>1. room \in Nat /\ handoff \in Seq({"produced", "failed", "exhausted"}) /\ Len(handoff) = 0
  BY BridgeAssumption DEF BridgeInit
<1>2. BridgeTypeOK
  BY <1>1 DEF BridgeInit, BridgeTypeOK
<1>3. ~Stopped /\ Carried = 0
  BY <1>1 DEF BridgeInit, Stopped, Carried
<1>4. StopsLast /\ RoomCounted /\ FetchedCounted
  BY <1>1, <1>3, BridgeAssumption DEF BridgeInit, StopsLast, RoomCounted, FetchedCounted
<1>5. LeaverWakes /\ PutsCounted
  BY DEF BridgeInit, LeaverWakes, PutsCounted
<1>. QED
  BY <1>2, <1>4, <1>5 DEF BridgeInv

(* One more is handed over, and it may be the last.                           *)
LEMMA HandedOver ==
  ASSUME BridgeInv, producer = "fetching", NEW x \in {"produced", "failed", "exhausted"},
         handoff' = Append(handoff, x)
  PROVE  /\ handoff' \in Seq({"produced", "failed", "exhausted"})
         /\ \A i \in DOMAIN handoff' : i < Len(handoff') => handoff'[i] = "produced"
         /\ Stopped' <=> x # "produced"
         /\ Carried' = IF x = "produced" THEN Carried + 1 ELSE Carried
         /\ Carried \in Nat
<1>1. ~Stopped /\ handoff \in Seq({"produced", "failed", "exhausted"}) /\ Carried = Len(handoff)
  BY DEF BridgeInv, StopsLast, BridgeTypeOK, Carried
<1>2. /\ handoff' \in Seq({"produced", "failed", "exhausted"}) /\ Len(handoff') = Len(handoff) + 1
      /\ handoff'[Len(handoff) + 1] = x /\ Len(handoff) \in Nat
      /\ \A i \in 1 .. Len(handoff) : handoff'[i] = handoff[i]
      /\ DOMAIN handoff = 1 .. Len(handoff) /\ DOMAIN handoff' = 1 .. Len(handoff) + 1
      /\ handoff' # <<>>
  BY <1>1
<1>3. \A i \in DOMAIN handoff : handoff[i] = "produced"
  BY <1>1, <1>2 DEF BridgeInv, StopsLast, Stopped
<1>4. \A i \in DOMAIN handoff' : i < Len(handoff') => handoff'[i] = "produced"
  BY <1>2, <1>3
<1>5. Stopped' <=> x # "produced"
  BY <1>2 DEF Stopped
<1>. QED
  BY <1>1, <1>2, <1>4, <1>5 DEF Carried

(* The consumer takes the head.                                               *)
LEMMA HandedOn ==
  ASSUME BridgeInv, handoff # <<>>, handoff' = Tail(handoff)
  PROVE  /\ handoff' \in Seq({"produced", "failed", "exhausted"})
         /\ \A i \in DOMAIN handoff' : i < Len(handoff') => handoff'[i] = "produced"
         /\ Head(handoff) = "produced" =>
              /\ Stopped' <=> Stopped
              /\ Carried' = Carried - 1 /\ Carried > 0
         /\ Head(handoff) # "produced" => Stopped /\ ~Stopped' /\ Carried' = Carried
         /\ Carried \in Nat /\ Carried' \in Nat
<1>1. handoff \in Seq({"produced", "failed", "exhausted"}) /\ Len(handoff) \in Nat \ {0}
      /\ Head(handoff) = handoff[1] /\ DOMAIN handoff = 1 .. Len(handoff)
  BY DEF BridgeInv, BridgeTypeOK
<1>2. /\ handoff' \in Seq({"produced", "failed", "exhausted"}) /\ Len(handoff') = Len(handoff) - 1
      /\ DOMAIN handoff' = 1 .. Len(handoff) - 1
      /\ \A i \in 1 .. Len(handoff) - 1 : handoff'[i] = handoff[i + 1]
  BY <1>1
<1>3. \A i \in 1 .. Len(handoff) : i < Len(handoff) => handoff[i] = "produced"
  BY <1>1 DEF BridgeInv, StopsLast
<1>4. \A i \in DOMAIN handoff' : i < Len(handoff') => handoff'[i] = "produced"
  BY <1>1, <1>2, <1>3
<1>5. CASE Len(handoff) = 1
  <2>1. handoff' = <<>> /\ ~Stopped' /\ Len(handoff') = 0
    BY <1>2, <1>5 DEF Stopped
  <2>. QED
    BY <1>1, <1>2, <1>4, <1>5, <2>1 DEF Stopped, Carried
<1>6. CASE Len(handoff) > 1
  <2>1. Len(handoff') # 0 /\ 1 \in 1 .. Len(handoff) /\ Len(handoff) - 1 \in 1 .. Len(handoff) - 1
    BY <1>1, <1>2, <1>6
  <2>2. handoff' # <<>> /\ handoff'[Len(handoff')] = handoff[Len(handoff)]
    <3>1. Len(handoff) - 1 + 1 = Len(handoff)
      BY <1>1
    <3>2. handoff'[Len(handoff) - 1] = handoff[Len(handoff) - 1 + 1]
      BY <1>2, <2>1
    <3>3. handoff' # <<>>
      BY <2>1
    <3>. QED
      BY <1>2, <3>1, <3>2, <3>3
  <2>3. Head(handoff) = "produced"
    BY <1>1, <1>3, <1>6, <2>1
  <2>4. Stopped' <=> Stopped
    BY <1>1, <2>2 DEF Stopped
  <2>5. Carried' = Carried - 1 /\ Carried > 0
    BY <1>1, <1>2, <1>6, <2>4 DEF Carried
  <2>. QED
    BY <1>1, <1>2, <1>4, <1>6, <2>3, <2>4, <2>5 DEF Carried
<1>. QED
  BY <1>1, <1>5, <1>6

LEMMA BlockingKeeps == ASSUME BridgeInv, BlockingNext PROVE BridgeInv'
<1>. USE DEF BridgeInv
<1>0. /\ producer \in {"acquiring", "checking", "fetching", "ended"}
      /\ room \in Nat /\ fetched \in Nat /\ taken \in Nat /\ late \in Nat
      /\ abandoned \in BOOLEAN /\ consumer \in {"getting", "holding", "left"}
      /\ handoff \in Seq({"produced", "failed", "exhausted"}) /\ Ahead \in Nat \ {0}
      /\ Carried \in Nat
  BY BridgeAssumption DEF BridgeTypeOK, Carried, Stopped
<1>1. PutsCounted' /\ UNCHANGED offloadVars
  BY DEF BlockingNext, offloadVars, PutsCounted
<1>2. ASSUME AcquiresRoom \/ ChecksAbandoned \/ Resumes \/ Abandons
      PROVE  /\ UNCHANGED <<handoff, fetched, taken, late>> /\ (Stopped' <=> Stopped)
             /\ Carried' = Carried
  BY <1>2 DEF AcquiresRoom, ChecksAbandoned, Resumes, Abandons, Leaves, Stopped, Carried
<1>3. CASE AcquiresRoom
  BY <1>0, <1>1, <1>2, <1>3
     DEF AcquiresRoom, BridgeTypeOK, StopsLast, RoomCounted, FetchedCounted, LeaverWakes, offloadVars
<1>4. CASE ChecksAbandoned
  BY <1>0, <1>1, <1>2, <1>4
     DEF ChecksAbandoned, BridgeTypeOK, StopsLast, RoomCounted, FetchedCounted, LeaverWakes, offloadVars
<1>5. CASE Resumes
  BY <1>0, <1>1, <1>2, <1>5
     DEF Resumes, BridgeTypeOK, StopsLast, RoomCounted, FetchedCounted, LeaverWakes, offloadVars
<1>6. CASE Abandons
  BY <1>0, <1>1, <1>2, <1>6
     DEF Abandons, Leaves, BridgeTypeOK, StopsLast, RoomCounted, FetchedCounted, LeaverWakes,
         offloadVars
<1>7. CASE Fetches
  <2>1. /\ handoff' \in Seq({"produced", "failed", "exhausted"}) /\ ~Stopped' /\ Carried' = Carried + 1
        /\ \A i \in DOMAIN handoff' : i < Len(handoff') => handoff'[i] = "produced"
    BY <1>7, HandedOver DEF Fetches
  <2>. QED
    BY <1>0, <1>1, <1>7, <2>1
       DEF Fetches, BridgeTypeOK, StopsLast, RoomCounted, FetchedCounted, LeaverWakes, offloadVars
<1>8. CASE SourceStops
  <2>1. PICK x \in {"failed", "exhausted"} : handoff' = Append(handoff, x)
    BY <1>8 DEF SourceStops
  <2>2. /\ handoff' \in Seq({"produced", "failed", "exhausted"}) /\ Stopped' /\ Carried' = Carried
        /\ \A i \in DOMAIN handoff' : i < Len(handoff') => handoff'[i] = "produced"
    BY <1>8, <2>1, HandedOver DEF SourceStops
  <2>. QED
    BY <1>0, <1>1, <1>8, <2>2
       DEF SourceStops, BridgeTypeOK, StopsLast, RoomCounted, FetchedCounted, LeaverWakes, offloadVars
<1>9. CASE Gets
  <2>1. /\ handoff' \in Seq({"produced", "failed", "exhausted"}) /\ Carried' \in Nat
        /\ \A i \in DOMAIN handoff' : i < Len(handoff') => handoff'[i] = "produced"
        /\ Head(handoff) = "produced" => (Stopped' <=> Stopped) /\ Carried' = Carried - 1 /\ Carried > 0
        /\ Head(handoff) # "produced" => Stopped /\ ~Stopped' /\ Carried' = Carried
    BY <1>9, HandedOn DEF Gets
  <2>2. CASE Head(handoff) = "produced"
    <3>1. /\ taken' = taken + 1 /\ room' = room + 1 /\ consumer' = "holding"
          /\ UNCHANGED <<abandoned, producer, fetched, late>>
      BY <1>9, <2>2 DEF Gets
    <3>2. BridgeTypeOK'
      BY <1>0, <1>1, <2>1, <3>1 DEF BridgeTypeOK, offloadVars
    <3>3. StopsLast'
      BY <2>1, <2>2, <3>1 DEF StopsLast
    <3>0. Carried' = Carried - 1 /\ Carried \in Nat /\ Carried' \in Nat
      BY <1>0, <2>1, <2>2
    <3>8. /\ fetched = taken + Carried
          /\ room + Carried + (IF producer = "acquiring" THEN 0 ELSE 1)
                = Ahead + (IF abandoned THEN 1 ELSE 0)
      BY DEF FetchedCounted, RoomCounted
    <3>4. FetchedCounted'
      BY <1>0, <3>0, <3>1, <3>8 DEF FetchedCounted
    <3>6. RoomCounted'
      <4>1. CASE producer = "acquiring"
        BY <1>0, <3>0, <3>1, <3>8, <4>1 DEF RoomCounted
      <4>2. CASE producer # "acquiring"
        BY <1>0, <3>0, <3>1, <3>8, <4>2 DEF RoomCounted
      <4>. QED
        BY <4>1, <4>2
    <3>5. LeaverWakes'
      BY <1>0, <1>9, <3>1 DEF LeaverWakes, Gets
    <3>. QED
      BY <1>1, <3>2, <3>3, <3>4, <3>5, <3>6
  <2>3. CASE Head(handoff) # "produced"
    <3>1. /\ room' = room + 1 /\ consumer' = "left" /\ abandoned' = TRUE /\ ~abandoned
          /\ UNCHANGED <<taken, producer, fetched, late>>
      BY <1>9, <2>3 DEF Gets, Leaves, LeaverWakes
    <3>2. BridgeTypeOK'
      BY <1>0, <1>1, <2>1, <3>1 DEF BridgeTypeOK, offloadVars
    <3>3. StopsLast'
      BY <2>1, <2>3, <3>1 DEF StopsLast
    <3>0. Carried' = Carried /\ Carried \in Nat /\ Carried' \in Nat
      BY <1>0, <2>1, <2>3
    <3>8. /\ fetched = taken + Carried
          /\ room + Carried + (IF producer = "acquiring" THEN 0 ELSE 1)
                = Ahead + (IF abandoned THEN 1 ELSE 0)
      BY DEF FetchedCounted, RoomCounted
    <3>4. FetchedCounted'
      BY <1>0, <3>0, <3>1, <3>8 DEF FetchedCounted
    <3>6. RoomCounted'
      <4>1. CASE producer = "acquiring"
        BY <1>0, <3>0, <3>1, <3>8, <4>1 DEF RoomCounted
      <4>2. CASE producer # "acquiring"
        BY <1>0, <3>0, <3>1, <3>8, <4>2 DEF RoomCounted
      <4>. QED
        BY <4>1, <4>2
    <3>5. LeaverWakes'
      BY <1>0, <3>1 DEF LeaverWakes
    <3>. QED
      BY <1>1, <3>2, <3>3, <3>4, <3>5, <3>6
  <2>. QED
    BY <2>2, <2>3
<1>. QED
  BY <1>3, <1>4, <1>5, <1>6, <1>7, <1>8, <1>9 DEF BlockingNext

LEMMA OffloadKeeps == ASSUME BridgeInv, OffloadNext PROVE BridgeInv'
<1>1. UNCHANGED <<producer, room, abandoned, handoff, consumer, fetched, taken, late>>
  BY DEF OffloadNext, blockingVars
<1>2. StopsLast' /\ RoomCounted' /\ FetchedCounted' /\ LeaverWakes'
  BY <1>1 DEF BridgeInv, StopsLast, RoomCounted, FetchedCounted, LeaverWakes, Stopped, Carried
<1>3. BridgeTypeOK' /\ PutsCounted'
  <2>. SUFFICES ASSUME BridgeTypeOK, PutsCounted
                PROVE  BridgeTypeOK' /\ PutsCounted'
    BY DEF BridgeInv
  <2>1. CASE Puts \/ ShutsDown
    <3>1. CASE Puts
      <4>1. /\ puts' = puts + 1 /\ items' = items + 1 /\ worker # "ended" /\ block = "open"
            /\ UNCHANGED <<shutdown, worker, burst, worked, block>>
        BY <3>1 DEF Puts, PutsCounted
      <4>2. BridgeTypeOK'
        BY <1>1, <4>1 DEF BridgeTypeOK
      <4>3. puts' = items' + burst' + worked'
        BY <4>1 DEF BridgeTypeOK, PutsCounted
      <4>. QED
        BY <4>1, <4>2, <4>3 DEF PutsCounted
    <3>2. CASE ShutsDown
      BY <1>1, <3>2 DEF BridgeTypeOK, PutsCounted, ShutsDown
    <3>. QED
      BY <2>1, <3>1, <3>2
  <2>2. CASE GetsFirst
    BY <1>1, <2>2 DEF BridgeTypeOK, PutsCounted, GetsFirst
  <2>3. CASE TakesBurst
    BY <1>1, <2>3 DEF BridgeTypeOK, PutsCounted, TakesBurst
  <2>4. CASE Works
    BY <1>1, <2>4 DEF BridgeTypeOK, PutsCounted, Works
  <2>5. CASE WorkRaises \/ SeesShutDown
    BY <1>1, <2>5 DEF BridgeTypeOK, PutsCounted, WorkRaises, SeesShutDown
  <2>6. CASE Joins \/ JoinCancelled
    BY <1>1, <2>6 DEF BridgeTypeOK, PutsCounted, Joins, JoinCancelled
  <2>. QED
    BY <2>1, <2>2, <2>3, <2>4, <2>5, <2>6 DEF OffloadNext
<1>. QED
  BY <1>2, <1>3 DEF BridgeInv

(* The invariant, for any source, any room and any number of items.           *)
THEOREM BridgeInvariant == BridgeSpec => []BridgeInv
<1>1. BridgeInv /\ [BridgeNext]_bridgeVars => BridgeInv'
  <2>1. ASSUME BridgeInv, UNCHANGED bridgeVars PROVE BridgeInv'
    BY <2>1 DEF bridgeVars, blockingVars, offloadVars, BridgeInv, BridgeTypeOK, StopsLast, RoomCounted,
                FetchedCounted, LeaverWakes, PutsCounted, Stopped, Carried
  <2>. QED
    BY <2>1, BlockingKeeps, OffloadKeeps DEF BridgeNext
<1>. QED
  BY <1>1, BridgeStarts, PTL DEF BridgeSpec

(* A stream across threads strands neither side, and a block of offload that  *)
(* ends without an error has had every item worked (wiring.py).               *)
THEOREM BridgeStrandsNothing == BridgeSpec => []NothingStranded
<1>1. BridgeInv => NothingStranded
  <2>. SUFFICES ASSUME BridgeInv PROVE NothingStranded
    OBVIOUS
  <2>1. /\ room \in Nat /\ fetched \in Nat /\ taken \in Nat /\ late \in Nat /\ Ahead \in Nat \ {0}
        /\ producer \in {"acquiring", "checking", "fetching", "ended"} /\ Carried \in Nat
        /\ items \in Nat /\ burst \in Nat /\ worked \in Nat
    BY BridgeAssumption DEF BridgeInv, BridgeTypeOK, Carried, Stopped
  <2>2. handoff = <<>> => ~Stopped /\ Carried = 0
    BY DEF Stopped, Carried
  <2>3. consumer = "getting" /\ handoff = <<>> =>
          producer \in {"checking", "fetching"} \/ (producer = "acquiring" /\ room > 0)
    BY <2>1, <2>2 DEF BridgeInv, StopsLast, RoomCounted, LeaverWakes
  <2>4. fetched <= taken + Ahead + late
    BY <2>1 DEF BridgeInv, RoomCounted, FetchedCounted, LeaverWakes
  <2>5. /\ abandoned => late <= 1 /\ (producer = "acquiring" => room > 0)
        /\ puts = items + burst + worked
        /\ block = "left" => worked = puts
    BY <2>1 DEF BridgeInv, LeaverWakes, PutsCounted
  <2>. QED
    BY <2>3, <2>4, <2>5 DEF NothingStranded
<1>. QED
  BY <1>1, BridgeInvariant, PTL

-----------------------------------------------------------------------------
(* Streams joined in the loop: any number of branches, any bound.             *)

NothingYet ==
    mode = "none" =>
        /\ pump = "reading" /\ made = 0 /\ scope = "open"
        /\ \A b \in Branches : placed[b] = 0 /\ got[b] = 0 /\ sink[b] = "reading"
FromTheFirst == (\A b \in Branches : b \in Present) \/ (\A b \in Branches : b \in Present <=> b = 1)
QueuesBounded ==
    \A b \in Present : got[b] <= placed[b] /\ placed[b] <= made /\ placed[b] - got[b] <= Buffer

(* A value goes on every queue in turn before the next is read.               *)
PutInTurn ==
    /\ pump \in {"reading", "ended"} => \A b \in Present : placed[b] = made
    /\ pump = "putting" =>
        \E k \in Present : \A b \in Present : placed[b] = IF b < k THEN made ELSE made - 1
    /\ pump = "ended" => made = StreamSize
ShutWithPump == closedq <=> PumpOver
ReturnedEmpty == \A b \in Present : sink[b] = "returned" => closedq /\ got[b] = placed[b]

(* Nothing is cancelled while the scope is open, and what it aborts for stays. *)
ScopeEnds ==
    /\ scope = "open" => pump # "cancelled" /\ \A b \in Present : sink[b] # "cancelled"
    /\ scope = "closing" => mode = "spool"
    /\ scope = "aborting" => pump = "failed" \/ \E b \in Present : sink[b] = "raised"
    /\ scope \in {"left", "raised"} => PumpOver /\ (mode = "tee" => SinksOver)
    /\ scope = "left" /\ mode = "tee" => pump = "ended" /\ \A b \in Present : sink[b] = "returned"
FailedAreTold == drain = "failed" => \A r \in Listeners : waiter[r] # "pending"

StreamInv ==
    /\ StreamTypeOK
    /\ NothingYet /\ FromTheFirst /\ QueuesBounded /\ PutInTurn /\ ShutWithPump /\ ReturnedEmpty
    /\ ScopeEnds /\ FailedAreTold

LEMMA WiringTyped ==
  ASSUME StreamInv
  PROVE  /\ BranchCount \in Nat \ {0} /\ Buffer \in Nat \ {0} /\ StreamSize \in Nat
         /\ 1 \in Branches /\ Branches \subseteq Nat
         /\ mode \in {"none", "spool", "tee"} /\ closedq \in BOOLEAN
         /\ pump \in {"reading", "putting", "ended", "failed", "cancelled"}
         /\ made \in Nat /\ placed \in [Branches -> Nat] /\ got \in [Branches -> Nat]
         /\ sink \in [Branches -> {"absent", "reading", "working", "returned", "raised", "cancelled"}]
         /\ scope \in {"open", "aborting", "closing", "raised", "left"}
         /\ Present \subseteq Branches
  BY WiringAssumption DEF StreamInv, StreamTypeOK, Branches, Present

LEMMA StreamStarts == ASSUME StreamInit PROVE StreamInv
<1>. USE DEF StreamInit, WiringInit, SampleInit
<1>1. StreamTypeOK
  BY DEF StreamTypeOK
<1>2. Present = Branches
  BY DEF Present
<1>3. NothingYet /\ FromTheFirst /\ ShutWithPump /\ ReturnedEmpty /\ ScopeEnds /\ FailedAreTold
  BY <1>2 DEF NothingYet, FromTheFirst, ShutWithPump, PumpOver, ReturnedEmpty, ScopeEnds, FailedAreTold
<1>4. QueuesBounded /\ PutInTurn
  BY <1>2, WiringAssumption DEF QueuesBounded, PutInTurn
<1>. QED
  BY <1>1, <1>3, <1>4 DEF StreamInv

(* A sink moves, and its queue with it.                                       *)
LEMMA SinkMoves ==
  ASSUME StreamInv, NEW b \in Branches, sink[b] \in {"reading", "working"},
         NEW to \in {"reading", "working", "returned", "raised", "cancelled"}, mode # "none",
         sink' = [sink EXCEPT ![b] = to],
         UNCHANGED <<mode, pump, made, placed, closedq, scope, sampleVars>>,
         \/ UNCHANGED got
         \/ got' = [got EXCEPT ![b] = @ + 1] /\ Queue(b) > 0 /\ to = "working",
         to = "returned" => closedq /\ Queue(b) = 0,
         to = "cancelled" => scope = "aborting"
  PROVE  StreamInv'
<1>1. /\ \A c \in Branches : sink'[c] = IF c = b THEN to ELSE sink[c]
      /\ b \in Present /\ Present' = Present
  BY WiringTyped DEF Present
<1>2. got' \in [Branches -> Nat] /\ \A c \in Branches : c # b => got'[c] = got[c]
  BY WiringTyped
<1>3. placed[b] \in Nat /\ got[b] \in Nat /\ got'[b] \in Nat /\ made \in Nat
      /\ got'[b] <= placed'[b] /\ placed'[b] <= made' /\ placed'[b] - got'[b] <= Buffer
  BY <1>1, <1>2, WiringTyped DEF StreamInv, QueuesBounded, Queue
<1>4. StreamTypeOK'
  BY <1>2, WiringTyped DEF StreamInv, StreamTypeOK, sampleVars
<1>5. NothingYet' /\ FromTheFirst' /\ FailedAreTold'
  BY <1>1 DEF StreamInv, NothingYet, FromTheFirst, FailedAreTold, sampleVars
<1>6. QueuesBounded'
  BY <1>1, <1>2, <1>3 DEF StreamInv, QueuesBounded, Present
<1>7. PutInTurn' /\ ShutWithPump'
  BY <1>1 DEF StreamInv, PutInTurn, ShutWithPump, PumpOver
<1>8. to = "returned" => got'[b] = placed'[b]
  BY <1>3, WiringTyped DEF Queue
<1>9. ReturnedEmpty'
  BY <1>1, <1>2, <1>8, WiringTyped DEF StreamInv, ReturnedEmpty
<1>10. ScopeEnds'
  <2>1. scope = "open" => pump # "cancelled" /\ \A c \in Present : sink'[c] # "cancelled"
    BY <1>1, WiringTyped DEF StreamInv, ScopeEnds
  <2>2. scope = "aborting" => pump = "failed" \/ \E c \in Present : sink'[c] = "raised"
    <3>1. ASSUME NEW c \in Present, sink[c] = "raised" PROVE sink'[c] = "raised"
      BY <1>1, <3>1, WiringTyped
    <3>. QED
      BY <3>1 DEF StreamInv, ScopeEnds
  <2>3. scope \in {"left", "raised"} => PumpOver /\ mode # "tee"
    BY <1>1 DEF StreamInv, ScopeEnds, SinksOver
  <2>4. PumpOver' = PumpOver
    BY DEF PumpOver
  <2>. QED
    BY <1>1, <2>1, <2>2, <2>3, <2>4 DEF StreamInv, ScopeEnds
<1>. QED
  BY <1>4, <1>5, <1>6, <1>7, <1>9, <1>10 DEF StreamInv

LEMMA SinkStepKeeps ==
  ASSUME StreamInv, NEW b \in Branches, UNCHANGED sampleVars,
         Takes(b) \/ ComesBack(b) \/ StreamEnds(b) \/ SinkRaises(b) \/ SinkCancelled(b)
  PROVE  StreamInv'
<1>1. CASE Takes(b)
  <2>1. mode # "none"
    BY <1>1, WiringTyped DEF Takes, Queue, StreamInv, NothingYet
  <2>. QED
    BY <1>1, <2>1, SinkMoves DEF Takes
<1>2. CASE ComesBack(b)
  <2>1. mode # "none"
    BY <1>2 DEF ComesBack, StreamInv, NothingYet
  <2>. QED
    BY <1>2, <2>1, SinkMoves DEF ComesBack
<1>3. CASE StreamEnds(b)
  BY <1>3, SinkMoves DEF StreamEnds, AtItsEnd
<1>4. CASE SinkRaises(b)
  <2>1. mode # "none"
    BY <1>4 DEF SinkRaises, StreamInv, NothingYet
  <2>. QED
    BY <1>4, <2>1, SinkMoves DEF SinkRaises
<1>5. CASE SinkCancelled(b)
  <2>1. mode # "none"
    BY <1>5 DEF SinkCancelled, StreamInv, NothingYet
  <2>. QED
    BY <1>5, <2>1, SinkMoves DEF SinkCancelled
<1>. QED
  BY <1>1, <1>2, <1>3, <1>4, <1>5

LEMMA WiresKeeps ==
  ASSUME StreamInv, UNCHANGED sampleVars, NEW m \in {"tee", "spool"}, Wires(m)
  PROVE  StreamInv'
<1>1. /\ mode = "none" /\ mode' = m /\ UNCHANGED <<pump, made, placed, got, closedq, scope>>
      /\ pump = "reading" /\ made = 0 /\ scope = "open"
      /\ \A b \in Branches : placed[b] = 0 /\ got[b] = 0
      /\ \A b \in Branches : sink'[b] = IF m = "tee" \/ b = 1 THEN "reading" ELSE "absent"
      /\ sink' = [b \in Branches |-> IF m = "tee" \/ b = 1 THEN "reading" ELSE "absent"]
  BY DEF Wires, StreamInv, NothingYet
<1>2. Present' \subseteq Branches /\ \A b \in Present' : sink'[b] = "reading"
  BY <1>1 DEF Present
<1>3. StreamTypeOK'
  BY <1>1 DEF StreamInv, StreamTypeOK, sampleVars
<1>4. NothingYet' /\ FromTheFirst' /\ FailedAreTold'
  BY <1>1 DEF StreamInv, NothingYet, FromTheFirst, FailedAreTold, sampleVars, Present
<1>5. QueuesBounded' /\ PutInTurn'
  BY <1>1, <1>2, WiringTyped DEF QueuesBounded, PutInTurn
<1>6. ShutWithPump' /\ ReturnedEmpty' /\ ScopeEnds'
  BY <1>1, <1>2 DEF StreamInv, ShutWithPump, PumpOver, ReturnedEmpty, ScopeEnds
<1>. QED
  BY <1>3, <1>4, <1>5, <1>6 DEF StreamInv

LEMMA ReadsKeepsWiring == ASSUME StreamInv, UNCHANGED sampleVars, Reads PROVE StreamInv'
<1>1. /\ mode # "none" /\ pump = "reading" /\ made' = made + 1 /\ pump' = "putting"
      /\ UNCHANGED <<mode, placed, got, closedq, sink, scope>> /\ Present' = Present
  BY DEF Reads, Present
<1>2. StreamTypeOK' /\ NothingYet' /\ FromTheFirst' /\ FailedAreTold' /\ ShutWithPump' /\ ReturnedEmpty'
  BY <1>1 DEF StreamInv, StreamTypeOK, NothingYet, FromTheFirst, FailedAreTold, ShutWithPump, PumpOver,
              ReturnedEmpty, sampleVars
<1>3. 1 \in Present
  BY WiringTyped DEF StreamInv, FromTheFirst
<1>4. \A b \in Present : placed[b] = made /\ ~(b < 1) /\ placed[b] \in Nat /\ made' - 1 = made
  BY <1>1, WiringTyped DEF StreamInv, PutInTurn, Branches
<1>5. PutInTurn'
  BY <1>1, <1>3, <1>4 DEF PutInTurn
<1>6. QueuesBounded'
  BY <1>1, WiringTyped DEF StreamInv, QueuesBounded
<1>7. ScopeEnds'
  BY <1>1 DEF StreamInv, ScopeEnds, PumpOver, SinksOver
<1>. QED
  BY <1>2, <1>5, <1>6, <1>7 DEF StreamInv

LEMMA PutsToKeeps == ASSUME StreamInv, UNCHANGED sampleVars, NEW b \in Branches, PutsTo(b) PROVE StreamInv'
<1>1. /\ pump = "putting" /\ b \in Present /\ placed[b] < made /\ placed[b] - got[b] < Buffer
      /\ \A c \in Present : c < b => placed[c] = made
      /\ placed' = [placed EXCEPT ![b] = @ + 1]
      /\ pump' = IF b + 1 \in Present THEN "putting" ELSE "reading"
      /\ UNCHANGED <<mode, made, got, closedq, sink, scope>> /\ Present' = Present
      /\ mode # "none"
  BY DEF PutsTo, Queue, Present, StreamInv, NothingYet
<1>2. \A c \in Branches : placed'[c] = IF c = b THEN placed[b] + 1 ELSE placed[c]
  BY <1>1, WiringTyped
<1>3. StreamTypeOK' /\ NothingYet' /\ FromTheFirst' /\ FailedAreTold' /\ ShutWithPump'
  BY <1>1, WiringTyped DEF StreamInv, StreamTypeOK, NothingYet, FromTheFirst, FailedAreTold, ShutWithPump,
              PumpOver, sampleVars
<1>4. QueuesBounded'
  BY <1>1, <1>2, WiringTyped DEF StreamInv, QueuesBounded
<1>5. ReturnedEmpty' /\ ScopeEnds'
  <2>1. ~closedq /\ ~closedq'
    BY <1>1 DEF StreamInv, ShutWithPump, PumpOver
  <2>. QED
    BY <1>1, <2>1 DEF StreamInv, ReturnedEmpty, ScopeEnds, PumpOver, SinksOver
<1>6. PICK k \in Present : \A c \in Present : placed[c] = IF c < k THEN made ELSE made - 1
  BY <1>1 DEF StreamInv, PutInTurn
<1>7. b = k
  <2>1. b \in Nat /\ k \in Nat /\ made \in Nat /\ placed[k] \in Nat /\ placed[b] \in Nat
    BY <1>1, <1>6, WiringTyped
  <2>2. ~(b < k)
    BY <1>1, <1>6, <2>1
  <2>3. ~(k < b)
    BY <1>1, <1>6, <2>1
  <2>. QED
    BY <2>1, <2>2, <2>3
<1>8. \A c \in Present : placed'[c] = IF c < b + 1 THEN made ELSE made - 1
  <2>1. SUFFICES ASSUME NEW c \in Present PROVE placed'[c] = IF c < b + 1 THEN made ELSE made - 1
    OBVIOUS
  <2>2. c \in Nat /\ b \in Nat /\ made \in Nat /\ placed[c] = (IF c < b THEN made ELSE made - 1)
        /\ placed[b] = made - 1
    BY <1>1, <1>6, <1>7, WiringTyped
  <2>. QED
    BY <1>2, <2>2, WiringTyped
<1>9. PutInTurn'
  <2>1. CASE b + 1 \in Present
    BY <1>1, <1>8, <2>1 DEF PutInTurn
  <2>2. CASE b + 1 \notin Present
    <3>1. \A c \in Present : c < b + 1
      <4>1. SUFFICES ASSUME NEW c \in Present, ~(c < b + 1) PROVE FALSE
        OBVIOUS
      <4>2. b \in 1 .. BranchCount /\ c \in 1 .. BranchCount /\ BranchCount \in Nat
        BY <1>1, WiringTyped DEF Branches
      <4>3. b + 1 \in Branches /\ c # b
        BY <4>1, <4>2 DEF Branches
      <4>. QED
        BY <1>1, <2>2, <4>1, <4>3, WiringTyped DEF StreamInv, FromTheFirst
    <3>. QED
      BY <1>1, <1>8, <2>2, <3>1 DEF PutInTurn
  <2>. QED
    BY <2>1, <2>2
<1>. QED
  BY <1>3, <1>4, <1>5, <1>9 DEF StreamInv

(* The pump is over, and shuts the queues down.                               *)
LEMMA PumpOverKeeps ==
  ASSUME StreamInv, UNCHANGED sampleVars, SourceOver \/ PumpCancelled
  PROVE  StreamInv'
<1>1. /\ pump' \in {"ended", "failed", "cancelled"} /\ closedq' = TRUE /\ ~PumpOver /\ mode # "none"
      /\ UNCHANGED <<mode, made, placed, got, sink, scope>> /\ Present' = Present
      /\ pump' = "ended" => pump = "reading" /\ made = StreamSize
      /\ pump' = "cancelled" => scope \in {"aborting", "closing"}
  BY DEF SourceOver, PumpCancelled, PumpOver, Present, StreamInv, NothingYet
<1>2. StreamTypeOK' /\ NothingYet' /\ FromTheFirst' /\ FailedAreTold' /\ ShutWithPump'
  BY <1>1 DEF StreamInv, StreamTypeOK, NothingYet, FromTheFirst, FailedAreTold, ShutWithPump, PumpOver,
              sampleVars
<1>3. QueuesBounded' /\ ReturnedEmpty'
  BY <1>1 DEF StreamInv, QueuesBounded, ReturnedEmpty
<1>4. PutInTurn'
  BY <1>1 DEF StreamInv, PutInTurn
<1>5. ScopeEnds'
  BY <1>1 DEF StreamInv, ScopeEnds, PumpOver, SinksOver
<1>. QED
  BY <1>2, <1>3, <1>4, <1>5 DEF StreamInv

(* What becomes of the scope.                                                 *)
LEMMA ScopeKeeps ==
  ASSUME StreamInv, UNCHANGED sampleVars, GroupAborts \/ GroupEnds \/ SpoolCloses \/ SpoolEnds
  PROVE  StreamInv'
<1>1. UNCHANGED <<mode, pump, made, placed, got, closedq, sink>> /\ Present' = Present /\ PumpOver' = PumpOver
      /\ SinksOver' = SinksOver /\ mode # "none"
  BY DEF GroupAborts, GroupEnds, SpoolCloses, SpoolEnds, Present, PumpOver, SinksOver, StreamInv, NothingYet
<1>2. scope' \in {"open", "aborting", "closing", "raised", "left"} /\ scope' # "open"
  BY DEF GroupAborts, GroupEnds, SpoolCloses, SpoolEnds
<1>3. StreamTypeOK' /\ NothingYet' /\ FromTheFirst' /\ FailedAreTold' /\ ShutWithPump'
      /\ QueuesBounded' /\ PutInTurn' /\ ReturnedEmpty'
  BY <1>1, <1>2 DEF StreamInv, StreamTypeOK, NothingYet, FromTheFirst, FailedAreTold, ShutWithPump,
              sampleVars, QueuesBounded, PutInTurn, ReturnedEmpty
<1>4. ScopeEnds'
  <2>1. CASE GroupAborts
    BY <1>1, <2>1 DEF GroupAborts, ScopeEnds
  <2>2. CASE GroupEnds
    <3>1. scope' = "left" => pump = "ended" /\ \A b \in Present : sink[b] = "returned"
      <4>1. SUFFICES ASSUME scope' = "left" PROVE pump = "ended" /\ \A b \in Present : sink[b] = "returned"
        OBVIOUS
      <4>2. pump # "failed" /\ ~\E b \in Present : sink[b] = "raised"
        BY <2>2, <4>1 DEF GroupEnds
      <4>3. scope = "open"
        BY <2>2, <4>2 DEF GroupEnds, StreamInv, ScopeEnds
      <4>. QED
        BY <2>2, <4>2, <4>3 DEF GroupEnds, StreamInv, ScopeEnds, PumpOver, SinksOver
    <3>2. scope' \in {"left", "raised"} /\ PumpOver /\ SinksOver
      BY <2>2 DEF GroupEnds
    <3>. QED
      BY <1>1, <3>1, <3>2 DEF ScopeEnds
  <2>3. CASE SpoolCloses
    BY <1>1, <2>3 DEF SpoolCloses, ScopeEnds
  <2>4. CASE SpoolEnds
    BY <1>1, <2>4 DEF SpoolEnds, StreamInv, ScopeEnds
  <2>. QED
    BY <2>1, <2>2, <2>3, <2>4
<1>. QED
  BY <1>3, <1>4 DEF StreamInv

LEMMA SampleKeeps == ASSUME StreamInv, SampleNext PROVE StreamInv'
<1>1. UNCHANGED <<mode, pump, made, placed, got, closedq, sink, scope>> /\ Present' = Present
      /\ PumpOver' = PumpOver /\ SinksOver' = SinksOver
  BY DEF SampleNext, wiringVars, Present, PumpOver, SinksOver
<1>2. /\ NothingYet' /\ FromTheFirst' /\ ShutWithPump' /\ QueuesBounded' /\ PutInTurn' /\ ReturnedEmpty'
      /\ ScopeEnds'
  BY <1>1 DEF StreamInv, NothingYet, FromTheFirst, ShutWithPump, QueuesBounded, PutInTurn, ReturnedEmpty,
              ScopeEnds
<1>3. waiter \in [Listeners -> {"none", "pending", "woken", "raised", "cancelled"}] /\ value \in Nat
      /\ drain \in {"reading", "ended", "failed", "closed"}
  BY DEF StreamInv, StreamTypeOK
<1>4. /\ waiter' \in [Listeners -> {"none", "pending", "woken", "raised", "cancelled"}] /\ value' \in Nat
      /\ drain' \in {"reading", "ended", "failed", "closed"}
      /\ FailedAreTold'
  <2>1. ASSUME NEW as \in {"woken", "raised", "cancelled"}, waiter' = Settled(as)
        PROVE  /\ waiter' \in [Listeners -> {"none", "pending", "woken", "raised", "cancelled"}]
               /\ \A r \in Listeners : waiter'[r] # "pending"
    BY <1>3, <2>1 DEF Settled
  <2>2. CASE Publishes
    BY <1>3, <2>1, <2>2 DEF Publishes, FailedAreTold
  <2>3. CASE DrainFails
    BY <1>3, <2>1, <2>3 DEF DrainFails, FailedAreTold
  <2>4. CASE DrainEnds
    BY <1>3, <2>4 DEF DrainEnds, FailedAreTold
  <2>5. CASE SampleCloses
    BY <1>3, <2>1, <2>5 DEF SampleCloses, FailedAreTold
  <2>6. ASSUME NEW r \in Listeners, Waits(r) \/ FailsFast(r) \/ ReaderRuns(r)
        PROVE  /\ waiter' \in [Listeners -> {"none", "pending", "woken", "raised", "cancelled"}]
               /\ UNCHANGED <<value, drain>> /\ FailedAreTold'
    BY <1>3, <2>6 DEF Waits, FailsFast, ReaderRuns, FailedAreTold, StreamInv
  <2>. QED
    BY <1>3, <2>2, <2>3, <2>4, <2>5, <2>6 DEF SampleNext
<1>5. StreamTypeOK'
  BY <1>1, <1>4 DEF StreamInv, StreamTypeOK
<1>. QED
  BY <1>2, <1>4, <1>5 DEF StreamInv

(* The invariant, for any branches, bound, source and listeners.              *)
THEOREM WiringInvariant == StreamSpec => []StreamInv
<1>1. StreamInv /\ [StreamNext]_streamVars => StreamInv'
  <2>1. ASSUME StreamInv, UNCHANGED streamVars PROVE StreamInv'
    BY <2>1 DEF streamVars, wiringVars, sampleVars, StreamInv, StreamTypeOK, NothingYet, FromTheFirst,
                QueuesBounded, PutInTurn, ShutWithPump, ReturnedEmpty, ScopeEnds, FailedAreTold, Present,
                PumpOver, SinksOver
  <2>2. ASSUME StreamInv, WiringNext PROVE StreamInv'
    BY <2>2, WiresKeeps, ReadsKeepsWiring, PutsToKeeps, PumpOverKeeps, ScopeKeeps, SinkStepKeeps
       DEF WiringNext
  <2>. QED
    BY <2>1, <2>2, SampleKeeps DEF StreamNext
<1>. QED
  BY <1>1, StreamStarts, PTL DEF StreamSpec

(* A connector that ends without an error has shown every sink every value,   *)
(* and leaves nobody behind it (wiring.py: spool, tee, sample).               *)
THEOREM SinksSeeAll == StreamSpec => []EverySinkSeesAll
<1>1. StreamInv => EverySinkSeesAll
  <2>. SUFFICES ASSUME StreamInv PROVE EverySinkSeesAll
    OBVIOUS
  <2>1. \A b \in Present : got[b] <= placed[b] /\ placed[b] <= made /\ Queue(b) <= Buffer
    BY DEF StreamInv, QueuesBounded, Queue
  <2>2. \A b \in Present : sink[b] = "returned" =>
          closedq /\ got[b] = placed[b] /\ (pump = "ended" => got[b] = StreamSize)
    BY DEF StreamInv, ReturnedEmpty, PutInTurn
  <2>3. scope = "left" /\ mode = "tee" => \A b \in Present : got[b] = StreamSize
    BY <2>2 DEF StreamInv, ScopeEnds
  <2>4. scope \in {"left", "raised"} => PumpOver /\ (mode = "tee" => SinksOver)
    BY DEF StreamInv, ScopeEnds
  <2>5. pump = "putting" => \A b \in Present : sink[b] # "returned"
    BY <2>2 DEF StreamInv, ShutWithPump, PumpOver
  <2>. QED
    BY <2>1, <2>2, <2>3, <2>4, <2>5 DEF EverySinkSeesAll, StreamInv, FailedAreTold
<1>. QED
  BY <1>1, WiringInvariant, PTL

-----------------------------------------------------------------------------
(* Logging as a stream: any number of records, any bound of the queue.        *)

CaptureTypes ==
    /\ capturing \in {"open", "flushing", "joining", "abandoned", "over"}
    /\ logged \in Nat
    /\ inEmit = {} \/ inEmit = {logged}
    /\ soon \in Seq(Nat \cup {Waking})
    /\ backlog \in Seq(Nat) /\ sunk \in Seq(Nat)
    /\ drainer \in {"running", "failed", "ended", "cancelled"}

(* Records come to the loop in order, and behind all that has been taken in.  *)
SoonInOrder ==
    /\ \A i \in DOMAIN soon : soon[i] # Waking =>
          /\ soon[i] \in 1 .. logged /\ soon[i] \notin inEmit
          /\ \A j \in DOMAIN soon : soon[j] # Waking /\ i < j => soon[i] < soon[j]
TakenBefore ==
    /\ Ascends(sunk \o backlog)
    /\ \A i \in DOMAIN (sunk \o backlog) :
          /\ (sunk \o backlog)[i] <= logged /\ (sunk \o backlog)[i] \notin inEmit
          /\ \A j \in DOMAIN soon : soon[j] # Waking => (sunk \o backlog)[i] < soon[j]
SomewhereIsEach ==
    1 .. logged = inEmit \cup RecordsIn(soon) \cup RecordsIn(backlog) \cup RecordsIn(sunk)
                    \cup overflow \cup refused

(* What stands behind the end of the block's sleep(0) was in a thread's hands *)
(* when the handler went.                                                     *)
OnceWaking ==
    /\ capturing = "flushing" =>
        \E k \in DOMAIN soon :
            /\ soon[k] = Waking
            /\ \A i \in DOMAIN soon : i # k => soon[i] # Waking
            /\ \A i \in DOMAIN soon : i > k => soon[i] \in straggling
    /\ capturing # "flushing" => \A i \in DOMAIN soon : soon[i] # Waking
    /\ capturing \notin {"open", "flushing"} => \A i \in DOMAIN soon : soon[i] \in straggling
    /\ capturing # "open" => inEmit \subseteq straggling
RefusedStraggled ==
    /\ refused \subseteq straggling
    /\ capturing \in {"open", "flushing"} => refused = {}
EndedEmpty == drainer = "ended" => backlog = <<>> /\ capturing \in {"joining", "over"}

CaptureInv ==
    /\ CaptureTypes /\ SoonInOrder /\ TakenBefore /\ SomewhereIsEach
    /\ OnceWaking /\ RefusedStraggled /\ EndedEmpty

(* The records in a queue that grows or that gives its head.                  *)
LEMMA RecordsAppended ==
  ASSUME NEW S, NEW q \in Seq(S), NEW x \in S
  PROVE  /\ RecordsIn(Append(q, x)) = RecordsIn(q) \cup (IF x = Waking THEN {} ELSE {x})
         /\ Append(q, x) \in Seq(S) /\ Len(Append(q, x)) = Len(q) + 1 /\ Len(q) \in Nat
         /\ DOMAIN Append(q, x) = 1 .. Len(q) + 1 /\ DOMAIN q = 1 .. Len(q)
         /\ Append(q, x)[Len(q) + 1] = x /\ \A i \in 1 .. Len(q) : Append(q, x)[i] = q[i]
<1>1. /\ Append(q, x) \in Seq(S) /\ Len(Append(q, x)) = Len(q) + 1 /\ Len(q) \in Nat
      /\ DOMAIN Append(q, x) = 1 .. Len(q) + 1 /\ DOMAIN q = 1 .. Len(q)
      /\ Append(q, x)[Len(q) + 1] = x /\ \A i \in 1 .. Len(q) : Append(q, x)[i] = q[i]
  OBVIOUS
<1>2. DOMAIN Append(q, x) = DOMAIN q \cup {Len(q) + 1} /\ Len(q) + 1 \notin DOMAIN q
  BY <1>1
<1>3. \A i \in DOMAIN q : Append(q, x)[i] = q[i]
  BY <1>1
<1>. QED
  BY <1>1, <1>2, <1>3 DEF RecordsIn

LEMMA RecordsTaken ==
  ASSUME NEW S, NEW q \in Seq(S), q # <<>>
  PROVE  /\ RecordsIn(q) = RecordsIn(Tail(q)) \cup (IF Head(q) = Waking THEN {} ELSE {Head(q)})
         /\ Tail(q) \in Seq(S) /\ Len(Tail(q)) = Len(q) - 1 /\ Len(q) \in Nat \ {0}
         /\ DOMAIN Tail(q) = 1 .. Len(q) - 1 /\ DOMAIN q = 1 .. Len(q)
         /\ Head(q) = q[1] /\ Head(q) \in S /\ \A i \in 1 .. Len(q) - 1 : Tail(q)[i] = q[i + 1]
<1>1. /\ Tail(q) \in Seq(S) /\ Len(Tail(q)) = Len(q) - 1 /\ Len(q) \in Nat \ {0}
      /\ DOMAIN Tail(q) = 1 .. Len(q) - 1 /\ DOMAIN q = 1 .. Len(q)
      /\ Head(q) = q[1] /\ Head(q) \in S /\ \A i \in 1 .. Len(q) - 1 : Tail(q)[i] = q[i + 1]
  OBVIOUS
<1>2. ASSUME NEW n \in RecordsIn(q) PROVE n \in RecordsIn(Tail(q)) \/ (n = Head(q) /\ n # Waking)
  <2>1. PICK i \in 1 .. Len(q) : q[i] # Waking /\ n = q[i]
    BY <1>1, <1>2 DEF RecordsIn
  <2>2. CASE i = 1
    BY <1>1, <2>1, <2>2
  <2>3. CASE i # 1
    <3>1. i - 1 \in 1 .. Len(q) - 1 /\ Tail(q)[i - 1] = q[(i - 1) + 1] /\ (i - 1) + 1 = i
      BY <1>1, <2>1, <2>3
    <3>. QED
      BY <1>1, <2>1, <3>1 DEF RecordsIn
  <2>. QED
    BY <2>2, <2>3
<1>3. ASSUME NEW n \in RecordsIn(Tail(q)) PROVE n \in RecordsIn(q)
  <2>1. PICK i \in 1 .. Len(q) - 1 : Tail(q)[i] # Waking /\ n = Tail(q)[i]
    BY <1>1, <1>3 DEF RecordsIn
  <2>2. i + 1 \in DOMAIN q /\ Tail(q)[i] = q[i + 1]
    BY <1>1, <2>1
  <2>. QED
    BY <2>1, <2>2 DEF RecordsIn
<1>4. Head(q) # Waking => Head(q) \in RecordsIn(q)
  <2>1. 1 \in DOMAIN q
    BY <1>1
  <2>. QED
    BY <1>1, <2>1 DEF RecordsIn
<1>5. RecordsIn(q) = RecordsIn(Tail(q)) \cup (IF Head(q) = Waking THEN {} ELSE {Head(q)})
  BY <1>2, <1>3, <1>4
<1>. QED
  BY <1>1, <1>5

LEMMA CaptureStarts == ASSUME CaptureInit PROVE CaptureInv
<1>. USE DEF CaptureInit
<1>1. sunk \o backlog = <<>> /\ DOMAIN (sunk \o backlog) = {} /\ DOMAIN soon = {} /\ DOMAIN backlog = {}
      /\ DOMAIN sunk = {}
  OBVIOUS
<1>2. CaptureTypes
  BY DEF CaptureTypes
<1>3. SoonInOrder /\ TakenBefore /\ OnceWaking /\ RefusedStraggled /\ EndedEmpty
  BY <1>1 DEF SoonInOrder, TakenBefore, Ascends, OnceWaking, RefusedStraggled, EndedEmpty
<1>4. 1 .. logged = {} /\ RecordsIn(soon) = {} /\ RecordsIn(backlog) = {} /\ RecordsIn(sunk) = {}
  BY <1>1 DEF RecordsIn
<1>5. SomewhereIsEach
  BY <1>4 DEF SomewhereIsEach
<1>. QED
  BY <1>2, <1>3, <1>5 DEF CaptureInv

(* A record that is new comes behind all others.                              *)
LEMMA LogsKeep == ASSUME CaptureInv, LoopLogs \/ ThreadLogs PROVE CaptureInv'
<1>1. /\ capturing = "open" /\ inEmit = {} /\ logged' = logged + 1 /\ logged \in Nat
      /\ \/ soon' = Append(soon, logged + 1) /\ inEmit' = {}
         \/ soon' = soon /\ inEmit' = {logged + 1}
      /\ UNCHANGED <<capturing, backlog, drainer, sunk, overflow, straggling, refused>>
      /\ soon \in Seq(Nat \cup {Waking}) /\ logged + 1 # Waking
      /\ backlog \in Seq(Nat) /\ sunk \in Seq(Nat)
  BY LoggingAssumption DEF LoopLogs, ThreadLogs, CaptureInv, CaptureTypes
<1>2. /\ RecordsIn(soon') \cup inEmit' = RecordsIn(soon) \cup {logged + 1}
      /\ soon' \in Seq(Nat \cup {Waking})
      /\ DOMAIN soon = 1 .. Len(soon) /\ Len(soon) \in Nat
      /\ \A i \in DOMAIN soon' : soon'[i] # Waking =>
            \/ i \in DOMAIN soon /\ soon'[i] = soon[i]
            \/ soon'[i] = logged + 1 /\ i = Len(soon) + 1 /\ inEmit' = {}
      /\ \A i \in DOMAIN soon' : i \notin DOMAIN soon => soon'[i] = logged + 1
      /\ \A i \in DOMAIN soon : i \in DOMAIN soon' /\ soon'[i] = soon[i]
  <2>1. CASE soon' = soon /\ inEmit' = {logged + 1}
    BY <1>1, <2>1
  <2>2. CASE soon' = Append(soon, logged + 1) /\ inEmit' = {}
    <3>1. logged + 1 \in Nat \cup {Waking}
      BY <1>1
    <3>2. /\ RecordsIn(soon') = RecordsIn(soon) \cup {logged + 1}
          /\ soon' \in Seq(Nat \cup {Waking}) /\ Len(soon) \in Nat
          /\ DOMAIN soon' = 1 .. Len(soon) + 1 /\ DOMAIN soon = 1 .. Len(soon)
          /\ soon'[Len(soon) + 1] = logged + 1 /\ \A i \in 1 .. Len(soon) : soon'[i] = soon[i]
      <4>. DEFINE S == Nat \cup {Waking}
                  q == soon
                  n == logged + 1
      <4>1. q \in Seq(S) /\ n \in S /\ n # Waking /\ soon' = Append(q, n)
        BY <1>1, <2>2, <3>1
      <4>. HIDE DEF S, q, n
      <4>2. /\ RecordsIn(Append(q, n)) = RecordsIn(q) \cup (IF n = Waking THEN {} ELSE {n})
            /\ Append(q, n) \in Seq(S) /\ Len(q) \in Nat
            /\ DOMAIN Append(q, n) = 1 .. Len(q) + 1 /\ DOMAIN q = 1 .. Len(q)
            /\ Append(q, n)[Len(q) + 1] = n /\ \A i \in 1 .. Len(q) : Append(q, n)[i] = q[i]
        BY <4>1, RecordsAppended
      <4>3. RecordsIn(Append(q, n)) = RecordsIn(q) \cup {n}
        BY <4>1, <4>2
      <4>. QED
        BY <4>1, <4>2, <4>3 DEF S, q, n
    <3>3. \A i \in DOMAIN soon' : i \in DOMAIN soon \/ i = Len(soon) + 1
      BY <3>2
    <3>4. \A i \in DOMAIN soon : i \in DOMAIN soon'
      BY <3>2
    <3>. QED
      BY <2>2, <3>2, <3>3, <3>4
  <2>. QED
    BY <1>1, <2>1, <2>2
<1>3. CaptureTypes'
  BY <1>1, <1>2 DEF CaptureInv, CaptureTypes
<1>4. SoonInOrder'
  <2>1. SUFFICES ASSUME NEW i \in DOMAIN soon', soon'[i] # Waking
                 PROVE  /\ soon'[i] \in 1 .. logged' /\ soon'[i] \notin inEmit'
                        /\ \A j \in DOMAIN soon' : soon'[j] # Waking /\ i < j => soon'[i] < soon'[j]
    BY DEF SoonInOrder
  <2>2. CASE i \in DOMAIN soon /\ soon'[i] = soon[i]
    <3>1. soon[i] \in 1 .. logged /\ \A j \in DOMAIN soon : soon[j] # Waking /\ i < j => soon[i] < soon[j]
      BY <2>1, <2>2 DEF CaptureInv, SoonInOrder
    <3>2. soon[i] < logged + 1 /\ soon[i] \in 1 .. logged + 1 /\ soon[i] # logged + 1
      BY <1>1, <3>1
    <3>. QED
      BY <1>1, <1>2, <2>2, <3>1, <3>2
  <2>3. CASE soon'[i] = logged + 1 /\ i = Len(soon) + 1 /\ inEmit' = {}
    <3>1. \A j \in DOMAIN soon' : soon'[j] # Waking => ~(i < j)
      BY <1>2, <2>3
    <3>. QED
      BY <1>1, <2>3, <3>1
  <2>. QED
    BY <1>2, <2>1, <2>2, <2>3
<1>5. TakenBefore'
  <2>1. SUFFICES ASSUME NEW i \in DOMAIN (sunk \o backlog)
                 PROVE  /\ (sunk \o backlog)[i] <= logged' /\ (sunk \o backlog)[i] \notin inEmit'
                        /\ \A j \in DOMAIN soon' : soon'[j] # Waking => (sunk \o backlog)[i] < soon'[j]
    BY <1>1 DEF CaptureInv, TakenBefore
  <2>2. (sunk \o backlog)[i] <= logged /\ (sunk \o backlog)[i] \in Nat
    <3>1. (sunk \o backlog)[i] <= logged
      BY <2>1 DEF CaptureInv, TakenBefore
    <3>2. sunk \in Seq(Nat) /\ backlog \in Seq(Nat)
      BY DEF CaptureInv, CaptureTypes
    <3>. DEFINE q == sunk \o backlog
    <3>3. q \in Seq(Nat) /\ DOMAIN q = 1 .. Len(q)
      BY <3>2
    <3>. HIDE DEF q
    <3>4. q[i] \in Nat
      BY <2>1, <3>3 DEF q
    <3>. QED
      BY <3>1, <3>4 DEF q
  <2>3. \A j \in DOMAIN soon : soon[j] # Waking => (sunk \o backlog)[i] < soon[j]
    BY <2>1 DEF CaptureInv, TakenBefore
  <2>4. (sunk \o backlog)[i] < logged + 1 /\ (sunk \o backlog)[i] <= logged + 1
        /\ (sunk \o backlog)[i] # logged + 1
    BY <1>1, <2>2
  <2>5. (sunk \o backlog)[i] <= logged'
    BY <1>1, <2>4
  <2>6. (sunk \o backlog)[i] \notin inEmit'
    BY <1>1, <2>4
  <2>7. ASSUME NEW j \in DOMAIN soon', soon'[j] # Waking PROVE (sunk \o backlog)[i] < soon'[j]
    <3>1. CASE j \in DOMAIN soon /\ soon'[j] = soon[j]
      BY <2>3, <2>7, <3>1
    <3>2. CASE soon'[j] = logged + 1
      BY <2>4, <3>2
    <3>. QED
      BY <1>2, <2>7, <3>1, <3>2
  <2>. QED
    BY <2>5, <2>6, <2>7
<1>6. SomewhereIsEach'
  <2>1. 1 .. logged + 1 = (1 .. logged) \cup {logged + 1}
    BY <1>1
  <2>2. UNCHANGED <<backlog, sunk, overflow, refused>>
    BY <1>1
  <2>3. RecordsIn(backlog') = RecordsIn(backlog) /\ RecordsIn(sunk') = RecordsIn(sunk)
    BY <2>2
  <2>. QED
    BY <1>1, <1>2, <2>1, <2>2, <2>3 DEF CaptureInv, SomewhereIsEach
<1>7. OnceWaking'
  BY <1>1, <1>2 DEF CaptureInv, OnceWaking
<1>8. RefusedStraggled' /\ EndedEmpty'
  BY <1>1 DEF CaptureInv, RefusedStraggled, EndedEmpty
<1>. QED
  BY <1>3, <1>4, <1>5, <1>6, <1>7, <1>8 DEF CaptureInv

LEMMA HandsKeep == ASSUME CaptureInv, HandsToLoop PROVE CaptureInv'
<1>1. /\ inEmit = {logged} /\ inEmit' = {} /\ soon' = Append(soon, logged) /\ logged \in Nat
      /\ UNCHANGED <<capturing, logged, backlog, drainer, sunk, overflow, straggling, refused>>
      /\ soon \in Seq(Nat \cup {Waking}) /\ logged # Waking /\ logged \in Nat \cup {Waking}
      /\ backlog \in Seq(Nat) /\ sunk \in Seq(Nat)
  BY LoggingAssumption DEF HandsToLoop, CaptureInv, CaptureTypes
<1>2. /\ RecordsIn(soon') = RecordsIn(soon) \cup {logged}
      /\ soon' \in Seq(Nat \cup {Waking}) /\ Len(soon) \in Nat
      /\ DOMAIN soon' = 1 .. Len(soon) + 1 /\ DOMAIN soon = 1 .. Len(soon)
      /\ soon'[Len(soon) + 1] = logged /\ \A i \in 1 .. Len(soon) : soon'[i] = soon[i]
  <2>. DEFINE S == Nat \cup {Waking}
              q == soon
  <2>1. q \in Seq(S) /\ logged \in S
    BY <1>1
  <2>. HIDE DEF S, q
  <2>2. /\ RecordsIn(Append(q, logged)) = RecordsIn(q) \cup (IF logged = Waking THEN {} ELSE {logged})
        /\ Append(q, logged) \in Seq(S) /\ Len(q) \in Nat
        /\ DOMAIN Append(q, logged) = 1 .. Len(q) + 1 /\ DOMAIN q = 1 .. Len(q)
        /\ Append(q, logged)[Len(q) + 1] = logged /\ \A i \in 1 .. Len(q) : Append(q, logged)[i] = q[i]
    BY <2>1, RecordsAppended
  <2>. QED
    BY <1>1, <2>2 DEF S, q
<1>3. /\ \A i \in DOMAIN soon' : i \in DOMAIN soon \/ i = Len(soon) + 1
      /\ \A i \in DOMAIN soon : i \in DOMAIN soon' /\ soon'[i] = soon[i]
  BY <1>2
<1>4. CaptureTypes'
  BY <1>1, <1>2 DEF CaptureInv, CaptureTypes
<1>5. logged \in 1 .. logged
  <2>1. logged \in inEmit
    BY <1>1
  <2>. QED
    BY <2>1 DEF CaptureInv, SomewhereIsEach
<1>6. SoonInOrder'
  <2>1. SUFFICES ASSUME NEW i \in DOMAIN soon', soon'[i] # Waking
                 PROVE  /\ soon'[i] \in 1 .. logged' /\ soon'[i] \notin inEmit'
                        /\ \A j \in DOMAIN soon' : soon'[j] # Waking /\ i < j => soon'[i] < soon'[j]
    BY DEF SoonInOrder
  <2>2. CASE i \in DOMAIN soon
    <3>1. /\ soon[i] \in 1 .. logged /\ soon[i] # logged
          /\ \A j \in DOMAIN soon : soon[j] # Waking /\ i < j => soon[i] < soon[j]
      BY <1>1, <1>3, <2>1, <2>2 DEF CaptureInv, SoonInOrder
    <3>2. soon[i] < logged
      BY <1>1, <3>1
    <3>. QED
      BY <1>1, <1>2, <1>3, <2>2, <3>1, <3>2
  <2>3. CASE i = Len(soon) + 1
    <3>1. \A j \in DOMAIN soon' : ~(i < j)
      BY <1>2, <2>3
    <3>. QED
      BY <1>1, <1>2, <1>5, <2>3, <3>1
  <2>. QED
    BY <1>3, <2>2, <2>3
<1>7. TakenBefore'
  <2>1. SUFFICES ASSUME NEW i \in DOMAIN (sunk \o backlog)
                 PROVE  /\ (sunk \o backlog)[i] <= logged' /\ (sunk \o backlog)[i] \notin inEmit'
                        /\ \A j \in DOMAIN soon' : soon'[j] # Waking => (sunk \o backlog)[i] < soon'[j]
    BY <1>1 DEF CaptureInv, TakenBefore
  <2>2. (sunk \o backlog)[i] <= logged /\ (sunk \o backlog)[i] \in Nat /\ (sunk \o backlog)[i] # logged
    BY <1>1, <2>1 DEF CaptureInv, TakenBefore
  <2>3. \A j \in DOMAIN soon : soon[j] # Waking => (sunk \o backlog)[i] < soon[j]
    BY <2>1 DEF CaptureInv, TakenBefore
  <2>4. (sunk \o backlog)[i] < logged
    BY <1>1, <2>2
  <2>. QED
    BY <1>1, <1>2, <1>3, <2>2, <2>3, <2>4
<1>8. SomewhereIsEach'
  BY <1>1, <1>2 DEF CaptureInv, SomewhereIsEach
<1>9. OnceWaking'
  <2>1. CASE capturing = "flushing"
    <3>1. PICK k \in DOMAIN soon :
            /\ soon[k] = Waking
            /\ \A i \in DOMAIN soon : i # k => soon[i] # Waking
            /\ \A i \in DOMAIN soon : i > k => soon[i] \in straggling
      BY <2>1 DEF CaptureInv, OnceWaking
    <3>2. logged \in straggling
      BY <1>1, <2>1 DEF CaptureInv, OnceWaking
    <3>. QED
      BY <1>1, <1>2, <1>3, <2>1, <3>1, <3>2 DEF OnceWaking
  <2>2. CASE capturing # "flushing"
    BY <1>1, <1>2, <1>3, <2>2 DEF CaptureInv, OnceWaking
  <2>. QED
    BY <2>1, <2>2
<1>10. RefusedStraggled' /\ EndedEmpty'
  BY <1>1 DEF CaptureInv, RefusedStraggled, EndedEmpty
<1>. QED
  BY <1>4, <1>6, <1>7, <1>8, <1>9, <1>10 DEF CaptureInv

(* The loop runs what is first: what is behind it keeps its order.            *)
LEMMA SoonAdvances ==
  ASSUME CaptureInv, soon # <<>>, soon' = Tail(soon), UNCHANGED <<inEmit, logged>>
  PROVE  /\ RecordsIn(soon) = RecordsIn(soon') \cup (IF Head(soon) = Waking THEN {} ELSE {Head(soon)})
         /\ soon' \in Seq(Nat \cup {Waking}) /\ SoonInOrder'
         /\ \A i \in DOMAIN soon' : i + 1 \in DOMAIN soon /\ soon'[i] = soon[i + 1] /\ i \in Nat \ {0}
         /\ 1 \in DOMAIN soon /\ Head(soon) = soon[1] /\ DOMAIN soon = 1 .. Len(soon)
         /\ DOMAIN soon' = 1 .. Len(soon) - 1 /\ Len(soon) \in Nat \ {0}
<1>1. soon \in Seq(Nat \cup {Waking})
  BY DEF CaptureInv, CaptureTypes
<1>2. /\ RecordsIn(soon) = RecordsIn(soon') \cup (IF Head(soon) = Waking THEN {} ELSE {Head(soon)})
      /\ soon' \in Seq(Nat \cup {Waking}) /\ Len(soon) \in Nat \ {0}
      /\ DOMAIN soon' = 1 .. Len(soon) - 1 /\ DOMAIN soon = 1 .. Len(soon)
      /\ Head(soon) = soon[1] /\ \A i \in 1 .. Len(soon) - 1 : soon'[i] = soon[i + 1]
  BY <1>1, RecordsTaken
<1>3. \A i \in DOMAIN soon' : i + 1 \in DOMAIN soon /\ soon'[i] = soon[i + 1] /\ i \in Nat \ {0}
  BY <1>2
<1>4. \A i, j \in DOMAIN soon' : i < j => i + 1 < j + 1
  BY <1>2
<1>5. SoonInOrder'
  BY <1>3, <1>4 DEF CaptureInv, SoonInOrder
<1>6. 1 \in DOMAIN soon
  BY <1>2
<1>. QED
  BY <1>2, <1>3, <1>5, <1>6

(* The head of what is behind the waking is a straggler.                      *)
LEMMA OfferedStraggled ==
  ASSUME CaptureInv, soon # <<>>, Head(soon) # Waking, soon' = Tail(soon),
         UNCHANGED <<inEmit, logged, capturing, straggling>>
  PROVE  /\ OnceWaking'
         /\ capturing \in {"joining", "over"} => Head(soon) \in straggling
<1>1. /\ \A i \in DOMAIN soon' : i + 1 \in DOMAIN soon /\ soon'[i] = soon[i + 1] /\ i \in Nat \ {0}
      /\ 1 \in DOMAIN soon /\ Head(soon) = soon[1] /\ DOMAIN soon = 1 .. Len(soon)
      /\ DOMAIN soon' = 1 .. Len(soon) - 1 /\ Len(soon) \in Nat \ {0}
  BY SoonAdvances
<1>2. CASE capturing = "flushing"
  <2>1. PICK k \in DOMAIN soon :
          /\ soon[k] = Waking
          /\ \A i \in DOMAIN soon : i # k => soon[i] # Waking
          /\ \A i \in DOMAIN soon : i > k => soon[i] \in straggling
    BY <1>2 DEF CaptureInv, OnceWaking
  <2>2. k \in 1 .. Len(soon) /\ k # 1
    BY <1>1, <2>1
  <2>3. k - 1 \in DOMAIN soon' /\ (k - 1) + 1 = k
    BY <1>1, <2>2
  <2>4. soon'[k - 1] = Waking
    BY <1>1, <2>1, <2>3
  <2>5. ASSUME NEW i \in DOMAIN soon', i # k - 1
        PROVE  soon'[i] # Waking /\ (i > k - 1 => soon'[i] \in straggling)
    <3>1. i + 1 # k /\ (i > k - 1 => i + 1 > k) /\ i + 1 \in DOMAIN soon /\ soon'[i] = soon[i + 1]
      BY <1>1, <2>2, <2>5
    <3>. QED
      BY <2>1, <3>1
  <2>6. \A i \in DOMAIN soon' : i > k - 1 => i # k - 1
    BY <1>1, <2>2
  <2>. QED
    BY <1>2, <2>3, <2>4, <2>5, <2>6 DEF CaptureInv, OnceWaking
<1>3. CASE capturing # "flushing"
  BY <1>1, <1>3 DEF CaptureInv, OnceWaking
<1>. QED
  BY <1>2, <1>3

LEMMA OfferedKeeps == ASSUME CaptureInv, Offered PROVE CaptureInv'
<1>1. /\ soon # <<>> /\ Head(soon) # Waking /\ soon' = Tail(soon)
      /\ UNCHANGED <<capturing, logged, inEmit, drainer, sunk, straggling>>
      /\ \/ capturing \in {"joining", "over"} /\ refused' = refused \cup {Head(soon)}
            /\ UNCHANGED <<backlog, overflow>>
         \/ overflow' = overflow \cup {Head(soon)} /\ UNCHANGED <<backlog, refused>>
         \/ capturing \notin {"joining", "over"} /\ backlog' = Append(backlog, Head(soon))
            /\ UNCHANGED <<overflow, refused>>
  BY DEF Offered
<1>2. /\ RecordsIn(soon) = RecordsIn(soon') \cup {Head(soon)}
      /\ soon' \in Seq(Nat \cup {Waking}) /\ SoonInOrder'
      /\ \A i \in DOMAIN soon' : i + 1 \in DOMAIN soon /\ soon'[i] = soon[i + 1] /\ i \in Nat \ {0}
      /\ 1 \in DOMAIN soon /\ Head(soon) = soon[1]
      /\ OnceWaking' /\ (capturing \in {"joining", "over"} => Head(soon) \in straggling)
  BY <1>1, SoonAdvances, OfferedStraggled
<1>3. /\ Head(soon) \in 1 .. logged /\ Head(soon) \notin inEmit /\ logged \in Nat
      /\ \A i \in DOMAIN soon' : soon'[i] # Waking => Head(soon) < soon'[i]
  <2>1. Head(soon) \in 1 .. logged /\ Head(soon) \notin inEmit
        /\ \A j \in DOMAIN soon : soon[j] # Waking /\ 1 < j => soon[1] < soon[j]
    BY <1>1, <1>2 DEF CaptureInv, SoonInOrder
  <2>2. \A i \in DOMAIN soon' : 1 < i + 1
    BY <1>2
  <2>. QED
    BY <1>2, <2>1, <2>2 DEF CaptureInv, CaptureTypes
<1>4. backlog \in Seq(Nat) /\ sunk \in Seq(Nat) /\ Head(soon) \in Nat
  BY <1>3 DEF CaptureInv, CaptureTypes
<1>5. /\ backlog' \in Seq(Nat)
      /\ RecordsIn(soon) \cup RecordsIn(backlog) \cup overflow \cup refused
           = RecordsIn(soon') \cup RecordsIn(backlog') \cup overflow' \cup refused'
  <2>1. CASE backlog' = Append(backlog, Head(soon)) /\ UNCHANGED <<overflow, refused>>
    <3>1. backlog' \in Seq(Nat) /\ RecordsIn(backlog') = RecordsIn(backlog) \cup {Head(soon)}
      <4>. DEFINE h == Head(soon)
                  q == backlog
      <4>1. h \in Nat /\ q \in Seq(Nat) /\ h # Waking
        BY <1>1, <1>4
      <4>. HIDE DEF h, q
      <4>2. Append(q, h) \in Seq(Nat) /\ RecordsIn(Append(q, h)) = RecordsIn(q) \cup {h}
        BY <4>1, RecordsAppended
      <4>. QED
        BY <2>1, <4>2 DEF h, q
    <3>. QED
      BY <1>2, <2>1, <3>1
  <2>2. CASE refused' = refused \cup {Head(soon)} /\ UNCHANGED <<backlog, overflow>>
    BY <1>2, <1>4, <2>2
  <2>3. CASE overflow' = overflow \cup {Head(soon)} /\ UNCHANGED <<backlog, refused>>
    BY <1>2, <1>4, <2>3
  <2>. QED
    BY <1>1, <2>1, <2>2, <2>3
<1>6. TakenBefore'
  <2>. DEFINE Q == sunk \o backlog
              n == Len(sunk) + Len(backlog)
  <2>1. /\ Q \in Seq(Nat) /\ DOMAIN Q = 1 .. n /\ n \in Nat
    BY <1>4
  <2>2. /\ Ascends(Q)
        /\ \A i \in DOMAIN Q :
             /\ Q[i] <= logged /\ Q[i] \notin inEmit
             /\ \A j \in DOMAIN soon : soon[j] # Waking => Q[i] < soon[j]
    BY DEF CaptureInv, TakenBefore
  <2>3. \A i \in DOMAIN Q : Q[i] < Head(soon)
    BY <1>1, <1>2, <2>2
  <2>4. CASE backlog' = backlog
    BY <1>1, <1>2, <2>2, <2>4 DEF TakenBefore
  <2>5. CASE backlog' = Append(backlog, Head(soon))
    <3>. DEFINE R == sunk \o Append(backlog, Head(soon))
    <3>1. /\ R \in Seq(Nat) /\ DOMAIN R = 1 .. n + 1 /\ R[n + 1] = Head(soon)
          /\ \A i \in 1 .. n : R[i] = Q[i]
      <4>1. Append(backlog, Head(soon)) \in Seq(Nat) /\ Len(Append(backlog, Head(soon))) = Len(backlog) + 1
        BY <1>4
      <4>2. R \in Seq(Nat) /\ DOMAIN R = 1 .. n + 1
        BY <1>4, <4>1
      <4>3. ASSUME NEW i \in 1 .. n PROVE R[i] = Q[i]
        <5>1. CASE i <= Len(sunk)
          BY <1>4, <4>1, <4>3, <5>1
        <5>2. CASE ~(i <= Len(sunk))
          <6>1. i - Len(sunk) \in 1 .. Len(backlog)
            BY <1>4, <4>3, <5>2
          <6>2. R[i] = Append(backlog, Head(soon))[i - Len(sunk)] /\ Q[i] = backlog[i - Len(sunk)]
            BY <1>4, <4>1, <4>3, <5>2
          <6>. QED
            BY <1>4, <6>1, <6>2
        <5>. QED
          BY <5>1, <5>2
      <4>4. R[n + 1] = Append(backlog, Head(soon))[Len(backlog) + 1]
        BY <1>4, <4>1
      <4>. QED
        BY <1>4, <4>2, <4>3, <4>4
    <3>. HIDE DEF R, Q, n
    <3>2. Ascends(R)
      <4>1. SUFFICES ASSUME NEW i \in DOMAIN R, NEW j \in DOMAIN R, i < j PROVE R[i] < R[j]
        BY DEF Ascends
      <4>2. i \in 1 .. n /\ R[i] = Q[i] /\ i \in DOMAIN Q
        BY <2>1, <3>1, <4>1
      <4>3. CASE j = n + 1
        BY <2>3, <3>1, <4>2, <4>3
      <4>4. CASE j # n + 1
        BY <2>1, <2>2, <3>1, <4>1, <4>2, <4>4 DEF Ascends
      <4>. QED
        BY <4>3, <4>4
    <3>3. ASSUME NEW i \in DOMAIN R
          PROVE  /\ R[i] <= logged /\ R[i] \notin inEmit
                 /\ \A j \in DOMAIN soon' : soon'[j] # Waking => R[i] < soon'[j]
      <4>1. CASE i = n + 1
        BY <1>3, <3>1, <4>1
      <4>2. CASE i # n + 1
        <5>1. i \in DOMAIN Q /\ R[i] = Q[i]
          BY <2>1, <3>1, <3>3, <4>2
        <5>. QED
          BY <1>2, <2>2, <5>1
      <4>. QED
        BY <4>1, <4>2
    <3>4. R = sunk' \o backlog'
      BY <1>1, <2>5 DEF R
    <3>. QED
      BY <1>1, <3>2, <3>3, <3>4 DEF TakenBefore
  <2>. QED
    BY <1>1, <2>4, <2>5
<1>7. CaptureTypes'
  BY <1>1, <1>2, <1>5 DEF CaptureInv, CaptureTypes
<1>8. SomewhereIsEach'
  BY <1>1, <1>5 DEF CaptureInv, SomewhereIsEach
<1>9. RefusedStraggled' /\ EndedEmpty'
  BY <1>1, <1>2 DEF CaptureInv, RefusedStraggled, EndedEmpty
<1>. QED
  BY <1>2, <1>6, <1>7, <1>8, <1>9 DEF CaptureInv

LEMMA SinkTakesKeeps == ASSUME CaptureInv, SinkTakes PROVE CaptureInv'
<1>1. /\ drainer = "running" /\ backlog # <<>> /\ sunk' = Append(sunk, Head(backlog)) /\ backlog' = Tail(backlog)
      /\ UNCHANGED <<capturing, logged, inEmit, soon, drainer, overflow, straggling, refused>>
      /\ backlog \in Seq(Nat) /\ sunk \in Seq(Nat)
  BY DEF SinkTakes, CaptureInv, CaptureTypes
<1>2. Head(backlog) \in Nat /\ Head(backlog) # Waking
  BY <1>1, LoggingAssumption
<1>3. /\ RecordsIn(backlog) = RecordsIn(backlog') \cup {Head(backlog)}
      /\ RecordsIn(sunk') = RecordsIn(sunk) \cup {Head(backlog)}
      /\ backlog' \in Seq(Nat) /\ sunk' \in Seq(Nat)
  BY <1>1, <1>2, RecordsTaken, RecordsAppended
<1>4. sunk' \o backlog' = sunk \o backlog
  <2>. DEFINE P == Append(sunk, Head(backlog)) \o Tail(backlog)
              Q == sunk \o backlog
  <2>1. /\ Len(backlog) \in Nat \ {0} /\ Len(sunk) \in Nat
        /\ Len(Append(sunk, Head(backlog))) = Len(sunk) + 1 /\ Len(Tail(backlog)) = Len(backlog) - 1
        /\ Append(sunk, Head(backlog)) \in Seq(Nat) /\ Tail(backlog) \in Seq(Nat)
    BY <1>1, <1>2
  <2>2. P \in Seq(Nat) /\ Q \in Seq(Nat) /\ Len(P) = Len(sunk) + Len(backlog) /\ Len(Q) = Len(sunk) + Len(backlog)
    BY <1>1, <2>1
  <2>3. ASSUME NEW i \in 1 .. Len(sunk) + Len(backlog) PROVE P[i] = Q[i]
    <3>1. CASE i <= Len(sunk)
      BY <1>1, <1>2, <2>1, <2>3, <3>1
    <3>2. CASE i = Len(sunk) + 1
      BY <1>1, <1>2, <2>1, <2>3, <3>2
    <3>3. CASE i > Len(sunk) + 1
      <4>1. i - (Len(sunk) + 1) \in 1 .. Len(backlog) - 1 /\ (i - (Len(sunk) + 1)) + 1 = i - Len(sunk)
        BY <2>1, <2>3, <3>3
      <4>2. P[i] = Tail(backlog)[i - (Len(sunk) + 1)] /\ Q[i] = backlog[i - Len(sunk)]
        BY <1>1, <2>1, <2>3, <3>3
      <4>3. Tail(backlog)[i - (Len(sunk) + 1)] = backlog[(i - (Len(sunk) + 1)) + 1]
        BY <1>1, <2>1, <4>1
      <4>. QED
        BY <4>1, <4>2, <4>3
    <3>. QED
      BY <2>1, <2>3, <3>1, <3>2, <3>3
  <2>. HIDE DEF P, Q
  <2>4. P = Q
    BY <2>1, <2>2, <2>3
  <2>. QED
    BY <1>1, <2>4 DEF P, Q
<1>5. CaptureTypes' /\ SoonInOrder' /\ OnceWaking' /\ RefusedStraggled' /\ EndedEmpty'
  BY <1>1, <1>3 DEF CaptureInv, CaptureTypes, SoonInOrder, OnceWaking, RefusedStraggled, EndedEmpty
<1>6. TakenBefore'
  BY <1>1, <1>4 DEF CaptureInv, TakenBefore
<1>7. SomewhereIsEach'
  BY <1>1, <1>3 DEF CaptureInv, SomewhereIsEach
<1>. QED
  BY <1>5, <1>6, <1>7 DEF CaptureInv

LEMMA DetachesKeeps == ASSUME CaptureInv, Detaches PROVE CaptureInv'
<1>1. /\ capturing = "open" /\ capturing' = "flushing" /\ straggling' = inEmit /\ soon' = Append(soon, Waking)
      /\ UNCHANGED <<logged, inEmit, backlog, drainer, sunk, overflow, refused>>
      /\ soon \in Seq(Nat \cup {Waking}) /\ Waking \in Nat \cup {Waking}
  BY DEF Detaches, CaptureInv, CaptureTypes
<1>2. /\ RecordsIn(soon') = RecordsIn(soon)
      /\ soon' \in Seq(Nat \cup {Waking}) /\ Len(soon) \in Nat
      /\ DOMAIN soon' = 1 .. Len(soon) + 1 /\ DOMAIN soon = 1 .. Len(soon)
      /\ soon'[Len(soon) + 1] = Waking /\ \A i \in 1 .. Len(soon) : soon'[i] = soon[i]
  <2>. DEFINE S == Nat \cup {Waking}
              q == soon
  <2>1. q \in Seq(S) /\ Waking \in S
    BY <1>1
  <2>. HIDE DEF S, q
  <2>2. /\ RecordsIn(Append(q, Waking)) = RecordsIn(q) \cup (IF Waking = Waking THEN {} ELSE {Waking})
        /\ Append(q, Waking) \in Seq(S) /\ Len(q) \in Nat
        /\ DOMAIN Append(q, Waking) = 1 .. Len(q) + 1 /\ DOMAIN q = 1 .. Len(q)
        /\ Append(q, Waking)[Len(q) + 1] = Waking
        /\ \A i \in 1 .. Len(q) : Append(q, Waking)[i] = q[i]
    BY <2>1, RecordsAppended
  <2>3. RecordsIn(Append(q, Waking)) = RecordsIn(q)
    BY <2>2
  <2>. QED
    BY <1>1, <2>2, <2>3 DEF S, q
<1>3. /\ \A i \in DOMAIN soon' : i \in DOMAIN soon \/ i = Len(soon) + 1
      /\ \A i \in DOMAIN soon : i \in DOMAIN soon' /\ soon'[i] = soon[i]
      /\ \A i \in DOMAIN soon' : ~(i > Len(soon) + 1) /\ (i # Len(soon) + 1 => i \in DOMAIN soon)
      /\ Len(soon) + 1 \in DOMAIN soon'
  BY <1>2
<1>4. CaptureTypes'
  BY <1>1, <1>2 DEF CaptureInv, CaptureTypes
<1>5. SoonInOrder'
  BY <1>1, <1>2, <1>3 DEF CaptureInv, SoonInOrder
<1>6. TakenBefore'
  BY <1>1, <1>2, <1>3 DEF CaptureInv, TakenBefore
<1>7. SomewhereIsEach'
  BY <1>1, <1>2 DEF CaptureInv, SomewhereIsEach
<1>8. OnceWaking'
  <2>1. \A i \in DOMAIN soon : soon[i] # Waking
    BY <1>1 DEF CaptureInv, OnceWaking
  <2>. QED
    BY <1>1, <1>2, <1>3, <2>1 DEF OnceWaking
<1>9. RefusedStraggled' /\ EndedEmpty'
  BY <1>1 DEF CaptureInv, RefusedStraggled, EndedEmpty
<1>. QED
  BY <1>4, <1>5, <1>6, <1>7, <1>8, <1>9 DEF CaptureInv

LEMMA WakingKeeps == ASSUME CaptureInv, Shuts \/ FlushCutShort PROVE CaptureInv'
<1>1. /\ capturing = "flushing" /\ soon # <<>> /\ Head(soon) = Waking /\ soon' = Tail(soon)
      /\ capturing' \in {"joining", "abandoned"}
      /\ UNCHANGED <<logged, inEmit, backlog, drainer, sunk, overflow, straggling, refused>>
  BY DEF Shuts, FlushCutShort
<1>2. /\ RecordsIn(soon) = RecordsIn(soon')
      /\ soon' \in Seq(Nat \cup {Waking}) /\ SoonInOrder'
      /\ \A i \in DOMAIN soon' : i + 1 \in DOMAIN soon /\ soon'[i] = soon[i + 1] /\ i \in Nat \ {0}
      /\ 1 \in DOMAIN soon /\ Head(soon) = soon[1]
  BY <1>1, SoonAdvances
<1>3. PICK k \in DOMAIN soon :
        /\ soon[k] = Waking
        /\ \A i \in DOMAIN soon : i # k => soon[i] # Waking
        /\ \A i \in DOMAIN soon : i > k => soon[i] \in straggling
  BY <1>1 DEF CaptureInv, OnceWaking
<1>4. k = 1
  BY <1>1, <1>2, <1>3
<1>5. \A i \in DOMAIN soon' : i + 1 > k /\ i + 1 # k
  BY <1>2, <1>4
<1>6. OnceWaking'
  BY <1>1, <1>2, <1>3, <1>5 DEF CaptureInv, OnceWaking
<1>7. CaptureTypes' /\ SomewhereIsEach' /\ RefusedStraggled' /\ EndedEmpty'
  BY <1>1, <1>2 DEF CaptureInv, CaptureTypes, SomewhereIsEach, RefusedStraggled, EndedEmpty
<1>8. TakenBefore'
  BY <1>1, <1>2 DEF CaptureInv, TakenBefore
<1>. QED
  BY <1>2, <1>6, <1>7, <1>8 DEF CaptureInv

LEMMA DrainerKeeps == ASSUME CaptureInv, SinkFails \/ SinkEnds \/ Joined PROVE CaptureInv'
<1>1. /\ UNCHANGED <<logged, inEmit, soon, backlog, sunk, overflow, straggling, refused>>
      /\ drainer' \in {"running", "failed", "ended", "cancelled"}
      /\ drainer' = "ended" => /\ drainer = "ended" \/ backlog = <<>>
                               /\ drainer = "ended" \/ capturing \in {"joining", "over"}
      /\ (capturing' = capturing \/ (capturing = "joining" /\ capturing' = "over"))
  BY DEF SinkFails, SinkEnds, Joined, CaptureInv, CaptureTypes
<1>. QED
  BY <1>1 DEF CaptureInv, CaptureTypes, SoonInOrder, TakenBefore, SomewhereIsEach, OnceWaking,
              RefusedStraggled, EndedEmpty

(* The invariant, for any number of records and any bound of the queue.       *)
THEOREM CaptureInvariant == CaptureInit /\ [][CaptureNext]_captureVars => []CaptureInv
<1>1. CaptureInv /\ [CaptureNext]_captureVars => CaptureInv'
  <2>1. ASSUME CaptureInv, UNCHANGED captureVars PROVE CaptureInv'
    BY <2>1 DEF captureVars, CaptureInv, CaptureTypes, SoonInOrder, TakenBefore, SomewhereIsEach,
                OnceWaking, RefusedStraggled, EndedEmpty
  <2>. QED
    BY <2>1, LogsKeep, HandsKeep, OfferedKeeps, SinkTakesKeeps, DetachesKeeps, WakingKeeps, DrainerKeeps
       DEF CaptureNext
<1>. QED
  BY <1>1, CaptureStarts, PTL

(* Whatever thread logs, and whenever the block ends: no record is lost       *)
(* without a trace, and the sink gets them in order (capture.py).             *)
THEOREM LogAccounted == CaptureInit /\ [][CaptureNext]_captureVars => []LogIsAccountedFor
<1>1. CaptureInv => LogIsAccountedFor
  <2>. SUFFICES ASSUME CaptureInv PROVE LogIsAccountedFor
    OBVIOUS
  <2>1. ASSUME capturing = "over", drainer = "ended", NEW n \in (1 .. logged) \ straggling
        PROVE  n \in RecordsIn(sunk) \cup overflow
    <3>1. RecordsIn(backlog) = {} /\ RecordsIn(soon) \subseteq straggling /\ inEmit \subseteq straggling
      BY <2>1 DEF CaptureInv, EndedEmpty, OnceWaking, RecordsIn
    <3>. QED
      BY <2>1, <3>1 DEF CaptureInv, SomewhereIsEach, RefusedStraggled
  <2>. QED
    BY <2>1 DEF LogIsAccountedFor, CaptureInv, SomewhereIsEach, TakenBefore, RefusedStraggled
<1>. QED
  BY <1>1, CaptureInvariant, PTL

-----------------------------------------------------------------------------
(* The size of a file, which is a sum: what holds of every length does by the *)
(* least length at which it would not.                                        *)
Pieces == [line : Nat, size : Nat, whole : BOOLEAN, at : Nat]

LEMMA SumsExist ==
  ASSUME NEW file \in Seq(Pieces), NEW n \in 0 .. Len(file)
  PROVE  \E g : g = [i \in 0 .. n |-> IF i = 0 THEN 0 ELSE g[i - 1] + file[i].size]
<1>. DEFINE Sums(g, m) == g = [i \in 0 .. m |-> IF i = 0 THEN 0 ELSE g[i - 1] + file[i].size]
            T == {m \in 0 .. Len(file) : ~ \E g : Sums(g, m)}
<1>1. SUFFICES ASSUME T # {} PROVE FALSE
  OBVIOUS
<1>2. Len(file) \in Nat /\ T \subseteq Nat
  OBVIOUS
<1>3. PICK m \in T : \A y \in T : m <= y
  <2>. HIDE DEF T
  <2>. QED
    BY <1>1, <1>2, HasLeast
<1>4. CASE m = 0
  <2>1. Sums([i \in 0 .. 0 |-> 0], 0)
    OBVIOUS
  <2>. QED
    BY <1>3, <1>4, <2>1
<1>5. CASE m # 0
  <2>1. m \in Nat /\ m - 1 \in 0 .. Len(file) /\ m - 1 < m /\ m - 1 \in Nat
    BY <1>2, <1>3, <1>5
  <2>2. m - 1 \notin T
    <3>. HIDE DEF T
    <3>. QED
      BY <1>2, <1>3, <2>1
  <2>3. PICK g : Sums(g, m - 1)
    BY <2>1, <2>2
  <2>. DEFINE h == [i \in 0 .. m |-> IF i = m THEN g[m - 1] + file[m].size ELSE g[i]]
  <2>4. \A i \in 0 .. m - 1 : g[i] = IF i = 0 THEN 0 ELSE g[i - 1] + file[i].size
    BY <2>3
  <2>5. ASSUME NEW i \in 0 .. m PROVE h[i] = IF i = 0 THEN 0 ELSE h[i - 1] + file[i].size
    <3>1. CASE i = m
      <4>1. i - 1 \in 0 .. m /\ i - 1 # m /\ i # 0
        BY <2>1, <1>5, <3>1
      <4>. QED
        BY <3>1, <4>1
    <3>2. CASE i # m
      <4>1. i \in 0 .. m - 1 /\ (i # 0 => i - 1 \in 0 .. m /\ i - 1 # m)
        BY <2>1, <2>5, <3>2
      <4>. QED
        BY <2>4, <2>5, <3>2, <4>1
    <3>. QED
      BY <3>1, <3>2
  <2>6. h = [i \in 0 .. m |-> IF i = 0 THEN 0 ELSE h[i - 1] + file[i].size]
    BY <2>5
  <2>7. Sums(h, m)
    BY <2>6
  <2>. QED
    BY <1>3, <2>7
<1>. QED
  BY <1>4, <1>5

LEMMA SumsAre ==
  ASSUME NEW file \in Seq(Pieces)
  PROVE  /\ SizesUpTo(file)[0] = 0
         /\ \A i \in 1 .. Len(file) : SizesUpTo(file)[i] = SizesUpTo(file)[i - 1] + file[i].size
<1>1. Len(file) \in Nat /\ Len(file) \in 0 .. Len(file)
  OBVIOUS
<1>2. PICK g : g = [i \in 0 .. Len(file) |-> IF i = 0 THEN 0 ELSE g[i - 1] + file[i].size]
  BY <1>1, SumsExist
<1>3. SizesUpTo(file) = [i \in 0 .. Len(file) |-> IF i = 0 THEN 0 ELSE SizesUpTo(file)[i - 1] + file[i].size]
  BY <1>2 DEF SizesUpTo
<1>. HIDE DEF SizesUpTo
<1>4. \A i \in 0 .. Len(file) : SizesUpTo(file)[i] = IF i = 0 THEN 0 ELSE SizesUpTo(file)[i - 1] + file[i].size
  BY <1>3
<1>5. \A i \in 1 .. Len(file) : i \in 0 .. Len(file) /\ i # 0
  BY <1>1
<1>. QED
  BY <1>1, <1>4, <1>5

LEMMA SumsAreNumbers ==
  ASSUME NEW file \in Seq(Pieces), NEW i \in 0 .. Len(file)
  PROVE  SizesUpTo(file)[i] \in Nat
<1>. DEFINE T == {m \in 0 .. Len(file) : SizesUpTo(file)[m] \notin Nat}
<1>1. SUFFICES ASSUME T # {} PROVE FALSE
  OBVIOUS
<1>2. Len(file) \in Nat /\ T \subseteq Nat
  OBVIOUS
<1>3. PICK m \in T : \A y \in T : m <= y
  <2>. HIDE DEF T
  <2>. QED
    BY <1>1, <1>2, HasLeast
<1>4. m # 0
  BY <1>3, SumsAre
<1>5. m \in 1 .. Len(file) /\ m - 1 \in 0 .. Len(file) /\ m - 1 \in Nat /\ ~(m <= m - 1)
  BY <1>2, <1>3, <1>4
<1>6. SizesUpTo(file)[m - 1] \in Nat
  BY <1>3, <1>5
<1>7. file[m].size \in Nat
  <2>1. file[m] \in Pieces
    BY <1>5
  <2>. QED
    BY <2>1 DEF Pieces
<1>. QED
  BY <1>3, <1>5, <1>6, <1>7, SumsAre

LEMMA SizeGrows ==
  ASSUME NEW file \in Seq(Pieces), NEW p \in Pieces
  PROVE  SizeOf(Append(file, p)) = SizeOf(file) + p.size /\ SizeOf(file) \in Nat
<1>. DEFINE q == Append(file, p)
            n == Len(file)
            T == {m \in 0 .. n : SizesUpTo(q)[m] # SizesUpTo(file)[m]}
<1>1. /\ q \in Seq(Pieces) /\ Len(q) = n + 1 /\ n \in Nat /\ q[n + 1] = p
      /\ \A i \in 1 .. n : q[i] = file[i]
  OBVIOUS
<1>2. /\ SizesUpTo(q)[0] = 0 /\ SizesUpTo(file)[0] = 0
      /\ \A i \in 1 .. n + 1 : SizesUpTo(q)[i] = SizesUpTo(q)[i - 1] + q[i].size
      /\ \A i \in 1 .. n : SizesUpTo(file)[i] = SizesUpTo(file)[i - 1] + file[i].size
  <2>. HIDE DEF q
  <2>. QED
    BY <1>1, SumsAre
<1>. HIDE DEF q
<1>3. T = {}
  <2>1. SUFFICES ASSUME T # {} PROVE FALSE
    OBVIOUS
  <2>2. T \subseteq Nat
    BY <1>1
  <2>3. PICK m \in T : \A y \in T : m <= y
    <3>. HIDE DEF T
    <3>. QED
      BY <2>1, <2>2, HasLeast
  <2>4. m # 0 /\ m \in 0 .. n
    BY <1>2, <2>3
  <2>5. m \in 1 .. n /\ m - 1 \in 0 .. n /\ ~(m <= m - 1) /\ m \in 1 .. n + 1
    BY <1>1, <2>4
  <2>6. SizesUpTo(q)[m - 1] = SizesUpTo(file)[m - 1]
    BY <2>3, <2>5
  <2>. QED
    BY <1>1, <1>2, <2>3, <2>5, <2>6
<1>4. n \in 0 .. n /\ n + 1 \in 1 .. n + 1 /\ (n + 1) - 1 = n
  BY <1>1
<1>5. SizesUpTo(q)[n] = SizesUpTo(file)[n]
  BY <1>3, <1>4
<1>6. SizesUpTo(q)[n + 1] = SizesUpTo(q)[n] + p.size
  BY <1>1, <1>2, <1>4
<1>7. SizeOf(file) \in Nat
  BY <1>4, SumsAreNumbers DEF SizeOf
<1>. QED
  BY <1>1, <1>5, <1>6, <1>7 DEF SizeOf, q

-----------------------------------------------------------------------------
(* to_rotating_file: any limits, any schedule, a clock put back by any amount. *)

Current == logFile[index]

RotateTypes ==
    /\ hour \in Nat /\ hour <= LastHour
    /\ rotator \in {"up", "failed", "down"}
    /\ index \in 0 .. MaxFiles
    /\ openedAt \in Nat /\ boundary \in Nat /\ written \in Nat
    /\ added \in Nat /\ unflushed \in Nat /\ handed \in Nat
    /\ logFile \in [0 .. MaxFiles -> Seq(Pieces)]

(* What is not flushed is the end of what this process put in the file.       *)
CountsAgree ==
    rotator = "up" =>
        /\ written = SizeOf(Current)
        /\ unflushed <= added /\ added <= Len(Current)
        /\ added > 0 => written > 0
        /\ added > 1 => written <= FileBound
LimitsKept ==
    rotator = "up" =>
        /\ ~ShownTwice(openedAt) => boundary > openedAt
        /\ \A k \in DOMAIN Current : k > Len(Current) - added + 1 =>
              Current[k].at < openedAt + FileAge /\ Current[k].at < boundary
LinesInOrder ==
    \A i \in 0 .. MaxFiles : \A k \in DOMAIN logFile[i] :
        /\ logFile[i][k].line <= handed
        /\ \A j \in DOMAIN logFile[i] : j < k => logFile[i][j].line < logFile[i][k].line
(* A line that was flushed stands where no crash of this process reaches.     *)
StandsAt(n, i, k) ==
    /\ k \in DOMAIN logFile[i] /\ logFile[i][k].whole /\ logFile[i][k].line = n
    /\ rotator = "up" /\ i = index => k <= Len(logFile[i]) - unflushed
SettledStand == \A n \in settled : \E i \in 0 .. MaxFiles, k \in Nat : StandsAt(n, i, k)

RotateInv == RotateTypes /\ CountsAgree /\ LimitsKept /\ LinesInOrder /\ SettledStand

LEMMA MomentsAhead ==
  ASSUME NEW h \in Nat, h <= LastHour
  PROVE  AtTimes(h) \in Nat /\ (~ShownTwice(h) => AtTimes(h) > h)
<1>. DEFINE later == {m \in Moments : m > Wall(h)}
            first == CHOOSE m \in later : \A o \in later : m <= o
<1>0. /\ Moments \subseteq Nat /\ FoldAt \in Nat /\ FoldBy \in Nat /\ FoldBy <= FoldAt /\ LastHour \in Nat
  BY LoggingAssumption
<1>1. later \subseteq Nat /\ \A m \in later : m > Wall(h)
  <2>. HIDE DEF first
  <2>. QED
    BY <1>0
<1>2. AtTimes(h) = IF later = {} THEN LastHour + 1 ELSE IF first < FoldAt THEN first ELSE first + FoldBy
  BY DEF AtTimes
<1>3. later # {} => first \in later
  <2>. HIDE DEF later
  <2>. QED
    BY <1>1, HasLeast
<1>. HIDE DEF later, first
<1>4. CASE later = {}
  BY <1>0, <1>2, <1>4
<1>5. CASE later # {}
  <2>1. first \in Nat /\ first > Wall(h)
    BY <1>1, <1>3, <1>5
  <2>2. CASE h < FoldAt
    BY <1>0, <1>2, <1>5, <2>1, <2>2 DEF Wall
  <2>3. CASE ~(h < FoldAt)
    BY <1>0, <1>2, <1>5, <2>1, <2>3 DEF Wall, ShownTwice
  <2>. QED
    BY <2>2, <2>3
<1>. QED
  BY <1>4, <1>5

LEMMA RotateStarts == ASSUME RotateInit PROVE RotateInv
<1>. USE DEF RotateInit
<1>1. RotateTypes
  BY LoggingAssumption DEF RotateTypes
<1>2. \A i \in 0 .. MaxFiles : DOMAIN logFile[i] = {}
  OBVIOUS
<1>3. CountsAgree /\ LimitsKept /\ LinesInOrder /\ SettledStand
  BY <1>2 DEF CountsAgree, LimitsKept, LinesInOrder, SettledStand
<1>. QED
  BY <1>1, <1>3 DEF RotateInv

LEMMA HourKeeps == ASSUME RotateInv, HourPasses PROVE RotateInv'
<1>1. /\ hour' = hour + 1 /\ hour < LastHour /\ hour \in Nat /\ LastHour \in Nat
      /\ UNCHANGED <<rotator, index, openedAt, boundary, written, added, unflushed, midBurst, handed,
                     logFile, settled>>
  BY LoggingAssumption DEF HourPasses, RotateInv, RotateTypes
<1>2. RotateTypes'
  BY <1>1 DEF RotateInv, RotateTypes
<1>3. CountsAgree' /\ LimitsKept' /\ LinesInOrder' /\ SettledStand'
  BY <1>1 DEF RotateInv, CountsAgree, LimitsKept, LinesInOrder, SettledStand, StandsAt, Current
<1>. QED
  BY <1>2, <1>3 DEF RotateInv

(* The settled lines of a process that is gone stand wherever they stood.     *)
LEMMA BootsKeep == ASSUME RotateInv, Boots PROVE RotateInv'
<1>1. /\ rotator = "down" /\ rotator' = "up" /\ index' = 0 /\ openedAt' = hour /\ boundary' = AtTimes(hour)
      /\ written' = SizeOf(logFile[0]) /\ added' = 0 /\ unflushed' = 0
      /\ UNCHANGED <<hour, handed, logFile, settled>>
      /\ hour \in Nat /\ hour <= LastHour /\ 0 \in 0 .. MaxFiles /\ logFile[0] \in Seq(Pieces)
  BY LoggingAssumption DEF Boots, OpensNext, RotateInv, RotateTypes
<1>2. boundary' \in Nat /\ (~ShownTwice(hour) => boundary' > hour)
  BY <1>1, MomentsAhead
<1>3. written' \in Nat /\ Len(logFile[0]) \in Nat /\ DOMAIN logFile[0] = 1 .. Len(logFile[0])
  <2>1. \A f \in Seq(Pieces) : SizeOf(f) \in Nat
    <3>1. ASSUME NEW f \in Seq(Pieces) PROVE SizeOf(f) \in Nat
      <4>1. Len(f) \in 0 .. Len(f)
        OBVIOUS
      <4>. QED
        BY <4>1, SumsAreNumbers DEF SizeOf
    <3>. QED
      BY <3>1
  <2>. QED
    BY <1>1, <2>1
<1>4. RotateTypes'
  BY <1>1, <1>2, <1>3 DEF RotateInv, RotateTypes
<1>5. CountsAgree'
  BY <1>1, <1>3 DEF CountsAgree, Current
<1>6. LimitsKept'
  <2>1. \A k \in DOMAIN logFile[0] : ~(k > Len(logFile[0]) - 0 + 1)
    BY <1>3
  <2>. QED
    BY <1>1, <1>2, <2>1 DEF LimitsKept, Current, ShownTwice
<1>7. LinesInOrder'
  BY <1>1 DEF RotateInv, LinesInOrder
<1>8. SettledStand'
  <2>1. \A k \in DOMAIN logFile[0] : k <= Len(logFile[0]) - 0
    BY <1>3
  <2>2. \A n : \A i \in 0 .. MaxFiles, k \in Nat : StandsAt(n, i, k) => StandsAt(n, i, k)'
    BY <1>1, <2>1 DEF StandsAt
  <2>. QED
    BY <1>1, <2>2 DEF RotateInv, SettledStand
<1>. QED
  BY <1>4, <1>5, <1>6, <1>7, <1>8 DEF RotateInv

(* What a flush settles stands, as nothing is behind it in a buffer.          *)
LEMMA FlushKeeps ==
  ASSUME RotateInv, rotator = "up", settled' = settled \cup WholeLines(Current),
         unflushed' = 0, UNCHANGED <<index, logFile>>
  PROVE  SettledStand'
<1>1. index \in 0 .. MaxFiles /\ Current \in Seq(Pieces) /\ unflushed \in Nat
      /\ logFile \in [0 .. MaxFiles -> Seq(Pieces)]
  BY DEF RotateInv, RotateTypes, Current
<1>2. ASSUME NEW n \in settled PROVE \E i \in 0 .. MaxFiles, k \in Nat : StandsAt(n, i, k)'
  <2>1. PICK i \in 0 .. MaxFiles, k \in Nat : StandsAt(n, i, k)
    BY <1>2 DEF RotateInv, SettledStand
  <2>2. k <= Len(logFile[i]) - 0
    <3>1. logFile[i] \in Seq(Pieces) /\ k \in DOMAIN logFile[i]
      BY <1>1, <2>1 DEF StandsAt
    <3>. QED
      BY <3>1
  <2>3. StandsAt(n, i, k)'
    BY <2>1, <2>2 DEF StandsAt
  <2>. QED
    BY <2>3
<1>3. ASSUME NEW n \in WholeLines(Current)
      PROVE  \E i \in 0 .. MaxFiles, k \in Nat : StandsAt(n, i, k)'
  <2>1. PICK k \in DOMAIN logFile[index] : logFile[index][k].whole /\ logFile[index][k].line = n
    BY <1>3 DEF WholeLines, Current
  <2>2. k <= Len(logFile[index]) - 0 /\ k \in Nat
    BY <1>1, <2>1 DEF Current
  <2>3. StandsAt(n, index, k)'
    BY <2>1, <2>2 DEF StandsAt
  <2>. QED
    BY <1>1, <2>2, <2>3
<1>. QED
  BY <1>1, <1>2, <1>3 DEF SettledStand

LEMMA ClosesKeep == ASSUME RotateInv, EndsBurst \/ WorkEnds \/ (\E size \in LineSizes : OpenFails(size))
                    PROVE RotateInv'
<1>1. /\ rotator = "up" /\ settled' = settled \cup WholeLines(Current) /\ unflushed' = 0
      /\ UNCHANGED <<hour, index, openedAt, boundary, written, logFile>>
      /\ handed' = handed \/ handed' = handed + 1
      /\ (rotator' = "up" /\ added' = added) \/ (rotator' \in {"down", "failed"} /\ added' \in Nat)
      /\ added \in Nat /\ unflushed \in Nat /\ handed \in Nat
      /\ logFile \in [0 .. MaxFiles -> Seq(Pieces)]
  BY DEF EndsBurst, WorkEnds, OpenFails, RotateInv, RotateTypes, Current
<1>2. RotateTypes'
  BY <1>1 DEF RotateInv, RotateTypes
<1>3. CountsAgree' /\ LimitsKept'
  BY <1>1 DEF RotateInv, CountsAgree, LimitsKept, Current
<1>4. LinesInOrder'
  <2>1. \A i \in 0 .. MaxFiles : \A k \in DOMAIN logFile[i] : logFile[i][k].line \in Nat
    <3>1. ASSUME NEW i \in 0 .. MaxFiles, NEW k \in DOMAIN logFile[i] PROVE logFile[i][k].line \in Nat
      <4>1. logFile[i] \in Seq(Pieces)
        BY <1>1
      <4>2. logFile[i][k] \in Pieces
        BY <4>1
      <4>. QED
        BY <4>2 DEF Pieces
    <3>. QED
      BY <3>1
  <2>2. \A i \in 0 .. MaxFiles : \A k \in DOMAIN logFile[i] : logFile[i][k].line <= handed'
    BY <1>1, <2>1 DEF RotateInv, LinesInOrder
  <2>. QED
    BY <1>1, <2>2 DEF RotateInv, LinesInOrder
<1>5. SettledStand'
  BY <1>1, FlushKeeps
<1>. QED
  BY <1>2, <1>3, <1>4, <1>5 DEF RotateInv

(* A line is put at the end of a file, and is not flushed.                    *)
LEMMA AppendsKeep ==
  ASSUME RotateInv, rotator = "up", rotator' = "up", handed' = handed + 1,
         NEW size \in LineSizes, NEW at \in 0 .. MaxFiles,
         index' = at, logFile' = [logFile EXCEPT ![at] = Append(@, Piece(handed', size))],
         unflushed' \in Nat, unflushed' > 0,
         NEW n \in settled, NEW i \in 0 .. MaxFiles, NEW k \in Nat, k \in DOMAIN logFile[i],
         logFile[i][k].whole, logFile[i][k].line = n,
         i = at => k <= Len(logFile[i]) + 1 - unflushed'
  PROVE  StandsAt(n, i, k)'
<1>1. logFile \in [0 .. MaxFiles -> Seq(Pieces)] /\ logFile[i] \in Seq(Pieces)
  BY DEF RotateInv, RotateTypes
<1>2. CASE i = at
  <2>. DEFINE p == Piece(handed', size)
              f == logFile[i]
  <2>1. logFile'[i] = Append(f, p)
    BY <1>1, <1>2
  <2>. HIDE DEF p
  <2>2. f \in Seq(Pieces) /\ k \in DOMAIN f
    BY <1>1
  <2>. HIDE DEF f
  <2>3. /\ k \in DOMAIN Append(f, p) /\ Append(f, p)[k] = f[k]
        /\ Len(Append(f, p)) = Len(f) + 1
    BY <2>2
  <2>. QED
    BY <1>2, <2>1, <2>3 DEF StandsAt, f
<1>3. CASE i # at
  BY <1>1, <1>3 DEF StandsAt
<1>. QED
  BY <1>2, <1>3

LEMMA WritesKeep == ASSUME RotateInv, NEW size \in LineSizes, WritesLine(size) PROVE RotateInv'
<1>. DEFINE p == Piece(handed', size)
<1>1. /\ rotator = "up" /\ rotator' = "up" /\ handed' = handed + 1 /\ hour' = hour
      /\ handed \in Nat /\ hour \in Nat /\ hour <= LastHour /\ size \in Nat \ {0}
      /\ index \in 0 .. MaxFiles /\ logFile \in [0 .. MaxFiles -> Seq(Pieces)]
      /\ written \in Nat /\ added \in Nat /\ unflushed \in Nat /\ openedAt \in Nat /\ boundary \in Nat
      /\ FileBound \in Nat /\ FileAge \in Nat
  BY LoggingAssumption DEF WritesLine, RotateInv, RotateTypes
<1>2. p \in Pieces /\ p.size = size /\ p.line = handed + 1 /\ p.at = hour /\ p.whole
  BY <1>1 DEF Pieces, Piece
<1>3. ASSUME NEW at \in 0 .. MaxFiles, index' = at, logFile' = [logFile EXCEPT ![at] = Append(@, p)]
      PROVE  /\ logFile' \in [0 .. MaxFiles -> Seq(Pieces)]
             /\ logFile'[at] = Append(logFile[at], p) /\ logFile[at] \in Seq(Pieces)
             /\ \A i \in 0 .. MaxFiles : i # at => logFile'[i] = logFile[i]
             /\ Len(logFile[at]) \in Nat /\ Len(logFile'[at]) = Len(logFile[at]) + 1
             /\ DOMAIN logFile[at] = 1 .. Len(logFile[at])
             /\ DOMAIN logFile'[at] = 1 .. Len(logFile[at]) + 1
             /\ \A k \in 1 .. Len(logFile[at]) : logFile'[at][k] = logFile[at][k]
             /\ logFile'[at][Len(logFile[at]) + 1] = p
             /\ SizeOf(logFile'[at]) = SizeOf(logFile[at]) + size /\ SizeOf(logFile[at]) \in Nat
             /\ LinesInOrder'
  <2>. HIDE DEF p
  <2>. DEFINE f == logFile[at]
  <2>1. f \in Seq(Pieces) /\ logFile'[at] = Append(f, p)
    BY <1>1, <1>3
  <2>2. /\ logFile' \in [0 .. MaxFiles -> Seq(Pieces)]
        /\ \A i \in 0 .. MaxFiles : i # at => logFile'[i] = logFile[i]
    <3>1. Append(logFile[at], p) \in Seq(Pieces)
      BY <1>2, <2>1
    <3>. QED
      BY <1>1, <1>3, <3>1
  <2>. HIDE DEF f
  <2>3. /\ Len(f) \in Nat /\ Len(Append(f, p)) = Len(f) + 1
        /\ DOMAIN f = 1 .. Len(f) /\ DOMAIN Append(f, p) = 1 .. Len(f) + 1
        /\ \A k \in 1 .. Len(f) : Append(f, p)[k] = f[k]
        /\ Append(f, p)[Len(f) + 1] = p
    BY <1>2, <2>1
  <2>4. SizeOf(Append(f, p)) = SizeOf(f) + size /\ SizeOf(f) \in Nat
    BY <1>2, <2>1, SizeGrows
  <2>5. LinesInOrder'
    <3>0. ASSUME NEW i \in 0 .. MaxFiles, NEW k \in DOMAIN logFile[i] PROVE logFile[i][k].line \in Nat
      <4>1. logFile[i][k] \in Pieces
        BY <1>1, <3>0
      <4>. QED
        BY <4>1 DEF Pieces
    <3>1. SUFFICES ASSUME NEW i \in 0 .. MaxFiles, NEW k \in DOMAIN logFile'[i]
                   PROVE  /\ logFile'[i][k].line <= handed'
                          /\ \A j \in DOMAIN logFile'[i] : j < k => logFile'[i][j].line < logFile'[i][k].line
      BY DEF LinesInOrder
    <3>2. CASE i # at
      <4>1. logFile'[i] = logFile[i] /\ k \in DOMAIN logFile[i]
        BY <2>2, <3>1, <3>2
      <4>2. logFile[i][k].line <= handed /\ logFile[i][k].line \in Nat
        BY <3>0, <4>1 DEF RotateInv, LinesInOrder
      <4>. QED
        BY <1>1, <4>1, <4>2 DEF RotateInv, LinesInOrder
    <3>3. CASE i = at
      <4>1. /\ logFile'[i] = Append(f, p) /\ k \in 1 .. Len(f) + 1
            /\ \A j \in 1 .. Len(f) : f[j].line <= handed /\ f[j].line \in Nat
            /\ \A j, m \in 1 .. Len(f) : j < m => f[j].line < f[m].line
        BY <2>1, <2>3, <3>0, <3>1, <3>3 DEF RotateInv, LinesInOrder, f
      <4>2. CASE k = Len(f) + 1
        <5>1. \A j \in 1 .. Len(f) + 1 : j < k => j \in 1 .. Len(f)
          BY <2>3, <4>2
        <5>2. \A j \in 1 .. Len(f) : Append(f, p)[j].line < handed + 1
          BY <1>1, <2>3, <4>1
        <5>. QED
          BY <1>1, <1>2, <2>3, <4>1, <4>2, <5>1, <5>2
      <4>3. CASE k # Len(f) + 1
        <5>1. k \in 1 .. Len(f) /\ \A j \in 1 .. Len(f) + 1 : j < k => j \in 1 .. Len(f)
          BY <2>3, <4>1, <4>3
        <5>2. f[k].line <= handed + 1
          BY <1>1, <4>1, <5>1
        <5>. QED
          BY <1>1, <2>3, <4>1, <5>1, <5>2
      <4>. QED
        BY <4>2, <4>3
    <3>. QED
      BY <3>2, <3>3
  <2>. QED
    BY <2>1, <2>2, <2>3, <2>4, <2>5 DEF f
<1>4. CASE SameFile(size)
  <2>1. /\ ~Due(size) /\ index' = index /\ logFile' = [logFile EXCEPT ![index] = Append(@, p)]
        /\ written' = written + size /\ added' = added + 1 /\ unflushed' = unflushed + 1
        /\ UNCHANGED <<openedAt, boundary, settled>>
    BY <1>4 DEF SameFile
  <2>. HIDE DEF p
  <2>2. /\ logFile' \in [0 .. MaxFiles -> Seq(Pieces)]
        /\ Len(Current) \in Nat /\ Len(Current') = Len(Current) + 1
        /\ DOMAIN Current = 1 .. Len(Current) /\ DOMAIN Current' = 1 .. Len(Current) + 1
        /\ \A k \in 1 .. Len(Current) : Current'[k] = Current[k]
        /\ Current'[Len(Current) + 1] = p
        /\ SizeOf(Current') = SizeOf(Current) + size /\ SizeOf(Current) \in Nat
        /\ LinesInOrder'
    BY <1>1, <1>3, <2>1 DEF Current
  <2>3. RotateTypes'
    BY <1>1, <2>1, <2>2 DEF RotateInv, RotateTypes
  <2>4. added > 0 => written + size <= FileBound /\ hour < openedAt + FileAge /\ hour < boundary
    BY <1>1, <2>1 DEF Due, RotateInv, CountsAgree
  <2>5. CountsAgree'
    BY <1>1, <2>1, <2>2, <2>4 DEF RotateInv, CountsAgree
  <2>6. LimitsKept'
    <3>1. ASSUME NEW k \in 1 .. Len(Current) + 1, k > (Len(Current) + 1) - (added + 1) + 1
          PROVE  Current'[k].at < openedAt + FileAge /\ Current'[k].at < boundary
      <4>1. CASE k = Len(Current) + 1
        <5>1. added > 0
          BY <1>1, <2>2, <3>1, <4>1
        <5>. QED
          BY <1>2, <2>2, <2>4, <4>1, <5>1
      <4>2. CASE k # Len(Current) + 1
        <5>1. k \in DOMAIN Current /\ k > Len(Current) - added + 1
          BY <1>1, <2>2, <3>1, <4>2
        <5>. QED
          BY <1>1, <2>2, <5>1 DEF RotateInv, LimitsKept
      <4>. QED
        BY <4>1, <4>2
    <3>. QED
      BY <1>1, <2>1, <2>2, <3>1 DEF RotateInv, LimitsKept, ShownTwice
  <2>7. SettledStand'
    <3>1. ASSUME NEW n \in settled PROVE \E i \in 0 .. MaxFiles, k \in Nat : StandsAt(n, i, k)'
      <4>1. PICK i \in 0 .. MaxFiles, k \in Nat : StandsAt(n, i, k)
        BY <3>1 DEF RotateInv, SettledStand
      <4>2. i = index => k <= Len(logFile[i]) + 1 - unflushed'
        BY <1>1, <2>1, <2>2, <4>1 DEF StandsAt, Current
      <4>3. unflushed' \in Nat /\ unflushed' > 0
        BY <1>1, <2>1
      <4>4. k \in DOMAIN logFile[i] /\ logFile[i][k].whole /\ logFile[i][k].line = n
        BY <4>1 DEF StandsAt
      <4>5. logFile' = [logFile EXCEPT ![index] = Append(@, Piece(handed', size))]
        BY <2>1 DEF p
      <4>6. PICK at \in 0 .. MaxFiles : at = index
        BY <1>1
      <4>. QED
        BY <1>1, <2>1, <3>1, <4>2, <4>3, <4>4, <4>5, <4>6, AppendsKeep
    <3>. QED
      BY <2>1, <3>1 DEF SettledStand
  <2>. QED
    BY <2>2, <2>3, <2>5, <2>6, <2>7 DEF RotateInv
<1>5. CASE Rotates(size)
  <2>. DEFINE at == index + 1
  <2>1. /\ index' = at /\ openedAt' = hour /\ boundary' = AtTimes(hour) /\ at \in 0 .. MaxFiles
        /\ settled' = settled \cup WholeLines(Current)
        /\ logFile' = [logFile EXCEPT ![at] = Append(@, p)]
        /\ written' = SizeOf(logFile[at]) + size /\ added' = 1 /\ unflushed' = 1
    BY <1>1, <1>5, LoggingAssumption DEF Rotates, OpensNext, Current
  <2>. HIDE DEF p, at
  <2>2. /\ logFile' \in [0 .. MaxFiles -> Seq(Pieces)] /\ logFile[at] \in Seq(Pieces)
        /\ Len(logFile[at]) \in Nat /\ Len(Current') = Len(logFile[at]) + 1
        /\ DOMAIN Current' = 1 .. Len(logFile[at]) + 1
        /\ SizeOf(Current') = SizeOf(logFile[at]) + size /\ SizeOf(logFile[at]) \in Nat
        /\ LinesInOrder'
    BY <1>1, <1>3, <2>1 DEF Current
  <2>3. boundary' \in Nat /\ (~ShownTwice(hour) => boundary' > hour)
    BY <1>1, <2>1, MomentsAhead
  <2>4. RotateTypes'
    BY <1>1, <2>1, <2>2, <2>3 DEF RotateInv, RotateTypes
  <2>5. CountsAgree'
    BY <1>1, <2>1, <2>2 DEF CountsAgree
  <2>6. LimitsKept'
    <3>1. \A k \in DOMAIN Current' : ~(k > Len(Current') - 1 + 1)
      BY <2>2
    <3>. QED
      BY <2>1, <2>3, <3>1 DEF LimitsKept, ShownTwice
  <2>7. SettledStand'
    <3>1. ASSUME NEW n \in settled PROVE \E i \in 0 .. MaxFiles, k \in Nat : StandsAt(n, i, k)'
      <4>1. PICK i \in 0 .. MaxFiles, k \in Nat : StandsAt(n, i, k)
        BY <3>1 DEF RotateInv, SettledStand
      <4>2. i = at => k <= Len(logFile[i]) + 1 - 1
        BY <2>2, <4>1 DEF StandsAt
      <4>3. k \in DOMAIN logFile[i] /\ logFile[i][k].whole /\ logFile[i][k].line = n
        BY <4>1 DEF StandsAt
      <4>4. logFile' = [logFile EXCEPT ![at] = Append(@, Piece(handed', size))]
        BY <2>1 DEF p
      <4>5. /\ unflushed' \in Nat /\ unflushed' > 0 /\ index' = at
            /\ i = at => k <= Len(logFile[i]) + 1 - unflushed'
        BY <2>1, <4>2
      <4>6. rotator = "up" /\ rotator' = "up" /\ handed' = handed + 1 /\ at \in 0 .. MaxFiles
        BY <1>1, <2>1
      <4>. QED
        BY <3>1, <4>1, <4>3, <4>4, <4>5, <4>6, AppendsKeep
    <3>2. ASSUME NEW n \in WholeLines(Current) PROVE \E i \in 0 .. MaxFiles, k \in Nat : StandsAt(n, i, k)'
      <4>1. PICK k \in DOMAIN logFile[index] : logFile[index][k].whole /\ logFile[index][k].line = n
        BY <3>2 DEF WholeLines, Current
      <4>2. PICK i \in 0 .. MaxFiles : i = index
        BY <1>1
      <4>3. i # at /\ k \in Nat
        <5>1. logFile[index] \in Seq(Pieces)
          BY <1>1
        <5>. QED
          BY <1>1, <4>1, <4>2, <5>1 DEF at
      <4>4. logFile'[i] = logFile[i] /\ index' # i
        BY <1>1, <2>1, <4>3
      <4>5. StandsAt(n, i, k)'
        BY <4>1, <4>2, <4>4 DEF StandsAt
      <4>. QED
        BY <4>3, <4>5
    <3>. QED
      BY <2>1, <3>1, <3>2 DEF SettledStand
  <2>. QED
    BY <2>2, <2>4, <2>5, <2>6, <2>7 DEF RotateInv
<1>. QED
  BY <1>4, <1>5 DEF WritesLine

(* A crash leaves a beginning of the file, and perhaps a piece of a line.      *)
LEMMA DiesKeeps == ASSUME RotateInv, ProcessDies PROVE RotateInv'
<1>1. /\ rotator = "up" /\ rotator' = "down" /\ added' = 0 /\ unflushed' = 0
      /\ UNCHANGED <<hour, index, openedAt, boundary, written, handed, settled>>
      /\ index \in 0 .. MaxFiles /\ logFile \in [0 .. MaxFiles -> Seq(Pieces)]
      /\ unflushed \in Nat /\ added \in Nat /\ unflushed <= Len(Current) /\ Current \in Seq(Pieces)
      /\ Len(Current) \in Nat
  <2>1. Current \in Seq(Pieces) /\ Len(Current) \in Nat
    BY DEF RotateInv, RotateTypes, Current
  <2>2. unflushed \in Nat /\ added \in Nat /\ unflushed <= added /\ added <= Len(Current)
    BY DEF RotateInv, RotateTypes, CountsAgree, ProcessDies
  <2>. QED
    BY <2>1, <2>2 DEF ProcessDies, RotateInv, RotateTypes
<1>2. PICK kept \in 0 .. unflushed :
        LET end == Len(Current) - unflushed + kept
            stays == SubSeq(Current, 1, end)
        IN  \/ logFile' = [logFile EXCEPT ![index] = stays]
            \/ /\ kept < unflushed /\ Current[end + 1].size > 1
               /\ logFile' = [logFile EXCEPT ![index] =
                                Append(stays, [Current[end + 1] EXCEPT !.size = 1, !.whole = FALSE])]
  BY DEF ProcessDies, Current
<1>. DEFINE end == Len(Current) - unflushed + kept
            f == Current
            stays == SubSeq(f, 1, end)
            torn == [f[end + 1] EXCEPT !.size = 1, !.whole = FALSE]
<1>3. /\ end \in Nat /\ end <= Len(f) /\ Len(f) - unflushed <= end
      /\ kept < unflushed => end + 1 \in 1 .. Len(f)
  BY <1>1
<1>4. f \in Seq(Pieces) /\ DOMAIN f = 1 .. Len(f) /\ Len(f) \in Nat
  BY <1>1
<1>. HIDE DEF end, f
<1>5. /\ stays \in Seq(Pieces) /\ Len(stays) = end /\ DOMAIN stays = 1 .. end
      /\ \A k \in 1 .. end : stays[k] = f[k] /\ k \in 1 .. Len(f)
  BY <1>3, <1>4
<1>6. ASSUME end + 1 \in 1 .. Len(f)
      PROVE  torn \in Pieces /\ torn.line = f[end + 1].line
  <2>1. f[end + 1] \in Pieces
    BY <1>4, <1>6
  <2>. QED
    BY <2>1 DEF Pieces
<1>. HIDE DEF stays, torn
(* What is in the file afterwards: lines it had at the same places.           *)
<1>7. /\ logFile' \in [0 .. MaxFiles -> Seq(Pieces)]
      /\ \A i \in 0 .. MaxFiles : i # index => logFile'[i] = logFile[i]
      /\ \A k \in DOMAIN logFile'[index] : k \in DOMAIN f /\ logFile'[index][k].line = f[k].line
      /\ \A k \in 1 .. end : k \in DOMAIN logFile'[index] /\ logFile'[index][k] = f[k]
  <2>1. CASE logFile' = [logFile EXCEPT ![index] = stays]
    <3>1. logFile'[index] = stays /\ logFile' \in [0 .. MaxFiles -> Seq(Pieces)]
          /\ \A i \in 0 .. MaxFiles : i # index => logFile'[i] = logFile[i]
      BY <1>1, <1>5, <2>1
    <3>. QED
      BY <1>4, <1>5, <3>1
  <2>2. CASE kept < unflushed /\ logFile' = [logFile EXCEPT ![index] = Append(stays, torn)]
    <3>1. end + 1 \in 1 .. Len(f)
      BY <1>3, <2>2
    <3>2. torn \in Pieces /\ torn.line = f[end + 1].line
      BY <1>6, <3>1
    <3>3. /\ Append(stays, torn) \in Seq(Pieces) /\ DOMAIN Append(stays, torn) = 1 .. end + 1
          /\ \A k \in 1 .. end : Append(stays, torn)[k] = stays[k]
          /\ Append(stays, torn)[end + 1] = torn
      BY <1>5, <3>2
    <3>4. logFile'[index] = Append(stays, torn) /\ logFile' \in [0 .. MaxFiles -> Seq(Pieces)]
          /\ \A i \in 0 .. MaxFiles : i # index => logFile'[i] = logFile[i]
      BY <1>1, <2>2, <3>3
    <3>5. \A k \in 1 .. end + 1 : k \in 1 .. end \/ k = end + 1
      BY <1>3
    <3>6. \A k \in 1 .. end : k \in 1 .. end + 1
      BY <1>3
    <3>. QED
      BY <1>4, <1>5, <3>1, <3>2, <3>3, <3>4, <3>5, <3>6
  <2>. QED
    BY <1>2, <2>1, <2>2 DEF end, f, stays, torn
<1>8. RotateTypes'
  BY <1>1, <1>7 DEF RotateInv, RotateTypes
<1>9. CountsAgree' /\ LimitsKept'
  BY <1>1 DEF CountsAgree, LimitsKept
<1>10. LinesInOrder'
  <2>1. SUFFICES ASSUME NEW i \in 0 .. MaxFiles, NEW k \in DOMAIN logFile'[i]
                 PROVE  /\ logFile'[i][k].line <= handed'
                        /\ \A j \in DOMAIN logFile'[i] : j < k => logFile'[i][j].line < logFile'[i][k].line
    BY DEF LinesInOrder
  <2>2. CASE i = index
    BY <1>1, <1>7, <2>1, <2>2 DEF RotateInv, LinesInOrder, f, Current
  <2>3. CASE i # index
    BY <1>1, <1>7, <2>1, <2>3 DEF RotateInv, LinesInOrder
  <2>. QED
    BY <2>2, <2>3
<1>11. SettledStand'
  <2>1. ASSUME NEW n \in settled PROVE \E i \in 0 .. MaxFiles, k \in Nat : StandsAt(n, i, k)'
    <3>1. PICK i \in 0 .. MaxFiles, k \in Nat : StandsAt(n, i, k)
      BY <2>1 DEF RotateInv, SettledStand
    <3>2. CASE i = index
      <4>1. k <= Len(f) - unflushed /\ k \in DOMAIN f
        BY <1>1, <3>1, <3>2 DEF StandsAt, f, Current
      <4>2. k \in 1 .. end
        BY <1>1, <1>3, <1>4, <4>1
      <4>3. k \in DOMAIN logFile'[i] /\ logFile'[i][k] = logFile[i][k]
        BY <1>7, <3>2, <4>2 DEF f, Current
      <4>. QED
        BY <1>1, <3>1, <4>3 DEF StandsAt
    <3>3. CASE i # index
      BY <1>1, <1>7, <3>1, <3>3 DEF StandsAt
    <3>. QED
      BY <3>2, <3>3
  <2>. QED
    BY <1>1, <2>1 DEF SettledStand
<1>. QED
  BY <1>8, <1>9, <1>10, <1>11 DEF RotateInv

THEOREM RotateInvariant == RotateInit /\ [][RotateNext]_rotateVars => []RotateInv
<1>1. RotateInv /\ [RotateNext]_rotateVars => RotateInv'
  <2>1. ASSUME RotateInv, UNCHANGED rotateVars PROVE RotateInv'
    BY <2>1 DEF rotateVars, RotateInv, RotateTypes, CountsAgree, LimitsKept, LinesInOrder,
                SettledStand, StandsAt, Current
  <2>2. ASSUME RotateInv, RotateNext PROVE RotateInv'
    BY <2>2, BootsKeep, HourKeeps, ClosesKeep, WritesKeep, DiesKeeps DEF RotateNext
  <2>. QED
    BY <2>1, <2>2
<1>. QED
  BY <1>1, RotateStarts, PTL

(* Rotation keeps its limits and its lines (handlers.py), whatever crashes,    *)
(* restarts and clocks it meets.                                              *)
THEOREM RotationKept == RotateInit /\ [][RotateNext]_rotateVars => []RotationHolds
<1>1. RotateInv => RotationHolds
  <2>. SUFFICES ASSUME RotateInv PROVE RotationHolds
    OBVIOUS
  <2>1. DOMAIN logFile = 0 .. MaxFiles
    BY DEF RotateInv, RotateTypes
  <2>2. settled \subseteq UNION {WholeLines(logFile[i]) : i \in DOMAIN logFile}
    BY <2>1 DEF RotateInv, SettledStand, StandsAt, WholeLines
  <2>3. \A i \in DOMAIN logFile : \A j, k \in DOMAIN logFile[i] :
            j < k => logFile[i][j].line < logFile[i][k].line
    BY <2>1 DEF RotateInv, LinesInOrder
  <2>. QED
    BY <2>2, <2>3 DEF RotationHolds, RotateInv, CountsAgree, LimitsKept, Current
<1>. QED
  BY <1>1, RotateInvariant, PTL

-----------------------------------------------------------------------------
(* Bodies coded in transit, of any length and cut anywhere.                   *)

(* How often something is said in a sequence, and in its two parts.           *)
PlacesOf(what, s) == {i \in DOMAIN s : s[i] = what}

LEMMA LeftOver ==
  ASSUME NEW S, NEW s \in Seq(S), NEW n \in 0 .. Len(s)
  PROVE  /\ SubSeq(s, n + 1, Len(s)) \in Seq(S) /\ Len(SubSeq(s, n + 1, Len(s))) = Len(s) - n
         /\ \A i \in 1 .. Len(s) - n : SubSeq(s, n + 1, Len(s))[i] = s[i + n]
<1>. DEFINE len == Len(s)
            m == n + 1
<1>1. len \in Nat /\ n \in Nat /\ n <= len /\ m \in Int /\ len \in Int /\ m = n + 1
      /\ \A i \in m .. len : s[i] \in S
  OBVIOUS
<1>. HIDE DEF len, m
<1>2. /\ SubSeq(s, m, len) \in Seq(S)
      /\ Len(SubSeq(s, m, len)) = IF m <= len THEN len - m + 1 ELSE 0
      /\ \A i \in 1 .. len - m + 1 : SubSeq(s, m, len)[i] = s[m + i - 1]
  BY <1>1, SubSeqProperties
<1>3. Len(SubSeq(s, m, len)) = len - n
  BY <1>1, <1>2
<1>4. ASSUME NEW i \in 1 .. len - n PROVE SubSeq(s, m, len)[i] = s[i + n]
  <2>1. i \in 1 .. len - m + 1 /\ m + i - 1 = i + n
    BY <1>1
  <2>. QED
    BY <1>2, <2>1
<1>. QED
  BY <1>2, <1>3, <1>4 DEF len, m

LEMMA CountsAdd ==
  ASSUME NEW S, NEW s \in Seq(S), NEW what, NEW n \in 0 .. Len(s)
  PROVE  /\ CountOf(what, s) \in Nat
         /\ SubSeq(s, 1, n) \in Seq(S) /\ SubSeq(s, n + 1, Len(s)) \in Seq(S)
         /\ CountOf(what, s) = CountOf(what, SubSeq(s, 1, n)) + CountOf(what, SubSeq(s, n + 1, Len(s)))
         /\ CountOf(what, SubSeq(s, 1, n)) \in Nat
         /\ CountOf(what, SubSeq(s, n + 1, Len(s))) \in Nat
<1>. DEFINE a == SubSeq(s, 1, n)
            b == SubSeq(s, n + 1, Len(s))
            A == PlacesOf(what, a)
            B == PlacesOf(what, b)
            C == PlacesOf(what, s)
            D == {i \in C : i > n}
            f == [j \in B |-> j + n]
<1>1. /\ Len(s) \in Nat /\ n \in Nat /\ n <= Len(s) /\ DOMAIN s = 1 .. Len(s)
      /\ a \in Seq(S) /\ Len(a) = n /\ DOMAIN a = 1 .. n /\ \A i \in 1 .. n : a[i] = s[i]
  OBVIOUS
<1>2. /\ b \in Seq(S) /\ Len(b) = Len(s) - n /\ DOMAIN b = 1 .. Len(s) - n
      /\ \A i \in 1 .. Len(s) - n : b[i] = s[i + n]
  BY LeftOver
<1>. HIDE DEF a, b
<1>3. \A k \in Nat : IsFiniteSet(1 .. k)
  BY FS_Interval
<1>4. IsFiniteSet(A) /\ IsFiniteSet(B) /\ IsFiniteSet(C) /\ IsFiniteSet(D)
  <2>1. A \subseteq 1 .. n /\ B \subseteq 1 .. Len(s) - n /\ C \subseteq 1 .. Len(s) /\ D \subseteq C
        /\ Len(s) - n \in Nat
    BY <1>1, <1>2 DEF PlacesOf
  <2>. QED
    BY <1>1, <1>3, <2>1, FS_Subset
<1>5. C = A \cup D /\ A \cap D = {}
  BY <1>1 DEF PlacesOf
<1>6. f \in Bijection(B, D)
  <2>1. \A j \in B : f[j] \in D
    BY <1>1, <1>2 DEF PlacesOf
  <2>2. \A i, j \in B : f[i] = f[j] => i = j
    BY <1>1, <1>2 DEF PlacesOf
  <2>3. ASSUME NEW d \in D PROVE \E j \in B : f[j] = d
    <3>1. d - n \in B /\ (d - n) + n = d
      BY <1>1, <1>2 DEF PlacesOf
    <3>. QED
      BY <3>1
  <2>4. f \in [B -> D]
    BY <2>1
  <2>5. (f \in [B -> D] /\ \A i, j \in B : f[i] = f[j] => i = j)
        /\ (f \in [B -> D] /\ \A d \in D : \E j \in B : f[j] = d)
    BY <2>2, <2>3, <2>4
  <2>. HIDE DEF B, D, f
  <2>6. f \in Injection(B, D)
    BY <2>5, Fun_IsInj
  <2>7. f \in Surjection(B, D)
    BY <2>5, Fun_IsSurj
  <2>. QED
    BY <2>6, <2>7 DEF Bijection
<1>7. Cardinality(B) = Cardinality(D)
  <2>. HIDE DEF B, D, f
  <2>1. ExistsBijection(B, D)
    BY <1>6 DEF ExistsBijection
  <2>. QED
    BY <1>4, <2>1, FS_Bijection
<1>8. Cardinality(C) = Cardinality(A) + Cardinality(D)
  <2>. HIDE DEF A, B, C, D, f
  <2>1. Cardinality(A \cup D) = Cardinality(A) + Cardinality(D) - Cardinality(A \cap D)
    BY <1>4, FS_Union
  <2>2. Cardinality(A) \in Nat /\ Cardinality(D) \in Nat /\ Cardinality({}) = 0
    BY <1>4, FS_CardinalityType, FS_EmptySet
  <2>3. Cardinality(A \cap D) = 0 /\ Cardinality(A \cup D) = Cardinality(C)
    BY <1>5, <2>2, Zenon
  <2>. QED
    BY <2>1, <2>2, <2>3
<1>9. Cardinality(A) \in Nat /\ Cardinality(B) \in Nat /\ Cardinality(C) \in Nat
  BY <1>4, FS_CardinalityType
<1>10. /\ CountOf(what, s) = Cardinality(C) /\ CountOf(what, a) = Cardinality(A)
       /\ CountOf(what, b) = Cardinality(B)
  BY DEF CountOf, PlacesOf
<1>. QED
  BY <1>1, <1>2, <1>7, <1>8, <1>9, <1>10 DEF a, b

LEMMA CountGrows ==
  ASSUME NEW S, NEW s \in Seq(S), NEW what, NEW x \in S
  PROVE  /\ CountOf(what, Append(s, x)) = CountOf(what, s) + (IF x = what THEN 1 ELSE 0)
         /\ CountOf(what, s) \in Nat
<1>. DEFINE q == Append(s, x)
            C == PlacesOf(what, s)
<1>1. /\ Len(s) \in Nat /\ DOMAIN s = 1 .. Len(s) /\ DOMAIN q = 1 .. Len(s) + 1
      /\ q[Len(s) + 1] = x /\ \A i \in 1 .. Len(s) : q[i] = s[i]
  OBVIOUS
<1>. HIDE DEF q
<1>2. IsFiniteSet(C) /\ Cardinality(C) \in Nat
  <2>1. C \subseteq 1 .. Len(s)
    BY <1>1 DEF PlacesOf
  <2>2. \A k \in Nat : IsFiniteSet(1 .. k)
    BY FS_Interval
  <2>. QED
    BY <1>1, <2>1, <2>2, FS_Subset, FS_CardinalityType
<1>3. PlacesOf(what, q) = IF x = what THEN C \cup {Len(s) + 1} ELSE C
  <2>1. \A i \in 1 .. Len(s) + 1 : i \in 1 .. Len(s) \/ i = Len(s) + 1
    BY <1>1
  <2>2. \A i \in 1 .. Len(s) : i \in 1 .. Len(s) + 1 /\ i # Len(s) + 1
    BY <1>1
  <2>3. Len(s) + 1 \in 1 .. Len(s) + 1
    BY <1>1
  <2>. QED
    BY <1>1, <2>1, <2>2, <2>3 DEF PlacesOf
<1>4. Len(s) + 1 \notin C
  BY <1>1 DEF PlacesOf
<1>5. Cardinality(C \cup {Len(s) + 1}) = Cardinality(C) + 1
  <2>. HIDE DEF C
  <2>. QED
    BY <1>2, <1>4, FS_AddElement
<1>6. /\ CountOf(what, q) = Cardinality(PlacesOf(what, q)) /\ CountOf(what, s) = Cardinality(C)
  BY DEF CountOf, PlacesOf
<1>. HIDE DEF C
<1>. QED
  BY <1>2, <1>3, <1>5, <1>6 DEF q

LEMMA CountsNone ==
  ASSUME NEW what
  PROVE  CountOf(what, <<>>) = 0
<1>1. {i \in DOMAIN <<>> : <<>>[i] = what} = {}
  OBVIOUS
<1>. QED
  BY <1>1, FS_EmptySet DEF CountOf

(* Two places where it is said.                                               *)
LEMMA CountsTwo ==
  ASSUME NEW S, NEW s \in Seq(S), NEW what, NEW i \in DOMAIN s, NEW j \in DOMAIN s, i # j,
         s[i] = what, s[j] = what
  PROVE  CountOf(what, s) > 1
<1>. DEFINE C == PlacesOf(what, s)
<1>1. Len(s) \in Nat /\ DOMAIN s = 1 .. Len(s)
  OBVIOUS
<1>2. IsFiniteSet(C) /\ Cardinality(C) \in Nat
  <2>1. C \subseteq 1 .. Len(s)
    BY <1>1 DEF PlacesOf
  <2>2. \A k \in Nat : IsFiniteSet(1 .. k)
    BY FS_Interval
  <2>. QED
    BY <1>1, <2>1, <2>2, FS_Subset, FS_CardinalityType
<1>3. {i, j} \subseteq C
  BY DEF PlacesOf
<1>4. Cardinality({i, j}) = 2
  <2>1. IsFiniteSet({i}) /\ Cardinality({i}) = 1
    BY FS_Singleton
  <2>2. Cardinality({i} \cup {j}) = Cardinality({i}) + 1
    <3>1. j \notin {i}
      OBVIOUS
    <3>. QED
      BY <2>1, <3>1, FS_AddElement
  <2>. DEFINE A == {i} \cup {j}
  <2>3. {i, j} = A
    OBVIOUS
  <2>4. Cardinality(A) = 2
    BY <2>1, <2>2
  <2>. HIDE DEF A
  <2>. QED
    BY <2>3, <2>4
<1>5. Cardinality({i, j}) <= Cardinality(C)
  <2>. HIDE DEF C
  <2>. QED
    BY <1>2, <1>3, FS_Subset
<1>. QED
  BY <1>2, <1>4, <1>5 DEF CountOf, PlacesOf

-----------------------------------------------------------------------------
CodingTypes ==
    /\ codec \in {"gzip", "zstd", "br"}
    /\ encoded \in Seq({"data", "end"})
    /\ decoder \in [eof : BOOLEAN, decoded : Nat]
    /\ sawBytes \in BOOLEAN /\ seam \in BOOLEAN
    /\ delivery \in {"reading", "whole", "raised", "broken"}

(* What was read is the beginning of what was written, and the decoders stand *)
(* where it ends.                                                             *)
ReadUpTo(k) ==
    /\ arriving = SubSeq(encoded, k + 1, Len(encoded))
    /\ sawBytes <=> k > 0
    /\ delivery # "raised" =>
          /\ decoder.eof <=> k > 0 /\ encoded[k] = "end"
          /\ decoder.decoded + CountOf("data", arriving) = CountOf("data", encoded)
ReadSoFar == \E k \in 0 .. Len(encoded) : ReadUpTo(k)
WholeIsAll == delivery = "whole" => arriving = <<>> /\ (sawBytes => decoder.eof)
RaisesFor ==
    delivery = "raised" /\ encoded # <<>> /\ encoded[Len(encoded)] = "end" =>
        (codec = "zstd" /\ seam) \/ (codec = "br" /\ CountOf("end", encoded) > 1)

(* What was pulled was sent, is in the codec or is the chunk held.            *)
UploadTypes ==
    /\ uploading.pulled \in Seq({0, 1})
    /\ uploading.held \in {0, 1} /\ uploading.inside \in Nat /\ uploading.sent \in Nat
    /\ uploading.done \in BOOLEAN /\ uploading.streams \in BOOLEAN /\ uploading.plain \in BOOLEAN
    /\ DOMAIN uploading = {"headers", "plain", "streams", "pulled", "held", "inside", "sent", "done"}
PulledIsSent ==
    /\ uploading.sent + uploading.inside + uploading.held = CountOf(1, uploading.pulled)
    /\ uploading.done => uploading.held = 0 /\ uploading.inside = 0
    /\ ~uploading.done =>
          uploading.held = IF uploading.pulled = <<>> THEN 0 ELSE uploading.pulled[Len(uploading.pulled)]
    /\ uploading.streams => uploading.inside = 0

CodingInv == CodingTypes /\ ReadSoFar /\ WholeIsAll /\ RaisesFor /\ UploadTypes /\ PulledIsSent

LEMMA CodingStarts == ASSUME CodingInit PROVE CodingInv
<1>. USE DEF CodingInit
<1>1. encoded \in Seq({"data", "end"}) /\ Len(encoded) \in Nat
  <2>1. PICK n \in 0 .. MaxWire : encoded \in [1 .. n -> {"data", "end"}]
    OBVIOUS
  <2>2. n \in Nat
    BY CodingAssumption
  <2>3. encoded \in Seq({"data", "end"})
    BY <2>1, <2>2, SeqDef
  <2>. QED
    BY <2>3
<1>2. CodingTypes
  BY <1>1 DEF CodingTypes
<1>3. ReadSoFar
  <2>1. SubSeq(encoded, 0 + 1, Len(encoded)) = encoded
    BY <1>1, SubSeqFull
  <2>3. 0 \in 0 .. Len(encoded)
    BY <1>1
  <2>2. CountOf("data", encoded) \in Nat
    BY <1>1, <2>3, CountsAdd
  <2>4. ReadUpTo(0)
    BY <2>1, <2>2 DEF ReadUpTo
  <2>. QED
    BY <2>3, <2>4 DEF ReadSoFar
<1>4. WholeIsAll /\ RaisesFor
  BY DEF WholeIsAll, RaisesFor
<1>5. UploadTypes /\ PulledIsSent
  <2>1. /\ uploading.pulled = <<>> /\ uploading.held = 0 /\ uploading.inside = 0 /\ uploading.sent = 0
        /\ uploading.done = FALSE /\ uploading.streams \in BOOLEAN /\ uploading.plain \in BOOLEAN
        /\ DOMAIN uploading = {"headers", "plain", "streams", "pulled", "held", "inside", "sent", "done"}
    <3>1. PICK h \in {{}, {"content-length"}, {"transfer-encoding"},
                         {"content-length", "content-encoding"}}, b \in BOOLEAN :
            uploading = [headers |-> h, plain |-> Reframed(h) = h, streams |-> b,
                         pulled |-> <<>>, held |-> 0, inside |-> 0, sent |-> 0, done |-> FALSE]
      BY DEF Uploads
    <3>2. (Reframed(h) = h) \in BOOLEAN
      OBVIOUS
    <3>. HIDE DEF Reframed
    <3>. QED
      BY <3>1, <3>2
  <2>2. <<>> \in Seq({0, 1})
    OBVIOUS
  <2>3. CountOf(1, uploading.pulled) = 0
    BY <2>1, CountsNone
  <2>4. UploadTypes
    <3>1. uploading.held \in {0, 1} /\ uploading.inside \in Nat /\ uploading.sent \in Nat
          /\ uploading.pulled \in Seq({0, 1})
      BY <2>1, <2>2
    <3>2. uploading.done \in BOOLEAN
      BY <2>1, Zenon
    <3>. QED
      BY <2>1, <3>1, <3>2, Zenon DEF UploadTypes
  <2>. QED
    BY <2>1, <2>3, <2>4 DEF PulledIsSent
<1>. QED
  BY <1>2, <1>3, <1>4, <1>5 DEF CodingInv

LEMMA PieceKeeps ==
  ASSUME CodingInv, NEW n \in 1 .. MaxWire, ReadsPiece(n)
  PROVE  CodingInv'
<1>. DEFINE chunk == SubSeq(arriving, 1, n)
            left == SubSeq(arriving, n + 1, Len(arriving))
            S == {"data", "end"}
<1>1. /\ CodingTypes /\ delivery = "reading" /\ n <= Len(arriving) /\ n \in Nat /\ n > 0
      /\ arriving' = left /\ sawBytes' = TRUE /\ seam' = (seam \/ decoder.eof)
      /\ UNCHANGED <<codec, encoded, uploading>>
  BY CodingAssumption DEF ReadsPiece, CodingInv
<1>2. PICK k \in 0 .. Len(encoded) : ReadUpTo(k)
  BY DEF CodingInv, ReadSoFar
<1>3. /\ k \in Nat /\ Len(encoded) \in Nat /\ k <= Len(encoded)
      /\ arriving \in Seq(S) /\ Len(arriving) = Len(encoded) - k
      /\ \A i \in 1 .. Len(encoded) - k : arriving[i] = encoded[i + k]
      /\ encoded \in Seq(S)
  BY <1>1, <1>2, LeftOver DEF CodingTypes, ReadUpTo
<1>4. n \in 0 .. Len(arriving) /\ k + n \in 0 .. Len(encoded) /\ k + n \in Nat /\ k + n > 0
      /\ n \in 1 .. Len(encoded) - k /\ k + n \in 1 .. Len(encoded)
  BY <1>1, <1>3
<1>5. /\ left = SubSeq(encoded, (k + n) + 1, Len(encoded)) /\ left \in Seq(S)
      /\ CountOf("data", arriving) = CountOf("data", chunk) + CountOf("data", left)
      /\ CountOf("data", chunk) \in Nat /\ CountOf("data", left) \in Nat
      /\ chunk \in Seq(S)
  <2>1. /\ left \in Seq(S) /\ chunk \in Seq(S)
        /\ CountOf("data", arriving) = CountOf("data", chunk) + CountOf("data", left)
        /\ CountOf("data", chunk) \in Nat /\ CountOf("data", left) \in Nat
    BY <1>3, <1>4, CountsAdd
  <2>2. /\ Len(left) = Len(arriving) - n
        /\ \A i \in 1 .. Len(arriving) - n : left[i] = arriving[i + n]
    BY <1>3, <1>4, LeftOver
  <2>. DEFINE rest == SubSeq(encoded, (k + n) + 1, Len(encoded))
  <2>3. /\ rest \in Seq(S) /\ Len(rest) = Len(encoded) - (k + n)
        /\ \A i \in 1 .. Len(encoded) - (k + n) : rest[i] = encoded[i + (k + n)]
    BY <1>3, <1>4, LeftOver
  <2>. HIDE DEF left, rest
  <2>4. Len(left) = Len(rest)
    BY <1>3, <1>4, <2>2, <2>3
  <2>5. ASSUME NEW i \in 1 .. Len(rest) PROVE left[i] = rest[i]
    <3>1. /\ i \in 1 .. Len(arriving) - n /\ i + n \in 1 .. Len(encoded) - k
          /\ i \in 1 .. Len(encoded) - (k + n) /\ (i + n) + k = i + (k + n)
      BY <1>3, <1>4, <2>3
    <3>. QED
      BY <1>3, <2>2, <2>3, <3>1
  <2>6. left = rest
    BY <2>1, <2>3, <2>4, <2>5, SeqEqual
  <2>. QED
    BY <2>1, <2>6 DEF rest, left
<1>6. /\ Len(chunk) = n /\ \A i \in 1 .. n : chunk[i] = encoded[i + k]
  <2>1. Len(chunk) = n /\ \A i \in 1 .. n : chunk[i] = arriving[i]
    BY <1>3, <1>4
  <2>2. \A i \in 1 .. n : i \in 1 .. Len(encoded) - k
    BY <1>3, <1>4
  <2>. QED
    BY <1>3, <2>1, <2>2
<1>7. Through(chunk) <=> encoded[k + n] = "end"
  <2>1. chunk # <<>> /\ n \in 1 .. n /\ n + k = k + n
    BY <1>1, <1>3, <1>6
  <2>. QED
    BY <1>6, <2>1 DEF Through, Last
<1>. HIDE DEF chunk, left
<1>8. CASE ~Refuses(decoder.eof, chunk)
  <2>1. /\ decoder' = [eof |-> Through(chunk), decoded |-> decoder.decoded + CountOf("data", chunk)]
        /\ delivery' = delivery
    BY <1>8 DEF ReadsPiece, Decoded, chunk
  <2>2. decoder.decoded \in Nat /\ Through(chunk) \in BOOLEAN
    BY <1>1 DEF CodingTypes, Through
  <2>3. CodingTypes'
    BY <1>1, <1>5, <2>1, <2>2 DEF CodingTypes
  <2>4. ReadUpTo(k + n)'
    BY <1>1, <1>2, <1>3, <1>4, <1>5, <1>7, <2>1, <2>2, SMTT(40) DEF ReadUpTo
  <2>5. ReadSoFar'
    BY <1>1, <1>4, <2>4 DEF ReadSoFar
  <2>. QED
    BY <1>1, <2>1, <2>3, <2>5 DEF CodingInv, WholeIsAll, RaisesFor, UploadTypes, PulledIsSent
<1>9. CASE Refuses(decoder.eof, chunk)
  <2>1. decoder' = decoder /\ delivery' = "raised"
    BY <1>9 DEF ReadsPiece, chunk
  <2>2. CodingTypes'
    BY <1>1, <2>1 DEF CodingTypes
  <2>3. ReadUpTo(k + n)'
    BY <1>1, <1>4, <1>5, <2>1 DEF ReadUpTo
  <2>4. ReadSoFar'
    BY <1>1, <1>4, <2>3 DEF ReadSoFar
  <2>5. RaisesFor'
    <3>. SUFFICES ASSUME encoded # <<>>, encoded[Len(encoded)] = "end"
                  PROVE  (codec = "zstd" /\ (seam \/ decoder.eof)) \/ (codec = "br" /\ CountOf("end", encoded) > 1)
      BY <1>1 DEF RaisesFor
    <3>1. CASE codec = "zstd" /\ decoder.eof
      BY <3>1
    <3>2. CASE codec = "br" /\ decoder.eof
      <4>1. k > 0 /\ encoded[k] = "end"
        BY <1>1, <1>2, <3>2 DEF ReadUpTo
      <4>2. k \in DOMAIN encoded /\ Len(encoded) \in DOMAIN encoded /\ k # Len(encoded)
        BY <1>3, <1>4, <4>1
      <4>3. CountOf("end", encoded) > 1
        BY <1>3, <4>1, <4>2, CountsTwo
      <4>. QED
        BY <3>2, <4>3
    <3>3. CASE codec = "br" /\ CountOf("end", Front(chunk)) > 0
      <4>1. Front(chunk) \in Seq(S) /\ Len(Front(chunk)) = n - 1
            /\ \A i \in 1 .. n - 1 : Front(chunk)[i] = chunk[i]
        BY <1>1, <1>5, <1>6 DEF Front
      <4>2. PICK i \in DOMAIN Front(chunk) : Front(chunk)[i] = "end"
        <5>1. SUFFICES ASSUME \A i \in DOMAIN Front(chunk) : Front(chunk)[i] # "end" PROVE FALSE
          OBVIOUS
        <5>2. {i \in DOMAIN Front(chunk) : Front(chunk)[i] = "end"} = {}
          BY <5>1
        <5>. QED
          BY <3>3, <5>2, FS_EmptySet DEF CountOf
      <4>3. i \in 1 .. n - 1 /\ i \in 1 .. n
        BY <1>1, <4>1, <4>2
      <4>4. encoded[i + k] = "end"
        BY <1>6, <4>1, <4>2, <4>3
      <4>5. i + k \in DOMAIN encoded /\ Len(encoded) \in DOMAIN encoded /\ i + k # Len(encoded)
        BY <1>3, <1>4, <4>3
      <4>6. CountOf("end", encoded) > 1
        BY <1>3, <4>4, <4>5, CountsTwo
      <4>. QED
        BY <3>3, <4>6
    <3>. QED
      BY <1>9, <3>1, <3>2, <3>3 DEF Refuses
  <2>. QED
    BY <1>1, <2>1, <2>2, <2>4, <2>5 DEF CodingInv, WholeIsAll, UploadTypes, PulledIsSent
<1>. QED
  BY <1>8, <1>9

LEMMA EndKeeps ==
  ASSUME CodingInv, EndsCleanly \/ BreaksOff
  PROVE  CodingInv'
<1>1. /\ delivery = "reading" /\ UNCHANGED <<codec, encoded, arriving, decoder, sawBytes, seam, uploading>>
      /\ CodingTypes
  BY DEF EndsCleanly, BreaksOff, CodingInv
<1>2. PICK k \in 0 .. Len(encoded) : ReadUpTo(k)
  BY DEF CodingInv, ReadSoFar
<1>3. CodingTypes'
  BY <1>1 DEF EndsCleanly, BreaksOff, CodingTypes
<1>4. ReadSoFar'
  <2>1. ReadUpTo(k)'
    BY <1>1, <1>2 DEF ReadUpTo
  <2>. QED
    BY <1>1, <2>1 DEF ReadSoFar
<1>5. WholeIsAll'
  BY <1>1 DEF EndsCleanly, BreaksOff, WholeIsAll, CodingTypes
<1>6. RaisesFor'
  <2>. SUFFICES ASSUME EndsCleanly, sawBytes, ~decoder.eof, encoded # <<>>, encoded[Len(encoded)] = "end"
                PROVE  FALSE
    BY <1>1 DEF EndsCleanly, BreaksOff, RaisesFor
  <2>1. k > 0 /\ encoded[k] # "end"
    BY <1>1, <1>2 DEF ReadUpTo
  <2>2. Len(encoded) = k
    <3>1. Len(SubSeq(encoded, k + 1, Len(encoded))) = Len(encoded) - k /\ Len(encoded) \in Nat
      BY <1>1, LeftOver DEF CodingTypes
    <3>2. Len(SubSeq(encoded, k + 1, Len(encoded))) = 0
      <4>1. SubSeq(encoded, k + 1, Len(encoded)) = <<>>
        BY <1>2 DEF ReadUpTo, EndsCleanly
      <4>2. Len(<<>>) = 0
        OBVIOUS
      <4>. QED
        BY <4>1, <4>2, Zenon
    <3>. QED
      BY <3>1, <3>2
  <2>. QED
    BY <2>1, <2>2
<1>. QED
  BY <1>1, <1>3, <1>4, <1>5, <1>6 DEF CodingInv, UploadTypes, PulledIsSent

LEMMA UploadKeeps ==
  ASSUME CodingInv, UploadNext
  PROVE  CodingInv'
<1>. DEFINE u == uploading
            v == uploading'
<1>0. UploadTypes /\ PulledIsSent
  BY DEF CodingInv
<1>1. UNCHANGED downloadVars
  BY DEF UploadNext, FlushesAll, PullsChunk
<1>2. UploadTypes' /\ PulledIsSent'
  <2>1. CASE FlushesAll
    <3>1. /\ ~u.done
          /\ v.done = TRUE /\ v.held = 0 /\ v.inside = 0 /\ v.sent = u.sent + u.inside + u.held
          /\ v.pulled = u.pulled /\ v.streams = u.streams /\ v.plain = u.plain /\ DOMAIN v = DOMAIN u
      BY <1>0, <2>1 DEF FlushesAll, UploadTypes
    <3>2. u.sent \in Nat /\ u.inside \in Nat /\ u.held \in Nat
      BY <1>0 DEF UploadTypes
    <3>3. CountOf(1, v.pulled) = CountOf(1, u.pulled)
      BY <3>1
    <3>4. UploadTypes'
      <4>1. v.sent \in Nat /\ v.held \in {0, 1} /\ v.inside \in Nat
        BY <3>1, <3>2
      <4>2. v.done \in BOOLEAN /\ v.streams \in BOOLEAN /\ v.plain \in BOOLEAN
        BY <1>0, <3>1, Zenon DEF UploadTypes
      <4>. QED
        BY <1>0, <3>1, <4>1, <4>2, Zenon DEF UploadTypes
    <3>. QED
      BY <1>0, <3>1, <3>2, <3>3, <3>4 DEF PulledIsSent
  <2>2. ASSUME NEW size \in {0, 1}, PullsChunk(size) PROVE UploadTypes' /\ PulledIsSent'
    <3>. DEFINE fed == u.inside + u.held
                goes == u.held > 0 /\ u.streams
    <3>1. /\ ~u.done
          /\ v.done = u.done /\ v.held = size /\ v.inside = (IF goes THEN 0 ELSE fed)
          /\ v.sent = (IF goes THEN u.sent + fed ELSE u.sent)
          /\ v.pulled = Append(u.pulled, size) /\ v.streams = u.streams /\ v.plain = u.plain
          /\ DOMAIN v = DOMAIN u
      BY <1>0, <2>2 DEF PullsChunk, UploadTypes
    <3>2. u.sent \in Nat /\ u.inside \in Nat /\ u.held \in Nat /\ fed \in Nat /\ size \in {0, 1}
          /\ u.pulled \in Seq({0, 1}) /\ u.held \in {0, 1}
      BY <1>0 DEF UploadTypes
    <3>3. /\ CountOf(1, Append(u.pulled, size)) = CountOf(1, u.pulled) + (IF size = 1 THEN 1 ELSE 0)
          /\ CountOf(1, u.pulled) \in Nat
      BY <3>2, CountGrows
    <3>4. /\ Append(u.pulled, size) \in Seq({0, 1}) /\ Append(u.pulled, size) # <<>>
          /\ Append(u.pulled, size)[Len(Append(u.pulled, size))] = size
      BY <3>2
    <3>5. UploadTypes'
      BY <1>0, <3>1, <3>2, <3>4 DEF UploadTypes
    <3>6. v.sent + v.inside + v.held = CountOf(1, v.pulled)
      <4>1. u.sent + u.inside + u.held = CountOf(1, u.pulled)
        BY <1>0 DEF PulledIsSent
      <4>2. size = IF size = 1 THEN 1 ELSE 0
        BY <3>2
      <4>. QED
        BY <3>1, <3>2, <3>3, <4>1, <4>2
    <3>7. v.streams => v.inside = 0
      BY <1>0, <3>1, <3>2 DEF PulledIsSent
    <3>. QED
      BY <3>1, <3>4, <3>5, <3>6, <3>7 DEF PulledIsSent
  <2>. QED
    BY <2>1, <2>2 DEF UploadNext
<1>. QED
  BY <1>1, <1>2 DEF CodingInv, CodingTypes, ReadSoFar, ReadUpTo, WholeIsAll, RaisesFor, downloadVars

(* The invariant, for any bodies.                                             *)
THEOREM CodingInvariant == CodingSpec => []CodingInv
<1>1. CodingInv /\ [CodingNext]_codingVars => CodingInv'
  <2>1. ASSUME CodingInv, UNCHANGED codingVars PROVE CodingInv'
    BY <2>1 DEF codingVars, downloadVars, CodingInv, CodingTypes, ReadSoFar, ReadUpTo, WholeIsAll, RaisesFor,
                UploadTypes, PulledIsSent
  <2>. QED
    BY <2>1, PieceKeeps, EndKeeps, UploadKeeps DEF CodingNext, DownloadNext
<1>. QED
  BY <1>1, CodingStarts, PTL DEF CodingSpec

(* However reads cut it, a coded response is handed over whole or raises, and *)
(* an upload sends all of its body (client.py: decompress, compressing).      *)
THEOREM CodedBodiesWhole == CodingSpec => []CodedWhole
<1>1. CodingInv => CodedWhole
  <2>. SUFFICES ASSUME CodingInv PROVE CodedWhole
    OBVIOUS
  <2>1. PICK k \in 0 .. Len(encoded) : ReadUpTo(k)
    BY DEF CodingInv, ReadSoFar
  <2>2. encoded \in Seq({"data", "end"}) /\ Len(encoded) \in Nat
    BY DEF CodingInv, CodingTypes
  <2>3. delivery = "whole" =>
          /\ arriving = <<>> /\ decoder.decoded = CountOf("data", encoded)
          /\ encoded = <<>> \/ Through(encoded)
    <3>. SUFFICES ASSUME delivery = "whole"
                  PROVE  /\ arriving = <<>> /\ decoder.decoded = CountOf("data", encoded)
                         /\ encoded = <<>> \/ Through(encoded)
      OBVIOUS
    <3>1. arriving = <<>> /\ (sawBytes => decoder.eof) /\ decoder.decoded \in Nat
      BY DEF CodingInv, WholeIsAll, CodingTypes
    <3>2. Len(encoded) = k
      <4>1. Len(SubSeq(encoded, k + 1, Len(encoded))) = Len(encoded) - k
        BY <2>2, LeftOver
      <4>2. SubSeq(encoded, k + 1, Len(encoded)) = <<>>
        BY <2>1, <3>1 DEF ReadUpTo
      <4>3. Len(<<>>) = 0
        OBVIOUS
      <4>4. Len(SubSeq(encoded, k + 1, Len(encoded))) = 0
        BY <4>2, <4>3, Zenon
      <4>. QED
        BY <2>2, <4>1, <4>4
    <3>3. decoder.decoded = CountOf("data", encoded)
      <4>1. decoder.decoded + CountOf("data", arriving) = CountOf("data", encoded)
        BY <2>1 DEF ReadUpTo
      <4>2. CountOf("data", arriving) = 0
        BY <3>1, CountsNone
      <4>. QED
        BY <3>1, <4>1, <4>2
    <3>4. k > 0 => encoded[k] = "end"
      BY <2>1, <3>1 DEF ReadUpTo
    <3>5. encoded # <<>> => k > 0
      BY <2>2, <3>2
    <3>. QED
      BY <3>1, <3>2, <3>3, <3>4, <3>5 DEF Through, Last
  <2>4. delivery = "raised" /\ (arriving = <<>> /\ Through(encoded)) =>
          (codec = "zstd" /\ seam) \/ (codec = "br" /\ CountOf("end", encoded) > 1)
    BY DEF CodingInv, RaisesFor, Through, Last
  <2>5. /\ UploadTypes /\ PulledIsSent /\ uploading.sent \in Nat /\ uploading.inside \in Nat
        /\ uploading.held \in Nat /\ uploading.pulled \in Seq({0, 1})
    BY DEF CodingInv, UploadTypes
  <2>6. uploading.done => uploading.sent = CountOf(1, uploading.pulled)
    BY <2>5 DEF PulledIsSent
  <2>7. uploading.streams => CountOf(1, uploading.pulled) - uploading.sent
            <= IF uploading.pulled = <<>> THEN 0 ELSE Last(uploading.pulled)
    <3>1. uploading.streams => CountOf(1, uploading.pulled) - uploading.sent = uploading.held
      BY <2>5 DEF PulledIsSent
    <3>2. uploading.pulled # <<>> => uploading.pulled[Len(uploading.pulled)] \in {0, 1}
      BY <2>5
    <3>3. uploading.held <= IF uploading.pulled = <<>> THEN 0 ELSE Last(uploading.pulled)
      BY <2>5, <3>2 DEF PulledIsSent, Last, UploadTypes
    <3>. QED
      BY <3>1, <3>3
  <2>. QED
    BY <2>3, <2>4, <2>6, <2>7 DEF CodedWhole
<1>. QED
  BY <1>1, CodingInvariant, PTL

-----------------------------------------------------------------------------
(* The HTTP/2 connection of a client: any requests, any credit, any limits.   *)
Parts == {"data", "end"}
AllData(q) == \A i \in DOMAIN q : q[i] = "data"
HasEnd(q) == \E i \in DOMAIN q : q[i] = "end"
EndComesLast(q) == \A i \in DOMAIN q : q[i] = "end" => i = Len(q)

LEMMA QueueExtends ==
  ASSUME NEW q \in Seq(Parts), NEW what \in Parts
  PROVE  /\ Append(q, what) \in Seq(Parts)
         /\ AllData(q) => EndComesLast(Append(q, what))
         /\ AllData(q) /\ what = "data" => AllData(Append(q, what))
<1>1. /\ Len(q) \in Nat /\ DOMAIN q = 1 .. Len(q) /\ Append(q, what) \in Seq(Parts)
      /\ Len(Append(q, what)) = Len(q) + 1
      /\ DOMAIN Append(q, what) = 1 .. Len(q) + 1 /\ Append(q, what)[Len(q) + 1] = what
      /\ \A i \in 1 .. Len(q) : Append(q, what)[i] = q[i]
  OBVIOUS
<1>2. \A i \in 1 .. Len(q) + 1 : i \in 1 .. Len(q) \/ i = Len(q) + 1
  BY <1>1
<1>. HIDE DEF Parts
<1>3. AllData(q) => EndComesLast(Append(q, what))
  BY <1>1, <1>2 DEF AllData, EndComesLast
<1>4. AllData(q) /\ what = "data" => AllData(Append(q, what))
  BY <1>1, <1>2 DEF AllData
<1>. QED
  BY <1>1, <1>3, <1>4

LEMMA QueueLetsGo ==
  ASSUME NEW q \in Seq(Parts), q # <<>>
  PROVE  /\ Tail(q) \in Seq(Parts) /\ Len(q) \in Nat /\ Len(q) > 0 /\ DOMAIN q = 1 .. Len(q)
         /\ DOMAIN Tail(q) = 1 .. Len(q) - 1 /\ Len(Tail(q)) = Len(q) - 1 /\ Head(q) = q[1]
         /\ \A i \in 1 .. Len(q) - 1 : Tail(q)[i] = q[i + 1] /\ i + 1 \in 1 .. Len(q)
         /\ AllData(q) => AllData(Tail(q))
         /\ EndComesLast(q) => EndComesLast(Tail(q))
         /\ HasEnd(Tail(q)) => HasEnd(q)
<1>1. /\ Tail(q) \in Seq(Parts) /\ Len(q) \in Nat /\ Len(q) > 0 /\ DOMAIN q = 1 .. Len(q)
      /\ DOMAIN Tail(q) = 1 .. Len(q) - 1 /\ Len(Tail(q)) = Len(q) - 1 /\ Head(q) = q[1]
      /\ \A i \in 1 .. Len(q) - 1 : Tail(q)[i] = q[i + 1] /\ i + 1 \in 1 .. Len(q)
  OBVIOUS
<1>. HIDE DEF Parts
<1>2. AllData(q) => AllData(Tail(q))
  BY <1>1 DEF AllData
<1>3. EndComesLast(q) => EndComesLast(Tail(q))
  BY <1>1 DEF EndComesLast
<1>4. HasEnd(Tail(q)) => HasEnd(q)
  BY <1>1 DEF HasEnd
<1>. QED
  BY <1>1, <1>2, <1>3, <1>4

LEMMA QueueEmpty == /\ <<>> \in Seq(Parts) /\ AllData(<<>>) /\ EndComesLast(<<>>) /\ ~HasEnd(<<>>)
BY DEF AllData, EndComesLast, HasEnd

-----------------------------------------------------------------------------
(* Each request.  A stream in the table has no end in its queue, whoever is   *)
(* still to be heard from is in the table, and an end in a queue comes last   *)
(* and is the server's, unless the stream is broken or the connection down.   *)
HTyped ==
    /\ call \in [Requests -> {"asked", "gated", "head", "body", "chunk", "whole", "gone"}]
    /\ upload \in [Requests -> {"none", "data", "parked", "last", "over"}]
    /\ half \in [Requests -> {"idle", "open", "local", "remote", "closed"}]
    /\ told \in [Requests -> {"nothing", "head", "end"}]
    /\ streams \subseteq Requests /\ headed \subseteq Requests /\ broken \subseteq Requests
    /\ queue \in [Requests -> Seq(Parts)]
    /\ window \in [Requests -> 0 .. 1]
    /\ limit \in Limits /\ credit \in Nat /\ down \in BOOLEAN
HEvents ==
    \/ event \in {NoEvent, [kind |-> "settings"]}
    \/ \E r \in Requests :
         \/ event \in {[kind |-> "head", of |-> r], [kind |-> "reset", of |-> r],
                       [kind |-> "window", of |-> r]}
         \/ event = [kind |-> "end", of |-> r] /\ told[r] = "end"
         \/ /\ event = [kind |-> "data", of |-> r]
            /\ r \in streams \/ r \in broken \/ call[r] = "gone" \/ down
IsFresh(r) ==
    call[r] \in {"asked", "gated"} => queue[r] = <<>> /\ r \notin streams /\ upload[r] = "none"
EndIsTold(r) ==
    /\ r \in streams => AllData(queue[r])
    /\ r \notin broken => EndComesLast(queue[r])
    /\ r \notin broken /\ HasEnd(queue[r]) => told[r] = "end" \/ down
    /\ call[r] = "whole" => told[r] = "end" \/ down
IsHeard(r) ==
    half[r] \in {"open", "local"} /\ told[r] # "end"
        => r \in streams \/ r \in broken \/ call[r] = "gone" \/ down
HRequests == \A r \in Requests : IsFresh(r) /\ EndIsTold(r) /\ IsHeard(r)
HPlain == HTyped /\ HEvents /\ HRequests

LEMMA PlainStarts == ASSUME H2Init PROVE HPlain
<1>. USE DEF H2Init
<1>1. HTyped
  <2>1. queue \in [Requests -> Seq(Parts)]
    BY QueueEmpty
  <2>2. window \in [Requests -> 0 .. 1]
    OBVIOUS
  <2>. QED
    BY <2>1, <2>2, CreditAssumption DEF HTyped
<1>2. HEvents
  BY DEF HEvents
<1>3. HRequests
  BY QueueEmpty DEF HRequests, IsFresh, EndIsTold, IsHeard
<1>. QED
  BY <1>1, <1>2, <1>3 DEF HPlain

LEMMA OpenPlain == ASSUME HPlain, NEW r \in Requests, Open(r) PROVE HPlain'
<1>. USE DEF Open, streaming
<1>1. HTyped'
  BY DEF HPlain, HTyped
<1>2. HEvents'
  BY DEF HPlain, HTyped, HEvents
<1>3. ASSUME NEW x \in Requests PROVE (IsFresh(x) /\ EndIsTold(x) /\ IsHeard(x))'
  <2>1. IsFresh(x) /\ EndIsTold(x) /\ IsHeard(x) /\ IsFresh(r) /\ queue[r] \in Seq(Parts)
    BY DEF HPlain, HTyped, HRequests
  <2>2. r \in streams' => AllData(queue[r])
    BY <2>1, QueueEmpty DEF IsFresh, EndIsTold
  <2>. QED
    BY <2>1, <2>2 DEF HPlain, HTyped, IsFresh, EndIsTold, IsHeard
<1>. QED
  BY <1>1, <1>2, <1>3 DEF HPlain, HRequests

LEMMA SendsPlain == ASSUME HPlain, NEW r \in Requests, Sender(r) PROVE HPlain'
<1>1. CASE SendsData(r)
  <2>. USE <1>1 DEF SendsData, streaming
  <2>1. \A x \in 0 .. 1 : x > 0 => x - 1 \in 0 .. 1
    OBVIOUS
  <2>2. upload' \in [Requests -> {"none", "data", "parked", "last", "over"}]
    BY DEF HPlain, HTyped
  <2>3. window' \in [Requests -> 0 .. 1]
    <3>1. window' = window \/ (window[r] > 0 /\ window' = [window EXCEPT ![r] = window[r] - 1])
      OBVIOUS
    <3>2. window \in [Requests -> 0 .. 1] /\ window[r] \in 0 .. 1
      BY DEF HPlain, HTyped
    <3>3. window[r] > 0 => window[r] - 1 \in 0 .. 1
      BY <2>1, <3>2
    <3>. HIDE DEF SendsData
    <3>. QED
      BY <3>1, <3>2, <3>3
  <2>4. HTyped'
    BY <2>2, <2>3 DEF HPlain, HTyped
  <2>5. HEvents'
    BY DEF HPlain, HEvents
  <2>6. ASSUME NEW x \in Requests PROVE (IsFresh(x) /\ EndIsTold(x) /\ IsHeard(x))'
    BY DEF HPlain, HTyped, HRequests, IsFresh, EndIsTold, IsHeard
  <2>. QED
    BY <2>4, <2>5, <2>6 DEF HPlain, HRequests
<1>2. CASE SendsEnd(r)
  <2>. USE <1>2 DEF SendsEnd, streaming
  <2>1. half'[r] \in {half[r], "local", "closed"} /\ (half'[r] = "local" => half[r] \in {"open", "local"})
        /\ \A x \in Requests : x # r => half'[x] = half[x]
    BY DEF HPlain, HTyped
  <2>2. half' \in [Requests -> {"idle", "open", "local", "remote", "closed"}]
    BY <2>1 DEF HPlain, HTyped
  <2>3. upload' \in [Requests -> {"none", "data", "parked", "last", "over"}]
    BY DEF HPlain, HTyped
  <2>4. HTyped'
    BY <2>2, <2>3 DEF HPlain, HTyped
  <2>5. HEvents'
    BY DEF HPlain, HEvents
  <2>6. \A x \in Requests : upload'[x] = upload[x] \/ (x = r /\ upload[x] = "last")
    BY DEF HPlain, HTyped
  <2>7. ASSUME NEW x \in Requests PROVE (IsFresh(x) /\ EndIsTold(x) /\ IsHeard(x))'
    <3>. HIDE DEF SendsEnd
    <3>1. half'[x] \in {"open", "local"} => half[x] \in {"open", "local"}
      BY <2>1 DEF HPlain, HTyped
    <3>2. call' = call /\ told' = told /\ streams' = streams /\ broken' = broken /\ queue' = queue /\ down' = down
      BY DEF SendsEnd
    <3>3. IsFresh(x) /\ EndIsTold(x) /\ IsHeard(x)
      BY DEF HPlain, HRequests
    <3>. QED
      BY <2>6, <3>1, <3>2, <3>3 DEF IsFresh, EndIsTold, IsHeard
  <2>. QED
    BY <2>4, <2>5, <2>7 DEF HPlain, HRequests
<1>. QED
  BY <1>1, <1>2 DEF Sender

LEMMA CallerPlain == ASSUME HPlain, NEW r \in Requests, HeadArrives(r) \/ GivesUp(r) \/ Acknowledges(r) PROVE HPlain'
<1>. USE DEF HeadArrives, GivesUp, Acknowledges, streaming
<1>1. HTyped'
  <2>1. call' \in [Requests -> {"asked", "gated", "head", "body", "chunk", "whole", "gone"}]
    BY DEF HPlain, HTyped
  <2>2. credit' \in Nat
    BY DEF HPlain, HTyped
  <2>. QED
    BY <2>1, <2>2 DEF HPlain, HTyped
<1>2. HEvents'
  BY DEF HPlain, HTyped, HEvents
<1>3. ASSUME NEW x \in Requests PROVE (IsFresh(x) /\ EndIsTold(x) /\ IsHeard(x))'
  BY DEF HPlain, HTyped, HRequests, IsFresh, EndIsTold, IsHeard
<1>. QED
  BY <1>1, <1>2, <1>3 DEF HPlain, HRequests

LEMMA YieldsPlain == ASSUME HPlain, NEW r \in Requests, Yields(r) PROVE HPlain'
<1>. USE DEF Yields
<1>1. queue[r] \in Seq(Parts) /\ queue[r] # <<>> /\ queue'[r] = Tail(queue[r])
      /\ \A x \in Requests : x # r => queue'[x] = queue[x]
  BY DEF HPlain, HTyped
<1>2. /\ Tail(queue[r]) \in Seq(Parts) /\ (AllData(queue[r]) => AllData(Tail(queue[r])))
      /\ (EndComesLast(queue[r]) => EndComesLast(Tail(queue[r])))
      /\ (HasEnd(Tail(queue[r])) => HasEnd(queue[r]))
  BY <1>1, QueueLetsGo
<1>3. HTyped'
  BY <1>2 DEF HPlain, HTyped
<1>4. HEvents'
  BY DEF HPlain, HTyped, HEvents
<1>5. ASSUME NEW x \in Requests PROVE (IsFresh(x) /\ EndIsTold(x) /\ IsHeard(x))'
  BY <1>1, <1>2 DEF HPlain, HTyped, HRequests, IsFresh, EndIsTold, IsHeard
<1>. QED
  BY <1>3, <1>4, <1>5 DEF HPlain, HRequests

(* A caller that leaves takes the queue with it.                              *)
LEMMA WithdrawsPlain == ASSUME HPlain, NEW r \in Requests, Withdraws(r) PROVE HPlain' /\ call'[r] = "gone"
<1>. USE DEF Withdraws, Abort, Forgets, GateOpens
<1>1. call'[r] = "gone" /\ \A x \in Requests : x # r => queue'[x] = queue[x] /\ upload'[x] = upload[x] /\ half'[x] = half[x]
          /\ (call'[x] = call[x] \/ (call'[x] = "asked" /\ call[x] = "gated"))
          /\ (x \in streams' <=> x \in streams) /\ (x \in broken' <=> x \in broken)
  BY DEF HPlain, HTyped
<1>2. queue'[r] = <<>> /\ r \notin streams'
  BY DEF HPlain, HTyped
<1>3. HTyped'
  BY QueueEmpty DEF HPlain, HTyped
<1>4. HEvents'
  BY <1>1 DEF HPlain, HTyped, HEvents
<1>5. ASSUME NEW x \in Requests PROVE (IsFresh(x) /\ EndIsTold(x) /\ IsHeard(x))'
  <2>1. CASE x = r
    BY <1>1, <1>2, <2>1, QueueEmpty DEF IsFresh, EndIsTold, IsHeard
  <2>2. CASE x # r
    BY <1>1, <2>2 DEF HPlain, HTyped, HRequests, IsFresh, EndIsTold, IsHeard
  <2>. QED
    BY <2>1, <2>2
<1>. QED
  BY <1>1, <1>3, <1>4, <1>5 DEF HPlain, HRequests

LEMMA EndsPlain == ASSUME HPlain, NEW r \in Requests, EndsBody(r) PROVE HPlain'
<1>1. CASE Withdraws(r)
  BY <1>1, WithdrawsPlain
<1>2. CASE ~Withdraws(r)
  <2>. USE <1>2 DEF EndsBody, Forgets
  <2>1. r \notin broken /\ call[r] = "body" /\ queue[r] # <<>> /\ Head(queue[r]) = "end" /\ queue[r] \in Seq(Parts)
    BY DEF HPlain, HTyped
  <2>2. HasEnd(queue[r])
    BY <2>1, QueueLetsGo DEF HasEnd
  <2>3. told[r] = "end" \/ down
    BY <2>1, <2>2 DEF HPlain, HRequests, EndIsTold
  <2>4. HTyped'
    <3>0. call' = [call EXCEPT ![r] = "whole"]
      BY DEF Withdraws
    <3>1. call' \in [Requests -> {"asked", "gated", "head", "body", "chunk", "whole", "gone"}]
      BY <3>0 DEF HPlain, HTyped
    <3>2. queue' \in [Requests -> Seq(Parts)]
      <4>1. queue' = [queue EXCEPT ![r] = <<>>]
        OBVIOUS
      <4>2. queue \in [Requests -> Seq(Parts)]
        BY DEF HPlain, HTyped
      <4>. QED
        BY <4>1, <4>2, QueueEmpty, Zenon
    <3>3. headed' \subseteq Requests /\ broken' \subseteq Requests
      BY DEF HPlain, HTyped
    <3>4. upload' \in [Requests -> {"none", "data", "parked", "last", "over"}]
      BY DEF HPlain, HTyped
    <3>. QED
      BY <3>1, <3>2, <3>3, <3>4 DEF HPlain, HTyped
  <2>5. HEvents'
    BY <2>1 DEF HPlain, HTyped, HEvents
  <2>6. ASSUME NEW x \in Requests PROVE (IsFresh(x) /\ EndIsTold(x) /\ IsHeard(x))'
    <3>1. CASE x = r
      BY <2>1, <2>3, <3>1, QueueEmpty DEF HPlain, HTyped, HRequests, IsFresh, EndIsTold, IsHeard
    <3>2. CASE x # r
      BY <3>2 DEF HPlain, HTyped, HRequests, IsFresh, EndIsTold, IsHeard
    <3>. QED
      BY <3>1, <3>2
  <2>. QED
    BY <2>4, <2>5, <2>6 DEF HPlain, HRequests
<1>. QED
  BY <1>1, <1>2

LEMMA EndOfQueueIs ==
  ASSUME HTyped, NEW S
  PROVE  /\ EndOfQueue(S) \in [Requests -> Seq(Parts)]
         /\ \A x \in Requests : x \notin S => EndOfQueue(S)[x] = queue[x]
         /\ \A x \in Requests : x \in S => /\ EndOfQueue(S)[x] = Append(queue[x], "end")
                                           /\ AllData(queue[x]) => EndComesLast(EndOfQueue(S)[x])
<1>1. ASSUME NEW x \in Requests
      PROVE  /\ Append(queue[x], "end") \in Seq(Parts) /\ queue[x] \in Seq(Parts)
             /\ AllData(queue[x]) => EndComesLast(Append(queue[x], "end"))
  <2>1. queue[x] \in Seq(Parts) /\ "end" \in Parts
    BY DEF HTyped, Parts
  <2>. QED
    BY <2>1, QueueExtends
<1>. QED
  BY <1>1 DEF EndOfQueue

LEMMA FailsPlain == ASSUME HPlain, NEW r \in Requests, BodyFails(r) PROVE HPlain'
<1>. USE DEF BodyFails, Abort, GateOpens
<1>. DEFINE Q == EndOfQueue({r})
<1>1. /\ Q \in [Requests -> Seq(Parts)] /\ \A x \in Requests : x # r => Q[x] = queue[x]
  <2>1. HTyped /\ \A x \in Requests : x # r => x \notin {r}
    BY DEF HPlain
  <2>. QED
    BY <2>1, EndOfQueueIs
<1>. HIDE DEF Q
<1>2. queue' = Q /\ r \in broken' /\ r \notin streams' /\ call[r] \notin {"asked", "gated"} /\ call'[r] = call[r]
  BY DEF HPlain, HTyped, HRequests, IsFresh, Q
<1>3. \A x \in Requests : x # r => /\ upload'[x] = upload[x] /\ half'[x] = half[x]
          /\ (call'[x] = call[x] \/ (call'[x] = "asked" /\ call[x] = "gated"))
          /\ (x \in streams' <=> x \in streams) /\ (x \in broken' <=> x \in broken)
  BY DEF HPlain, HTyped
<1>4. HTyped'
  BY <1>1, <1>2 DEF HPlain, HTyped
<1>5. HEvents'
  BY <1>2, <1>3 DEF HPlain, HTyped, HEvents
<1>6. ASSUME NEW x \in Requests PROVE (IsFresh(x) /\ EndIsTold(x) /\ IsHeard(x))'
  <2>1. CASE x = r
    BY <1>2, <2>1 DEF HPlain, HTyped, HRequests, IsFresh, EndIsTold, IsHeard
  <2>2. CASE x # r
    <3>1. IsFresh(x) /\ EndIsTold(x) /\ IsHeard(x) /\ queue'[x] = queue[x] /\ told' = told /\ down' = down
      BY <1>1, <1>2, <2>2 DEF HPlain, HRequests
    <3>. HIDE DEF BodyFails
    <3>. QED
      BY <1>3, <2>2, <3>1 DEF IsFresh, EndIsTold, IsHeard
  <2>. QED
    BY <2>1, <2>2
<1>. QED
  BY <1>4, <1>5, <1>6 DEF HPlain, HRequests

LEMMA ServerPlain == ASSUME HPlain, NEW r \in Requests, Server(r) PROVE HPlain'
<1>. USE DEF Server, ReceivesHead, ReceivesData, ReceivesEnd, ReceivesReset, ReceivesWindow, Receives, Speaking, Counted, streaming
<1>1. HTyped'
  <2>1. half' \in [Requests -> {"idle", "open", "local", "remote", "closed"}]
    BY DEF HPlain, HTyped
  <2>2. told' \in [Requests -> {"nothing", "head", "end"}]
    BY DEF HPlain, HTyped
  <2>3. window' \in [Requests -> 0 .. 1]
    BY DEF HPlain, HTyped
  <2>4. credit' \in Nat
    BY DEF HPlain, HTyped
  <2>. QED
    BY <2>1, <2>2, <2>3, <2>4 DEF HPlain, HTyped
<1>2. HEvents'
  <2>1. ReceivesData(r) => r \in streams \/ r \in broken \/ call[r] = "gone" \/ down
    BY DEF HPlain, HRequests, IsHeard
  <2>. QED
    BY <2>1 DEF HPlain, HTyped, HEvents
<1>3. ASSUME NEW x \in Requests PROVE (IsFresh(x) /\ EndIsTold(x) /\ IsHeard(x))'
  BY DEF HPlain, HTyped, HRequests, IsFresh, EndIsTold, IsHeard
<1>. QED
  BY <1>1, <1>2, <1>3 DEF HPlain, HRequests

LEMMA SettingsPlain == ASSUME HPlain, NEW n \in Limits, ReceivesSettings(n) PROVE HPlain'
<1>. USE DEF ReceivesSettings, Receives, streaming
<1>1. HTyped'
  BY DEF HPlain, HTyped
<1>2. HEvents'
  BY DEF HPlain, HEvents
<1>3. ASSUME NEW x \in Requests PROVE (IsFresh(x) /\ EndIsTold(x) /\ IsHeard(x))'
  BY DEF HPlain, HTyped, HRequests, IsFresh, EndIsTold, IsHeard
<1>. QED
  BY <1>1, <1>2, <1>3 DEF HPlain, HRequests

(* The event in hand, if it is of a stream, is of one of the requests.        *)
LEMMA EventIs ==
  ASSUME HPlain
  PROVE  /\ event.kind \in {"none", "settings", "head", "data", "end", "reset", "window"}
         /\ event.kind \notin {"none", "settings"} => event.of \in Requests
         /\ event.kind = "end" => told[event.of] = "end"
         /\ event.kind = "data" => event.of \in streams \/ event.of \in broken \/ call[event.of] = "gone" \/ down
BY DEF HPlain, HEvents, NoEvent

LEMMA HandlesPlain == ASSUME HPlain, HandlesHead \/ HandlesWindow \/ HandlesSettings PROVE HPlain'
<1>. USE DEF HandlesHead, HandlesWindow, HandlesSettings, Consumed, GateOpens, Awoken, streaming
<1>1. HTyped'
  BY EventIs DEF HPlain, HTyped
<1>2. HEvents'
  BY DEF HEvents
<1>3. ASSUME NEW x \in Requests PROVE (IsFresh(x) /\ EndIsTold(x) /\ IsHeard(x))'
  BY DEF HPlain, HTyped, HRequests, IsFresh, EndIsTold, IsHeard
<1>. QED
  BY <1>1, <1>2, <1>3 DEF HPlain, HRequests

LEMMA DataPlain == ASSUME HPlain, HandlesData PROVE HPlain'
<1>. USE DEF HandlesData, Consumed
<1>1. ASSUME NEW x \in Requests
      PROVE /\ Append(queue[x], "data") \in Seq(Parts) /\ queue[x] \in Seq(Parts)
            /\ AllData(queue[x]) => EndComesLast(Append(queue[x], "data"))
                                    /\ AllData(Append(queue[x], "data"))
  <2>1. queue[x] \in Seq(Parts) /\ "data" \in Parts
    BY DEF HPlain, HTyped, Parts
  <2>. QED
    BY <2>1, QueueExtends
<1>2. \A q : AllData(q) => ~HasEnd(q)
  BY DEF AllData, HasEnd
<1>3. \A x \in Requests : queue'[x] = IF x = event.of /\ x \in streams THEN Append(queue[x], "data") ELSE queue[x]
  OBVIOUS
<1>4. HTyped'
  BY <1>1 DEF HPlain, HTyped
<1>5. HEvents'
  BY DEF HEvents
<1>6. ASSUME NEW x \in Requests PROVE (IsFresh(x) /\ EndIsTold(x) /\ IsHeard(x))'
  <2>1. IsFresh(x) /\ EndIsTold(x) /\ IsHeard(x)
    BY DEF HPlain, HRequests
  <2>2. CASE x = event.of /\ x \in streams
    BY <1>1, <1>2, <1>3, <2>1, <2>2 DEF IsFresh, EndIsTold, IsHeard
  <2>3. CASE ~(x = event.of /\ x \in streams)
    BY <1>3, <2>1, <2>3 DEF IsFresh, EndIsTold, IsHeard
  <2>. QED
    BY <2>2, <2>3
<1>. QED
  BY <1>4, <1>5, <1>6 DEF HPlain, HRequests

LEMMA EndPlain == ASSUME HPlain, HandlesEnd PROVE HPlain'
<1>. USE DEF HandlesEnd, Consumed, GateOpens
<1>. DEFINE S == {event.of} \cap streams
            Q == EndOfQueue(S)
<1>1. /\ Q \in [Requests -> Seq(Parts)] /\ \A x \in Requests : x \notin S => Q[x] = queue[x]
      /\ \A x \in Requests : x \in S /\ AllData(queue[x]) => EndComesLast(Q[x])
  <2>. HIDE DEF S
  <2>. QED
    BY EndOfQueueIs DEF HPlain
<1>2. queue' = Q /\ event.of \in Requests /\ told[event.of] = "end"
  BY EventIs
<1>. HIDE DEF Q
<1>3. HTyped'
  BY <1>1, <1>2 DEF HPlain, HTyped
<1>4. HEvents'
  BY DEF HEvents
<1>5. ASSUME NEW x \in Requests PROVE (IsFresh(x) /\ EndIsTold(x) /\ IsHeard(x))'
  <2>1. IsFresh(x) /\ EndIsTold(x) /\ IsHeard(x) /\ call'[x] = IF call[x] = "gated" THEN "asked" ELSE call[x]
    BY DEF HPlain, HRequests
  <2>2. CASE x \in S
    BY <1>1, <1>2, <2>1, <2>2 DEF IsFresh, EndIsTold, IsHeard
  <2>3. CASE x \notin S
    BY <1>1, <1>2, <2>1, <2>3 DEF IsFresh, EndIsTold, IsHeard
  <2>. QED
    BY <2>2, <2>3
<1>. QED
  BY <1>3, <1>4, <1>5 DEF HPlain, HRequests

LEMMA ResetPlain == ASSUME HPlain, HandlesReset PROVE HPlain'
<1>. USE DEF HandlesReset, Consumed, GateOpens, Awoken
<1>. DEFINE S == {event.of} \cap streams
            Q == EndOfQueue(S)
<1>1. /\ Q \in [Requests -> Seq(Parts)] /\ \A x \in Requests : x \notin S => Q[x] = queue[x]
  <2>. HIDE DEF S
  <2>. QED
    BY EndOfQueueIs DEF HPlain
<1>2. queue' = Q
  OBVIOUS
<1>. HIDE DEF Q
<1>3. HTyped'
  BY <1>1, <1>2 DEF HPlain, HTyped
<1>4. HEvents'
  BY DEF HEvents
<1>5. ASSUME NEW x \in Requests PROVE (IsFresh(x) /\ EndIsTold(x) /\ IsHeard(x))'
  <2>1. IsFresh(x) /\ EndIsTold(x) /\ IsHeard(x) /\ call'[x] = IF call[x] = "gated" THEN "asked" ELSE call[x]
    BY DEF HPlain, HRequests
  <2>2. CASE x \in S
    BY <1>1, <1>2, <2>1, <2>2 DEF IsFresh, EndIsTold, IsHeard
  <2>3. CASE x \notin S
    BY <1>1, <1>2, <2>1, <2>3 DEF IsFresh, EndIsTold, IsHeard
  <2>. QED
    BY <2>2, <2>3
<1>. QED
  BY <1>3, <1>4, <1>5 DEF HPlain, HRequests

LEMMA DownPlain == ASSUME HPlain, Disconnects PROVE HPlain'
<1>. USE DEF Disconnects, FailsPending, GateOpens, Awoken
<1>1. /\ EndOfQueue(streams) \in [Requests -> Seq(Parts)]
      /\ \A x \in Requests : x \notin streams => EndOfQueue(streams)[x] = queue[x]
      /\ \A x \in Requests : x \in streams /\ AllData(queue[x]) => EndComesLast(EndOfQueue(streams)[x])
  BY EndOfQueueIs DEF HPlain
<1>2. HTyped'
  BY <1>1 DEF HPlain, HTyped
<1>3. HEvents'
  BY DEF HEvents
<1>4. ASSUME NEW x \in Requests PROVE (IsFresh(x) /\ EndIsTold(x) /\ IsHeard(x))'
  <2>1. IsFresh(x) /\ EndIsTold(x) /\ IsHeard(x) /\ call'[x] = IF call[x] = "gated" THEN "asked" ELSE call[x]
    BY DEF HPlain, HRequests
  <2>. QED
    BY <1>1, <2>1 DEF IsFresh, EndIsTold, IsHeard
<1>. QED
  BY <1>2, <1>3, <1>4 DEF HPlain, HRequests

-----------------------------------------------------------------------------
(* The receive window.  While no response is abandoned, its chunks are the    *)
(* ones still to come, those in the queues, and those in a consumer's hand.   *)
DataAt(q, x, i) == i \in DOMAIN q[x] /\ q[x][i] = "data"
UnreadOf(q) == {c \in Requests \X (1 .. Credit) : DataAt(q, c[1], c[2])}
FitsWindow(q) == \A x \in Requests : \A i \in DOMAIN q[x] : q[x][i] = "data" => i <= Credit
NoneLost == ~down /\ \A r \in Requests : call[r] # "gone" /\ r \notin broken
InEvent == IF event.kind = "data" THEN 1 ELSE 0
Balance ==
    /\ FitsWindow(queue)
    /\ IsFiniteSet(UnreadOf(queue)) /\ IsFiniteSet(InHand)
    /\ Credit = credit + Cardinality(UnreadOf(queue)) + Cardinality(InHand) + InEvent
HInv == HPlain /\ (NoneLost => Balance)

LEMMA SamePlaces ==
  ASSUME NEW q, NEW q2, \A x \in Requests : \A i \in 1 .. Credit : DataAt(q2, x, i) <=> DataAt(q, x, i)
  PROVE  UnreadOf(q2) = UnreadOf(q)
<1>1. ASSUME NEW c \in Requests \X (1 .. Credit) PROVE DataAt(q2, c[1], c[2]) <=> DataAt(q, c[1], c[2])
  OBVIOUS
<1>. QED
  BY <1>1 DEF UnreadOf

(* What was lost stays lost.                                                  *)
LEMMA LostStays == ASSUME HPlain, [H2Next]_h2Vars, NoneLost' PROVE NoneLost
<1>1. CASE UNCHANGED h2Vars
  BY <1>1 DEF h2Vars, streaming, NoneLost
<1>2. ~down
  <2>1. H2Next => down' = down \/ down' = TRUE
    BY DEF H2Next, Caller, Sender, Consumer, Server, Handles, Open, SendsData, SendsEnd, BodyFails, HeadArrives,
       LosesHead, Withdraws, GivesUp, Yields, Acknowledges, EndsBody, Quits, ReceivesHead, ReceivesData, ReceivesEnd,
       ReceivesReset, ReceivesWindow, ReceivesSettings, HandlesHead, HandlesData, HandlesEnd, HandlesReset,
       HandlesWindow, HandlesSettings, Disconnects, FailsPending, Consumed, streaming
  <2>. QED
    BY <1>1, <2>1 DEF NoneLost, h2Vars
<1>3. ASSUME NEW x \in Requests, H2Next PROVE call[x] # "gone" /\ x \notin broken
  <2>1. call \in [Requests -> {"asked", "gated", "head", "body", "chunk", "whole", "gone"}] /\ broken \subseteq Requests
    BY DEF HPlain, HTyped
  <2>2. call'[x] # "gone" /\ x \notin broken'
    BY DEF NoneLost
  <2>3. ASSUME NEW r \in Requests, Caller(r) \/ Quits(r) PROVE call[x] # "gone" /\ x \notin broken
    BY <2>1, <2>2, <2>3 DEF Caller, Open, HeadArrives, LosesHead, GivesUp, Quits, Withdraws, Abort, Forgets, GateOpens, streaming
  <2>4. ASSUME NEW r \in Requests, Sender(r) \/ BodyFails(r) PROVE call[x] # "gone" /\ x \notin broken
    BY <2>1, <2>2, <2>4 DEF Sender, SendsData, SendsEnd, BodyFails, Abort, GateOpens, streaming
  <2>5. ASSUME NEW r \in Requests, Consumer(r) PROVE call[x] # "gone" /\ x \notin broken
    <3>1. CASE EndsBody(r)
      BY <2>1, <2>2, <3>1 DEF EndsBody, Withdraws, Abort, Forgets, GateOpens
    <3>2. CASE Yields(r) \/ Acknowledges(r)
      BY <2>1, <2>2, <3>2 DEF Yields, Acknowledges, streaming
    <3>. QED
      BY <2>5, <3>1, <3>2 DEF Consumer
  <2>6. ASSUME NEW r \in Requests, Server(r) PROVE call[x] # "gone" /\ x \notin broken
    BY <2>2, <2>6 DEF Server, ReceivesHead, ReceivesData, ReceivesEnd, ReceivesReset, ReceivesWindow, streaming
  <2>7. ASSUME NEW n \in Limits, ReceivesSettings(n) PROVE call[x] # "gone" /\ x \notin broken
    BY <2>2, <2>7 DEF ReceivesSettings, streaming
  <2>8. ASSUME Handles \/ Disconnects PROVE call[x] # "gone" /\ x \notin broken
    BY <2>1, <2>2, <2>8 DEF Handles, HandlesHead, HandlesData, HandlesEnd, HandlesReset, HandlesWindow, HandlesSettings,
       Disconnects, FailsPending, Consumed, GateOpens, streaming
  <2>. QED
    BY <1>3, <2>3, <2>4, <2>5, <2>6, <2>7, <2>8 DEF H2Next
<1>. QED
  BY <1>1, <1>2, <1>3 DEF NoneLost

(* A step that moves no chunk.                                                *)
LEMMA NoneMoves ==
  ASSUME HPlain, HPlain', Balance, credit' = credit, InHand' = InHand, InEvent' = InEvent,
         \A x \in Requests : \A i \in Nat : DataAt(queue', x, i) => DataAt(queue, x, i),
         \A x \in Requests : \A i \in 1 .. Credit : DataAt(queue, x, i) => DataAt(queue', x, i)
  PROVE  Balance'
<1>1. UnreadOf(queue') = UnreadOf(queue)
  <2>1. \A i \in 1 .. Credit : i \in Nat
    BY CreditAssumption
  <2>. QED
    BY <2>1, SamePlaces
<1>2. FitsWindow(queue')
  <2>1. ASSUME NEW x \in Requests, NEW i \in DOMAIN queue'[x], queue'[x][i] = "data" PROVE i <= Credit
    <3>1. i \in Nat
      BY DEF HPlain, HTyped
    <3>. QED
      BY <2>1, <3>1 DEF Balance, FitsWindow, DataAt
  <2>. QED
    BY <2>1 DEF FitsWindow
<1>. QED
  BY <1>1, <1>2 DEF Balance

(* A chunk joins a queue that has no end in it.                               *)
LEMMA ChunkJoins ==
  ASSUME NEW q \in [Requests -> Seq(Parts)], NEW q2, NEW r \in Requests, q2[r] = Append(q[r], "data"),
         \A x \in Requests : x # r => q2[x] = q[x], AllData(q[r]), FitsWindow(q),
         IsFiniteSet(UnreadOf(q)), Cardinality(UnreadOf(q)) < Credit
  PROVE  /\ FitsWindow(q2) /\ IsFiniteSet(UnreadOf(q2))
         /\ Cardinality(UnreadOf(q2)) = Cardinality(UnreadOf(q)) + 1
<1>. DEFINE n == Len(q[r])
            U == UnreadOf(q)
            g == [i \in 1 .. n |-> <<r, i>>]
<1>0. q[r] \in Seq(Parts) /\ "data" \in Parts
  BY DEF Parts
<1>1. /\ n \in Nat /\ DOMAIN q[r] = 1 .. n /\ DOMAIN q2[r] = 1 .. n + 1 /\ q2[r][n + 1] = "data"
      /\ \A i \in 1 .. n : q2[r][i] = q[r][i] /\ q[r][i] = "data" /\ i <= Credit
      /\ \A i \in 1 .. n + 1 : i \in 1 .. n \/ i = n + 1
      /\ n + 1 \notin 1 .. n /\ n + 1 \in 1 .. n + 1
  BY <1>0 DEF AllData, FitsWindow
<1>2. Cardinality(U) \in Nat /\ Credit \in Nat
  BY FS_CardinalityType, CreditAssumption
<1>. HIDE DEF n
<1>3. n <= Cardinality(U)
  <2>1. IsFiniteSet(1 .. n) /\ Cardinality(1 .. n) = IF 1 > n THEN 0 ELSE n - 1 + 1
    BY <1>1, FS_Interval
  <2>2. \A i \in 1 .. n : <<r, i>> \in U
    BY <1>1, <1>2 DEF UnreadOf, DataAt
  <2>. HIDE DEF U
  <2>3. g \in Injection(1 .. n, U)
    BY <2>2 DEF Injection, IsInjective
  <2>4. Cardinality(1 .. n) <= Cardinality(U)
    BY <2>1, <2>3, FS_Injection DEF U
  <2>. QED
    BY <1>1, <2>1, <2>4
<1>4. n + 1 <= Credit /\ n + 1 \in 1 .. Credit
  BY <1>1, <1>2, <1>3
<1>5. FitsWindow(q2)
  <2>1. ASSUME NEW x \in Requests, NEW i \in DOMAIN q2[x], q2[x][i] = "data" PROVE i <= Credit
    BY <1>1, <1>4, <2>1 DEF FitsWindow
  <2>. QED
    BY <2>1 DEF FitsWindow
<1>6. UnreadOf(q2) = U \cup {<<r, n + 1>>}
  <2>1. ASSUME NEW x \in Requests, NEW i \in 1 .. Credit
        PROVE  DataAt(q2, x, i) <=> DataAt(q, x, i) \/ <<x, i>> = <<r, n + 1>>
    <3>1. CASE x = r
      BY <1>1, <3>1 DEF DataAt
    <3>2. CASE x # r
      BY <3>2 DEF DataAt
    <3>. QED
      BY <3>1, <3>2
  <2>2. <<r, n + 1>> \in Requests \X (1 .. Credit)
    BY <1>4
  <2>3. ASSUME NEW c \in Requests \X (1 .. Credit)
        PROVE  c \in UnreadOf(q2) <=> c \in U \cup {<<r, n + 1>>}
    <3>1. PICK x \in Requests, i \in 1 .. Credit : c = <<x, i>>
      OBVIOUS
    <3>. QED
      BY <2>1, <3>1 DEF UnreadOf
  <2>4. /\ \A c \in UnreadOf(q2) : c \in Requests \X (1 .. Credit)
        /\ \A c \in U : c \in Requests \X (1 .. Credit)
    BY DEF UnreadOf
  <2>. QED
    BY <2>2, <2>3, <2>4
<1>7. <<r, n + 1>> \notin U
  BY <1>1 DEF UnreadOf, DataAt
<1>8. IsFiniteSet(U \cup {<<r, n + 1>>}) /\ Cardinality(U \cup {<<r, n + 1>>}) = Cardinality(U) + 1
  BY <1>7, FS_AddElement
<1>. QED
  BY <1>5, <1>6, <1>8

(* What is taken from the front frees the last place that holds a chunk, since *)
(* only an end can follow one.                                                *)
LEMMA ChunkLeaves ==
  ASSUME NEW q \in [Requests -> Seq(Parts)], NEW q2, NEW r \in Requests, q[r] # <<>>, q[r][1] = "data",
         q2[r] = Tail(q[r]), \A x \in Requests : x # r => q2[x] = q[x], EndComesLast(q[r]), FitsWindow(q),
         IsFiniteSet(UnreadOf(q))
  PROVE  /\ FitsWindow(q2) /\ IsFiniteSet(UnreadOf(q2)) /\ Cardinality(UnreadOf(q2)) \in Nat
         /\ Cardinality(UnreadOf(q)) = Cardinality(UnreadOf(q2)) + 1
<1>. DEFINE n == Len(q[r])
            m == IF q[r][n] = "data" THEN n ELSE n - 1
            U == UnreadOf(q)
<1>1. /\ n \in Nat /\ n >= 1 /\ DOMAIN q[r] = 1 .. n /\ DOMAIN q2[r] = 1 .. n - 1
      /\ \A i \in 1 .. n - 1 : q2[r][i] = q[r][i + 1] /\ i + 1 \in 1 .. n
  <2>1. q[r] \in Seq(Parts)
    OBVIOUS
  <2>. QED
    BY <2>1, QueueLetsGo
<1>2. \A i \in 1 .. n : q[r][i] \in {"data", "end"} /\ (q[r][i] = "end" => i = n)
  <2>1. q[r] \in Seq(Parts)
    OBVIOUS
  <2>. QED
    <3>1. \A i \in 1 .. n : q[r][i] \in Parts
      BY <2>1
    <3>. QED
      BY <1>1, <3>1 DEF Parts, EndComesLast
<1>3. Credit \in Nat /\ \A i \in 1 .. n : q[r][i] = "data" => i <= Credit
  BY <1>1, CreditAssumption DEF FitsWindow
<1>. HIDE DEF n
<1>4. m \in Nat /\ 1 <= m /\ m <= n
  <2>1. CASE q[r][n] = "data"
    BY <1>1, <2>1
  <2>2. CASE q[r][n] # "data"
    <3>1. n # 1
      BY <2>2
    <3>. QED
      BY <1>1, <2>2, <3>1
  <2>. QED
    BY <2>1, <2>2
<1>5. ASSUME NEW i \in 1 .. n PROVE q[r][i] = "data" <=> i <= m
  <2>1. CASE q[r][n] = "data"
    BY <1>1, <1>2, <2>1
  <2>2. CASE q[r][n] # "data"
    <3>1. CASE i = n
      BY <1>1, <2>2, <3>1
    <3>2. CASE i # n
      BY <1>1, <1>2, <2>2, <3>2
    <3>. QED
      BY <3>1, <3>2
  <2>. QED
    BY <2>1, <2>2
<1>. HIDE DEF m
<1>6. m \in 1 .. n /\ m <= Credit /\ m \in 1 .. Credit
  BY <1>1, <1>3, <1>4, <1>5
<1>7. <<r, m>> \in U
  BY <1>1, <1>5, <1>6 DEF UnreadOf, DataAt
<1>8. UnreadOf(q2) = U \ {<<r, m>>}
  <2>1. ASSUME NEW x \in Requests, NEW i \in 1 .. Credit
        PROVE  DataAt(q2, x, i) <=> DataAt(q, x, i) /\ <<x, i>> # <<r, m>>
    <3>1. CASE x # r
      BY <3>1 DEF DataAt
    <3>2. CASE x = r
      <4>1. DataAt(q, r, i) <=> i <= m
        BY <1>1, <1>3, <1>4, <1>5 DEF DataAt
      <4>2. DataAt(q2, r, i) <=> i \in 1 .. n - 1 /\ q2[r][i] = "data"
        BY <1>1 DEF DataAt
      <4>3. DataAt(q2, r, i) <=> i \in 1 .. n - 1 /\ i + 1 <= m
        BY <1>1, <1>5, <4>2
      <4>4. (i \in 1 .. n - 1 /\ i + 1 <= m) <=> (i <= m /\ i # m)
        BY <1>1, <1>3, <1>4
      <4>. QED
        BY <3>2, <4>1, <4>3, <4>4
    <3>. QED
      BY <3>1, <3>2
  <2>2. ASSUME NEW c \in Requests \X (1 .. Credit)
        PROVE  c \in UnreadOf(q2) <=> c \in U /\ c # <<r, m>>
    <3>1. PICK x \in Requests, i \in 1 .. Credit : c = <<x, i>>
      OBVIOUS
    <3>. QED
      BY <2>1, <3>1 DEF UnreadOf
  <2>3. /\ \A c \in UnreadOf(q2) : c \in Requests \X (1 .. Credit)
        /\ \A c \in U : c \in Requests \X (1 .. Credit)
    BY DEF UnreadOf
  <2>. QED
    BY <2>2, <2>3
<1>9. IsFiniteSet(U \ {<<r, m>>}) /\ Cardinality(U \ {<<r, m>>}) = Cardinality(U) - 1 /\ Cardinality(U) \in Nat
  BY <1>7, FS_RemoveElement, FS_CardinalityType
<1>10. Cardinality(U \ {<<r, m>>}) \in Nat
  BY <1>9, FS_CardinalityType
<1>11. FitsWindow(q2)
  <2>1. ASSUME NEW x \in Requests, NEW i \in DOMAIN q2[x], q2[x][i] = "data" PROVE i <= Credit
    <3>1. CASE x = r
      <4>1. i \in 1 .. n - 1 /\ i + 1 \in 1 .. n /\ q[r][i + 1] = "data"
        BY <1>1, <2>1, <3>1
      <4>. QED
        BY <1>1, <1>3, <4>1
    <3>2. CASE x # r
      BY <2>1, <3>2 DEF FitsWindow
    <3>. QED
      BY <3>1, <3>2
  <2>. QED
    BY <2>1 DEF FitsWindow
<1>. QED
  BY <1>8, <1>9, <1>10, <1>11

-----------------------------------------------------------------------------
LEMMA InHandStays ==
  ASSUME \A x \in Requests : call'[x] = "chunk" <=> call[x] = "chunk"
  PROVE  InHand' = InHand
BY DEF InHand

LEMMA QuietBalance ==
  ASSUME HPlain, HPlain', Balance, NoneLost', NEW r \in Requests,
         Open(r) \/ HeadArrives(r) \/ GivesUp(r) \/ Sender(r) \/ ReceivesHead(r) \/ ReceivesEnd(r)
         \/ ReceivesReset(r) \/ ReceivesWindow(r)
  PROVE  Balance'
<1>1. queue' = queue /\ credit' = credit /\ InEvent' = InEvent
  BY DEF Open, HeadArrives, GivesUp, Sender, SendsData, SendsEnd, ReceivesHead, ReceivesEnd, ReceivesReset,
     ReceivesWindow, Receives, NoEvent, InEvent, streaming
<1>2. \A x \in Requests : call'[x] = "chunk" <=> call[x] = "chunk"
  <2>1. call \in [Requests -> {"asked", "gated", "head", "body", "chunk", "whole", "gone"}]
    BY DEF HPlain, HTyped
  <2>2. call' = call \/ (call[r] # "chunk" /\ \E v \in {"gone", "head", "gated", "body"} : call' = [call EXCEPT ![r] = v])
    BY DEF Open, HeadArrives, GivesUp, Sender, SendsData, SendsEnd, ReceivesHead, ReceivesEnd, ReceivesReset,
       ReceivesWindow, streaming
  <2>. QED
    BY <2>1, <2>2
<1>. QED
  BY <1>1, <1>2, InHandStays, NoneMoves

LEMMA HandlesBalance ==
  ASSUME HPlain, HPlain', Balance, NoneLost', Handles, ~HandlesData
  PROVE  Balance'
<1>1. credit' = credit /\ InEvent' = InEvent
  BY DEF Handles, HandlesHead, HandlesEnd, HandlesReset, HandlesWindow, HandlesSettings, Consumed, NoEvent, InEvent
<1>2. \A x \in Requests : call'[x] = "chunk" <=> call[x] = "chunk"
  BY DEF Handles, HandlesHead, HandlesEnd, HandlesReset, HandlesWindow, HandlesSettings, GateOpens
<1>3. queue' = queue \/ \E S : queue' = EndOfQueue(S)
  BY DEF Handles, HandlesHead, HandlesEnd, HandlesReset, HandlesWindow, HandlesSettings, streaming
<1>4. ASSUME NEW S, NEW x \in Requests, NEW i \in Nat PROVE DataAt(EndOfQueue(S), x, i) <=> DataAt(queue, x, i)
  <2>1. queue[x] \in Seq(Parts) /\ EndOfQueue(S)[x] = IF x \in S THEN Append(queue[x], "end") ELSE queue[x]
    BY DEF HPlain, HTyped, EndOfQueue
  <2>. DEFINE q == queue[x]
  <2>2. /\ Len(q) \in Nat /\ DOMAIN q = 1 .. Len(q) /\ DOMAIN Append(q, "end") = 1 .. Len(q) + 1
        /\ Append(q, "end")[Len(q) + 1] = "end" /\ \A k \in 1 .. Len(q) : Append(q, "end")[k] = q[k]
        /\ \A k \in 1 .. Len(q) + 1 : k \in 1 .. Len(q) \/ k = Len(q) + 1
        /\ \A k \in 1 .. Len(q) : k \in 1 .. Len(q) + 1
    BY <2>1
  <2>3. i \in DOMAIN Append(q, "end") /\ Append(q, "end")[i] = "data" <=> i \in DOMAIN q /\ q[i] = "data"
    BY <2>2
  <2>. QED
    BY <2>1, <2>3 DEF DataAt
<1>5. /\ \A x \in Requests : \A i \in Nat : DataAt(queue', x, i) => DataAt(queue, x, i)
      /\ \A x \in Requests : \A i \in 1 .. Credit : DataAt(queue, x, i) => DataAt(queue', x, i)
  <2>1. \A i \in 1 .. Credit : i \in Nat
    BY CreditAssumption
  <2>. QED
    BY <1>3, <1>4, <2>1
<1>. QED
  BY <1>1, <1>2, <1>5, InHandStays, NoneMoves

LEMMA SettingsBalance ==
  ASSUME HPlain, HPlain', Balance, NEW n \in Limits, ReceivesSettings(n) PROVE Balance'
<1>1. queue' = queue /\ credit' = credit /\ InEvent' = InEvent /\ call' = call
  BY DEF ReceivesSettings, Receives, NoEvent, InEvent, streaming
<1>. QED
  BY <1>1, InHandStays, NoneMoves

LEMMA WindowAddsUp ==
  ASSUME HPlain, Balance
  PROVE  /\ Credit \in Nat /\ credit \in Nat /\ InEvent \in {0, 1} /\ IsFiniteSet(UnreadOf(queue)) /\ IsFiniteSet(InHand)
         /\ Cardinality(UnreadOf(queue)) \in Nat /\ Cardinality(InHand) \in Nat
         /\ Credit = credit + Cardinality(UnreadOf(queue)) + Cardinality(InHand) + InEvent
BY CreditAssumption, FS_CardinalityType DEF HPlain, HTyped, Balance, InEvent

LEMMA ReceivesDataBalance ==
  ASSUME HPlain, HPlain', Balance, NEW r \in Requests, ReceivesData(r) PROVE Balance'
<1>1. queue' = queue /\ credit' = credit - 1 /\ InEvent' = 1 /\ InEvent = 0 /\ call' = call
  BY DEF ReceivesData, Receives, NoEvent, InEvent, streaming
<1>2. InHand' = InHand
  BY <1>1, InHandStays
<1>3. Credit = credit' + Cardinality(UnreadOf(queue)) + Cardinality(InHand) + InEvent'
  BY <1>1, WindowAddsUp
<1>. QED
  BY <1>1, <1>2, <1>3 DEF Balance

LEMMA HandlesDataBalance ==
  ASSUME HPlain, HPlain', Balance, NoneLost, HandlesData PROVE Balance'
<1>. DEFINE r == event.of
            U == UnreadOf(queue)
<1>1. r \in Requests /\ r \in streams /\ AllData(queue[r])
  BY EventIs DEF HPlain, HRequests, EndIsTold, NoneLost, HandlesData
<1>2. credit' = credit /\ InEvent = 1 /\ InEvent' = 0 /\ call' = call
  BY DEF HandlesData, Consumed, NoEvent, InEvent
<1>3. InHand' = InHand
  BY <1>2, InHandStays
<1>4. queue'[r] = Append(queue[r], "data") /\ (\A x \in Requests : x # r => queue'[x] = queue[x])
      /\ queue \in [Requests -> Seq(Parts)] /\ FitsWindow(queue) /\ IsFiniteSet(U)
  BY <1>1 DEF HandlesData, HPlain, HTyped, Balance
<1>5. Cardinality(U) < Credit /\ Cardinality(U) \in Nat
  BY <1>2, WindowAddsUp
<1>. HIDE DEF r
<1>6. FitsWindow(queue') /\ IsFiniteSet(UnreadOf(queue')) /\ Cardinality(UnreadOf(queue')) = Cardinality(U) + 1
  BY <1>1, <1>4, <1>5, ChunkJoins
<1>7. Credit = credit' + Cardinality(UnreadOf(queue')) + Cardinality(InHand) + InEvent'
  BY <1>2, <1>5, <1>6, WindowAddsUp
<1>. QED
  BY <1>3, <1>6, <1>7 DEF Balance

LEMMA YieldsBalance ==
  ASSUME HPlain, HPlain', Balance, NoneLost, NEW r \in Requests, Yields(r) PROVE Balance'
<1>. DEFINE U == UnreadOf(queue)
            V == UnreadOf(queue')
<1>1. queue[r] # <<>> /\ queue[r][1] = "data" /\ queue \in [Requests -> Seq(Parts)] /\ EndComesLast(queue[r])
      /\ queue'[r] = Tail(queue[r]) /\ \A x \in Requests : x # r => queue'[x] = queue[x]
  BY DEF Yields, HPlain, HTyped, HRequests, EndIsTold, NoneLost
<1>2. credit' = credit /\ InEvent' = InEvent /\ IsFiniteSet(U) /\ IsFiniteSet(InHand) /\ FitsWindow(queue)
  BY DEF Yields, InEvent, Balance
<1>3. FitsWindow(queue') /\ IsFiniteSet(V) /\ Cardinality(V) \in Nat /\ Cardinality(U) = Cardinality(V) + 1
  BY <1>1, <1>2, ChunkLeaves
<1>4. InHand' = InHand \cup {r} /\ r \notin InHand
  BY DEF Yields, InHand, HPlain, HTyped
<1>5. IsFiniteSet(InHand') /\ Cardinality(InHand') = Cardinality(InHand) + 1
  BY <1>2, <1>4, FS_AddElement
<1>6. Credit = credit' + Cardinality(V) + Cardinality(InHand') + InEvent'
  BY <1>2, <1>3, <1>5, WindowAddsUp
<1>. QED
  BY <1>3, <1>5, <1>6 DEF Balance

LEMMA AcknowledgesBalance ==
  ASSUME HPlain, HPlain', Balance, NoneLost, NEW r \in Requests, Acknowledges(r) PROVE Balance'
<1>1. queue' = queue /\ credit' = credit + 1 /\ InEvent' = InEvent
  BY DEF Acknowledges, InEvent, NoneLost, streaming
<1>2. InHand' = InHand \ {r} /\ r \in InHand /\ IsFiniteSet(InHand)
  BY DEF Acknowledges, InHand, HPlain, HTyped, Balance
<1>3. IsFiniteSet(InHand') /\ Cardinality(InHand') = Cardinality(InHand) - 1
  BY <1>2, FS_RemoveElement
<1>4. Credit = credit' + Cardinality(UnreadOf(queue)) + Cardinality(InHand') + InEvent'
  BY <1>1, <1>3, WindowAddsUp
<1>. QED
  BY <1>1, <1>3, <1>4 DEF Balance

LEMMA EndsBalance ==
  ASSUME HPlain, HPlain', Balance, NoneLost, NoneLost', NEW r \in Requests, EndsBody(r) PROVE Balance'
<1>1. /\ r \notin broken /\ queue[r] # <<>> /\ Head(queue[r]) = "end" /\ queue' = [queue EXCEPT ![r] = <<>>]
      /\ call[r] = "body" /\ call' = [call EXCEPT ![r] = "whole"] /\ credit' = credit /\ event' = event
  BY DEF EndsBody, NoneLost, Forgets
<1>2. queue \in [Requests -> Seq(Parts)] /\ queue[r] \in Seq(Parts) /\ EndComesLast(queue[r])
  BY <1>1 DEF HPlain, HTyped, HRequests, EndIsTold
<1>3. \A i \in Nat : ~DataAt(queue, r, i)
  <2>1. /\ Len(queue[r]) \in Nat /\ Len(queue[r]) > 0 /\ DOMAIN queue[r] = 1 .. Len(queue[r]) /\ queue[r][1] = "end"
    BY <1>1, <1>2, QueueLetsGo
  <2>2. 1 = Len(queue[r])
    BY <1>2, <2>1 DEF EndComesLast
  <2>3. \A i \in 1 .. Len(queue[r]) : i = 1
    <3>1. \A i \in 1 .. 1 : i = 1
      OBVIOUS
    <3>2. 1 .. Len(queue[r]) = 1 .. 1
      BY <2>2, Zenon
    <3>. QED
      BY <3>1, <3>2, Zenon
  <2>. QED
    BY <2>1, <2>3 DEF DataAt
<1>4. \A x \in Requests : x # r => queue'[x] = queue[x]
  BY <1>1, <1>2
<1>5. \A i \in Nat : ~DataAt(queue', r, i)
  <2>1. queue'[r] = <<>>
    BY <1>1, <1>2
  <2>. QED
    BY <2>1 DEF DataAt
<1>6. /\ \A x \in Requests : \A i \in Nat : DataAt(queue', x, i) => DataAt(queue, x, i)
      /\ \A x \in Requests : \A i \in 1 .. Credit : DataAt(queue, x, i) => DataAt(queue', x, i)
  <2>1. \A i \in 1 .. Credit : i \in Nat
    BY CreditAssumption
  <2>. QED
    BY <1>3, <1>4, <1>5, <2>1 DEF DataAt
<1>7. \A x \in Requests : call'[x] = "chunk" <=> call[x] = "chunk"
  BY <1>1 DEF HPlain, HTyped
<1>8. InEvent' = InEvent
  BY <1>1 DEF InEvent
<1>. QED
  BY <1>1, <1>6, <1>7, <1>8, InHandStays, NoneMoves

(* A request that fails or is left is lost, and so is every one of a          *)
(* connection that goes down.                                                 *)
LEMMA LosesAll ==
  ASSUME HPlain, (\E r \in Requests : BodyFails(r) \/ LosesHead(r) \/ Quits(r)) \/ Disconnects
  PROVE  ~NoneLost'
<1>1. ASSUME NEW r \in Requests, BodyFails(r) PROVE ~NoneLost'
  BY <1>1 DEF BodyFails, NoneLost
<1>2. ASSUME NEW r \in Requests, LosesHead(r) \/ Quits(r) PROVE ~NoneLost'
  BY <1>2, WithdrawsPlain DEF LosesHead, Quits, NoneLost
<1>3. Disconnects => ~NoneLost'
  BY DEF Disconnects, FailsPending, NoneLost
<1>. QED
  BY <1>1, <1>2, <1>3

LEMMA H2Plain == ASSUME HPlain, [H2Next]_h2Vars PROVE HPlain'
<1>1. CASE UNCHANGED h2Vars
  BY <1>1 DEF h2Vars, streaming, HPlain, HTyped, HEvents, HRequests, IsFresh, EndIsTold, IsHeard
<1>2. ASSUME NEW r \in Requests, Caller(r) PROVE HPlain'
  BY <1>2, OpenPlain, CallerPlain, WithdrawsPlain DEF Caller, LosesHead
<1>3. ASSUME NEW r \in Requests, Sender(r) \/ BodyFails(r) \/ Server(r) PROVE HPlain'
  BY <1>3, SendsPlain, FailsPlain, ServerPlain
<1>4. ASSUME NEW r \in Requests, Consumer(r) \/ Quits(r) PROVE HPlain'
  BY <1>4, YieldsPlain, CallerPlain, EndsPlain, WithdrawsPlain DEF Consumer, Quits
<1>5. ASSUME NEW n \in Limits, ReceivesSettings(n) PROVE HPlain'
  BY <1>5, SettingsPlain
<1>6. CASE Handles \/ Disconnects
  BY <1>6, HandlesPlain, DataPlain, EndPlain, ResetPlain, DownPlain DEF Handles
<1>. QED
  BY <1>1, <1>2, <1>3, <1>4, <1>5, <1>6 DEF H2Next

LEMMA H2Balance == ASSUME HInv, [H2Next]_h2Vars, NoneLost' PROVE Balance'
<1>0. HPlain /\ HPlain' /\ NoneLost /\ Balance
  BY H2Plain, LostStays DEF HInv
<1>1. CASE UNCHANGED h2Vars
  BY <1>0, <1>1 DEF h2Vars, streaming, Balance, InHand, InEvent
<1>2. ASSUME NEW r \in Requests, Caller(r) \/ Sender(r) PROVE Balance'
  BY <1>0, <1>2, QuietBalance, LosesAll DEF Caller
<1>3. ASSUME NEW r \in Requests, BodyFails(r) \/ Quits(r) PROVE Balance'
  BY <1>0, <1>3, LosesAll
<1>4. ASSUME NEW r \in Requests, Consumer(r) PROVE Balance'
  BY <1>0, <1>4, YieldsBalance, AcknowledgesBalance, EndsBalance DEF Consumer
<1>5. ASSUME NEW r \in Requests, Server(r) PROVE Balance'
  BY <1>0, <1>5, QuietBalance, ReceivesDataBalance DEF Server
<1>6. ASSUME NEW n \in Limits, ReceivesSettings(n) PROVE Balance'
  BY <1>0, <1>6, SettingsBalance
<1>7. CASE Handles
  BY <1>0, <1>7, HandlesBalance, HandlesDataBalance
<1>8. CASE Disconnects
  BY <1>0, <1>8, LosesAll
<1>. QED
  BY <1>1, <1>2, <1>3, <1>4, <1>5, <1>6, <1>7, <1>8 DEF H2Next

THEOREM ClientH2Invariant == H2Spec => []HInv
<1>1. H2Init => HInv
  <2>. SUFFICES ASSUME H2Init PROVE HInv
    OBVIOUS
  <2>1. HPlain
    BY PlainStarts
  <2>2. UnreadOf(queue) = {} /\ InHand = {} /\ FitsWindow(queue)
    <3>1. \A x \in Requests : queue[x] = <<>> /\ call[x] = "asked"
      BY DEF H2Init
    <3>2. \A x \in Requests : DOMAIN queue[x] = {}
      BY <3>1
    <3>. QED
      BY <3>1, <3>2 DEF UnreadOf, DataAt, InHand, FitsWindow
  <2>3. IsFiniteSet({}) /\ Cardinality({}) = 0
    BY FS_EmptySet
  <2>4. InEvent = 0 /\ credit = Credit
    BY DEF H2Init, InEvent, NoEvent
  <2>. QED
    BY <2>1, <2>2, <2>3, <2>4, CreditAssumption DEF HInv, Balance
<1>2. HInv /\ [H2Next]_h2Vars => HInv'
  BY H2Plain, H2Balance DEF HInv
<1>. QED
  BY <1>1, <1>2, PTL DEF H2Spec

(* A body that ended without an error is whole, or its connection went down,  *)
(* and every chunk's credit comes back while nobody abandons a response       *)
(* (_iter_body, _handle, _fail_pending and acknowledge of client.py).         *)
THEOREM ResponsesWhole == H2Spec => [](WholeOrRaised /\ CreditComesBack)
<1>1. HInv => WholeOrRaised /\ CreditComesBack
  <2>. SUFFICES ASSUME HInv PROVE WholeOrRaised /\ CreditComesBack
    OBVIOUS
  <2>1. WholeOrRaised
    BY DEF HInv, HPlain, HRequests, EndIsTold, WholeOrRaised
  <2>2. Unread = UnreadOf(queue)
    BY DEF Unread, UnreadOf, DataAt
  <2>3. CreditComesBack
    BY <2>2 DEF HInv, NoneLost, Balance, InEvent, CreditComesBack
  <2>. QED
    BY <2>1, <2>3
<1>. QED
  BY <1>1, ClientH2Invariant, PTL

-----------------------------------------------------------------------------
(* A client assembled from middleware: any callers, URLs, cookies and hops.   *)
LEMMA PrefixIs ==
  ASSUME NEW s \in Seq(STRING), NEW t \in Seq(STRING), IsPrefix(s, t)
  PROVE  Len(s) <= Len(t) /\ \A k \in 1 .. Len(s) : s[k] = t[k]
<1>1. Len(s) \in Nat /\ Len(t) \in Nat /\ Len(s) <= Len(t) /\ SubSeq(s, 1, Len(s)) = SubSeq(t, 1, Len(s))
  BY DEF IsPrefix
<1>2. \A k \in 1 .. Len(s) : SubSeq(s, 1, Len(s))[k] = s[k]
  BY <1>1
<1>3. \A k \in 1 .. Len(s) : SubSeq(t, 1, Len(s))[k] = t[k]
  BY <1>1
<1>. QED
  BY <1>1, <1>2, <1>3

LEMMA WithinItself == ASSUME NEW s \in Seq(STRING) PROVE HostWithin(s, s)
<1>1. Len(Reverse(s)) = Len(s) /\ Len(s) \in Nat
  BY DEF Reverse
<1>. QED
  BY <1>1 DEF HostWithin, IsSuffix, IsPrefix

(* Whatever path a cookie matches is below the cookie's.                      *)
LEMMA MatchesBelow ==
  ASSUME NEW path \in Seq(STRING), NEW c, c.path \in Seq(STRING), PathMatches(path, c)
  PROVE  Below(path, c.path)
<1>. DEFINE above == c.path
            n == Len(above)
<1>1. CASE path = above
  BY <1>1 DEF Below
<1>2. CASE path # above
  <2>1. IsPrefix(above, path) /\ (above[n] = "/" \/ path[n + 1] = "/")
    BY <1>2 DEF PathMatches, IsStrictPrefix, Last
  <2>2. n \in Nat /\ n <= Len(path) /\ Len(path) \in Nat /\ DOMAIN above = 1 .. n /\ DOMAIN path = 1 .. Len(path)
        /\ \A k \in 1 .. n : above[k] = path[k]
    BY <2>1, PrefixIs
  <2>3. n # Len(path)
    BY <1>2, <2>2
  <2>. HIDE DEF n
  <2>4. ASSUME NEW i \in 1 .. n, NEW j \in 1 .. n, i <= j, IsSegment(above, i, j)
        PROVE  /\ j \in 1 .. Len(path) /\ IsSegment(path, i, j)
               /\ \A k \in i .. j : path[k] = above[k]
    <3>1. \A k \in i .. j : k \in 1 .. n /\ path[k] = above[k] /\ path[k] # "/"
      BY <2>2, <2>4 DEF IsSegment
    <3>2. i = 1 \/ path[i - 1] = "/"
      <4>1. CASE i # 1
        <5>1. i - 1 \in 1 .. n
          BY <2>2, <4>1
        <5>. QED
          BY <2>2, <2>4, <4>1, <5>1 DEF IsSegment
      <4>. QED
        BY <4>1
    <3>3. j = Len(path) \/ path[j + 1] = "/"
      <4>1. CASE j = n
        <5>1. j \in i .. j /\ above[n] # "/"
          BY <2>2, <2>4, <3>1, <4>1
        <5>. QED
          BY <2>1, <4>1, <5>1
      <4>2. CASE j # n
        <5>1. j + 1 \in 1 .. n /\ j # Len(above)
          BY <2>2, <4>2 DEF n
        <5>. QED
          BY <2>2, <2>4, <5>1 DEF IsSegment
      <4>. QED
        BY <4>1, <4>2
    <3>4. j \in 1 .. Len(path)
      BY <2>2
    <3>. QED
      BY <3>1, <3>2, <3>3, <3>4 DEF IsSegment
  <2>. QED
    BY <2>2, <2>4 DEF Below
<1>. QED
  BY <1>1, <1>2

(* The default path is one, since some slash of a path is its last.           *)
LEMMA DefaultIsPath ==
  ASSUME NEW path \in Seq(STRING), Len(path) > 0, path[1] = "/"
  PROVE  DefaultPath(path) \in Seq(STRING)
<1>. DEFINE n == Len(path)
            S == {i \in DOMAIN path : path[i] = "/"}
            D == {n - i : i \in S}
<1>1. n \in Nat /\ DOMAIN path = 1 .. n /\ 1 \in S
  OBVIOUS
<1>2. D \subseteq Nat /\ D # {}
  BY <1>1
<1>. HIDE DEF D
<1>3. PICK d \in D : \A e \in D : d <= e
  BY <1>2, HasLeast
<1>4. PICK i \in S : d = n - i
  BY DEF D
<1>5. \A k \in S : n - k \in D /\ k \in 1 .. n
  BY <1>1 DEF D
<1>. HIDE DEF n
<1>6. \A k \in S : i >= k
  BY <1>1, <1>3, <1>4, <1>5
<1>7. Max(S) \in S
  BY <1>6 DEF Max
<1>. DEFINE m == Max(S)
<1>8. m \in 1 .. n
  BY <1>5, <1>7
<1>. HIDE DEF m
<1>9. SubSeq(path, 1, m - 1) \in Seq(STRING)
  <2>1. m - 1 \in 0 .. Len(path) /\ m - 1 <= Len(path)
    BY <1>1, <1>8 DEF n
  <2>2. \A k \in 1 .. m - 1 : k \in 1 .. Len(path) /\ path[k] \in STRING
    BY <2>1
  <2>. QED
    BY <2>1, <2>2
<1>10. Slash \in Seq(STRING)
  BY DEF Slash
<1>. QED
  BY <1>9, <1>10 DEF DefaultPath, m, S

-----------------------------------------------------------------------------
(* What is in the jar was fairly set, what a request carries matches it, and  *)
(* what is private has not left its origin.                                   *)
CookieShapes == [domain : Seq(STRING), path : Seq(STRING), secure : BOOLEAN, hostOnly : BOOLEAN,
                 expires : Int, by : Urls \cup {ByHand}]
CookieFits(url, c) ==
    /\ FairlySet(c) /\ HostWithin(url.host, c.domain)
    /\ c.hostOnly => url.host = c.domain
    /\ Below(url.path, c.path)
    /\ c.secure => url.scheme = "https"
Shapes == [at : {"idle", "out", "closing", "answered"}, home : Urls \cup {NoTarget},
           url : Urls \cup {NoTarget}, method : Methods \cup {"GET"}, private : BOOLEAN,
           framed : BOOLEAN, carried : SUBSET CookieShapes, hops : Nat]
RequestHolds(x, open) ==
    /\ x.at # "idle" => x.url \in Urls
    /\ x.private => Origin(x.url) = Origin(x.home)
    /\ \A c \in x.carried : CookieFits(x.url, c)
    /\ x.method = "GET" => ~x.framed
    /\ open = IF x.at \in {"closing", "answered"} THEN 1 ELSE 0
JarHolds(jar) == jar \subseteq CookieShapes /\ \A c \in jar : FairlySet(c)
CmInv ==
    /\ JarHolds(cookieJar)
    /\ exchange \in [Askers -> Shapes] /\ openBodies \in [Askers -> Nat] /\ unparsed \in [Askers -> Nat]
    /\ \A u \in Askers : RequestHolds(exchange[u], openBodies[u] - unparsed[u])

LEMMA UrlIs ==
  ASSUME NEW url \in Urls
  PROVE  /\ url.scheme \in {"http", "https"} /\ url.host \in Seq(STRING) /\ url.path \in Seq(STRING)
         /\ Len(url.path) > 0 /\ url.path[1] = "/"
BY MiddlewareAssumption

LEMMA ParsedIs ==
  ASSUME NEW header \in SetCookies, NEW url \in Urls
  PROVE  ParsedCookie(header, url) \in CookieShapes
<1>. DEFINE c == ParsedCookie(header, url)
<1>1. header.domain \in Seq(STRING) /\ header.path \in Seq(STRING) /\ header.secure \in BOOLEAN /\ header.expires \in Int
  BY MiddlewareAssumption
<1>2. DefaultPath(url.path) \in Seq(STRING) /\ url.host \in Seq(STRING)
  BY UrlIs, DefaultIsPath
<1>3. (IF header.domain = <<>> THEN url.host ELSE header.domain) \in Seq(STRING)
      /\ (IF header.path = <<>> THEN DefaultPath(url.path) ELSE header.path) \in Seq(STRING)
  BY <1>1, <1>2
<1>4. (header.domain = <<>>) \in BOOLEAN
  OBVIOUS
<1>. QED
  BY <1>1, <1>3, <1>4 DEF ParsedCookie, CookieShapes

LEMMA StoredHolds ==
  ASSUME NEW jar, JarHolds(jar), NEW header \in SetCookies, NEW url \in Urls
  PROVE  JarHolds(Stored(jar, url, header)) /\ JarHolds(Alive(jar))
<1>. DEFINE c == ParsedCookie(header, url)
            refuses == \/ header.domain # <<>> /\ ~DomainAcceptable(url.host, header.domain)
                       \/ header.secure /\ url.scheme # "https"
<1>1. c \in CookieShapes
  BY ParsedIs
<1>2. ~refuses => FairlySet(c)
  <2>. SUFFICES ASSUME ~refuses PROVE FairlySet(c)
    OBVIOUS
  <2>1. c.domain = (IF header.domain = <<>> THEN url.host ELSE header.domain) /\ c.secure = header.secure
        /\ c.by = url /\ c.hostOnly = (header.domain = <<>>)
    BY DEF ParsedCookie
  <2>. HIDE DEF c
  <2>. QED
    BY <2>1 DEF FairlySet, DomainAcceptable
<1>3. JarHolds(Alive(jar)) /\ Alive(jar) \subseteq jar
  BY DEF JarHolds, Alive
<1>4. Stored(jar, url, header) \subseteq Alive(jar) \cup {c}
      /\ (refuses => Stored(jar, url, header) \subseteq Alive(jar))
  BY DEF Stored
<1>. HIDE DEF c, refuses
<1>. QED
  BY <1>1, <1>2, <1>3, <1>4 DEF JarHolds

LEMMA MatchingFits ==
  ASSUME JarHolds(cookieJar), NEW url \in Urls
  PROVE  Matching(url) \subseteq CookieShapes /\ \A c \in Matching(url) : CookieFits(url, c)
<1>1. ASSUME NEW c \in Matching(url) PROVE c \in CookieShapes /\ CookieFits(url, c)
  <2>1. c \in CookieShapes /\ FairlySet(c) /\ DomainMatches(url.host, c) /\ PathMatches(url.path, c)
        /\ (url.scheme = "https" \/ ~c.secure)
    BY DEF Matching, Alive, JarHolds
  <2>2. c.path \in Seq(STRING) /\ c.domain \in Seq(STRING) /\ url.path \in Seq(STRING) /\ url.host \in Seq(STRING)
    BY <2>1, UrlIs DEF CookieShapes
  <2>3. Below(url.path, c.path)
    BY <2>1, <2>2, MatchesBelow
  <2>4. HostWithin(url.host, c.domain) /\ (c.hostOnly => url.host = c.domain)
    BY <2>1, <2>2, WithinItself DEF DomainMatches
  <2>. QED
    BY <2>1, <2>3, <2>4 DEF CookieFits
<1>. QED
  BY <1>1

LEMMA NoRequestHolds == NoRequestYet \in Shapes /\ RequestHolds(NoRequestYet, 0)
BY DEF NoRequestYet, Shapes, RequestHolds

(* One caller moves, and the jar.                                             *)
LEMMA OneMoves ==
  ASSUME CmInv, JarHolds(cookieJar'), NEW u \in Askers, NEW x \in Shapes, NEW n \in Nat, NEW m \in Nat,
         RequestHolds(x, n - m), exchange' = [exchange EXCEPT ![u] = x],
         openBodies' = [openBodies EXCEPT ![u] = n], unparsed' = [unparsed EXCEPT ![u] = m]
  PROVE  CmInv'
BY DEF CmInv

LEMMA GoesOutHolds ==
  ASSUME CmInv, NEW u \in Askers, NEW x \in Shapes, NEW n, x.url \in Urls, x.private => Origin(x.url) = Origin(x.home),
         x.method = "GET" => ~x.framed, GoesOut(u, x)
  PROVE  \E y \in Shapes : exchange' = [exchange EXCEPT ![u] = y] /\ RequestHolds(y, 0)
<1>. DEFINE y == [x EXCEPT !.at = "out", !.carried = Matching(x.url)]
<1>1. exchange' = [exchange EXCEPT ![u] = y]
  BY DEF GoesOut
<1>2. Matching(x.url) \subseteq CookieShapes /\ \A c \in Matching(x.url) : CookieFits(x.url, c)
  BY MatchingFits DEF CmInv
<1>3. y \in Shapes /\ y.at = "out" /\ y.carried = Matching(x.url) /\ y.url = x.url /\ y.home = x.home
      /\ y.private = x.private /\ y.method = x.method /\ y.framed = x.framed
  BY <1>2 DEF Shapes
<1>. HIDE DEF y
<1>4. RequestHolds(y, 0)
  BY <1>2, <1>3 DEF RequestHolds
<1>. QED
  BY <1>1, <1>3, <1>4

LEMMA BodiesSame ==
  ASSUME CmInv, NEW u \in Askers
  PROVE  /\ openBodies[u] \in Nat /\ openBodies = [openBodies EXCEPT ![u] = openBodies[u]]
         /\ unparsed[u] \in Nat /\ unparsed = [unparsed EXCEPT ![u] = unparsed[u]]
BY DEF CmInv

LEMMA AsksHolds == ASSUME CmInv, NEW u \in Askers, Asks(u) PROVE CmInv'
<1>1. PICK url \in Urls, method \in Methods :
        GoesOut(u, [NoRequestYet EXCEPT !.home = url, !.url = url, !.private = TRUE,
                                        !.method = method, !.framed = method = "POST"])
  BY DEF Asks
<1>. DEFINE x == [NoRequestYet EXCEPT !.home = url, !.url = url, !.private = TRUE,
                                      !.method = method, !.framed = method = "POST"]
<1>2. x \in Shapes /\ x.url = url /\ x.home = url /\ x.method = method /\ x.framed = (method = "POST")
  BY DEF NoRequestYet, Shapes
<1>3. GoesOut(u, x)
  BY <1>1
<1>. HIDE DEF x
<1>4. PICK y \in Shapes : exchange' = [exchange EXCEPT ![u] = y] /\ RequestHolds(y, 0)
  BY <1>2, <1>3, GoesOutHolds
<1>5. /\ openBodies[u] - unparsed[u] = 0 /\ openBodies' = openBodies /\ unparsed' = unparsed
      /\ cookieJar' = cookieJar /\ JarHolds(cookieJar)
  BY DEF Asks, CmInv, RequestHolds
<1>. QED
  BY <1>4, <1>5, BodiesSame, OneMoves

Turned(x, t, p, f, m, h) ==
    [x EXCEPT !.at = "closing", !.url = t, !.hops = h, !.carried = {}, !.private = p, !.method = m, !.framed = f]

LEMMA TurnedShape ==
  ASSUME NEW x \in Shapes, NEW t \in Urls, NEW p \in BOOLEAN, NEW f \in BOOLEAN, NEW m \in Methods \cup {"GET"},
         NEW h \in Nat
  PROVE  LET y == Turned(x, t, p, f, m, h)
         IN  /\ y \in Shapes /\ y.at = "closing" /\ y.url = t /\ y.carried = {} /\ y.private = p
             /\ y.method = m /\ y.framed = f /\ y.home = x.home
BY DEF Shapes, Turned

LEMMA AnswersHolds == ASSUME CmInv, NEW u \in Askers, Answers(u) PROVE CmInv'
<1>. DEFINE x == exchange[u]
            n == openBodies[u]
            m == unparsed[u]
<1>1. x \in Shapes /\ RequestHolds(x, n - m) /\ x.at = "out" /\ x.url \in Urls /\ n - m = 0
      /\ JarHolds(cookieJar)
  BY DEF Answers, CmInv, RequestHolds
<1>0. /\ n \in Nat /\ m \in Nat /\ n + 1 \in Nat /\ m + 1 \in Nat /\ (n + 1) - m = 1 /\ (n + 1) - (m + 1) = 0
      /\ unparsed = [unparsed EXCEPT ![u] = m] /\ openBodies' = [openBodies EXCEPT ![u] = n + 1]
  BY <1>1, BodiesSame DEF Answers
<1>. HIDE DEF n, m
<1>2. JarHolds(cookieJar')
  <2>1. CASE cookieJar' = Alive(cookieJar)
    BY <1>1, <2>1 DEF JarHolds, Alive
  <2>2. ASSUME NEW header \in SetCookies, cookieJar' = Stored(cookieJar, x.url, header) PROVE JarHolds(cookieJar')
    BY <1>1, <2>2, StoredHolds
  <2>. QED
    BY <2>1, <2>2 DEF Answers
<1>6. ASSUME NEW y \in Shapes, RequestHolds(y, 1), exchange' = [exchange EXCEPT ![u] = y], unparsed' = unparsed
      PROVE  CmInv'
  <2>1. RequestHolds(y, (n + 1) - m)
    BY <1>0, <1>6
  <2>2. unparsed' = [unparsed EXCEPT ![u] = m]
    BY <1>0, <1>6
  <2>3. m \in Nat /\ n + 1 \in Nat /\ openBodies' = [openBodies EXCEPT ![u] = n + 1]
    BY <1>0
  <2>. QED
    BY <1>2, <1>6, <2>1, <2>2, <2>3, OneMoves
<1>3. CASE exchange' = [exchange EXCEPT ![u].at = "answered"] /\ unparsed' = unparsed
  <2>. DEFINE y == [x EXCEPT !.at = "answered"]
  <2>1. y \in Shapes /\ y.at = "answered" /\ y.url = x.url /\ y.private = x.private /\ y.home = x.home
        /\ y.carried = x.carried /\ y.method = x.method /\ y.framed = x.framed
    BY <1>1 DEF Shapes
  <2>2. exchange' = [exchange EXCEPT ![u] = y]
    BY <1>3
  <2>. HIDE DEF y
  <2>4. RequestHolds(y, 1)
    BY <1>1, <2>1 DEF RequestHolds
  <2>. QED
    BY <2>1, <2>2, <2>4, <1>6, <1>3
<1>4. ASSUME NEW status \in {302, 303}, NEW target \in Urls,
             exchange' = [exchange EXCEPT ![u] = Redirected(@, status, target)],
             unparsed' = unparsed
      PROVE  CmInv'
  <2>. DEFINE y == Redirected(x, status, target)
              leaves == LeavesOrigin(x.url, target)
              fetches == status = 303 /\ x.method # "GET"
  <2>1. /\ y.at = "closing" /\ y.url = target /\ y.carried = {} /\ y.private = (x.private /\ ~leaves)
        /\ y.method = (IF fetches THEN "GET" ELSE x.method) /\ y.framed = (x.framed /\ ~fetches) /\ y.home = x.home
        /\ y \in Shapes
    <3>1. x.hops + 1 \in Nat /\ (IF fetches THEN "GET" ELSE x.method) \in Methods \cup {"GET"}
      <4>. HIDE DEF x, fetches
      <4>. QED
        BY <1>1 DEF Shapes
    <3>2. y = [x EXCEPT !.at = "closing", !.url = target, !.hops = x.hops + 1, !.carried = {},
                        !.private = x.private /\ ~leaves,
                        !.method = IF fetches THEN "GET" ELSE x.method,
                        !.framed = x.framed /\ ~fetches]
      BY DEF Redirected
    <3>3. (x.private /\ ~leaves) \in BOOLEAN /\ (x.framed /\ ~fetches) \in BOOLEAN
      OBVIOUS
    <3>. HIDE DEF x, y, leaves, fetches
    <3>4. PICK p \in BOOLEAN, f \in BOOLEAN : p = (x.private /\ ~leaves) /\ f = (x.framed /\ ~fetches)
      BY <3>3
    <3>5. PICK meth \in Methods \cup {"GET"}, h \in Nat : meth = (IF fetches THEN "GET" ELSE x.method) /\ h = x.hops + 1
      BY <3>1
    <3>6. y = Turned(x, target, p, f, meth, h)
      BY <3>2, <3>4, <3>5, Zenon DEF Turned
    <3>7. /\ y \in Shapes /\ y.at = "closing" /\ y.url = target /\ y.carried = {} /\ y.private = p
          /\ y.method = meth /\ y.framed = f /\ y.home = x.home
      <4>1. x \in Shapes
        BY <1>1
      <4>2. p \in BOOLEAN /\ f \in BOOLEAN /\ meth \in Methods \cup {"GET"} /\ h \in Nat
        BY <3>4, <3>5
      <4>. QED
        BY <4>1, <4>2, <3>6, TurnedShape
    <3>. QED
      BY <3>4, <3>5, <3>7
  <2>2. exchange' = [exchange EXCEPT ![u] = y]
    BY <1>1, <1>4
  <2>3. y.private => Origin(y.url) = Origin(y.home)
    <3>. HIDE DEF x, y
    <3>. SUFFICES ASSUME y.private PROVE Origin(y.url) = Origin(y.home)
      OBVIOUS
    <3>1. x.private /\ ~leaves
      BY <2>1
    <3>2. Origin(x.url) = Origin(x.home) /\ Origin(target) = Origin(x.url)
      BY <1>1, <3>1 DEF RequestHolds, LeavesOrigin
    <3>. QED
      BY <2>1, <3>2
  <2>4. y.method = "GET" => ~y.framed
    BY <1>1, <2>1 DEF RequestHolds
  <2>. HIDE DEF y
  <2>5. RequestHolds(y, 1)
    BY <2>1, <2>3, <2>4 DEF RequestHolds
  <2>. QED
    BY <2>1, <2>2, <2>5, <1>6, <1>4
<1>5. CASE exchange' = [exchange EXCEPT ![u] = NoRequestYet] /\ unparsed' = [unparsed EXCEPT ![u] = @ + 1]
  <2>1. unparsed' = [unparsed EXCEPT ![u] = m + 1]
    BY <1>5 DEF m
  <2>. QED
    BY <1>0, <1>2, <1>5, <2>1, NoRequestHolds, OneMoves
<1>. QED
  BY <1>3, <1>4, <1>5 DEF Answers

LEMMA TurnsHolds == ASSUME CmInv, NEW u \in Askers, TurnsTo(u) PROVE CmInv'
<1>. DEFINE x == exchange[u]
            n == openBodies[u]
            m == unparsed[u]
<1>1. x \in Shapes /\ RequestHolds(x, n - m) /\ x.at = "closing" /\ x.url \in Urls /\ n - m = 1
      /\ JarHolds(cookieJar')
  BY DEF TurnsTo, CmInv, RequestHolds
<1>0. /\ m \in Nat /\ n - 1 \in Nat /\ (n - 1) - m = 0
      /\ unparsed' = [unparsed EXCEPT ![u] = m] /\ openBodies' = [openBodies EXCEPT ![u] = n - 1]
  BY <1>1, BodiesSame DEF TurnsTo
<1>. HIDE DEF n, m
<1>2. CASE GoesOut(u, x)
  <2>1. PICK y \in Shapes : exchange' = [exchange EXCEPT ![u] = y] /\ RequestHolds(y, 0)
    BY <1>1, <1>2, GoesOutHolds DEF RequestHolds
  <2>. QED
    BY <1>0, <1>1, <2>1, OneMoves
<1>3. CASE exchange' = [exchange EXCEPT ![u] = NoRequestYet]
  BY <1>0, <1>1, <1>3, NoRequestHolds, OneMoves
<1>. QED
  BY <1>2, <1>3 DEF TurnsTo

LEMMA OverHolds == ASSUME CmInv, NEW u \in Askers, Fails(u) \/ LeavesBlock(u) PROVE CmInv'
<1>1. exchange' = [exchange EXCEPT ![u] = NoRequestYet] /\ JarHolds(cookieJar') /\ unparsed' = unparsed
  BY DEF Fails, LeavesBlock, CmInv
<1>2. PICK n \in Nat : openBodies' = [openBodies EXCEPT ![u] = n] /\ n - unparsed[u] = 0
  <2>1. CASE Fails(u)
    <3>1. openBodies[u] - unparsed[u] = 0 /\ openBodies' = openBodies
      BY <2>1 DEF Fails, CmInv, RequestHolds
    <3>. QED
      BY <3>1, BodiesSame
  <2>2. CASE LeavesBlock(u)
    <3>1. openBodies' = [openBodies EXCEPT ![u] = openBodies[u] - 1] /\ openBodies[u] - unparsed[u] = 1
      BY <2>2 DEF LeavesBlock, CmInv, RequestHolds
    <3>2. openBodies[u] - 1 \in Nat /\ (openBodies[u] - 1) - unparsed[u] = 0
      BY <3>1, BodiesSame
    <3>. QED
      BY <3>1, <3>2
  <2>. QED
    BY <2>1, <2>2
<1>. QED
  BY <1>1, <1>2, BodiesSame, NoRequestHolds, OneMoves

THEOREM MiddlewareInvariant == CmSpec => []CmInv
<1>1. CmInit => CmInv
  <2>. SUFFICES ASSUME CmInit PROVE CmInv
    OBVIOUS
  <2>1. HandCookies \subseteq CookieShapes /\ \A c \in HandCookies : c.by = ByHand
    BY MiddlewareAssumption DEF CookieShapes
  <2>2. JarHolds(cookieJar)
    BY <2>1 DEF CmInit, JarHolds, FairlySet
  <2>. QED
    BY <2>2, NoRequestHolds DEF CmInit, CmInv
<1>2. CmInv /\ [CmNext]_cmVars => CmInv'
  <2>. SUFFICES ASSUME CmInv, [CmNext]_cmVars PROVE CmInv'
    OBVIOUS
  <2>1. CASE UNCHANGED cmVars \/ JarTick
    BY <2>1 DEF cmVars, JarTick, CmInv
  <2>2. ASSUME NEW u \in Askers, Asks(u) \/ Answers(u) \/ TurnsTo(u) \/ Fails(u) \/ LeavesBlock(u) PROVE CmInv'
    BY <2>2, AsksHolds, AnswersHolds, TurnsHolds, OverHolds
  <2>. QED
    BY <2>1, <2>2 DEF CmNext
<1>. QED
  BY <1>1, <1>2, PTL DEF CmSpec

(* Whatever redirects a caller is sent on and whoever sets cookies meanwhile,  *)
(* its credentials reach the origin they were meant for and no other, a cookie *)
(* goes where its setter could have it sent (follow_redirects, cookies and    *)
(* CookieJar of client.py), and the bodies left open are those of the calls   *)
(* that raised on a location, one for each (client.py:1603).                  *)
THEOREM SecretsStayHome == CmSpec => []CredentialsStayHome
<1>1. CmInv => CredentialsStayHome
  BY DEF CmInv, RequestHolds, CookieFits, CredentialsStayHome
<1>. QED
  BY <1>1, MiddlewareInvariant, PTL
=============================================================================
