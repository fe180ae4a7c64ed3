----------------------------- MODULE DagDriver -----------------------------
(* A workflow written as a graph: `drive` (without_dag/execution.py) runs the *)
(* nodes, and `run_durably` (without_durability/graph.py) pulls its results   *)
(* one at a time and records each before it pulls the next.  A pass may fail, *)
(* be cancelled or die anywhere; the next one starts from what is recorded.   *)
(* The driver's loop is synchronous between two awaits, so no node finishes   *)
(* while the phase is "filling".                                              *)
EXTENDS Naturals, Sequences, FiniteSets

CONSTANTS
    Nodes,
    Entries,     \* the keys of the graph's inputs, supplied on every pass
    Deps,        \* Nodes -> the keys a node depends on
    NodeLimit    \* the plan's limit on nodes in flight

Keys == Nodes \cup Entries
DepsOf(k) == IF k \in Nodes THEN Deps[k] ELSE {}
Readers(k) == {n \in Nodes : k \in Deps[n]}

ASSUME DagAssumption ==
    /\ Nodes \cap Entries = {}
    /\ Deps \in [Nodes -> SUBSET Keys]
    /\ \A group \in (SUBSET Nodes) \ {{}} : \E n \in group : Deps[n] \cap group = {}
    /\ IsFiniteSet(Keys)
    /\ NodeLimit \in Nat \ {0}

VARIABLES
    phase,      \* where the pass is
    verdict,    \* how the last pass ended
    recorded,   \* the nodes whose result is in the store
    ready,      \* the deque of keys whose dependencies are done
    done,       \* what the sorter was told is done
    claimedBy,  \* Keys -> the readers that have captured or passed it over
    results,    \* the keys whose value is held in memory
    running,    \* nodes in flight
    completed,  \* the queue of futures that finished, in that order
    failed,     \* nodes in flight that raised
    starts      \* nodes this pass ran

dagVars == <<phase, verdict, recorded, ready, done, claimedBy, results, running,
             completed, failed, starts>>
volatile == <<ready, done, claimedBy, results, running, completed, failed, starts>>

DagInit ==
    /\ phase = "down"
    /\ verdict = "none"
    /\ recorded = {}
    /\ ready = {}
    /\ done = {}
    /\ claimedBy = [k \in Keys |-> {}]
    /\ results = {}
    /\ running = {}
    /\ completed = <<>>
    /\ failed = {}
    /\ starts = {}

-----------------------------------------------------------------------------
(* The sorter hands a key out once, when all it depends on is done.           *)
Unlocked(before, after) ==
    {k \in Keys : DepsOf(k) \subseteq after /\ ~ (DepsOf(k) \subseteq before)}

Pulls ==
    /\ phase = "down" /\ verdict # "whole"
    /\ phase' = "filling"
    /\ verdict' = "none"
    /\ ready' = {k \in Keys : DepsOf(k) = {}}
    /\ done' = {}
    /\ claimedBy' = [k \in Keys |-> {}]
    /\ results' = Entries \cup recorded
    /\ running' = {}
    /\ completed' = <<>>
    /\ failed' = {}
    /\ starts' = {}
    /\ UNCHANGED recorded

FreesEarly(k) == DepsOf(k)

(* release_dependencies: the result goes with the last key that reads it.     *)
Released(k) == {d \in DepsOf(k) : Readers(d) \subseteq claimedBy[d] \cup {k}}

Claims(k) == claimedBy' = [d \in Keys |-> IF d \in DepsOf(k) THEN claimedBy[d] \cup {k} ELSE claimedBy[d]]

Room == Cardinality(running) < NodeLimit

(* A supplied key is not run; it still gives up what it would have read.      *)
Skips(k) ==
    /\ phase = "filling" /\ k \in ready /\ Room
    /\ k \in results
    /\ results' = results \ Released(k)
    /\ Claims(k)
    /\ done' = done \cup {k}
    /\ ready' = (ready \ {k}) \cup Unlocked(done, done \cup {k})
    /\ UNCHANGED <<phase, verdict, recorded, running, completed, failed, starts>>

(* A node is started on the values its dependencies left.                    *)
Spawns(k) ==
    /\ phase = "filling" /\ k \in ready /\ Room
    /\ k \in Nodes \ results
    /\ results' = results \ Released(k)
    /\ Claims(k)
    /\ running' = running \cup {k}
    /\ starts' = starts \cup {k}
    /\ ready' = ready \ {k}
    /\ UNCHANGED <<phase, verdict, recorded, done, completed, failed>>

(* Nothing more to start: wait for a completion, or, nothing being in flight, *)
(* the run is over.                                                           *)
Fills ==
    /\ phase = "filling" /\ (ready = {} \/ ~Room)
    /\ IF running = {}
       THEN phase' = "down" /\ verdict' = "whole"
       ELSE phase' = "waiting" /\ UNCHANGED verdict
    /\ UNCHANGED <<recorded, volatile>>

InFlight == {n \in running : \A i \in DOMAIN completed : completed[i] # n}

Finishes(n) ==
    /\ phase \in {"waiting", "writing"} /\ n \in InFlight
    /\ completed' = Append(completed, n)
    /\ UNCHANGED <<phase, verdict, recorded, ready, done, claimedBy, results, running, failed, starts>>

Raises(n) ==
    /\ phase \in {"waiting", "writing"} /\ n \in InFlight
    /\ completed' = Append(completed, n)
    /\ failed' = failed \cup {n}
    /\ UNCHANGED <<phase, verdict, recorded, ready, done, claimedBy, results, running, starts>>

(* The next completion, in the order they came: a failure ends the run, a     *)
(* result unlocks its dependents and is handed to whoever iterates.           *)
Collects ==
    /\ phase = "waiting" /\ completed # <<>>
    /\ LET n == Head(completed) IN
        /\ running' = running \ {n}
        /\ completed' = Tail(completed)
        /\ \/ /\ n \in failed
              /\ phase' = "tearing" /\ verdict' = "failed"
              /\ UNCHANGED <<results, done, ready>>
           \/ /\ n \notin failed
              /\ phase' = "writing" /\ UNCHANGED verdict
              /\ results' = results \cup {n}
              /\ done' = done \cup {n}
              /\ ready' = ready \cup Unlocked(done, done \cup {n})
    /\ UNCHANGED <<recorded, claimedBy, failed, starts>>

-----------------------------------------------------------------------------
(* run_durably, at the result it was handed: the one done and not recorded.   *)
Fresh == (done \cap Nodes) \ recorded

Records ==
    /\ phase = "writing"
    /\ recorded' = recorded \cup Fresh
    /\ phase' = "filling"
    /\ UNCHANGED <<verdict, volatile>>

(* The store fences the pass or another recorded the node first: the stream   *)
(* is closed.  A cancellation waits for the write (`settled`), and a result   *)
(* that does not survive its codec is found out only once it is stored.       *)
Refused ==
    /\ phase = "writing"
    /\ phase' = "tearing" /\ verdict' = "refused"
    /\ UNCHANGED <<recorded, volatile>>

StoredAndStops ==
    /\ phase = "writing"
    /\ recorded' = recorded \cup Fresh
    /\ phase' = "tearing" /\ verdict' = "stopped"
    /\ UNCHANGED volatile

Cancelled ==
    /\ phase = "waiting"
    /\ phase' = "tearing" /\ verdict' = "stopped"
    /\ UNCHANGED <<recorded, volatile>>

(* drive's finally: every node in flight is cancelled, and all are waited     *)
(* for, whatever each of them ends with.                                      *)
Unwinds(n) ==
    /\ phase = "tearing" /\ n \in InFlight
    /\ completed' = Append(completed, n)
    /\ UNCHANGED <<phase, verdict, recorded, ready, done, claimedBy, results, running, failed, starts>>

TornDown ==
    /\ phase = "tearing" /\ InFlight = {}
    /\ phase' = "down"
    /\ running' = {}
    /\ UNCHANGED <<verdict, recorded, ready, done, claimedBy, results, completed, failed, starts>>

(* A second cancellation is the one thing that cuts the wait short: the nodes *)
(* in flight have been told to stop and nobody waits for them.                *)
WaitCutShort ==
    /\ phase = "tearing" /\ InFlight # {}
    /\ phase' = "down" /\ verdict' = "cut short"
    /\ UNCHANGED <<recorded, volatile>>

Dies ==
    /\ phase # "down"
    /\ phase' = "down" /\ verdict' = "died"
    /\ running' = {}
    /\ UNCHANGED <<recorded, ready, done, claimedBy, results, completed, failed, starts>>

DagNext ==
    \/ Pulls \/ Fills \/ Collects \/ Records \/ Refused \/ StoredAndStops
    \/ Cancelled \/ TornDown \/ WaitCutShort \/ Dies
    \/ \E k \in Keys : Skips(k) \/ Spawns(k)
    \/ \E n \in Nodes : Finishes(n) \/ Raises(n) \/ Unwinds(n)

DagSpec == DagInit /\ [][DagNext]_dagVars

-----------------------------------------------------------------------------
DagTypeOK ==
    /\ phase \in {"down", "filling", "waiting", "writing", "tearing"}
    /\ verdict \in {"none", "whole", "failed", "refused", "stopped", "cut short", "died"}
    /\ recorded \subseteq Nodes
    /\ ready \subseteq Keys
    /\ done \subseteq Keys
    /\ claimedBy \in [Keys -> SUBSET Keys]
    /\ results \subseteq Keys
    /\ running \subseteq Nodes
    /\ completed \in Seq(Nodes)
    /\ failed \subseteq Nodes
    /\ starts \subseteq Nodes

(* Whatever order the nodes finish in and however much of the graph was       *)
(* supplied, a value is in memory from when it is known until its last reader *)
(* has captured it, and no longer: no node finds an argument freed, and none  *)
(* is held for readers that will never come.  A value nobody reads is kept.   *)
HeldWhileRead ==
    /\ phase = "filling" => \A n \in (ready \cap Nodes) \ results : Deps[n] \subseteq results
    /\ phase \in {"filling", "waiting", "writing"} =>
        results = {k \in Entries \cup recorded \cup done :
                    Readers(k) = {} \/ \E n \in Readers(k) : n \notin done \cup running}

(* The record is a barrier: no node runs before everything it depends on is   *)
(* in the store, a recorded node is never run again, and so what any crash,   *)
(* failure or cancellation leaves is closed under ancestry.  A pass that ends *)
(* whole has recorded every node, and one whose end was not itself cut short  *)
(* leaves no node running.                                                    *)
RecordIsABarrier ==
    /\ \A n \in starts \cup recorded : Deps[n] \cap Nodes \subseteq recorded
    /\ running \cap recorded = {}
    /\ Cardinality(running) <= NodeLimit
    /\ phase = "down" /\ verdict # "cut short" => running = {}
    /\ verdict = "whole" => recorded = Nodes

(* Values live as long as they are read, and none is ahead of the store.      *)
DriveIsSound == HeldWhileRead /\ RecordIsABarrier
=============================================================================
