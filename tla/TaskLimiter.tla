---------------------------- MODULE TaskLimiter ----------------------------
(* limit_concurrency and cancel_futures (without_async/tasks.py): jobs pulled *)
(* from a lazy source, a bounded number in flight, each handed over when it   *)
(* ends, and what is left torn down on the way out.                           *)
EXTENDS Naturals, FiniteSets

CONSTANTS Jobs, JobLimit

ASSUME LimiterAssumption == IsFiniteSet(Jobs) /\ JobLimit \in Nat \ {0}

VARIABLES
    loop,       \* where the iteration is
    fate,       \* Jobs -> what has become of the awaitable
    pending,    \* the iteration's set of futures in flight
    batch,      \* `done`: finished, still to be yielded
    yielded,    \* jobs handed to the consumer
    asked,      \* jobs told to cancel
    unwaited,   \* futures cancel_futures has still to await
    outcome     \* how the iteration ended

limiterVars == <<loop, fate, pending, batch, yielded, asked, unwaited, outcome>>

Running == {j \in Jobs : fate[j] = "running"}
Ended == {j \in Jobs : fate[j] \in {"returned", "raised", "cancelled"}}

LimiterInit ==
    /\ loop = "filling"
    /\ fate = [j \in Jobs |-> "unborn"]
    /\ pending = {}
    /\ batch = {}
    /\ yielded = {}
    /\ asked = {}
    /\ unwaited = {}
    /\ outcome = "none"

-----------------------------------------------------------------------------
(* anext(source): only with room, and it may take its time.                   *)
PullsJob(j) ==
    /\ loop = "filling" /\ Cardinality(pending) < JobLimit
    /\ fate[j] = "unborn"
    /\ fate' = [fate EXCEPT ![j] = "running"]
    /\ pending' = pending \cup {j}
    /\ UNCHANGED <<loop, batch, yielded, asked, unwaited, outcome>>

(* The source has ended: what is in flight is waited for, nothing else pulled.*)
SourceEnds ==
    /\ loop = "filling" /\ Cardinality(pending) < JobLimit
    /\ \A j \in Jobs : fate[j] # "unborn"
    /\ loop' = IF pending = {} THEN "over" ELSE "waiting"
    /\ outcome' = IF pending = {} THEN "exhausted" ELSE outcome
    /\ UNCHANGED <<fate, pending, batch, yielded, asked, unwaited>>

Full ==
    /\ loop = "filling" /\ Cardinality(pending) = JobLimit
    /\ loop' = "waiting"
    /\ UNCHANGED <<fate, pending, batch, yielded, asked, unwaited, outcome>>

Ends(j) ==
    /\ fate[j] = "running" /\ loop # "over"
    /\ \E end \in {"returned", "raised"} \cup (IF j \in asked THEN {"cancelled"} ELSE {}) :
        fate' = [fate EXCEPT ![j] = end]
    /\ UNCHANGED <<loop, pending, batch, yielded, asked, unwaited, outcome>>

(* asyncio.wait(FIRST_COMPLETED): every one that is done by then.             *)
Woken ==
    /\ loop = "waiting" /\ pending \cap Ended # {}
    /\ loop' = "yielding"
    /\ batch' = pending \cap Ended
    /\ pending' = pending \ Ended
    /\ UNCHANGED <<fate, yielded, asked, unwaited, outcome>>

(* One is yielded; the consumer comes back for the next, and after the last   *)
(* for more jobs.                                                             *)
HandsOver(j) ==
    /\ loop = "yielding" /\ j \in batch
    /\ yielded' = yielded \cup {j}
    /\ batch' = batch \ {j}
    /\ loop' = IF batch = {j} THEN "filling" ELSE "yielding"
    /\ UNCHANGED <<fate, pending, asked, unwaited, outcome>>

(* Closed by the consumer, cancelled at an await, or failed by the source:    *)
(* the finally cancels all that is pending before it awaits any of it.        *)
TearsDown ==
    /\ loop \in {"filling", "waiting", "yielding"}
    /\ loop' = "closing"
    /\ asked' = pending \cap Running
    /\ unwaited' = pending
    /\ UNCHANGED <<fate, pending, batch, yielded, outcome>>

(* cancel_futures awaits them one at a time.  A cancellation is swallowed;    *)
(* any other failure ends the loop there, and with it the iteration.          *)
Awaits(j) ==
    /\ loop = "closing" /\ j \in unwaited \cap Ended
    /\ IF fate[j] = "raised"
       THEN loop' = "over" /\ outcome' = "teardown failed" /\ UNCHANGED unwaited
       ELSE unwaited' = unwaited \ {j} /\ UNCHANGED <<loop, outcome>>
    /\ UNCHANGED <<fate, pending, batch, yielded, asked>>

TornAway ==
    /\ loop = "closing" /\ unwaited = {}
    /\ loop' = "over" /\ outcome' = "closed"
    /\ UNCHANGED <<fate, pending, batch, yielded, asked, unwaited>>

LimiterNext ==
    \/ SourceEnds \/ Full \/ Woken \/ TearsDown \/ TornAway
    \/ \E j \in Jobs : PullsJob(j) \/ Ends(j) \/ HandsOver(j) \/ Awaits(j)

LimiterSpec == LimiterInit /\ [][LimiterNext]_limiterVars

-----------------------------------------------------------------------------
LimiterTypeOK ==
    /\ loop \in {"filling", "waiting", "yielding", "closing", "over"}
    /\ fate \in [Jobs -> {"unborn", "running", "returned", "raised", "cancelled"}]
    /\ pending \subseteq Jobs
    /\ batch \subseteq Jobs
    /\ yielded \subseteq Jobs
    /\ asked \subseteq Jobs
    /\ unwaited \subseteq Jobs
    /\ outcome \in {"none", "exhausted", "closed", "teardown failed"}

(* The source is never advanced past the limit: what was pulled and has not   *)
(* been handed over or torn down is in the one set that is counted.  A job    *)
(* outlives the iteration only behind another whose failure ended the         *)
(* teardown, and it has been told to stop by then.  An iteration that runs    *)
(* out has handed over every job of its source.                               *)
PulledIsAccountedFor ==
    /\ Running \subseteq pending /\ Cardinality(pending) <= JobLimit
    /\ loop = "over" /\ Running # {} =>
        /\ outcome = "teardown failed"
        /\ Running \subseteq asked \cap unwaited
    /\ outcome = "exhausted" => yielded = Jobs
=============================================================================
