---------------------------- MODULE StreamWiring ----------------------------
(* How streams are joined within the loop (without_streams/wiring.py): spool, *)
(* a pump ahead of one consumer; tee, a pump before several; sample, a task   *)
(* that keeps the latest value.  Values come in order and queues are FIFO, so *)
(* counts stand for them.                                                     *)
EXTENDS Naturals, FiniteSets

CONSTANTS
    BranchCount, \* the sinks of tee
    Buffer,      \* the bound of every queue
    StreamSize,  \* values the source has before it ends
    Listeners      \* tasks that wait for Sample.updated

ASSUME WiringAssumption ==
    BranchCount \in Nat \ {0} /\ Buffer \in Nat \ {0} /\ StreamSize \in Nat

Branches == 1 .. BranchCount

VARIABLES
    mode,        \* which connector this is: a spool, or a tee
    pump,        \* the task that reads the source
    made,        \* values it has read
    placed,      \* Branches -> values put on the branch's queue
    got,         \* Branches -> values taken off it
    closedq,     \* the queues were shut down
    sink,        \* Branches -> the consumer of the branch
    scope,       \* the task group of tee, or the generator of spool
    value,       \* Sample: values published so far
    drain,       \* the task that publishes
    waiter       \* Listeners -> the future of its `updated`

wiringVars == <<mode, pump, made, placed, got, closedq, sink, scope>>
sampleVars == <<value, drain, waiter>>
streamVars == <<wiringVars, sampleVars>>

WiringInit ==
    /\ mode = "none"
    /\ pump = "reading"
    /\ made = 0
    /\ placed = [b \in Branches |-> 0]
    /\ got = [b \in Branches |-> 0]
    /\ closedq = FALSE
    /\ sink = [b \in Branches |-> "reading"]
    /\ scope = "open"

SampleInit ==
    /\ value = 1
    /\ drain = "reading"
    /\ waiter = [r \in Listeners |-> "none"]

StreamInit == WiringInit /\ SampleInit

-----------------------------------------------------------------------------
Queue(b) == placed[b] - got[b]
PumpOver == pump \in {"ended", "failed", "cancelled"}

(* A tee has all its branches; a spool has one, whose sink is the consumer.   *)
Wires(m) ==
    /\ mode = "none"
    /\ mode' = m
    /\ sink' = [b \in Branches |-> IF m = "tee" \/ b = 1 THEN "reading" ELSE "absent"]
    /\ UNCHANGED <<pump, made, placed, got, closedq, scope>>

Present == {b \in Branches : sink[b] # "absent"}

Reads ==
    /\ mode # "none" /\ pump = "reading" /\ made < StreamSize
    /\ made' = made + 1
    /\ pump' = "putting"
    /\ UNCHANGED <<mode, placed, got, closedq, sink, scope>>

(* put, to one queue after another; each waits while that queue is full.      *)
PutsTo(b) ==
    /\ pump = "putting" /\ b \in Present
    /\ placed[b] < made /\ Queue(b) < Buffer
    /\ \A c \in Present : c < b => placed[c] = made
    /\ placed' = [placed EXCEPT ![b] = @ + 1]
    /\ pump' = IF b + 1 \in Present THEN "putting" ELSE "reading"
    /\ UNCHANGED <<mode, made, got, closedq, sink, scope>>

(* The source ends or raises: the finally shuts the queues down either way.   *)
SourceOver ==
    /\ mode # "none" /\ pump = "reading"
    /\ \E how \in {"failed"} \cup (IF made = StreamSize THEN {"ended"} ELSE {}) : pump' = how
    /\ closedq' = TRUE
    /\ UNCHANGED <<mode, made, placed, got, sink, scope>>

PumpCancelled ==
    /\ scope \in {"aborting", "closing"} /\ ~PumpOver
    /\ pump' = "cancelled"
    /\ closedq' = TRUE
    /\ UNCHANGED <<mode, made, placed, got, sink, scope>>

(* stream_from_queue: what is left still drains; then the stream ends.        *)
Takes(b) ==
    /\ sink[b] = "reading" /\ Queue(b) > 0
    /\ got' = [got EXCEPT ![b] = @ + 1]
    /\ sink' = [sink EXCEPT ![b] = "working"]
    /\ UNCHANGED <<mode, pump, made, placed, closedq, scope>>

ComesBack(b) ==
    /\ sink[b] = "working"
    /\ sink' = [sink EXCEPT ![b] = "reading"]
    /\ UNCHANGED <<mode, pump, made, placed, got, closedq, scope>>

AtItsEnd(b) == closedq /\ Queue(b) = 0

StreamEnds(b) ==
    /\ mode # "none" /\ sink[b] = "reading" /\ AtItsEnd(b)
    /\ sink' = [sink EXCEPT ![b] = "returned"]
    /\ UNCHANGED <<mode, pump, made, placed, got, closedq, scope>>

SinkRaises(b) ==
    /\ sink[b] = "working"
    /\ sink' = [sink EXCEPT ![b] = "raised"]
    /\ UNCHANGED <<mode, pump, made, placed, got, closedq, scope>>

SinkCancelled(b) ==
    /\ scope = "aborting" /\ sink[b] \in {"reading", "working"}
    /\ sink' = [sink EXCEPT ![b] = "cancelled"]
    /\ UNCHANGED <<mode, pump, made, placed, got, closedq, scope>>

SinksOver == \A b \in Present : sink[b] \in {"returned", "raised", "cancelled"}

(* tee's task group: one failure cancels the rest, and all are waited for.    *)
GroupAborts ==
    /\ mode = "tee" /\ scope = "open"
    /\ pump = "failed" \/ \E b \in Present : sink[b] = "raised"
    /\ scope' = "aborting"
    /\ UNCHANGED <<mode, pump, made, placed, got, closedq, sink>>

GroupEnds ==
    /\ mode = "tee" /\ scope \in {"open", "aborting"} /\ PumpOver /\ SinksOver
    /\ scope' = IF \/ pump = "failed"
                   \/ \E b \in Present : sink[b] = "raised" THEN "raised" ELSE "left"
    /\ UNCHANGED <<mode, pump, made, placed, got, closedq, sink>>

(* spool: at the end of the queue, or closed early at the value the consumer  *)
(* holds, the pump is cancelled and awaited; the failure it may have ended in *)
(* surfaces there.                                                            *)
SpoolCloses ==
    /\ mode = "spool" /\ scope = "open"
    /\ \E b \in Present : sink[b] \in {"returned", "working", "raised"}
    /\ scope' = "closing"
    /\ UNCHANGED <<mode, pump, made, placed, got, closedq, sink>>

SpoolEnds ==
    /\ scope = "closing" /\ PumpOver
    /\ scope' = IF pump = "failed" THEN "raised" ELSE "left"
    /\ UNCHANGED <<mode, pump, made, placed, got, closedq, sink>>

-----------------------------------------------------------------------------
(* Sample.  A waiter is "none", "pending", "woken" with a value, "raised" or  *)
(* "cancelled"; the reader finds out when it next runs.                       *)
Waits(r) ==
    /\ drain # "failed" /\ waiter[r] = "none"
    /\ waiter' = [waiter EXCEPT ![r] = "pending"]
    /\ UNCHANGED <<value, drain>>

FailsFast(r) ==
    /\ drain = "failed" /\ waiter[r] = "none"
    /\ waiter' = [waiter EXCEPT ![r] = "raised"]
    /\ UNCHANGED <<value, drain>>

(* _settle: every future that is still pending.                               *)
Settled(as) == [r \in Listeners |-> IF waiter[r] = "pending" THEN as ELSE waiter[r]]

Publishes ==
    /\ drain = "reading" /\ value <= StreamSize
    /\ value' = value + 1
    /\ waiter' = Settled("woken")
    /\ UNCHANGED drain

DrainFails ==
    /\ drain = "reading"
    /\ drain' = "failed"
    /\ waiter' = Settled("raised")
    /\ UNCHANGED value

DrainEnds ==
    /\ drain = "reading" /\ value = StreamSize + 1
    /\ drain' = "ended"
    /\ UNCHANGED <<value, waiter>>

(* The block ends: _close cancels the waits, then the drain is cancelled.     *)
SampleCloses ==
    /\ drain # "closed"
    /\ drain' = "closed"
    /\ waiter' = Settled("cancelled")
    /\ UNCHANGED value

(* The reader runs again, or is itself cancelled while it waits: either way   *)
(* its future is discarded.                                                   *)
ReaderRuns(r) ==
    /\ waiter[r] # "none"
    /\ waiter' = [waiter EXCEPT ![r] = "none"]
    /\ UNCHANGED <<value, drain>>

WiringNext ==
    /\ \/ \E m \in {"tee", "spool"} : Wires(m)
       \/ Reads \/ SourceOver \/ PumpCancelled
       \/ GroupAborts \/ GroupEnds \/ SpoolCloses \/ SpoolEnds
       \/ \E b \in Branches :
            PutsTo(b) \/ Takes(b) \/ ComesBack(b) \/ StreamEnds(b)
            \/ SinkRaises(b) \/ SinkCancelled(b)
    /\ UNCHANGED sampleVars

SampleNext ==
    /\ \/ Publishes \/ DrainFails \/ DrainEnds \/ SampleCloses
       \/ \E r \in Listeners : Waits(r) \/ FailsFast(r) \/ ReaderRuns(r)
    /\ UNCHANGED wiringVars

StreamNext == WiringNext \/ SampleNext

StreamSpec == StreamInit /\ [][StreamNext]_streamVars

-----------------------------------------------------------------------------
StreamTypeOK ==
    /\ mode \in {"none", "spool", "tee"}
    /\ pump \in {"reading", "putting", "ended", "failed", "cancelled"}
    /\ made \in Nat /\ value \in Nat
    /\ placed \in [Branches -> Nat] /\ got \in [Branches -> Nat]
    /\ closedq \in BOOLEAN
    /\ sink \in [Branches -> {"absent", "reading", "working", "returned", "raised", "cancelled"}]
    /\ scope \in {"open", "aborting", "closing", "raised", "left"}
    /\ drain \in {"reading", "ended", "failed", "closed"}
    /\ waiter \in [Listeners -> {"none", "pending", "woken", "raised", "cancelled"}]

(* A connector that ends without an error has shown each of its sinks every   *)
(* value of the source, the slowest included, unless its consumer closed it   *)
(* early; a sink that runs out has had all that was read for it.  Nobody is   *)
(* left behind: when the scope is over the pump and the sinks are, and no     *)
(* pump waits for room on a queue whose sink has returned.  A reader waiting  *)
(* for the next value is not left on a stream that failed.                    *)
EverySinkSeesAll ==
    /\ \A b \in Present : got[b] <= placed[b] /\ placed[b] <= made /\ Queue(b) <= Buffer
    /\ \A b \in Present : sink[b] = "returned" /\ scope # "aborting" =>
        got[b] = placed[b] /\ (pump = "ended" => got[b] = StreamSize)
    /\ scope = "left" /\ mode = "tee" => \A b \in Present : got[b] = StreamSize
    /\ scope \in {"left", "raised"} => PumpOver /\ (mode = "tee" => SinksOver)
    /\ pump = "putting" => \A b \in Present : sink[b] # "returned"
    /\ drain = "failed" => \A r \in Listeners : waiter[r] # "pending"
=============================================================================
