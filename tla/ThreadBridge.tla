---------------------------- MODULE ThreadBridge ----------------------------
(* Streams across a thread boundary (without_streams/wiring.py).              *)
(* stream_from_blocking: a thread iterates a blocking source and hands each   *)
(* value to the loop, a bounded number ahead of the consumer.  offload: the   *)
(* loop puts items on a queue that a thread works through in bursts.  The two *)
(* sides run truly in parallel: every action is one step of one of them.      *)
EXTENDS Naturals, Sequences

CONSTANTS
    Ahead,       \* how far the producer may run ahead
    SourceSize,  \* values the source has before it ends
    MaxPuts      \* bound on the items given to the sink

ASSUME BridgeAssumption == Ahead \in Nat \ {0} /\ SourceSize \in Nat /\ MaxPuts \in Nat

VARIABLES
    producer,    \* the thread of stream_from_blocking
    room,        \* its semaphore
    abandoned,   \* its event: the consumer has gone
    handoff,     \* what it handed over, not yet taken
    consumer,    \* the stream's consumer
    fetched,     \* values pulled from the source
    taken,       \* values the consumer took
    late,        \* values pulled once abandoned
    items,       \* offload's queue
    shutdown,    \* it was shut down
    worker,      \* the thread of offload
    burst,       \* items it has in hand
    puts,        \* items given to the sink
    worked,      \* items `work` is through with
    block        \* the `async with offload(...)` block

blockingVars == <<producer, room, abandoned, handoff, consumer, fetched, taken, late>>
offloadVars == <<items, shutdown, worker, burst, puts, worked, block>>
bridgeVars == <<blockingVars, offloadVars>>

BridgeInit ==
    /\ producer = "acquiring"
    /\ room = Ahead
    /\ abandoned = FALSE
    /\ handoff = <<>>
    /\ consumer = "getting"
    /\ fetched = 0
    /\ taken = 0
    /\ late = 0
    /\ items = 0
    /\ shutdown = FALSE
    /\ worker = "blocked"
    /\ burst = 0
    /\ puts = 0
    /\ worked = 0
    /\ block = "open"

-----------------------------------------------------------------------------
(* drain, on its thread: room first, then a look whether anybody still wants  *)
(* the value, then the fetch.                                                 *)
AcquiresRoom ==
    /\ producer = "acquiring" /\ room > 0
    /\ room' = room - 1
    /\ producer' = "checking"
    /\ UNCHANGED <<abandoned, handoff, consumer, fetched, taken, late>>

ChecksAbandoned ==
    /\ producer = "checking"
    /\ producer' = IF abandoned THEN "ended" ELSE "fetching"
    /\ UNCHANGED <<room, abandoned, handoff, consumer, fetched, taken, late>>

Fetches ==
    /\ producer = "fetching" /\ fetched < SourceSize
    /\ fetched' = fetched + 1
    /\ late' = IF abandoned THEN late + 1 ELSE late
    /\ handoff' = Append(handoff, "produced")
    /\ producer' = "acquiring"
    /\ UNCHANGED <<room, abandoned, consumer, taken>>

(* The source ends, or raises; either is handed over and ends the thread.     *)
SourceStops ==
    /\ producer = "fetching"
    /\ \E how \in {"failed"} \cup (IF fetched = SourceSize THEN {"exhausted"} ELSE {}) :
        handoff' = Append(handoff, how)
    /\ producer' = "ended"
    /\ UNCHANGED <<room, abandoned, consumer, fetched, taken, late>>

LeavesQuietly ==
    /\ consumer' = "left"
    /\ abandoned' = TRUE
    /\ UNCHANGED room

(* The finally of the stream: tell the thread, then wake it to notice.        *)
Leaves ==
    /\ consumer' = "left"
    /\ abandoned' = TRUE
    /\ room' = room + 1

Gets ==
    /\ consumer = "getting" /\ handoff # <<>>
    /\ handoff' = Tail(handoff)
    /\ \/ /\ Head(handoff) = "produced"
          /\ taken' = taken + 1
          /\ room' = room + 1
          /\ consumer' = "holding"
          /\ UNCHANGED abandoned
       \/ /\ Head(handoff) # "produced"
          /\ Leaves
          /\ UNCHANGED taken
    /\ UNCHANGED <<producer, fetched, late>>

Resumes ==
    /\ consumer = "holding"
    /\ consumer' = "getting"
    /\ UNCHANGED <<producer, room, abandoned, handoff, fetched, taken, late>>

(* Closed at the value it holds, or cancelled while it waits for one.         *)
Abandons ==
    /\ consumer \in {"getting", "holding"}
    /\ Leaves
    /\ UNCHANGED <<producer, handoff, fetched, taken, late>>

-----------------------------------------------------------------------------
Puts ==
    /\ block = "open" /\ puts < MaxPuts
    /\ puts' = puts + 1
    /\ items' = items + 1
    /\ UNCHANGED <<shutdown, worker, burst, worked, block>>

(* The block ends: no more items, and the thread is waited for.               *)
ShutsDown ==
    /\ block = "open"
    /\ shutdown' = TRUE
    /\ block' = "joining"
    /\ UNCHANGED <<items, worker, burst, puts, worked>>

(* get: blocks for the first item of a burst; a queue that was shut down      *)
(* still gives what it holds.                                                 *)
GetsFirst ==
    /\ worker = "blocked" /\ items > 0
    /\ items' = items - 1
    /\ burst' = 1
    /\ worker' = "counting"
    /\ UNCHANGED <<shutdown, puts, worked, block>>

(* qsize, then that many more: nobody else takes from the queue.              *)
TakesBurst ==
    /\ worker = "counting"
    /\ burst' = burst + items
    /\ items' = 0
    /\ worker' = "working"
    /\ UNCHANGED <<shutdown, puts, worked, block>>

Works ==
    /\ worker = "working"
    /\ worked' = worked + burst
    /\ burst' = 0
    /\ worker' = "blocked"
    /\ UNCHANGED <<items, shutdown, puts, block>>

WorkRaises ==
    /\ worker = "working"
    /\ worker' = "raised"
    /\ UNCHANGED <<items, shutdown, burst, puts, worked, block>>

SeesShutDown ==
    /\ worker = "blocked" /\ items = 0 /\ shutdown
    /\ worker' = "ended"
    /\ UNCHANGED <<items, shutdown, burst, puts, worked, block>>

(* await worker: the thread's end, or its failure, ends the block; only a     *)
(* cancellation of that wait leaves before the thread does.                   *)
Joins ==
    /\ block = "joining" /\ worker \in {"ended", "raised"}
    /\ block' = IF worker = "ended" THEN "left" ELSE "raised"
    /\ UNCHANGED <<items, shutdown, worker, burst, puts, worked>>

JoinCancelled ==
    /\ block = "joining"
    /\ block' = "cancelled"
    /\ UNCHANGED <<items, shutdown, worker, burst, puts, worked>>

BlockingNext ==
    /\ \/ AcquiresRoom \/ ChecksAbandoned \/ Fetches \/ SourceStops
       \/ Gets \/ Resumes \/ Abandons
    /\ UNCHANGED offloadVars

OffloadNext ==
    /\ \/ Puts \/ ShutsDown \/ GetsFirst \/ TakesBurst \/ Works \/ WorkRaises
       \/ SeesShutDown \/ Joins \/ JoinCancelled
    /\ UNCHANGED blockingVars

BridgeNext == BlockingNext \/ OffloadNext

BridgeSpec == BridgeInit /\ [][BridgeNext]_bridgeVars

-----------------------------------------------------------------------------
BridgeTypeOK ==
    /\ producer \in {"acquiring", "checking", "fetching", "ended"}
    /\ room \in Nat /\ fetched \in Nat /\ taken \in Nat /\ late \in Nat
    /\ abandoned \in BOOLEAN
    /\ handoff \in Seq({"produced", "failed", "exhausted"})
    /\ consumer \in {"getting", "holding", "left"}
    /\ items \in Nat /\ burst \in Nat /\ puts \in Nat /\ worked \in Nat
    /\ shutdown \in BOOLEAN
    /\ worker \in {"blocked", "counting", "working", "ended", "raised"}
    /\ block \in {"open", "joining", "left", "raised", "cancelled"}

(* Neither side is left parked on the other.  A consumer that waits has       *)
(* something on its way; a producer that waits for room will be given some,   *)
(* and one whose consumer has gone fetches at most the value it had already   *)
(* set out for.  The source is never more than Ahead values in front.         *)
(* A block of offload that ends without an error has had every item worked.   *)
NothingStranded ==
    /\ consumer = "getting" /\ handoff = <<>> =>
        producer \in {"checking", "fetching"} \/ (producer = "acquiring" /\ room > 0)
    /\ abandoned => late <= 1 /\ (producer = "acquiring" => room > 0)
    /\ fetched <= taken + Ahead + late
    /\ worker # "raised" => puts = items + burst + worked
    /\ block = "left" => worked = puts
=============================================================================
