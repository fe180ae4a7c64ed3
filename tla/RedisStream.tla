----------------------------- MODULE RedisStream -----------------------------
(* RedisStreamScheduler (without_durability_redis/stream.py): what can run is *)
(* in a stream read as a consumer group, what waits for a clock in a sorted   *)
(* set beside it.  A command or a script runs alone in the server and is one  *)
(* action; `cancel` is several.  When a deadline comes due and when a lease   *)
(* runs out is left open: neither clock is looked at by a property.           *)
EXTENDS Naturals, FiniteSets

CONSTANTS
    Flows,       \* workflows
    Consumers,   \* workers, one slot each
    Nil,         \* no workflow, no consumer
    MaxEntry,    \* bound on the entries appended
    Batch,       \* `scan`: entries `cancel` reads at once
    Reach        \* pending entries one XAUTOCLAIM looks at

ASSUME StreamAssumption ==
    /\ Nil \notin Flows /\ Nil \notin Consumers
    /\ MaxEntry \in Nat /\ Batch \in Nat \ {0}

VARIABLES
    about,       \* entry ids -> the workflow the entry names
    tail,        \* the last id appended
    stream,      \* the entries that are in the stream
    group,       \* the consumer group exists
    readTo,      \* its last-delivered id
    pendingOf,   \* ids -> the consumer whose pending list has the entry
    silent,      \* pending entries idle for longer than a lease
    sleeping,    \* the sleepers
    inHand,      \* Consumers -> the delivery being worked on, or 0
    scanned,     \* Consumers -> where the sweep of the pending list got to
    sweep,       \* the cancellation in progress
    owed,        \* entries that are neither answered nor cancelled
    taker,       \* ids -> the consumer that last took the entry
    requeued     \* workflows asked for, or suspended, since a cancel began

rsVars == <<about, tail, stream, group, readTo, pendingOf, silent, sleeping, inHand,
            scanned, sweep, owed, taker, requeued>>

Ids == 1 .. MaxEntry
Undelivered == {i \in stream : i > readTo}
Pending == {i \in Ids : pendingOf[i] # Nil}
NoSweep == [of |-> Nil, from |-> 0]
Least(S) == CHOOSE i \in S : \A j \in S : i <= j

RsInit ==
    /\ about = [i \in Ids |-> Nil]
    /\ tail = 0
    /\ stream = {}
    /\ group = FALSE
    /\ readTo = 0
    /\ pendingOf = [i \in Ids |-> Nil]
    /\ silent = {}
    /\ sleeping = {}
    /\ inHand = [n \in Consumers |-> 0]
    /\ scanned = [n \in Consumers |-> 0]
    /\ sweep = NoSweep
    /\ owed = {}
    /\ taker = [i \in Ids |-> Nil]
    /\ requeued = {}

-----------------------------------------------------------------------------
Prepare ==
    /\ ~group
    /\ group' = TRUE
    /\ UNCHANGED <<about, tail, stream, readTo, pendingOf, silent, sleeping, inHand, scanned,
                   sweep, owed, taker, requeued>>

Appended(w) ==
    /\ tail < MaxEntry
    /\ tail' = tail + 1
    /\ about' = [about EXCEPT ![tail + 1] = w]
    /\ stream' = stream \cup {tail + 1}
    /\ owed' = owed \cup {tail + 1}
    /\ requeued' = requeued \cup {w}

XAdd(w) ==
    /\ Appended(w)
    /\ UNCHANGED <<group, readTo, pendingOf, silent, sleeping, inHand, scanned, sweep, taker>>

(* WAKE_DUE moves a sleeper in one script.                                    *)
MovesDue(w) ==
    /\ w \in sleeping
    /\ sleeping' = sleeping \ {w}
    /\ Appended(w)
    /\ UNCHANGED <<group, readTo, pendingOf, silent, inHand, scanned, sweep, taker>>

TakenBy(n, i) ==
    /\ pendingOf' = [pendingOf EXCEPT ![i] = n]
    /\ silent' = silent \ {i}
    /\ inHand' = [inHand EXCEPT ![n] = i]
    /\ taker' = [taker EXCEPT ![i] = n]

XReadGroup(n) ==
    /\ group /\ inHand[n] = 0 /\ Undelivered # {}
    /\ readTo' = Least(Undelivered)
    /\ TakenBy(n, Least(Undelivered))
    /\ UNCHANGED <<about, tail, stream, group, sleeping, scanned, sweep, owed, requeued>>

(* XAUTOCLAIM from the kept cursor: the first silent entry within reach is    *)
(* taken; entries no longer in the stream are dropped from the pending list.  *)
XAutoClaim(n) ==
    /\ group /\ inHand[n] = 0
    /\ LET ahead == {i \in Pending : i >= scanned[n]}
           seen == {i \in ahead : Cardinality({j \in ahead : j < i}) < Reach}
           found == {i \in seen : i \in silent \cap stream}
           passed == IF found = {} THEN seen ELSE {i \in seen : i <= Least(found)}
           gone == passed \ stream
           left == ahead \ passed
       IN
       /\ scanned' = [scanned EXCEPT ![n] = IF left = {} THEN 0 ELSE Least(left)]
       /\ IF found = {}
          THEN /\ pendingOf' = [i \in Ids |-> IF i \in gone THEN Nil ELSE pendingOf[i]]
               /\ UNCHANGED <<silent, inHand, taker>>
          ELSE /\ pendingOf' = [i \in Ids |-> IF i = Least(found) THEN n
                                              ELSE IF i \in gone THEN Nil ELSE pendingOf[i]]
               /\ silent' = silent \ {Least(found)}
               /\ inHand' = [inHand EXCEPT ![n] = Least(found)]
               /\ taker' = [taker EXCEPT ![Least(found)] = n]
    /\ UNCHANGED <<about, tail, stream, group, readTo, sleeping, sweep, owed, requeued>>

(* An entry nobody has spoken for in a lease, by the server's clock.          *)
GrowsIdle(i) ==
    /\ i \in Pending \ silent
    /\ silent' = silent \cup {i}
    /\ UNCHANGED <<about, tail, stream, group, readTo, pendingOf, sleeping, inHand, scanned,
                   sweep, owed, taker, requeued>>

(* HOLD: the idle clock of an entry that is still this consumer's.            *)
Hold(n) ==
    /\ inHand[n] # 0 /\ pendingOf[inHand[n]] = n
    /\ pendingOf' = [pendingOf EXCEPT ![inHand[n]] = IF inHand[n] \in stream THEN n ELSE Nil]
    /\ silent' = silent \ {inHand[n]}
    /\ UNCHANGED <<about, tail, stream, group, readTo, sleeping, inHand, scanned, sweep, owed,
                   taker, requeued>>

(* XACK, of whoever's pending list the entry is in by now.                    *)
Acknowledged(n) ==
    /\ pendingOf' = [pendingOf EXCEPT ![inHand[n]] = Nil]
    /\ silent' = silent \ {inHand[n]}
    /\ owed' = owed \ {inHand[n]}
    /\ inHand' = [inHand EXCEPT ![n] = 0]

XAck(n) ==
    /\ inHand[n] # 0
    /\ Acknowledged(n)
    /\ UNCHANGED <<about, tail, stream, group, readTo, sleeping, scanned, sweep, taker, requeued>>

(* SUSPEND: an entry that is gone was cancelled, and its workflow stays so.   *)
SuspendAt(n) ==
    /\ inHand[n] # 0
    /\ Acknowledged(n)
    /\ IF inHand[n] \in stream
       THEN /\ sleeping' = sleeping \cup {about[inHand[n]]}
            /\ requeued' = requeued \cup {about[inHand[n]]}
       ELSE UNCHANGED <<sleeping, requeued>>
    /\ UNCHANGED <<about, tail, stream, group, readTo, scanned, sweep, taker>>

(* A pass that fails, or a worker that dies: nothing is answered.             *)
LetsFall(n) ==
    /\ inHand[n] # 0
    /\ inHand' = [inHand EXCEPT ![n] = 0]
    /\ scanned' = [scanned EXCEPT ![n] = 0]
    /\ UNCHANGED <<about, tail, stream, group, readTo, pendingOf, silent, sleeping, sweep,
                   owed, taker, requeued>>

-----------------------------------------------------------------------------
(* cancel: the sleepers, then the stream, a batch at a time.                  *)
ZRemSleeper(w) ==
    /\ sweep = NoSweep
    /\ sleeping' = sleeping \ {w}
    /\ sweep' = [of |-> w, from |-> 1]
    /\ requeued' = requeued \ {w}
    /\ UNCHANGED <<about, tail, stream, group, readTo, pendingOf, silent, inHand, scanned,
                   owed, taker>>

Page == {i \in stream : i >= sweep.from
                        /\ Cardinality({j \in stream : sweep.from <= j /\ j < i}) < Batch}

SweepsPage ==
    /\ sweep # NoSweep
    /\ LET doomed == {i \in Page : about[i] = sweep.of} IN
       /\ stream' = stream \ doomed
       /\ owed' = owed \ doomed
       /\ sweep' = IF Page = {} THEN NoSweep
                   ELSE [sweep EXCEPT !.from = 1 + CHOOSE i \in Page : \A j \in Page : j <= i]
    /\ UNCHANGED <<about, tail, group, readTo, pendingOf, silent, sleeping, inHand, scanned,
                   taker, requeued>>

(* A crash between two of its commands.                                       *)
SweepDies ==
    /\ sweep # NoSweep
    /\ sweep' = NoSweep
    /\ requeued' = requeued \cup {sweep.of}
    /\ UNCHANGED <<about, tail, stream, group, readTo, pendingOf, silent, sleeping, inHand,
                   scanned, owed, taker>>

(* XTRIM MAXLEN 0 ACKED stops at the first entry somebody has not read and    *)
(* answered for; without a group it stops at nothing.                         *)
Trimmed ==
    IF group
    THEN {i \in stream : \A j \in stream : j <= i => j <= readTo /\ pendingOf[j] = Nil}
    ELSE stream

Trims ==
    /\ stream' = stream \ Trimmed
    /\ UNCHANGED <<about, tail, group, readTo, pendingOf, silent, sleeping, inHand, scanned,
                   sweep, owed, taker, requeued>>

(* trim asks for the groups first.                                            *)
Trim == group /\ Trims

RsNext ==
    \/ Prepare \/ Trim \/ SweepsPage \/ SweepDies
    \/ \E w \in Flows : XAdd(w) \/ MovesDue(w) \/ ZRemSleeper(w)
    \/ \E n \in Consumers :
        \/ XReadGroup(n) \/ XAutoClaim(n) \/ Hold(n) \/ XAck(n) \/ SuspendAt(n) \/ LetsFall(n)
    \/ \E i \in Ids : GrowsIdle(i)

RsSpec == RsInit /\ [][RsNext]_rsVars

-----------------------------------------------------------------------------
RsTypeOK ==
    /\ about \in [Ids -> Flows \cup {Nil}]
    /\ tail \in 0 .. MaxEntry
    /\ stream \subseteq Ids
    /\ group \in BOOLEAN
    /\ readTo \in 0 .. MaxEntry
    /\ pendingOf \in [Ids -> Consumers \cup {Nil}]
    /\ silent \subseteq Ids
    /\ sleeping \subseteq Flows
    /\ inHand \in [Consumers -> 0 .. MaxEntry]
    /\ scanned \in [Consumers -> 0 .. MaxEntry]
    /\ sweep.of \in Flows \cup {Nil}
    /\ owed \subseteq Ids
    /\ taker \in [Ids -> Consumers \cup {Nil}]
    /\ requeued \subseteq Flows

(* Through takeovers, trims, a sweep in pieces and late answers: a wakeup     *)
(* nobody answered for and nobody cancelled is in the stream, unread or in    *)
(* the pending list of whoever took it last, a renewal having stolen nothing; *)
(* and a finished cancellation leaves nothing of the workflow behind, unless  *)
(* something asked for it since the call began (a suspension between its      *)
(* steps counts as that, though the pass it ends is the one cancelled).       *)
OwedIsKept ==
    /\ owed \subseteq stream
    /\ \A i \in owed : i > readTo \/ pendingOf[i] # Nil
    /\ \A i \in Pending : pendingOf[i] = taker[i]
    /\ \A w \in Flows : w \notin requeued /\ sweep.of # w =>
        w \notin sleeping /\ \A i \in owed : about[i] # w
=============================================================================
