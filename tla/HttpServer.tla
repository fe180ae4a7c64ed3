----------------------------- MODULE HttpServer -----------------------------
(* The life of the connections of `serving` (server.py) across its shutdown.  *)
(* The event loop accepts a socket in a task of its own, builds the transport *)
(* when that task first runs, and calls `handle` a moment later (over TLS, a  *)
(* handshake later); `handle` starts the task that serves.  Shutdown waits    *)
(* for accepts to begin, closes the listener, cancels the tasks it knows,     *)
(* aborts the transports the listener still tracks, and cancels once more.    *)
EXTENDS Naturals, FiniteSets

CONSTANTS
    Conns,
    Secure,      \* the connections that come over TLS
    FlushTicks   \* _MID_ACCEPT_FLUSH_TICKS

ASSUME ServerAssumption == IsFiniteSet(Conns) /\ FlushTicks \in Nat

VARIABLES
    conn,        \* Conns -> where the connection is
    halting,     \* where the shutdown is
    ticks,       \* flush ticks used up
    tick,        \* callbacks the current tick still has to run
    doomed,      \* tasks the cancellation in progress waits for
    live         \* _LiveConnections.in_flight

serverVars == <<conn, halting, ticks, tick, doomed, live>>

(* kernel: in the backlog.  accepted: its accept task has not run.  raw: a    *)
(* TLS transport shaking hands.  starting: connection_made is queued.         *)
(* created: in `connections`, its task not begun.  closing: in the bounded    *)
(* close that ends with an abort.  lost: nobody will ever close the socket.   *)
Stages == {"away", "kernel", "accepted", "raw", "starting", "created", "serving",
           "closing", "cut", "gone", "lost"}
Tracked == {c \in Conns : conn[c] \in {"created", "serving", "closing"}}
Attached == {c \in Conns : conn[c] \in {"raw", "starting", "created", "serving", "closing"}}
Listening == halting \in {"up", "flushing", "ticking"}

ServerInit ==
    /\ conn = [c \in Conns |-> "away"]
    /\ halting = "up"
    /\ ticks = 0
    /\ tick = {}
    /\ doomed = {}
    /\ live = 0

-----------------------------------------------------------------------------
Becomes(c, from, to) == conn[c] = from /\ conn' = [conn EXCEPT ![c] = to]

Connects(c) ==
    /\ Listening
    /\ Becomes(c, "away", "kernel")
    /\ UNCHANGED <<halting, ticks, tick, doomed, live>>

Accepts(c) ==
    /\ Listening
    /\ Becomes(c, "kernel", "accepted")
    /\ UNCHANGED <<halting, ticks, tick, doomed, live>>

(* The accept task's first step.  With the listener closed the transport      *)
(* cannot attach to it, and the socket is left to nobody.                     *)
Materializes(c) ==
    /\ Becomes(c, "accepted", IF ~Listening THEN "lost"
                              ELSE IF c \in Secure THEN "raw" ELSE "starting")
    /\ tick' = tick \ {c}
    /\ UNCHANGED <<halting, ticks, doomed, live>>

ShakesHands(c) ==
    /\ Becomes(c, "raw", "starting")
    /\ UNCHANGED <<halting, ticks, tick, doomed, live>>

(* connection_made calls `handle` at once, and the task is in `connections`.  *)
Handled(c) ==
    /\ Becomes(c, "starting", "created")
    /\ tick' = tick \ {c}
    /\ UNCHANGED <<halting, ticks, doomed, live>>

(* The task begins to serve, unless a cancellation got to it first: then only *)
(* its done callback is left to abort the connection.                         *)
Serves(c) ==
    /\ c \notin doomed
    /\ Becomes(c, "created", "serving")
    /\ live' = live + 1
    /\ UNCHANGED <<halting, ticks, tick, doomed>>

NeverServes(c) ==
    /\ c \in doomed
    /\ Becomes(c, "created", "gone")
    /\ doomed' = doomed \ {c}
    /\ UNCHANGED <<halting, ticks, tick, live>>

(* The connection ends by itself, or by cancellation; either way it is closed *)
(* within close_timeout and then aborted.                                     *)
Stops(c) ==
    /\ Becomes(c, "serving", "closing")
    /\ UNCHANGED <<halting, ticks, tick, doomed, live>>

Closes(c) ==
    /\ Becomes(c, "closing", "gone")
    /\ live' = live - 1
    /\ doomed' = doomed \ {c}
    /\ UNCHANGED <<halting, ticks, tick>>

(* A transport that was aborted before `handle` saw it: connection_made still *)
(* runs when it was queued, and the connection then ends like any other.      *)
CutShort(c) ==
    /\ Becomes(c, "cut", "gone")
    /\ UNCHANGED <<halting, ticks, tick, doomed, live>>

-----------------------------------------------------------------------------
(* The shutdown.  MidAccept is _has_connections_mid_accept.                   *)
MidAccept == {c \in Conns : conn[c] = "accepted"}

HaltBegins ==
    /\ halting = "up"
    /\ halting' = "flushing"
    /\ UNCHANGED <<conn, ticks, tick, doomed, live>>

(* sleep(0): what is ready now has run by the time it returns.                *)
Flushes ==
    /\ halting = "flushing" /\ MidAccept # {} /\ ticks < FlushTicks
    /\ halting' = "ticking"
    /\ ticks' = ticks + 1
    /\ tick' = {c \in Conns : conn[c] \in {"accepted", "starting"}}
    /\ UNCHANGED <<conn, doomed, live>>

FlushTicked ==
    /\ halting = "ticking" /\ tick = {}
    /\ halting' = "flushing"
    /\ UNCHANGED <<conn, ticks, tick, doomed, live>>

ClosesAtOnce ==
    /\ halting = "flushing"
    /\ halting' = "cancelling"
    /\ conn' = [c \in Conns |-> IF conn[c] = "kernel" THEN "gone" ELSE conn[c]]
    /\ doomed' = Tracked
    /\ UNCHANGED <<ticks, tick, live>>

(* server.close(), and cancel_futures(connections): a connection the loop has *)
(* not accepted dies in the kernel, and every task known now is cancelled.    *)
ClosesListener ==
    /\ MidAccept = {} \/ ticks = FlushTicks
    /\ ClosesAtOnce

CancelledFirst ==
    /\ halting = "cancelling" /\ doomed = {}
    /\ halting' = "aborting"
    /\ UNCHANGED <<conn, ticks, tick, doomed, live>>

(* abort_clients: the transports the listener still tracks.  One still in its *)
(* handshake will never reach `handle`; one whose connection_made is queued   *)
(* will.  Then one tick.                                                      *)
AbortsClients ==
    /\ halting = "aborting"
    /\ halting' = "settling"
    /\ conn' = [c \in Conns |-> IF conn[c] = "raw" THEN "cut" ELSE conn[c]]
    /\ tick' = {c \in Conns : conn[c] = "starting"}
    /\ UNCHANGED <<ticks, doomed, live>>

CancelsTheRest ==
    /\ halting = "settling" /\ tick = {}
    /\ halting' = "waiting"
    /\ doomed' = Tracked
    /\ UNCHANGED <<conn, ticks, tick, live>>

(* server.wait_closed, after which `serving` returns.                         *)
Down ==
    /\ halting = "waiting" /\ doomed = {} /\ Attached = {}
    /\ halting' = "down"
    /\ UNCHANGED <<conn, ticks, tick, doomed, live>>

ServerNext ==
    \/ \E c \in Conns :
        \/ Connects(c) \/ Accepts(c) \/ Materializes(c) \/ ShakesHands(c) \/ Handled(c)
        \/ Serves(c) \/ NeverServes(c) \/ Stops(c) \/ Closes(c) \/ CutShort(c)
    \/ HaltBegins \/ Flushes \/ FlushTicked \/ ClosesListener \/ CancelledFirst
    \/ AbortsClients \/ CancelsTheRest \/ Down

ServerSpec == ServerInit /\ [][ServerNext]_serverVars

-----------------------------------------------------------------------------
ServerTypeOK ==
    /\ conn \in [Conns -> Stages]
    /\ halting \in {"up", "flushing", "ticking", "cancelling", "aborting", "settling", "waiting", "down"}
    /\ ticks \in 0 .. FlushTicks
    /\ tick \subseteq Conns
    /\ doomed \subseteq Conns
    /\ live \in Nat

(* Whatever moment of a connection's birth the shutdown begins in, it reaches *)
(* everyone: once the last cancellation is out, whoever still has a transport *)
(* has been cancelled, so the wait that ends the shutdown waits for nobody    *)
(* who serves on.  A socket is left to nobody only when a flood kept its      *)
(* accept from its first step through every flush tick, as the code admits.   *)
(* in_flight counts the connections being served.                             *)
ShutdownReachesAll ==
    /\ halting = "waiting" => Attached \subseteq doomed
    /\ \A c \in Conns : conn[c] = "lost" => ticks = FlushTicks
    /\ live = Cardinality({c \in Conns : conn[c] \in {"serving", "closing"}})
=============================================================================
