------------------------------ MODULE H2Server ------------------------------
(* One HTTP/2 connection of the server (_serve_h2_connection): a read loop    *)
(* that applies what it reads to the h2 connection and then handles the       *)
(* events, and one task for each request, all of them writing through the     *)
(* same connection.  The lock is never held across an await, so what a task   *)
(* does under it is one step.  A body is one byte; the client's initial       *)
(* window is one byte or none, and lowered after a byte was sent it leaves    *)
(* the stream a window below zero.  An asyncio.Event cleared and awaited at   *)
(* once is the tasks parked on it.                                            *)
EXTENDS Integers, Sequences, FiniteSets

CONSTANTS
    Streams,
    ReceiveWindow, \* of the connection, in chunks
    MaxStreamResets,
    Together     \* the kinds of two frames that one read may bring

ASSUME H2Assumption == ReceiveWindow \in Nat /\ MaxStreamResets \in Nat

VARIABLES
    h2conn,      \* h2's: the sides of each stream, the windows, the credit left,
                 \* the client's initial window; history: was it ever lowered
    events,      \* events of the data received, not handled yet
    table,       \* `streams'
    task,        \* Streams -> the stream's task
    condemned,   \* tasks that cancel() was called on
    rest, last,  \* Streams -> what send_body has left, and whether it is the end
    begun,       \* response_started
    answered,    \* response_done
    unread,      \* Streams -> its queue
    readAll,     \* streams whose task took the end of the request
    resets,
    readLoop     \* the read loop

sending == <<rest, last, begun, answered>>
reads == <<unread, readAll>>
tasks == <<table, task, condemned>>
h2sVars == <<h2conn, events, tasks, sending, reads, resets, readLoop>>

H2sInit ==
    /\ h2conn = [side |-> [s \in Streams |-> "idle"], win |-> [s \in Streams |-> 1],
               conn |-> 1, credit |-> ReceiveWindow, initial |-> 1, lowered |-> FALSE]
    /\ events = <<>>
    /\ table = {} /\ condemned = {}
    /\ task = [s \in Streams |-> "none"]
    /\ rest = [s \in Streams |-> 0] /\ last = [s \in Streams |-> FALSE]
    /\ begun = {} /\ answered = {}
    /\ unread = [s \in Streams |-> <<>>] /\ readAll = {}
    /\ resets = 0 /\ readLoop = "reading"

-----------------------------------------------------------------------------
(* Frames of the client that h2 takes, and what each does to its state.       *)
Frames == ({"request", "data", "end", "reset", "window"} \X Streams)
          \cup ({"connWindow", "raise", "lower", "goaway"} \X {"all"})

Settings == {"raise", "lower"}

Accepted(f, w) ==
    CASE f[1] = "request" -> w.side[f[2]] = "idle"
      [] f[1] = "data" -> w.side[f[2]] \in {"open", "local"} /\ w.credit > 0
      [] f[1] = "end" -> w.side[f[2]] \in {"open", "local"}
      [] f[1] = "reset" -> w.side[f[2]] \in {"open", "remote", "local"}
      [] f[1] = "window" -> w.side[f[2]] \in {"open", "remote"} /\ w.win[f[2]] <= 0
      [] f[1] = "connWindow" -> w.conn = 0
      [] f[1] = "raise" -> w.initial = 0
      [] f[1] = "lower" -> w.initial = 1
      [] OTHER -> TRUE

(* A changed initial window resizes every stream's window by as much.         *)
Resized(w, by) ==
    [w EXCEPT !.initial = @ + by, !.win = [s \in Streams |-> w.win[s] + by]]

Applied(f, w) ==
    CASE f[1] = "request" -> [w EXCEPT !.side[f[2]] = "open"]
      [] f[1] = "data" -> [w EXCEPT !.credit = @ - 1]
      [] f[1] = "end" -> [w EXCEPT !.side[f[2]] = IF @ = "open" THEN "remote" ELSE "closed"]
      [] f[1] = "reset" -> [w EXCEPT !.side[f[2]] = "closed"]
      [] f[1] = "window" -> [w EXCEPT !.win[f[2]] = @ + 1]
      [] f[1] = "connWindow" -> [w EXCEPT !.conn = 1]
      [] f[1] = "raise" -> Resized(w, 1)
      [] f[1] = "lower" -> [Resized(w, -1) EXCEPT !.lowered = TRUE]
      [] f[1] = "goaway" -> w

(* feed: what one read brought, one frame or two, under the lock.             *)
Feeds ==
    /\ readLoop = "reading" /\ events = <<>>
    /\ \E f \in Frames :
         /\ Accepted(f, h2conn)
         /\ \/ h2conn' = Applied(f, h2conn) /\ events' = <<f>>
            \/ \E g \in Frames :
                 /\ <<f[1], g[1]>> \in Together /\ Accepted(g, Applied(f, h2conn))
                 /\ h2conn' = Applied(g, Applied(f, h2conn)) /\ events' = <<f, g>>
    /\ UNCHANGED <<tasks, sending, reads, resets, readLoop>>

(* The end of the loop cancels every task, and awaits them.                   *)
AtWork(t) == {s \in Streams : t[s] \notin {"none", "over"}}

(* h2 refuses a frame, or the connection is over.                             *)
FeedFails ==
    /\ readLoop = "reading" /\ events = <<>>
    /\ readLoop' = "awaiting"
    /\ condemned' = condemned \cup AtWork(task)
    /\ UNCHANGED <<h2conn, events, table, task, sending, reads, resets>>

-----------------------------------------------------------------------------
(* handle_event, for what was fed, after a drain during which tasks may run.  *)
AwakenedAlone(f, known) == IF f[1] = "window" THEN {f[2]} \cap known ELSE {}

Awakened(f, known) ==
    IF f[1] = "window" THEN {f[2]} \cap known
    ELSE IF f[1] \in {"connWindow"} \cup Settings THEN known ELSE {}

Dispatched(f, t) ==
    CASE f[1] = "request" ->
            [t EXCEPT !.table = @ \cup {f[2]}, !.task[f[2]] = "created"]
      [] f[1] \in {"data", "end"} ->
            IF f[2] \in t.table THEN [t EXCEPT !.unread[f[2]] = Append(@, f[1])] ELSE t
      [] f[1] = "reset" ->
            [t EXCEPT !.resets = @ + 1, !.condemned = @ \cup ({f[2]} \cap t.table),
                      !.ending = @ \/ t.resets + 1 > MaxStreamResets]
      [] f[1] = "goaway" -> [t EXCEPT !.ending = TRUE]
      [] OTHER -> [t EXCEPT !.task = [s \in Streams |->
                        IF s \in Awakened(f, t.table) /\ @[s] = "parked" THEN "sending" ELSE @[s]]]

HandlesEvents ==
    /\ readLoop = "reading" /\ events # <<>>
    /\ LET before == [table |-> table, task |-> task, condemned |-> condemned, unread |-> unread,
                      resets |-> resets, ending |-> FALSE]
           first == Dispatched(events[1], before)
           after == IF Len(events) = 1 THEN first ELSE Dispatched(events[2], first)
       IN  /\ table' = after.table /\ task' = after.task
           /\ condemned' = after.condemned \cup (IF after.ending THEN AtWork(after.task) ELSE {})
           /\ unread' = after.unread
           /\ resets' = after.resets
           /\ readLoop' = IF after.ending THEN "awaiting" ELSE "reading"
    /\ events' = <<>>
    /\ UNCHANGED <<h2conn, sending, readAll>>

-----------------------------------------------------------------------------
(* The task of a stream.  A cancellation that comes before its first step     *)
(* finds no `finally' to run.                                                 *)
Working == {"app", "sending", "parked"}

(* What was left in a finished task's queue goes with it.                     *)
LeavesBehind(s) ==
    /\ unread' = [unread EXCEPT ![s] = <<>>]
    /\ rest' = [rest EXCEPT ![s] = 0] /\ last' = [last EXCEPT ![s] = FALSE]

StartsStream(s) ==
    /\ task[s] = "created" /\ s \notin condemned
    /\ task' = [task EXCEPT ![s] = "app"]
    /\ UNCHANGED <<h2conn, events, table, condemned, sending, reads, resets, readLoop>>

NeverStarts(s) ==
    /\ task[s] = "created" /\ s \in condemned
    /\ task' = [task EXCEPT ![s] = "over"]
    /\ UNCHANGED <<h2conn, events, table, condemned, sending, reads, resets, readLoop>>

IsCancelled(s) ==
    /\ task[s] \in Working /\ s \in condemned
    /\ task' = [task EXCEPT ![s] = "over"]
    /\ table' = table \ {s}
    /\ LeavesBehind(s)
    /\ UNCHANGED <<h2conn, events, condemned, begun, answered, readAll, resets, readLoop>>

(* receive: a chunk is acknowledged as the application takes it.              *)
TakesBody(s) ==
    /\ task[s] = "app" /\ s \notin condemned /\ s \notin readAll /\ unread[s] # <<>>
    /\ unread' = [unread EXCEPT ![s] = Tail(@)]
    /\ IF Head(unread[s]) = "data"
       THEN h2conn' = [h2conn EXCEPT !.credit = @ + 1] /\ UNCHANGED readAll
       ELSE readAll' = readAll \cup {s} /\ UNCHANGED h2conn
    /\ UNCHANGED <<events, tasks, sending, resets, readLoop>>

(* The head; on a stream the client has reset, h2 raises into the application. *)
SendsHead(s) ==
    /\ task[s] = "app" /\ s \notin condemned \cup begun
    /\ h2conn.side[s] \in {"open", "remote"}
    /\ begun' = begun \cup {s}
    /\ UNCHANGED <<h2conn, events, tasks, rest, last, answered, reads, resets, readLoop>>

(* Chunks come with more to follow, and an empty one ends the response.       *)
SendsBody(s) ==
    /\ task[s] = "app" /\ s \in begun \ (condemned \cup answered)
    /\ task' = [task EXCEPT ![s] = "sending"]
    /\ \E size \in {0, 1} :
         /\ rest' = [rest EXCEPT ![s] = size] /\ last' = [last EXCEPT ![s] = size = 0]
    /\ UNCHANGED <<h2conn, events, table, condemned, begun, answered, reads, resets, readLoop>>

SendRoom(s) == IF h2conn.win[s] < h2conn.conn THEN h2conn.win[s] ELSE h2conn.conn
EndedBy(side) == IF side = "open" THEN "local" ELSE "closed"
Sent(s, size, final) ==
    [h2conn EXCEPT !.win[s] = @ - size, !.conn = @ - size,
                 !.side[s] = IF final THEN EndedBy(@) ELSE @]

(* send_body, one turn of its loop.  h2 refuses what is sent on a stream that *)
(* is closed, and even an empty chunk into a window below zero; the refusal   *)
(* is swallowed, and the response counts as answered where it was its end.    *)
SendsTurn(s) ==
    /\ task[s] = "sending" /\ s \notin condemned
    /\ \/ /\ rest[s] = 0 \/ rest[s] <= SendRoom(s)
          /\ h2conn' = IF h2conn.side[s] \in {"open", "remote"} /\ rest[s] <= SendRoom(s)
                       THEN Sent(s, rest[s], last[s]) ELSE h2conn
          /\ task' = [task EXCEPT ![s] = "app"]
          /\ rest' = [rest EXCEPT ![s] = 0] /\ last' = [last EXCEPT ![s] = FALSE]
       \/ /\ rest[s] > 0 /\ rest[s] > SendRoom(s)
          /\ task' = [task EXCEPT ![s] = "parked"]
          /\ UNCHANGED <<h2conn, rest, last>>
    /\ answered' = IF task'[s] = "app" /\ last[s] THEN answered \cup {s} ELSE answered
    /\ UNCHANGED <<events, table, condemned, begun, reads, resets, readLoop>>

(* The application returns or raises.  finalize_incomplete resets a response  *)
(* that was begun and answers 500 to one that was not; send_bad_request is    *)
(* the same answer.  Where its body finds no window, only its head goes.      *)
ReturnsStream(s) ==
    /\ task[s] = "app" /\ s \notin condemned
    /\ h2conn' = IF s \in answered \/ h2conn.side[s] \notin {"open", "remote"} THEN h2conn
               ELSE IF s \in begun THEN [h2conn EXCEPT !.side[s] = "closed"]
               ELSE IF SendRoom(s) > 0 THEN Sent(s, 1, TRUE) ELSE h2conn
    /\ task' = [task EXCEPT ![s] = "over"]
    /\ table' = table \ {s}
    /\ LeavesBehind(s)
    /\ UNCHANGED <<events, condemned, begun, answered, readAll, resets, readLoop>>

(* cancel_futures is through.                                                 *)
LoopEnds ==
    /\ readLoop = "awaiting" /\ \A s \in Streams : task[s] \in {"none", "over"}
    /\ readLoop' = "over"
    /\ UNCHANGED <<h2conn, events, tasks, sending, reads, resets>>

H2sNext ==
    \/ Feeds \/ FeedFails \/ HandlesEvents \/ LoopEnds
    \/ \E s \in Streams :
        \/ StartsStream(s) \/ NeverStarts(s) \/ IsCancelled(s) \/ TakesBody(s)
        \/ SendsHead(s) \/ SendsBody(s) \/ SendsTurn(s) \/ ReturnsStream(s)

H2sSpec == H2sInit /\ [][H2sNext]_h2sVars

-----------------------------------------------------------------------------
Coming(what, s) == \E i \in DOMAIN events : events[i][1] \in what /\ events[i][2] \in {s, "all"}

(* The flow-control invariant of the docstring: a sender waits only while the *)
(* window has no room for it, or the event that wakes it is on its way.       *)
SendersWake ==
    \A s \in Streams :
        task[s] = "parked" /\ readLoop = "reading" =>
            \/ SendRoom(s) <= 0 \/ s \in condemned
            \/ Coming({"window", "connWindow"} \cup Settings, s)

(* A response ends: by its own end, by a reset, or with its task cancelled.   *)
(* Left open is an error answer that found the window closed.  A client that  *)
(* has lowered its initial window may also be left without the end of a       *)
(* response the application did end: that end found a window below zero.      *)
ResponsesEnd ==
    \A s \in Streams :
        task[s] = "over" /\ h2conn.side[s] \in {"open", "remote"} =>
            \/ s \in condemned \/ s \notin begun
            \/ h2conn.lowered /\ s \in answered

(* Where every task that is over read its request to the end, the connection  *)
(* has all its credit but what is waiting to be read.                         *)
Unacknowledged == {c \in Streams \X (1 .. ReceiveWindow + 1) :
                     c[2] \in DOMAIN unread[c[1]] /\ unread[c[1]][c[2]] = "data"}
Expected == {i \in DOMAIN events : events[i][1] = "data"}
CreditIsEven ==
    (\A s \in Streams : task[s] = "over" => s \in readAll) =>
        ReceiveWindow = h2conn.credit + Cardinality(Expected) + Cardinality(Unacknowledged)

(* What the server promises of an HTTP/2 connection: its senders are woken,   *)
(* its responses end, its credit comes back; the budget of resets closes it,  *)
(* no task outlives it, and the table keeps the streams at work and, besides  *)
(* them, only those cancelled before their first step.                        *)
ConnectionIsSound ==
    /\ SendersWake /\ ResponsesEnd /\ CreditIsEven
    /\ resets > MaxStreamResets => readLoop # "reading"
    /\ readLoop = "over" => \A s \in Streams : task[s] \in {"none", "over"}
    /\ \A s \in Streams : task[s] \in Working \cup {"created"} => s \in table
    /\ \A s \in table : task[s] = "over" => s \in condemned
=============================================================================
