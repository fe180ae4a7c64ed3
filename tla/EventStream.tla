---------------------------- MODULE EventStream ----------------------------
(* Server-sent events from a producer to a subscriber: with_heartbeat and     *)
(* event_stream on the sending side (without_asgi/sse.py), a wire that may be *)
(* cut anywhere, parse_events_with_directives, and the loop of subscribe that *)
(* reconnects from the last id (without_http/sse.py).  The producer is the    *)
(* application's: it takes up its feed behind the id it is asked to resume    *)
(* from.  A frame's id is its place in the feed, 0 stands for the empty id.   *)
EXTENDS Naturals, Sequences, FiniteSets

CONSTANTS
    Feed,        \* the frames a producer has, each an Event, a Checkpoint or a Retry
    Reconnect, MinimumReconnect, MaximumReconnect,
    ChunkSize    \* line ends and lines in a chunk, at most

ASSUME ReconnectAssumption ==
    /\ {Reconnect, MinimumReconnect, MaximumReconnect} \subseteq Nat
    /\ MinimumReconnect <= MaximumReconnect
(* `_data_lines' gives an event one line of data at least.                    *)
ASSUME FeedAssumption ==
    /\ Feed \in Seq([kind : {"Event", "Checkpoint", "Retry"}, id : BOOLEAN, lines : Nat, after : Nat])
    /\ \A n \in 1 .. Len(Feed) : Feed[n].kind = "Event" => Feed[n].lines > 0
    /\ ChunkSize \in Nat

VARIABLES
    breaks,      \* the line terminator this producer writes
    cap,         \* max_event_size, in lines kept
    server,      \* the response: its task that pulls, and where in the feed it is
    wire,        \* lines and terminators sent and not read
    wireEnd,     \* "open", or how the connection ends
    parser,      \* the state of parse_events_with_directives
    sub,         \* what subscribe is doing
    lastId, wait, established,   \* its variables
    inHand,      \* items parsed from the chunk and not yet handed on
    seen, again  \* events handed to the caller whole, and those handed twice

serverSide == <<breaks, server>>
subscriber == <<lastId, wait, established>>
history == <<seen, again>>
sseVars == <<cap, serverSide, wire, wireEnd, parser, sub, subscriber, inHand, history>>

Places == 1 .. Len(Feed)
Line(field, n) == [field |-> field, n |-> n]
None == Line("none", 0)
CR == Line("CR", 0)
LF == Line("LF", 0)
LineEnds == {CR, LF}
NoResponse == [pull |-> "none", at |-> 0]

(* A connection's parser starts from the id the connection resumed with.      *)
Parser(id) == [held |-> FALSE, pending |-> None, data |-> <<>>, last |-> id, reported |-> id]

SseInit ==
    /\ breaks \in {<<LF>>, <<CR>>, <<CR, LF>>}
    /\ cap \in {2, 9}
    /\ server = NoResponse
    /\ wire = <<>> /\ wireEnd = "open"
    /\ parser = Parser(0)
    /\ sub = "connecting"
    /\ lastId = 0 /\ wait = Reconnect /\ established = FALSE
    /\ inHand = <<>>
    /\ seen = {} /\ again = {}

-----------------------------------------------------------------------------
(* The sending side.  encode_event: the lines of a frame, and the blank line. *)
Lines(n) ==
    LET f == Feed[n] IN
    CASE f.kind = "Event" -> (IF f.id THEN <<Line("id", n)>> ELSE <<>>)
                             \o [i \in 1 .. f.lines |-> Line("data", n)]
      [] f.kind = "Checkpoint" -> <<Line("id", n)>>
      [] f.kind = "Retry" -> <<Line("retry", f.after)>>

Rendered(lines) ==
    LET write[i \in 0 .. Len(lines)] ==
            IF i = 0 THEN <<>> ELSE write[i - 1] \o <<lines[i]>> \o breaks
    IN  write
Terminated(lines) == Rendered(lines)[Len(lines)] \o breaks

Heartbeat == Terminated(<<Line("comment", 0)>>)

(* The source has its next frame, or none left.                               *)
Produces ==
    /\ server.pull = "pulling"
    /\ server' = [server EXCEPT !.pull = IF server.at < Len(Feed) THEN "done" ELSE "over"]
    /\ UNCHANGED <<breaks, cap, wire, wireEnd, parser, sub, subscriber, inHand, history>>

Sends ==
    /\ server.pull = "done" /\ wireEnd = "open"
    /\ wire' = wire \o Terminated(Lines(server.at + 1))
    /\ server' = [pull |-> "pulling", at |-> server.at + 1]
    /\ UNCHANGED <<breaks, cap, wireEnd, parser, sub, subscriber, inHand, history>>

(* `every' passes in silence: the beat goes out, and the pull is left alone.  *)
Beats ==
    /\ server.pull = "pulling" /\ wireEnd = "open" /\ wire = <<>>
    /\ wire' = Heartbeat
    /\ UNCHANGED <<serverSide, cap, wireEnd, parser, sub, subscriber, inHand, history>>

EventStreamEnds ==
    /\ server.pull = "over" /\ wireEnd = "open"
    /\ server' = NoResponse
    /\ wireEnd' = "eof"
    /\ UNCHANGED <<breaks, cap, wire, parser, sub, subscriber, inHand, history>>

(* The connection is cut: the end of what was sent is lost, and the reader    *)
(* gets an end or an error.  The response is closed, and the source with it.  *)
Cut ==
    /\ sub = "reading" /\ wireEnd = "open"
    /\ \E n \in 0 .. Len(wire), how \in {"eof", "error"} :
         wire' = SubSeq(wire, 1, n) /\ wireEnd' = how
    /\ server' = NoResponse
    /\ UNCHANGED <<breaks, cap, parser, sub, subscriber, inHand, history>>

-----------------------------------------------------------------------------
(* handle: one line, or a blank one, which dispatches.                        *)
Dispatch(p) ==
    LET kept == [p EXCEPT !.data = <<>>, !.reported = p.last] IN
    CASE p.data # <<>> -> [to |-> kept, items |-> <<[kind |-> "Event", n |-> p.data[1], id |-> p.last, lines |-> Len(p.data)]>>]
      [] p.data = <<>> /\ p.last # p.reported ->
            [to |-> kept, items |-> <<[kind |-> "Checkpoint", n |-> 0, id |-> p.last, lines |-> 0]>>]
      [] OTHER -> [to |-> [p EXCEPT !.data = <<>>], items |-> <<>>]

Handle(p, line) ==
    CASE line = None -> Dispatch(p)
      [] line.field = "data" -> [to |-> [p EXCEPT !.data = Append(@, line.n)], items |-> <<>>]
      [] line.field = "id" -> [to |-> [p EXCEPT !.last = line.n], items |-> <<>>]
      [] line.field = "retry" -> [to |-> p, items |-> <<[kind |-> "Retry", n |-> line.n, id |-> 0, lines |-> 0]>>]
      [] line.field = "comment" -> [to |-> p, items |-> <<>>]

Cleared(p) == [held |-> FALSE, pending |-> None, data |-> p.data, last |-> p.last, reported |-> p.reported]
EndsLine(p) == Handle(Cleared(p), p.pending)

(* A parser that ends the line at once takes the pair for two line ends.      *)
ReadsEager(p, mark) ==
    IF mark \in LineEnds THEN EndsLine(p) ELSE [to |-> [p EXCEPT !.pending = mark], items |-> <<>>]

(* One mark of a chunk.  A return is held until it is known what follows it:  *)
(* the line feed of a pair, which ends nothing more.                          *)
ReadsMark(p, mark) ==
    LET before == IF p.held /\ mark # LF THEN EndsLine(p) ELSE [to |-> p, items |-> <<>>]
        after == CASE mark = LF -> EndsLine(before.to)
                   [] mark = CR -> [to |-> [before.to EXCEPT !.held = TRUE], items |-> <<>>]
                   [] mark \notin LineEnds -> [to |-> [before.to EXCEPT !.pending = mark], items |-> <<>>]
    IN  [to |-> after.to, items |-> before.items \o after.items]

ReadsNext(r, mark) ==
    LET next == ReadsMark(r.to, mark) IN [to |-> next.to, items |-> r.items \o next.items]
ReadsThrough(p, chunk) ==
    LET read[i \in 0 .. Len(chunk)] ==
            IF i = 0 THEN [to |-> p, items |-> <<>>] ELSE ReadsNext(read[i - 1], chunk[i])
    IN  read
Parsed(p, chunk) == ReadsThrough(p, chunk)[Len(chunk)]

Retained(p) == Len(p.data) + (IF p.pending = None THEN 0 ELSE 1)

ReadsChunk ==
    /\ sub = "reading" /\ inHand = <<>> /\ wire # <<>>
    /\ \E n \in 1 .. ChunkSize :
         /\ n <= Len(wire)
         /\ wire' = SubSeq(wire, n + 1, Len(wire))
         /\ LET r == Parsed(parser, SubSeq(wire, 1, n))
            IN  /\ parser' = r.to
                /\ inHand' = r.items
                /\ sub' = IF Retained(r.to) > cap THEN "oversized" ELSE "reading"
    /\ UNCHANGED <<serverSide, cap, wireEnd, subscriber, history>>

(* The stream is over: a return still held did end its line; a frame without  *)
(* its blank line is not dispatched.                                          *)
AtEnd(p) == IF p.held THEN EndsLine(p) ELSE [to |-> p, items |-> <<>>]

StreamOver ==
    /\ sub = "reading" /\ inHand = <<>> /\ wire = <<>> /\ wireEnd \in {"eof", "error"}
    /\ sub' = "draining"
    /\ LET r == IF wireEnd = "eof" THEN AtEnd(parser) ELSE [to |-> parser, items |-> <<>>]
       IN  parser' = r.to /\ inHand' = r.items
    /\ UNCHANGED <<serverSide, cap, wire, wireEnd, subscriber, history>>

-----------------------------------------------------------------------------
(* _subscribed.                                                               *)
Connected(at) == server' = [pull |-> "pulling", at |-> at]

Subscribes ==
    /\ sub = "connecting"
    /\ sub' = "reading" /\ established' = TRUE
    /\ Connected(lastId)
    /\ wire' = <<>> /\ wireEnd' = "open"
    /\ parser' = Parser(lastId)
    /\ UNCHANGED <<breaks, cap, lastId, wait, inHand, history>>

(* The attempt fails: the first one is the caller's to know of.               *)
AttemptFails ==
    /\ sub = "connecting"
    /\ sub' = IF established THEN "sleeping" ELSE "unreachable"
    /\ UNCHANGED <<serverSide, cap, wire, wireEnd, parser, subscriber, inHand, history>>

NotAnEventStream ==
    /\ sub = "connecting"
    /\ sub' = "refused"
    /\ UNCHANGED <<serverSide, cap, wire, wireEnd, parser, subscriber, inHand, history>>

Within(after) ==
    LET floored == IF after < MinimumReconnect THEN MinimumReconnect ELSE after
    IN  IF floored > MaximumReconnect THEN MaximumReconnect ELSE floored

Handing == sub \in {"reading", "draining", "oversized"} /\ inHand # <<>>

HandsEvent ==
    /\ Handing /\ Head(inHand).kind = "Event"
    /\ lastId' = Head(inHand).id
    /\ LET n == Head(inHand).n
       IN  /\ seen' = IF Head(inHand).lines = Feed[n].lines THEN seen \cup {n} ELSE seen
           /\ again' = IF n \in seen THEN again \cup {n} ELSE again
    /\ inHand' = Tail(inHand)
    /\ UNCHANGED <<serverSide, cap, wire, wireEnd, parser, sub, wait, established>>

TakesRetry ==
    /\ Handing /\ Head(inHand).kind = "Retry"
    /\ wait' = Within(Head(inHand).n)
    /\ inHand' = Tail(inHand)
    /\ UNCHANGED <<serverSide, cap, wire, wireEnd, parser, sub, lastId, established, history>>

MovesOn ==
    /\ Handing /\ Head(inHand).kind = "Checkpoint"
    /\ lastId' = Head(inHand).id
    /\ inHand' = Tail(inHand)
    /\ UNCHANGED <<serverSide, cap, wire, wireEnd, parser, sub, wait, established, history>>

(* The parser's ValueError is not a dropped stream: it ends the subscription. *)
TooBig ==
    /\ sub = "oversized" /\ inHand = <<>>
    /\ sub' = "raised"
    /\ server' = NoResponse
    /\ UNCHANGED <<breaks, cap, wire, wireEnd, parser, subscriber, inHand, history>>

Drops ==
    /\ sub = "draining" /\ inHand = <<>>
    /\ sub' = "sleeping"
    /\ UNCHANGED <<serverSide, cap, wire, wireEnd, parser, subscriber, inHand, history>>

Sleeps ==
    /\ sub = "sleeping"
    /\ sub' = "connecting"
    /\ UNCHANGED <<serverSide, cap, wire, wireEnd, parser, subscriber, inHand, history>>

(* aclose, at a yield: the parser and the body are closed with it.            *)
CallerLeaves ==
    /\ sub \in {"reading", "draining"}
    /\ sub' = "closed"
    /\ server' = NoResponse
    /\ UNCHANGED <<breaks, cap, wire, wireEnd, parser, subscriber, inHand, history>>

SseNext ==
    \/ Produces \/ Sends \/ Beats \/ EventStreamEnds \/ Cut
    \/ ReadsChunk \/ StreamOver
    \/ Subscribes \/ AttemptFails \/ NotAnEventStream
    \/ HandsEvent \/ TakesRetry \/ MovesOn \/ TooBig \/ Drops \/ Sleeps \/ CallerLeaves

SseSpec == SseInit /\ [][SseNext]_sseVars

-----------------------------------------------------------------------------
Events == {n \in Places : Feed[n].kind = "Event"}

(* However often the stream is cut, and wherever in a frame or a line end,    *)
(* the caller gets the feed without a gap, an event that carries an id just   *)
(* once, and the point a connection resumes from is never past an event it    *)
(* was not handed.  The wait between two connections stays in its window.     *)
ResumesWithoutGap ==
    /\ \A n \in seen : \A m \in Events : m < n => m \in seen
    /\ \A n \in again : ~Feed[n].id
    /\ seen \subseteq Events
    /\ \A m \in Events : m <= lastId => m \in seen
    /\ wait = Reconnect \/ wait \in MinimumReconnect .. MaximumReconnect
    /\ sub = "unreachable" => ~established /\ seen = {}
=============================================================================
