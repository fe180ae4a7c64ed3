---------------------------- MODULE Http2Client -----------------------------
(* _Http2Connection (client.py): many requests over one socket.  Four kinds   *)
(* of coroutine share an h2.Connection and the table of streams: the read     *)
(* loop, each request waiting for its head, the task that sends its body, and *)
(* the consumer of its response.  What each does between two awaits is one    *)
(* action (the connection's lock is never held across one, and a drain is     *)
(* taken not to wait except in the read loop, where the events already        *)
(* received are handled after it).  An asyncio.Event cleared and awaited at   *)
(* once is the set of those parked on it.  The server is the environment.     *)
EXTENDS Naturals, Sequences, FiniteSets

CONSTANTS
    Requests,
    Limits,      \* the values the server's MAX_CONCURRENT_STREAMS takes
    Credit       \* the connection's receive window, in chunks
ASSUME CreditAssumption == Credit \in Nat

VARIABLES
    call,        \* Requests -> where the request, then its consumer, stands
    upload,      \* Requests -> the task that sends its body
    half,        \* Requests -> h2's state of the stream
    told,        \* Requests -> what the server has sent: nothing, head, end
    streams,     \* _Http2Connection._streams
    headed,      \* the streams whose head event is set
    broken,      \* the streams with an error
    queue,       \* Requests -> _Stream.chunks
    window,      \* Requests -> the send window of the stream
    event,       \* what receive_data returned and _handle has not seen
    limit,       \* remote_settings.max_concurrent_streams
    credit,      \* what is left of the receive window
    down         \* _Http2Connection._closed

streaming == <<streams, headed, broken, queue>>
h2Vars == <<call, upload, half, told, streaming, window, event, limit, credit, down>>

NoEvent == [kind |-> "none"]
(* h2 counts a stream until both sides have ended it, or one has reset it.    *)
Counted == {r \in Requests : half[r] \in {"open", "local", "remote"}}

H2Init ==
    /\ call = [r \in Requests |-> "asked"]
    /\ upload = [r \in Requests |-> "none"]
    /\ half = [r \in Requests |-> "idle"]
    /\ told = [r \in Requests |-> "nothing"]
    /\ streams = {} /\ headed = {} /\ broken = {}
    /\ queue = [r \in Requests |-> <<>>]
    /\ window = [r \in Requests |-> 0]
    /\ event = NoEvent
    /\ limit \in Limits
    /\ credit = Credit
    /\ down = FALSE

-----------------------------------------------------------------------------
(* Setting an event wakes everyone parked on it, whatever clears it later.    *)
GateOpens == [r \in Requests |-> IF call[r] = "gated" THEN "asked" ELSE call[r]]
Awoken(S) == [r \in Requests |-> IF r \in S /\ upload[r] = "parked" THEN "data" ELSE upload[r]]
EndOfQueue(S) == [r \in Requests |-> IF r \in S THEN Append(queue[r], "end") ELSE queue[r]]

(* _open_stream: the capacity check and the headers that take a slot are one  *)
(* step, and the task that sends the body follows; at the limit the request   *)
(* parks on the gate.                                                         *)
Open(r) ==
    /\ call[r] = "asked"
    /\ \/ /\ down
          /\ call' = [call EXCEPT ![r] = "gone"]
          /\ UNCHANGED <<upload, half, streams>>
       \/ /\ ~down /\ Cardinality(Counted) < limit
          /\ call' = [call EXCEPT ![r] = "head"]
          /\ half' = [half EXCEPT ![r] = "open"]
          /\ streams' = streams \cup {r}
          /\ upload' = [upload EXCEPT ![r] = "data"]
       \/ /\ ~down /\ Cardinality(Counted) >= limit
          /\ call' = [call EXCEPT ![r] = "gated"]
          /\ UNCHANGED <<upload, half, streams>>
    /\ UNCHANGED <<told, headed, broken, queue, window, event, limit, credit, down>>

(* _send_data for a chunk: it goes when the window has room, else the sender    *)
(* parks; a stream already reset, or a closed connection, ends the sending.   *)
SendsData(r) ==
    /\ upload[r] = "data"
    /\ \/ /\ down \/ half[r] = "closed"
          /\ upload' = [upload EXCEPT ![r] = "over"]
          /\ UNCHANGED window
       \/ /\ ~down /\ half[r] # "closed" /\ window[r] > 0
          /\ window' = [window EXCEPT ![r] = @ - 1]
          /\ upload' = [upload EXCEPT ![r] = "last"]
       \/ /\ ~down /\ half[r] # "closed" /\ window[r] = 0
          /\ upload' = [upload EXCEPT ![r] = "parked"]
          /\ UNCHANGED window
    /\ UNCHANGED <<call, half, told, streaming, event, limit, credit, down>>

(* The empty frame that ends the request's side of the stream.                *)
SendsEnd(r) ==
    /\ upload[r] = "last"
    /\ upload' = [upload EXCEPT ![r] = "over"]
    /\ half' = [half EXCEPT ![r] = IF down THEN @ ELSE
                    CASE @ = "open" -> "local" [] @ = "remote" -> "closed" [] OTHER -> @]
    /\ UNCHANGED <<call, told, streaming, window, event, limit, credit, down>>

(* abort: nothing for a stream no longer registered, else a reset, and the    *)
(* gate, since a slot came free without an event of the server's.             *)
Abort(r, p) ==
    \/ /\ r \in streams
       /\ streams' = streams \ {r}
       /\ half' = [half EXCEPT ![r] = "closed"]
       /\ call' = [GateOpens EXCEPT ![r] = p]
    \/ /\ r \notin streams
       /\ call' = [call EXCEPT ![r] = p]
       /\ UNCHANGED <<streams, half>>

(* The caller's body raises, or a write times out: _fail_stream.              *)
BodyFails(r) ==
    /\ upload[r] \in {"data", "parked", "last"}
    /\ upload' = [upload EXCEPT ![r] = "over"]
    /\ broken' = broken \cup {r}
    /\ headed' = headed \cup {r}
    /\ queue' = EndOfQueue({r})
    /\ Abort(r, call[r])
    /\ UNCHANGED <<told, window, event, limit, credit, down>>

-----------------------------------------------------------------------------
(* The request waits for its head; a failure or a cancellation there cancels  *)
(* the sender and resets the stream.                                          *)
HeadArrives(r) ==
    /\ call[r] = "head" /\ r \in headed \ broken
    /\ call' = [call EXCEPT ![r] = "body"]
    /\ UNCHANGED <<upload, half, told, streaming, window, event, limit, credit, down>>

(* With its caller gone and the table without it, nobody holds the _Stream.   *)
Forgets(r) ==
    /\ headed' = headed \ {r}
    /\ broken' = broken \ {r}
    /\ queue' = [queue EXCEPT ![r] = <<>>]

Withdraws(r) ==
    /\ upload' = [upload EXCEPT ![r] = "over"]
    /\ Abort(r, "gone")
    /\ Forgets(r)
    /\ UNCHANGED <<told, window, event, limit, credit, down>>

LosesHead(r) == call[r] = "head" /\ Withdraws(r)

(* A caller that gives up before its headers are sent has nothing to undo.    *)
GivesUp(r) ==
    /\ call[r] \in {"asked", "gated"}
    /\ call' = [call EXCEPT ![r] = "gone"]
    /\ UNCHANGED <<upload, half, told, streaming, window, event, limit, credit, down>>

(* _iter_body: a chunk is yielded, and only once the consumer asks for more   *)
(* is its credit given back.                                                  *)
Yields(r) ==
    /\ call[r] = "body" /\ queue[r] # <<>> /\ Head(queue[r]) = "data"
    /\ queue' = [queue EXCEPT ![r] = Tail(@)]
    /\ call' = [call EXCEPT ![r] = "chunk"]
    /\ UNCHANGED <<upload, half, told, streams, headed, broken, window, event, limit, credit, down>>

AcknowledgesNothing(r) ==
    /\ call[r] = "chunk"
    /\ call' = [call EXCEPT ![r] = "body"]
    /\ UNCHANGED <<upload, half, told, streaming, window, event, limit, credit, down>>

Acknowledges(r) ==
    /\ call[r] = "chunk"
    /\ call' = [call EXCEPT ![r] = "body"]
    /\ credit' = IF down THEN credit ELSE credit + 1
    /\ UNCHANGED <<upload, half, told, streaming, window, event, limit, down>>

(* The end of the queue: an error is raised, and the release that follows     *)
(* resets the stream; otherwise the body is over and the release cancels the  *)
(* sender and nothing else.                                                   *)
EndsBody(r) ==
    /\ call[r] = "body" /\ queue[r] # <<>> /\ Head(queue[r]) = "end"
    /\ \/ r \in broken /\ Withdraws(r)
       \/ /\ r \notin broken
          /\ call' = [call EXCEPT ![r] = "whole"]
          /\ upload' = [upload EXCEPT ![r] = "over"]
          /\ Forgets(r)
          /\ UNCHANGED <<half, told, streams, window, event, limit, credit, down>>

Quits(r) == call[r] \in {"body", "chunk"} /\ Withdraws(r)

-----------------------------------------------------------------------------
(* The read loop: receive_data changes h2's state and returns an event ...    *)
Speaking(r) == half[r] \in {"open", "local"} /\ told[r] # "end"

Receives(e) == event = NoEvent /\ ~down /\ event' = e

ReceivesHead(r) ==
    /\ Speaking(r) /\ told[r] = "nothing"
    /\ Receives([kind |-> "head", of |-> r])
    /\ told' = [told EXCEPT ![r] = "head"]
    /\ UNCHANGED <<call, upload, half, streaming, window, limit, credit, down>>

ReceivesData(r) ==
    /\ Speaking(r) /\ told[r] = "head" /\ credit > 0
    /\ Receives([kind |-> "data", of |-> r])
    /\ credit' = credit - 1
    /\ UNCHANGED <<call, upload, half, told, streaming, window, limit, down>>

ReceivesEnd(r) ==
    /\ Speaking(r) /\ told[r] = "head"
    /\ Receives([kind |-> "end", of |-> r])
    /\ told' = [told EXCEPT ![r] = "end"]
    /\ half' = [half EXCEPT ![r] = IF @ = "open" THEN "remote" ELSE "closed"]
    /\ UNCHANGED <<call, upload, streaming, window, limit, credit, down>>

ReceivesReset(r) ==
    /\ r \in Counted
    /\ Receives([kind |-> "reset", of |-> r])
    /\ half' = [half EXCEPT ![r] = "closed"]
    /\ UNCHANGED <<call, upload, told, streaming, window, limit, credit, down>>

ReceivesWindow(r) ==
    /\ half[r] \in {"open", "remote"} /\ window[r] = 0
    /\ Receives([kind |-> "window", of |-> r])
    /\ window' = [window EXCEPT ![r] = 1]
    /\ UNCHANGED <<call, upload, half, told, streaming, limit, credit, down>>

ReceivesSettings(n) ==
    /\ n # limit
    /\ Receives([kind |-> "settings"])
    /\ limit' = n
    /\ UNCHANGED <<call, upload, half, told, streaming, window, credit, down>>

(* ... and _handle applies it to the streams still registered.                *)
Consumed == event' = NoEvent /\ UNCHANGED <<half, told, window, limit, credit>>

HandlesHead ==
    /\ event.kind = "head" /\ Consumed
    /\ headed' = headed \cup ({event.of} \cap streams)
    /\ UNCHANGED <<call, upload, streams, broken, queue, down>>

HandlesData ==
    /\ event.kind = "data" /\ Consumed
    /\ queue' = [r \in Requests |-> IF r = event.of /\ r \in streams
                                    THEN Append(queue[r], "data") ELSE queue[r]]
    /\ UNCHANGED <<call, upload, streams, headed, broken, down>>

HandlesEnd ==
    /\ event.kind = "end" /\ Consumed
    /\ queue' = EndOfQueue({event.of} \cap streams)
    /\ streams' = streams \ {event.of}
    /\ call' = GateOpens
    /\ UNCHANGED <<upload, headed, broken, down>>

HandlesReset ==
    /\ event.kind = "reset" /\ Consumed
    /\ LET known == {event.of} \cap streams IN
       /\ broken' = broken \cup known
       /\ headed' = headed \cup known
       /\ queue' = EndOfQueue(known)
       /\ streams' = streams \ known
       /\ upload' = Awoken(known)
    /\ call' = GateOpens
    /\ UNCHANGED down

HandlesWindow ==
    /\ event.kind = "window" /\ Consumed
    /\ upload' = Awoken({event.of} \cap streams)
    /\ UNCHANGED <<call, streaming, down>>

HandlesSettings ==
    /\ event.kind = "settings" /\ Consumed
    /\ upload' = Awoken(streams)
    /\ call' = GateOpens
    /\ UNCHANGED <<streaming, down>>

(* _fail_pending, as the read loop ends: a stream without its head gets an    *)
(* error; one whose body is being read only gets the end of its queue.        *)
FailsPending ==
    /\ down' = TRUE
    /\ broken' = broken \cup (streams \ headed)
    /\ headed' = headed \cup streams
    /\ queue' = EndOfQueue(streams)
    /\ upload' = Awoken(streams)
    /\ streams' = {}
    /\ call' = GateOpens
    /\ event' = NoEvent
    /\ UNCHANGED <<half, told, window, limit, credit>>

(* The socket ends, the server says GOAWAY or breaks the protocol.            *)
Disconnects == event = NoEvent /\ ~down /\ FailsPending

Handles == \/ HandlesHead \/ HandlesData \/ HandlesEnd \/ HandlesReset
           \/ HandlesWindow \/ HandlesSettings

Caller(r) == Open(r) \/ HeadArrives(r) \/ LosesHead(r) \/ GivesUp(r)
Sender(r) == SendsData(r) \/ SendsEnd(r)
Consumer(r) == Yields(r) \/ Acknowledges(r) \/ EndsBody(r)
Server(r) == \/ ReceivesHead(r) \/ ReceivesData(r) \/ ReceivesEnd(r)
             \/ ReceivesReset(r) \/ ReceivesWindow(r)

H2Next ==
    \/ \E r \in Requests :
        Caller(r) \/ Sender(r) \/ BodyFails(r) \/ Consumer(r) \/ Quits(r) \/ Server(r)
    \/ \E n \in Limits : ReceivesSettings(n)
    \/ Handles \/ Disconnects

H2Spec == H2Init /\ [][H2Next]_h2Vars

(* The event loop runs whatever is ready: requests, senders, the read loop    *)
(* and the consumers that read on.  Nothing is asked of the server.           *)
H2Fairness ==
    /\ WF_h2Vars(Handles)
    /\ \A r \in Requests : WF_h2Vars(Open(r) \/ HeadArrives(r))
                           /\ WF_h2Vars(Sender(r)) /\ WF_h2Vars(Consumer(r))
H2FairSpec == H2Spec /\ H2Fairness

-----------------------------------------------------------------------------
H2TypeOK ==
    /\ call \in [Requests -> {"asked", "gated", "head", "body", "chunk", "whole", "gone"}]
    /\ upload \in [Requests -> {"none", "data", "parked", "last", "over"}]
    /\ half \in [Requests -> {"idle", "open", "local", "remote", "closed"}]
    /\ told \in [Requests -> {"nothing", "head", "end"}]
    /\ streams \subseteq Requests /\ headed \subseteq Requests /\ broken \subseteq Requests
    /\ queue \in [Requests -> Seq({"data", "end"})]
    /\ window \in [Requests -> 0 .. 1]
    /\ limit \in Limits
    /\ credit \in 0 .. Credit
    /\ down \in BOOLEAN

(* A response body that ended without an error is the whole body: the server  *)
(* ended the stream.  The exception is a connection that went down after the  *)
(* head, whose body ends early and silently (_fail_pending).                  *)
WholeOrRaised ==
    \A r \in Requests : call[r] = "whole" => told[r] = "end" \/ down

(* Flow control comes out even: while nobody abandons a response, every chunk *)
(* received is either waiting to be read or acknowledged, so a connection     *)
(* shared by any number of complete responses never runs out of credit.       *)
Unread == {c \in Requests \X (1 .. Credit) :
             c[2] \in DOMAIN queue[c[1]] /\ queue[c[1]][c[2]] = "data"}
InHand == {r \in Requests : call[r] = "chunk"}
CreditComesBack ==
    (~down /\ \A r \in Requests : call[r] # "gone" /\ r \notin broken)
        => Credit = credit + Cardinality(Unread) + Cardinality(InHand)
                     + (IF event.kind = "data" THEN 1 ELSE 0)

(* _open_stream's docstring: a lost wakeup at the gate costs a re-check,      *)
(* "never a stall": no request stays parked for ever while the server's limit *)
(* leaves it a slot.                                                          *)
GateNeverStalls ==
    \A r \in Requests : ~<>[](call[r] = "gated" /\ Cardinality(Counted) < limit)
=============================================================================
