-------------------------- MODULE WebsocketServer --------------------------
(* One WebSocket connection of the server (without_http/server.py): a pump    *)
(* that turns frames into the messages `receive' hands the application, while *)
(* `send' writes the application's frames, and the application may do both at *)
(* once.  The state of the protocol is wsproto's.                             *)
EXTENDS Naturals, Sequences, FiniteSets

CONSTANTS
    MaxMessage,     \* max_websocket_message_bytes: fragments of one byte
    MaxFrames,      \* frames the peer sends
    Uncapped        \* no max_websocket_message_bytes

ASSUME WebsocketAssumption == MaxMessage \in Nat /\ Uncapped \notin Nat

VARIABLES
    allowed,        \* the cap of this server
    proto,          \* wsproto: "handshake", "open", "localClosing", "closed", "rejected"
    frames,         \* frames on the way to the server
    sentFrames, peer,     \* how many the peer has sent, and whether it still may
    pumping,        \* the pump task
    parts,          \* bytes of the message being assembled
    whole,      \* messages the peer has whole and the pump has read
    inbound,        \* the queue
    farewells,           \* disconnects put into it
    given,          \* messages handed to the application
    closing,        \* the `finished' event
    accepted,
    receiving,      \* the application's task that calls receive
    appState,       \* the application
    appClosed       \* the application has sent its close

wsPeer == <<frames, sentFrames, peer>>
wsQueue == <<inbound, farewells>>
wsApp == <<receiving, given, appState, appClosed>>
wsVars == <<allowed, proto, wsPeer, pumping, parts, whole, wsQueue, closing, accepted, wsApp>>

WsInit ==
    /\ allowed \in {MaxMessage, Uncapped}
    /\ proto = "handshake"
    /\ frames = <<>> /\ sentFrames = 0 /\ peer = "open"
    /\ pumping = "reading" /\ parts = 0 /\ whole = 0
    /\ inbound = <<"connect">> /\ farewells = 0
    /\ closing = FALSE /\ accepted = FALSE
    /\ receiving = "no" /\ given = 0 /\ appState = "running" /\ appClosed = FALSE

-----------------------------------------------------------------------------
(* The peer, once the handshake is accepted.  A close ends what it sends.     *)
PeerSends ==
    /\ accepted /\ peer = "open" /\ sentFrames < MaxFrames
    /\ \E f \in {"part", "last", "ping", "close"} :
         /\ frames' = Append(frames, f)
         /\ peer' = IF f = "close" THEN "closed" ELSE peer
    /\ sentFrames' = sentFrames + 1
    /\ UNCHANGED <<allowed, proto, pumping, parts, whole, wsQueue, closing, accepted, wsApp>>

PeerGone ==
    /\ peer # "gone"
    /\ peer' = "gone"
    /\ UNCHANGED <<allowed, proto, frames, sentFrames, pumping, parts, whole, wsQueue, closing, accepted, wsApp>>

-----------------------------------------------------------------------------
(* The pump.  Every way out of it comes to PumpEnds, which tells the          *)
(* application unless somebody has finished the session before.               *)
PumpEnds ==
    /\ pumping' = "over"
    /\ inbound' = IF closing THEN inbound ELSE Append(inbound, "disconnect")
    /\ farewells' = farewells + (IF closing THEN 0 ELSE 1)
    /\ closing' = TRUE

Reading == pumping = "reading" /\ frames # <<>> /\ proto \in {"open", "localClosing"}

Oversized(size) == allowed # Uncapped /\ size > allowed

(* A fragment, which may complete its message.                                *)
PumpsData ==
    /\ Reading /\ Head(frames) \in {"part", "last"} /\ ~Oversized(parts + 1)
    /\ frames' = Tail(frames)
    /\ IF Head(frames) = "last"
       THEN /\ parts' = 0 /\ whole' = whole + 1
            /\ inbound' = Append(inbound, "message")
       ELSE parts' = parts + 1 /\ UNCHANGED <<whole, inbound>>
    /\ UNCHANGED <<allowed, proto, sentFrames, peer, pumping, farewells, closing, accepted, wsApp>>

(* reject_oversized: a close of its own, where wsproto lets it.               *)
PumpsTooMuch ==
    /\ Reading /\ Head(frames) \in {"part", "last"} /\ Oversized(parts + 1)
    /\ frames' = Tail(frames)
    /\ IF proto = "open"
       THEN /\ proto' = "localClosing"
            /\ inbound' = Append(inbound, "disconnect") /\ farewells' = farewells + 1
            /\ pumping' = "over" /\ closing' = TRUE
       ELSE PumpEnds /\ UNCHANGED proto
    /\ UNCHANGED <<allowed, sentFrames, peer, parts, whole, accepted, wsApp>>

PumpsPing ==
    /\ Reading /\ Head(frames) = "ping"
    /\ frames' = Tail(frames)
    /\ IF proto = "open"
       THEN UNCHANGED <<pumping, wsQueue, closing>>
       ELSE PumpEnds      \* wsproto refuses to send the pong
    /\ UNCHANGED <<allowed, proto, sentFrames, peer, parts, whole, accepted, wsApp>>

(* The peer's close is answered; after a close of our own there is no answer  *)
(* to send, and wsproto raises out of the pump.                               *)
PumpsClose ==
    /\ Reading /\ Head(frames) = "close"
    /\ frames' = Tail(frames)
    /\ proto' = "closed"
    /\ IF proto = "open"
       THEN /\ inbound' = Append(inbound, "disconnect") /\ farewells' = farewells + 1
            /\ pumping' = "over" /\ closing' = TRUE
       ELSE PumpEnds
    /\ UNCHANGED <<allowed, sentFrames, peer, parts, whole, accepted, wsApp>>

(* The end of the connection, a read that fails, or one that idles too long.  *)
ReadEnds ==
    /\ pumping = "reading"
    /\ frames = <<>> \/ peer = "gone"
    /\ frames' = <<>>
    /\ PumpEnds
    /\ UNCHANGED <<allowed, proto, sentFrames, peer, parts, whole, accepted, wsApp>>

-----------------------------------------------------------------------------
(* The application's `receive'.                                               *)
CallsReceive ==
    /\ appState = "running" /\ receiving = "no"
    /\ receiving' = IF closing /\ inbound = <<>> THEN "disconnected" ELSE "waiting"
    /\ UNCHANGED <<allowed, proto, wsPeer, pumping, parts, whole, wsQueue, closing, accepted,
                   given, appState, appClosed>>

GetsMessage ==
    /\ receiving = "waiting" /\ inbound # <<>> /\ appState = "running"
    /\ inbound' = Tail(inbound)
    /\ given' = IF Head(inbound) = "message" THEN given + 1 ELSE given
    /\ receiving' = IF Head(inbound) = "disconnect" THEN "disconnected" ELSE "no"
    /\ UNCHANGED <<allowed, proto, wsPeer, pumping, parts, whole, farewells, closing, accepted,
                   appState, appClosed>>

(* Its `send': wsproto raises into the application what its state forbids.    *)
AcceptsSocket ==
    /\ appState = "running" /\ proto = "handshake"
    /\ proto' = "open" /\ accepted' = TRUE
    /\ UNCHANGED <<allowed, wsPeer, pumping, parts, whole, wsQueue, closing, wsApp>>

SendsClose ==
    /\ appState = "running" /\ proto \in {"handshake", "open"}
    /\ proto' = IF accepted THEN "localClosing" ELSE "rejected"
    /\ closing' = TRUE /\ appClosed' = TRUE
    /\ UNCHANGED <<allowed, wsPeer, pumping, parts, whole, wsQueue, accepted, receiving, given, appState>>

SendIsRefused ==
    /\ appState = "running" /\ proto \notin {"handshake", "open"}
    /\ appState' = "raised"
    /\ pumping' = IF pumping = "reading" THEN "cancelled" ELSE pumping
    /\ UNCHANGED <<allowed, proto, wsPeer, parts, whole, wsQueue, closing, accepted, receiving, given, appClosed>>

(* The application is over, and its background pump with it.                  *)
AppReturns ==
    /\ appState = "running" /\ receiving # "waiting"
    /\ appState' = "returned"
    /\ pumping' = IF pumping = "reading" THEN "cancelled" ELSE pumping
    /\ UNCHANGED <<allowed, proto, wsPeer, parts, whole, wsQueue, closing, accepted, receiving, given, appClosed>>

WsNext ==
    \/ PeerSends \/ PeerGone
    \/ PumpsData \/ PumpsTooMuch \/ PumpsPing \/ PumpsClose \/ ReadEnds
    \/ CallsReceive \/ GetsMessage \/ AcceptsSocket \/ SendsClose \/ SendIsRefused \/ AppReturns

WsSpec == WsInit /\ [][WsNext]_wsVars

-----------------------------------------------------------------------------
(* The application gets the peer's messages, each once and none beyond the    *)
(* cap, and then one disconnect at most; once the pump is over nobody waits   *)
(* for a message that cannot come.  The exception is an application that      *)
(* closed the session itself while it was waiting: it is not told, although   *)
(* the comment in the pump has every end become a disconnect (367-369).       *)
Queued(what) == Cardinality({i \in DOMAIN inbound : inbound[i] = what})

SessionIsTold ==
    /\ whole = given + Queued("message")
    /\ farewells <= 1
    /\ \A i \in DOMAIN inbound : inbound[i] = "disconnect" => i = Len(inbound)
    /\ allowed # Uncapped => parts <= allowed
    /\ pumping = "over" => closing /\ (farewells = 1 \/ appClosed)
    /\ pumping = "over" /\ receiving = "waiting" => inbound # <<>> \/ appClosed
=============================================================================
