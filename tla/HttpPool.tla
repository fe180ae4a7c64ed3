------------------------------ MODULE HttpPool ------------------------------
(* One origin's share of a ConnectionPool (client.py): the lock under which   *)
(* the first request learns what the origin speaks, the HTTP/2 connection the *)
(* later ones share, and the _HostPool that lends HTTP/1.1 connections under  *)
(* a bound.  An action is what one coroutine does between two awaits.         *)
(* A permit tracks a checkout and not a socket: Held counts checkouts, Live   *)
(* counts sockets, and the two move at different moments.                     *)
EXTENDS Naturals, Sequences, FiniteSets

CONSTANTS Callers, Sockets, Nobody, NoSocket, MaxConnections, MaxKeepalive

ASSUME PoolAssumption ==
    /\ IsFiniteSet(Callers)
    /\ NoSocket \notin Sockets /\ Nobody \notin Callers
    /\ MaxConnections \in Nat \ {0}

VARIABLES
    stage,     \* Callers -> how far the request has come
    socket,    \* Callers -> the connection it has in hand
    sender,    \* Callers -> the task that streams its request body
    link,      \* Sockets -> closed, open, or gone: the peer has hung up
    sent,      \* Sockets -> h11's side that sends: idle, busy or done
    heard,     \* Sockets -> h11's side that receives
    idle,      \* _HostPool.idle
    permits,   \* the semaphore's value
    waiting,   \* the semaphore's waiters, first come first served
    shut,      \* _HostPool.closed
    lock,      \* the origin's asyncio.Lock
    h2,        \* ConnectionPool._h2: none, up, or down (no longer usable)
    lines,     \* HTTP/2 connections started and still up
    h11only    \* the origin is in _h11_only

exchanges == <<stage, socket, sender>>
wires == <<link, sent, heard>>
hosted == <<idle, permits, waiting, shut>>
origin == <<lock, h2, lines, h11only>>
poolVars == <<exchanges, wires, hosted, origin>>

Holding == {"granted", "opening", "head", "body", "closing"}
Live == {s \in Sockets : link[s] # "closed"}
Unheld == {s \in Sockets : link[s] = "closed" /\ \A c \in Callers : socket[c] # s}
(* A new connection is one nobody holds; which name it gets is all the same.  *)
New(s) == Unheld # {} /\ s = CHOOSE unheld \in Unheld : TRUE

PoolInit ==
    /\ stage = [c \in Callers |-> "new"]
    /\ socket = [c \in Callers |-> NoSocket]
    /\ sender = [c \in Callers |-> "none"]
    /\ link = [s \in Sockets |-> "closed"]
    /\ sent = [s \in Sockets |-> "idle"]
    /\ heard = [s \in Sockets |-> "idle"]
    /\ idle = <<>>
    /\ permits = MaxConnections
    /\ waiting = <<>>
    /\ shut = FALSE
    /\ lock = Nobody
    /\ h2 = "none"
    /\ lines = 0
    /\ h11only = FALSE

-----------------------------------------------------------------------------
(* Semaphore.release: a permit goes to whoever waits longest, who runs later. *)
GiveBack(c) ==
    IF waiting = <<>>
    THEN /\ permits' = permits + 1
         /\ stage' = [stage EXCEPT ![c] = "done"]
         /\ UNCHANGED waiting
    ELSE /\ stage' = [stage EXCEPT ![c] = "done", ![Head(waiting)] = "granted"]
         /\ waiting' = Tail(waiting)
         /\ UNCHANGED permits

(* The idle connection `checkout` settles on: the last one still usable.      *)
Usable == {i \in DOMAIN idle : link[idle[i]] = "open"}
Newest == CHOOSE i \in Usable : \A j \in Usable : j <= i
Unusable(k) == {idle[j] : j \in k + 1 .. Len(idle)}

(* checkout, past the permit: a preopened connection, else an idle one, else  *)
(* a new one; the idle ones passed over are closed.                           *)
Lend(c) ==
    \/ /\ socket[c] # NoSocket
       /\ stage' = [stage EXCEPT ![c] = "head"]
       /\ UNCHANGED <<socket, link, idle>>
    \/ /\ socket[c] = NoSocket /\ Usable # {}
       /\ stage' = [stage EXCEPT ![c] = "head"]
       /\ socket' = [socket EXCEPT ![c] = idle[Newest]]
       /\ link' = [s \in Sockets |-> IF s \in Unusable(Newest) THEN "closed" ELSE link[s]]
       /\ idle' = SubSeq(idle, 1, Newest - 1)
    \/ /\ socket[c] = NoSocket /\ Usable = {}
       /\ stage' = [stage EXCEPT ![c] = "opening"]
       /\ link' = [s \in Sockets |-> IF s \in Unusable(0) THEN "closed" ELSE link[s]]
       /\ idle' = <<>>
       /\ UNCHANGED socket

Checkout(c) ==
    \/ /\ permits > 0 /\ waiting = <<>>
       /\ permits' = permits - 1
       /\ Lend(c)
       /\ UNCHANGED <<waiting, shut>>
    \/ /\ permits = 0 \/ waiting # <<>>
       /\ waiting' = Append(waiting, c)
       /\ stage' = [stage EXCEPT ![c] = "queued"]
       /\ UNCHANGED <<socket, link, idle, permits, shut>>

(* _request_secure: the shared connection, or HTTP/1.1 when the origin is     *)
(* known to speak nothing else, or the lock that settles which.               *)
Begin(c) ==
    /\ stage[c] = "new"
    /\ h2' = IF h2 = "down" THEN "none" ELSE h2
    /\ \/ /\ h2 = "up"
          /\ stage' = [stage EXCEPT ![c] = "h2"]
          /\ UNCHANGED <<socket, link, hosted>>
       \/ /\ h2 # "up" /\ ~h11only
          /\ stage' = [stage EXCEPT ![c] = "locking"]
          /\ UNCHANGED <<socket, link, hosted>>
       \/ /\ h2 # "up" /\ h11only
          /\ Checkout(c)
    /\ UNCHANGED <<sender, sent, heard, lock, lines, h11only>>

(* Under the lock both answers are read again: another may have found out.    *)
Locked(c) ==
    /\ stage[c] = "locking" /\ lock = Nobody
    /\ h2' = IF h2 = "down" THEN "none" ELSE h2
    /\ \/ /\ h2 = "up"
          /\ stage' = [stage EXCEPT ![c] = "h2"]
          /\ UNCHANGED <<socket, link, hosted, lock>>
       \/ /\ h2 # "up" /\ ~h11only
          /\ stage' = [stage EXCEPT ![c] = "shaking"]
          /\ lock' = c
          /\ UNCHANGED <<socket, link, hosted>>
       \/ /\ h2 # "up" /\ h11only
          /\ Checkout(c)
          /\ UNCHANGED lock
    /\ UNCHANGED <<sender, sent, heard, lines, h11only>>

(* The handshake chose HTTP/2: the connection is stored for everyone.         *)
ShakesH2(c) ==
    /\ stage[c] = "shaking"
    /\ h2' = "up"
    /\ lines' = lines + 1
    /\ lock' = Nobody
    /\ stage' = [stage EXCEPT ![c] = "h2"]
    /\ UNCHANGED <<socket, sender, wires, hosted, h11only>>

(* It chose HTTP/1.1: the origin is remembered, and the connection already    *)
(* open is handed to checkout, the lock released on the way without an await. *)
Falls(c, s) ==
    /\ stage[c] = "shaking" /\ New(s)
    /\ h11only' = TRUE
    /\ lock' = Nobody
    /\ socket' = [socket EXCEPT ![c] = s]
    /\ link' = [link EXCEPT ![s] = "open"]
    /\ sent' = [sent EXCEPT ![s] = "idle"]
    /\ heard' = [heard EXCEPT ![s] = "idle"]
    /\ \/ /\ permits > 0 /\ waiting = <<>>
          /\ permits' = permits - 1
          /\ stage' = [stage EXCEPT ![c] = "head"]
          /\ UNCHANGED waiting
       \/ /\ permits = 0 \/ waiting # <<>>
          /\ waiting' = Append(waiting, c)
          /\ stage' = [stage EXCEPT ![c] = "queued"]
          /\ UNCHANGED permits
    /\ UNCHANGED <<sender, idle, shut, h2, lines>>

(* A caller whose permit came while it waited.                                *)
Granted(c) ==
    /\ stage[c] = "granted"
    /\ Lend(c)
    /\ UNCHANGED <<sender, sent, heard, permits, waiting, shut, origin>>

Opens(c, s) ==
    /\ stage[c] = "opening" /\ New(s)
    /\ stage' = [stage EXCEPT ![c] = "head"]
    /\ socket' = [socket EXCEPT ![c] = s]
    /\ link' = [link EXCEPT ![s] = "open"]
    /\ sent' = [sent EXCEPT ![s] = "idle"]
    /\ heard' = [heard EXCEPT ![s] = "idle"]
    /\ UNCHANGED <<sender, hosted, origin>>

-----------------------------------------------------------------------------
(* send_head, then the task that streams the body beside the response.        *)
SendHead(c) ==
    /\ stage[c] = "head" /\ sender[c] = "none"
    /\ sender' = [sender EXCEPT ![c] = "running"]
    /\ sent' = [sent EXCEPT ![socket[c]] = "busy"]
    /\ heard' = [heard EXCEPT ![socket[c]] = "busy"]
    /\ UNCHANGED <<stage, socket, link, hosted, origin>>

ReadHead(c) ==
    /\ stage[c] = "head" /\ sender[c] # "none" /\ link[socket[c]] # "closed"
    /\ stage' = [stage EXCEPT ![c] = "body"]
    /\ UNCHANGED <<socket, sender, wires, hosted, origin>>

(* send_body: to the end; or no further, the peer gone; or failed by the      *)
(* caller's own body or a write timeout, and then the transport is aborted.   *)
SentAll(c) ==
    /\ sender[c] = "running" /\ link[socket[c]] = "open"
    /\ sender' = [sender EXCEPT ![c] = "returned"]
    /\ sent' = [sent EXCEPT ![socket[c]] = "done"]
    /\ UNCHANGED <<stage, socket, link, heard, hosted, origin>>

SendStops(c) ==
    /\ sender[c] = "running" /\ link[socket[c]] = "gone"
    /\ sender' = [sender EXCEPT ![c] = "returned"]
    /\ UNCHANGED <<stage, socket, wires, hosted, origin>>

SendFails(c) ==
    /\ sender[c] = "running" /\ link[socket[c]] # "closed"
    /\ sender' = [sender EXCEPT ![c] = "returned"]
    /\ link' = [link EXCEPT ![socket[c]] = "closed"]
    /\ UNCHANGED <<stage, socket, sent, heard, hosted, origin>>

ReadAll(c) ==
    /\ stage[c] = "body" /\ heard[socket[c]] = "busy" /\ link[socket[c]] # "closed"
    /\ heard' = [heard EXCEPT ![socket[c]] = "done"]
    /\ UNCHANGED <<exchanges, link, sent, hosted, origin>>

(* checkin of a connection that is not kept: it is aborted, and the permit    *)
(* waits for the transport to have closed.                                    *)
Discards(c) ==
    /\ stage' = [stage EXCEPT ![c] = "closing"]
    /\ link' = [link EXCEPT ![socket[c]] = "closed"]
    /\ socket' = [socket EXCEPT ![c] = NoSocket]
    /\ UNCHANGED <<sent, heard, idle, permits, waiting>>

(* Anything that fails before the response is handed over, a cancellation     *)
(* included, ends the sender and hands the connection back unreusable.        *)
HeadFails(c) ==
    /\ stage[c] = "head"
    /\ Discards(c)
    /\ sender' = [sender EXCEPT ![c] = "none"]
    /\ UNCHANGED <<shut, origin>>

(* What `release` asks before a connection may be used again.                 *)
Reusable(c, whole) ==
    /\ whole
    /\ sender[c] # "running"
    /\ sent[socket[c]] = "done" /\ heard[socket[c]] = "done"
    /\ link[socket[c]] = "open"

Keeps(c) ==
    /\ idle' = Append(idle, socket[c])
    /\ sent' = [sent EXCEPT ![socket[c]] = "idle"]
    /\ heard' = [heard EXCEPT ![socket[c]] = "idle"]
    /\ socket' = [socket EXCEPT ![c] = NoSocket]
    /\ GiveBack(c)
    /\ UNCHANGED link

(* release, at the end of the body or when it is closed early: cancel the     *)
(* sender, decide, check the connection in.                                   *)
Release(c) ==
    /\ stage[c] = "body"
    /\ \E whole \in {FALSE} \cup (IF heard[socket[c]] = "done" THEN {TRUE} ELSE {}) :
        LET keep == Reusable(c, whole) /\ ~shut /\ Len(idle) < MaxKeepalive IN
        \/ keep /\ Keeps(c)
        \/ ~keep /\ Discards(c)
    /\ sender' = [sender EXCEPT ![c] = "none"]
    /\ UNCHANGED <<shut, origin>>

Closed(c) ==
    /\ stage[c] = "closing"
    /\ GiveBack(c)
    /\ UNCHANGED <<socket, sender, wires, idle, shut, origin>>

-----------------------------------------------------------------------------
(* A timeout, a failed connect or a cancellation at each of the awaits.       *)
GivesUpLocking(c) ==
    /\ stage[c] \in {"locking", "shaking"}
    /\ lock' = IF lock = c THEN Nobody ELSE lock
    /\ stage' = [stage EXCEPT ![c] = "done"]
    /\ UNCHANGED <<socket, sender, wires, hosted, h2, lines, h11only>>

GivesUpQueued(c) ==
    /\ stage[c] = "queued"
    /\ \E k \in DOMAIN waiting :
        /\ waiting[k] = c
        /\ waiting' = SubSeq(waiting, 1, k - 1) \o SubSeq(waiting, k + 1, Len(waiting))
    /\ stage' = [stage EXCEPT ![c] = "done"]
    /\ link' = [s \in Sockets |-> IF s = socket[c] THEN "closed" ELSE link[s]]
    /\ socket' = [socket EXCEPT ![c] = NoSocket]
    /\ UNCHANGED <<sender, sent, heard, idle, permits, shut, origin>>

(* Granted and cancelled before it ran: Semaphore.acquire passes the permit   *)
(* on.  Opening: checkout frees the permit.                                   *)
ForgetsThePermit(c) ==
    /\ stage[c] \in {"granted", "opening"}
    /\ stage' = [stage EXCEPT ![c] = "done"]
    /\ link' = [s \in Sockets |-> IF s = socket[c] THEN "closed" ELSE link[s]]
    /\ socket' = [socket EXCEPT ![c] = NoSocket]
    /\ UNCHANGED <<sender, sent, heard, hosted, origin>>

GivesUpHolding(c) ==
    /\ stage[c] \in {"granted", "opening"}
    /\ GiveBack(c)
    /\ link' = [s \in Sockets |-> IF s = socket[c] THEN "closed" ELSE link[s]]
    /\ socket' = [socket EXCEPT ![c] = NoSocket]
    /\ UNCHANGED <<sender, sent, heard, idle, shut, origin>>

EndsH2(c) ==
    /\ stage[c] = "h2"
    /\ stage' = [stage EXCEPT ![c] = "done"]
    /\ UNCHANGED <<socket, sender, wires, hosted, origin>>

Again(c) ==
    /\ stage[c] = "done"
    /\ stage' = [stage EXCEPT ![c] = "new"]
    /\ UNCHANGED <<socket, sender, wires, hosted, origin>>

(* The peer closes a connection, idle or in use; the HTTP/2 one goes down.    *)
HangsUp(s) ==
    /\ link[s] = "open"
    /\ link' = [link EXCEPT ![s] = "gone"]
    /\ UNCHANGED <<exchanges, sent, heard, hosted, origin>>

LineDrops ==
    /\ h2 = "up"
    /\ h2' = "down"
    /\ lines' = lines - 1
    /\ UNCHANGED <<exchanges, wires, hosted, lock, h11only>>

(* _HostPool.aclose: what is out now is closed as it comes back.              *)
Shut ==
    /\ ~shut
    /\ shut' = TRUE
    /\ link' = [s \in Sockets |-> IF s \in Unusable(0) THEN "closed" ELSE link[s]]
    /\ idle' = <<>>
    /\ UNCHANGED <<exchanges, sent, heard, permits, waiting, origin>>

PoolNext ==
    \/ \E c \in Callers :
        \/ Begin(c) \/ Locked(c) \/ ShakesH2(c) \/ Granted(c) \/ SendHead(c)
        \/ ReadHead(c) \/ SentAll(c) \/ SendStops(c) \/ SendFails(c) \/ ReadAll(c)
        \/ HeadFails(c) \/ Release(c) \/ Closed(c) \/ GivesUpLocking(c)
        \/ GivesUpQueued(c) \/ GivesUpHolding(c) \/ EndsH2(c) \/ Again(c)
        \/ \E s \in Sockets : Falls(c, s) \/ Opens(c, s)
    \/ \E s \in Sockets : HangsUp(s)
    \/ LineDrops
    \/ Shut

PoolSpec == PoolInit /\ [][PoolNext]_poolVars

-----------------------------------------------------------------------------
PoolTypeOK ==
    /\ stage \in [Callers -> {"new", "locking", "shaking", "queued", "granted",
                              "opening", "head", "body", "closing", "h2", "done"}]
    /\ socket \in [Callers -> Sockets \cup {NoSocket}]
    /\ sender \in [Callers -> {"none", "running", "returned"}]
    /\ link \in [Sockets -> {"closed", "open", "gone"}]
    /\ sent \in [Sockets -> {"idle", "busy", "done"}]
    /\ heard \in [Sockets -> {"idle", "busy", "done"}]
    /\ idle \in Seq(Sockets)
    /\ permits \in Nat
    /\ waiting \in Seq(Callers)
    /\ shut \in BOOLEAN
    /\ lock \in Callers \cup {Nobody}
    /\ h2 \in {"none", "up", "down"}
    /\ lines \in Nat
    /\ h11only \in BOOLEAN

(* The bound a host's pool puts on its origin, at whatever await a request    *)
(* times out, fails or is cancelled: every permit is free or belongs to one   *)
(* checkout, nobody waits while one is free, and the sockets open at once,    *)
(* idle ones included, are never more than the bound (the class's docstring:  *)
(* reuse before open keeps the live sockets within max_connections).          *)
PermitsBoundSockets ==
    /\ permits + Cardinality({c \in Callers : stage[c] \in Holding}) = MaxConnections
    /\ waiting # <<>> => permits = 0
    /\ Cardinality(Live) <= MaxConnections

(* A connection waits in the pool only with both directions finished and in   *)
(* nobody's hands, and no two requests ever hold the same one: otherwise the  *)
(* next request would read what is left of somebody else's response.          *)
IdleIsClean ==
    /\ \A i \in DOMAIN idle :
        /\ sent[idle[i]] = "idle" /\ heard[idle[i]] = "idle"
        /\ \A c \in Callers : socket[c] # idle[i]
        /\ \A j \in DOMAIN idle : i # j => idle[i] # idle[j]
    /\ \A c, d \in Callers : c # d /\ socket[c] # NoSocket => socket[c] # socket[d]

(* However many requests race to an origin nobody has reached yet, they end   *)
(* up sharing one HTTP/2 connection, and one is opened beside another only    *)
(* after it went down; an origin known to speak HTTP/1.1 gets none.           *)
OneLinePerOrigin ==
    /\ lines <= 1
    /\ h2 = "up" <=> lines = 1

(* What the pool promises its callers: its bound, clean connections and one   *)
(* HTTP/2 connection to an origin.                                            *)
PoolIsSound == PermitsBoundSockets /\ IdleIsClean /\ OneLinePerOrigin
=============================================================================
