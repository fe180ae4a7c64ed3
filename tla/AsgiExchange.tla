---------------------------- MODULE AsgiExchange ----------------------------
(* HTTP/1.1 connections of the server, one request after another, and the     *)
(* application each request runs: _serve_h11_connection and _run_request      *)
(* (without_http/server.py) around make_asgi_app (without_asgi/app.py), whose *)
(* handler is behind limit_concurrent_requests and limit_request_body         *)
(* (without_asgi/routing.py), mounted in that order.  The state of the wire   *)
(* is h11's; a body is counted in bytes of one chunk each.                    *)
EXTENDS Naturals, Sequences, FiniteSets

CONSTANTS
    Pipes,       \* connections
    BudgetLimit, \* limit_concurrent_requests
    MaxBytes,    \* limit_request_body
    MaxRequests  \* requests that all clients send

ASSUME ExchangeAssumption == BudgetLimit \in Nat /\ MaxBytes \in Nat /\ MaxRequests \in Nat

VARIABLES
    client,      \* Pipes -> what the client is writing
    sentRequests, \* requests sent so far
    net, buffered, \* Pipes -> what was written and not read; read and not pulled
    serving,     \* Pipes -> where _serve_h11_connection is
    ours, theirs, \* Pipes -> h11's states of the two sides
    handling,    \* Pipes -> the application of the request in progress
    counted,     \* Pipes -> bytes limit_request_body let through or refused
    slots,       \* _RequestBudget: the requests admitted
    answers      \* Pipes -> the responses, one for each request begun

wireside == <<client, sentRequests, net>>
halves == <<ours, theirs>>
asgiVars == <<wireside, buffered, serving, halves, handling, counted, slots, answers>>

RequestHeads == {"plain", "big", "garbled"}

AsgiInit ==
    /\ client = [p \in Pipes |-> [does |-> "idle", body |-> 0]]
    /\ sentRequests = 0
    /\ net = [p \in Pipes |-> <<>>] /\ buffered = [p \in Pipes |-> <<>>]
    /\ serving = [p \in Pipes |-> "reading"]
    /\ ours = [p \in Pipes |-> "idle"] /\ theirs = [p \in Pipes |-> "idle"]
    /\ handling = [p \in Pipes |-> "none"]
    /\ counted = [p \in Pipes |-> 0]
    /\ slots = {}
    /\ answers = [p \in Pipes |-> <<>>]

-----------------------------------------------------------------------------
(* The client: heads, one that declares a length over the cap, one that is no *)
(* request; then a body, chunk by chunk, and its end.  One that stops writing *)
(* may have gone: a read then ends, or times out, and a write may fail.       *)
Writes(p, what, now) ==
    /\ net' = [net EXCEPT ![p] = Append(@, what)]
    /\ client' = [client EXCEPT ![p] = now]
    /\ UNCHANGED <<buffered, serving, halves, handling, counted, slots, answers>>

ClientAsks(p) ==
    /\ serving[p] # "closed" /\ client[p].does = "idle" /\ sentRequests < MaxRequests
    /\ sentRequests' = sentRequests + 1
    /\ \E head \in RequestHeads : Writes(p, head, [does |-> "body", body |-> 0])

ClientUploads(p) ==
    /\ serving[p] # "closed" /\ client[p].does = "body"
    /\ \/ /\ client[p].body <= MaxBytes
          /\ Writes(p, "byte", [client[p] EXCEPT !.body = @ + 1])
       \/ Writes(p, "end", [client[p] EXCEPT !.does = "idle"])
    /\ UNCHANGED sentRequests

(* One read takes whatever has arrived.                                       *)
ReadsPipe(p) ==
    /\ buffered[p] = <<>> /\ net[p] # <<>>
    /\ buffered' = [buffered EXCEPT ![p] = net[p]]
    /\ net' = [net EXCEPT ![p] = <<>>]
    /\ UNCHANGED <<client, sentRequests, serving, halves, handling, counted, slots, answers>>

-----------------------------------------------------------------------------
(* _read_request, and what becomes of the request before the handler: over    *)
(* the budget it is shed, with a declared length over the cap refused.        *)
ReadsRequest(p) ==
    /\ serving[p] = "reading" /\ buffered[p] # <<>> /\ Head(buffered[p]) \in {"plain", "big"}
    /\ serving' = [serving EXCEPT ![p] = "running"]
    /\ buffered' = [buffered EXCEPT ![p] = Tail(@)]
    /\ ours' = [ours EXCEPT ![p] = "response"]
    /\ theirs' = [theirs EXCEPT ![p] = "body"]
    /\ answers' = [answers EXCEPT ![p] = Append(@, [status |-> "none", ended |-> FALSE])]
    /\ IF Cardinality(slots) < BudgetLimit
       THEN /\ slots' = slots \cup {p}
            /\ handling' = [handling EXCEPT ![p] = IF Head(buffered[p]) = "big" THEN "413" ELSE "handler"]
       ELSE handling' = [handling EXCEPT ![p] = "503"] /\ UNCHANGED slots
    /\ UNCHANGED <<wireside, counted>>

(* h11 cannot parse it: an answer, and the lingering close.                   *)
BadRequest(p) ==
    /\ serving[p] = "reading" /\ buffered[p] # <<>> /\ Head(buffered[p]) \notin {"plain", "big"}
    /\ answers' = [answers EXCEPT ![p] = Append(@, [status |-> "400", ended |-> TRUE])]
    /\ serving' = [serving EXCEPT ![p] = "lingering"]
    /\ theirs' = [theirs EXCEPT ![p] = "error"]
    /\ UNCHANGED <<wireside, buffered, ours, handling, counted, slots>>

(* The client has gone, or is silent for the idle timeout.                    *)
NoRequest(p) ==
    /\ serving[p] = "reading" /\ buffered[p] = <<>> /\ net[p] = <<>>
    /\ serving' = [serving EXCEPT ![p] = "closed"]
    /\ UNCHANGED <<wireside, buffered, halves, handling, counted, slots, answers>>

-----------------------------------------------------------------------------
(* The handler pulls the body through limit_request_body, which raises before *)
(* the chunk past the cap; a handler that has not begun is answered for.      *)
PullsBody(p) ==
    /\ handling[p] = "handler" /\ theirs[p] = "body" /\ buffered[p] # <<>>
    /\ buffered' = [buffered EXCEPT ![p] = Tail(@)]
    /\ \/ /\ Head(buffered[p]) = "end"
          /\ theirs' = [theirs EXCEPT ![p] = "done"]
          /\ UNCHANGED <<handling, counted>>
       \/ /\ Head(buffered[p]) = "byte"
          /\ counted' = [counted EXCEPT ![p] = @ + 1]
          /\ handling' = [handling EXCEPT ![p] = IF counted[p] < MaxBytes THEN "handler"
                                               ELSE IF ours[p] = "response" THEN "413" ELSE "raised"]
          /\ UNCHANGED theirs
    /\ UNCHANGED <<wireside, serving, ours, slots, answers>>

(* receive finds the connection ended in mid-body, or idle for too long.      *)
PullFails(p) ==
    /\ handling[p] = "handler" /\ theirs[p] = "body" /\ buffered[p] = <<>> /\ net[p] = <<>>
    /\ handling' = [handling EXCEPT ![p] = "raised"]
    /\ theirs' \in {theirs, [theirs EXCEPT ![p] = "error"]}
    /\ UNCHANGED <<wireside, buffered, serving, ours, counted, slots, answers>>

(* send: the head, then the end of the body, by the handler or in its place.  *)
Answering == {"handler", "413", "503"}
Status(how) == IF how = "handler" THEN "200" ELSE how

EmitsHead(p) ==
    /\ handling[p] \in Answering /\ ours[p] = "response"
    /\ ours' = [ours EXCEPT ![p] = "body"]
    /\ answers' = [answers EXCEPT ![p][Len(answers[p])].status = Status(handling[p])]
    /\ UNCHANGED <<wireside, buffered, serving, theirs, handling, counted, slots>>

EmitsEnd(p) ==
    /\ handling[p] \in Answering /\ ours[p] = "body"
    /\ ours' \in {[ours EXCEPT ![p] = after] : after \in {"done", "mustClose"}}
    /\ answers' = [answers EXCEPT ![p][Len(answers[p])].ended = TRUE]
    /\ UNCHANGED <<wireside, buffered, serving, theirs, handling, counted, slots>>

(* The handler raises, wherever it is; or the socket does, in a drain.        *)
Crashes(p) ==
    /\ handling[p] \in Answering
    /\ handling' = [handling EXCEPT ![p] = "raised"]
    /\ UNCHANGED <<wireside, buffered, serving, halves, counted, slots, answers>>

-----------------------------------------------------------------------------
(* _consume_buffered_request: what has arrived of the request, and no more.   *)
EndAt(s) == {i \in DOMAIN s : s[i] = "end"}
First(S) == CHOOSE i \in S : \A j \in S : i <= j
PastTheEnd(s) == IF EndAt(s) = {} THEN <<>> ELSE SubSeq(s, First(EndAt(s)) + 1, Len(s))

(* Whether the connection may carry another request.                          *)
ReusablePipe(our, their) == our = "done" /\ their = "done"

(* The rest of _run_request, and of the loop: a 500 where nothing was begun,  *)
(* the slot given back as the handler's stream ends, and the connection used  *)
(* again, closed, or closed slowly where its client may still be sending.     *)
RunEnds(p) ==
    /\ \/ handling[p] = "raised"
       \/ handling[p] = "handler"
       \/ handling[p] \in {"413", "503"} /\ ours[p] \in {"done", "mustClose"}
    /\ LET our == IF ours[p] = "response" THEN "done" ELSE ours[p]
           pull == handling[p] # "raised" /\ theirs[p] = "body"
           their == IF pull /\ EndAt(buffered[p]) # {} THEN "done" ELSE theirs[p]
           keep == handling[p] # "raised" /\ ReusablePipe(our, their)
       IN  /\ buffered' = IF pull THEN [buffered EXCEPT ![p] = PastTheEnd(@)] ELSE buffered
           /\ answers' = IF ours[p] # "response" THEN answers
                         ELSE [answers EXCEPT ![p][Len(answers[p])] =
                                  [status |-> "500", ended |-> TRUE]]
           /\ serving' = [serving EXCEPT ![p] = IF keep THEN "reading"
                             ELSE IF their # "done" THEN "lingering" ELSE "closed"]
           /\ ours' = [ours EXCEPT ![p] = IF keep THEN "idle" ELSE our]
           /\ theirs' = [theirs EXCEPT ![p] = IF keep THEN "idle" ELSE their]
    /\ handling' = [handling EXCEPT ![p] = "none"]
    /\ counted' = [counted EXCEPT ![p] = 0]
    /\ slots' = slots \ {p}
    /\ UNCHANGED wireside

(* _lingering_close: what comes for a short while is read and dropped.        *)
Lingers(p) ==
    /\ serving[p] = "lingering"
    /\ serving' = [serving EXCEPT ![p] = "closed"]
    /\ net' = [net EXCEPT ![p] = <<>>]
    /\ buffered' = [buffered EXCEPT ![p] = <<>>]
    /\ UNCHANGED <<client, sentRequests, halves, handling, counted, slots, answers>>

AsgiNext ==
    \E p \in Pipes :
        \/ ClientAsks(p) \/ ClientUploads(p)
        \/ ReadsPipe(p) \/ ReadsRequest(p) \/ BadRequest(p) \/ NoRequest(p)
        \/ PullsBody(p) \/ PullFails(p) \/ EmitsHead(p) \/ EmitsEnd(p) \/ Crashes(p)
        \/ RunEnds(p) \/ Lingers(p)

AsgiSpec == AsgiInit /\ [][AsgiNext]_asgiVars

-----------------------------------------------------------------------------
(* Requests keep to themselves.  On one connection the next request begins    *)
(* only where the one before it was answered to the end and read to the end,  *)
(* so that no part of a body is ever taken for a request; each one gets one   *)
(* answer, a 500 if its handler failed before it began.  Between connections, *)
(* the requests in flight are never more than the budget, and a slot is held  *)
(* by nobody but them; no handler is given more than the cap.                 *)
ExchangesAreSound ==
    /\ \A p \in Pipes :
        /\ serving[p] = "reading" /\ buffered[p] # <<>> => Head(buffered[p]) \in RequestHeads
        /\ \A i \in DOMAIN answers[p] : i < Len(answers[p]) => answers[p][i].ended
        /\ handling[p] = "none" => \A i \in DOMAIN answers[p] : answers[p][i].status # "none"
        /\ handling[p] = "handler" => p \in slots /\ counted[p] <= MaxBytes
        /\ p \in slots => handling[p] # "none" /\ serving[p] = "running"
    /\ Cardinality(slots) <= BudgetLimit
=============================================================================
