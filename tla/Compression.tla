---------------------------- MODULE Compression ----------------------------
(* The response compression of without_asgi/compression.py: the coding        *)
(* negotiated with a client, and the middleware that holds a response's head  *)
(* until the floor is decided and then feeds the body through a codec, or     *)
(* lets it pass.  Bodies are counted in bytes; a codec's output is known only *)
(* by how much of what it was fed can be decoded so far.                      *)
EXTENDS Naturals, Sequences, FiniteSets

CONSTANTS
    Available,    \* the table's codings, in the server's order of preference
    Streaming,    \* those of them whose codec can end a block
    TopWeight,    \* weights are 0 .. TopWeight
    MinimumSize,  \* the floor
    MaxBody,      \* bytes an application produces
    NoOffer,      \* a request without accept-encoding
    Unstated,     \* a head without content-length
    Exact         \* the length of an encoded body

Codings == {Available[i] : i \in DOMAIN Available}

(* The table is a mapping of codings to codecs: no coding is in it twice.     *)
ASSUME TableAssumption ==
    /\ Available \in Seq(STRING) /\ Len(Available) > 0
    /\ \A i, j \in DOMAIN Available : Available[i] = Available[j] => i = j
    /\ {"none", "own"} \cap Codings = {}
    /\ TopWeight \in Nat \ {0}
    /\ MinimumSize \in Nat /\ MaxBody \in Nat
    /\ Exact # Unstated

Tokens == Codings \cup {"identity", "*"}
Absent == TopWeight + 1
Offers == [Tokens -> 0 .. Absent]
Nothing == [sent |-> FALSE, coding |-> "none", length |-> Unstated,
            vary |-> FALSE, etag |-> "none", trailers |-> FALSE]

VARIABLES
    weigh,        \* weigh_undeclared_bodies
    offer,        \* the request's accept-encoding
    mw,           \* where `rewritten' is
    coding,       \* the negotiated coding
    start,        \* the application's head
    chunked,      \* whether this HTTP version carries trailers only in chunks
    produced,     \* bytes the application has yielded
    appDone,      \* it has yielded its final body event
    heldBytes, heldAny, heldPushes,   \* prefix and interleaved
    out,          \* the head that went out
    clear,        \* bytes sent as they are
    fed, decodable,   \* bytes given to the codec, and of them those the client can decode
    finished      \* the final body event went out

request == <<weigh, offer, chunked>>
app == <<produced, appDone>>
prefix == <<heldBytes, heldAny, heldPushes>>
sentBody == <<clear, fed, decodable, finished>>
compVars == <<request, mw, coding, start, app, prefix, out, sentBody>>

CompInit ==
    /\ weigh \in BOOLEAN /\ chunked \in BOOLEAN
    /\ offer = NoOffer
    /\ mw = "waiting" /\ coding = "none"
    /\ start = Nothing /\ out = Nothing
    /\ produced = 0 /\ appDone = FALSE
    /\ heldBytes = 0 /\ heldAny = FALSE /\ heldPushes = 0
    /\ clear = 0 /\ fed = 0 /\ decodable = 0 /\ finished = FALSE

-----------------------------------------------------------------------------
(* negotiate_coding: the heaviest, the server's favourite among equals, and   *)
(* none of them where identity weighs more.                                   *)
Weight(o, token) ==
    IF o[token] # Absent THEN o[token] ELSE IF o["*"] # Absent THEN o["*"] ELSE 0

Heavier(o, best, token) ==
    IF Weight(o, token) <= best.weight THEN best
    ELSE [coding |-> token, weight |-> Weight(o, token)]

HeaviestUpTo(o) ==
    LET best[i \in 0 .. Len(Available)] ==
            IF i = 0 THEN [coding |-> "none", weight |-> 0]
            ELSE Heavier(o, best[i - 1], Available[i])
    IN  best
Heaviest(o) == HeaviestUpTo(o)[Len(Available)]

NegotiateCoding(o) ==
    IF o = NoOffer THEN "none"
    ELSE IF Weight(o, "identity") > Heaviest(o).weight THEN "none"
    ELSE Heaviest(o).coding

Requested ==
    /\ mw = "waiting"
    /\ \E o \in Offers \cup {NoOffer} : offer' = o /\ coding' = NegotiateCoding(o)
    /\ mw' = "asked"
    /\ UNCHANGED <<weigh, chunked, start, app, prefix, out, sentBody>>

-----------------------------------------------------------------------------
(* The heads an application may state: what the middleware reads of them.     *)
Heads == [status : {"ok", "notModified", "unencodable"}, type : {"text", "other", "unstated"},
          encoded : BOOLEAN, length : {Unstated} \cup (0 .. MaxBody),
          strong : BOOLEAN, trailers : BOOLEAN]

Compressible(h) == h.type = "text"
IsCandidate(h) == h.status = "ok" /\ ~h.encoded /\ Compressible(h)
RevalidatesEncodable(h) == h.status = "notModified" /\ ~h.encoded /\ h.type # "other"

Etag(h) == IF h.strong THEN "strong" ELSE "none"
Weakened(h) == IF h.strong THEN "weak" ELSE "none"

AsStated(h, vary) ==
    [sent |-> TRUE, coding |-> IF h.encoded THEN "own" ELSE "none", length |-> h.length,
     vary |-> vary, etag |-> Etag(h), trailers |-> h.trailers]

Encoded(h, length) ==
    [AsStated(h, TRUE) EXCEPT !.coding = coding, !.etag = Weakened(h), !.length = length]

BelowFloor(h) == h.length # Unstated /\ h.length < MinimumSize

(* An earlier event passes straight out and is not seen here; the head is let *)
(* go at once unless its response may be encoded.                             *)
HeadComes ==
    /\ mw = "asked"
    /\ \E h \in Heads :
         /\ start' = h
         /\ \/ /\ RevalidatesEncodable(h)
               /\ out' = IF coding = "none" THEN AsStated(h, TRUE)
                         ELSE [AsStated(h, TRUE) EXCEPT !.etag = Weakened(h), !.length = Unstated]
               /\ mw' = "clear"
            \/ /\ ~RevalidatesEncodable(h) /\ ~IsCandidate(h)
               /\ out' = AsStated(h, FALSE)
               /\ mw' = "clear"
            \/ /\ IsCandidate(h) /\ (coding = "none" \/ BelowFloor(h))
               /\ out' = AsStated(h, TRUE)
               /\ mw' = "clear"
            \/ /\ IsCandidate(h) /\ coding # "none" /\ ~BelowFloor(h)
               /\ out' = Nothing
               /\ mw' = "holding"
    /\ offer' = NoOffer
    /\ UNCHANGED <<weigh, chunked, coding, app, prefix, sentBody>>

HoldUpTo == IF start.length = Unstated /\ weigh THEN MinimumSize ELSE 0

(* What the head lets the application send: its own length, where it has one, *)
(* or nothing behind a head that describes what a GET would carry.            *)
AppYields(n, more) ==
    /\ mw \in {"holding", "encoding", "clear"} /\ ~appDone
    /\ produced + n <= IF start.length = Unstated THEN MaxBody ELSE start.length
    /\ more \/ produced + n = 0 \/ start.length \in {Unstated, produced + n}
    /\ produced' = produced + n
    /\ appDone' = ~more

ReleasesHeld(head) ==
    /\ out' = head
    /\ heldBytes' = 0 /\ heldAny' = FALSE /\ heldPushes' = 0

Passes(n, more) ==
    /\ AppYields(n, more) /\ mw = "clear"
    /\ clear' = clear + n /\ finished' = ~more
    /\ UNCHANGED <<request, mw, coding, start, prefix, out, fed, decodable>>

(* A body event while the head waits, with more to come and nothing decided.  *)
Holds(n) ==
    /\ AppYields(n, TRUE) /\ mw = "holding"
    /\ heldBytes + n = 0 \/ heldBytes + n < HoldUpTo
    /\ heldBytes' = heldBytes + n /\ heldAny' = TRUE
    /\ UNCHANGED <<request, mw, coding, start, heldPushes, out, sentBody>>

(* The body arrived whole: its own size answers the floor.                    *)
Whole(n) ==
    /\ AppYields(n, FALSE) /\ mw = "holding"
    /\ LET size == heldBytes + n
           small == size = 0 \/ size < MinimumSize
       IN  /\ ReleasesHeld(IF small THEN AsStated(start, TRUE)
                       ELSE Encoded(start, IF start.trailers /\ chunked THEN Unstated ELSE Exact))
           /\ clear' = IF small THEN size ELSE 0
           /\ fed' = IF small THEN 0 ELSE size
           /\ decodable' = fed'
           /\ mw' = IF small THEN "clear" ELSE "encoding"
    /\ finished' = TRUE
    /\ UNCHANGED <<request, coding, start>>

(* A codec that is left to itself keeps what it is fed.                       *)
DeliversAtItsLeisure(total) == decodable' \in {decodable, total}

(* _deliverable: the block is ended with every chunk.                         *)
Delivers(total) == decodable' = total

(* Past the floor with more to come: commit, or leave a codec that cannot end *)
(* a block alone.                                                             *)
CommitsToCoding(n) ==
    /\ AppYields(n, TRUE) /\ mw = "holding"
    /\ heldBytes + n > 0 /\ heldBytes + n >= HoldUpTo
    /\ \/ /\ coding \in Streaming
          /\ ReleasesHeld(Encoded(start, Unstated))
          /\ fed' = heldBytes + n /\ Delivers(heldBytes + n)
          /\ mw' = "encoding"
          /\ UNCHANGED clear
       \/ /\ coding \notin Streaming
          /\ ReleasesHeld(AsStated(start, TRUE))
          /\ clear' = heldBytes + n
          /\ mw' = "clear"
          /\ UNCHANGED <<fed, decodable>>
    /\ UNCHANGED <<request, coding, start, finished>>

Encodes(n, more) ==
    /\ AppYields(n, more) /\ mw = "encoding"
    /\ fed' = fed + n
    /\ IF more THEN Delivers(fed + n) ELSE decodable' = fed + n
    /\ finished' = ~more
    /\ UNCHANGED <<request, mw, coding, start, prefix, out, clear>>

(* A push may come after the head; it may not go out before it.               *)
Pushes ==
    /\ mw = "holding" /\ heldPushes = 0
    /\ heldPushes' = 1
    /\ UNCHANGED <<request, mw, coding, start, app, heldBytes, heldAny, out, sentBody>>

(* The rest of the body is handed to the server, unseen: in place of what is  *)
(* held, or too late.                                                         *)
Offloads ==
    /\ mw \in {"holding", "clear"} /\ ~appDone
    /\ appDone' = TRUE /\ finished' = TRUE
    /\ IF mw = "holding" THEN ReleasesHeld(AsStated(start, TRUE)) ELSE UNCHANGED <<out, prefix>>
    /\ clear' = clear + heldBytes
    /\ mw' = "clear"
    /\ UNCHANGED <<request, coding, start, produced, fed, decodable>>

OffloadsTooLate ==
    /\ mw = "encoding"
    /\ mw' = "raised" /\ appDone' = TRUE
    /\ UNCHANGED <<request, coding, start, produced, prefix, out, sentBody>>

(* The application stops without a final event: what was held goes out.       *)
EndsShort ==
    /\ mw \in {"holding", "encoding", "clear"} /\ ~appDone
    /\ appDone' = TRUE
    /\ IF mw = "holding" THEN ReleasesHeld(AsStated(start, TRUE)) ELSE UNCHANGED <<out, prefix>>
    /\ clear' = clear + heldBytes
    /\ mw' = IF mw = "holding" THEN "clear" ELSE mw
    /\ UNCHANGED <<request, coding, start, produced, fed, decodable, finished>>

CompNext ==
    \/ Requested \/ HeadComes \/ Pushes \/ Offloads \/ OffloadsTooLate \/ EndsShort
    \/ \E n \in 0 .. 2 : Holds(n) \/ Whole(n) \/ CommitsToCoding(n)
                         \/ \E more \in BOOLEAN : Passes(n, more) \/ Encodes(n, more)

CompSpec == CompInit /\ [][CompNext]_compVars

-----------------------------------------------------------------------------
(* RFC 9110, section 12.5.3, stated without the order of evaluation.          *)
AsAsked(o, c) ==
    LET most == {x \in Codings : \A y \in Codings : Weight(o, y) <= Weight(o, x)}
    IN  IF c = "none"
        THEN o = NoOffer \/ \A x \in most : Weight(o, x) = 0 \/ Weight(o, x) < Weight(o, "identity")
        ELSE /\ c \in most /\ Weight(o, c) > 0 /\ Weight(o, c) >= Weight(o, "identity")
             /\ \A i, j \in DOMAIN Available : Available[i] = c /\ Available[j] \in most => i <= j

(* A coding is one the client weighs most and takes.  The head and the body   *)
(* never disagree: an encoded body has all its bytes from the codec, under a  *)
(* head that says so, vouches for no identity bytes and states no length but  *)
(* the encoded one; any other goes out as the application wrote it, and so a  *)
(* HEAD, whose body is empty, with the length of what a GET would carry.      *)
(* Nothing the application produced stays behind, in a chunk or at the end,   *)
(* but what is held below the floor where that was asked for.                 *)
EncodedAsAgreed ==
    /\ mw = "asked" => AsAsked(offer, coding)
    /\ out.coding \in Codings =>
         /\ produced > 0
         /\ clear = 0 /\ out.coding = coding /\ coding # "none" /\ out.vary /\ out.etag # "strong"
         /\ out.length \in {Unstated, Exact}
         /\ out.length = Exact => finished /\ ~(start.trailers /\ chunked)
    /\ out.sent /\ out.coding \notin Codings => fed = 0
    /\ out.sent => clear + decodable = produced
    /\ out.sent /\ finished /\ out.length \notin {Unstated, Exact} => produced <= out.length
    /\ ~out.sent /\ mw = "holding" => clear + fed = 0 /\ heldBytes = produced
    /\ heldBytes > 0 => weigh /\ heldBytes < MinimumSize
    /\ out.sent /\ (IsCandidate(start) \/ RevalidatesEncodable(start)) => out.vary
=============================================================================
