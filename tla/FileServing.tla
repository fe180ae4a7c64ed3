----------------------------- MODULE FileServing -----------------------------
(* A file given out over HTTP while others write it: file_response and        *)
(* serve_file (without_asgi/files.py), serve_asset out of an inventory        *)
(* (assets.py), and what selection_for (selection.py) decides for a client    *)
(* that keeps a copy, asks whether it is current and goes on where it broke   *)
(* off.  A byte is the version it is of and its place; every write makes a    *)
(* version of its own.  Optional fields are sets of at most one member.       *)
EXTENDS Integers, Sequences, SequencesExt

CONSTANTS
    Sizes,       \* what a version may measure
    MaxVersions, \* writes, the first among them
    LastMoment,  \* the file system's clock
    Coarse,      \* moments of that clock in a second, which is what a date tells
    MaxAsks,
    Specs        \* ranges that are asked for: kind, first, last

VARIABLES
    helper,      \* which of the helpers, and how assets are told apart
    moment,      \* of the last that was written
    versions,    \* size and mtime of each version
    stored,      \* the version under the name; 0: no file
    sidecar,     \* the encoded file beside it: what it encodes and its mtime
    stock,       \* the inventory's entry: a version, and its encoded variant
    asks,
    reply,       \* the response, from the stat until its stream is over
    handle,      \* the open file: its version, and whether the name is still its own
    copy         \* what the client holds

ASSUME FilesAssumption ==
    /\ Sizes \subseteq Nat /\ LastMoment \in Nat /\ Coarse \in Nat \ {0}
    /\ Specs \subseteq [kind : {"span", "from", "suffix"}, first : Nat, last : Nat]

fileVars == <<helper, moment, versions, stored, sidecar, stock, asks, reply, handle, copy>>

Assets == {"hashed", "stamped"}    \* content_hash, size_and_mtime
Lesser(m, n) == IF m <= n THEN m ELSE n

FilesInit ==
    /\ helper \in {"handed", "named"} \cup Assets
    /\ moment = 0
    /\ \E n \in Sizes : versions = <<[size |-> n, mtime |-> 0]>>
    /\ stored = 1
    /\ sidecar = {} /\ stock = {} /\ copy = {}
    /\ asks = 0
    /\ reply = [stage |-> "none"]
    /\ handle = [version |-> 0, named |-> FALSE]

------------------------------------------------------------------------------
(* Those who write, at any later moment: into the file, over its name, and    *)
(* the build that leaves an encoded file beside it.                           *)
WritesFile(inPlace) ==
    /\ Len(versions) < MaxVersions
    /\ inPlace => stored # 0
    /\ moment' \in moment .. LastMoment
    /\ \E n \in Sizes : versions' = Append(versions, [size |-> n, mtime |-> moment'])
    /\ stored' = Len(versions')
    /\ handle' = IF ~handle.named THEN handle
                 ELSE IF inPlace THEN [handle EXCEPT !.version = stored']
                 ELSE [handle EXCEPT !.named = FALSE]
    /\ UNCHANGED <<helper, sidecar, stock, asks, reply, copy>>

Removes ==
    /\ stored # 0
    /\ stored' = 0
    /\ handle' = [handle EXCEPT !.named = FALSE]
    /\ UNCHANGED <<helper, moment, versions, sidecar, stock, asks, reply, copy>>

EncodesBeside ==
    /\ helper \in Assets /\ stored # 0 /\ sidecar = {}
    /\ moment' \in moment .. LastMoment
    /\ sidecar' = {[version |-> stored, mtime |-> moment']}
    /\ UNCHANGED <<helper, versions, stored, stock, asks, reply, handle, copy>>

------------------------------------------------------------------------------
(* The inventory: a variant is the sidecar unless it is older than the asset, *)
(* or made here, and kept only if that made it smaller.                       *)
CodedSize(v) == (versions[v].size + 1) \div 2

AnySidecar == sidecar
FreshSidecar == {x \in sidecar : x.mtime >= versions[stored].mtime}

Variants ==
    {x \in IF FreshSidecar # {} THEN FreshSidecar
           ELSE {[version |-> stored, mtime |-> versions[stored].mtime]} :
        CodedSize(x.version) < versions[stored].size}

TakesInventory ==
    /\ helper \in Assets /\ stored # 0
    /\ stock' = {[version |-> stored, variants |-> Variants]}
    /\ UNCHANGED <<helper, moment, versions, stored, sidecar, asks, reply, handle, copy>>

------------------------------------------------------------------------------
(* Validators: a weak tag from the stat; a strong one for each coding of an   *)
(* asset; a date, in seconds.                                                 *)
Stamp(v) ==
    IF helper = "hashed" THEN <<v>> ELSE <<versions[v].size, versions[v].mtime>>
SharedTag(v, coding) == [strong |-> helper \in Assets, token |-> Stamp(v), coding |-> "identity"]
Validator(v, coding) == [strong |-> helper \in Assets, token |-> Stamp(v), coding |-> coding]
DateOf(v) == versions[v].mtime \div Coarse

Weakly(candidate, current) == candidate = current
Strongly(candidate, current) == candidate = current /\ candidate.strong

(* If-None-Match, when it is there, keeps If-Modified-Since from being read.  *)
IsCurrent(request, tag, date) ==
    IF request.noneMatch # {} THEN \E x \in request.noneMatch : Weakly(x, tag)
    ELSE \E d \in request.since : date <= d
RangeAllowed(request, tag, date) ==
    /\ \A x \in request.ifTag : Strongly(x, tag)
    /\ \A d \in request.ifDate : date = d

Answer(status, first, count) == [status |-> status, first |-> first, count |-> count]
SpanFor(spec, size) ==
    LET span(first, last) == Answer(206, first, last - first + 1)
    IN  CASE spec.kind = "suffix" ->
               IF spec.last = 0 \/ size = 0 THEN Answer(416, 0, 0)
               ELSE span(IF spec.last > size THEN 0 ELSE size - spec.last, size - 1)
          [] spec.kind # "suffix" /\ spec.first >= size -> Answer(416, 0, 0)
          [] spec.kind = "from" /\ spec.first < size -> span(spec.first, size - 1)
          [] OTHER -> IF spec.last < spec.first THEN Answer(200, 0, size)
                      ELSE span(spec.first, Lesser(spec.last, size - 1))

SelectionFor(request, size, tag, date) ==
    IF IsCurrent(request, tag, date) THEN Answer(304, 0, 0)
    ELSE IF request.head THEN Answer(200, 0, 0)
    ELSE IF request.range = {} \/ ~RangeAllowed(request, tag, date) THEN Answer(200, 0, size)
    ELSE SpanFor(CHOOSE spec \in request.range : TRUE, size)

------------------------------------------------------------------------------
(* What the client asks: for the file, whether a whole copy is current, for   *)
(* the rest of one that broke off, or for a range of its choosing.            *)
Plain(gz) == [head |-> FALSE, gz |-> gz, noneMatch |-> {}, since |-> {},
              range |-> {}, ifTag |-> {}, ifDate |-> {}]
Revalidates(c) ==
    LET at(gz, tags, dates) == [Plain(gz) EXCEPT !.noneMatch = tags, !.since = dates]
    IN  {at(TRUE, {c.tag}, {}), at(FALSE, {c.tag}, {}), at(c.gz, {}, {c.date}),
         at(c.gz, {c.tag}, {c.date}), [at(c.gz, {c.tag}, {}) EXCEPT !.head = TRUE]}
GoesOn(c) ==
    LET rest == {[kind |-> "from", first |-> Len(c.bytes), last |-> 0]}
    IN  {[Plain(c.gz) EXCEPT !.range = rest, !.ifTag = {c.tag}],
         [Plain(c.gz) EXCEPT !.range = rest, !.ifDate = {c.date}]}
Probes == {[Plain(FALSE) EXCEPT !.range = {spec}] : spec \in Specs}

Held(c) == Len(c.bytes) = c.total
Conditional == UNION {IF Held(c) THEN Revalidates(c) ELSE GoesOn(c) : c \in copy}

------------------------------------------------------------------------------
(* The stat and the decision.  file_response hands over; an asset answers out *)
(* of its inventory, and compares sizes before it owes bytes from the disk.   *)
Over == reply.stage \in {"none", "answered", "refused", "aborted", "ended"}

Decided(request, v, coding, body, probe) ==
    LET size == IF coding = "gzip" THEN CodedSize(body) ELSE versions[v].size
        chosen == IF helper = "handed" THEN Answer(200, 0, size)
                  ELSE SelectionFor(request, size, Validator(v, coding), DateOf(v))
        owes == chosen.status \in {200, 206} /\ (helper = "handed" \/ ~request.head)
        changed == /\ helper \in Assets /\ coding = "identity" /\ owes
                   /\ stored = 0 \/ versions[stored].size # size
    IN  [stage |-> IF changed THEN "refused" ELSE IF owes THEN "decided" ELSE "answered",
         status |-> chosen.status, first |-> chosen.first, count |-> chosen.count,
         size |-> size, sent |-> 0, tag |-> Validator(v, coding), date |-> DateOf(v),
         coding |-> coding, gz |-> request.gz, asOf |-> v, body |-> body, probe |-> probe,
         range |-> request.range, byTag |-> request.noneMatch # {},
         byDate |-> request.ifDate # {}]

Served(request, probe) ==
    CASE helper \in Assets /\ stock # {} ->
           LET entry == CHOOSE x \in stock : TRUE
           IN  IF request.gz /\ entry.variants # {}
               THEN Decided(request, entry.version, "gzip",
                            (CHOOSE x \in entry.variants : TRUE).version, probe)
               ELSE Decided(request, entry.version, "identity", entry.version, probe)
      [] helper \notin Assets /\ stored # 0 ->
           Decided(request, stored, "identity", stored, probe)
      [] OTHER -> [stage |-> "refused", status |-> 404]

AsksForFile ==
    /\ Over /\ asks < MaxAsks
    /\ asks' = asks + 1
    /\ \/ \E gz \in BOOLEAN : reply' = Served(Plain(gz), FALSE)
       \/ \E request \in Conditional : reply' = Served(request, FALSE)
       \/ asks = 0 /\ \E request \in Probes : reply' = Served(request, TRUE)
    /\ UNCHANGED <<helper, moment, versions, stored, sidecar, stock, handle, copy>>

------------------------------------------------------------------------------
(* _stream_file, _stream_span and _stream_bytes: the start goes out, then the *)
(* name is opened, whatever it is by now.                                     *)
FromMemory == reply.coding = "gzip"

OpensFile ==
    /\ reply.stage = "decided"
    /\ handle' = [version |-> IF FromMemory THEN 0 ELSE stored, named |-> ~FromMemory]
    /\ reply' = [reply EXCEPT !.stage =
                   IF FromMemory \/ stored # 0 THEN "streaming" ELSE "aborted"]
    /\ copy' = IF reply.probe \/ reply.status = 206 THEN copy
               ELSE {[bytes |-> <<>>, total |-> reply.count, tag |-> reply.tag,
                      date |-> reply.date, coding |-> reply.coding, gz |-> reply.gz,
                      disturbed |-> FALSE, byDate |-> FALSE]}
    /\ UNCHANGED <<helper, moment, versions, stored, sidecar, stock, asks>>

Source == IF FromMemory THEN reply.body ELSE handle.version
InSource == IF FromMemory THEN reply.size ELSE versions[handle.version].size
Bounded == reply.status = 206 \/ FromMemory
Position == reply.first + reply.sent
MoreToRead == Position < InSource /\ (Bounded => reply.sent < reply.count)

(* A chunk is one byte. The client takes no more than it was told to expect.  *)
Received(c) ==
    IF Held(c) THEN c
    ELSE [c EXCEPT !.bytes = Append(@, <<Source, Position>>),
                   !.disturbed = @ \/ Source # reply.asOf,
                   !.byDate = @ \/ reply.byDate]
ReadsFile ==
    /\ reply.stage = "streaming" /\ MoreToRead
    /\ reply' = [reply EXCEPT !.sent = @ + 1]
    /\ copy' = IF reply.probe THEN copy ELSE {Received(c) : c \in copy}
    /\ UNCHANGED <<helper, moment, versions, stored, sidecar, stock, asks, handle>>

NoMatter == TRUE
AllSent == reply.sent = reply.count

FileEnds ==
    /\ reply.stage = "streaming" /\ ~MoreToRead
    /\ reply' = [reply EXCEPT !.stage = IF AllSent THEN "ended" ELSE "aborted"]
    /\ handle' = [version |-> 0, named |-> FALSE]
    /\ UNCHANGED <<helper, moment, versions, stored, sidecar, stock, asks, copy>>

StopsReading ==
    /\ reply.stage \in {"decided", "streaming"}
    /\ reply' = [reply EXCEPT !.stage = "aborted"]
    /\ handle' = [version |-> 0, named |-> FALSE]
    /\ UNCHANGED <<helper, moment, versions, stored, sidecar, stock, asks, copy>>

(* What is written behind the last response is not looked at.                 *)
FilesNext ==
    \/ /\ asks < MaxAsks \/ ~Over
       /\ \/ \E inPlace \in BOOLEAN : WritesFile(inPlace)
          \/ Removes \/ EncodesBeside \/ TakesInventory
    \/ AsksForFile \/ OpensFile \/ ReadsFile \/ FileEnds \/ StopsReading

FilesSpec == FilesInit /\ [][FilesNext]_fileVars

------------------------------------------------------------------------------
(* Versions no validator can tell apart.                                      *)
TwoOf(same(_, _)) ==
    \E v, w \in DOMAIN versions : v # w /\ same(versions[v], versions[w])
StampsTie == TwoOf(LAMBDA x, y : x = y)
DatesTie == TwoOf(LAMBDA x, y : x.mtime \div Coarse = y.mtime \div Coarse)

(* The bytes a range names.                                                   *)
BytesNamed(spec, size) ==
    {p \in 0 .. size - 1 :
        CASE spec.kind = "span" -> spec.first <= p /\ p <= spec.last
          [] spec.kind = "from" -> spec.first <= p
          [] OTHER -> size - spec.last <= p}

(* A response whose stream ends has sent the length it declared; one that     *)
(* answers a range covers the bytes it names, no others, and is refused only  *)
(* where it names none.                                                       *)
FramedAsDeclared ==
    /\ reply.stage = "ended" => reply.sent = reply.count
    /\ reply.stage \in {"decided", "answered"} /\ reply.probe /\ helper # "handed" =>
         \A spec \in reply.range :
           LET named == BytesNamed(spec, reply.size)
           IN  CASE reply.status = 206 ->
                      named = reply.first .. reply.first + reply.count - 1 /\ named # {}
                 [] reply.status = 416 -> named = {}
                 [] OTHER -> spec.kind = "span" /\ spec.last < spec.first

(* A client that goes on where its copy broke off does not splice versions,   *)
(* unless the file was written under the response itself, two versions share  *)
(* the second it went by, or an inventory's stamp.                            *)
NothingSpliced ==
    \A c \in copy :
      /\ \A i \in DOMAIN c.bytes : c.bytes[i][2] = i - 1
      /\ \/ \A i, j \in DOMAIN c.bytes : c.bytes[i][1] = c.bytes[j][1]
         \/ c.disturbed
         \/ c.byDate /\ DatesTie
         \/ helper = "stamped" /\ StampsTie

(* A copy is called current only if it is what would have been sent, and by   *)
(* its tag only in the coding it is in: one that was mixed while it was read  *)
(* is not, unless in an inventory's tree.                                     *)
ConfirmedIsCurrent ==
    reply.stage = "answered" /\ reply.status = 304 =>
      \A c \in copy :
        /\ reply.byTag => c.coding = reply.coding
        /\ \/ \A i \in DOMAIN c.bytes : c.bytes[i][1] = reply.asOf
           \/ DatesTie
           \/ helper \in Assets /\ c.disturbed

(* An encoded variant is of the version whose tag it bears, unless the build  *)
(* left it in the very moment the asset was written again.                    *)
VariantsEncodeTheAsset ==
    \A entry \in stock : \A x \in entry.variants :
      x.version = entry.version \/ x.mtime = versions[entry.version].mtime

FilesAreSound ==
    FramedAsDeclared /\ NothingSpliced /\ ConfirmedIsCurrent /\ VariantsEncodeTheAsset
==============================================================================
