------------------------------ MODULE Routing -------------------------------
(* The router of without_web: a table of routes folded into a trie (trie.py), *)
(* a request walked down it and back (router.py), and the endpoint it reaches *)
(* run behind `catching' (handlers.py, exceptions.py).  A path is the sequence *)
(* of what is between its slashes.                                            *)
EXTENDS Naturals, Sequences, FiniteSets, FiniteSetsExt, SequencesExt

CONSTANTS
    Tables,      \* sequences of entries, as an application declares them
    Paths,
    Verbs,
    Numbers      \* the texts an int converter takes

VARIABLES
    entries,     \* the application's table
    wanted,      \* [path, verb]
    flat,        \* the flattened table: [segments, verbs, target]
    trail,       \* the branches of the walk not tried yet, the next one first
    resolved,    \* "building", "refused", "built", "walking", "none", or the row reached
    bound,       \* the values of the row's parameters
    run,         \* of the handler: "idle", "running", "whole", "mapped", "raised"
    statusLines  \* status lines that went out

routingVars == <<entries, wanted, flat, trail, resolved, bound, run, statusLines>>

-----------------------------------------------------------------------------
Blank == ""

(* A segment is a literal, or a parameter of one segment or of all the rest.  *)
Lit(text) == [kind |-> "literal", text |-> text, name |-> "none", converter |-> "none"]
Par(name, converter) ==
    [kind |-> "param", text |-> "none", name |-> name, converter |-> converter]
Rest(name, converter) ==
    [kind |-> "rest", text |-> "none", name |-> name, converter |-> converter]

RouteSegments ==
    [kind : {"literal", "param", "rest"}, text : STRING, name : STRING, converter : STRING]
RouteEntries ==
    [what : {"route", "delegate"}, verb : STRING, segments : Seq(RouteSegments), streams : BOOLEAN]

(* What the types of the code say of a table and of a path.                   *)
ASSUME RoutingAssumption == Tables \subseteq Seq(RouteEntries) /\ Paths \subseteq Seq(STRING)

Converts(converter, text) ==
    CASE converter = "int" -> text \in Numbers
      [] converter = "slug" -> text # Blank
      [] OTHER -> TRUE

(* What the walk takes for one segment: the rest is handed over joined.       *)
ConvertsRest(converter, texts) == Converts(converter, IF Len(texts) = 1 THEN texts[1] ELSE "joined")

(* The branch a segment travels: its name has no part in it, and all that is  *)
(* left has one slot.                                                         *)
Key(segment) ==
    CASE segment.kind = "literal" -> <<"literal", segment.text>>
      [] segment.kind = "param" -> <<"param", segment.converter>>
      [] OTHER -> <<"rest", "slot">>
Spine(segments) == [i \in DOMAIN segments |-> Key(segments[i])]

(* split_path: the slashes at both ends are not there.                        *)
SplitPath(path) ==
    LET full == {i \in DOMAIN path : path[i] # Blank}
    IN  IF full = {} THEN <<>> ELSE SubSeq(path, Min(full), Max(full))

-----------------------------------------------------------------------------
(* Some numbers in their order.                                               *)
Ascending(numbers) ==
    [k \in 1 .. Cardinality(numbers) |->
        CHOOSE i \in numbers : Cardinality({j \in numbers : j < i}) = k - 1]

(* _flatten: routes of the same segments, names included, are one row with the *)
(* verbs of all; a delegate is two, after every route.                        *)
IsRoute(entry) == entry.what = "route"
SameRoute(i, j) ==
    IsRoute(entries[i]) /\ IsRoute(entries[j]) /\ entries[i].segments = entries[j].segments
Merged(i) == [segments |-> entries[i].segments, target |-> i,
              verbs |-> {entries[j].verb : j \in {k \in DOMAIN entries : SameRoute(i, k)}}]
Delegated(i) == <<[segments |-> entries[i].segments, target |-> i, verbs |-> {}],
                  [segments |-> Append(entries[i].segments, Rest("mount", "path")),
                   target |-> i, verbs |-> {}]>>

Firsts == Ascending({i \in DOMAIN entries :
                        IsRoute(entries[i]) /\ ~\E j \in 1 .. i - 1 : SameRoute(i, j)})
Mounts == Ascending({i \in DOMAIN entries : ~IsRoute(entries[i])})
Flattened ==
    [n \in DOMAIN Firsts |-> Merged(Firsts[n])]
        \o [n \in 1 .. 2 * Len(Mounts) |-> Delegated(Mounts[(n + 1) \div 2])[2 - (n % 2)]]

DeclaredTwice ==
    \E i, j \in DOMAIN entries : i < j /\ SameRoute(i, j) /\ entries[i].verb = entries[j].verb

(* build refuses a rest that something follows, two leaves at one path, and   *)
(* two that would take all that is left, unless they convert it alike.        *)
Buried(built) ==
    \E n \in DOMAIN built : \E i \in DOMAIN built[n].segments :
        i < Len(built[n].segments) /\ built[n].segments[i].kind = "rest"
Ambiguous(built) ==
    \E m, n \in DOMAIN built :
        LET p == built[m].segments  q == built[n].segments
        IN  m < n /\ \/ Spine(p) = Spine(q)
                     \/ /\ p # <<>> /\ q # <<>> /\ Spine(Front(p)) = Spine(Front(q))
                        /\ Last(p).kind = "rest" /\ Last(q).kind = "rest"
                        /\ Last(p).converter # Last(q).converter

RoutingInit ==
    /\ entries \in Tables
    /\ wanted = [path |-> <<>>, verb |-> "none"]
    /\ flat = <<>> /\ trail = <<>> /\ bound = <<>>
    /\ resolved = [at |-> "building", row |-> 0]
    /\ run = "idle" /\ statusLines = 0

BuildsRouter ==
    /\ resolved.at = "building"
    /\ flat' = Flattened
    /\ LET refused == DeclaredTwice \/ Buried(Flattened) \/ Ambiguous(Flattened)
       IN  resolved' = [resolved EXCEPT !.at = IF refused THEN "refused" ELSE "built"]
    /\ UNCHANGED <<entries, wanted, trail, bound, run, statusLines>>

Dispatches ==
    /\ resolved.at = "built"
    /\ wanted' \in [path : Paths, verb : Verbs]
    /\ resolved' = [resolved EXCEPT !.at = "walking"]
    /\ trail' = <<[at |-> <<>>, left |-> SplitPath(wanted'.path), values |-> <<>>]>>
    /\ UNCHANGED <<entries, flat, bound, run, statusLines>>

-----------------------------------------------------------------------------
(* The trie: a node is the keys that lead to it.                              *)
Leading(node) == {n \in DOMAIN flat : IsPrefix(node, Spine(flat[n].segments))}
IsNode(node) == Leading(node) # {}
LeafOf(node) == {n \in DOMAIN flat : Spine(flat[n].segments) = node}

ConverterAt(node, n) == flat[n].segments[Len(node) + 1].converter
Parted(node) == {n \in Leading(node) : /\ Len(flat[n].segments) > Len(node)
                                       /\ flat[n].segments[Len(node) + 1].kind = "param"}
Brings(node, n) ==
    n \in Parted(node) /\ \A m \in Parted(node) : m < n => ConverterAt(node, m) # ConverterAt(node, n)

(* The converters below a node as _freeze leaves them, by the rows that       *)
(* brought them: str last, and else in their order.                           *)
ByPrecedence(node, rows) ==
    LET typed == {n \in rows : ConverterAt(node, n) # "str"}
    IN  Ascending(typed) \o Ascending(rows \ typed)

(* The branches of a frame, in the order the walk tries them.                 *)
OnLiteral(f) ==
    LET node == Append(f.at, <<"literal", Head(f.left)>>)
    IN  IF IsNode(node)
        THEN <<[at |-> node, left |-> Tail(f.left), values |-> f.values]>>
        ELSE <<>>
OnParams(f) ==
    LET converting == {n \in Parted(f.at) : /\ Brings(f.at, n)
                                            /\ Converts(ConverterAt(f.at, n), Head(f.left))}
        taking == ByPrecedence(f.at, converting)
    IN  [i \in DOMAIN taking |->
            [at |-> Append(f.at, <<"param", ConverterAt(f.at, taking[i])>>), left |-> Tail(f.left),
             values |-> Append(f.values, <<Head(f.left)>>)]]
OnRest(f) ==
    LET node == Append(f.at, <<"rest", "slot">>)
    IN  IF \E n \in LeafOf(node) : ConvertsRest(Last(flat[n].segments).converter, f.left)
        THEN <<[at |-> node, left |-> <<>>, values |-> Append(f.values, f.left)]>>
        ELSE <<>>

(* A walk that has gone down a literal does not come back for the rest.       *)
ForksCommitted(f) ==
    IF OnLiteral(f) # <<>> THEN OnLiteral(f) ELSE OnParams(f) \o OnRest(f)

Forks(f) == OnLiteral(f) \o OnParams(f) \o OnRest(f)

Walks ==
    /\ resolved.at = "walking" /\ trail # <<>>
    /\ LET f == Head(trail)
       IN  IF f.left # <<>>
           THEN trail' = Forks(f) \o Tail(trail) /\ UNCHANGED <<resolved, bound>>
           ELSE IF LeafOf(f.at) = {}
           THEN trail' = Tail(trail) /\ UNCHANGED <<resolved, bound>>
           ELSE \E n \in LeafOf(f.at) :
                  /\ resolved' = [at |-> "found", row |-> n]
                  /\ bound' = f.values
                  /\ trail' = <<>>
    /\ UNCHANGED <<entries, wanted, flat, run, statusLines>>

FallsBack ==
    /\ resolved.at = "walking" /\ trail = <<>>
    /\ resolved' = [resolved EXCEPT !.at = "none"]
    /\ UNCHANGED <<entries, wanted, flat, trail, bound, run, statusLines>>

-----------------------------------------------------------------------------
(* What the leaf answers, and the handler run.                                *)
Reached == flat[resolved.row]
IsMounted == ~IsRoute(entries[Reached.target])
Endpoint == CHOOSE i \in DOMAIN entries :
                SameRoute(i, Reached.target) /\ entries[i].verb = wanted.verb

(* 405, with the verbs that are there.                                        *)
RefusesVerb ==
    /\ resolved.at = "found" /\ ~IsMounted /\ wanted.verb \notin Reached.verbs
    /\ resolved' = [resolved EXCEPT !.at = "405"]
    /\ UNCHANGED <<entries, wanted, flat, trail, bound, run, statusLines>>

(* The endpoint builds its handler.  One that streams has its values extracted *)
(* here, while no middleware is around it, and a rejection goes past them all. *)
StartsHandler ==
    /\ resolved.at = "found" /\ run = "idle"
    /\ IsMounted \/ wanted.verb \in Reached.verbs
    /\ run' \in IF ~IsMounted /\ entries[Endpoint].streams THEN {"running", "raised"} ELSE {"running"}
    /\ UNCHANGED <<entries, wanted, flat, trail, resolved, bound, statusLines>>

EmitsStart ==
    /\ run = "running" /\ statusLines = 0
    /\ statusLines' = 1
    /\ UNCHANGED <<entries, wanted, flat, trail, resolved, bound, run>>

(* `catching' asks recover for a response as long as none has begun.          *)
Recoverable == statusLines = 0

HandlerRaises ==
    /\ run = "running"
    /\ \/ Recoverable /\ run' = "mapped" /\ statusLines' = statusLines + 1
       \/ run' = "raised" /\ UNCHANGED statusLines
    /\ UNCHANGED <<entries, wanted, flat, trail, resolved, bound>>

HandlerEnds ==
    /\ run = "running"
    /\ run' = "whole"
    /\ UNCHANGED <<entries, wanted, flat, trail, resolved, bound, statusLines>>

RoutingNext ==
    \/ BuildsRouter \/ Dispatches \/ Walks \/ FallsBack \/ RefusesVerb \/ StartsHandler
    \/ EmitsStart \/ HandlerRaises \/ HandlerEnds

RoutingSpec == RoutingInit /\ [][RoutingNext]_routingVars

-----------------------------------------------------------------------------
(* What a route says by itself, with no trie: which paths it takes, and which *)
(* of two that take one is the more specific, where they first part.          *)
Matches(segments, path) ==
    LET open == segments # <<>> /\ Last(segments).kind = "rest"
        fixed == IF open THEN Front(segments) ELSE segments
    IN  /\ IF open THEN Len(path) > Len(fixed) ELSE Len(path) = Len(fixed)
        /\ \A i \in DOMAIN fixed :
             IF fixed[i].kind = "literal" THEN fixed[i].text = path[i]
             ELSE Converts(fixed[i].converter, path[i])
        /\ open => ConvertsRest(Last(segments).converter, SubSeq(path, Len(fixed) + 1, Len(path)))

Class(segment) ==
    CASE segment.kind = "literal" -> 0
      [] segment.kind = "rest" -> 3
      [] segment.kind = "param" /\ segment.converter = "str" -> 2
      [] OTHER -> 1

(* Two rows part where their keys do; of two converters but str, the one that *)
(* was brought first is tried first.                                          *)
Precedes(m, n) ==
    LET p == flat[m].segments  q == flat[n].segments
        i == CHOOSE i \in DOMAIN p :
                Spine(SubSeq(p, 1, i - 1)) = Spine(SubSeq(q, 1, i - 1)) /\ Key(p[i]) # Key(q[i])
        first(segments) == Min(Leading(Spine(SubSeq(segments, 1, i))))
    IN  \/ Class(p[i]) < Class(q[i])
        \/ Class(p[i]) = Class(q[i]) /\ first(p) < first(q)

Parameters(segments) == {i \in DOMAIN segments : segments[i].kind # "literal"}

(* A table that was not refused answers every path alike however the walk had *)
(* to turn back: with a route that takes it, before which no other comes that *)
(* takes it too, and with the fallback only where none does; every parameter  *)
(* is given the part of the path that stands in its place, a mounted          *)
(* application what follows its prefix.  And whatever the handler does, one   *)
(* status line at most goes out.                                              *)
RoutesAsDeclared ==
    LET path == SplitPath(wanted.path)
        takers == {n \in DOMAIN flat : Matches(flat[n].segments, path)}
    IN  /\ resolved.at = "none" => takers = {}
        /\ resolved.at \in {"found", "405"} =>
             /\ resolved.row \in takers
             /\ \A n \in takers \ {resolved.row} : Precedes(resolved.row, n)
             /\ Len(bound) = Cardinality(Parameters(Reached.segments))
             /\ \A i \in DOMAIN Reached.segments :
                  LET step == Reached.segments[i]
                      k == Cardinality(Parameters(SubSeq(Reached.segments, 1, i)))
                  IN  /\ step.kind = "param" => bound[k] = <<path[i]>>
                      /\ step.kind = "rest" => bound[k] = SubSeq(path, i, Len(path))
        /\ statusLines <= 1
        /\ run = "mapped" => statusLines = 1
=============================================================================
