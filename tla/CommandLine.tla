---------------------------- MODULE CommandLine -----------------------------
(* parse_argv of without_cli (binding.py): a command line read level by level, *)
(* each level's options scanned until its subcommand is met, the last level's *)
(* bare tokens handed to its positionals, and then every value extracted.  A  *)
(* value is where it stands in the line and how it is given there, so that    *)
(* what became of each token can be told.  And `lines' (streams.py), by which *)
(* a command reads its standard input: chunks that were cut anywhere, split   *)
(* again into lines, where a character ends a line by itself (LF), ends one   *)
(* unless an LF follows (CR), or ends none.                                   *)
EXTENDS Naturals, Sequences, FiniteSets, FiniteSetsExt, SequencesExt

CONSTANTS
    Tree,        \* level -> its options and its children
    Root,
    ArgTokens,
    Answerable,  \* the spellings that stop the scan: `answered'
    MaxTokens,
    MaxPositionals,
    MaxChunk,    \* characters in a chunk
    MaxInput     \* and in all of them

VARIABLES
    layout,      \* the positionals the last level declares, by cardinality
    argv,
    sourceHolds, \* the environment has a value for the options that look there
    level,
    at,          \* the token the scan is at
    literal,     \* a `--' was met on this level
    occurred,    \* option -> its occurrences on this level
    loose,       \* the bare tokens of the level
    descent,     \* the levels behind: [level, values, named]
    reading,     \* [what, at, why]
    piped,       \* all that has arrived
    fragment,    \* held: a line that has not ended, or not for certain
    split,       \* what was yielded
    exhausted    \* the chunks have ended

cliVars == <<layout, argv, sourceHolds, level, at, literal, occurred, loose, descent, reading>>

Cardinalities == {"once", "optional", "many"}
Layouts == UNION {[1 .. n -> Cardinalities] : n \in 0 .. MaxPositionals}
OptionsOf(l) == Tree[l].options
AllOptions == UNION {OptionsOf(l) : l \in DOMAIN Tree}
IsGroup(l) == Tree[l].children # {}
Unset == [o \in AllOptions |-> <<>>]

-----------------------------------------------------------------------------
(* _positional_layout: `many' comes last and once, nothing required follows   *)
(* what may be left out.                                                      *)
LayoutHolds(declared) ==
    \A i, j \in DOMAIN declared :
        i < j => /\ declared[i] # "many"
                 /\ declared[i] # "once" => declared[j] # "once"

CliInit ==
    /\ layout \in Layouts
    /\ argv = <<>> /\ sourceHolds = FALSE
    /\ level = Root /\ at = 1 /\ literal = FALSE
    /\ occurred = Unset /\ loose = <<>> /\ descent = <<>>
    /\ reading = [what |-> "declaring", at |-> 0, why |-> "none"]

Declares ==
    /\ reading.what = "declaring"
    /\ reading' = [reading EXCEPT !.what = IF LayoutHolds(layout) THEN "ready" ELSE "refused"]
    /\ UNCHANGED <<layout, argv, sourceHolds, level, at, literal, occurred, loose, descent>>

Invoked ==
    /\ reading.what = "ready"
    /\ argv' \in UNION {[1 .. n -> ArgTokens] : n \in 0 .. MaxTokens}
    /\ sourceHolds' \in BOOLEAN
    /\ reading' = [reading EXCEPT !.what = "scanning"]
    /\ UNCHANGED <<layout, level, at, literal, occurred, loose, descent>>

-----------------------------------------------------------------------------
(* _scan, a turn of its loop at a time.                                       *)
Scanning == reading.what = "scanning"
More == Scanning /\ at <= Len(argv)
Token == argv[at]
Named(name) == {o \in OptionsOf(level) : name \in o.names}
Settles(what, why) == reading' = [what |-> what, at |-> at, why |-> why]
Rejects(why) == Settles("rejected", why) /\ UNCHANGED <<level, at, literal, occurred, loose, descent>>
StillScanning == UNCHANGED <<level, descent, reading>>
AsTyped == UNCHANGED <<layout, argv, sourceHolds>>

(* An occurrence is the value given in the word, or in the token after it, or *)
(* that the option is there.                                                  *)
Occurrence(how) == [at |-> IF how = "next" THEN at + 1 ELSE at, how |-> how]
Recorded(occurrences, option, how) ==
    [occurrences EXCEPT ![option] = Append(@, Occurrence(how))]

IsBare == literal \/ Token.kind = "bare"
Spelling(token) ==
    CASE token.kind = "long" /\ ~token.inline -> token.name
      [] token.kind = "short" /\ Len(token.letters) = 1 -> token.letters[1]
      [] OTHER -> "none"
IsAnswered ==
    /\ ~literal /\ Token.kind \in {"long", "short"}
    /\ Spelling(Token) \in Answerable /\ Named(Spelling(Token)) = {}

TakesBare ==
    /\ More /\ IsBare /\ ~IsGroup(level)
    /\ loose' = Append(loose, at)
    /\ at' = at + 1
    /\ AsTyped /\ StillScanning /\ UNCHANGED <<literal, occurred>>

TakesSeparator ==
    /\ More /\ ~literal /\ Token.kind = "separator"
    /\ literal' = TRUE
    /\ at' = at + 1
    /\ AsTyped /\ StillScanning /\ UNCHANGED <<occurred, loose>>

StopsToAnswer ==
    /\ More /\ IsAnswered
    /\ Settles("answered", "none")
    /\ AsTyped /\ UNCHANGED <<level, at, literal, occurred, loose, descent>>

(* An option that leaves its value to be read again.                          *)
TakesValueAside(occurrences, option, inWord) ==
    occurred' = Recorded(occurrences, option, IF inWord THEN "inline" ELSE "next") /\ at' = at + 1

(* The value of an option is what the word holds, and else the next token,    *)
(* whatever that looks like.                                                  *)
TakesValue(occurrences, option, inWord) ==
    IF inWord
    THEN occurred' = Recorded(occurrences, option, "inline") /\ at' = at + 1
    ELSE occurred' = Recorded(occurrences, option, "next") /\ at' = at + 2

TakesLong ==
    /\ More /\ ~literal /\ Token.kind = "long" /\ ~IsAnswered
    /\ AsTyped
    /\ \/ Named(Token.name) = {} /\ Rejects("unknown option")
       \/ \E o \in Named(Token.name) :
            \/ /\ ~o.valued /\ Token.inline /\ Rejects("takes no value")
            \/ /\ o.valued /\ ~Token.inline /\ at = Len(argv) /\ Rejects("expects a value")
            \/ /\ ~o.valued /\ ~Token.inline
               /\ occurred' = Recorded(occurred, o, "present") /\ at' = at + 1
               /\ StillScanning /\ UNCHANGED <<literal, loose>>
            \/ /\ o.valued /\ (Token.inline \/ at < Len(argv))
               /\ TakesValue(occurred, o, Token.inline)
               /\ StillScanning /\ UNCHANGED <<literal, loose>>

(* A cluster is flags up to its first letter that is none of them; an option  *)
(* with a value takes the rest of the cluster for it.                         *)
IsFlag(letter) == \E o \in Named(letter) : ~o.valued
StopOf(letters) == {k \in DOMAIN letters : ~IsFlag(letters[k])}
WithFlags(letters) ==
    [o \in AllOptions |->
        LET said == SelectSeq(letters, LAMBDA x : o \in Named(x))
        IN  occurred[o] \o [k \in DOMAIN said |-> Occurrence("present")]]

TakesCluster ==
    /\ More /\ ~literal /\ Token.kind = "short" /\ ~IsAnswered
    /\ AsTyped
    /\ LET letters == Token.letters
           stop == StopOf(letters)
       IN  \/ /\ stop = {}
              /\ occurred' = WithFlags(letters) /\ at' = at + 1
              /\ StillScanning /\ UNCHANGED <<literal, loose>>
           \/ /\ stop # {}
              /\ LET k == Min(stop)
                     before == WithFlags(SubSeq(letters, 1, k - 1))
                 IN  \/ Named(letters[k]) = {} /\ Rejects("unknown option")
                     \/ \E o \in Named(letters[k]) :
                          \/ k = Len(letters) /\ at = Len(argv) /\ Rejects("expects a value")
                          \/ /\ k < Len(letters) \/ at < Len(argv)
                             /\ TakesValue(before, o, k < Len(letters))
                             /\ StillScanning /\ UNCHANGED <<literal, loose>>

-----------------------------------------------------------------------------
(* _merged: the command line if it said anything, else the source.            *)
LineOrSource(l) ==
    [o \in OptionsOf(l) |->
        IF occurred[o] # <<>> THEN occurred[o]
        ELSE IF o.sourced /\ sourceHolds THEN <<[at |-> 0, how |-> "source"]>> ELSE <<>>]
LevelRead(next) == [level |-> level, values |-> LineOrSource(level), named |-> next]

(* A level with children ends at its first bare token, the child's name; what *)
(* follows is the child's, which knows nothing of a `--' before it.           *)
Descends ==
    /\ More /\ IsBare /\ IsGroup(level)
    /\ AsTyped
    /\ IF Token.kind = "bare" /\ Token.text \in Tree[level].children
       THEN /\ descent' = Append(descent, LevelRead(at))
            /\ level' = Token.text
            /\ at' = at + 1 /\ literal' = FALSE /\ occurred' = Unset /\ loose' = <<>>
            /\ UNCHANGED reading
       ELSE Rejects("unknown command")

NamesNoCommand ==
    /\ Scanning /\ at > Len(argv) /\ IsGroup(level)
    /\ Rejects("expected a command")
    /\ AsTyped

(* _assigned: in the order of declaration, one each, `many' all that is left. *)
Assigned(j) ==
    CASE \E i \in 1 .. j - 1 : layout[i] = "many" -> <<>>
      [] layout[j] = "many" -> SubSeq(loose, j, Len(loose))
      [] OTHER -> IF j <= Len(loose) THEN <<loose[j]>> ELSE <<>>
Leftover == Len(loose) > Len(layout) /\ \A j \in DOMAIN layout : layout[j] # "many"

(* What a cardinality takes: `once' one value, `optional' no more than one.   *)
Extracts(cardinality, values) ==
    CASE cardinality = "once" -> Len(values) = 1
      [] cardinality = "optional" -> Len(values) <= 1
      [] OTHER -> TRUE

WholeDescent == Append(descent, LevelRead(0))
OptionsExtract(n) ==
    \A o \in DOMAIN WholeDescent[n].values : Extracts(o.cardinality, WholeDescent[n].values[o])
ArgumentsExtract == \A j \in DOMAIN layout : Extracts(layout[j], Assigned(j))

(* resolve: a group's values before its child's, a command's in the order its *)
(* tokens were declared.                                                      *)
Resolves ==
    /\ Scanning /\ at > Len(argv) /\ ~IsGroup(level)
    /\ AsTyped
    /\ \/ Leftover /\ Rejects("unexpected argument")
       \/ /\ ~Leftover /\ \E n \in DOMAIN WholeDescent : ~OptionsExtract(n)
          /\ Rejects("option")
       \/ /\ ~Leftover /\ ~ArgumentsExtract
          /\ \A n \in DOMAIN descent : OptionsExtract(n)
          /\ Rejects("missing argument")
       \/ /\ ~Leftover /\ ArgumentsExtract /\ \A n \in DOMAIN WholeDescent : OptionsExtract(n)
          /\ Settles("bound", "none") /\ descent' = WholeDescent
          /\ UNCHANGED <<level, at, literal, occurred, loose>>

CliNext ==
    \/ Declares \/ Invoked \/ TakesBare \/ TakesSeparator \/ StopsToAnswer
    \/ TakesLong \/ TakesCluster \/ Descends \/ NamesNoCommand \/ Resolves

CliSpec == CliInit /\ [][CliNext]_cliVars
-----------------------------------------------------------------------------
(* What became of the tokens of a line that was accepted.                     *)
FirstOf(n) == IF n = 1 THEN 1 ELSE descent[n - 1].named + 1
LastOf(n) == IF n = Len(descent) THEN Len(argv) ELSE descent[n].named - 1
OccurrencesIn(n) == UNION {ToSet(descent[n].values[o]) : o \in DOMAIN descent[n].values}
Followers == {v.at : v \in {w \in UNION {OccurrencesIn(n) : n \in DOMAIN descent} : w.how = "next"}}
Subcommands == {descent[n].named : n \in DOMAIN descent} \ {0}
Positionals == FlattenSeq([j \in DOMAIN layout |-> Assigned(j)])

(* The options a word names: of a cluster, no further than one with a value.  *)
Spelled(l, token) ==
    LET named(x) == CHOOSE o \in OptionsOf(l) : x \in o.names
        options == IF token.kind = "long" THEN <<named(token.name)>>
                   ELSE [k \in DOMAIN token.letters |-> named(token.letters[k])]
        valued == {k \in DOMAIN options : options[k].valued}
    IN  IF valued = {} THEN options ELSE SubSeq(options, 1, Min(valued))
HoldsValue(l, token) ==
    IF token.kind = "long" THEN token.inline ELSE Len(Spelled(l, token)) < Len(token.letters)

(* What a level recorded of the word at i.                                    *)
SaidAt(n, i, o) ==
    Len(SelectSeq(descent[n].values[o],
                  LAMBDA v : v.at = (IF v.how = "next" THEN i + 1 ELSE i)))

WordIsHeard(n, i) ==
    LET l == descent[n].level
        spelled == Spelled(l, argv[i])
        waits == Last(spelled).valued /\ ~HoldsValue(l, argv[i])
    IN  /\ \A o \in OptionsOf(l) : SaidAt(n, i, o) = Len(SelectSeq(spelled, LAMBDA p : p = o))
        /\ waits <=> i + 1 \in Followers

SeparatorIsHeard(n, i) ==
    \A k \in i + 1 .. LastOf(n) : k \in ToSet(Positionals)

(* No token of an accepted line is passed over or heard twice: each is a      *)
(* subcommand's name, a positional, the value of the option before it, the    *)
(* `--' after which its level has positionals only, or a word every option of *)
(* which was recorded.  The positionals stand in the order they were declared *)
(* in, the required ones with a token each, and no layout that was accepted   *)
(* lets one that may be left out take the token a required one was owed.  A   *)
(* spelling is answered where it is no value, behind no `--', and no option.  *)
LineIsAccountedFor ==
    /\ reading.what = "bound" =>
         LET taken == ToSet(Positionals)
         IN  /\ \A i, j \in DOMAIN Positionals : i < j => Positionals[i] < Positionals[j]
             /\ \A j \in DOMAIN layout : layout[j] = "once" => Len(Assigned(j)) = 1
             /\ Followers \cap Subcommands = {} /\ Followers \cap taken = {}
             /\ Subcommands \cap taken = {}
             /\ \A n \in DOMAIN descent : \A i \in FirstOf(n) .. LastOf(n) :
                  i \in Followers \cup taken \/
                  CASE argv[i].kind = "bare" -> FALSE
                    [] argv[i].kind = "separator" -> SeparatorIsHeard(n, i)
                    [] OTHER -> WordIsHeard(n, i)
    /\ reading.why = "missing argument" =>
         Len(loose) < Cardinality({j \in DOMAIN layout : layout[j] = "once"})
    /\ reading.what = "answered" =>
         /\ ~\E o \in OptionsOf(level) : Spelling(argv[at]) \in o.names
         /\ \A o \in AllOptions : \A k \in DOMAIN occurred[o] : occurred[o][k].at < at
         /\ \A i \in (IF descent = <<>> THEN 1 ELSE Last(descent).named + 1) .. at - 1 :
              argv[i].kind = "separator" =>
                  \E o \in AllOptions : [at |-> i, how |-> "next"] \in ToSet(occurred[o])

-----------------------------------------------------------------------------
lineVars == <<piped, fragment, split, exhausted>>

Chunks == UNION {[1 .. n -> {"x", "cr", "lf"}] : n \in 0 .. MaxChunk}

(* splitlines: a line goes to its terminator, and CR LF is one.               *)
LineEndsAt(text, i) ==
    \/ text[i] = "lf"
    \/ text[i] = "cr" /\ (i = Len(text) \/ text[i + 1] # "lf")
StartsLine(text, i) == i = 1 \/ LineEndsAt(text, i - 1)
SplitLines(text) ==
    LET starts == SelectSeq([i \in DOMAIN text |-> i], LAMBDA i : StartsLine(text, i))
        last(n) == IF n = Len(starts) THEN Len(text) ELSE starts[n + 1] - 1
    IN  [n \in DOMAIN starts |-> SubSeq(text, starts[n], last(n))]

LinesInit == piped = <<>> /\ fragment = <<>> /\ split = <<>> /\ exhausted = FALSE

(* Only the first line a chunk completes is joined to what is held; what is   *)
(* held and ends in CR is split again with it.                                *)
SplitAgain == fragment # <<>> /\ Last(fragment) = "cr"
AsHeld(piece) == IF SplitAgain THEN piece ELSE fragment \o piece
EndsInLine(piece) == Last(piece) = "x"
MayGoOn(piece) == Last(piece) \in {"x", "cr"}

Splits(chunk) ==
    LET text == IF SplitAgain THEN fragment \o chunk ELSE chunk
        pieces == SplitLines(text)
        tail == IF MayGoOn(Last(pieces)) THEN Last(pieces) ELSE <<>>
        complete == IF tail = <<>> THEN pieces ELSE Front(pieces)
    IN  IF complete = <<>>
        THEN fragment' = AsHeld(tail) /\ UNCHANGED split
        ELSE /\ split' = split \o <<AsHeld(Head(complete))>> \o Tail(complete)
             /\ fragment' = tail

Arrives ==
    /\ ~exhausted
    /\ \E chunk \in Chunks :
         /\ Len(piped) + Len(chunk) <= MaxInput
         /\ piped' = piped \o chunk
         /\ IF chunk = <<>> THEN UNCHANGED <<fragment, split>> ELSE Splits(chunk)
    /\ UNCHANGED exhausted

Exhausts ==
    /\ ~exhausted
    /\ exhausted' = TRUE
    /\ split' = IF fragment = <<>> THEN split ELSE Append(split, fragment)
    /\ fragment' = <<>>
    /\ UNCHANGED piped

LinesNext == Arrives \/ Exhausts
LinesSpec == LinesInit /\ [][LinesNext]_lineVars

(* Wherever the input was cut, it is yielded in the lines it has as a whole,  *)
(* nothing of it lost, and no line is held that the next chunk cannot change. *)
LinesComeWhole ==
    LET whole == SplitLines(piped)
    IN  /\ split \o (IF fragment = <<>> THEN <<>> ELSE <<fragment>>) = whole
        /\ fragment # <<>> => Last(fragment) # "lf"
        /\ exhausted => split = whole
=============================================================================
