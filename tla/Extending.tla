----------------------------- MODULE Extending ------------------------------
(* `extending' and Run.covered (without_durability/stepwise.py): a step that  *)
(* names a window has its pass's claim stretched over it, and the round trip  *)
(* is skipped when what was granted before covers it with a window to spare.  *)
(* The store counts from when it grants, the pass from when it is told, and   *)
(* their clocks differ in nothing else.  Under a worker a ticker speaks for   *)
(* the pass; a caller of `resume' has none, and may have said what its claim  *)
(* was made for ("alone") or not ("bare").  The store's half is Checkpointer's.*)
EXTENDS Naturals, FiniteSets

CONSTANTS
    Steps,       \* what the body runs, in turn or side by side
    Spans,       \* the windows a step may name
    Grant,       \* what the claim was made for
    TickWorth,   \* what a worker's sign of life is worth: its lease
    Lag,         \* how long an answer of the store may be on its way
    LastInstant  \* bound on time

ASSUME ExtendingAssumption ==
    /\ Spans \subseteq Nat \ {0}
    /\ \A x \in Spans : Lag <= x
    /\ Grant \in Nat \ {0}
    /\ Lag \in Nat
    /\ TickWorth \in Nat /\ Lag < TickWorth

VARIABLES
    driver,      \* who runs the pass: "worker", "alone", "bare"
    instant,     \* the time of the store, and of the pass
    heldUntil,   \* the claim's budget: a deadline nothing but `extend' moves on
    aliveUntil,  \* when it lapses if nothing is heard
    word,        \* what one sign of life is worth
    superseded,  \* another pass has taken the workflow
    since,       \* `since': when the pass was last told of a grant
    covered,     \* and of how much
    act,         \* Steps -> what the step is doing
    named,       \* Steps -> the window it named
    until,       \* Steps -> the end of that window, from when it was granted
    abreast      \* two steps have been under way at once

extVars == <<driver, instant, heldUntil, aliveUntil, word, superseded, since, covered, act,
             named, until, abreast>>
claimRow == <<heldUntil, aliveUntil, word>>

Nearer(x, y) == IF x < y THEN x ELSE y
Farther(x, y) == IF x < y THEN y ELSE x

ExtInit ==
    /\ driver \in {"worker", "alone", "bare"}
    /\ instant \in 0 .. Lag
    /\ word = IF driver = "worker" THEN TickWorth ELSE Grant
    /\ heldUntil = Grant
    /\ aliveUntil = Nearer(word, Grant)
    /\ superseded = FALSE
    /\ since = instant
    /\ covered = IF driver = "bare" THEN 0 ELSE Grant
    /\ act = [x \in Steps |-> "idle"]
    /\ named = [x \in Steps |-> 0]
    /\ until = [x \in Steps |-> 0]
    /\ abreast = FALSE

-----------------------------------------------------------------------------
Liveness(span) == IF driver = "worker" THEN TickWorth ELSE span

SpareBarely(span) == instant - since + span <= covered
Spare(span) == instant - since + span + Liveness(span) <= covered

UnderWay(y) == act[y] \in {"asking", "granted", "running"}
Alongside(x) == abreast' = (abreast \/ \E y \in Steps \ {x} : UnderWay(y))

(* A step asks for its window, and runs at once where it is covered.          *)
AsksWindow(x, span) ==
    /\ act[x] = "idle"
    /\ named' = [named EXCEPT ![x] = span]
    /\ IF Spare(span)
       THEN /\ act' = [act EXCEPT ![x] = "running"]
            /\ until' = [until EXCEPT ![x] = instant + span]
       ELSE /\ act' = [act EXCEPT ![x] = "asking"]
            /\ UNCHANGED until
    /\ Alongside(x)
    /\ UNCHANGED <<driver, instant, claimRow, superseded, since, covered>>

(* A step that names none.                                                    *)
Starts(x) ==
    /\ act[x] = "idle"
    /\ act' = [act EXCEPT ![x] = "running"]
    /\ until' = [until EXCEPT ![x] = instant]
    /\ Alongside(x)
    /\ UNCHANGED <<driver, instant, claimRow, superseded, since, covered, named>>

(* Checkpointer.extend: the later of the two budgets, and a sign of life that *)
(* is worth what was asked from now on: without a ticker it may bring nearer  *)
(* the moment another step was promised.                                      *)
Extends(x) ==
    /\ act[x] = "asking"
    /\ IF superseded
       THEN /\ act' = [act EXCEPT ![x] = "fenced"]
            /\ UNCHANGED <<claimRow, until>>
       ELSE /\ act' = [act EXCEPT ![x] = "granted"]
            /\ heldUntil' = Farther(heldUntil, instant + named[x])
            /\ word' = Liveness(named[x])
            /\ aliveUntil' = Nearer(instant + word', heldUntil')
            /\ until' = [until EXCEPT ![x] = instant + named[x]]
    /\ UNCHANGED <<driver, instant, superseded, since, covered, named, abreast>>

Answered(x) ==
    /\ act[x] = "granted"
    /\ act' = [act EXCEPT ![x] = "running"]
    /\ since' = instant
    /\ covered' = named[x]
    /\ UNCHANGED <<driver, instant, claimRow, superseded, named, until, abreast>>

(* The effect is over and its record is written, or refused; or it raised,    *)
(* which the body may bear.                                                   *)
RecordsEffect(x) ==
    /\ act[x] = "running"
    /\ IF superseded
       THEN act' = [act EXCEPT ![x] = "fenced"] /\ UNCHANGED aliveUntil
       ELSE /\ act' = [act EXCEPT ![x] = "ended"]
            /\ aliveUntil' = Nearer(instant + word, heldUntil)
    /\ UNCHANGED <<driver, instant, heldUntil, word, superseded, since, covered, named, until,
                   abreast>>

EffectFails(x) ==
    /\ act[x] = "running"
    /\ act' = [act EXCEPT ![x] = "ended"]
    /\ UNCHANGED <<driver, instant, claimRow, superseded, since, covered, named, until, abreast>>

(* keep_alive: a renewal that is refused ends the pass.                       *)
Ticks ==
    /\ driver = "worker"
    /\ IF superseded \/ heldUntil <= instant
       THEN act' = [x \in Steps |-> "ended"] /\ UNCHANGED <<aliveUntil, word>>
       ELSE /\ word' = TickWorth
            /\ aliveUntil' = Nearer(instant + TickWorth, heldUntil)
            /\ UNCHANGED act
    /\ UNCHANGED <<driver, instant, heldUntil, superseded, since, covered, named, until, abreast>>

TakenOver ==
    /\ ~superseded /\ aliveUntil <= instant
    /\ superseded' = TRUE
    /\ UNCHANGED <<driver, instant, claimRow, since, covered, act, named, until, abreast>>

(* An answer takes no longer than Lag, and a worker's ticker, which tries     *)
(* RENEWALS times in a lease, is heard once in each.                          *)
InstantPasses ==
    /\ instant < LastInstant
    /\ \A x \in Steps : act[x] = "granted" => instant < until[x] - named[x] + Lag
    /\ driver = "worker" /\ ~superseded => aliveUntil > instant + 1 \/ aliveUntil = heldUntil
    /\ instant' = instant + 1
    /\ UNCHANGED <<driver, claimRow, superseded, since, covered, act, named, until, abreast>>

ExtNext ==
    \/ Ticks \/ TakenOver \/ InstantPasses
    \/ \E x \in Steps :
        \/ \E span \in Spans : AsksWindow(x, span)
        \/ Starts(x) \/ Extends(x) \/ Answered(x) \/ RecordsEffect(x) \/ EffectFails(x)

-----------------------------------------------------------------------------
ExtSpec == ExtInit /\ [][ExtNext]_extVars

(* The type invariant.                                                        *)
ExtTypeOK ==
    /\ driver \in {"worker", "alone", "bare"}
    /\ instant \in Nat /\ heldUntil \in Nat /\ aliveUntil \in Nat /\ word \in Nat
    /\ superseded \in BOOLEAN
    /\ since \in Nat /\ covered \in Nat
    /\ act \in [Steps -> {"idle", "asking", "granted", "running", "ended", "fenced"}]
    /\ named \in [Steps -> Nat]
    /\ until \in [Steps -> Nat]
    /\ abreast \in BOOLEAN

(* A step is let keep the window it named, whether that was bought or was     *)
(* skipped over on an answer that had been slow: until the window is over     *)
(* nobody else may take the workflow, and its record is not refused.  A pass  *)
(* without a ticker keeps this only while its steps run in turn: a shorter    *)
(* window bought beside a longer one takes the claim's liveness with it.      *)
WindowsAreHonoured ==
    driver = "worker" \/ ~abreast =>
        \A x \in Steps :
            act[x] = "running" /\ instant < until[x] => ~superseded /\ aliveUntil > instant
=============================================================================
