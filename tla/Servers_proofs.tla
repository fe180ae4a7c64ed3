--------------------------- MODULE Servers_proofs ---------------------------
(***************************************************************************)
(* What the runs say of a few connections and streams, for any number of   *)
(* them, any windows and any limits: the shutdown of `serving' reaches     *)
(* every connection, whatever moment of its birth it meets it in; the      *)
(* application's lifespan is kept around them; a WebSocket session is told *)
(* its end once; requests pipelined on an HTTP/1.1 connection get one      *)
(* answer each, in order and within the bounds; an HTTP/2 connection wakes *)
(* its senders, ends its responses and gives its credit back; a body is    *)
(* encoded as the client and the handler agreed; a file is framed as its   *)
(* headers declare, whatever is written under it; and an event stream that *)
(* is cut anywhere is resumed without a gap.                               *)
(***************************************************************************)
EXTENDS HttpServer, Lifespan, WebsocketServer, AsgiExchange, H2Server, Compression,
        FileServing, EventStream,
        FiniteSetTheorems, SequenceTheorems, FunctionTheorems, WellFoundedInduction, TLAPS

-----------------------------------------------------------------------------
(* The server's shutdown: over TLS or not, with any number of flush ticks. *)

(* The connections that are being served or closed.                          *)
LiveConns == {c \in Conns : conn[c] \in {"serving", "closing"}}

(* What each phase of the shutdown has put behind it: after abort_clients no *)
(* handshake goes on; after the tick that follows, none is on its way to     *)
(* `handle`; and an accept found waiting once the listener has closed has    *)
(* seen every flush tick go by.                                              *)
NoHandshakeLeft == halting \in {"settling", "waiting", "down"} => \A c \in Conns : conn[c] # "raw"
StartsAreTicking == halting = "settling" => \A c \in Conns : conn[c] = "starting" => c \in tick
NoStartLeft == halting \in {"waiting", "down"} => \A c \in Conns : conn[c] # "starting"
LateAcceptsWereFlushed ==
    ~Listening => \A c \in Conns : conn[c] \in {"accepted", "lost"} => ticks = FlushTicks
LostToTheFlood == \A c \in Conns : conn[c] = "lost" => ~Listening

AttachedAreDoomed == halting = "waiting" => Attached \subseteq doomed

(* When `serving` has returned, no connection has a transport any more.      *)
QuietWhenDown == halting = "down" => Attached = {}

(* in_flight is the number of connections being served.                      *)
LiveIsCounted == live = Cardinality(LiveConns)

(* The inductive invariant.                                                  *)
ShutdownInv ==
    /\ ServerTypeOK
    /\ NoHandshakeLeft
    /\ StartsAreTicking
    /\ NoStartLeft
    /\ LateAcceptsWereFlushed
    /\ LostToTheFlood
    /\ AttachedAreDoomed
    /\ QuietWhenDown
    /\ LiveIsCounted

(* Serving is counted over a finite set.                                     *)
LEMMA InFlightFinite == IsFiniteSet(LiveConns) /\ Cardinality(LiveConns) \in Nat
<1>1. LiveConns \subseteq Conns
  BY DEF LiveConns
<1>2. IsFiniteSet(LiveConns)
  BY <1>1, ServerAssumption, FS_Subset
<1> QED BY <1>2, FS_CardinalityType

(* One connection that begins to be served raises the count by one.          *)
LEMMA OneMore ==
  ASSUME NEW c \in Conns, c \notin LiveConns, LiveConns' = LiveConns \cup {c}
  PROVE  Cardinality(LiveConns') = Cardinality(LiveConns) + 1
BY InFlightFinite, FS_AddElement

(* One that is gone lowers it by one.                                        *)
LEMMA OneFewer ==
  ASSUME NEW c \in Conns, c \in LiveConns, LiveConns' = LiveConns \ {c}
  PROVE  Cardinality(LiveConns') = Cardinality(LiveConns) - 1
BY InFlightFinite, FS_RemoveElement

-----------------------------------------------------------------------------
(* The shutdown's invariant holds of every step of a connection and of the   *)
(* shutdown.                                                                 *)
LEMMA InitShutdown == ServerInit => ShutdownInv
<1> SUFFICES ASSUME ServerInit PROVE ShutdownInv
  OBVIOUS
<1>1. ServerTypeOK
  BY ServerAssumption DEF ServerInit, ServerTypeOK, Stages
<1>2. LiveConns = {}
  BY DEF ServerInit, LiveConns
<1>3. LiveIsCounted
  BY <1>2, FS_EmptySet DEF ServerInit, LiveIsCounted
<1> QED
  BY <1>1, <1>3 DEF ServerInit, ShutdownInv, NoHandshakeLeft, StartsAreTicking, NoStartLeft,
     LateAcceptsWereFlushed, LostToTheFlood, AttachedAreDoomed, QuietWhenDown, Listening

(* Every step of the server and of its shutdown keeps the invariant.         *)
LEMMA NextShutdown == ShutdownInv /\ [ServerNext]_serverVars => ShutdownInv'
<1> SUFFICES ASSUME ShutdownInv, [ServerNext]_serverVars PROVE ShutdownInv'
  OBVIOUS
<1> DEFINE Phases == /\ NoHandshakeLeft
                     /\ StartsAreTicking
                     /\ NoStartLeft
                     /\ LateAcceptsWereFlushed
                     /\ LostToTheFlood
                     /\ AttachedAreDoomed
                     /\ QuietWhenDown
<1>a. ServerTypeOK /\ Phases /\ LiveIsCounted
  BY DEF ShutdownInv
<1>b. ASSUME ServerTypeOK', Phases', LiveIsCounted' PROVE ShutdownInv'
  BY <1>b DEF ShutdownInv
<1> USE DEF NoHandshakeLeft, StartsAreTicking, NoStartLeft, LateAcceptsWereFlushed,
    LostToTheFlood, AttachedAreDoomed, QuietWhenDown, Listening
<1>1. CASE UNCHANGED serverVars
  <2>1. LiveConns' = LiveConns /\ Phases' /\ ServerTypeOK'
    BY <1>1, <1>a DEF serverVars, LiveConns, ServerTypeOK, Attached
  <2> QED BY <1>1, <1>a, <1>b, <2>1 DEF serverVars, LiveIsCounted
<1>2. ASSUME NEW c \in Conns,
             Connects(c) \/ Accepts(c) \/ Materializes(c) \/ ShakesHands(c) \/ Handled(c)
             \/ CutShort(c)
      PROVE  ShutdownInv'
  <2>1. ServerTypeOK'
    BY <1>2, <1>a DEF Connects, Accepts, Materializes, ShakesHands, Handled, CutShort, Becomes,
       ServerTypeOK, Stages
  <2>2. LiveConns' = LiveConns /\ live' = live
    BY <1>2, <1>a DEF Connects, Accepts, Materializes, ShakesHands, Handled, CutShort, Becomes,
       LiveConns, ServerTypeOK
  <2>3. CASE Connects(c) \/ Accepts(c)
    <3>1. Phases'
      BY <2>3, <1>a DEF Connects, Accepts, Becomes, Attached, ServerTypeOK
    <3> QED BY <1>a, <1>b, <2>1, <2>2, <3>1 DEF LiveIsCounted
  <2>4. CASE Materializes(c)
    <3>1. /\ \A d \in Conns \ {c} : conn'[d] = conn[d]
          /\ Listening => conn'[c] \in {"raw", "starting"}
          /\ ~Listening => conn'[c] = "lost"
          /\ conn[c] = "accepted" /\ tick' = tick \ {c}
          /\ UNCHANGED <<halting, ticks, doomed, live>>
      BY <2>4, <1>a DEF Materializes, Becomes, ServerTypeOK
    <3>2. Phases'
      BY <3>1, <1>a DEF Attached
    <3> QED BY <1>a, <1>b, <2>1, <2>2, <3>2 DEF LiveIsCounted
  <2>5. CASE ShakesHands(c) \/ CutShort(c)
    <3>1. Phases'
      BY <2>5, <1>a DEF ShakesHands, CutShort, Becomes, Attached, ServerTypeOK
    <3> QED BY <1>a, <1>b, <2>1, <2>2, <3>1 DEF LiveIsCounted
  <2>6. CASE Handled(c)
    <3>1. Phases'
      BY <2>6, <1>a DEF Handled, Becomes, Attached, ServerTypeOK
    <3> QED BY <1>a, <1>b, <2>1, <2>2, <3>1 DEF LiveIsCounted
  <2> QED BY <1>2, <2>3, <2>4, <2>5, <2>6
<1>3. ASSUME NEW c \in Conns, Serves(c) PROVE ShutdownInv'
  <2>1. ServerTypeOK' /\ Phases'
    BY <1>3, <1>a DEF Serves, Becomes, ServerTypeOK, Stages, Attached
  <2>2. c \notin LiveConns /\ LiveConns' = LiveConns \cup {c}
    BY <1>3, <1>a DEF Serves, Becomes, LiveConns, ServerTypeOK
  <2>3. LiveIsCounted'
    BY <1>3, <1>a, <2>2, OneMore DEF Serves, LiveIsCounted
  <2> QED BY <1>b, <2>1, <2>3
<1>4. ASSUME NEW c \in Conns, NeverServes(c) \/ Stops(c) PROVE ShutdownInv'
  <2>1. ServerTypeOK' /\ Phases'
    BY <1>4, <1>a DEF NeverServes, Stops, Becomes, ServerTypeOK, Stages, Attached
  <2>2. LiveConns' = LiveConns /\ live' = live
    BY <1>4, <1>a DEF NeverServes, Stops, Becomes, LiveConns, ServerTypeOK
  <2> QED BY <1>a, <1>b, <2>1, <2>2 DEF LiveIsCounted
<1>5. ASSUME NEW c \in Conns, Closes(c) PROVE ShutdownInv'
  <2>1. Phases'
    BY <1>5, <1>a DEF Closes, Becomes, ServerTypeOK, Attached
  <2>2. c \in LiveConns /\ LiveConns' = LiveConns \ {c}
    BY <1>5, <1>a DEF Closes, Becomes, LiveConns, ServerTypeOK
  <2>3. LiveIsCounted'
    BY <1>5, <1>a, <2>2, OneFewer DEF Closes, LiveIsCounted
  <2>4. LiveConns' \subseteq Conns /\ live' \in Nat
    <3>1. LiveConns' \subseteq Conns
      BY DEF LiveConns
    <3>2. IsFiniteSet(LiveConns')
      BY <3>1, ServerAssumption, FS_Subset
    <3> QED BY <2>3, <3>1, <3>2, FS_CardinalityType DEF LiveIsCounted
  <2>5. ServerTypeOK'
    BY <1>5, <1>a, <2>4 DEF Closes, Becomes, ServerTypeOK, Stages
  <2> QED BY <1>b, <2>1, <2>3, <2>5
<1>6. ASSUME HaltBegins \/ FlushTicked \/ CancelledFirst \/ Down PROVE ShutdownInv'
  <2>1. ServerTypeOK' /\ Phases'
    BY <1>6, <1>a DEF HaltBegins, FlushTicked, CancelledFirst, Down, ServerTypeOK, Attached
  <2>2. LiveConns' = LiveConns /\ live' = live
    BY <1>6 DEF HaltBegins, FlushTicked, CancelledFirst, Down, LiveConns
  <2> QED BY <1>a, <1>b, <2>1, <2>2 DEF LiveIsCounted
<1>7. ASSUME Flushes PROVE ShutdownInv'
  <2>1. ServerTypeOK'
    BY <1>7, <1>a, ServerAssumption DEF Flushes, ServerTypeOK
  <2>2. Phases'
    BY <1>7, <1>a DEF Flushes, ServerTypeOK, Attached
  <2>3. LiveConns' = LiveConns /\ live' = live
    BY <1>7 DEF Flushes, LiveConns
  <2> QED BY <1>a, <1>b, <2>1, <2>2, <2>3 DEF LiveIsCounted
<1>8. ASSUME ClosesListener PROVE ShutdownInv'
  <2>1. ServerTypeOK'
    BY <1>8, <1>a DEF ClosesListener, ClosesAtOnce, ServerTypeOK, Stages, Tracked
  <2>2. \A c \in Conns : conn'[c] = IF conn[c] = "kernel" THEN "gone" ELSE conn[c]
    BY <1>8 DEF ClosesListener, ClosesAtOnce
  <2>3. (\A c \in Conns : conn'[c] # "accepted") \/ ticks' = FlushTicks
    BY <1>8, <2>2 DEF ClosesListener, ClosesAtOnce, MidAccept
  <2>4. Phases'
    BY <1>8, <1>a, <2>2, <2>3 DEF ClosesListener, ClosesAtOnce
  <2>5. LiveConns' = LiveConns /\ live' = live
    BY <1>8, <2>2 DEF ClosesListener, ClosesAtOnce, LiveConns
  <2> QED BY <1>a, <1>b, <2>1, <2>4, <2>5 DEF LiveIsCounted
<1>9. ASSUME AbortsClients PROVE ShutdownInv'
  <2>1. ServerTypeOK'
    BY <1>9, <1>a DEF AbortsClients, ServerTypeOK, Stages
  <2>2. \A c \in Conns : conn'[c] = IF conn[c] = "raw" THEN "cut" ELSE conn[c]
    BY <1>9 DEF AbortsClients
  <2>3. Phases'
    BY <1>9, <1>a, <2>2 DEF AbortsClients
  <2>4. LiveConns' = LiveConns /\ live' = live
    BY <1>9, <2>2 DEF AbortsClients, LiveConns
  <2> QED BY <1>a, <1>b, <2>1, <2>3, <2>4 DEF LiveIsCounted
<1>10. ASSUME CancelsTheRest PROVE ShutdownInv'
  <2>1. ServerTypeOK'
    BY <1>10, <1>a DEF CancelsTheRest, ServerTypeOK, Tracked
  <2>2. Phases'
    BY <1>10, <1>a DEF CancelsTheRest, Tracked, Attached
  <2>3. LiveConns' = LiveConns /\ live' = live
    BY <1>10 DEF CancelsTheRest, LiveConns
  <2> QED BY <1>a, <1>b, <2>1, <2>2, <2>3 DEF LiveIsCounted
<1> QED
  BY <1>1, <1>2, <1>3, <1>4, <1>5, <1>6, <1>7, <1>8, <1>9, <1>10 DEF ServerNext

-----------------------------------------------------------------------------
(* Every phase of the shutdown has put behind it what it says, and the count *)
(* of the requests in flight is the number of connections being served.      *)
THEOREM ShutdownInvariant == ServerSpec => []ShutdownInv
BY InitShutdown, NextShutdown, PTL DEF ServerSpec

(* Once the last cancellation is out, whoever has a transport has been       *)
(* cancelled; a socket is left to nobody only behind a flood of accepts; and *)
(* in_flight counts the connections being served.                            *)
THEOREM ShutdownReaches == ServerSpec => []ShutdownReachesAll
<1>1. ShutdownInv => ShutdownReachesAll
  BY DEF ShutdownInv, ShutdownReachesAll, AttachedAreDoomed, LateAcceptsWereFlushed,
     LostToTheFlood, LiveIsCounted, LiveConns
<1> QED BY <1>1, ShutdownInvariant, PTL

(* When `serving` returns, no connection has a transport: nobody is being    *)
(* served, and nothing is left for the loop to do.                           *)
THEOREM DownIsQuiet == ServerSpec => []QuietWhenDown
<1>1. ShutdownInv => QuietWhenDown
  BY DEF ShutdownInv
<1> QED BY <1>1, ShutdownInvariant, PTL

-----------------------------------------------------------------------------
(* Of any numbers, one is least.                                              *)
LEMMA LeastThereIs ==
  ASSUME NEW T \in SUBSET Nat, T # {}
  PROVE  \E x \in T : \A y \in T : x <= y
<1> DEFINE R == {pair \in Nat \X Nat : pair[1] < pair[2]}
<1>1. IsWellFoundedOn(R, Nat)
  BY NatLessThanWellFounded DEF OpToRel
<1>2. \A x, y \in Nat : x < y => <<x, y>> \in R
  OBVIOUS
<1>. HIDE DEF R
<1>3. PICK x \in T : \A y \in T : <<y, x>> \notin R
  BY <1>1, WFMin
<1>4. \A y \in T : y \in Nat /\ x \in Nat /\ ~ (y < x)
  BY <1>2, <1>3
<1>. QED
  BY <1>4

(* Where the task of an application of ours is, and what it has said by then. *)
TaskSays ==
    appKind = "ours" =>
        /\ appTask = "ready" =>
              /\ post = <<"startup">> /\ host \in {"starting", "cancelled"}
              /\ resource = "unset" /\ ~started /\ ~failure
        /\ appTask = "entering" =>
              /\ post = <<>> /\ host \in {"starting", "cancelled"}
              /\ resource = "unset" /\ ~started /\ ~failure
        /\ appTask = "up" =>
              /\ host \in {"starting", "serving", "stopping", "cancelled"}
              /\ IF host = "stopping" THEN post = <<"shutdown">>
                 ELSE post = <<>> \/ (host = "cancelled" /\ post = <<"shutdown">>)
              /\ resource = "held" /\ started /\ ~failure
        /\ appTask = "leaving" => host \in {"stopping", "cancelled"} /\ resource = "held" /\ started
        /\ appTask \in TaskIsOver =>
              /\ resource # "held" /\ started /\ host # "serving"
              /\ failure \/ host # "starting"
        /\ appTask \in {"ready", "entering", "up", "leaving"} \cup TaskIsOver
        /\ lsFinished => appTask \in TaskIsOver
        /\ resource = "held" => cell
        /\ served => cell
        /\ host # "serving without" /\ ~unready
        /\ host \in {"refusing", "joining"} => appTask \in TaskIsOver
        /\ host = "serving" => appTask = "up"

HostKnows ==
    /\ host \in {"over", "failed", "serving without"} => appTask \in TaskIsOver
    /\ host = "serving without" => ~started
    /\ host = "over" /\ started => ~failure
    /\ ~unready
    /\ started \in BOOLEAN /\ lsFinished \in BOOLEAN /\ failure \in BOOLEAN
    /\ cell \in BOOLEAN /\ served \in BOOLEAN /\ unready \in BOOLEAN

LifespanInv == TaskSays /\ HostKnows

LEMMA LifespanSteps == ASSUME LifespanInv, LsNext PROVE LifespanInv'
<1>. USE DEF LifespanInv, TaskIsOver
<1>a. /\ Head(<<"startup">>) = "startup" /\ Tail(<<"startup">>) = <<>> /\ <<"startup">> # <<>>
  OBVIOUS
<1>b. /\ Head(<<"shutdown">>) = "shutdown" /\ Tail(<<"shutdown">>) = <<>> /\ <<"shutdown">> # <<>>
  OBVIOUS
<1>c. Append(<<>>, "shutdown") = <<"shutdown">>
  OBVIOUS
<1>1. CASE GetsEvent
  <2>1. TaskSays'
    BY <1>a, <1>b, <1>1 DEF GetsEvent, Mine, stateVars, ackVars, TaskSays, HostKnows
  <2>2. HostKnows'
    BY <1>a, <1>b, <1>1 DEF GetsEvent, Mine, stateVars, ackVars, TaskSays, HostKnows
  <2>. QED
    BY <2>1, <2>2
<1>2. CASE EntersContext
  <2>1. TaskSays'
    BY <1>2 DEF EntersContext, Mine, stateVars, ackVars, TaskSays, HostKnows
  <2>2. HostKnows'
    BY <1>2 DEF EntersContext, Mine, stateVars, ackVars, TaskSays, HostKnows
  <2>. QED
    BY <2>1, <2>2
<1>3. CASE EnterFails
  <2>1. TaskSays'
    BY <1>3 DEF EnterFails, Mine, stateVars, ackVars, TaskSays, HostKnows
  <2>2. HostKnows'
    BY <1>3 DEF EnterFails, Mine, stateVars, ackVars, TaskSays, HostKnows
  <2>. QED
    BY <2>1, <2>2
<1>4. CASE LeavesContext
  <2>1. TaskSays'
    BY <1>4 DEF LeavesContext, Mine, stateVars, ackVars, TaskSays, HostKnows
  <2>2. HostKnows'
    BY <1>4 DEF LeavesContext, Mine, stateVars, ackVars, TaskSays, HostKnows
  <2>. QED
    BY <2>1, <2>2
<1>5. CASE ForeignEnds
  <2>1. TaskSays'
    BY <1>5 DEF ForeignEnds, Theirs, stateVars, ackVars, TaskSays, HostKnows
  <2>2. HostKnows'
    BY <1>5 DEF ForeignEnds, Theirs, stateVars, ackVars, TaskSays, HostKnows
  <2>. QED
    BY <2>1, <2>2
<1>6. CASE ForeignGets
  <2>1. TaskSays'
    BY <1>6 DEF ForeignGets, Theirs, stateVars, ackVars, TaskSays, HostKnows
  <2>2. HostKnows'
    BY <1>6 DEF ForeignGets, Theirs, stateVars, ackVars, TaskSays, HostKnows
  <2>. QED
    BY <2>1, <2>2
<1>7. CASE ForeignReplies
  <2>1. TaskSays'
    BY <1>7 DEF ForeignReplies, Theirs, stateVars, ackVars, TaskSays, HostKnows
  <2>2. HostKnows'
    BY <1>7 DEF ForeignReplies, Theirs, stateVars, ackVars, TaskSays, HostKnows
  <2>. QED
    BY <2>1, <2>2
<1>8. CASE StartupHeard
  <2>1. TaskSays'
    BY <1>8 DEF StartupHeard, Hosting, stateVars, ackVars, TaskSays, HostKnows
  <2>2. HostKnows'
    BY <1>8 DEF StartupHeard, Hosting, stateVars, ackVars, TaskSays, HostKnows
  <2>. QED
    BY <2>1, <2>2
<1>9. CASE Unsupported
  <2>1. TaskSays'
    BY <1>9 DEF Unsupported, Hosting, stateVars, ackVars, TaskSays, HostKnows
  <2>2. HostKnows'
    BY <1>9 DEF Unsupported, Hosting, stateVars, ackVars, TaskSays, HostKnows
  <2>. QED
    BY <2>1, <2>2
<1>10. CASE RequestArrives
  <2>1. TaskSays'
    BY <1>10 DEF RequestArrives, stateVars, ackVars, TaskSays, HostKnows
  <2>2. HostKnows'
    BY <1>10 DEF RequestArrives, stateVars, ackVars, TaskSays, HostKnows
  <2>. QED
    BY <2>1, <2>2
<1>11. CASE RaisesStartup
  <2>1. TaskSays'
    BY <1>11 DEF RaisesStartup, Hosting, stateVars, ackVars, TaskSays, HostKnows
  <2>2. HostKnows'
    BY <1>11 DEF RaisesStartup, Hosting, stateVars, ackVars, TaskSays, HostKnows
  <2>. QED
    BY <2>1, <2>2
<1>12. CASE BlockEnds
  <2>1. TaskSays'
    BY <1>c, <1>12 DEF BlockEnds, Hosting, stateVars, ackVars, TaskSays, HostKnows
  <2>2. HostKnows'
    BY <1>c, <1>12 DEF BlockEnds, Hosting, stateVars, ackVars, TaskSays, HostKnows
  <2>. QED
    BY <2>1, <2>2
<1>13. CASE BlockEndsWithout
  <2>1. TaskSays'
    BY <1>13 DEF BlockEndsWithout, Hosting, stateVars, ackVars, TaskSays, HostKnows
  <2>2. HostKnows'
    BY <1>13 DEF BlockEndsWithout, Hosting, stateVars, ackVars, TaskSays, HostKnows
  <2>. QED
    BY <2>1, <2>2
<1>14. CASE ShutdownHeard
  <2>1. TaskSays'
    BY <1>14 DEF ShutdownHeard, Hosting, stateVars, ackVars, TaskSays, HostKnows
  <2>2. HostKnows'
    BY <1>14 DEF ShutdownHeard, Hosting, stateVars, ackVars, TaskSays, HostKnows
  <2>. QED
    BY <2>1, <2>2
<1>15. CASE JoinsTask
  <2>1. TaskSays'
    BY <1>15 DEF JoinsTask, Hosting, stateVars, ackVars, TaskSays, HostKnows
  <2>2. HostKnows'
    BY <1>15 DEF JoinsTask, Hosting, stateVars, ackVars, TaskSays, HostKnows
  <2>. QED
    BY <2>1, <2>2
<1>16. CASE CancelledInWait
  <2>1. TaskSays'
    BY <1>16 DEF CancelledInWait, Hosting, stateVars, ackVars, TaskSays, HostKnows
  <2>2. HostKnows'
    BY <1>16 DEF CancelledInWait, Hosting, stateVars, ackVars, TaskSays, HostKnows
  <2>. QED
    BY <2>1, <2>2
<1>17. CASE CancelledInJoin
  <2>1. TaskSays'
    BY <1>17 DEF CancelledInJoin, Hosting, stateVars, ackVars, TaskSays, HostKnows
  <2>2. HostKnows'
    BY <1>17 DEF CancelledInJoin, Hosting, stateVars, ackVars, TaskSays, HostKnows
  <2>. QED
    BY <2>1, <2>2
<1>. QED
  BY <1>1, <1>2, <1>3, <1>4, <1>5, <1>6, <1>7, <1>8, <1>9, <1>10, <1>11, <1>12, <1>13, <1>14, <1>15, <1>16, <1>17 DEF LsNext

THEOREM LifespanInvariant == LsInit /\ [][LsNext]_lsVars => []LifespanInv
<1>1. LsInit => LifespanInv
  BY DEF LsInit, LifespanInv, TaskSays, HostKnows, TaskIsOver
<1>2. LifespanInv /\ [LsNext]_lsVars => LifespanInv'
  <2>1. ASSUME LifespanInv, UNCHANGED lsVars PROVE TaskSays' /\ HostKnows'
    BY <2>1 DEF lsVars, ackVars, LifespanInv, TaskSays, HostKnows
  <2>. QED
    BY <2>1, LifespanSteps DEF LifespanInv
<1>. QED
  BY <1>1, <1>2, PTL

THEOREM LifespanKept == LsInit /\ [][LsNext]_lsVars => []LifespanIsKept
<1>1. LifespanInv => LifespanIsKept
  BY DEF LifespanInv, TaskSays, HostKnows, LifespanIsKept
<1>. QED
  BY <1>1, LifespanInvariant, PTL

SessionTypes ==
    /\ allowed \in {MaxMessage, Uncapped}
    /\ parts \in Nat /\ whole \in Nat /\ given \in Nat /\ farewells \in Nat
    /\ inbound \in Seq({"connect", "message", "disconnect"})

(* Until the pump is over nobody has said goodbye, and only the application   *)
(* can have ended the session.                                                *)
FarewellsLast ==
    /\ \A i \in DOMAIN inbound : inbound[i] = "disconnect" => i = Len(inbound)
    /\ pumping = "reading" => farewells = 0 /\ \A i \in DOMAIN inbound : inbound[i] # "disconnect"
    /\ farewells <= 1
    /\ closing /\ pumping # "over" => appClosed
    /\ pumping = "over" => closing /\ (farewells = 1 \/ appClosed)
    /\ pumping = "over" /\ receiving = "waiting" => inbound # <<>> \/ appClosed
WholeAreCounted == whole = given + Queued("message")
PartsFit == allowed # Uncapped => parts <= allowed

SessionInv == SessionTypes /\ FarewellsLast /\ WholeAreCounted /\ PartsFit

(* The queue between the pump and receive.                                    *)
InQueue(q, what) == {i \in DOMAIN q : q[i] = what}

LEMMA QueueGrows ==
  ASSUME NEW S, NEW q \in Seq(S), NEW m \in S, NEW what
  PROVE  /\ Cardinality(InQueue(q, what)) \in Nat
         /\ Cardinality(InQueue(Append(q, m), what)) = Cardinality(InQueue(q, what)) + (IF m = what THEN 1 ELSE 0)
<1>1. /\ Len(q) \in Nat /\ DOMAIN q = 1 .. Len(q) /\ DOMAIN Append(q, m) = 1 .. Len(q) + 1
      /\ Append(q, m)[Len(q) + 1] = m /\ \A i \in 1 .. Len(q) : Append(q, m)[i] = q[i]
  OBVIOUS
<1>2. \A i \in 1 .. Len(q) + 1 : i \in 1 .. Len(q) \/ i = Len(q) + 1
  BY <1>1
<1>3. \A i \in 1 .. Len(q) : i \in 1 .. Len(q) + 1 /\ i # Len(q) + 1
  BY <1>1
<1>4. Len(q) + 1 \notin InQueue(q, what) /\ Len(q) + 1 \in 1 .. Len(q) + 1
  BY <1>1, <1>3 DEF InQueue
<1>5. IsFiniteSet(InQueue(q, what))
  <2>1. IsFiniteSet(1 .. Len(q)) /\ InQueue(q, what) \subseteq 1 .. Len(q)
    BY <1>1, FS_Interval DEF InQueue
  <2>. QED
    BY <2>1, FS_Subset
<1>6. InQueue(Append(q, m), what) = IF m = what THEN InQueue(q, what) \cup {Len(q) + 1} ELSE InQueue(q, what)
  BY <1>1, <1>2, <1>3, <1>4 DEF InQueue
<1>7. Cardinality(InQueue(q, what) \cup {Len(q) + 1}) = Cardinality(InQueue(q, what)) + 1
  BY <1>4, <1>5, FS_AddElement
<1>8. Cardinality(InQueue(q, what)) \in Nat
  BY <1>5, FS_CardinalityType
<1>. QED
  BY <1>6, <1>7, <1>8

LEMMA QueueGives ==
  ASSUME NEW S, NEW q \in Seq(S), q # <<>>, NEW what
  PROVE  Cardinality(InQueue(q, what)) = Cardinality(InQueue(Tail(q), what)) + (IF Head(q) = what THEN 1 ELSE 0)
<1>1. /\ Len(q) \in Nat \ {0} /\ DOMAIN q = 1 .. Len(q) /\ DOMAIN Tail(q) = 1 .. Len(q) - 1
      /\ Head(q) = q[1] /\ \A i \in 1 .. Len(q) - 1 : Tail(q)[i] = q[i + 1]
  OBVIOUS
<1>. DEFINE A == InQueue(Tail(q), what)
            B == InQueue(q, what) \ {1}
            F == [i \in A |-> i + 1]
<1>2. A \subseteq 1 .. Len(q) - 1 /\ InQueue(q, what) \subseteq 1 .. Len(q)
  BY <1>1 DEF InQueue
<1>3. IsFiniteSet(A) /\ IsFiniteSet(B)
  <2>1. IsFiniteSet(1 .. Len(q) - 1) /\ IsFiniteSet(1 .. Len(q)) /\ B \subseteq 1 .. Len(q)
    BY <1>1, <1>2, FS_Interval
  <2>. QED
    BY <1>2, <2>1, FS_Subset
<1>4. ExistsBijection(A, B)
  <2>1. \A i \in A : i + 1 \in B /\ i \in Nat
    BY <1>1, <1>2 DEF InQueue
  <2>2. \A j \in B : j - 1 \in A /\ (j - 1) + 1 = j
    <3>1. ASSUME NEW j \in B PROVE j - 1 \in A /\ (j - 1) + 1 = j
      <4>1. j \in 1 .. Len(q) /\ j # 1 /\ q[j] = what
        BY <1>1, <3>1 DEF InQueue
      <4>2. j - 1 \in 1 .. Len(q) - 1 /\ (j - 1) + 1 = j
        BY <1>1, <4>1
      <4>. QED
        BY <1>1, <4>1, <4>2 DEF InQueue
    <3>. QED
      BY <3>1
  <2>3. F \in [A -> B] /\ (\A i, j \in A : F[i] = F[j] => i = j)
    BY <2>1
  <2>4. \A j \in B : \E i \in A : F[i] = j
    BY <2>2
  <2>. QED
    BY <2>3, <2>4 DEF ExistsBijection, Bijection, Injection, Surjection, IsInjective
<1>5. Cardinality(A) = Cardinality(B)
  BY <1>3, <1>4, FS_Bijection
<1>6. CASE Head(q) = what
  <2>1. 1 \in InQueue(q, what) /\ InQueue(q, what) = B \cup {1} /\ 1 \notin B
    BY <1>1, <1>6 DEF InQueue
  <2>2. Cardinality(B \cup {1}) = Cardinality(B) + 1
    BY <1>3, <2>1, FS_AddElement
  <2>. QED
    BY <1>5, <1>6, <2>1, <2>2
<1>7. CASE Head(q) # what
  <2>1. InQueue(q, what) = B
    BY <1>1, <1>7 DEF InQueue
  <2>2. Cardinality(A) \in Nat
    BY <1>3, FS_CardinalityType
  <2>3. Cardinality(InQueue(q, what)) = Cardinality(A)
    BY <1>5, <2>1
  <2>. HIDE DEF A, B, F
  <2>4. Cardinality(InQueue(q, what)) = Cardinality(A) + 0
    BY <2>2, <2>3
  <2>. QED
    BY <1>7, <2>4 DEF A
<1>. QED
  BY <1>6, <1>7

LEMMA SessionStarts == ASSUME WsInit PROVE SessionInv
<1>. USE DEF WsInit
<1>1. DOMAIN inbound = {1} /\ inbound[1] = "connect" /\ Len(inbound) = 1
  OBVIOUS
<1>2. {i \in DOMAIN inbound : inbound[i] = "message"} = {}
  BY <1>1
<1>3. WholeAreCounted
  BY <1>2, FS_EmptySet DEF WholeAreCounted, Queued
<1>4. SessionTypes /\ FarewellsLast /\ PartsFit
  BY <1>1, WebsocketAssumption DEF SessionTypes, FarewellsLast, PartsFit
<1>. QED
  BY <1>3, <1>4 DEF SessionInv

(* The pump puts what it read, or a disconnect, at the end of the queue.      *)
LEMMA PumpPuts ==
  ASSUME SessionInv, NEW m \in {"message", "disconnect"}, pumping = "reading",
         inbound' = Append(inbound, m)
  PROVE  /\ inbound' \in Seq({"connect", "message", "disconnect"}) /\ inbound' # <<>>
         /\ Queued("message")' = Queued("message") + (IF m = "message" THEN 1 ELSE 0)
         /\ Queued("message") \in Nat
         /\ \A i \in DOMAIN inbound' : inbound'[i] = "disconnect" => i = Len(inbound') /\ m = "disconnect"
<1>. DEFINE S == {"connect", "message", "disconnect"}
            q == inbound
<1>1. q \in Seq(S) /\ m \in S
  BY DEF SessionInv, SessionTypes
<1>2. \A i \in DOMAIN q : q[i] # "disconnect"
  BY DEF SessionInv, FarewellsLast
<1>. HIDE DEF S, q
<1>3. /\ Cardinality(InQueue(q, "message")) \in Nat
      /\ Cardinality(InQueue(Append(q, m), "message")) =
            Cardinality(InQueue(q, "message")) + (IF m = "message" THEN 1 ELSE 0)
  BY <1>1, QueueGrows
<1>4. /\ Append(q, m) \in Seq(S) /\ Append(q, m) # <<>> /\ Len(q) \in Nat
      /\ DOMAIN Append(q, m) = 1 .. Len(q) + 1 /\ DOMAIN q = 1 .. Len(q) /\ Len(Append(q, m)) = Len(q) + 1
      /\ Append(q, m)[Len(q) + 1] = m /\ \A i \in 1 .. Len(q) : Append(q, m)[i] = q[i]
  BY <1>1
<1>5. \A i \in DOMAIN Append(q, m) :
         Append(q, m)[i] = "disconnect" => i = Len(Append(q, m)) /\ m = "disconnect"
  <2>1. \A i \in 1 .. Len(q) + 1 : i \in 1 .. Len(q) \/ i = Len(q) + 1
    BY <1>4
  <2>. QED
    BY <1>2, <1>4, <2>1
<1>. QED
  BY <1>3, <1>4, <1>5 DEF q, S, Queued, InQueue

LEMMA PumpEndsSession ==
  ASSUME SessionInv, pumping = "reading", pumping' = "over", closing' = TRUE,
         \/ inbound' = Append(inbound, "disconnect") /\ farewells' = farewells + 1
         \/ inbound' = inbound /\ farewells' = farewells /\ appClosed,
         UNCHANGED <<allowed, parts, whole, given, receiving, appClosed>>
  PROVE  SessionInv'
<1>1. farewells = 0 /\ farewells' \in {0, 1} /\ (farewells' = 1 \/ appClosed)
  BY DEF SessionInv, FarewellsLast
<1>2. CASE inbound' = Append(inbound, "disconnect") /\ farewells' = farewells + 1
  <2>1. /\ inbound' \in Seq({"connect", "message", "disconnect"}) /\ inbound' # <<>>
        /\ Queued("message")' = Queued("message") + 0 /\ Queued("message") \in Nat
        /\ \A i \in DOMAIN inbound' : inbound'[i] = "disconnect" => i = Len(inbound')
    BY <1>2, PumpPuts
  <2>. QED
    BY <1>1, <1>2, <2>1 DEF SessionInv, SessionTypes, FarewellsLast, WholeAreCounted, PartsFit
<1>3. CASE inbound' = inbound /\ farewells' = farewells /\ appClosed
  BY <1>1, <1>3 DEF SessionInv, SessionTypes, FarewellsLast, WholeAreCounted, PartsFit, Queued
<1>. QED
  BY <1>2, <1>3

LEMMA PumpsKeep ==
  ASSUME SessionInv, PumpsData \/ PumpsTooMuch \/ PumpsPing \/ PumpsClose \/ ReadEnds
  PROVE  SessionInv'
<1>0. ASSUME PumpEnds, pumping = "reading"
      PROVE  /\ pumping' = "over" /\ closing' = TRUE
             /\ \/ inbound' = Append(inbound, "disconnect") /\ farewells' = farewells + 1
                \/ inbound' = inbound /\ farewells' = farewells /\ appClosed
  BY <1>0 DEF PumpEnds, SessionInv, SessionTypes, FarewellsLast
<1>1. CASE PumpsData
  <2>1. /\ pumping = "reading" /\ ~Oversized(parts + 1)
        /\ UNCHANGED <<allowed, pumping, farewells, closing, receiving, given, appClosed>>
        /\ \/ parts' = 0 /\ whole' = whole + 1 /\ inbound' = Append(inbound, "message")
           \/ parts' = parts + 1 /\ UNCHANGED <<whole, inbound>>
    BY <1>1 DEF PumpsData, Reading, wsApp
  <2>2. allowed \in {MaxMessage, Uncapped} /\ MaxMessage \in Nat /\ parts \in Nat /\ whole \in Nat /\ given \in Nat
    BY WebsocketAssumption DEF SessionInv, SessionTypes
  <2>3. PartsFit'
    BY <2>1, <2>2 DEF PartsFit, Oversized
  <2>4. CASE parts' = 0 /\ whole' = whole + 1 /\ inbound' = Append(inbound, "message")
    <3>1. /\ inbound' \in Seq({"connect", "message", "disconnect"}) /\ inbound' # <<>>
          /\ Queued("message")' = Queued("message") + 1 /\ Queued("message") \in Nat
          /\ \A i \in DOMAIN inbound' : inbound'[i] # "disconnect"
      BY <2>1, <2>4, PumpPuts
    <3>. QED
      BY <2>1, <2>2, <2>3, <2>4, <3>1, SMTT(20) DEF SessionInv, SessionTypes, FarewellsLast, WholeAreCounted
  <2>5. CASE parts' = parts + 1 /\ UNCHANGED <<whole, inbound>>
    BY <2>1, <2>2, <2>3, <2>5 DEF SessionInv, SessionTypes, FarewellsLast, WholeAreCounted, Queued
  <2>. QED
    BY <2>1, <2>4, <2>5
<1>2. CASE PumpsTooMuch
  <2>1. /\ pumping = "reading" /\ UNCHANGED <<allowed, parts, whole, receiving, given, appClosed>>
        /\ \/ PumpEnds
           \/ /\ inbound' = Append(inbound, "disconnect") /\ farewells' = farewells + 1
              /\ pumping' = "over" /\ closing' = TRUE
    BY <1>2 DEF PumpsTooMuch, Reading, wsApp
  <2>. QED
    BY <1>0, <2>1, PumpEndsSession
<1>3. CASE PumpsPing
  <2>1. /\ pumping = "reading" /\ UNCHANGED <<allowed, parts, whole, receiving, given, appClosed>>
        /\ PumpEnds \/ UNCHANGED <<pumping, inbound, farewells, closing>>
    BY <1>3 DEF PumpsPing, Reading, wsApp, wsQueue
  <2>2. CASE PumpEnds
    BY <1>0, <2>1, <2>2, PumpEndsSession
  <2>3. CASE UNCHANGED <<pumping, inbound, farewells, closing>>
    BY <2>1, <2>3 DEF SessionInv, SessionTypes, FarewellsLast, WholeAreCounted, PartsFit, Queued
  <2>. QED
    BY <2>1, <2>2, <2>3
<1>4. CASE PumpsClose
  <2>1. /\ pumping = "reading" /\ UNCHANGED <<allowed, parts, whole, receiving, given, appClosed>>
        /\ \/ PumpEnds
           \/ /\ inbound' = Append(inbound, "disconnect") /\ farewells' = farewells + 1
              /\ pumping' = "over" /\ closing' = TRUE
    BY <1>4 DEF PumpsClose, Reading, wsApp
  <2>. QED
    BY <1>0, <2>1, PumpEndsSession
<1>5. CASE ReadEnds
  <2>1. /\ pumping = "reading" /\ UNCHANGED <<allowed, parts, whole, receiving, given, appClosed>>
        /\ PumpEnds
    BY <1>5 DEF ReadEnds, wsApp
  <2>. QED
    BY <1>0, <2>1, PumpEndsSession
<1>. QED
  BY <1>1, <1>2, <1>3, <1>4, <1>5

LEMMA GetsKeep == ASSUME SessionInv, GetsMessage PROVE SessionInv'
<1>. DEFINE S == {"connect", "message", "disconnect"}
            q == inbound
<1>1. /\ q # <<>> /\ inbound' = Tail(q) /\ receiving' # "waiting"
      /\ given' = given + (IF Head(q) = "message" THEN 1 ELSE 0)
      /\ UNCHANGED <<allowed, pumping, parts, whole, farewells, closing, appClosed>>
      /\ given \in Nat /\ whole \in Nat
  BY DEF GetsMessage, SessionInv, SessionTypes
<1>2. q \in Seq(S)
  BY DEF SessionInv, SessionTypes
<1>. HIDE DEF S, q
<1>3. Cardinality(InQueue(q, "message")) =
        Cardinality(InQueue(Tail(q), "message")) + (IF Head(q) = "message" THEN 1 ELSE 0)
  BY <1>1, <1>2, QueueGives
<1>4. /\ Len(q) \in Nat \ {0} /\ DOMAIN q = 1 .. Len(q) /\ DOMAIN Tail(q) = 1 .. Len(q) - 1
      /\ Len(Tail(q)) = Len(q) - 1 /\ Tail(q) \in Seq(S)
      /\ \A i \in 1 .. Len(q) - 1 : Tail(q)[i] = q[i + 1]
  BY <1>1, <1>2
<1>5. Cardinality(InQueue(Tail(q), "message")) \in Nat
  <2>1. IsFiniteSet(1 .. Len(q) - 1) /\ InQueue(Tail(q), "message") \subseteq 1 .. Len(q) - 1
    BY <1>4, FS_Interval DEF InQueue
  <2>. QED
    BY <2>1, FS_Subset, FS_CardinalityType
<1>6. WholeAreCounted'
  <2>1. whole = given + Cardinality(InQueue(q, "message"))
    BY DEF SessionInv, WholeAreCounted, Queued, InQueue, q
  <2>0. ASSUME NEW n \in Nat, whole = given + (n + (IF Head(q) = "message" THEN 1 ELSE 0))
        PROVE  whole = (given + (IF Head(q) = "message" THEN 1 ELSE 0)) + n
    BY <1>1, <2>0
  <2>2. whole' = given' + Cardinality(InQueue(Tail(q), "message"))
    BY <1>1, <1>3, <1>5, <2>0, <2>1
  <2>3. Queued("message")' = Cardinality(InQueue(inbound', "message"))
    BY DEF Queued, InQueue
  <2>. QED
    BY <1>1, <2>2, <2>3 DEF WholeAreCounted
<1>7. \A i \in DOMAIN inbound' : inbound'[i] = "disconnect" => i = Len(inbound') /\ pumping # "reading"
  <2>1. SUFFICES ASSUME NEW i \in 1 .. Len(q) - 1, q[i + 1] = "disconnect"
                 PROVE  i = Len(q) - 1 /\ pumping # "reading"
    BY <1>1, <1>4
  <2>2. i + 1 \in DOMAIN q
    BY <1>4, <2>1
  <2>3. i + 1 = Len(q) /\ pumping # "reading"
    BY <2>1, <2>2 DEF SessionInv, FarewellsLast, q
  <2>4. i \in Nat /\ Len(q) \in Nat
    BY <1>4, <2>1
  <2>. QED
    BY <2>3, <2>4
<1>8. FarewellsLast'
  BY <1>1, <1>7 DEF SessionInv, FarewellsLast
<1>9. SessionTypes' /\ PartsFit'
  BY <1>1, <1>4 DEF SessionInv, SessionTypes, PartsFit, S
<1>. QED
  BY <1>6, <1>8, <1>9 DEF SessionInv

(* All else leaves the queue and the counts alone.                            *)
LEMMA OthersKeep ==
  ASSUME SessionInv,
         PeerSends \/ PeerGone \/ CallsReceive \/ AcceptsSocket \/ SendsClose \/ SendIsRefused \/ AppReturns
  PROVE  SessionInv'
<1>1. /\ UNCHANGED <<allowed, parts, whole, inbound, farewells, given>>
      /\ \/ UNCHANGED <<pumping, closing, receiving, appClosed>>
         \/ /\ UNCHANGED <<pumping, closing, appClosed>>
            /\ receiving' = "waiting" => ~closing \/ inbound # <<>>
         \/ closing' = TRUE /\ appClosed' = TRUE /\ UNCHANGED <<pumping, receiving>>
         \/ /\ UNCHANGED <<closing, appClosed, receiving>>
            /\ pumping' = pumping \/ (pumping = "reading" /\ pumping' = "cancelled")
  BY DEF PeerSends, PeerGone, CallsReceive, AcceptsSocket, SendsClose, SendIsRefused, AppReturns,
         wsQueue, wsApp, wsPeer
<1>2. SessionTypes' /\ WholeAreCounted' /\ PartsFit'
  BY <1>1 DEF SessionInv, SessionTypes, WholeAreCounted, PartsFit, Queued
<1>3. FarewellsLast'
  BY <1>1 DEF SessionInv, FarewellsLast
<1>. QED
  BY <1>2, <1>3 DEF SessionInv

THEOREM SessionInvariant == WsSpec => []SessionInv
<1>1. SessionInv /\ [WsNext]_wsVars => SessionInv'
  <2>1. ASSUME SessionInv, UNCHANGED wsVars PROVE SessionInv'
    BY <2>1 DEF wsVars, wsQueue, wsApp, SessionInv, SessionTypes, FarewellsLast, WholeAreCounted,
                PartsFit, Queued
  <2>. QED
    BY <2>1, PumpsKeep, GetsKeep, OthersKeep DEF WsNext
<1>. QED
  BY <1>1, SessionStarts, PTL DEF WsSpec

THEOREM SessionsAreTold == WsSpec => []SessionIsTold
<1>1. SessionInv => SessionIsTold
  BY DEF SessionInv, SessionIsTold, FarewellsLast, WholeAreCounted, PartsFit
<1>. QED
  BY <1>1, SessionInvariant, PTL

-----------------------------------------------------------------------------
(* What has been written and not pulled: requests, cut at their ends.  `from' *)
(* and `to' say whether it begins and ends between two requests.              *)
Written == RequestHeads \cup {"byte", "end"}

Flows(q, from, to) ==
    /\ q \in Seq(Written)
    /\ from \in BOOLEAN /\ to \in BOOLEAN
    /\ \A i \in DOMAIN q : q[i] \in RequestHeads <=> IF i = 1 THEN from ELSE q[i - 1] = "end"
    /\ to <=> IF q = <<>> THEN from ELSE q[Len(q)] = "end"

LEMMA FlowGrows ==
  ASSUME NEW q, NEW from, NEW to, Flows(q, from, to), NEW what \in Written,
         what \in RequestHeads <=> to
  PROVE  Flows(Append(q, what), from, what = "end")
<1>1. /\ q \in Seq(Written) /\ Append(q, what) \in Seq(Written) /\ Len(q) \in Nat
      /\ DOMAIN q = 1 .. Len(q) /\ DOMAIN Append(q, what) = 1 .. Len(q) + 1
      /\ Len(Append(q, what)) = Len(q) + 1 /\ Append(q, what) # <<>>
      /\ Append(q, what)[Len(q) + 1] = what /\ \A i \in 1 .. Len(q) : Append(q, what)[i] = q[i]
      /\ (q = <<>> <=> Len(q) = 0)
  <2>1. q \in Seq(Written)
    BY DEF Flows
  <2>. QED
    BY <2>1
<1>2. ASSUME NEW i \in 1 .. Len(q) + 1
      PROVE  Append(q, what)[i] \in RequestHeads <=> IF i = 1 THEN from ELSE Append(q, what)[i - 1] = "end"
  <2>1. CASE i = Len(q) + 1
    <3>1. CASE i = 1
      <4>1. q = <<>>
        BY <1>1, <2>1, <3>1
      <4>. QED
        BY <1>1, <2>1, <3>1, <4>1 DEF Flows
    <3>2. CASE i # 1
      <4>1. q # <<>> /\ i - 1 = Len(q) /\ i - 1 \in 1 .. Len(q)
        BY <1>1, <2>1, <3>2
      <4>. QED
        BY <1>1, <2>1, <3>2, <4>1 DEF Flows
    <3>. QED
      BY <3>1, <3>2
  <2>2. CASE i # Len(q) + 1
    <3>1. i \in 1 .. Len(q) /\ (i # 1 => i - 1 \in 1 .. Len(q))
      BY <1>1, <1>2, <2>2
    <3>. QED
      BY <1>1, <3>1 DEF Flows
  <2>. QED
    BY <2>1, <2>2
<1>. QED
  BY <1>1, <1>2 DEF Flows

(* The rest of a flow, behind any of its pieces.                              *)
LEMMA RestOf ==
  ASSUME NEW S, NEW q \in Seq(S), NEW n \in Nat, n <= Len(q)
  PROVE  LET r == SubSeq(q, n + 1, Len(q))
         IN  /\ r \in Seq(S) /\ Len(r) = Len(q) - n /\ DOMAIN r = 1 .. Len(q) - n
             /\ \A i \in 1 .. Len(q) - n : r[i] = q[i + n] /\ i + n \in 1 .. Len(q)
<1>. DEFINE r == SubSeq(q, n + 1, Len(q))
<1>1. Len(q) \in Nat /\ DOMAIN q = 1 .. Len(q)
  OBVIOUS
<1>2. r \in Seq(S) /\ Len(r) = Len(q) - n
  <2>1. \A i \in n + 1 .. Len(q) : q[i] \in S
    BY <1>1
  <2>2. r \in Seq(S) /\ Len(r) = IF n + 1 <= Len(q) THEN Len(q) - (n + 1) + 1 ELSE 0
    BY <1>1, <2>1, SubSeqProperties
  <2>. HIDE DEF r
  <2>3. CASE n + 1 <= Len(q)
    <3>1. Len(q) - (n + 1) + 1 = Len(q) - n
      BY <1>1
    <3>. QED
      BY <2>2, <2>3, <3>1
  <2>4. CASE ~(n + 1 <= Len(q))
    <3>. DEFINE k == Len(q)
    <3>0. k \in Nat /\ n <= k /\ ~(n + 1 <= k)
      BY <1>1, <2>4
    <3>. HIDE DEF k
    <3>1. k - n = 0
      BY <3>0
    <3>. QED
      BY <2>2, <2>4, <3>1 DEF k
  <2>. QED
    BY <2>3, <2>4
<1>3. DOMAIN r = 1 .. Len(q) - n
  <2>. HIDE DEF r
  <2>. QED
    BY <1>2
<1>4. ASSUME NEW i \in 1 .. Len(q) - n PROVE r[i] = q[i + n] /\ i + n \in 1 .. Len(q)
  BY <1>1, <1>4
<1>. QED
  BY <1>2, <1>3, <1>4

LEMMA FlowAdvances ==
  ASSUME NEW q, NEW from, NEW to, Flows(q, from, to), NEW n \in DOMAIN q
  PROVE  Flows(SubSeq(q, n + 1, Len(q)), q[n] = "end", to)
<1>. DEFINE r == SubSeq(q, n + 1, Len(q))
<1>1. /\ q \in Seq(Written) /\ Len(q) \in Nat /\ DOMAIN q = 1 .. Len(q) /\ n \in 1 .. Len(q) /\ q # <<>>
      /\ n \in Nat
  BY DEF Flows
<1>2. /\ r \in Seq(Written) /\ Len(r) = Len(q) - n /\ DOMAIN r = 1 .. Len(q) - n
      /\ \A i \in 1 .. Len(q) - n : r[i] = q[i + n] /\ i + n \in 1 .. Len(q)
  BY <1>1
<1>. HIDE DEF r
<1>3. ASSUME NEW i \in 1 .. Len(q) - n
      PROVE  r[i] \in RequestHeads <=> IF i = 1 THEN q[n] = "end" ELSE r[i - 1] = "end"
  <2>1. i + n \in 1 .. Len(q) /\ i + n # 1 /\ (i + n) - 1 = (i - 1) + n
    BY <1>1, <1>3
  <2>2. q[i + n] \in RequestHeads <=> q[(i - 1) + n] = "end"
    BY <1>1, <2>1 DEF Flows
  <2>3. CASE i = 1
    <3>1. (i - 1) + n = n
      BY <1>1, <2>3
    <3>. QED
      BY <1>2, <1>3, <2>2, <2>3, <3>1
  <2>4. CASE i # 1
    <3>1. i - 1 \in 1 .. Len(q) - n
      BY <1>1, <1>3, <2>4
    <3>. QED
      BY <1>2, <1>3, <2>2, <2>4, <3>1
  <2>. QED
    BY <2>3, <2>4
<1>4. to <=> IF r = <<>> THEN q[n] = "end" ELSE r[Len(r)] = "end"
  <2>1. to <=> q[Len(q)] = "end"
    BY <1>1 DEF Flows
  <2>2. CASE r = <<>>
    <3>1. n = Len(q)
      BY <1>1, <1>2, <2>2
    <3>. QED
      BY <2>1, <2>2, <3>1
  <2>3. CASE r # <<>>
    <3>1. Len(r) \in 1 .. Len(q) - n /\ Len(r) + n = Len(q)
      BY <1>1, <1>2, <2>3
    <3>. QED
      BY <1>2, <2>1, <2>3, <3>1
  <2>. QED
    BY <2>2, <2>3
<1>. QED
  BY <1>2, <1>3, <1>4 DEF Flows, r

LEMMA AppendBehind ==
  ASSUME NEW S, NEW b \in Seq(S), NEW w \in Seq(S), NEW x \in S
  PROVE  b \o Append(w, x) = Append(b \o w, x)
<1>. DEFINE u == b \o Append(w, x)
            v == Append(b \o w, x)
            n == Len(b) + Len(w)
<1>1. Len(b) \in Nat /\ Len(w) \in Nat /\ n \in Nat /\ b \o w \in Seq(S) /\ Len(b \o w) = n
      /\ Append(w, x) \in Seq(S) /\ Len(Append(w, x)) = Len(w) + 1
  OBVIOUS
<1>2. u \in Seq(S) /\ v \in Seq(S) /\ Len(u) = n + 1 /\ Len(v) = n + 1
  BY <1>1
<1>3. ASSUME NEW i \in 1 .. n + 1 PROVE u[i] = v[i]
  <2>1. CASE i <= Len(b)
    <3>1. i \in 1 .. Len(b) /\ i \in 1 .. n
      BY <1>1, <1>3, <2>1
    <3>2. u[i] = b[i] /\ (b \o w)[i] = b[i]
      BY <1>1, <3>1
    <3>3. v[i] = (b \o w)[i]
      BY <1>1, <3>1
    <3>. QED
      BY <3>2, <3>3
  <2>2. CASE ~(i <= Len(b))
    <3>1. i - Len(b) \in 1 .. Len(w) + 1 /\ i \in 1 .. Len(b) + Len(Append(w, x))
      BY <1>1, <1>3, <2>2
    <3>2. u[i] = Append(w, x)[i - Len(b)]
      BY <1>1, <2>2, <3>1
    <3>3. CASE i = n + 1
      <4>1. i - Len(b) = Len(w) + 1
        BY <1>1, <3>3
      <4>2. v[i] = x /\ Append(w, x)[Len(w) + 1] = x
        BY <1>1, <3>3
      <4>. QED
        BY <3>2, <4>1, <4>2
    <3>4. CASE i # n + 1
      <4>1. i \in 1 .. n /\ i - Len(b) \in 1 .. Len(w)
        BY <1>1, <1>3, <2>2, <3>4
      <4>2. v[i] = (b \o w)[i]
        BY <1>1, <4>1
      <4>3. (b \o w)[i] = w[i - Len(b)] /\ Append(w, x)[i - Len(b)] = w[i - Len(b)]
        BY <1>1, <2>2, <4>1
      <4>. QED
        BY <3>2, <4>2, <4>3
    <3>. QED
      BY <3>3, <3>4
  <2>. QED
    BY <2>1, <2>2
<1>. HIDE DEF u, v
<1>4. u = v
  BY <1>2, <1>3, SeqEqual
<1>. QED
  BY <1>4 DEF u, v

(* What is pulled, of a flow in two parts.                                    *)
LEMMA FlowPulled ==
  ASSUME NEW b \in Seq(Written), NEW w \in Seq(Written), NEW from, NEW to, Flows(b \o w, from, to), b # <<>>
  PROVE  /\ Flows(Tail(b) \o w, Head(b) = "end", to)
         /\ Head(b) \in RequestHeads <=> from
         /\ Head(b) \in Written
<1>1. /\ Len(b) \in Nat \ {0} /\ Len(w) \in Nat /\ DOMAIN (b \o w) = 1 .. Len(b) + Len(w)
      /\ Len(b \o w) = Len(b) + Len(w) /\ (b \o w)[1] = b[1] /\ Head(b) = b[1] /\ Head(b) \in Written
      /\ 1 \in 1 .. Len(b) + Len(w)
  OBVIOUS
<1>2. SubSeq(b \o w, 1 + 1, Len(b \o w)) = Tail(b) \o w
  OBVIOUS
<1>3. Flows(SubSeq(b \o w, 1 + 1, Len(b \o w)), b[1] = "end", to)
  <2>. DEFINE q == b \o w
  <2>1. 1 \in DOMAIN q /\ Flows(q, from, to) /\ q[1] = b[1]
    BY <1>1
  <2>. HIDE DEF q
  <2>2. Flows(SubSeq(q, 1 + 1, Len(q)), q[1] = "end", to)
    BY <2>1, FlowAdvances
  <2>3. Flows(SubSeq(q, 1 + 1, Len(q)), b[1] = "end", to)
    BY <2>1, <2>2
  <2>. QED
    BY <2>3 DEF q
<1>4. b[1] \in RequestHeads <=> from
  BY <1>1 DEF Flows
<1>. QED
  BY <1>1, <1>2, <1>3, <1>4

LEMMA FlowSkipped ==
  ASSUME NEW b \in Seq(Written), NEW w \in Seq(Written), NEW from, NEW to, Flows(b \o w, from, to),
         EndAt(b) # {}
  PROVE  PastTheEnd(b) \in Seq(Written) /\ Flows(PastTheEnd(b) \o w, TRUE, to)
<1>. DEFINE n == First(EndAt(b))
<1>1. /\ Len(b) \in Nat /\ Len(w) \in Nat /\ DOMAIN (b \o w) = 1 .. Len(b) + Len(w) /\ DOMAIN b = 1 .. Len(b)
      /\ Len(b \o w) = Len(b) + Len(w) /\ \A i \in 1 .. Len(b) : (b \o w)[i] = b[i]
  OBVIOUS
<1>2. EndAt(b) \subseteq Nat
  BY <1>1 DEF EndAt
<1>3. n \in EndAt(b)
  <2>. HIDE DEF n
  <2>1. \E i \in EndAt(b) : \A j \in EndAt(b) : i <= j
    BY <1>2, LeastThereIs
  <2>. QED
    BY <2>1 DEF First, n
<1>. HIDE DEF n
<1>4. n \in 1 .. Len(b) /\ b[n] = "end" /\ n \in DOMAIN (b \o w)
  BY <1>1, <1>3 DEF EndAt
<1>5. PastTheEnd(b) = SubSeq(b, n + 1, Len(b)) /\ PastTheEnd(b) \in Seq(Written)
  <2>1. PastTheEnd(b) = SubSeq(b, n + 1, Len(b))
    BY DEF PastTheEnd, n
  <2>2. n + 1 \in Nat /\ 1 <= n + 1
    BY <1>1, <1>4
  <2>3. SubSeq(b, n + 1, Len(b)) \in Seq(Written)
    BY <1>1, <2>2, SMTT(20)
  <2>. QED
    BY <2>1, <2>3
<1>6. SubSeq(b \o w, n + 1, Len(b \o w)) = SubSeq(b, n + 1, Len(b)) \o w
  <2>. DEFINE q == b \o w
              r == SubSeq(b, n + 1, Len(b))
              k == Len(b) - n
              m == k + Len(w)
  <2>1. q \in Seq(Written) /\ n \in Nat /\ n <= Len(b) /\ k \in Nat /\ m \in Nat /\ Len(q) = n + m
        /\ n + m = Len(b) + Len(w) /\ n + k = Len(b)
    BY <1>1, <1>4
  <2>2. r \in Seq(Written) /\ Len(r) = k /\ \A i \in 1 .. k : r[i] = b[i + n]
    BY <2>1, RestOf
  <2>. HIDE DEF r, k, m
  <2>3. /\ SubSeq(q, n + 1, Len(q)) \in Seq(Written) /\ Len(SubSeq(q, n + 1, Len(q))) = m
        /\ \A i \in 1 .. m : SubSeq(q, n + 1, Len(q))[i] = q[i + n]
    <3>1. Len(q) - n = m /\ n <= Len(q)
      BY <2>1
    <3>. HIDE DEF q
    <3>2. /\ SubSeq(q, n + 1, Len(q)) \in Seq(Written) /\ Len(SubSeq(q, n + 1, Len(q))) = Len(q) - n
          /\ \A i \in 1 .. Len(q) - n : SubSeq(q, n + 1, Len(q))[i] = q[i + n]
      BY <2>1, <3>1, RestOf
    <3>. QED
      BY <3>1, <3>2
  <2>4. /\ r \o w \in Seq(Written) /\ Len(r \o w) = m
        /\ \A i \in 1 .. m : (r \o w)[i] = IF i <= k THEN r[i] ELSE w[i - k]
    <3>1. r \o w \in Seq(Written) /\ Len(r \o w) = m
      <4>0. r \in Seq(Written)
        BY <2>2
      <4>1. r \o w \in Seq(Written) /\ Len(r \o w) = Len(r) + Len(w)
        BY <4>0, ConcatProperties
      <4>2. m = Len(r) + Len(w)
        BY <2>2 DEF m
      <4>. QED
        BY <4>1, <4>2
    <3>2. ASSUME NEW i \in 1 .. m PROVE (r \o w)[i] = IF i <= k THEN r[i] ELSE w[i - k]
      <4>1. i \in 1 .. Len(r) + Len(w)
        BY <2>2, <3>2 DEF m
      <4>2. (r \o w)[i] = IF i <= Len(r) THEN r[i] ELSE w[i - Len(r)]
        BY <2>2, <4>1
      <4>. QED
        BY <2>2, <4>2
    <3>. QED
      BY <3>1, <3>2
  <2>5. \A i \in 1 .. Len(b) + Len(w) : q[i] = IF i <= Len(b) THEN b[i] ELSE w[i - Len(b)]
    BY <1>1
  <2>6. ASSUME NEW i \in 1 .. m PROVE q[i + n] = (r \o w)[i]
    <3>. HIDE DEF q
    <3>1. i + n \in 1 .. Len(b) + Len(w) /\ (i <= k <=> i + n <= Len(b)) /\ (i + n) - Len(b) = i - k
      <4>. DEFINE lb == Len(b)
                  lw == Len(w)
      <4>1. lb \in Nat /\ lw \in Nat /\ n \in Nat /\ k \in Nat /\ m \in Nat /\ n + m = lb + lw
            /\ n + k = lb /\ i \in 1 .. m
        BY <1>1, <2>1, <2>6
      <4>. HIDE DEF lb, lw
      <4>2. i + n \in 1 .. lb + lw /\ (i <= k <=> i + n <= lb) /\ (i + n) - lb = i - k
        BY <4>1
      <4>. QED
        BY <4>2 DEF lb, lw
    <3>2. CASE i <= k
      <4>1. i \in 1 .. k
        BY <2>1, <2>6, <3>2
      <4>. QED
        BY <2>2, <2>4, <2>5, <2>6, <3>1, <3>2, <4>1
    <3>3. CASE ~(i <= k)
      BY <2>4, <2>5, <2>6, <3>1, <3>3
    <3>. QED
      BY <3>2, <3>3
  <2>. HIDE DEF q
  <2>7. SubSeq(q, n + 1, Len(q)) = r \o w
    <3>. DEFINE x == SubSeq(q, n + 1, Len(q))
                y == r \o w
    <3>1. x \in Seq(Written) /\ y \in Seq(Written) /\ Len(x) = Len(y) /\ \A i \in 1 .. Len(x) : x[i] = y[i]
      BY <2>3, <2>4, <2>6
    <3>. HIDE DEF x, y
    <3>2. x = y
      BY <3>1, SeqEqual
    <3>. QED
      BY <3>2 DEF x, y
  <2>. QED
    BY <2>7 DEF q, r
<1>7. Flows(SubSeq(b \o w, n + 1, Len(b \o w)), (b \o w)[n] = "end", to)
  BY <1>4, FlowAdvances
<1>. QED
  BY <1>1, <1>4, <1>5, <1>6, <1>7

-----------------------------------------------------------------------------
(* Connections: where each is, and what was answered on it.                   *)
Reply == [status : {"none", "200", "400", "413", "500", "503"}, ended : BOOLEAN]

ExchangeTypes ==
    /\ client \in [Pipes -> [does : {"idle", "body"}, body : Nat]]
    /\ net \in [Pipes -> Seq(Written)] /\ buffered \in [Pipes -> Seq(Written)]
    /\ serving \in [Pipes -> {"reading", "running", "lingering", "closed"}]
    /\ ours \in [Pipes -> {"idle", "response", "body", "done", "mustClose"}]
    /\ theirs \in [Pipes -> {"idle", "body", "done", "error"}]
    /\ handling \in [Pipes -> {"none", "413", "503", "handler", "raised"}]
    /\ counted \in [Pipes -> Nat]
    /\ answers \in [Pipes -> Seq(Reply)]
    /\ slots \subseteq Pipes

(* The stream of a connection that reads is between two requests.             *)
PipeFlows(p) ==
    /\ serving[p] = "reading" => Flows(buffered[p] \o net[p], TRUE, client[p].does = "idle")
    /\ serving[p] = "running" /\ theirs[p] \in {"body", "done"} =>
          Flows(buffered[p] \o net[p], theirs[p] = "done", client[p].does = "idle")
    /\ serving[p] = "running" => theirs[p] # "idle" /\ (theirs[p] = "error" => handling[p] = "raised")

(* The answers before the last are ended, and the last as far as h11 knows.   *)
PipeAnswers(p) ==
    LET n == Len(answers[p])
    IN  /\ \A i \in 1 .. n : i < n => answers[p][i].ended /\ answers[p][i].status # "none"
        /\ serving[p] = "reading" /\ n > 0 => answers[p][n].ended /\ answers[p][n].status # "none"
        /\ serving[p] \in {"lingering", "closed"} /\ n > 0 => answers[p][n].status # "none"
        /\ serving[p] = "running" =>
              /\ n > 0 /\ ours[p] # "idle"
              /\ ours[p] # "response" => answers[p][n].status # "none"
              /\ ours[p] \in {"done", "mustClose"} => answers[p][n].ended

PipeSlots(p) ==
    /\ handling[p] = "none" <=> serving[p] # "running"
    /\ handling[p] = "none" => counted[p] = 0
    /\ handling[p] = "handler" => p \in slots /\ counted[p] <= MaxBytes
    /\ p \in slots => handling[p] # "none"

SlotsBounded == IsFiniteSet(slots) /\ Cardinality(slots) <= BudgetLimit

PipeInv(p) == PipeFlows(p) /\ PipeAnswers(p) /\ PipeSlots(p)
ExchangeInv == ExchangeTypes /\ SlotsBounded /\ \A p \in Pipes : PipeInv(p)

LEMMA ExchangeStarts == ASSUME AsgiInit PROVE ExchangeInv
<1>. USE DEF AsgiInit
<1>1. ExchangeTypes
  BY DEF ExchangeTypes
<1>2. SlotsBounded
  BY FS_EmptySet, ExchangeAssumption DEF SlotsBounded
<1>3. ASSUME NEW p \in Pipes PROVE PipeInv(p)
  <2>1. /\ serving[p] = "reading" /\ buffered[p] = <<>> /\ net[p] = <<>> /\ client[p].does = "idle"
        /\ handling[p] = "none" /\ counted[p] = 0 /\ answers[p] = <<>> /\ p \notin slots
    OBVIOUS
  <2>2. <<>> \o <<>> = <<>> /\ <<>> \in Seq(Written) /\ DOMAIN <<>> = {} /\ Len(<<>>) = 0
    OBVIOUS
  <2>3. Flows(<<>>, TRUE, TRUE)
    BY <2>2 DEF Flows
  <2>4. PipeFlows(p)
    BY <2>1, <2>2, <2>3 DEF PipeFlows
  <2>5. PipeAnswers(p)
    BY <2>1, <2>2 DEF PipeAnswers
  <2>. QED
    BY <2>1, <2>4, <2>5 DEF PipeInv, PipeSlots
<1>. QED
  BY <1>1, <1>2, <1>3 DEF ExchangeInv

(* What a step of one connection leaves alone is what is said of the others.  *)
LEMMA OtherPipes ==
  ASSUME ExchangeInv, NEW r \in Pipes,
         /\ client'[r] = client[r] /\ net'[r] = net[r] /\ buffered'[r] = buffered[r]
         /\ serving'[r] = serving[r] /\ ours'[r] = ours[r] /\ theirs'[r] = theirs[r]
         /\ handling'[r] = handling[r] /\ counted'[r] = counted[r] /\ answers'[r] = answers[r]
         /\ r \in slots' <=> r \in slots
  PROVE  PipeInv(r)'
<1>1. PipeFlows(r) /\ PipeAnswers(r) /\ PipeSlots(r)
  BY DEF ExchangeInv, PipeInv
<1>2. PipeFlows(r)'
  BY <1>1 DEF PipeFlows
<1>3. PipeAnswers(r)'
  BY <1>1 DEF PipeAnswers
<1>4. PipeSlots(r)'
  BY <1>1 DEF PipeSlots
<1>. QED
  BY <1>2, <1>3, <1>4 DEF PipeInv

LEMMA ClientKeeps ==
  ASSUME ExchangeInv, NEW p \in Pipes, ClientAsks(p) \/ ClientUploads(p)
  PROVE  ExchangeInv'
<1>1. PICK what \in Written, now \in [does : {"idle", "body"}, body : Nat] :
        /\ net' = [net EXCEPT ![p] = Append(@, what)]
        /\ client' = [client EXCEPT ![p] = now]
        /\ UNCHANGED <<buffered, serving, ours, theirs, handling, counted, slots, answers>>
        /\ (what \in RequestHeads <=> client[p].does = "idle")
        /\ (now.does = "idle" <=> what = "end")
  <2>1. client[p] \in [does : {"idle", "body"}, body : Nat]
    BY DEF ExchangeInv, ExchangeTypes
  <2>2. CASE ClientAsks(p)
    <3>1. PICK head \in RequestHeads : Writes(p, head, [does |-> "body", body |-> 0])
      BY <2>2 DEF ClientAsks
    <3>. DEFINE new == [does |-> "body", body |-> 0]
    <3>2. new \in [does : {"idle", "body"}, body : Nat] /\ new.does = "body"
      OBVIOUS
    <3>. HIDE DEF new
    <3>3. head \in Written /\ head # "end" /\ client[p].does = "idle"
      BY <2>2, <3>1 DEF ClientAsks, Written, RequestHeads
    <3>4. Writes(p, head, new)
      BY <3>1 DEF new
    <3>. QED
      BY <3>2, <3>3, <3>4 DEF Writes, halves
  <2>3. CASE ClientUploads(p) /\ Writes(p, "byte", [client[p] EXCEPT !.body = @ + 1])
    <3>1. PICK now \in [does : {"idle", "body"}, body : Nat] :
             now = [client[p] EXCEPT !.body = @ + 1] /\ now.does = "body"
      BY <2>1, <2>3 DEF ClientUploads
    <3>2. "byte" \in Written /\ "byte" \notin RequestHeads /\ client[p].does = "body"
      BY <2>3 DEF ClientUploads, Written, RequestHeads
    <3>. QED
      BY <2>3, <3>1, <3>2 DEF Writes, halves
  <2>4. CASE ClientUploads(p) /\ Writes(p, "end", [client[p] EXCEPT !.does = "idle"])
    <3>. DEFINE new == [client[p] EXCEPT !.does = "idle"]
    <3>1. new \in [does : {"idle", "body"}, body : Nat] /\ new.does = "idle"
      BY <2>1
    <3>2. "end" \in Written /\ "end" \notin RequestHeads /\ client[p].does = "body"
      BY <2>4 DEF ClientUploads, Written, RequestHeads
    <3>. HIDE DEF new
    <3>3. Writes(p, "end", new)
      BY <2>4 DEF new
    <3>. QED
      BY <3>1, <3>2, <3>3 DEF Writes, halves
  <2>. QED
    BY <2>2, <2>3, <2>4 DEF ClientUploads
<1>2. /\ net'[p] = Append(net[p], what) /\ client'[p] = now
      /\ \A r \in Pipes : r # p => net'[r] = net[r] /\ client'[r] = client[r]
      /\ net' \in [Pipes -> Seq(Written)] /\ client' \in [Pipes -> [does : {"idle", "body"}, body : Nat]]
  <2>1. net \in [Pipes -> Seq(Written)] /\ client \in [Pipes -> [does : {"idle", "body"}, body : Nat]]
    BY DEF ExchangeInv, ExchangeTypes
  <2>2. Append(net[p], what) \in Seq(Written)
    BY <2>1
  <2>. QED
    BY <1>1, <2>1, <2>2
<1>3. \A from : Flows(buffered[p] \o net[p], from, client[p].does = "idle")
          => Flows(buffered'[p] \o net'[p], from, client'[p].does = "idle")
  <2>1. buffered[p] \in Seq(Written) /\ net[p] \in Seq(Written)
    BY DEF ExchangeInv, ExchangeTypes
  <2>2. buffered[p] \o Append(net[p], what) = Append(buffered[p] \o net[p], what)
    <3>. DEFINE b == buffered[p]
                w == net[p]
    <3>1. b \in Seq(Written) /\ w \in Seq(Written) /\ what \in Written
      BY <2>1
    <3>. HIDE DEF b, w
    <3>2. b \o Append(w, what) = Append(b \o w, what)
      BY <3>1, AppendBehind
    <3>. QED
      BY <3>2 DEF b, w
  <2>3. ASSUME NEW from, Flows(buffered[p] \o net[p], from, client[p].does = "idle")
        PROVE  Flows(Append(buffered[p] \o net[p], what), from, what = "end")
    BY <1>1, <2>3, FlowGrows
  <2>4. (client'[p].does = "idle") = (what = "end")
    BY <1>1, <1>2
  <2>5. buffered'[p] \o net'[p] = Append(buffered[p] \o net[p], what)
    <3>1. buffered'[p] = buffered[p] /\ net'[p] = Append(net[p], what)
      BY <1>1, <1>2
    <3>. QED
      BY <2>2, <3>1
  <2>. QED
    BY <2>3, <2>4, <2>5
<1>4. PipeInv(p)'
  BY <1>1, <1>3 DEF ExchangeInv, PipeInv, PipeFlows, PipeAnswers, PipeSlots
<1>5. ASSUME NEW r \in Pipes, r # p PROVE PipeInv(r)'
  BY <1>1, <1>2, <1>5, OtherPipes
<1>6. ExchangeTypes' /\ SlotsBounded'
  BY <1>1, <1>2 DEF ExchangeInv, ExchangeTypes, SlotsBounded
<1>. QED
  BY <1>4, <1>5, <1>6 DEF ExchangeInv

LEMMA ReadsKeep == ASSUME ExchangeInv, NEW p \in Pipes, ReadsPipe(p) PROVE ExchangeInv'
<1>1. /\ buffered[p] = <<>> /\ buffered' = [buffered EXCEPT ![p] = net[p]] /\ net' = [net EXCEPT ![p] = <<>>]
      /\ UNCHANGED <<client, serving, ours, theirs, handling, counted, slots, answers>>
      /\ buffered \in [Pipes -> Seq(Written)] /\ net \in [Pipes -> Seq(Written)]
  BY DEF ReadsPipe, halves, ExchangeInv, ExchangeTypes
<1>2. /\ buffered'[p] = net[p] /\ net'[p] = <<>> /\ net[p] \in Seq(Written)
      /\ \A r \in Pipes : r # p => net'[r] = net[r] /\ buffered'[r] = buffered[r]
      /\ net' \in [Pipes -> Seq(Written)] /\ buffered' \in [Pipes -> Seq(Written)]
  BY <1>1
<1>3. buffered'[p] \o net'[p] = buffered[p] \o net[p]
  <2>1. <<>> \o net[p] = net[p] /\ net[p] \o <<>> = net[p]
    BY <1>2
  <2>. QED
    BY <1>1, <1>2, <2>1
<1>4. PipeInv(p)'
  BY <1>1, <1>3 DEF ExchangeInv, PipeInv, PipeFlows, PipeAnswers, PipeSlots
<1>5. ASSUME NEW r \in Pipes, r # p PROVE PipeInv(r)'
  BY <1>1, <1>2, <1>5, OtherPipes
<1>6. ExchangeTypes' /\ SlotsBounded'
  BY <1>1, <1>2 DEF ExchangeInv, ExchangeTypes, SlotsBounded
<1>. QED
  BY <1>4, <1>5, <1>6 DEF ExchangeInv

(* A reply put behind those that were ended, or the last one changed.         *)
LEMMA RepliesGrow ==
  ASSUME NEW s \in Seq(Reply), NEW x \in Reply,
         \A i \in 1 .. Len(s) : s[i].ended /\ s[i].status # "none"
  PROVE  /\ Append(s, x) \in Seq(Reply) /\ Len(Append(s, x)) = Len(s) + 1 /\ Len(s) \in Nat
         /\ Append(s, x)[Len(s) + 1] = x
         /\ \A i \in 1 .. Len(s) + 1 : i < Len(s) + 1 => Append(s, x)[i].ended /\ Append(s, x)[i].status # "none"
<1>1. /\ Append(s, x) \in Seq(Reply) /\ Len(Append(s, x)) = Len(s) + 1 /\ Len(s) \in Nat
      /\ Append(s, x)[Len(s) + 1] = x /\ \A i \in 1 .. Len(s) : Append(s, x)[i] = s[i]
  OBVIOUS
<1>2. \A i \in 1 .. Len(s) + 1 : i < Len(s) + 1 => i \in 1 .. Len(s)
  BY <1>1
<1>. QED
  BY <1>1, <1>2

LEMMA RequestKeeps ==
  ASSUME ExchangeInv, NEW p \in Pipes, ReadsRequest(p) \/ BadRequest(p) PROVE ExchangeInv'
<1>. DEFINE x == IF ReadsRequest(p) THEN [status |-> "none", ended |-> FALSE]
                                    ELSE [status |-> "400", ended |-> TRUE]
<1>0. /\ serving[p] = "reading" /\ buffered[p] # <<>> /\ answers[p] \in Seq(Reply)
      /\ buffered[p] \in Seq(Written) /\ net[p] \in Seq(Written) /\ x \in Reply
      /\ handling[p] = "none" /\ counted[p] = 0 /\ p \notin slots
      /\ Flows(buffered[p] \o net[p], TRUE, client[p].does = "idle")
      /\ \A i \in 1 .. Len(answers[p]) : answers[p][i].ended /\ answers[p][i].status # "none"
  <2>1. answers[p] \in Seq(Reply) /\ buffered[p] \in Seq(Written) /\ net[p] \in Seq(Written) /\ serving[p] = "reading"
        /\ buffered[p] # <<>> /\ x \in Reply
    BY DEF ExchangeInv, ExchangeTypes, ReadsRequest, BadRequest, Reply
  <2>2. PipeFlows(p) /\ PipeAnswers(p) /\ PipeSlots(p)
    BY DEF ExchangeInv, PipeInv
  <2>3. \A i \in 1 .. Len(answers[p]) : answers[p][i].ended /\ answers[p][i].status # "none"
    <3>1. SUFFICES ASSUME NEW i \in 1 .. Len(answers[p])
                   PROVE  answers[p][i].ended /\ answers[p][i].status # "none"
      OBVIOUS
    <3>2. Len(answers[p]) \in Nat
      BY <2>1
    <3>3. Len(answers[p]) > 0 /\ (i < Len(answers[p]) \/ i = Len(answers[p]))
      BY <3>1, <3>2
    <3>. QED
      BY <2>1, <2>2, <3>1, <3>3 DEF PipeAnswers
  <2>. QED
    BY <2>1, <2>2, <2>3 DEF PipeFlows, PipeSlots
<1>. HIDE DEF x
<1>1. /\ answers' = [answers EXCEPT ![p] = Append(@, x)]
      /\ answers'[p] = Append(answers[p], x) /\ answers' \in [Pipes -> Seq(Reply)]
      /\ \A r \in Pipes : r # p => answers'[r] = answers[r]
      /\ UNCHANGED <<client, net, counted>>
  <2>1. answers' = [answers EXCEPT ![p] = Append(@, x)] /\ UNCHANGED <<client, net, counted>>
    BY DEF ReadsRequest, BadRequest, x, wireside
  <2>2. answers \in [Pipes -> Seq(Reply)] /\ Append(answers[p], x) \in Seq(Reply)
    BY <1>0 DEF ExchangeInv, ExchangeTypes
  <2>. QED
    BY <2>1, <2>2
<1>2. /\ Len(answers'[p]) = Len(answers[p]) + 1 /\ Len(answers[p]) \in Nat
      /\ answers'[p][Len(answers[p]) + 1] = x
      /\ \A i \in 1 .. Len(answers[p]) + 1 :
            i < Len(answers[p]) + 1 => answers'[p][i].ended /\ answers'[p][i].status # "none"
  BY <1>0, <1>1, RepliesGrow
<1>3. CASE ReadsRequest(p)
  <2>1. /\ Head(buffered[p]) \in {"plain", "big"} /\ Head(buffered[p]) # "end"
        /\ serving' = [serving EXCEPT ![p] = "running"] /\ buffered' = [buffered EXCEPT ![p] = Tail(@)]
        /\ ours' = [ours EXCEPT ![p] = "response"] /\ theirs' = [theirs EXCEPT ![p] = "body"]
        /\ \/ /\ Cardinality(slots) < BudgetLimit /\ slots' = slots \cup {p}
              /\ \E h \in {"413", "handler"} : handling' = [handling EXCEPT ![p] = h]
           \/ handling' = [handling EXCEPT ![p] = "503"] /\ slots' = slots
    BY <1>3 DEF ReadsRequest
  <2>2. /\ serving'[p] = "running" /\ buffered'[p] = Tail(buffered[p]) /\ ours'[p] = "response"
        /\ theirs'[p] = "body" /\ handling'[p] \in {"413", "handler", "503"}
        /\ handling'[p] = "handler" => p \in slots'
        /\ \A r \in Pipes : r # p => /\ serving'[r] = serving[r] /\ buffered'[r] = buffered[r]
                                     /\ ours'[r] = ours[r] /\ theirs'[r] = theirs[r]
                                     /\ handling'[r] = handling[r] /\ (r \in slots' <=> r \in slots)
    BY <2>1 DEF ExchangeInv, ExchangeTypes
  <2>3. ExchangeTypes'
    <3>1. Tail(buffered[p]) \in Seq(Written)
      BY <1>0
    <3>2. buffered' \in [Pipes -> Seq(Written)]
      BY <2>1, <3>1 DEF ExchangeInv, ExchangeTypes
    <3>3. serving' \in [Pipes -> {"reading", "running", "lingering", "closed"}]
      BY <2>1 DEF ExchangeInv, ExchangeTypes
    <3>4. ours' \in [Pipes -> {"idle", "response", "body", "done", "mustClose"}]
      BY <2>1 DEF ExchangeInv, ExchangeTypes
    <3>5. theirs' \in [Pipes -> {"idle", "body", "done", "error"}]
      BY <2>1 DEF ExchangeInv, ExchangeTypes
    <3>6. handling' \in [Pipes -> {"none", "413", "503", "handler", "raised"}]
      BY <2>1 DEF ExchangeInv, ExchangeTypes
    <3>7. slots' \subseteq Pipes
      BY <2>1 DEF ExchangeInv, ExchangeTypes
    <3>. QED
      BY <1>1, <3>2, <3>3, <3>4, <3>5, <3>6, <3>7 DEF ExchangeInv, ExchangeTypes
  <2>4. SlotsBounded'
    <3>1. IsFiniteSet(slots) /\ Cardinality(slots) <= BudgetLimit /\ Cardinality(slots) \in Nat /\ BudgetLimit \in Nat
      BY ExchangeAssumption, FS_CardinalityType DEF ExchangeInv, SlotsBounded
    <3>2. Cardinality(slots \cup {p}) = Cardinality(slots) + 1 /\ IsFiniteSet(slots \cup {p})
      BY <1>0, <3>1, FS_AddElement
    <3>3. CASE slots' = slots
      BY <3>1, <3>3 DEF SlotsBounded
    <3>4. CASE Cardinality(slots) < BudgetLimit /\ slots' = slots \cup {p}
      <4>1. Cardinality(slots) + 1 <= BudgetLimit
        BY <3>1, <3>4
      <4>. QED
        BY <3>2, <3>4, <4>1 DEF SlotsBounded
    <3>. QED
      BY <2>1, <3>3, <3>4
  <2>5. PipeFlows(p)'
    <3>1. Flows(Tail(buffered[p]) \o net[p], Head(buffered[p]) = "end", client[p].does = "idle")
      BY <1>0, FlowPulled
    <3>2. (theirs'[p] = "done") = (Head(buffered[p]) = "end")
      BY <2>1, <2>2
    <3>3. Flows(buffered'[p] \o net'[p], theirs'[p] = "done", client'[p].does = "idle")
      BY <1>1, <2>2, <3>1, <3>2
    <3>. QED
      BY <2>2, <3>3 DEF PipeFlows
  <2>6. PipeAnswers(p)'
    BY <1>2, <2>2 DEF PipeAnswers
  <2>7. PipeSlots(p)'
    BY <1>0, <1>1, <2>2, ExchangeAssumption DEF PipeSlots
  <2>8. ASSUME NEW r \in Pipes, r # p PROVE PipeInv(r)'
    BY <1>1, <2>2, <2>8, OtherPipes
  <2>. QED
    BY <2>3, <2>4, <2>5, <2>6, <2>7, <2>8 DEF ExchangeInv, PipeInv
<1>4. CASE BadRequest(p) /\ ~ReadsRequest(p)
  <2>1. /\ serving' = [serving EXCEPT ![p] = "lingering"] /\ theirs' = [theirs EXCEPT ![p] = "error"]
        /\ UNCHANGED <<buffered, ours, handling, slots>> /\ x = [status |-> "400", ended |-> TRUE]
    BY <1>4 DEF BadRequest, x
  <2>2. /\ serving'[p] = "lingering"
        /\ \A r \in Pipes : r # p => serving'[r] = serving[r] /\ theirs'[r] = theirs[r]
    BY <2>1 DEF ExchangeInv, ExchangeTypes
  <2>3. ExchangeTypes' /\ SlotsBounded'
    BY <1>1, <2>1 DEF ExchangeInv, ExchangeTypes, SlotsBounded
  <2>4. PipeFlows(p)' /\ PipeSlots(p)'
    BY <1>0, <1>1, <2>1, <2>2 DEF PipeFlows, PipeSlots
  <2>5. PipeAnswers(p)'
    BY <1>2, <2>1, <2>2 DEF PipeAnswers
  <2>6. ASSUME NEW r \in Pipes, r # p PROVE PipeInv(r)'
    BY <1>1, <2>1, <2>2, <2>6, OtherPipes
  <2>. QED
    BY <2>3, <2>4, <2>5, <2>6 DEF ExchangeInv, PipeInv
<1>. QED
  BY <1>3, <1>4

LEMMA NoRequestKeeps == ASSUME ExchangeInv, NEW p \in Pipes, NoRequest(p) PROVE ExchangeInv'
<1>1. /\ serving[p] = "reading" /\ serving' = [serving EXCEPT ![p] = "closed"]
      /\ UNCHANGED <<client, net, buffered, ours, theirs, handling, counted, slots, answers>>
  BY DEF NoRequest, wireside, halves
<1>2. /\ serving'[p] = "closed" /\ \A r \in Pipes : r # p => serving'[r] = serving[r]
      /\ serving' \in [Pipes -> {"reading", "running", "lingering", "closed"}]
  BY <1>1 DEF ExchangeInv, ExchangeTypes
<1>3. PipeInv(p)'
  BY <1>1, <1>2 DEF ExchangeInv, PipeInv, PipeFlows, PipeAnswers, PipeSlots
<1>4. ASSUME NEW r \in Pipes, r # p PROVE PipeInv(r)'
  BY <1>1, <1>2, <1>4, OtherPipes
<1>5. ExchangeTypes' /\ SlotsBounded'
  BY <1>1, <1>2 DEF ExchangeInv, ExchangeTypes, SlotsBounded
<1>. QED
  BY <1>3, <1>4, <1>5 DEF ExchangeInv

LEMMA LingersKeep == ASSUME ExchangeInv, NEW p \in Pipes, Lingers(p) PROVE ExchangeInv'
<1>1. /\ serving[p] = "lingering" /\ serving' = [serving EXCEPT ![p] = "closed"]
      /\ net' = [net EXCEPT ![p] = <<>>] /\ buffered' = [buffered EXCEPT ![p] = <<>>]
      /\ UNCHANGED <<client, ours, theirs, handling, counted, slots, answers>>
  BY DEF Lingers, halves
<1>2. /\ serving'[p] = "closed"
      /\ \A r \in Pipes : r # p =>
            serving'[r] = serving[r] /\ net'[r] = net[r] /\ buffered'[r] = buffered[r]
      /\ serving' \in [Pipes -> {"reading", "running", "lingering", "closed"}]
      /\ net' \in [Pipes -> Seq(Written)] /\ buffered' \in [Pipes -> Seq(Written)]
  BY <1>1 DEF ExchangeInv, ExchangeTypes
<1>3. PipeInv(p)'
  <2>1. PipeFlows(p) /\ PipeAnswers(p) /\ PipeSlots(p)
    BY DEF ExchangeInv, PipeInv
  <2>2. PipeFlows(p)'
    BY <1>2 DEF PipeFlows
  <2>3. PipeAnswers(p)'
    BY <1>1, <1>2, <2>1 DEF PipeAnswers
  <2>4. PipeSlots(p)'
    BY <1>1, <1>2, <2>1 DEF PipeSlots
  <2>. QED
    BY <2>2, <2>3, <2>4 DEF PipeInv
<1>4. ASSUME NEW r \in Pipes, r # p PROVE PipeInv(r)'
  BY <1>1, <1>2, <1>4, OtherPipes
<1>5. ExchangeTypes' /\ SlotsBounded'
  BY <1>1, <1>2 DEF ExchangeInv, ExchangeTypes, SlotsBounded
<1>. QED
  BY <1>3, <1>4, <1>5 DEF ExchangeInv

(* A request that is being answered is one of a connection that runs.         *)
LEMMA OneHandled ==
  ASSUME ExchangeInv, NEW p \in Pipes, handling[p] # "none"
  PROVE  /\ serving[p] = "running"
         /\ answers[p] \in Seq(Reply) /\ Len(answers[p]) \in Nat \ {0}
         /\ answers[p][Len(answers[p])] \in Reply
         /\ PipeFlows(p) /\ PipeAnswers(p) /\ PipeSlots(p)
         /\ buffered[p] \in Seq(Written) /\ net[p] \in Seq(Written)
         /\ counted[p] \in Nat /\ ours[p] \in {"response", "body", "done", "mustClose"}
         /\ theirs[p] \in {"body", "done", "error"}
<1>1. PipeFlows(p) /\ PipeAnswers(p) /\ PipeSlots(p)
  BY DEF ExchangeInv, PipeInv
<1>2. serving[p] = "running"
  BY <1>1 DEF PipeSlots
<1>3. /\ answers[p] \in Seq(Reply) /\ buffered[p] \in Seq(Written) /\ net[p] \in Seq(Written)
      /\ counted[p] \in Nat /\ ours[p] \in {"idle", "response", "body", "done", "mustClose"}
      /\ theirs[p] \in {"idle", "body", "done", "error"}
  BY DEF ExchangeInv, ExchangeTypes
<1>4. ours[p] # "idle" /\ theirs[p] # "idle" /\ Len(answers[p]) > 0
  BY <1>1, <1>2 DEF PipeFlows, PipeAnswers
<1>5. Len(answers[p]) \in Nat \ {0}
  BY <1>3, <1>4
<1>6. answers[p][Len(answers[p])] \in Reply
  BY <1>3, <1>5
<1>. QED
  BY <1>1, <1>2, <1>3, <1>4, <1>5, <1>6

LEMMA PullsKeep == ASSUME ExchangeInv, NEW p \in Pipes, PullsBody(p) PROVE ExchangeInv'
<1>0. /\ handling[p] = "handler" /\ theirs[p] = "body" /\ buffered[p] # <<>>
      /\ buffered' = [buffered EXCEPT ![p] = Tail(@)]
      /\ UNCHANGED <<client, net, serving, ours, slots, answers>>
  BY DEF PullsBody, wireside
<1>1. /\ serving[p] = "running" /\ PipeFlows(p) /\ PipeAnswers(p) /\ PipeSlots(p)
      /\ buffered[p] \in Seq(Written) /\ net[p] \in Seq(Written) /\ counted[p] \in Nat
  BY <1>0, OneHandled
<1>2. PICK th \in {"body", "done"}, how \in {"handler", "413", "raised"}, n \in Nat :
        /\ theirs' = [theirs EXCEPT ![p] = th] /\ handling' = [handling EXCEPT ![p] = how]
        /\ counted' = [counted EXCEPT ![p] = n]
        /\ (th = "done" <=> Head(buffered[p]) = "end")
        /\ (how = "handler" => n <= MaxBytes)
  <2>1. theirs = [theirs EXCEPT ![p] = "body"] /\ handling = [handling EXCEPT ![p] = "handler"]
        /\ counted = [counted EXCEPT ![p] = counted[p]] /\ counted[p] <= MaxBytes
    BY <1>0, <1>1 DEF ExchangeInv, ExchangeTypes, PipeSlots
  <2>2. CASE Head(buffered[p]) = "end" /\ theirs' = [theirs EXCEPT ![p] = "done"]
             /\ UNCHANGED <<handling, counted>>
    BY <1>1, <2>1, <2>2
  <2>3. CASE /\ Head(buffered[p]) = "byte" /\ counted' = [counted EXCEPT ![p] = @ + 1]
             /\ handling' = [handling EXCEPT ![p] = IF counted[p] < MaxBytes THEN "handler"
                                                  ELSE IF ours[p] = "response" THEN "413" ELSE "raised"]
             /\ UNCHANGED theirs
    <3>1. counted[p] + 1 \in Nat /\ (counted[p] < MaxBytes => counted[p] + 1 <= MaxBytes)
          /\ counted' = [counted EXCEPT ![p] = counted[p] + 1]
      BY <1>1, <2>3, ExchangeAssumption
    <3>. QED
      BY <2>1, <2>3, <3>1
  <2>. QED
    BY <2>2, <2>3 DEF PullsBody
<1>3. /\ theirs'[p] = th /\ handling'[p] = how /\ counted'[p] = n /\ buffered'[p] = Tail(buffered[p])
      /\ Tail(buffered[p]) \in Seq(Written)
      /\ \A r \in Pipes : r # p => /\ theirs'[r] = theirs[r] /\ handling'[r] = handling[r]
                                   /\ counted'[r] = counted[r] /\ buffered'[r] = buffered[r]
  BY <1>0, <1>1, <1>2 DEF ExchangeInv, ExchangeTypes
<1>4. ExchangeTypes'
  <2>1. buffered' \in [Pipes -> Seq(Written)]
    BY <1>0, <1>3 DEF ExchangeInv, ExchangeTypes
  <2>2. theirs' \in [Pipes -> {"idle", "body", "done", "error"}] /\ counted' \in [Pipes -> Nat]
    BY <1>2 DEF ExchangeInv, ExchangeTypes
  <2>3. handling' \in [Pipes -> {"none", "413", "503", "handler", "raised"}]
    BY <1>2 DEF ExchangeInv, ExchangeTypes
  <2>. QED
    BY <1>0, <2>1, <2>2, <2>3 DEF ExchangeInv, ExchangeTypes
<1>5. PipeFlows(p)'
  <2>1. Flows(buffered[p] \o net[p], FALSE, client[p].does = "idle")
    <3>1. Flows(buffered[p] \o net[p], theirs[p] = "done", client[p].does = "idle")
      BY <1>0, <1>1 DEF PipeFlows
    <3>2. (theirs[p] = "done") = FALSE
      BY <1>0
    <3>. QED
      BY <3>1, <3>2
  <2>2. Flows(Tail(buffered[p]) \o net[p], Head(buffered[p]) = "end", client[p].does = "idle")
    BY <1>0, <1>1, <2>1, FlowPulled
  <2>3. (theirs'[p] = "done") = (Head(buffered[p]) = "end")
    BY <1>2, <1>3
  <2>4. Flows(buffered'[p] \o net'[p], theirs'[p] = "done", client'[p].does = "idle")
    BY <1>0, <1>3, <2>2, <2>3
  <2>. QED
    BY <1>0, <1>1, <1>2, <1>3, <2>4 DEF PipeFlows
<1>6. PipeAnswers(p)'
  BY <1>0, <1>1 DEF PipeAnswers
<1>7. PipeSlots(p)'
  BY <1>0, <1>1, <1>2, <1>3 DEF PipeSlots
<1>8. ASSUME NEW r \in Pipes, r # p PROVE PipeInv(r)'
  BY <1>0, <1>3, <1>8, OtherPipes
<1>9. SlotsBounded'
  BY <1>0 DEF ExchangeInv, SlotsBounded
<1>. QED
  BY <1>4, <1>5, <1>6, <1>7, <1>8, <1>9 DEF ExchangeInv, PipeInv

(* A handler that raises, whatever the cause.                                 *)
LEMMA RaisesKeep == ASSUME ExchangeInv, NEW p \in Pipes, PullFails(p) \/ Crashes(p) PROVE ExchangeInv'
<1>0. PICK th \in {theirs[p], "error"} :
        /\ handling[p] # "none" /\ handling' = [handling EXCEPT ![p] = "raised"]
        /\ theirs' = [theirs EXCEPT ![p] = th]
        /\ UNCHANGED <<client, net, buffered, serving, ours, counted, slots, answers>>
  <2>1. theirs = [theirs EXCEPT ![p] = theirs[p]]
    BY DEF ExchangeInv, ExchangeTypes
  <2>. QED
    BY <2>1 DEF PullFails, Crashes, wireside, halves, Answering
<1>1. /\ serving[p] = "running" /\ PipeFlows(p) /\ PipeAnswers(p) /\ PipeSlots(p)
  BY <1>0, OneHandled
<1>3. /\ theirs'[p] = th /\ handling'[p] = "raised"
      /\ \A r \in Pipes : r # p => theirs'[r] = theirs[r] /\ handling'[r] = handling[r]
  BY <1>0 DEF ExchangeInv, ExchangeTypes
<1>4. ExchangeTypes'
  <2>1. theirs' \in [Pipes -> {"idle", "body", "done", "error"}]
    BY <1>0 DEF ExchangeInv, ExchangeTypes
  <2>2. handling' \in [Pipes -> {"none", "413", "503", "handler", "raised"}]
    BY <1>0 DEF ExchangeInv, ExchangeTypes
  <2>. QED
    BY <1>0, <2>1, <2>2 DEF ExchangeInv, ExchangeTypes
<1>5. PipeFlows(p)'
  BY <1>0, <1>1, <1>3 DEF PipeFlows
<1>6. PipeAnswers(p)'
  BY <1>0, <1>1 DEF PipeAnswers
<1>7. PipeSlots(p)'
  BY <1>0, <1>1, <1>3 DEF PipeSlots
<1>8. ASSUME NEW r \in Pipes, r # p PROVE PipeInv(r)'
  BY <1>0, <1>3, <1>8, OtherPipes
<1>9. SlotsBounded'
  BY <1>0 DEF ExchangeInv, SlotsBounded
<1>. QED
  BY <1>4, <1>5, <1>6, <1>7, <1>8, <1>9 DEF ExchangeInv, PipeInv

(* The last reply changed: those before it are as they were.                  *)
LEMMA LastChanges ==
  ASSUME NEW s \in Seq(Reply), Len(s) \in Nat \ {0}, NEW x \in Reply
  PROVE  LET t == [s EXCEPT ![Len(s)] = x]
         IN  /\ t \in Seq(Reply) /\ Len(t) = Len(s) /\ t[Len(s)] = x
             /\ \A i \in 1 .. Len(s) : i < Len(s) => t[i] = s[i]
<1>. DEFINE n == Len(s)
            t == [s EXCEPT ![n] = x]
<1>1. n \in Nat /\ n \in 1 .. n
  OBVIOUS
<1>2. t \in Seq(Reply) /\ Len(t) = n /\ \A i \in 1 .. n : t[i] = IF i = n THEN x ELSE s[i]
  BY <1>1, ExceptSeq
<1>. HIDE DEF n, t
<1>3. t \in Seq(Reply) /\ Len(t) = n /\ t[n] = x /\ \A i \in 1 .. n : i < n => t[i] = s[i]
  BY <1>1, <1>2
<1>. QED
  BY <1>3 DEF n, t

LEMMA EmitsKeep == ASSUME ExchangeInv, NEW p \in Pipes, EmitsHead(p) \/ EmitsEnd(p) PROVE ExchangeInv'
<1>. DEFINE n == Len(answers[p])
            newest == answers[p][n]
<1>0. handling[p] \in Answering /\ handling[p] # "none"
  BY DEF EmitsHead, EmitsEnd, Answering
<1>1. /\ serving[p] = "running" /\ PipeFlows(p) /\ PipeAnswers(p) /\ PipeSlots(p)
      /\ answers[p] \in Seq(Reply) /\ n \in Nat \ {0} /\ newest \in Reply
  BY <1>0, OneHandled
<1>2. PICK x \in Reply, our \in {"body", "done", "mustClose"} :
        /\ answers' = [answers EXCEPT ![p] = [answers[p] EXCEPT ![n] = x]] /\ ours' = [ours EXCEPT ![p] = our]
        /\ x.status # "none" /\ (our # "body" => x.ended)
        /\ UNCHANGED <<client, net, buffered, serving, theirs, handling, counted, slots>>
  <2>1. newest = [status |-> newest.status, ended |-> newest.ended]
    BY <1>1 DEF Reply
  <2>2. CASE EmitsHead(p)
    <3>. DEFINE x == [status |-> Status(handling[p]), ended |-> newest.ended]
    <3>1. x \in Reply /\ x.status # "none"
      BY <1>0, <1>1 DEF Reply, Status, Answering
    <3>2. [newest EXCEPT !.status = Status(handling[p])] = x
      BY <1>1 DEF Reply
    <3>3. answers' = [answers EXCEPT ![p] = [answers[p] EXCEPT ![n] = [newest EXCEPT !.status = Status(handling[p])]]]
      BY <2>2 DEF EmitsHead
    <3>4. answers' = [answers EXCEPT ![p] = [answers[p] EXCEPT ![n] = x]]
      BY <3>2, <3>3
    <3>. HIDE DEF x
    <3>. QED
      BY <2>2, <3>1, <3>4 DEF EmitsHead, wireside
  <2>3. CASE EmitsEnd(p)
    <3>. DEFINE x == [status |-> newest.status, ended |-> TRUE]
    <3>1. x \in Reply /\ x.status # "none" /\ x.ended
      BY <1>1, <2>3 DEF Reply, PipeAnswers, EmitsEnd
    <3>2. [newest EXCEPT !.ended = TRUE] = x
      <4>1. \A v : [newest EXCEPT !.ended = v] = [status |-> newest.status, ended |-> v]
        BY <1>1 DEF Reply
      <4>. QED
        BY <4>1
    <3>3. answers' = [answers EXCEPT ![p] = [answers[p] EXCEPT ![n] = [newest EXCEPT !.ended = TRUE]]]
      BY <2>3 DEF EmitsEnd
    <3>4. answers' = [answers EXCEPT ![p] = [answers[p] EXCEPT ![n] = x]]
      BY <3>2, <3>3
    <3>. HIDE DEF x
    <3>. QED
      BY <2>3, <3>1, <3>4 DEF EmitsEnd, wireside
  <2>. QED
    BY <2>2, <2>3
<1>3. /\ Len(answers'[p]) = n /\ answers'[p][n] = x /\ \A i \in 1 .. n : i < n => answers'[p][i] = answers[p][i]
      /\ answers'[p] \in Seq(Reply)
  <2>1. answers'[p] = [answers[p] EXCEPT ![n] = x]
    BY <1>2 DEF ExchangeInv, ExchangeTypes
  <2>. QED
    BY <1>1, <2>1, LastChanges
<1>4. /\ ours'[p] = our /\ \A r \in Pipes : r # p => ours'[r] = ours[r] /\ answers'[r] = answers[r]
  BY <1>2 DEF ExchangeInv, ExchangeTypes
<1>5. ExchangeTypes'
  <2>1. answers' \in [Pipes -> Seq(Reply)]
    <3>1. [answers[p] EXCEPT ![n] = x] \in Seq(Reply)
      BY <1>1, LastChanges
    <3>. QED
      BY <1>2, <3>1 DEF ExchangeInv, ExchangeTypes
  <2>2. ours' \in [Pipes -> {"idle", "response", "body", "done", "mustClose"}]
    BY <1>2 DEF ExchangeInv, ExchangeTypes
  <2>. QED
    BY <1>2, <2>1, <2>2 DEF ExchangeInv, ExchangeTypes
<1>. HIDE DEF n, newest
<1>6. PipeAnswers(p)'
  <2>1. \A i \in 1 .. n : i < n => answers'[p][i].ended /\ answers'[p][i].status # "none"
    BY <1>1, <1>3 DEF PipeAnswers, n
  <2>. QED
    BY <1>1, <1>2, <1>3, <1>4, <2>1 DEF PipeAnswers
<1>7. PipeFlows(p)' /\ PipeSlots(p)'
  BY <1>1, <1>2 DEF PipeFlows, PipeSlots
<1>8. ASSUME NEW r \in Pipes, r # p PROVE PipeInv(r)'
  BY <1>2, <1>4, <1>8, OtherPipes
<1>9. SlotsBounded'
  BY <1>2 DEF ExchangeInv, SlotsBounded
<1>. QED
  BY <1>5, <1>6, <1>7, <1>8, <1>9 DEF ExchangeInv, PipeInv

(* The end of a request.  The connection is read on only where the stream of  *)
(* the request was pulled to its end, or skipped to it.                       *)
LEMMA ExchangeEndsKeep == ASSUME ExchangeInv, NEW p \in Pipes, RunEnds(p) PROVE ExchangeInv'
<1>. DEFINE our == IF ours[p] = "response" THEN "done" ELSE ours[p]
            pull == handling[p] # "raised" /\ theirs[p] = "body"
            their == IF pull /\ EndAt(buffered[p]) # {} THEN "done" ELSE theirs[p]
            keep == handling[p] # "raised" /\ ReusablePipe(our, their)
            b == IF pull THEN PastTheEnd(buffered[p]) ELSE buffered[p]
            sv == IF keep THEN "reading" ELSE IF their # "done" THEN "lingering" ELSE "closed"
            n == Len(answers[p])
            x == IF ours[p] # "response" THEN answers[p][n] ELSE [status |-> "500", ended |-> TRUE]
<1>0. handling[p] # "none"
  BY DEF RunEnds
<1>1. /\ serving[p] = "running" /\ PipeFlows(p) /\ PipeAnswers(p) /\ PipeSlots(p)
      /\ answers[p] \in Seq(Reply) /\ n \in Nat \ {0} /\ answers[p][n] \in Reply
      /\ buffered[p] \in Seq(Written) /\ net[p] \in Seq(Written)
      /\ ours[p] \in {"response", "body", "done", "mustClose"} /\ theirs[p] \in {"body", "done", "error"}
  BY <1>0, OneHandled
<1>2. /\ buffered' = [buffered EXCEPT ![p] = b] /\ serving' = [serving EXCEPT ![p] = sv]
      /\ ours' = [ours EXCEPT ![p] = IF keep THEN "idle" ELSE our]
      /\ theirs' = [theirs EXCEPT ![p] = IF keep THEN "idle" ELSE their]
      /\ handling' = [handling EXCEPT ![p] = "none"] /\ counted' = [counted EXCEPT ![p] = 0]
      /\ slots' = slots \ {p} /\ UNCHANGED <<client, net>>
  <2>1. buffered = [buffered EXCEPT ![p] = buffered[p]]
    BY DEF ExchangeInv, ExchangeTypes
  <2>2. buffered' = IF pull THEN [buffered EXCEPT ![p] = PastTheEnd(@)] ELSE buffered
    BY DEF RunEnds
  <2>3. buffered' = [buffered EXCEPT ![p] = b]
    BY <2>1, <2>2
  <2>. QED
    BY <2>3 DEF RunEnds, wireside
<1>3. answers' = [answers EXCEPT ![p] = [answers[p] EXCEPT ![n] = x]]
  <2>1. answers' = IF ours[p] # "response" THEN answers
                   ELSE [answers EXCEPT ![p] = [answers[p] EXCEPT ![n] = [status |-> "500", ended |-> TRUE]]]
    BY DEF RunEnds
  <2>2. answers[p] = [answers[p] EXCEPT ![n] = answers[p][n]]
    BY <1>1
  <2>3. answers = [answers EXCEPT ![p] = [answers[p] EXCEPT ![n] = answers[p][n]]]
    BY <2>2 DEF ExchangeInv, ExchangeTypes
  <2>. QED
    BY <2>1, <2>3
<1>4. keep => our = "done" /\ their = "done"
  BY DEF ReusablePipe
<1>5. /\ x \in Reply /\ x.status # "none" /\ (keep => x.ended)
  <2>1. CASE ours[p] = "response"
    BY <2>1 DEF Reply
  <2>2. CASE ours[p] # "response"
    <3>1. x = answers[p][n] /\ our = ours[p]
      BY <2>2
    <3>. QED
      BY <1>1, <1>4, <2>2, <3>1 DEF PipeAnswers
  <2>. QED
    BY <2>1, <2>2
<1>6. b \in Seq(Written) /\ (keep => Flows(b \o net[p], TRUE, client[p].does = "idle"))
  <2>1. CASE pull /\ EndAt(buffered[p]) # {}
    <3>1. b = PastTheEnd(buffered[p])
      BY <2>1
    <3>2. Flows(buffered[p] \o net[p], theirs[p] = "done", client[p].does = "idle")
      BY <1>1, <2>1 DEF PipeFlows
    <3>. QED
      BY <1>1, <2>1, <3>1, <3>2, FlowSkipped
  <2>2. CASE pull /\ EndAt(buffered[p]) = {}
    <3>1. b = <<>> /\ b \in Seq(Written) /\ their = "body"
      BY <2>2 DEF PastTheEnd
    <3>. QED
      BY <1>4, <3>1
  <2>3. CASE ~pull
    <3>1. b = buffered[p] /\ their = theirs[p]
      BY <2>3
    <3>2. ASSUME theirs[p] = "done"
          PROVE  Flows(buffered[p] \o net[p], TRUE, client[p].does = "idle")
      <4>1. Flows(buffered[p] \o net[p], theirs[p] = "done", client[p].does = "idle")
        BY <1>1, <3>2 DEF PipeFlows
      <4>2. (theirs[p] = "done") = TRUE
        BY <3>2
      <4>. QED
        BY <4>1, <4>2
    <3>. QED
      BY <1>1, <1>4, <3>1, <3>2
  <2>. QED
    BY <2>1, <2>2, <2>3
<1>7. sv \in {"reading", "lingering", "closed"} /\ (sv = "reading" => keep)
  OBVIOUS
<1>8. /\ our \in {"body", "done", "mustClose"} /\ their \in {"body", "done", "error"}
  BY <1>1
<1>. HIDE DEF our, their, keep, b, sv, x
<1>9. /\ buffered'[p] = b /\ serving'[p] = sv /\ handling'[p] = "none" /\ counted'[p] = 0 /\ p \notin slots'
      /\ \A r \in Pipes : r # p =>
            /\ buffered'[r] = buffered[r] /\ serving'[r] = serving[r] /\ handling'[r] = handling[r]
            /\ counted'[r] = counted[r] /\ (r \in slots' <=> r \in slots)
  BY <1>2 DEF ExchangeInv, ExchangeTypes
<1>10. \A r \in Pipes : r # p => /\ ours'[r] = ours[r] /\ theirs'[r] = theirs[r] /\ answers'[r] = answers[r]
  BY <1>2, <1>3 DEF ExchangeInv, ExchangeTypes
<1>11. /\ Len(answers'[p]) = n /\ answers'[p][n] = x
       /\ \A i \in 1 .. n : i < n => answers'[p][i] = answers[p][i]
       /\ [answers[p] EXCEPT ![n] = x] \in Seq(Reply)
  <2>1. answers'[p] = [answers[p] EXCEPT ![n] = x]
    BY <1>3 DEF ExchangeInv, ExchangeTypes
  <2>. QED
    BY <1>1, <1>5, <2>1, LastChanges
<1>12. ExchangeTypes'
  <2>1. answers' \in [Pipes -> Seq(Reply)]
    BY <1>3, <1>11 DEF ExchangeInv, ExchangeTypes
  <2>2. buffered' \in [Pipes -> Seq(Written)]
    BY <1>2, <1>6 DEF ExchangeInv, ExchangeTypes
  <2>3. serving' \in [Pipes -> {"reading", "running", "lingering", "closed"}]
    BY <1>2, <1>7 DEF ExchangeInv, ExchangeTypes
  <2>4. ours' \in [Pipes -> {"idle", "response", "body", "done", "mustClose"}]
    BY <1>2, <1>8 DEF ExchangeInv, ExchangeTypes
  <2>5. theirs' \in [Pipes -> {"idle", "body", "done", "error"}]
    BY <1>2, <1>8 DEF ExchangeInv, ExchangeTypes
  <2>6. handling' \in [Pipes -> {"none", "413", "503", "handler", "raised"}]
    BY <1>2 DEF ExchangeInv, ExchangeTypes
  <2>7. counted' \in [Pipes -> Nat] /\ slots' \subseteq Pipes
    BY <1>2 DEF ExchangeInv, ExchangeTypes
  <2>. QED
    BY <1>2, <2>1, <2>2, <2>3, <2>4, <2>5, <2>6, <2>7 DEF ExchangeInv, ExchangeTypes
<1>. HIDE DEF n
<1>13. PipeFlows(p)'
  BY <1>2, <1>6, <1>7, <1>9 DEF PipeFlows
<1>14. PipeAnswers(p)'
  <2>1. \A i \in 1 .. n : i < n => answers'[p][i].ended /\ answers'[p][i].status # "none"
    BY <1>1, <1>11 DEF PipeAnswers, n
  <2>. QED
    BY <1>5, <1>7, <1>9, <1>11, <2>1 DEF PipeAnswers
<1>15. PipeSlots(p)'
  BY <1>7, <1>9 DEF PipeSlots
<1>16. ASSUME NEW r \in Pipes, r # p PROVE PipeInv(r)'
  BY <1>2, <1>9, <1>10, <1>16, OtherPipes
<1>17. SlotsBounded'
  <2>1. IsFiniteSet(slots) /\ Cardinality(slots) <= BudgetLimit /\ Cardinality(slots) \in Nat
    BY FS_CardinalityType DEF ExchangeInv, SlotsBounded
  <2>2. slots' \subseteq slots
    BY <1>2
  <2>3. IsFiniteSet(slots') /\ Cardinality(slots') <= Cardinality(slots) /\ Cardinality(slots') \in Nat
    BY <2>1, <2>2, FS_Subset, FS_CardinalityType
  <2>. QED
    BY <2>1, <2>3, ExchangeAssumption DEF SlotsBounded
<1>. QED
  BY <1>12, <1>13, <1>14, <1>15, <1>16, <1>17 DEF ExchangeInv, PipeInv

LEMMA ExchangeKept == ASSUME ExchangeInv, [AsgiNext]_asgiVars PROVE ExchangeInv'
<1>1. CASE AsgiNext
  <2>1. PICK p \in Pipes :
          \/ ClientAsks(p) \/ ClientUploads(p)
          \/ ReadsPipe(p) \/ ReadsRequest(p) \/ BadRequest(p) \/ NoRequest(p)
          \/ PullsBody(p) \/ PullFails(p) \/ EmitsHead(p) \/ EmitsEnd(p) \/ Crashes(p)
          \/ RunEnds(p) \/ Lingers(p)
    BY <1>1 DEF AsgiNext
  <2>. QED
    BY <2>1, ClientKeeps, ReadsKeep, RequestKeeps, NoRequestKeeps, PullsKeep, RaisesKeep, EmitsKeep,
       ExchangeEndsKeep, LingersKeep
<1>2. CASE UNCHANGED asgiVars
  <2>1. UNCHANGED <<client, net, buffered, serving, ours, theirs, handling, counted, slots, answers>>
    BY <1>2 DEF asgiVars, wireside, halves
  <2>2. ExchangeTypes' /\ SlotsBounded'
    BY <2>1 DEF ExchangeInv, ExchangeTypes, SlotsBounded
  <2>3. ASSUME NEW r \in Pipes PROVE PipeInv(r)'
    BY <2>1, OtherPipes
  <2>. QED
    BY <2>2, <2>3 DEF ExchangeInv
<1>. QED
  BY <1>1, <1>2

THEOREM ExchangeInvariant == AsgiSpec => []ExchangeInv
BY ExchangeStarts, ExchangeKept, PTL DEF AsgiSpec

LEMMA ExchangeShows == ASSUME ExchangeInv PROVE ExchangesAreSound
<1>1. ASSUME NEW p \in Pipes
      PROVE  /\ serving[p] = "reading" /\ buffered[p] # <<>> => Head(buffered[p]) \in RequestHeads
             /\ \A i \in DOMAIN answers[p] : i < Len(answers[p]) => answers[p][i].ended
             /\ handling[p] = "none" => \A i \in DOMAIN answers[p] : answers[p][i].status # "none"
             /\ handling[p] = "handler" => p \in slots /\ counted[p] <= MaxBytes
             /\ p \in slots => handling[p] # "none" /\ serving[p] = "running"
  <2>1. /\ PipeFlows(p) /\ PipeAnswers(p) /\ PipeSlots(p) /\ answers[p] \in Seq(Reply)
        /\ buffered[p] \in Seq(Written) /\ net[p] \in Seq(Written)
        /\ serving[p] \in {"reading", "running", "lingering", "closed"}
    BY DEF ExchangeInv, ExchangeTypes, PipeInv
  <2>2. Len(answers[p]) \in Nat /\ DOMAIN answers[p] = 1 .. Len(answers[p])
    BY <2>1
  <2>3. ASSUME serving[p] = "reading", buffered[p] # <<>> PROVE Head(buffered[p]) \in RequestHeads
    <3>1. Flows(buffered[p] \o net[p], TRUE, client[p].does = "idle")
      BY <2>1, <2>3 DEF PipeFlows
    <3>. QED
      BY <2>1, <2>3, <3>1, FlowPulled
  <2>4. \A i \in DOMAIN answers[p] : i < Len(answers[p]) => answers[p][i].ended
    BY <2>1, <2>2 DEF PipeAnswers
  <2>5. ASSUME handling[p] = "none", NEW i \in DOMAIN answers[p] PROVE answers[p][i].status # "none"
    <3>1. serving[p] \in {"reading", "lingering", "closed"}
      BY <2>1, <2>5 DEF PipeSlots
    <3>2. Len(answers[p]) > 0 /\ (i < Len(answers[p]) \/ i = Len(answers[p])) /\ i \in 1 .. Len(answers[p])
      BY <2>2, <2>5
    <3>3. answers[p][Len(answers[p])].status # "none"
      BY <2>1, <3>1, <3>2 DEF PipeAnswers
    <3>. QED
      BY <2>1, <3>2, <3>3 DEF PipeAnswers
  <2>. QED
    BY <2>1, <2>3, <2>4, <2>5 DEF PipeSlots
<1>. QED
  BY <1>1 DEF ExchangesAreSound, ExchangeInv, SlotsBounded

THEOREM ExchangesSound == AsgiSpec => []ExchangesAreSound
BY ExchangeInvariant, ExchangeShows, PTL

Sides == {"idle", "open", "remote", "local", "closed"}
H2Fields == [side : [Streams -> Sides], win : [Streams -> Int], conn : Nat, credit : Nat,
             initial : Int, lowered : BOOLEAN]

(* Only a client that lowers its initial window leaves one below zero.        *)
H2Conns == {w \in H2Fields : w.lowered \/ \A s \in Streams : w.win[s] >= 0}

Kinds == {"none", "created", "app", "sending", "parked", "over"}

H2Types ==
    /\ h2conn \in H2Conns
    /\ events \in Seq(Frames) /\ Len(events) <= 2
    /\ table \subseteq Streams /\ condemned \subseteq Streams
    /\ task \in [Streams -> Kinds]
    /\ rest \in [Streams -> {0, 1}] /\ last \in [Streams -> BOOLEAN]
    /\ unread \in [Streams -> Seq({"data", "end"})]
    /\ begun \subseteq Streams /\ answered \subseteq Streams /\ readAll \subseteq Streams
    /\ resets \in Nat /\ readLoop \in {"reading", "awaiting", "over"}

BodyOf(s) == {<<"data", s>>, <<"end", s>>}

OpenedOnce(w, q, t) ==
    \A s \in Streams :
        /\ w.side[s] = "idle" =>
              t[s] = "none" /\ \A i \in DOMAIN q : q[i] \notin BodyOf(s) \cup {<<"request", s>>}
        /\ w.side[s] # "idle" /\ t[s] = "none" => \E i \in DOMAIN q : q[i] = <<"request", s>>
        /\ \A i \in DOMAIN q : q[i] = <<"request", s>> =>
              t[s] = "none" /\ \A j \in DOMAIN q : q[j] = <<"request", s>> => j = i
        /\ \A i \in DOMAIN q : q[i] \in BodyOf(s) /\ t[s] = "none" =>
              \E j \in DOMAIN q : j < i /\ q[j] = <<"request", s>>

EndedOnce(w, q, u, R) ==
    \A s \in Streams :
        /\ \A i \in DOMAIN q : q[i] = <<"end", s>> =>
              /\ w.side[s] \in {"remote", "closed"}
              /\ \A j \in DOMAIN q : q[j] \in BodyOf(s) => j <= i
        /\ \A k \in DOMAIN u[s] : u[s][k] = "end" =>
              /\ w.side[s] \in {"remote", "closed"} /\ k = Len(u[s])
              /\ \A i \in DOMAIN q : q[i] \notin BodyOf(s)
        /\ s \in R => /\ w.side[s] \in {"remote", "closed"} /\ u[s] = <<>>
                      /\ \A i \in DOMAIN q : q[i] \notin BodyOf(s)

HeldChunks(u) == {c \in Streams \X (1 .. ReceiveWindow + 1) :
              c[2] \in DOMAIN u[c[1]] /\ u[c[1]][c[2]] = "data"}
DueChunks(q) == Cardinality({i \in DOMAIN q : q[i][1] = "data"})

CreditKept(w, q, u, t, R) ==
    /\ \A s \in Streams : Len(u[s]) <= ReceiveWindow + 1
    /\ IsFiniteSet(HeldChunks(u))
    /\ w.credit + DueChunks(q) + Cardinality(HeldChunks(u)) <= ReceiveWindow
    /\ (\A s \in Streams : t[s] = "over" => s \in R) =>
          w.credit + DueChunks(q) + Cardinality(HeldChunks(u)) = ReceiveWindow

RoomOf(w, s) == IF w.win[s] < w.conn THEN w.win[s] ELSE w.conn
Wakes(f, s) == f = <<"window", s>> \/ f[1] \in {"connWindow"} \cup Settings

WokenUp(w, q, t, d, ended) ==
    \A s \in Streams : t[s] = "parked" /\ ~ended =>
        RoomOf(w, s) <= 0 \/ s \in d \/ \E i \in DOMAIN q : Wakes(q[i], s)

Tabled(T, t, d) ==
    \A s \in Streams :
        /\ t[s] \in Working \cup {"created"} => s \in T
        /\ s \in T /\ t[s] = "over" => s \in d

AnswersFit ==
    \A s \in Streams :
        /\ s \in answered => h2conn.side[s] \in {"local", "closed"} \/ h2conn.lowered
        /\ task[s] = "over" /\ h2conn.side[s] \in {"open", "remote"} =>
              s \in condemned \/ s \notin begun \/ (h2conn.lowered /\ s \in answered)
        /\ s \in readAll => task[s] \in Working \cup {"over"}

Closing ==
    /\ resets > MaxStreamResets => readLoop # "reading"
    /\ readLoop = "over" => \A s \in Streams : task[s] \in {"none", "over"}
    /\ readLoop # "reading" => events = <<>>

H2Inv ==
    /\ H2Types
    /\ OpenedOnce(h2conn, events, task)
    /\ EndedOnce(h2conn, events, unread, readAll)
    /\ CreditKept(h2conn, events, unread, task, readAll)
    /\ WokenUp(h2conn, events, task, condemned, readLoop # "reading")
    /\ Tabled(table, task, condemned)
    /\ AnswersFit /\ Closing
-----------------------------------------------------------------------------
(* What a frame does to the wire.                                             *)
LEMMA FrameIs ==
  ASSUME NEW f \in Frames
  PROVE  /\ f = <<f[1], f[2]>>
         /\ \/ f[1] \in {"request", "data", "end", "reset", "window"} /\ f[2] \in Streams
            \/ f[1] \in {"connWindow", "raise", "lower", "goaway"} /\ f[2] = "all"
BY DEF Frames

LEMMA WireMoves ==
  ASSUME NEW w \in H2Conns, NEW f \in Frames, Accepted(f, w)
  PROVE  LET v == Applied(f, w)
         IN  /\ v \in H2Conns
             /\ v.credit = IF f[1] = "data" THEN w.credit - 1 ELSE w.credit
             /\ f[1] = "data" => w.credit > 0
             /\ w.lowered => v.lowered
             /\ \A s \in Streams :
                  /\ f = <<"request", s>> => w.side[s] = "idle" /\ v.side[s] = "open"
                  /\ f \in BodyOf(s) => w.side[s] \in {"open", "local"}
                  /\ f = <<"end", s>> => v.side[s] \in {"remote", "closed"}
                  /\ w.side[s] \in {"remote", "closed"} => v.side[s] \in {"remote", "closed"}
                  /\ w.side[s] \in {"local", "closed"} => v.side[s] \in {"local", "closed"}
                  /\ v.side[s] = "idle" <=> w.side[s] = "idle" /\ f # <<"request", s>>
                  /\ RoomOf(w, s) <= 0 => RoomOf(v, s) <= 0 \/ Wakes(f, s)
<1>. DEFINE v == Applied(f, w)
<1>1. /\ w.side \in [Streams -> Sides] /\ w.win \in [Streams -> Int] /\ w.conn \in Nat /\ w.credit \in Nat
      /\ w.initial \in Int /\ w.lowered \in BOOLEAN /\ w \in H2Fields
      /\ w.lowered \/ \A s \in Streams : w.win[s] >= 0
  BY DEF H2Conns, H2Fields
<1>2. PICK kind, x : f = <<kind, x>> /\ f[1] = kind /\ f[2] = x
  BY FrameIs
<1>3. CASE kind = "request"
  <2>1. x \in Streams /\ w.side[x] = "idle" /\ v = [w EXCEPT !.side = [w.side EXCEPT ![x] = "open"]]
    BY <1>2, <1>3, FrameIs DEF Accepted, Applied
  <2>. HIDE DEF v
  <2>2. v \in H2Fields /\ v.side = [w.side EXCEPT ![x] = "open"] /\ v.lowered = w.lowered
        /\ v.win = w.win /\ v.conn = w.conn /\ v.credit = w.credit
    BY <1>1, <2>1 DEF H2Fields, Sides
  <2>3. v \in H2Conns
    BY <1>1, <2>1, <2>2 DEF H2Conns
  <2>. QED
    BY <1>1, <1>2, <1>3, <2>1, <2>2, <2>3 DEF BodyOf, RoomOf, v
<1>4. CASE kind = "data"
  <2>1. x \in Streams /\ w.side[x] \in {"open", "local"} /\ w.credit > 0 /\ v = [w EXCEPT !.credit = w.credit - 1]
    BY <1>2, <1>4, FrameIs DEF Accepted, Applied
  <2>. HIDE DEF v
  <2>2. v \in H2Fields /\ v.side = w.side /\ v.lowered = w.lowered
        /\ v.win = w.win /\ v.conn = w.conn /\ v.credit = w.credit - 1
    BY <1>1, <2>1 DEF H2Fields, Sides
  <2>3. v \in H2Conns
    BY <1>1, <2>1, <2>2 DEF H2Conns
  <2>. QED
    BY <1>1, <1>2, <1>4, <2>1, <2>2, <2>3 DEF BodyOf, RoomOf, v
<1>5. CASE kind = "end"
  <2>1. x \in Streams /\ w.side[x] \in {"open", "local"} /\ v = [w EXCEPT !.side = [w.side EXCEPT ![x] = IF w.side[x] = "open" THEN "remote" ELSE "closed"]]
    BY <1>2, <1>5, FrameIs DEF Accepted, Applied
  <2>. HIDE DEF v
  <2>2. v \in H2Fields /\ v.side = [w.side EXCEPT ![x] = IF w.side[x] = "open" THEN "remote" ELSE "closed"] /\ v.lowered = w.lowered
        /\ v.win = w.win /\ v.conn = w.conn /\ v.credit = w.credit
    BY <1>1, <2>1 DEF H2Fields, Sides
  <2>3. v \in H2Conns
    BY <1>1, <2>1, <2>2 DEF H2Conns
  <2>. QED
    BY <1>1, <1>2, <1>5, <2>1, <2>2, <2>3 DEF BodyOf, RoomOf, v
<1>6. CASE kind = "reset"
  <2>1. x \in Streams /\ w.side[x] \in {"open", "remote", "local"} /\ v = [w EXCEPT !.side = [w.side EXCEPT ![x] = "closed"]]
    BY <1>2, <1>6, FrameIs DEF Accepted, Applied
  <2>. HIDE DEF v
  <2>2. v \in H2Fields /\ v.side = [w.side EXCEPT ![x] = "closed"] /\ v.lowered = w.lowered
        /\ v.win = w.win /\ v.conn = w.conn /\ v.credit = w.credit
    BY <1>1, <2>1 DEF H2Fields, Sides
  <2>3. v \in H2Conns
    BY <1>1, <2>1, <2>2 DEF H2Conns
  <2>. QED
    BY <1>1, <1>2, <1>6, <2>1, <2>2, <2>3 DEF BodyOf, RoomOf, v
<1>7. CASE kind = "window"
  <2>1. x \in Streams /\ v = [w EXCEPT !.win = [w.win EXCEPT ![x] = w.win[x] + 1]]
    BY <1>2, <1>7, FrameIs DEF Accepted, Applied
  <2>. HIDE DEF v
  <2>2. v \in H2Fields /\ v.side = w.side /\ v.lowered = w.lowered
        /\ v.win = [w.win EXCEPT ![x] = w.win[x] + 1] /\ v.conn = w.conn /\ v.credit = w.credit
    BY <1>1, <2>1 DEF H2Fields, Sides
  <2>3. \A s \in Streams : w.win[s] \in Int /\ v.win[s] = IF s = x THEN w.win[s] + 1 ELSE w.win[s]
    BY <1>1, <2>1, <2>2
  <2>4. v.lowered \/ \A s \in Streams : v.win[s] >= 0
    BY <1>1, <2>2, <2>3
  <2>5. v \in H2Conns
    BY <2>2, <2>4 DEF H2Conns
  <2>. QED
    BY <1>1, <1>2, <1>7, <2>1, <2>2, <2>5 DEF BodyOf, RoomOf, Wakes, v
<1>8. CASE kind = "connWindow"
  <2>1. v = [w EXCEPT !.conn = 1]
    BY <1>2, <1>8, FrameIs DEF Accepted, Applied
  <2>. HIDE DEF v
  <2>2. v \in H2Fields /\ v.side = w.side /\ v.lowered = w.lowered
        /\ v.win = w.win /\ v.conn = 1 /\ v.credit = w.credit
    BY <1>1, <2>1 DEF H2Fields, Sides
  <2>3. v \in H2Conns
    BY <1>1, <2>1, <2>2 DEF H2Conns
  <2>. QED
    BY <1>1, <1>2, <1>8, <2>1, <2>2, <2>3 DEF BodyOf, Settings, Wakes, v
<1>9. ASSUME NEW by \in {-1, 1}, kind \in Settings,
             v = [w EXCEPT !.initial = w.initial + by, !.win = [s \in Streams |-> w.win[s] + by],
                           !.lowered = (by = -1 \/ w.lowered)]
      PROVE  /\ v \in H2Conns /\ v.side = w.side /\ v.credit = w.credit /\ (w.lowered => v.lowered)
  <2>. DEFINE win == [s \in Streams |-> w.win[s] + by]
              low == (by = -1 \/ w.lowered)
  <2>1. win \in [Streams -> Int] /\ w.initial + by \in Int /\ low \in BOOLEAN
        /\ \A s \in Streams : win[s] = w.win[s] + by
    BY <1>1
  <2>. HIDE DEF v, win
  <2>2. v \in H2Fields /\ v.side = w.side /\ v.credit = w.credit /\ v.win = win /\ v.lowered = low
    BY <1>1, <1>9, <2>1 DEF H2Fields, win
  <2>3. low \/ (by = 1 /\ ~w.lowered)
    OBVIOUS
  <2>. HIDE DEF low
  <2>4. v.lowered \/ \A s \in Streams : v.win[s] >= 0
    <3>1. CASE low
      BY <2>2, <3>1
    <3>2. CASE by = 1 /\ ~w.lowered
      BY <1>1, <2>1, <2>2, <3>2
    <3>. QED
      BY <2>3, <3>1, <3>2
  <2>. QED
    BY <2>2, <2>4 DEF H2Conns, low
<1>10. CASE kind = "raise"
  <2>1. v = [w EXCEPT !.initial = w.initial + 1, !.win = [s \in Streams |-> w.win[s] + 1], !.lowered = w.lowered]
    BY <1>1, <1>2, <1>10, FrameIs DEF Applied, Resized, H2Fields
  <2>2. v \in H2Conns /\ v.side = w.side /\ v.credit = w.credit /\ (w.lowered => v.lowered)
    <3>1. 1 \in {-1, 1} /\ kind \in Settings /\ (1 = -1 \/ w.lowered) = w.lowered
      BY <1>1, <1>10 DEF Settings
    <3>2. v = [w EXCEPT !.initial = w.initial + 1, !.win = [s \in Streams |-> w.win[s] + 1],
                        !.lowered = (1 = -1 \/ w.lowered)]
      BY <2>1, <3>1
    <3>. QED
      BY <1>9, <3>1, <3>2
  <2>. HIDE DEF v
  <2>. QED
    BY <1>1, <1>2, <1>10, <2>2 DEF BodyOf, Wakes, Settings, v
<1>11. CASE kind = "lower"
  <2>1. v = [w EXCEPT !.initial = w.initial + (-1), !.win = [s \in Streams |-> w.win[s] + (-1)], !.lowered = TRUE]
    BY <1>1, <1>2, <1>11, FrameIs DEF Applied, Resized, H2Fields
  <2>2. v \in H2Conns /\ v.side = w.side /\ v.credit = w.credit /\ (w.lowered => v.lowered)
    <3>1. (-1) \in {-1, 1} /\ kind \in Settings /\ ((-1) = -1 \/ w.lowered) = TRUE
      BY <1>1, <1>11 DEF Settings
    <3>2. v = [w EXCEPT !.initial = w.initial + (-1), !.win = [s \in Streams |-> w.win[s] + (-1)],
                        !.lowered = ((-1) = -1 \/ w.lowered)]
      BY <2>1, <3>1
    <3>. QED
      BY <1>9, <3>1, <3>2
  <2>. HIDE DEF v
  <2>. QED
    BY <1>1, <1>2, <1>11, <2>2 DEF BodyOf, Wakes, Settings, v
<1>12. CASE kind = "goaway"
  <2>1. v = w
    BY <1>2, <1>12, FrameIs DEF Accepted, Applied
  <2>. HIDE DEF v
  <2>. QED
    BY <1>1, <1>2, <1>12, <2>1 DEF BodyOf, v
<1>. QED
  BY <1>2, <1>3, <1>4, <1>5, <1>6, <1>7, <1>8, <1>10, <1>11, <1>12, FrameIs

(* What is received: a frame behind the others, and the first one handled.    *)
LEMMA FramesGrow ==
  ASSUME NEW q \in Seq(Frames), NEW f \in Frames
  PROVE  LET r == Append(q, f)
         IN  /\ r \in Seq(Frames) /\ Len(r) = Len(q) + 1 /\ Len(q) \in Nat
             /\ DOMAIN q = 1 .. Len(q) /\ DOMAIN r = 1 .. Len(q) + 1
             /\ r[Len(q) + 1] = f /\ \A i \in 1 .. Len(q) : r[i] = q[i]
OBVIOUS

LEMMA FramesGive ==
  ASSUME NEW q \in Seq(Frames), q # <<>>
  PROVE  LET r == Tail(q)
         IN  /\ r \in Seq(Frames) /\ Len(r) = Len(q) - 1 /\ Len(q) \in Nat /\ 1 \in DOMAIN q
             /\ DOMAIN q \subseteq Nat /\ DOMAIN r \subseteq Nat /\ Head(q) = q[1] /\ q[1] \in Frames
             /\ \A i \in DOMAIN r : i + 1 \in DOMAIN q /\ r[i] = q[i + 1] /\ i > 0
             /\ \A i \in DOMAIN q : i = 1 \/ (i - 1 \in DOMAIN r /\ i > 1 /\ r[i - 1] = q[i])
<1>1. /\ Len(q) \in Nat \ {0} /\ DOMAIN q = 1 .. Len(q) /\ Head(q) = q[1] /\ Tail(q) \in Seq(Frames)
      /\ Len(Tail(q)) = Len(q) - 1 /\ DOMAIN Tail(q) = 1 .. Len(q) - 1 /\ q[1] \in Frames
  OBVIOUS
<1>2. ASSUME NEW i \in 1 .. Len(q) - 1 PROVE Tail(q)[i] = q[i + 1]
  BY <1>1
<1>3. ASSUME NEW i \in DOMAIN q, i # 1
      PROVE  i - 1 \in 1 .. Len(q) - 1 /\ i > 1 /\ Tail(q)[i - 1] = q[i]
  <2>1. i - 1 \in 1 .. Len(q) - 1 /\ i > 1 /\ (i - 1) + 1 = i
    BY <1>1, <1>3
  <2>. QED
    BY <1>2, <2>1
<1>. QED
  BY <1>1, <1>2, <1>3

LEMMA LastFrame ==
  ASSUME NEW q \in Seq(Frames)
  PROVE  /\ Len(q) = 1 => q # <<>> /\ Tail(q) = <<>>
         /\ Len(q) = 2 => Len(Tail(q)) = 1 /\ Tail(q)[1] = q[2]
         /\ q # <<>> /\ Len(q) <= 2 => Len(q) = 1 \/ Len(q) = 2
<1>0. Len(<<>>) = 0 /\ Len(q) \in Nat /\ (Len(q) # 0 => q # <<>>)
  <2>1. Len(<<>>) = 0
    OBVIOUS
  <2>. QED
    BY <2>1
<1>1. ASSUME Len(q) = 1 PROVE q # <<>> /\ Tail(q) = <<>>
  <2>0. q # <<>>
    BY <1>0, <1>1
  <2>1. Len(Tail(q)) = 0 /\ Tail(q) \in Seq(Frames)
    BY <1>1, <2>0, FramesGive
  <2>2. \A i \in 1 .. 0 : Tail(q)[i] = <<>>[i]
    OBVIOUS
  <2>3. Len(<<>>) = 0 /\ <<>> \in Seq(Frames)
    OBVIOUS
  <2>. QED
    BY <2>0, <2>1, <2>2, <2>3, SeqEqual
<1>3. ASSUME Len(q) = 2 PROVE Len(Tail(q)) = 1 /\ Tail(q)[1] = q[2]
  <2>1. q # <<>>
    BY <1>0, <1>3
  <2>2. Len(Tail(q)) = 1 /\ Tail(q) \in Seq(Frames) /\ \A i \in DOMAIN Tail(q) : Tail(q)[i] = q[i + 1]
    BY <1>3, <2>1, FramesGive
  <2>3. 1 \in DOMAIN Tail(q) /\ 1 + 1 = 2
    <3>. DEFINE r == Tail(q)
    <3>1. r \in Seq(Frames) /\ Len(r) = 1
      BY <2>2
    <3>. HIDE DEF r
    <3>2. 1 \in DOMAIN r
      BY <3>1
    <3>. QED
      BY <3>2 DEF r
  <2>. QED
    BY <2>2, <2>3
<1>2. ASSUME q # <<>>, Len(q) <= 2 PROVE Len(q) = 1 \/ Len(q) = 2
  <2>. DEFINE n == Len(q)
  <2>1. n \in Nat /\ n # 0 /\ n <= 2
    BY <1>2
  <2>. HIDE DEF n
  <2>2. n = 1 \/ n = 2
    BY <2>1
  <2>. QED
    BY <2>2 DEF n
<1>. QED
  BY <1>1, <1>2, <1>3

LEMMA DueGrows ==
  ASSUME NEW q \in Seq(Frames), NEW f \in Frames
  PROVE  DueChunks(q) \in Nat /\ DueChunks(Append(q, f)) = DueChunks(q) + IF f[1] = "data" THEN 1 ELSE 0
<1>. DEFINE S == {i \in DOMAIN q : q[i][1] = "data"}
            r == Append(q, f)
            T == {i \in DOMAIN r : r[i][1] = "data"}
            n == Len(q)
<1>1. /\ n \in Nat /\ DOMAIN q = 1 .. n /\ DOMAIN r = 1 .. n + 1 /\ r[n + 1] = f
      /\ \A i \in 1 .. n : r[i] = q[i]
  BY FramesGrow
<1>2. IsFiniteSet(S) /\ Cardinality(S) \in Nat /\ n + 1 \notin S
  <2>0. \A k \in Nat : IsFiniteSet(1 .. k)
    BY FS_Interval
  <2>1. IsFiniteSet(1 .. n)
    BY <1>1, <2>0
  <2>2. S \subseteq 1 .. n
    BY <1>1
  <2>3. IsFiniteSet(S)
    BY <2>1, <2>2, FS_Subset
  <2>. QED
    BY <1>1, <2>2, <2>3, FS_CardinalityType
<1>3. T = IF f[1] = "data" THEN S \cup {n + 1} ELSE S
  BY <1>1
<1>4. Cardinality(S \cup {n + 1}) = Cardinality(S) + 1
  BY <1>2, FS_AddElement
<1>5. DueChunks(q) = Cardinality(S) /\ DueChunks(r) = Cardinality(T)
  BY DEF DueChunks
<1>. HIDE DEF S, T, r, n
<1>6. DueChunks(q) \in Nat /\ DueChunks(r) = DueChunks(q) + IF f[1] = "data" THEN 1 ELSE 0
  <2>1. CASE f[1] = "data"
    BY <1>2, <1>3, <1>4, <1>5, <2>1
  <2>2. CASE f[1] # "data"
    BY <1>2, <1>3, <1>5, <2>2
  <2>. QED
    BY <2>1, <2>2
<1>. QED
  BY <1>6 DEF r

LEMMA DueGives ==
  ASSUME NEW q \in Seq(Frames), q # <<>>, Len(q) <= 2
  PROVE  DueChunks(Tail(q)) \in Nat /\ DueChunks(q) = DueChunks(Tail(q)) + IF q[1][1] = "data" THEN 1 ELSE 0
<1>1. <<>> \in Seq(Frames) /\ DueChunks(<<>>) = 0
  BY FS_EmptySet DEF DueChunks
<1>2. q[1] \in Frames /\ Tail(q) \in Seq(Frames)
  BY FramesGive
<1>0. ASSUME NEW f \in Frames
      PROVE  DueChunks(Append(<<>>, f)) = IF f[1] = "data" THEN 1 ELSE 0
  <2>. DEFINE e == <<>>
  <2>1. e \in Seq(Frames) /\ DueChunks(e) = 0
    BY <1>1
  <2>. HIDE DEF e
  <2>2. DueChunks(Append(e, f)) = DueChunks(e) + IF f[1] = "data" THEN 1 ELSE 0
    BY <2>1, DueGrows
  <2>3. DueChunks(Append(e, f)) = IF f[1] = "data" THEN 1 ELSE 0
    BY <2>1, <2>2
  <2>. QED
    BY <2>3 DEF e
<1>3. Len(q) \in Nat /\ DOMAIN q = 1 .. Len(q) /\ Len(q) # 0
  OBVIOUS
<1>4. /\ Append(<<>>, q[1]) \in Seq(Frames) /\ Len(Append(<<>>, q[1])) = 1
      /\ Append(<<>>, q[1])[1] = q[1]
  BY <1>2
<1>5. CASE Len(q) = 1
  <2>1. Append(<<>>, q[1]) = q
    <3>. DEFINE r == Append(<<>>, q[1])
    <3>1. r \in Seq(Frames) /\ Len(r) = Len(q) /\ \A i \in 1 .. Len(r) : r[i] = q[i]
      BY <1>4, <1>5
    <3>. HIDE DEF r
    <3>2. r = q
      BY <3>1, SeqEqual
    <3>. QED
      BY <3>2 DEF r
  <2>2. Tail(q) = <<>>
    BY <1>5, LastFrame
  <2>3. DueChunks(q) = IF q[1][1] = "data" THEN 1 ELSE 0
    BY <1>0, <1>2, <2>1
  <2>4. DueChunks(Tail(q)) = 0
    BY <1>1, <2>2
  <2>. QED
    BY <2>3, <2>4
<1>6. CASE Len(q) = 2
  <2>. DEFINE one == Append(<<>>, q[1])
              two == Append(one, q[2])
              rest1 == Append(<<>>, q[2])
  <2>1. q[2] \in Frames
    <3>1. 2 \in 1 .. Len(q)
      BY <1>6
    <3>. QED
      BY <3>1
  <2>2. two \in Seq(Frames) /\ Len(two) = 2 /\ two[1] = q[1] /\ two[2] = q[2]
    BY <1>4, <2>1
  <2>3. rest1 \in Seq(Frames) /\ Len(rest1) = 1 /\ rest1[1] = q[2]
    BY <2>1
  <2>4. Len(Tail(q)) = 1 /\ Tail(q)[1] = q[2]
    BY <1>6
  <2>5. DueChunks(one) = IF q[1][1] = "data" THEN 1 ELSE 0
    BY <1>0, <1>2
  <2>6. DueChunks(rest1) = IF q[2][1] = "data" THEN 1 ELSE 0
    BY <1>0, <2>1
  <2>7. DueChunks(two) = DueChunks(one) + IF q[2][1] = "data" THEN 1 ELSE 0
    BY <1>4, <2>1, DueGrows
  <2>. HIDE DEF one, two, rest1
  <2>8. two = q
    <3>1. \A i \in 1 .. Len(two) : two[i] = q[i]
      <4>1. \A i \in 1 .. 2 : i = 1 \/ i = 2
        OBVIOUS
      <4>. QED
        BY <2>2, <4>1
    <3>. QED
      BY <1>6, <2>2, <3>1, SeqEqual
  <2>9. rest1 = Tail(q)
    <3>1. \A i \in 1 .. Len(rest1) : rest1[i] = Tail(q)[i]
      <4>1. \A i \in 1 .. 1 : i = 1
        OBVIOUS
      <4>. QED
        BY <2>3, <2>4, <4>1
    <3>. QED
      BY <1>2, <2>3, <2>4, <3>1, SeqEqual
  <2>10. DueChunks(q) = DueChunks(one) + IF q[2][1] = "data" THEN 1 ELSE 0
    BY <2>7, <2>8
  <2>11. DueChunks(Tail(q)) = IF q[2][1] = "data" THEN 1 ELSE 0
    BY <2>6, <2>9
  <2>. QED
    BY <2>5, <2>10, <2>11
<1>7. Len(q) = 1 \/ Len(q) = 2
  BY <1>3
<1>. QED
  BY <1>5, <1>6, <1>7
-----------------------------------------------------------------------------
(* What a frame that is taken leaves of the invariant.                        *)
LEMMA FeedOpens ==
  ASSUME NEW w \in H2Conns, NEW q \in Seq(Frames), NEW t, NEW f \in Frames, Accepted(f, w), OpenedOnce(w, q, t)
  PROVE  OpenedOnce(Applied(f, w), Append(q, f), t)
<1>. DEFINE v == Applied(f, w)
            r == Append(q, f)
            n == Len(q)
<1>1. \A s \in Streams :
        /\ f = <<"request", s>> => w.side[s] = "idle" /\ v.side[s] = "open"
        /\ f \in BodyOf(s) => w.side[s] \in {"open", "local"}
        /\ v.side[s] = "idle" <=> w.side[s] = "idle" /\ f # <<"request", s>>
  BY WireMoves
<1>2. /\ n \in Nat /\ DOMAIN q = 1 .. n /\ DOMAIN r = 1 .. n + 1 /\ r[n + 1] = f
      /\ \A i \in 1 .. n : r[i] = q[i] /\ i \in 1 .. n + 1 /\ i < n + 1
      /\ \A i \in 1 .. n + 1 : i = n + 1 \/ i \in 1 .. n
      /\ n + 1 \in 1 .. n + 1 /\ n + 1 \notin 1 .. n
  BY FramesGrow
<1>. HIDE DEF v, r, n
<1>3. ASSUME NEW s \in Streams
      PROVE  /\ v.side[s] = "idle" =>
                  t[s] = "none" /\ \A i \in DOMAIN r : r[i] \notin BodyOf(s) \cup {<<"request", s>>}
             /\ v.side[s] # "idle" /\ t[s] = "none" => \E i \in DOMAIN r : r[i] = <<"request", s>>
             /\ \A i \in DOMAIN r : r[i] = <<"request", s>> =>
                  t[s] = "none" /\ \A j \in DOMAIN r : r[j] = <<"request", s>> => j = i
             /\ \A i \in DOMAIN r : r[i] \in BodyOf(s) /\ t[s] = "none" =>
                  \E j \in DOMAIN r : j < i /\ r[j] = <<"request", s>>
  <2>0. <<"request", s>> \notin BodyOf(s)
    BY DEF BodyOf
  <2>1. /\ w.side[s] = "idle" =>
              t[s] = "none" /\ \A i \in DOMAIN q : q[i] \notin BodyOf(s) \cup {<<"request", s>>}
        /\ w.side[s] # "idle" /\ t[s] = "none" => \E i \in DOMAIN q : q[i] = <<"request", s>>
        /\ \A i \in DOMAIN q : q[i] = <<"request", s>> =>
              t[s] = "none" /\ \A j \in DOMAIN q : q[j] = <<"request", s>> => j = i
        /\ \A i \in DOMAIN q : q[i] \in BodyOf(s) /\ t[s] = "none" =>
              \E j \in DOMAIN q : j < i /\ q[j] = <<"request", s>>
    BY DEF OpenedOnce
  <2>2. ASSUME v.side[s] = "idle"
        PROVE  t[s] = "none" /\ \A i \in DOMAIN r : r[i] \notin BodyOf(s) \cup {<<"request", s>>}
    BY <1>1, <1>2, <2>1, <2>2
  <2>3. ASSUME v.side[s] # "idle", t[s] = "none" PROVE \E i \in DOMAIN r : r[i] = <<"request", s>>
    BY <1>1, <1>2, <2>1, <2>3
  <2>4. ASSUME NEW i \in DOMAIN r, r[i] = <<"request", s>>
        PROVE  t[s] = "none" /\ \A j \in DOMAIN r : r[j] = <<"request", s>> => j = i
    <3>1. CASE i \in 1 .. n
      <4>1. t[s] = "none" /\ w.side[s] # "idle" /\ f # <<"request", s>>
        BY <1>1, <1>2, <2>1, <2>4, <3>1
      <4>. QED
        BY <1>2, <2>1, <2>4, <3>1, <4>1
    <3>2. CASE i = n + 1
      <4>1. w.side[s] = "idle"
        BY <1>1, <1>2, <2>4, <3>2
      <4>. QED
        BY <1>2, <2>1, <2>4, <3>2, <4>1
    <3>. QED
      BY <1>2, <2>4, <3>1, <3>2
  <2>5. ASSUME NEW i \in DOMAIN r, r[i] \in BodyOf(s), t[s] = "none"
        PROVE  \E j \in DOMAIN r : j < i /\ r[j] = <<"request", s>>
    <3>1. CASE i \in 1 .. n
      BY <1>2, <2>1, <2>5, <3>1
    <3>2. CASE i = n + 1
      <4>1. w.side[s] # "idle"
        BY <1>1, <1>2, <2>5, <3>2
      <4>2. PICK j \in DOMAIN q : q[j] = <<"request", s>>
        BY <2>1, <2>5, <4>1
      <4>. QED
        BY <1>2, <3>2, <4>2
    <3>. QED
      BY <1>2, <2>5, <3>1, <3>2
  <2>. QED
    BY <2>2, <2>3, <2>4, <2>5
<1>4. OpenedOnce(v, r, t)
  BY <1>3 DEF OpenedOnce
<1>. QED
  BY <1>4 DEF v, r

LEMMA FeedEnds ==
  ASSUME NEW w \in H2Conns, NEW q \in Seq(Frames), NEW u, NEW R, NEW f \in Frames, Accepted(f, w),
         EndedOnce(w, q, u, R)
  PROVE  EndedOnce(Applied(f, w), Append(q, f), u, R)
<1>. DEFINE v == Applied(f, w)
            r == Append(q, f)
            n == Len(q)
<1>1. \A s \in Streams :
        /\ f \in BodyOf(s) => w.side[s] \in {"open", "local"}
        /\ f = <<"end", s>> => v.side[s] \in {"remote", "closed"}
        /\ w.side[s] \in {"remote", "closed"} => v.side[s] \in {"remote", "closed"}
  BY WireMoves
<1>2. /\ n \in Nat /\ DOMAIN q = 1 .. n /\ DOMAIN r = 1 .. n + 1 /\ r[n + 1] = f
      /\ \A i \in 1 .. n : r[i] = q[i] /\ i <= n + 1
      /\ \A i \in 1 .. n + 1 : i <= n + 1 /\ (i = n + 1 \/ i \in 1 .. n)
  BY FramesGrow
<1>. HIDE DEF v, r, n
<1>3. ASSUME NEW s \in Streams
      PROVE  /\ \A i \in DOMAIN r : r[i] = <<"end", s>> =>
                   /\ v.side[s] \in {"remote", "closed"}
                   /\ \A j \in DOMAIN r : r[j] \in BodyOf(s) => j <= i
             /\ \A k \in DOMAIN u[s] : u[s][k] = "end" =>
                   /\ v.side[s] \in {"remote", "closed"} /\ k = Len(u[s])
                   /\ \A i \in DOMAIN r : r[i] \notin BodyOf(s)
             /\ s \in R => /\ v.side[s] \in {"remote", "closed"} /\ u[s] = <<>>
                           /\ \A i \in DOMAIN r : r[i] \notin BodyOf(s)
  <2>0. <<"end", s>> \in BodyOf(s)
    BY DEF BodyOf
  <2>1. /\ \A i \in DOMAIN q : q[i] = <<"end", s>> =>
              /\ w.side[s] \in {"remote", "closed"}
              /\ \A j \in DOMAIN q : q[j] \in BodyOf(s) => j <= i
        /\ \A k \in DOMAIN u[s] : u[s][k] = "end" =>
              /\ w.side[s] \in {"remote", "closed"} /\ k = Len(u[s])
              /\ \A i \in DOMAIN q : q[i] \notin BodyOf(s)
        /\ s \in R => /\ w.side[s] \in {"remote", "closed"} /\ u[s] = <<>>
                      /\ \A i \in DOMAIN q : q[i] \notin BodyOf(s)
    BY DEF EndedOnce
  <2>2. ASSUME w.side[s] \in {"remote", "closed"}
        PROVE  f \notin BodyOf(s) /\ v.side[s] \in {"remote", "closed"}
    BY <1>1, <2>2
  <2>3. ASSUME NEW i \in DOMAIN r, r[i] = <<"end", s>>
        PROVE  v.side[s] \in {"remote", "closed"} /\ \A j \in DOMAIN r : r[j] \in BodyOf(s) => j <= i
    <3>1. CASE i \in 1 .. n
      BY <1>2, <2>1, <2>2, <2>3, <3>1
    <3>2. CASE i = n + 1
      BY <1>1, <1>2, <2>3, <3>2
    <3>. QED
      BY <1>2, <2>3, <3>1, <3>2
  <2>. QED
    BY <1>2, <2>1, <2>2, <2>3
<1>4. EndedOnce(v, r, u, R)
  BY <1>3 DEF EndedOnce
<1>. QED
  BY <1>4 DEF v, r

LEMMA FeedCredits ==
  ASSUME NEW w \in H2Conns, NEW q \in Seq(Frames), NEW u, NEW t, NEW R, NEW f \in Frames, Accepted(f, w),
         CreditKept(w, q, u, t, R)
  PROVE  CreditKept(Applied(f, w), Append(q, f), u, t, R)
<1>. DEFINE v == Applied(f, w)
            r == Append(q, f)
<1>1. v.credit = (IF f[1] = "data" THEN w.credit - 1 ELSE w.credit) /\ w.credit \in Nat
  BY WireMoves DEF H2Conns, H2Fields
<1>2. DueChunks(q) \in Nat /\ DueChunks(r) = DueChunks(q) + IF f[1] = "data" THEN 1 ELSE 0
  BY DueGrows
<1>3. Cardinality(HeldChunks(u)) \in Nat
  BY FS_CardinalityType DEF CreditKept
<1>. HIDE DEF v, r
<1>4. v.credit + DueChunks(r) = w.credit + DueChunks(q)
  BY <1>1, <1>2
<1>5. CreditKept(v, r, u, t, R)
  BY <1>4 DEF CreditKept
<1>. QED
  BY <1>5 DEF v, r

LEMMA FeedWakes ==
  ASSUME NEW w \in H2Conns, NEW q \in Seq(Frames), NEW t, NEW d, NEW ended, NEW f \in Frames, Accepted(f, w),
         WokenUp(w, q, t, d, ended)
  PROVE  WokenUp(Applied(f, w), Append(q, f), t, d, ended)
<1>. DEFINE v == Applied(f, w)
            r == Append(q, f)
            n == Len(q)
<1>1. \A s \in Streams : RoomOf(w, s) <= 0 => RoomOf(v, s) <= 0 \/ Wakes(f, s)
  BY WireMoves
<1>2. /\ n \in Nat /\ DOMAIN q = 1 .. n /\ DOMAIN r = 1 .. n + 1 /\ r[n + 1] = f /\ n + 1 \in 1 .. n + 1
      /\ \A i \in 1 .. n : r[i] = q[i] /\ i \in 1 .. n + 1
  BY FramesGrow
<1>. HIDE DEF v, r, n
<1>3. WokenUp(v, r, t, d, ended)
  BY <1>1, <1>2 DEF WokenUp
<1>. QED
  BY <1>3 DEF v, r

-----------------------------------------------------------------------------
(* What handling a frame does: it opens a stream, wakes a sender, puts a part *)
(* of a body in a queue, or cancels a task.                                   *)
Handlings == [table : SUBSET Streams, task : [Streams -> Kinds], condemned : SUBSET Streams,
              unread : [Streams -> Seq({"data", "end"})], resets : Nat, ending : BOOLEAN]

LEMMA HandlingMoves ==
  ASSUME NEW t \in Handlings, NEW f \in Frames
  PROVE  LET v == Dispatched(f, t)
         IN  /\ v \in Handlings
             /\ \A s \in Streams :
                  /\ f = <<"request", s>> => v.task[s] = "created"
                  /\ f # <<"request", s>> => v.task[s] = t.task[s] \/ (t.task[s] = "parked" /\ v.task[s] = "sending")
                  /\ Wakes(f, s) /\ s \in t.table => v.task[s] # "parked"
                  /\ s \in v.table <=> s \in t.table \/ f = <<"request", s>>
                  /\ f \in BodyOf(s) /\ s \in t.table => v.unread[s] = Append(t.unread[s], f[1])
                  /\ f \notin BodyOf(s) \/ s \notin t.table => v.unread[s] = t.unread[s]
             /\ t.condemned \subseteq v.condemned
             /\ t.ending => v.ending
             /\ (t.resets > MaxStreamResets => t.ending) => (v.resets > MaxStreamResets => v.ending)
<1>. DEFINE v == Dispatched(f, t)
<1>1. /\ t.table \in SUBSET Streams /\ t.task \in [Streams -> Kinds] /\ t.condemned \in SUBSET Streams
      /\ t.unread \in [Streams -> Seq({"data", "end"})] /\ t.resets \in Nat /\ t.ending \in BOOLEAN
  BY DEF Handlings
<1>2. PICK kind, x : f = <<kind, x>> /\ f[1] = kind /\ f[2] = x
  BY FrameIs
<1>3. CASE kind = "request"
  <2>1. x \in Streams /\ v = [t EXCEPT !.table = t.table \cup {x}, !.task = [t.task EXCEPT ![x] = "created"]]
    BY <1>2, <1>3, FrameIs DEF Dispatched
  <2>. HIDE DEF v
  <2>2. /\ v.table = t.table \cup {x} /\ v.task = [t.task EXCEPT ![x] = "created"] /\ v.condemned = t.condemned
        /\ v.unread = t.unread /\ v.resets = t.resets /\ v.ending = t.ending
    BY <1>1, <2>1 DEF Handlings
  <2>3. v \in Handlings
    BY <1>1, <2>1 DEF Handlings, Kinds
  <2>. QED
    BY <1>1, <1>2, <1>3, <2>1, <2>2, <2>3 DEF BodyOf, Wakes, Settings, v
<1>4. CASE kind \in {"data", "end"} /\ x \in t.table
  <2>1. x \in Streams /\ v = [t EXCEPT !.unread = [t.unread EXCEPT ![x] = Append(t.unread[x], kind)]]
    BY <1>2, <1>4, FrameIs DEF Dispatched
  <2>. HIDE DEF v
  <2>2. /\ v.table = t.table /\ v.task = t.task /\ v.condemned = t.condemned
        /\ v.unread = [t.unread EXCEPT ![x] = Append(t.unread[x], kind)] /\ v.resets = t.resets /\ v.ending = t.ending
    BY <1>1, <2>1 DEF Handlings
  <2>3. v \in Handlings
    <3>1. Append(t.unread[x], kind) \in Seq({"data", "end"})
      BY <1>1, <1>4, <2>1
    <3>2. [t.unread EXCEPT ![x] = Append(t.unread[x], kind)] \in [Streams -> Seq({"data", "end"})]
      BY <1>1, <3>1
    <3>. QED
      BY <1>1, <2>1, <3>2 DEF Handlings
  <2>. QED
    BY <1>1, <1>2, <1>4, <2>1, <2>2, <2>3 DEF BodyOf, Wakes, Settings, v
<1>5. CASE kind \in {"data", "end"} /\ x \notin t.table
  <2>1. v = t
    BY <1>2, <1>5, FrameIs DEF Dispatched
  <2>. HIDE DEF v
  <2>. QED
    BY <1>1, <1>2, <1>5, <2>1 DEF BodyOf, Wakes, Settings, v
<1>6. CASE kind = "reset"
  <2>1. /\ x \in Streams
        /\ v = [t EXCEPT !.resets = t.resets + 1, !.condemned = t.condemned \cup ({x} \cap t.table),
                         !.ending = t.ending \/ t.resets + 1 > MaxStreamResets]
    BY <1>2, <1>6, FrameIs DEF Dispatched
  <2>. HIDE DEF v
  <2>2. /\ v.table = t.table /\ v.task = t.task /\ v.condemned = t.condemned \cup ({x} \cap t.table)
        /\ v.unread = t.unread /\ v.resets = t.resets + 1
        /\ v.ending = (t.ending \/ t.resets + 1 > MaxStreamResets)
    BY <1>1, <2>1 DEF Handlings
  <2>3. v \in Handlings
    <3>1. \A m \in Nat, D \in SUBSET Streams, e \in BOOLEAN :
            [t EXCEPT !.resets = m, !.condemned = D, !.ending = e] \in Handlings
      BY <1>1 DEF Handlings
    <3>2. t.resets + 1 \in Nat /\ t.condemned \cup ({x} \cap t.table) \in SUBSET Streams
      BY <1>1
    <3>. QED
      BY <2>1, <3>1, <3>2
  <2>. QED
    BY <1>1, <1>2, <1>6, <2>1, <2>2, <2>3 DEF BodyOf, Wakes, Settings, v
<1>7. CASE kind = "goaway"
  <2>1. v = [t EXCEPT !.ending = TRUE]
    BY <1>2, <1>7, FrameIs DEF Dispatched
  <2>. HIDE DEF v
  <2>2. /\ v.table = t.table /\ v.task = t.task /\ v.condemned = t.condemned
        /\ v.unread = t.unread /\ v.resets = t.resets /\ v.ending
    BY <1>1, <2>1 DEF Handlings
  <2>3. v \in Handlings
    <3>1. \A e \in BOOLEAN : [t EXCEPT !.ending = e] \in Handlings
      BY <1>1 DEF Handlings
    <3>. QED
      BY <2>1, <3>1
  <2>. QED
    BY <1>1, <1>2, <1>7, <2>1, <2>2, <2>3 DEF BodyOf, Wakes, Settings, v
<1>8. CASE kind \in {"window", "connWindow"} \cup Settings
  <2>. DEFINE up == [s \in Streams |-> IF s \in Awakened(f, t.table) /\ t.task[s] = "parked" THEN "sending" ELSE t.task[s]]
  <2>1. v = [t EXCEPT !.task = up]
    BY <1>2, <1>8, FrameIs DEF Dispatched, Settings
  <2>2. up \in [Streams -> Kinds]
    BY <1>1 DEF Kinds
  <2>3. \A s \in Streams : up[s] = t.task[s] \/ (t.task[s] = "parked" /\ up[s] = "sending")
    OBVIOUS
  <2>4. ASSUME NEW s \in Streams, Wakes(f, s), s \in t.table PROVE up[s] # "parked"
    <3>1. s \in Awakened(f, t.table)
      BY <1>2, <1>8, <2>4, FrameIs DEF Awakened, Wakes, Settings
    <3>. QED
      BY <3>1
  <2>. HIDE DEF v, up
  <2>5. /\ v.table = t.table /\ v.task = up /\ v.condemned = t.condemned
        /\ v.unread = t.unread /\ v.resets = t.resets /\ v.ending = t.ending
    BY <1>1, <2>1 DEF Handlings
  <2>6. v \in Handlings
    BY <1>1, <2>1, <2>2 DEF Handlings
  <2>. QED
    BY <1>1, <1>2, <1>8, <2>3, <2>4, <2>5, <2>6 DEF BodyOf, Settings, v
<1>. QED
  BY <1>2, <1>3, <1>4, <1>5, <1>6, <1>7, <1>8, FrameIs DEF Settings
-----------------------------------------------------------------------------
(* What one frame, handled, does to tasks and to queues.                      *)
Starts(f, t, t2) ==
    \A s \in Streams :
        /\ f = <<"request", s>> => t2[s] = "created"
        /\ f # <<"request", s>> => t2[s] = t[s] \/ (t[s] = "parked" /\ t2[s] = "sending")

Queues(f, T, u, u2) ==
    \A s \in Streams :
        /\ f \in BodyOf(s) /\ s \in T => u2[s] = Append(u[s], f[1])
        /\ f \notin BodyOf(s) \/ s \notin T => u2[s] = u[s]

SameOver(t, t2) == \A s \in Streams : t2[s] = "over" <=> t[s] = "over"

(* What the handling of the first frame leaves of the invariant.              *)
LEMMA HandleOpens ==
  ASSUME NEW w, NEW q \in Seq(Frames), q # <<>>, NEW t, NEW t2, OpenedOnce(w, q, t),
         Starts(q[1], t, t2)
  PROVE  OpenedOnce(w, Tail(q), t2) /\ SameOver(t, t2)
<1>. DEFINE r == Tail(q)
<1>1. /\ 1 \in DOMAIN q /\ DOMAIN q \subseteq Nat /\ DOMAIN r \subseteq Nat
      /\ \A i \in DOMAIN r : i + 1 \in DOMAIN q /\ r[i] = q[i + 1] /\ i > 0
      /\ \A i \in DOMAIN q : i = 1 \/ (i - 1 \in DOMAIN r /\ i > 1 /\ r[i - 1] = q[i])
  BY FramesGive
<1>. HIDE DEF r
<1>2. ASSUME NEW s \in Streams
      PROVE  /\ w.side[s] = "idle" =>
                  t2[s] = "none" /\ \A i \in DOMAIN r : r[i] \notin BodyOf(s) \cup {<<"request", s>>}
             /\ w.side[s] # "idle" /\ t2[s] = "none" => \E i \in DOMAIN r : r[i] = <<"request", s>>
             /\ \A i \in DOMAIN r : r[i] = <<"request", s>> =>
                  t2[s] = "none" /\ \A j \in DOMAIN r : r[j] = <<"request", s>> => j = i
             /\ \A i \in DOMAIN r : r[i] \in BodyOf(s) /\ t2[s] = "none" =>
                  \E j \in DOMAIN r : j < i /\ r[j] = <<"request", s>>
             /\ t2[s] = "over" <=> t[s] = "over"
  <2>0. /\ q[1] = <<"request", s>> => t2[s] = "created"
        /\ q[1] # <<"request", s>> => t2[s] = t[s] \/ (t[s] = "parked" /\ t2[s] = "sending")
    BY DEF Starts
  <2>1. /\ w.side[s] = "idle" =>
              t[s] = "none" /\ \A i \in DOMAIN q : q[i] \notin BodyOf(s) \cup {<<"request", s>>}
        /\ w.side[s] # "idle" /\ t[s] = "none" => \E i \in DOMAIN q : q[i] = <<"request", s>>
        /\ \A i \in DOMAIN q : q[i] = <<"request", s>> =>
              t[s] = "none" /\ \A j \in DOMAIN q : q[j] = <<"request", s>> => j = i
        /\ \A i \in DOMAIN q : q[i] \in BodyOf(s) /\ t[s] = "none" =>
              \E j \in DOMAIN q : j < i /\ q[j] = <<"request", s>>
    BY DEF OpenedOnce
  <2>2. t2[s] = "none" => t[s] = "none" /\ q[1] # <<"request", s>>
    BY <2>0
  <2>3. ASSUME w.side[s] = "idle"
        PROVE  t2[s] = "none" /\ \A i \in DOMAIN r : r[i] \notin BodyOf(s) \cup {<<"request", s>>}
    <3>1. t[s] = "none" /\ \A i \in DOMAIN q : q[i] \notin BodyOf(s) \cup {<<"request", s>>}
      BY <2>1, <2>3
    <3>2. t2[s] = "none"
      <4>1. q[1] # <<"request", s>>
        BY <1>1, <3>1
      <4>. QED
        BY <2>0, <3>1, <4>1
    <3>. QED
      BY <1>1, <3>1, <3>2
  <2>4. ASSUME w.side[s] # "idle", t2[s] = "none" PROVE \E i \in DOMAIN r : r[i] = <<"request", s>>
    <3>1. PICK i \in DOMAIN q : q[i] = <<"request", s>>
      BY <2>1, <2>2, <2>4
    <3>2. i # 1
      BY <2>2, <2>4, <3>1
    <3>3. i - 1 \in DOMAIN r /\ r[i - 1] = <<"request", s>>
      BY <1>1, <3>1, <3>2
    <3>. QED
      BY <3>3
  <2>5. ASSUME NEW i \in DOMAIN r, r[i] = <<"request", s>>
        PROVE  t2[s] = "none" /\ \A j \in DOMAIN r : r[j] = <<"request", s>> => j = i
    <3>1. i + 1 \in DOMAIN q /\ q[i + 1] = <<"request", s>> /\ i \in Nat /\ i > 0
      BY <1>1, <2>5
    <3>2. t[s] = "none" /\ \A j \in DOMAIN q : q[j] = <<"request", s>> => j = i + 1
      BY <2>1, <3>1
    <3>3. q[1] # <<"request", s>>
      BY <1>1, <3>1, <3>2
    <3>4. t2[s] = "none"
      BY <2>0, <3>2, <3>3
    <3>5. ASSUME NEW j \in DOMAIN r, r[j] = <<"request", s>> PROVE j = i
      <4>1. j + 1 = i + 1 /\ j \in Nat
        BY <1>1, <3>2, <3>5
      <4>. QED
        BY <3>1, <4>1
    <3>. QED
      BY <3>4, <3>5
  <2>6. ASSUME NEW i \in DOMAIN r, r[i] \in BodyOf(s), t2[s] = "none"
        PROVE  \E j \in DOMAIN r : j < i /\ r[j] = <<"request", s>>
    <3>1. i + 1 \in DOMAIN q /\ q[i + 1] \in BodyOf(s) /\ i \in Nat
      BY <1>1, <2>6
    <3>2. PICK j \in DOMAIN q : j < i + 1 /\ q[j] = <<"request", s>>
      BY <2>1, <2>2, <2>6, <3>1
    <3>3. j - 1 \in DOMAIN r /\ r[j - 1] = <<"request", s>> /\ j \in Nat
      BY <1>1, <2>2, <2>6, <3>2
    <3>4. j - 1 < i
      BY <3>1, <3>2, <3>3
    <3>. QED
      BY <3>3, <3>4
  <2>7. t2[s] = "over" <=> t[s] = "over"
    <3>1. CASE q[1] = <<"request", s>>
      BY <1>1, <2>0, <2>1, <3>1
    <3>2. CASE q[1] # <<"request", s>>
      <4>1. t2[s] = t[s] \/ (t[s] = "parked" /\ t2[s] = "sending")
        BY <2>0, <3>2
      <4>. QED
        BY <4>1
    <3>. QED
      BY <3>1, <3>2
  <2>. QED
    BY <2>3, <2>4, <2>5, <2>6, <2>7
<1>3. OpenedOnce(w, r, t2)
  BY <1>2 DEF OpenedOnce
<1>4. SameOver(t, t2)
  BY <1>2 DEF SameOver
<1>. QED
  BY <1>3, <1>4 DEF r

LEMMA HandleEnds ==
  ASSUME NEW w, NEW q \in Seq(Frames), q # <<>>, NEW R, NEW T,
         NEW u \in [Streams -> Seq({"data", "end"})], NEW u2, EndedOnce(w, q, u, R),
         Queues(q[1], T, u, u2)
  PROVE  EndedOnce(w, Tail(q), u2, R)
<1>. DEFINE r == Tail(q)
<1>1. /\ 1 \in DOMAIN q /\ DOMAIN q \subseteq Nat /\ DOMAIN r \subseteq Nat
      /\ \A i \in DOMAIN r : i + 1 \in DOMAIN q /\ r[i] = q[i + 1] /\ i > 0
  BY FramesGive
<1>. HIDE DEF r
<1>2. ASSUME NEW s \in Streams
      PROVE  /\ \A i \in DOMAIN r : r[i] = <<"end", s>> =>
                   /\ w.side[s] \in {"remote", "closed"}
                   /\ \A j \in DOMAIN r : r[j] \in BodyOf(s) => j <= i
             /\ \A k \in DOMAIN u2[s] : u2[s][k] = "end" =>
                   /\ w.side[s] \in {"remote", "closed"} /\ k = Len(u2[s])
                   /\ \A i \in DOMAIN r : r[i] \notin BodyOf(s)
             /\ s \in R => /\ w.side[s] \in {"remote", "closed"} /\ u2[s] = <<>>
                           /\ \A i \in DOMAIN r : r[i] \notin BodyOf(s)
  <2>0. /\ q[1] \in BodyOf(s) /\ s \in T => u2[s] = Append(u[s], q[1][1])
        /\ q[1] \notin BodyOf(s) \/ s \notin T => u2[s] = u[s]
    BY DEF Queues
  <2>1. /\ \A i \in DOMAIN q : q[i] = <<"end", s>> =>
              /\ w.side[s] \in {"remote", "closed"}
              /\ \A j \in DOMAIN q : q[j] \in BodyOf(s) => j <= i
        /\ \A k \in DOMAIN u[s] : u[s][k] = "end" =>
              /\ w.side[s] \in {"remote", "closed"} /\ k = Len(u[s])
              /\ \A i \in DOMAIN q : q[i] \notin BodyOf(s)
        /\ s \in R => /\ w.side[s] \in {"remote", "closed"} /\ u[s] = <<>>
                      /\ \A i \in DOMAIN q : q[i] \notin BodyOf(s)
    BY DEF EndedOnce
  <2>2. ASSUME NEW i \in DOMAIN r, r[i] = <<"end", s>>
        PROVE  w.side[s] \in {"remote", "closed"} /\ \A j \in DOMAIN r : r[j] \in BodyOf(s) => j <= i
    <3>1. i + 1 \in DOMAIN q /\ q[i + 1] = <<"end", s>> /\ i \in Nat
      BY <1>1, <2>2
    <3>2. ASSUME NEW j \in DOMAIN r, r[j] \in BodyOf(s) PROVE j <= i
      <4>1. j + 1 <= i + 1 /\ j \in Nat
        BY <1>1, <2>1, <3>1, <3>2
      <4>. QED
        BY <3>1, <4>1
    <3>. QED
      BY <2>1, <3>1, <3>2
  <2>3. ASSUME NEW k \in DOMAIN u2[s], u2[s][k] = "end"
        PROVE  /\ w.side[s] \in {"remote", "closed"} /\ k = Len(u2[s])
               /\ \A i \in DOMAIN r : r[i] \notin BodyOf(s)
    <3>1. CASE u2[s] = u[s]
      BY <1>1, <2>1, <2>3, <3>1
    <3>2. CASE u2[s] # u[s]
      <4>1. q[1] \in BodyOf(s) /\ u2[s] = Append(u[s], q[1][1])
        BY <2>0, <3>2
      <4>2. u[s] \in Seq({"data", "end"}) /\ q[1][1] \in {"data", "end"} /\ q[1] = <<q[1][1], s>>
        BY <4>1 DEF BodyOf
      <4>3. /\ Len(u[s]) \in Nat /\ DOMAIN u[s] = 1 .. Len(u[s]) /\ DOMAIN u2[s] = 1 .. Len(u[s]) + 1
            /\ Len(u2[s]) = Len(u[s]) + 1 /\ u2[s][Len(u[s]) + 1] = q[1][1]
            /\ \A i \in 1 .. Len(u[s]) : u2[s][i] = u[s][i]
        BY <4>1, <4>2
      <4>4. k \notin 1 .. Len(u[s])
        BY <1>1, <2>1, <2>3, <4>1, <4>3
      <4>5. k = Len(u[s]) + 1
        BY <2>3, <4>3, <4>4
      <4>6. q[1] = <<"end", s>>
        BY <2>3, <4>2, <4>3, <4>5
      <4>7. w.side[s] \in {"remote", "closed"} /\ \A j \in DOMAIN q : q[j] \in BodyOf(s) => j <= 1
        BY <1>1, <2>1, <4>6
      <4>8. ASSUME NEW i \in DOMAIN r, r[i] \in BodyOf(s) PROVE FALSE
        <5>1. i + 1 <= 1 /\ i \in Nat /\ i > 0
          BY <1>1, <4>7, <4>8
        <5>. QED
          BY <5>1
      <4>. QED
        BY <4>3, <4>5, <4>7, <4>8
    <3>. QED
      BY <3>1, <3>2
  <2>4. ASSUME s \in R
        PROVE  /\ w.side[s] \in {"remote", "closed"} /\ u2[s] = <<>>
               /\ \A i \in DOMAIN r : r[i] \notin BodyOf(s)
    <3>1. q[1] \notin BodyOf(s)
      BY <1>1, <2>1, <2>4
    <3>. QED
      BY <1>1, <2>0, <2>1, <2>4, <3>1
  <2>. QED
    BY <2>2, <2>3, <2>4
<1>3. EndedOnce(w, r, u2, R)
  BY <1>2 DEF EndedOnce
<1>. QED
  BY <1>3 DEF r

LEMMA HandleWakes ==
  ASSUME NEW w, NEW q \in Seq(Frames), q # <<>>, NEW t, NEW t2, NEW T, NEW d, NEW d2, NEW ended, NEW ended2,
         WokenUp(w, q, t, d, ended), Tabled(T, t, d), d \subseteq d2, ended => ended2,
         Starts(q[1], t, t2), \A s \in Streams : Wakes(q[1], s) /\ s \in T => t2[s] # "parked"
  PROVE  WokenUp(w, Tail(q), t2, d2, ended2)
<1>. DEFINE r == Tail(q)
<1>1. \A i \in DOMAIN q : i = 1 \/ (i - 1 \in DOMAIN r /\ i > 1 /\ r[i - 1] = q[i])
  BY FramesGive
<1>. HIDE DEF r
<1>2. ASSUME NEW s \in Streams, t2[s] = "parked", ~ended2
      PROVE  RoomOf(w, s) <= 0 \/ s \in d2 \/ \E i \in DOMAIN r : Wakes(r[i], s)
  <2>1. t[s] = "parked" /\ ~ended /\ s \in T
    <3>1. q[1] # <<"request", s>>
      BY <1>2 DEF Starts
    <3>2. t[s] = "parked" /\ ~ended
      BY <1>2, <3>1 DEF Starts
    <3>. QED
      BY <3>2 DEF Tabled, Working
  <2>2. ~Wakes(q[1], s)
    BY <1>2, <2>1
  <2>3. CASE \E i \in DOMAIN q : Wakes(q[i], s)
    <3>1. PICK i \in DOMAIN q : Wakes(q[i], s)
      BY <2>3
    <3>. QED
      BY <1>1, <2>2, <3>1
  <2>. QED
    BY <2>1, <2>3 DEF WokenUp
<1>3. WokenUp(w, r, t2, d2, ended2)
  BY <1>2 DEF WokenUp
<1>. QED
  BY <1>3 DEF r

LEMMA HandleTables ==
  ASSUME NEW q \in Seq(Frames), NEW t, NEW t2, NEW T, NEW T2, NEW d, NEW d2, Tabled(T, t, d), d \subseteq d2,
         Starts(q[1], t, t2), \A s \in Streams : s \in T2 <=> s \in T \/ q[1] = <<"request", s>>
  PROVE  Tabled(T2, t2, d2)
BY DEF Tabled, Working, Starts
-----------------------------------------------------------------------------
(* Credit.  A queue with no end of a body in it holds chunks and nothing else. *)
LEMMA QueueShort ==
  ASSUME NEW u \in [Streams -> Seq({"data", "end"})], NEW s \in Streams, IsFiniteSet(HeldChunks(u)),
         Len(u[s]) <= ReceiveWindow + 1, \A k \in DOMAIN u[s] : u[s][k] # "end"
  PROVE  Len(u[s]) <= Cardinality(HeldChunks(u)) /\ Cardinality(HeldChunks(u)) \in Nat
<1>. DEFINE n == Len(u[s])
            g == [i \in 1 .. n |-> <<s, i>>]
            H == HeldChunks(u)
<1>1. n \in Nat /\ DOMAIN u[s] = 1 .. n /\ ReceiveWindow \in Nat /\ n <= ReceiveWindow + 1
  BY H2Assumption
<1>2. ASSUME NEW i \in 1 .. n PROVE <<s, i>> \in H
  <2>1. u[s][i] \in {"data", "end"} /\ i \in 1 .. ReceiveWindow + 1
    BY <1>1, <1>2
  <2>2. u[s][i] = "data"
    BY <1>1, <1>2, <2>1
  <2>. QED
    BY <1>1, <1>2, <2>1, <2>2 DEF HeldChunks
<1>3. IsFiniteSet(1 .. n) /\ Cardinality(1 .. n) = n
  <2>. HIDE DEF n
  <2>1. IsFiniteSet(1 .. n) /\ Cardinality(1 .. n) = IF 1 > n THEN 0 ELSE n - 1 + 1
    BY <1>1, FS_Interval
  <2>. QED
    BY <1>1, <2>1
<1>. HIDE DEF H, n
<1>4. g \in Injection(1 .. n, H)
  BY <1>2 DEF Injection, IsInjective
<1>5. IsFiniteSet(H) /\ Cardinality(H) \in Nat
  BY FS_CardinalityType DEF H
<1>6. Cardinality(1 .. n) <= Cardinality(H)
  BY <1>4, <1>5, FS_Injection
<1>. QED
  BY <1>3, <1>5, <1>6 DEF H, n

(* A part of a body put in a queue that has no end yet.                       *)
LEMMA QueueTakes ==
  ASSUME NEW u \in [Streams -> Seq({"data", "end"})], NEW u2, NEW s \in Streams, NEW what \in {"data", "end"},
         IsFiniteSet(HeldChunks(u)), Len(u[s]) <= ReceiveWindow, u2[s] = Append(u[s], what),
         \A r \in Streams : r # s => u2[r] = u[r]
  PROVE  /\ IsFiniteSet(HeldChunks(u2)) /\ Cardinality(HeldChunks(u)) \in Nat
         /\ Cardinality(HeldChunks(u2)) = Cardinality(HeldChunks(u)) + IF what = "data" THEN 1 ELSE 0
         /\ Len(u2[s]) = Len(u[s]) + 1 /\ Len(u[s]) \in Nat
<1>. DEFINE n == Len(u[s])
<1>0. u[s] \in Seq({"data", "end"})
  OBVIOUS
<1>1. /\ n \in Nat /\ DOMAIN u[s] = 1 .. n /\ DOMAIN u2[s] = 1 .. n + 1 /\ u2[s][n + 1] = what
      /\ \A i \in 1 .. n : u2[s][i] = u[s][i] /\ i \in 1 .. n + 1
      /\ \A i \in 1 .. n + 1 : i \in 1 .. n \/ i = n + 1
      /\ Len(u2[s]) = n + 1 /\ n + 1 \in 1 .. ReceiveWindow + 1 /\ n + 1 \notin 1 .. n /\ n + 1 \in 1 .. n + 1
  BY <1>0, H2Assumption
<1>. HIDE DEF n
<1>2. <<s, n + 1>> \notin HeldChunks(u)
  BY <1>1 DEF HeldChunks
<1>3. HeldChunks(u2) = IF what = "data" THEN HeldChunks(u) \cup {<<s, n + 1>>} ELSE HeldChunks(u)
  <2>1. ASSUME NEW c \in Streams \X (1 .. ReceiveWindow + 1), c # <<s, n + 1>>
        PROVE  c \in HeldChunks(u2) <=> c \in HeldChunks(u)
    <3>1. PICK r \in Streams, i \in 1 .. ReceiveWindow + 1 : c = <<r, i>>
      OBVIOUS
    <3>2. (i \in DOMAIN u2[r] /\ u2[r][i] = "data") <=> (i \in DOMAIN u[r] /\ u[r][i] = "data")
      <4>1. CASE r = s
        BY <1>1, <2>1, <3>1, <4>1
      <4>2. CASE r # s
        BY <4>2
      <4>. QED
        BY <4>1, <4>2
    <3>. QED
      BY <3>1, <3>2 DEF HeldChunks
  <2>2. <<s, n + 1>> \in HeldChunks(u2) <=> what = "data"
    BY <1>1 DEF HeldChunks
  <2>3. \A c \in HeldChunks(u2) \cup HeldChunks(u) : c \in Streams \X (1 .. ReceiveWindow + 1)
    BY DEF HeldChunks
  <2>4. CASE what = "data"
    <3>1. \A c : c \in HeldChunks(u2) <=> c \in HeldChunks(u) \cup {<<s, n + 1>>}
      BY <2>1, <2>2, <2>3, <2>4
    <3>. QED
      BY <2>4, <3>1
  <2>5. CASE what # "data"
    <3>1. \A c : c \in HeldChunks(u2) <=> c \in HeldChunks(u)
      BY <1>2, <2>1, <2>2, <2>3, <2>5
    <3>. QED
      BY <2>5, <3>1
  <2>. QED
    BY <2>4, <2>5
<1>4. IsFiniteSet(HeldChunks(u) \cup {<<s, n + 1>>}) /\ Cardinality(HeldChunks(u) \cup {<<s, n + 1>>}) = Cardinality(HeldChunks(u)) + 1
      /\ Cardinality(HeldChunks(u)) \in Nat
  BY <1>2, FS_AddElement, FS_CardinalityType
<1>5. CASE what = "data"
  BY <1>1, <1>3, <1>4, <1>5 DEF n
<1>6. CASE what # "data"
  BY <1>1, <1>3, <1>4, <1>6 DEF n
<1>. QED
  BY <1>5, <1>6

LEMMA HandleCredits ==
  ASSUME NEW w \in H2Conns, NEW q \in Seq(Frames), q # <<>>, Len(q) <= 2, NEW t \in [Streams -> Kinds], NEW t2, NEW T,
         NEW d, NEW u \in [Streams -> Seq({"data", "end"})], NEW u2 \in [Streams -> Seq({"data", "end"})], NEW R,
         OpenedOnce(w, q, t), EndedOnce(w, q, u, R), CreditKept(w, q, u, t, R), Tabled(T, t, d),
         SameOver(t, t2), Queues(q[1], T, u, u2)
  PROVE  CreditKept(w, Tail(q), u2, t2, R)
<1>. DEFINE r == Tail(q)
            f == q[1]
            isSettled == \A s \in Streams : t[s] = "over" => s \in R
            settled2 == \A s \in Streams : t2[s] = "over" => s \in R
            H == Cardinality(HeldChunks(u))
<1>1. DueChunks(r) \in Nat /\ DueChunks(q) = DueChunks(r) + (IF f[1] = "data" THEN 1 ELSE 0) /\ f \in Frames /\ 1 \in DOMAIN q
  BY DueGives, FramesGive
<1>2. H \in Nat /\ w.credit \in Nat /\ ReceiveWindow \in Nat /\ (settled2 <=> isSettled)
  BY FS_CardinalityType, H2Assumption DEF CreditKept, H2Conns, H2Fields, SameOver
<1>3. /\ \A s \in Streams : Len(u[s]) <= ReceiveWindow + 1
      /\ IsFiniteSet(HeldChunks(u))
      /\ w.credit + DueChunks(q) + H <= ReceiveWindow
      /\ isSettled => w.credit + DueChunks(q) + H = ReceiveWindow
  BY DEF CreditKept
<1>. DEFINE due == DueChunks(q)
            left == DueChunks(r)
            one == IF f[1] = "data" THEN 1 ELSE 0
<1>0. /\ left \in Nat /\ due = left + one /\ one \in {0, 1} /\ (f[1] = "data" => one = 1) /\ (f[1] # "data" => one = 0)
      /\ w.credit \in Nat /\ H \in Nat /\ ReceiveWindow \in Nat /\ w.credit + due + H <= ReceiveWindow
  <2>1. one \in {0, 1} /\ (f[1] = "data" => one = 1) /\ (f[1] # "data" => one = 0)
    OBVIOUS
  <2>2. left \in Nat /\ due = left + one
    BY <1>1
  <2>3. w.credit \in Nat /\ H \in Nat /\ ReceiveWindow \in Nat /\ w.credit + due + H <= ReceiveWindow
    BY <1>2, <1>3
  <2>. HIDE DEF one, left, due, H
  <2>. QED
    BY <2>1, <2>2, <2>3
<1>. HIDE DEF r, isSettled, settled2, H, due, left, one
<1>4. CASE f[1] # "data" /\ u2 = u
  <2>1. left = due
    BY <1>0, <1>4
  <2>. QED
    BY <1>2, <1>3, <1>4, <2>1 DEF CreditKept, settled2, r, left, due, H
<1>5. CASE f[1] = "data" /\ u2 = u
  <2>1. PICK s \in Streams : f = <<"data", s>>
    <3>1. f = <<f[1], f[2]>> /\ f[2] \in Streams
      BY <1>1, <1>5, FrameIs
    <3>. QED
      BY <1>5, <3>1
  <2>2. f \in BodyOf(s)
    BY <2>1 DEF BodyOf
  <2>3. s \notin T
    <3>1. ASSUME s \in T PROVE FALSE
      <4>1. u[s] = Append(u[s], f[1]) /\ u[s] \in Seq({"data", "end"}) /\ f[1] \in {"data", "end"}
        BY <1>5, <2>2, <3>1 DEF Queues
      <4>2. Len(Append(u[s], f[1])) = Len(u[s]) + 1 /\ Len(u[s]) \in Nat
        BY <4>1
      <4>. QED
        BY <4>1, <4>2
    <3>. QED
      BY <3>1
  <2>4. t[s] # "none"
    <3>1. ASSUME t[s] = "none" PROVE FALSE
      <4>1. PICK j \in DOMAIN q : j < 1 /\ q[j] = <<"request", s>>
        BY <1>1, <2>2, <3>1 DEF OpenedOnce
      <4>. QED
        BY <4>1
    <3>. QED
      BY <3>1
  <2>5. t[s] = "over"
    BY <2>3, <2>4 DEF Tabled, Working, Kinds
  <2>6. s \notin R
    BY <1>1, <2>2 DEF EndedOnce
  <2>7. ~isSettled
    BY <2>5, <2>6 DEF isSettled
  <2>8. w.credit + left + H <= ReceiveWindow
    BY <1>0, SMTT(20)
  <2>9. ~settled2
    BY <1>2, <2>7
  <2>. QED
    BY <1>3, <1>5, <2>8, <2>9 DEF CreditKept, settled2, r, left, H
<1>6. CASE u2 # u
  <2>1. PICK s \in Streams : u2[s] # u[s]
    BY <1>6
  <2>2. f \in BodyOf(s) /\ s \in T /\ u2[s] = Append(u[s], f[1]) /\ f = <<f[1], s>> /\ f[1] \in {"data", "end"}
    BY <2>1 DEF BodyOf, Queues
  <2>3. \A x \in Streams : x # s => f \notin BodyOf(x)
    BY <2>2 DEF BodyOf
  <2>4. \A k \in DOMAIN u[s] : u[s][k] # "end"
    BY <1>1, <2>2 DEF EndedOnce
  <2>5. Len(u[s]) <= H
    BY <1>3, <2>4, QueueShort DEF H
  <2>6. Len(u[s]) \in Nat
    OBVIOUS
  <2>7. Len(u[s]) <= ReceiveWindow /\ (f[1] = "data" => Len(u[s]) + 1 <= ReceiveWindow)
    BY <1>0, <2>5, <2>6, SMTT(20)
  <2>8. /\ IsFiniteSet(HeldChunks(u2)) /\ Len(u2[s]) = Len(u[s]) + 1
        /\ Cardinality(HeldChunks(u2)) = H + one
    <3>. DEFINE what == f[1]
    <3>1. \A x \in Streams : x # s => u2[x] = u[x]
      BY <2>3 DEF Queues
    <3>2. what \in {"data", "end"} /\ u2[s] = Append(u[s], what) /\ one = IF what = "data" THEN 1 ELSE 0
      BY <2>2 DEF one
    <3>. HIDE DEF what
    <3>3. /\ IsFiniteSet(HeldChunks(u2)) /\ Len(u2[s]) = Len(u[s]) + 1
          /\ Cardinality(HeldChunks(u2)) = Cardinality(HeldChunks(u)) + IF what = "data" THEN 1 ELSE 0
      BY <1>3, <2>7, <3>1, <3>2, QueueTakes
    <3>. QED
      BY <3>2, <3>3 DEF H
  <2>9. w.credit + left + Cardinality(HeldChunks(u2)) = w.credit + due + H
    BY <1>0, <2>8
  <2>10. \A x \in Streams : Len(u2[x]) <= ReceiveWindow + 1
    <3>1. Len(u2[s]) <= ReceiveWindow + 1
      BY <1>0, <2>6, <2>7, <2>8
    <3>. QED
      BY <1>3, <2>3, <3>1 DEF Queues
  <2>. QED
    BY <1>2, <1>3, <2>8, <2>9, <2>10 DEF CreditKept, settled2, r, left, due, H
<1>. QED
  BY <1>4, <1>5, <1>6
-----------------------------------------------------------------------------
(* One frame, and one that is handled, as a whole.                            *)
Standing(w, q, t, u, R, d, ended) ==
    /\ OpenedOnce(w, q, t) /\ EndedOnce(w, q, u, R) /\ CreditKept(w, q, u, t, R) /\ WokenUp(w, q, t, d, ended)

StaysEnded(w, v) ==
    /\ w.lowered => v.lowered
    /\ \A s \in Streams :
        /\ w.side[s] \in {"local", "closed"} => v.side[s] \in {"local", "closed"}
        /\ v.side[s] = "idle" => w.side[s] = "idle"

LEMMA FrameFed ==
  ASSUME NEW w \in H2Conns, NEW q \in Seq(Frames), NEW t, NEW u, NEW R, NEW d, NEW ended, NEW f \in Frames,
         Accepted(f, w), Standing(w, q, t, u, R, d, ended)
  PROVE  /\ Applied(f, w) \in H2Conns /\ Append(q, f) \in Seq(Frames) /\ StaysEnded(w, Applied(f, w))
         /\ Standing(Applied(f, w), Append(q, f), t, u, R, d, ended)
<1>1. OpenedOnce(Applied(f, w), Append(q, f), t)
  BY FeedOpens DEF Standing
<1>2. EndedOnce(Applied(f, w), Append(q, f), u, R)
  BY FeedEnds DEF Standing
<1>3. CreditKept(Applied(f, w), Append(q, f), u, t, R)
  BY FeedCredits DEF Standing
<1>4. WokenUp(Applied(f, w), Append(q, f), t, d, ended)
  BY FeedWakes DEF Standing
<1>5. Applied(f, w) \in H2Conns /\ StaysEnded(w, Applied(f, w))
  BY WireMoves DEF StaysEnded
<1>6. Append(q, f) \in Seq(Frames)
  OBVIOUS
<1>. QED
  BY <1>1, <1>2, <1>3, <1>4, <1>5, <1>6 DEF Standing

HandlesRest(w, q, t, R) ==
    /\ t \in Handlings
    /\ Standing(w, q, t.task, t.unread, R, t.condemned, t.ending)
    /\ Tabled(t.table, t.task, t.condemned)
    /\ t.resets > MaxStreamResets => t.ending

Later(t, v) ==
    /\ t.condemned \subseteq v.condemned /\ (t.ending => v.ending)
    /\ \A s \in Streams :
          /\ v.task[s] = "over" <=> t.task[s] = "over"
          /\ t.task[s] \in Working => v.task[s] \in Working

LEMMA FrameHandled ==
  ASSUME NEW w \in H2Conns, NEW q \in Seq(Frames), q # <<>>, Len(q) <= 2, NEW t, NEW R, HandlesRest(w, q, t, R)
  PROVE  /\ HandlesRest(w, Tail(q), Dispatched(q[1], t), R) /\ Later(t, Dispatched(q[1], t))
         /\ Tail(q) \in Seq(Frames)
<1>. DEFINE v == Dispatched(q[1], t)
            r == Tail(q)
            f == q[1]
<1>1. t \in Handlings /\ f \in Frames /\ r \in Seq(Frames) /\ 1 \in DOMAIN q
  BY FramesGive DEF HandlesRest
<1>2. /\ v \in Handlings
      /\ \A s \in Streams :
            /\ Wakes(f, s) /\ s \in t.table => v.task[s] # "parked"
            /\ s \in v.table <=> s \in t.table \/ f = <<"request", s>>
      /\ t.condemned \subseteq v.condemned
      /\ t.ending => v.ending
      /\ (t.resets > MaxStreamResets => t.ending) => (v.resets > MaxStreamResets => v.ending)
      /\ Starts(f, t.task, v.task) /\ Queues(f, t.table, t.unread, v.unread)
  BY <1>1, HandlingMoves, SMTT(20) DEF Starts, Queues
<1>3. /\ t.task \in [Streams -> Kinds] /\ t.unread \in [Streams -> Seq({"data", "end"})]
      /\ v.unread \in [Streams -> Seq({"data", "end"})]
  BY <1>1, <1>2 DEF Handlings
<1>. HIDE DEF v, r, f
<1>0. /\ OpenedOnce(w, q, t.task) /\ EndedOnce(w, q, t.unread, R) /\ CreditKept(w, q, t.unread, t.task, R)
      /\ Tabled(t.table, t.task, t.condemned)
  BY DEF HandlesRest, Standing
<1>4. OpenedOnce(w, r, v.task) /\ SameOver(t.task, v.task)
  BY <1>0, <1>2, HandleOpens DEF r, f
<1>5. EndedOnce(w, r, v.unread, R)
  BY <1>0, <1>2, <1>3, HandleEnds DEF r, f
<1>6. CreditKept(w, r, v.unread, v.task, R)
  BY <1>0, <1>2, <1>3, <1>4, HandleCredits DEF r, f
<1>7. WokenUp(w, r, v.task, v.condemned, v.ending)
  BY <1>2, HandleWakes DEF HandlesRest, Standing, r, f
<1>8. Tabled(v.table, v.task, v.condemned)
  BY <1>2, HandleTables DEF HandlesRest, f
<1>9. ASSUME NEW s \in Streams, t.task[s] \in Working PROVE v.task[s] \in Working
  <2>1. f # <<"request", s>>
    BY <1>1, <1>9 DEF f, HandlesRest, Standing, OpenedOnce, Working
  <2>. QED
    BY <1>2, <1>9, <2>1 DEF Working, Starts
<1>10. HandlesRest(w, r, v, R) /\ Later(t, v)
  BY <1>2, <1>4, <1>5, <1>6, <1>7, <1>8, <1>9 DEF HandlesRest, Standing, Later, SameOver
<1>. QED
  BY <1>1, <1>10 DEF v, r, f

-----------------------------------------------------------------------------
(* The connection: its beginning, its read loop, and its end.                 *)
LEMMA H2Starts == ASSUME H2sInit PROVE H2Inv
<1>. USE DEF H2sInit
<1>1. /\ h2conn = [side |-> [s \in Streams |-> "idle"], win |-> [s \in Streams |-> 1], conn |-> 1,
                   credit |-> ReceiveWindow, initial |-> 1, lowered |-> FALSE]
      /\ events = <<>> /\ DOMAIN events = {} /\ Len(events) = 0 /\ events \in Seq(Frames)
      /\ \A s \in Streams : /\ h2conn.side[s] = "idle" /\ task[s] = "none" /\ unread[s] = <<>>
                            /\ DOMAIN unread[s] = {} /\ Len(unread[s]) = 0
      /\ readAll = {} /\ answered = {} /\ table = {}
  OBVIOUS
<1>2. h2conn \in H2Conns /\ h2conn.credit = ReceiveWindow
  BY <1>1, H2Assumption DEF H2Conns, H2Fields, Sides
<1>3. H2Types
  <2>1. unread \in [Streams -> Seq({"data", "end"})]
    OBVIOUS
  <2>. QED
    BY <1>1, <1>2, <2>1 DEF H2Types, Kinds
<1>4. OpenedOnce(h2conn, events, task)
  BY <1>1 DEF OpenedOnce
<1>5. EndedOnce(h2conn, events, unread, readAll)
  BY <1>1 DEF EndedOnce
<1>6. CreditKept(h2conn, events, unread, task, readAll)
  <2>1. HeldChunks(unread) = {} /\ {i \in DOMAIN events : events[i][1] = "data"} = {}
    BY <1>1 DEF HeldChunks
  <2>2. IsFiniteSet({}) /\ Cardinality({}) = 0
    BY FS_EmptySet
  <2>3. DueChunks(events) = 0 /\ Cardinality(HeldChunks(unread)) = 0 /\ IsFiniteSet(HeldChunks(unread))
    BY <2>1, <2>2 DEF DueChunks
  <2>. QED
    BY <1>1, <1>2, <2>3, H2Assumption DEF CreditKept
<1>7. WokenUp(h2conn, events, task, condemned, readLoop # "reading") /\ Tabled(table, task, condemned)
  BY <1>1 DEF WokenUp, Tabled, Working
<1>8. AnswersFit /\ Closing
  BY <1>1, H2Assumption DEF AnswersFit, Closing
<1>. QED
  BY <1>3, <1>4, <1>5, <1>6, <1>7, <1>8 DEF H2Inv

LEMMA FeedsKeep == ASSUME H2Inv, Feeds PROVE H2Inv'
<1>. DEFINE ended == readLoop # "reading"
<1>1. /\ readLoop = "reading" /\ events = <<>> /\ H2Types
      /\ UNCHANGED <<table, task, condemned, rest, last, begun, answered, unread, readAll, resets, readLoop>>
      /\ Standing(h2conn, events, task, unread, readAll, condemned, ended)
      /\ h2conn \in H2Conns
  BY DEF Feeds, tasks, sending, reads, H2Inv, H2Types, Standing
<1>. HIDE DEF ended
<1>2. /\ h2conn' \in H2Conns /\ events' \in Seq(Frames) /\ Len(events') <= 2 /\ StaysEnded(h2conn, h2conn')
      /\ Standing(h2conn', events', task, unread, readAll, condemned, ended)
  <2>1. PICK f \in Frames :
          /\ Accepted(f, h2conn)
          /\ \/ h2conn' = Applied(f, h2conn) /\ events' = <<f>>
             \/ \E g \in Frames :
                 /\ Accepted(g, Applied(f, h2conn))
                 /\ h2conn' = Applied(g, Applied(f, h2conn)) /\ events' = <<f, g>>
    BY DEF Feeds
  <2>. DEFINE w1 == Applied(f, h2conn)
              q1 == Append(events, f)
  <2>2. w1 \in H2Conns /\ q1 \in Seq(Frames) /\ StaysEnded(h2conn, w1)
        /\ Standing(w1, q1, task, unread, readAll, condemned, ended)
    BY <1>1, <2>1, FrameFed DEF H2Types
  <2>3. q1 = <<f>> /\ Len(q1) = 1
    BY <1>1
  <2>. HIDE DEF w1, q1
  <2>4. CASE h2conn' = w1 /\ events' = <<f>>
    BY <2>2, <2>3, <2>4
  <2>5. ASSUME NEW g \in Frames, Accepted(g, w1), h2conn' = Applied(g, w1), events' = <<f, g>>
        PROVE  /\ h2conn' \in H2Conns /\ events' \in Seq(Frames) /\ Len(events') <= 2 /\ StaysEnded(h2conn, h2conn')
               /\ Standing(h2conn', events', task, unread, readAll, condemned, ended)
    <3>1. /\ Applied(g, w1) \in H2Conns /\ Append(q1, g) \in Seq(Frames) /\ StaysEnded(w1, Applied(g, w1))
          /\ Standing(Applied(g, w1), Append(q1, g), task, unread, readAll, condemned, ended)
      BY <2>2, <2>5, FrameFed
    <3>2. Append(q1, g) = <<f, g>> /\ Len(<<f, g>>) = 2
      <4>. DEFINE x == Append(<<f>>, g)
                  y == <<f, g>>
      <4>1. x \in Seq(Frames) /\ Len(x) = 2 /\ x[1] = f /\ x[2] = g
        OBVIOUS
      <4>2. y \in Seq(Frames) /\ Len(y) = 2 /\ y[1] = f /\ y[2] = g
        OBVIOUS
      <4>. HIDE DEF x, y
      <4>3. \A i \in 1 .. Len(x) : x[i] = y[i]
        <5>1. \A i \in 1 .. 2 : i = 1 \/ i = 2
          OBVIOUS
        <5>. QED
          BY <4>1, <4>2, <5>1
      <4>4. x = y
        BY <4>1, <4>2, <4>3, SeqEqual
      <4>. QED
        BY <2>3, <4>2, <4>4 DEF x, y
    <3>3. StaysEnded(h2conn, h2conn')
      BY <2>2, <2>5, <3>1 DEF StaysEnded
    <3>. QED
      BY <2>5, <3>1, <3>2, <3>3
  <2>. QED
    BY <2>1, <2>4, <2>5 DEF w1
<1>3. H2Types'
  BY <1>1, <1>2 DEF H2Types
<1>4. /\ OpenedOnce(h2conn, events, task)' /\ EndedOnce(h2conn, events, unread, readAll)'
      /\ CreditKept(h2conn, events, unread, task, readAll)'
      /\ WokenUp(h2conn, events, task, condemned, readLoop # "reading")'
  BY <1>1, <1>2 DEF Standing, ended
<1>5. Tabled(table, task, condemned)'
  BY <1>1 DEF H2Inv, Tabled
<1>6. AnswersFit'
  BY <1>1, <1>2 DEF H2Inv, AnswersFit, StaysEnded, H2Types, H2Conns, H2Fields, Sides, OpenedOnce, Standing
<1>7. Closing'
  BY <1>1 DEF H2Inv, Closing
<1>. QED
  BY <1>3, <1>4, <1>5, <1>6, <1>7 DEF H2Inv

LEMMA HandlesKeep == ASSUME H2Inv, HandlesEvents PROVE H2Inv'
<1>. DEFINE before == [table |-> table, task |-> task, condemned |-> condemned, unread |-> unread,
                       resets |-> resets, ending |-> FALSE]
            first == Dispatched(events[1], before)
            after == IF Len(events) = 1 THEN first ELSE Dispatched(events[2], first)
<1>1. /\ readLoop = "reading" /\ events # <<>> /\ events \in Seq(Frames) /\ Len(events) <= 2 /\ H2Types
      /\ h2conn \in H2Conns
      /\ table' = after.table /\ task' = after.task /\ unread' = after.unread /\ resets' = after.resets
      /\ condemned' = after.condemned \cup (IF after.ending THEN AtWork(after.task) ELSE {})
      /\ readLoop' = IF after.ending THEN "awaiting" ELSE "reading"
      /\ events' = <<>> /\ UNCHANGED <<h2conn, rest, last, begun, answered, readAll>>
  BY DEF HandlesEvents, sending, H2Inv, H2Types
<1>2. HandlesRest(h2conn, events, before, readAll)
  <2>1. /\ before.table = table /\ before.task = task /\ before.condemned = condemned /\ before.unread = unread
        /\ before.resets = resets /\ before.ending = FALSE
    OBVIOUS
  <2>2. before \in Handlings
    BY <1>1 DEF H2Types, Handlings
  <2>3. WokenUp(h2conn, events, task, condemned, FALSE)
    <3>1. (readLoop # "reading") = FALSE
      BY <1>1
    <3>. QED
      BY <3>1 DEF H2Inv
  <2>4. ~(resets > MaxStreamResets)
    BY <1>1 DEF H2Inv, Closing
  <2>. HIDE DEF before
  <2>. QED
    BY <2>1, <2>2, <2>3, <2>4 DEF H2Inv, HandlesRest, Standing
<1>3. HandlesRest(h2conn, <<>>, after, readAll) /\ Later(before, after)
  <2>. HIDE DEF before
  <2>1. /\ HandlesRest(h2conn, Tail(events), first, readAll) /\ Later(before, first)
        /\ Tail(events) \in Seq(Frames)
    BY <1>1, <1>2, FrameHandled
  <2>. HIDE DEF first
  <2>2. CASE Len(events) = 1
    <3>1. Tail(events) = <<>>
      BY <1>1, <2>2, LastFrame
    <3>. QED
      BY <2>1, <2>2, <3>1
  <2>3. CASE Len(events) = 2
    <3>. DEFINE q == Tail(events)
    <3>1. q \in Seq(Frames) /\ Len(q) = 1 /\ q[1] = events[2]
      BY <1>1, <2>1, <2>3, LastFrame
    <3>. HIDE DEF q
    <3>2. q # <<>> /\ Len(q) <= 2 /\ Tail(q) = <<>>
      BY <3>1, LastFrame
    <3>3. HandlesRest(h2conn, q, first, readAll)
      BY <2>1 DEF q
    <3>4. HandlesRest(h2conn, <<>>, Dispatched(events[2], first), readAll) /\ Later(first, Dispatched(events[2], first))
      BY <1>1, <3>1, <3>2, <3>3, FrameHandled
    <3>5. after = Dispatched(events[2], first)
      BY <2>3
    <3>6. Later(before, after)
      BY <2>1, <3>4, <3>5 DEF Later
    <3>. QED
      BY <3>4, <3>5, <3>6
  <2>4. Len(events) = 1 \/ Len(events) = 2
    BY <1>1, LastFrame
  <2>. QED
    BY <2>2, <2>3, <2>4
<1>4. /\ condemned \subseteq after.condemned
      /\ \A s \in Streams : /\ after.task[s] = "over" <=> task[s] = "over"
                            /\ task[s] \in Working => after.task[s] \in Working
  BY <1>3 DEF Later
<1>. HIDE DEF before, first, after
<1>5. after \in Handlings /\ after.condemned \subseteq condemned'
  BY <1>1, <1>3 DEF HandlesRest
<1>6. /\ OpenedOnce(h2conn, <<>>, task') /\ EndedOnce(h2conn, <<>>, unread', readAll)
      /\ CreditKept(h2conn, <<>>, unread', task', readAll)
      /\ WokenUp(h2conn, <<>>, task', after.condemned, after.ending)
      /\ Tabled(table', task', after.condemned)
      /\ resets' > MaxStreamResets => after.ending
  BY <1>1, <1>3 DEF HandlesRest, Standing
<1>7. H2Types'
  <2>1. /\ table' \subseteq Streams /\ task' \in [Streams -> Kinds] /\ after.condemned \subseteq Streams
        /\ unread' \in [Streams -> Seq({"data", "end"})] /\ resets' \in Nat /\ after.ending \in BOOLEAN
    BY <1>1, <1>5 DEF Handlings
  <2>2. condemned' \subseteq Streams
    BY <1>1, <2>1 DEF AtWork
  <2>3. <<>> \in Seq(Frames) /\ Len(<<>>) <= 2
    OBVIOUS
  <2>4. readLoop' \in {"reading", "awaiting", "over"}
    BY <1>1
  <2>. QED
    BY <1>1, <2>1, <2>2, <2>3, <2>4 DEF H2Types
<1>8. /\ OpenedOnce(h2conn, events, task)' /\ EndedOnce(h2conn, events, unread, readAll)'
      /\ CreditKept(h2conn, events, unread, task, readAll)'
  BY <1>1, <1>6
<1>9. WokenUp(h2conn, events, task, condemned, readLoop # "reading")'
  BY <1>1, <1>5, <1>6 DEF WokenUp
<1>10. Tabled(table, task, condemned)'
  BY <1>5, <1>6 DEF Tabled
<1>11. AnswersFit'
  <2>1. ASSUME NEW s \in Streams
        PROVE  /\ s \in answered' => h2conn'.side[s] \in {"local", "closed"} \/ h2conn'.lowered
               /\ task'[s] = "over" /\ h2conn'.side[s] \in {"open", "remote"} =>
                     s \in condemned' \/ s \notin begun' \/ (h2conn'.lowered /\ s \in answered')
               /\ s \in readAll' => task'[s] \in Working \cup {"over"}
    BY <1>1, <1>4, <1>5 DEF H2Inv, AnswersFit
  <2>. QED
    BY <2>1 DEF AnswersFit
<1>12. Closing'
  BY <1>1, <1>6 DEF Closing
<1>. QED
  BY <1>7, <1>8, <1>9, <1>10, <1>11, <1>12 DEF H2Inv

LEMMA LoopKeeps == ASSUME H2Inv, FeedFails \/ LoopEnds PROVE H2Inv'
<1>1. /\ events = <<>> /\ UNCHANGED <<h2conn, events, table, task, rest, last, begun, answered, unread, readAll, resets>>
      /\ condemned \subseteq condemned' /\ condemned' \subseteq Streams /\ readLoop' \in {"awaiting", "over"}
      /\ (readLoop' = "over" => \A s \in Streams : task[s] \in {"none", "over"})
  BY DEF FeedFails, LoopEnds, H2Inv, H2Types, Closing, AtWork, tasks, sending, reads
<1>2. H2Types'
  BY <1>1 DEF H2Inv, H2Types
<1>3. /\ OpenedOnce(h2conn, events, task)' /\ EndedOnce(h2conn, events, unread, readAll)'
      /\ CreditKept(h2conn, events, unread, task, readAll)'
  BY <1>1 DEF H2Inv
<1>4. WokenUp(h2conn, events, task, condemned, readLoop # "reading")'
  BY <1>1 DEF WokenUp
<1>5. Tabled(table, task, condemned)'
  BY <1>1 DEF H2Inv, Tabled
<1>6. AnswersFit'
  BY <1>1 DEF H2Inv, AnswersFit
<1>7. Closing'
  BY <1>1 DEF H2Inv, Closing
<1>. QED
  BY <1>2, <1>3, <1>4, <1>5, <1>6, <1>7 DEF H2Inv
-----------------------------------------------------------------------------
(* The tasks.  A step of a task keeps to its stream: it may use the windows,  *)
(* never grow them, and end its side, never open one.                         *)
Onward(w, v) ==
    /\ v \in H2Conns /\ v.credit = w.credit /\ (w.lowered => v.lowered)
    /\ \A s \in Streams :
        /\ v.side[s] = "idle" <=> w.side[s] = "idle"
        /\ w.side[s] \in {"remote", "closed"} => v.side[s] \in {"remote", "closed"}
        /\ w.side[s] \in {"local", "closed"} => v.side[s] \in {"local", "closed"}
        /\ RoomOf(w, s) <= 0 => RoomOf(v, s) <= 0

SameNone(t, t2) == \A s \in Streams : (t2[s] = "none") <=> (t[s] = "none")

LEMMA OnwardOpens ==
  ASSUME NEW w, NEW v, NEW q, NEW t, NEW t2, OpenedOnce(w, q, t), Onward(w, v), SameNone(t, t2)
  PROVE  OpenedOnce(v, q, t2)
BY DEF OpenedOnce, Onward, SameNone

LEMMA OnwardEnds ==
  ASSUME NEW w, NEW v, NEW q, NEW u, NEW R, EndedOnce(w, q, u, R), Onward(w, v)
  PROVE  EndedOnce(v, q, u, R)
BY DEF EndedOnce, Onward

LEMMA LeavesEnds ==
  ASSUME NEW w, NEW q, NEW u \in [Streams -> Seq({"data", "end"})], NEW R, EndedOnce(w, q, u, R), NEW s \in Streams
  PROVE  EndedOnce(w, q, [u EXCEPT ![s] = <<>>], R)
<1>. DEFINE u2 == [u EXCEPT ![s] = <<>>]
<1>1. u2[s] = <<>> /\ DOMAIN u2[s] = {} /\ \A r \in Streams : r # s => u2[r] = u[r]
  OBVIOUS
<1>. HIDE DEF u2
<1>2. EndedOnce(w, q, u2, R)
  BY <1>1 DEF EndedOnce
<1>. QED
  BY <1>2 DEF u2

LEMMA DueCounts == ASSUME NEW q \in Seq(Frames) PROVE DueChunks(q) \in Nat
<1>. DEFINE k == Len(q)
<1>1. k \in Nat /\ DOMAIN q = 1 .. k
  OBVIOUS
<1>. HIDE DEF k
<1>2. IsFiniteSet(1 .. k)
  BY <1>1, FS_Interval
<1>3. IsFiniteSet({i \in DOMAIN q : q[i][1] = "data"})
  BY <1>1, <1>2, FS_Subset
<1>. QED
  BY <1>3, FS_CardinalityType DEF DueChunks

LEMMA LeavesCredit ==
  ASSUME NEW w \in H2Conns, NEW q \in Seq(Frames), NEW u \in [Streams -> Seq({"data", "end"})], NEW R, NEW t, NEW t2,
         EndedOnce(w, q, u, R), CreditKept(w, q, u, t, R), NEW s \in Streams, t2[s] = "over",
         \A r \in Streams : t[r] = "over" => t2[r] = "over"
  PROVE  CreditKept(w, q, [u EXCEPT ![s] = <<>>], t2, R)
<1>. DEFINE u2 == [u EXCEPT ![s] = <<>>]
            H == Cardinality(HeldChunks(u))
            H2 == Cardinality(HeldChunks(u2))
            n == DueChunks(q)
<1>1. u2[s] = <<>> /\ DOMAIN u2[s] = {} /\ Len(u2[s]) = 0 /\ \A r \in Streams : r # s => u2[r] = u[r]
  OBVIOUS
<1>2. /\ \A r \in Streams : Len(u[r]) <= ReceiveWindow + 1
      /\ IsFiniteSet(HeldChunks(u)) /\ w.credit + n + H <= ReceiveWindow
      /\ (\A r \in Streams : t[r] = "over" => r \in R) => w.credit + n + H = ReceiveWindow
  BY DEF CreditKept
<1>3. HeldChunks(u2) \subseteq HeldChunks(u)
  <2>. HIDE DEF u2
  <2>. QED
    BY <1>1 DEF HeldChunks
<1>4. IsFiniteSet(HeldChunks(u2)) /\ H2 <= H /\ H \in Nat /\ H2 \in Nat
  BY <1>2, <1>3, FS_Subset, FS_CardinalityType
<1>5. ASSUME \A r \in Streams : t2[r] = "over" => r \in R PROVE H2 = H /\ \A r \in Streams : t[r] = "over" => r \in R
  <2>1. u[s] = <<>>
    BY <1>5 DEF EndedOnce
  <2>2. u2 = u
    BY <2>1
  <2>. QED
    BY <1>5, <2>2
<1>6. n \in Nat /\ w.credit \in Nat /\ ReceiveWindow \in Nat
  <2>1. n \in Nat
    BY DueCounts
  <2>. QED
    BY <2>1, H2Assumption DEF H2Conns, H2Fields
<1>. HIDE DEF u2, H, H2, n
<1>7. \A r \in Streams : Len(u2[r]) <= ReceiveWindow + 1
  <2>1. Len(u2[s]) <= ReceiveWindow + 1
    BY <1>1, <1>6
  <2>. QED
    BY <1>1, <1>2, <2>1
<1>8. w.credit + n + H2 <= ReceiveWindow
  BY <1>2, <1>4, <1>6
<1>9. CreditKept(w, q, u2, t2, R)
  BY <1>2, <1>4, <1>5, <1>7, <1>8 DEF CreditKept, H, H2, n
<1>. QED
  BY <1>9 DEF u2

LEMMA OnwardCredit ==
  ASSUME NEW w, NEW v, NEW q, NEW u, NEW R, NEW t, NEW t2, CreditKept(w, q, u, t, R), Onward(w, v),
         \A r \in Streams : t[r] = "over" => t2[r] = "over"
  PROVE  CreditKept(v, q, u, t2, R)
<1>1. v.credit = w.credit
  BY DEF Onward
<1>. QED
  BY <1>1 DEF CreditKept

(* Every step of a task but receive's.                                        *)
LEMMA StreamSteps ==
  ASSUME H2Inv, H2Types', NEW s \in Streams, NEW k \in Kinds \ {"none", "created"},
         Onward(h2conn, h2conn'), task[s] \notin {"none", "over"}, task' = [task EXCEPT ![s] = k],
         UNCHANGED <<events, condemned, readAll, resets, readLoop>>,
         k = "parked" => RoomOf(h2conn', s) <= 0,
         \/ UNCHANGED unread
         \/ k = "over" /\ unread' = [unread EXCEPT ![s] = <<>>],
         \/ UNCHANGED table /\ (k = "over" => s \in condemned)
         \/ k = "over" /\ table' = table \ {s},
         answered \subseteq answered',
         \A r \in Streams : r \in answered' => r \in answered \/ h2conn'.side[r] \in {"local", "closed"} \/ h2conn'.lowered,
         \A r \in Streams : r # s => (r \in begun' <=> r \in begun),
         k = "over" /\ h2conn'.side[s] \in {"open", "remote"} =>
            s \in condemned \/ s \notin begun' \/ (h2conn'.lowered /\ s \in answered')
  PROVE  H2Inv'
<1>1. /\ task'[s] = k /\ \A r \in Streams : r # s => task'[r] = task[r]
      /\ task \in [Streams -> Kinds] /\ unread \in [Streams -> Seq({"data", "end"})] /\ h2conn \in H2Conns
      /\ h2conn' \in H2Conns /\ events \in Seq(Frames)
  BY DEF H2Inv, H2Types, Onward
<1>2. SameNone(task, task') /\ \A r \in Streams : task[r] = "over" => task'[r] = "over"
  BY <1>1 DEF SameNone
<1>3. OpenedOnce(h2conn, events, task)'
  <2>1. OpenedOnce(h2conn', events, task')
    BY <1>2, OnwardOpens DEF H2Inv
  <2>. QED
    BY <2>1
<1>4. EndedOnce(h2conn', events, unread, readAll) /\ CreditKept(h2conn', events, unread, task', readAll)
  BY <1>2, OnwardEnds, OnwardCredit DEF H2Inv
<1>5. EndedOnce(h2conn, events, unread, readAll)' /\ CreditKept(h2conn, events, unread, task, readAll)'
  <2>1. CASE UNCHANGED unread
    BY <1>4, <2>1
  <2>2. CASE k = "over" /\ unread' = [unread EXCEPT ![s] = <<>>]
    <3>1. EndedOnce(h2conn', events, unread', readAll)
      BY <1>1, <1>4, <2>2, LeavesEnds
    <3>2. CreditKept(h2conn', events, unread', task', readAll)
      <4>1. CreditKept(h2conn', events, unread, task', readAll) /\ task'[s] = "over"
        BY <1>1, <1>4, <2>2
      <4>. QED
        BY <1>1, <1>4, <2>2, <4>1, LeavesCredit
    <3>. QED
      BY <3>1, <3>2
  <2>. QED
    BY <2>1, <2>2
<1>6. WokenUp(h2conn, events, task, condemned, readLoop # "reading")'
  <2>1. ASSUME NEW r \in Streams, task'[r] = "parked", readLoop = "reading"
        PROVE  RoomOf(h2conn', r) <= 0 \/ r \in condemned \/ \E i \in DOMAIN events : Wakes(events[i], r)
    <3>1. CASE r = s
      BY <1>1, <2>1, <3>1
    <3>2. CASE r # s
      BY <1>1, <2>1, <3>2 DEF H2Inv, WokenUp, Onward
    <3>. QED
      BY <3>1, <3>2
  <2>. QED
    BY <2>1 DEF WokenUp
<1>7. Tabled(table, task, condemned)'
  <2>1. ASSUME NEW r \in Streams
        PROVE  /\ task'[r] \in Working \cup {"created"} => r \in table'
               /\ r \in table' /\ task'[r] = "over" => r \in condemned'
    <3>1. /\ task[r] \in Working \cup {"created"} => r \in table
          /\ r \in table /\ task[r] = "over" => r \in condemned
      BY DEF H2Inv, Tabled
    <3>2. task[s] \in Working \cup {"created"}
      BY <1>1 DEF Kinds, Working
    <3>3. CASE r = s
      BY <1>1, <3>1, <3>2, <3>3 DEF Working
    <3>4. CASE r # s
      BY <1>1, <3>1, <3>4
    <3>. QED
      BY <3>3, <3>4
  <2>. QED
    BY <2>1 DEF Tabled
<1>8. AnswersFit'
  <2>1. ASSUME NEW r \in Streams
        PROVE  /\ r \in answered' => h2conn'.side[r] \in {"local", "closed"} \/ h2conn'.lowered
               /\ task'[r] = "over" /\ h2conn'.side[r] \in {"open", "remote"} =>
                     r \in condemned' \/ r \notin begun' \/ (h2conn'.lowered /\ r \in answered')
               /\ r \in readAll' => task'[r] \in Working \cup {"over"}
    <3>1. /\ r \in answered => h2conn.side[r] \in {"local", "closed"} \/ h2conn.lowered
          /\ task[r] = "over" /\ h2conn.side[r] \in {"open", "remote"} =>
                r \in condemned \/ r \notin begun \/ (h2conn.lowered /\ r \in answered)
          /\ r \in readAll => task[r] \in Working \cup {"over"}
      BY DEF H2Inv, AnswersFit
    <3>2. r \in answered' => h2conn'.side[r] \in {"local", "closed"} \/ h2conn'.lowered
      BY <3>1 DEF Onward
    <3>3. ASSUME task'[r] = "over", h2conn'.side[r] \in {"open", "remote"}
          PROVE  r \in condemned' \/ r \notin begun' \/ (h2conn'.lowered /\ r \in answered')
      <4>1. CASE r = s
        BY <1>1, <3>3, <4>1
      <4>2. CASE r # s
        <5>1. h2conn.side[r] \notin {"local", "closed"}
          BY <3>3 DEF Onward
        <5>2. h2conn.side[r] # "idle" /\ h2conn.side[r] \in Sides
          BY <1>1, <3>3 DEF Onward, H2Conns, H2Fields
        <5>. QED
          BY <1>1, <3>1, <3>3, <4>2, <5>1, <5>2 DEF Sides, Onward
      <4>. QED
        BY <4>1, <4>2
    <3>4. r \in readAll' => task'[r] \in Working \cup {"over"}
      BY <1>1, <3>1 DEF Kinds, Working
    <3>. QED
      BY <3>2, <3>3, <3>4
  <2>. QED
    BY <2>1 DEF AnswersFit
<1>9. Closing'
  <2>1. readLoop # "over"
    BY DEF H2Inv, Closing
  <2>. QED
    BY <2>1 DEF H2Inv, Closing
<1>. QED
  BY <1>3, <1>5, <1>6, <1>7, <1>8, <1>9 DEF H2Inv

LEMMA SentIs ==
  ASSUME h2conn \in H2Conns, NEW s \in Streams, NEW size \in {0, 1}, NEW final \in BOOLEAN, size <= SendRoom(s),
         h2conn.side[s] \in {"open", "remote"}
  PROVE  /\ Onward(h2conn, Sent(s, size, final))
         /\ final => Sent(s, size, final).side[s] \in {"local", "closed"}
<1>. DEFINE w == h2conn
            v == Sent(s, size, final)
            after == IF final THEN EndedBy(w.side[s]) ELSE w.side[s]
<1>1. /\ w.side \in [Streams -> Sides] /\ w.win \in [Streams -> Int] /\ w.conn \in Nat /\ w.credit \in Nat
      /\ w \in H2Conns /\ w \in H2Fields /\ (w.lowered \/ \A r \in Streams : w.win[r] >= 0)
  BY DEF H2Conns, H2Fields
<1>2. /\ v = [w EXCEPT !.win = [w.win EXCEPT ![s] = w.win[s] - size], !.conn = w.conn - size,
                       !.side = [w.side EXCEPT ![s] = after]]
  BY DEF Sent
<1>3. size <= w.win[s] /\ size <= w.conn /\ w.win[s] \in Int
  BY <1>1 DEF SendRoom
<1>4. /\ after \in {"open", "remote", "local", "closed"}
      /\ w.side[s] = "remote" => after \in {"remote", "closed"}
      /\ final => after \in {"local", "closed"}
  BY DEF EndedBy
<1>. HIDE DEF w, v, after
<1>5. w.win[s] - size \in Int /\ w.conn - size \in Nat /\ w.win[s] - size >= 0
  BY <1>1, <1>3
<1>6. /\ v.win = [w.win EXCEPT ![s] = w.win[s] - size] /\ v.conn = w.conn - size
      /\ v.side = [w.side EXCEPT ![s] = after] /\ v.credit = w.credit /\ v.lowered = w.lowered
  BY <1>1, <1>2 DEF H2Fields
<1>7. v \in H2Conns
  <2>1. /\ [w.win EXCEPT ![s] = w.win[s] - size] \in [Streams -> Int]
        /\ [w.side EXCEPT ![s] = after] \in [Streams -> Sides]
    BY <1>1, <1>4, <1>5 DEF Sides
  <2>. QED
    <3>1. v \in H2Fields
      BY <1>1, <1>2, <1>5, <2>1 DEF H2Fields
    <3>2. v.lowered \/ \A r \in Streams : v.win[r] >= 0
      BY <1>1, <1>5, <1>6
    <3>. QED
      BY <3>1, <3>2 DEF H2Conns, H2Fields
<1>8. ASSUME NEW r \in Streams, RoomOf(w, r) <= 0 PROVE RoomOf(v, r) <= 0
  <2>1. v.win[r] \in Int /\ v.conn \in Nat /\ w.win[r] \in Int /\ v.win[r] <= w.win[r] /\ v.conn <= w.conn
    <3>1. CASE r = s
      BY <1>1, <1>3, <1>5, <1>6, <3>1
    <3>2. CASE r # s
      BY <1>1, <1>3, <1>5, <1>6, <3>2
    <3>. QED
      BY <3>1, <3>2
  <2>. QED
    BY <1>1, <1>8, <2>1 DEF RoomOf
<1>9. \A r \in Streams :
        /\ v.side[r] = "idle" <=> w.side[r] = "idle"
        /\ w.side[r] \in {"remote", "closed"} => v.side[r] \in {"remote", "closed"}
        /\ w.side[r] \in {"local", "closed"} => v.side[r] \in {"local", "closed"}
  BY <1>1, <1>4, <1>6 DEF w
<1>10. Onward(w, v) /\ (final => v.side[s] \in {"local", "closed"})
  BY <1>1, <1>4, <1>6, <1>7, <1>8, <1>9 DEF Onward
<1>. QED
  BY <1>10 DEF w, v

-----------------------------------------------------------------------------
OnwardStays == h2conn \in H2Conns => Onward(h2conn, h2conn)

LEMMA StaysOnward == OnwardStays
BY DEF OnwardStays, Onward

LEMMA RoomIsSendRoom == ASSUME NEW s PROVE RoomOf(h2conn, s) = SendRoom(s)
BY DEF RoomOf, SendRoom

LEMMA StartsKeeps == ASSUME H2Inv, NEW s \in Streams, StartsStream(s) \/ SendsHead(s) \/ SendsBody(s) PROVE H2Inv'
<1>1. h2conn \in H2Conns /\ task \in [Streams -> Kinds] /\ H2Types
  BY DEF H2Inv, H2Types
<1>2. Onward(h2conn, h2conn) /\ h2conn' = h2conn
  BY <1>1, StaysOnward DEF OnwardStays, StartsStream, SendsHead, SendsBody
<1>3. CASE StartsStream(s)
  <2>1. /\ task[s] = "created" /\ task' = [task EXCEPT ![s] = "app"]
        /\ UNCHANGED <<h2conn, events, table, condemned, rest, last, begun, answered, unread, readAll, resets, readLoop>>
    BY <1>3 DEF StartsStream, sending, reads
  <2>2. task' \in [Streams -> Kinds] /\ "app" \in Kinds \ {"none", "created"}
    BY <1>1, <2>1 DEF Kinds
  <2>3. H2Types'
    BY <1>1, <2>1, <2>2 DEF H2Types
  <2>. QED
    BY <1>2, <2>1, <2>2, <2>3, StreamSteps
<1>4. CASE SendsHead(s)
  <2>1. /\ task[s] = "app" /\ begun' = begun \cup {s}
        /\ UNCHANGED <<h2conn, events, table, task, condemned, rest, last, answered, unread, readAll, resets, readLoop>>
    BY <1>4 DEF SendsHead, tasks, reads
  <2>2. task' = [task EXCEPT ![s] = "app"] /\ "app" \in Kinds \ {"none", "created"}
    BY <1>1, <2>1 DEF Kinds
  <2>3. H2Types'
    BY <1>1, <2>1 DEF H2Types
  <2>. QED
    BY <1>2, <2>1, <2>2, <2>3, StreamSteps
<1>5. CASE SendsBody(s)
  <2>1. /\ task[s] = "app" /\ task' = [task EXCEPT ![s] = "sending"]
        /\ \E size \in {0, 1} :
             /\ rest' = [rest EXCEPT ![s] = size] /\ last' = [last EXCEPT ![s] = size = 0]
        /\ UNCHANGED <<h2conn, events, table, condemned, begun, answered, unread, readAll, resets, readLoop>>
    BY <1>5 DEF SendsBody, reads
  <2>2. task' \in [Streams -> Kinds] /\ "sending" \in Kinds \ {"none", "created"}
    BY <1>1, <2>1 DEF Kinds
  <2>3. rest' \in [Streams -> {0, 1}] /\ last' \in [Streams -> BOOLEAN]
    <3>1. PICK size \in {0, 1} :
             /\ rest' = [rest EXCEPT ![s] = size] /\ last' = [last EXCEPT ![s] = (size = 0)]
      BY <2>1
    <3>2. (size = 0) \in BOOLEAN
      OBVIOUS
    <3>3. \A v \in BOOLEAN : [last EXCEPT ![s] = v] \in [Streams -> BOOLEAN]
      BY <1>1 DEF H2Types
    <3>4. rest' \in [Streams -> {0, 1}]
      BY <1>1, <3>1 DEF H2Types
    <3>. QED
      BY <3>1, <3>2, <3>3, <3>4
  <2>4. H2Types'
    BY <1>1, <2>1, <2>2, <2>3 DEF H2Types
  <2>. QED
    BY <1>2, <2>1, <2>2, <2>4, StreamSteps
<1>. QED
  BY <1>3, <1>4, <1>5

LEMMA LeavesTyped ==
  ASSUME H2Types, NEW s \in Streams, LeavesBehind(s)
  PROVE  /\ rest' \in [Streams -> {0, 1}] /\ last' \in [Streams -> BOOLEAN]
         /\ unread' \in [Streams -> Seq({"data", "end"})] /\ unread' = [unread EXCEPT ![s] = <<>>]
<1>1. unread \in [Streams -> Seq({"data", "end"})] /\ <<>> \in Seq({"data", "end"})
  BY DEF H2Types
<1>2. unread' = [unread EXCEPT ![s] = <<>>] /\ unread' \in [Streams -> Seq({"data", "end"})]
  BY <1>1 DEF LeavesBehind
<1>3. rest' \in [Streams -> {0, 1}] /\ last' \in [Streams -> BOOLEAN]
  BY DEF H2Types, LeavesBehind
<1>. QED
  BY <1>2, <1>3

LEMMA EndsKeep == ASSUME H2Inv, NEW s \in Streams, NeverStarts(s) \/ IsCancelled(s) PROVE H2Inv'
<1>1. h2conn \in H2Conns /\ task \in [Streams -> Kinds] /\ H2Types /\ "over" \in Kinds \ {"none", "created"}
  BY DEF H2Inv, H2Types, Kinds
<1>2. Onward(h2conn, h2conn) /\ h2conn' = h2conn
  BY <1>1, StaysOnward DEF OnwardStays, NeverStarts, IsCancelled
<1>3. /\ task[s] \notin {"none", "over"} /\ s \in condemned /\ task' = [task EXCEPT ![s] = "over"]
      /\ UNCHANGED <<events, condemned, begun, answered, readAll, resets, readLoop>>
  BY DEF NeverStarts, IsCancelled, Working, sending, reads
<1>4. task' \in [Streams -> Kinds]
  BY <1>1, <1>3
<1>5. CASE NeverStarts(s)
  <2>1. UNCHANGED <<table, rest, last, unread>>
    BY <1>5 DEF NeverStarts, sending, reads
  <2>2. H2Types'
    BY <1>1, <1>2, <1>3, <1>4, <2>1 DEF H2Types
  <2>. QED
    BY <1>1, <1>2, <1>3, <2>1, <2>2, StreamSteps
<1>6. CASE IsCancelled(s)
  <2>1. table' = table \ {s} /\ LeavesBehind(s)
    BY <1>6 DEF IsCancelled
  <2>2. H2Types'
    BY <1>1, <1>2, <1>3, <1>4, <2>1, LeavesTyped DEF H2Types
  <2>3. unread' = [unread EXCEPT ![s] = <<>>]
    BY <2>1 DEF LeavesBehind
  <2>. QED
    BY <1>1, <1>2, <1>3, <2>1, <2>2, <2>3, StreamSteps
<1>. QED
  BY <1>5, <1>6

LEMMA TurnKeeps == ASSUME H2Inv, NEW s \in Streams, SendsTurn(s) PROVE H2Inv'
<1>1. /\ h2conn \in H2Conns /\ task \in [Streams -> Kinds] /\ H2Types
      /\ rest[s] \in {0, 1} /\ last[s] \in BOOLEAN
      /\ h2conn.win[s] \in Int /\ h2conn.conn \in Nat /\ SendRoom(s) \in Int
      /\ h2conn.side[s] \in Sides /\ (h2conn.lowered \/ h2conn.win[s] >= 0)
      /\ h2conn.side[s] # "idle"
  <2>1. /\ h2conn \in H2Conns /\ task \in [Streams -> Kinds] /\ H2Types
        /\ rest[s] \in {0, 1} /\ last[s] \in BOOLEAN /\ task[s] = "sending"
    BY DEF H2Inv, H2Types, SendsTurn
  <2>2. /\ h2conn.win[s] \in Int /\ h2conn.conn \in Nat /\ h2conn.side[s] \in Sides
        /\ (h2conn.lowered \/ h2conn.win[s] >= 0)
    BY <2>1 DEF H2Conns, H2Fields
  <2>3. h2conn.side[s] # "idle"
    BY <2>1 DEF H2Inv, OpenedOnce
  <2>. QED
    BY <2>1, <2>2, <2>3 DEF SendRoom
<1>2. /\ task[s] = "sending" /\ s \notin condemned
      /\ UNCHANGED <<events, table, condemned, begun, unread, readAll, resets, readLoop>>
      /\ answered' = IF task'[s] = "app" /\ last[s] THEN answered \cup {s} ELSE answered
  BY DEF SendsTurn, reads
<1>3. /\ "app" \in Kinds \ {"none", "created"} /\ "parked" \in Kinds \ {"none", "created"}
      /\ \A v \in BOOLEAN : [last EXCEPT ![s] = v] \in [Streams -> BOOLEAN]
      /\ [rest EXCEPT ![s] = 0] \in [Streams -> {0, 1}]
      /\ answered' \subseteq Streams
  BY <1>1, <1>2 DEF Kinds, H2Types
<1>4. CASE /\ rest[s] = 0 \/ rest[s] <= SendRoom(s)
           /\ h2conn' = IF h2conn.side[s] \in {"open", "remote"} /\ rest[s] <= SendRoom(s)
                        THEN Sent(s, rest[s], last[s]) ELSE h2conn
           /\ task' = [task EXCEPT ![s] = "app"]
           /\ rest' = [rest EXCEPT ![s] = 0] /\ last' = [last EXCEPT ![s] = FALSE]
  <2>1. Onward(h2conn, h2conn') /\ (last[s] => h2conn'.side[s] \in {"local", "closed"} \/ h2conn'.lowered)
    <3>1. CASE h2conn.side[s] \in {"open", "remote"} /\ rest[s] <= SendRoom(s)
      <4>1. /\ Onward(h2conn, Sent(s, rest[s], last[s]))
            /\ last[s] => Sent(s, rest[s], last[s]).side[s] \in {"local", "closed"}
        BY <1>1, <3>1, SentIs
      <4>. QED
        BY <1>4, <3>1, <4>1
    <3>2. CASE h2conn.side[s] \in {"open", "remote"} /\ ~(rest[s] <= SendRoom(s))
      <4>1. rest[s] = 0 /\ SendRoom(s) < 0 /\ h2conn' = h2conn
        BY <1>1, <1>4, <3>2
      <4>2. h2conn.lowered
        BY <1>1, <4>1 DEF SendRoom
      <4>. QED
        BY <1>1, <4>1, <4>2, StaysOnward DEF OnwardStays
    <3>3. CASE h2conn.side[s] \in {"local", "closed"}
      <4>1. h2conn' = h2conn
        BY <1>4, <3>3
      <4>. QED
        BY <1>1, <3>3, <4>1, StaysOnward DEF OnwardStays
    <3>. QED
      BY <1>1, <3>1, <3>2, <3>3 DEF Sides
  <2>2. H2Types'
    <3>1. h2conn' \in H2Conns /\ task' \in [Streams -> Kinds] /\ rest' \in [Streams -> {0, 1}]
          /\ last' \in [Streams -> BOOLEAN]
      BY <1>1, <1>3, <1>4, <2>1 DEF Onward
    <3>. QED
      BY <1>1, <1>2, <1>3, <3>1 DEF H2Types
  <2>3. /\ answered \subseteq answered'
        /\ \A r \in Streams : r \in answered' => r \in answered \/ h2conn'.side[r] \in {"local", "closed"} \/ h2conn'.lowered
    BY <1>2, <2>1
  <2>. QED
    BY <1>2, <1>3, <1>4, <2>1, <2>2, <2>3, StreamSteps
<1>5. CASE /\ rest[s] > 0 /\ rest[s] > SendRoom(s) /\ task' = [task EXCEPT ![s] = "parked"]
           /\ UNCHANGED <<h2conn, rest, last>>
  <2>1. Onward(h2conn, h2conn) /\ RoomOf(h2conn', s) <= 0 /\ task'[s] # "app" /\ answered' = answered
    <3>1. SendRoom(s) <= 0
      BY <1>1, <1>5
    <3>2. task'[s] # "app" /\ answered' = answered
      BY <1>1, <1>2, <1>5
    <3>. QED
      BY <1>1, <1>5, <3>1, <3>2, StaysOnward, RoomIsSendRoom DEF OnwardStays
  <2>2. task' \in [Streams -> Kinds]
    BY <1>1, <1>3, <1>5
  <2>3. H2Types'
    BY <1>1, <1>2, <1>5, <2>1, <2>2 DEF H2Types
  <2>. QED
    BY <1>2, <1>3, <1>5, <2>1, <2>3, StreamSteps
<1>. QED
  BY <1>4, <1>5 DEF SendsTurn

LEMMA ReturnsKeeps == ASSUME H2Inv, NEW s \in Streams, ReturnsStream(s) PROVE H2Inv'
<1>1. h2conn \in H2Conns /\ task \in [Streams -> Kinds] /\ H2Types /\ "over" \in Kinds \ {"none", "created"}
  BY DEF H2Inv, H2Types, Kinds
<1>2. /\ task[s] = "app" /\ s \notin condemned /\ task' = [task EXCEPT ![s] = "over"]
      /\ table' = table \ {s} /\ LeavesBehind(s)
      /\ UNCHANGED <<events, condemned, begun, answered, readAll, resets, readLoop>>
  BY DEF ReturnsStream
<1>3. /\ Onward(h2conn, h2conn')
      /\ h2conn'.side[s] \in {"open", "remote"} => s \notin begun \/ (h2conn'.lowered /\ s \in answered)
  <2>1. CASE h2conn' = h2conn /\ (s \in answered \/ h2conn.side[s] \notin {"open", "remote"})
    BY <1>1, <2>1, StaysOnward DEF OnwardStays, H2Inv, AnswersFit
  <2>2. CASE h2conn' = h2conn /\ s \notin begun
    BY <1>1, <2>2, StaysOnward DEF OnwardStays
  <2>3. CASE h2conn.side[s] \in {"open", "remote"} /\ h2conn' = [h2conn EXCEPT !.side[s] = "closed"]
    <3>1. h2conn.side \in [Streams -> Sides] /\ "closed" \in Sides
      BY <1>1 DEF H2Conns, H2Fields, Sides
    <3>2. /\ h2conn' \in H2Conns /\ h2conn'.credit = h2conn.credit /\ h2conn'.win = h2conn.win
          /\ h2conn'.conn = h2conn.conn /\ h2conn'.side = [h2conn.side EXCEPT ![s] = "closed"]
          /\ h2conn'.lowered = h2conn.lowered
      BY <1>1, <2>3, <3>1 DEF H2Conns, H2Fields
    <3>3. \A r \in Streams : RoomOf(h2conn', r) = RoomOf(h2conn, r)
      BY <3>2 DEF RoomOf
    <3>. QED
      BY <2>3, <3>1, <3>2, <3>3 DEF Onward
  <2>4. CASE h2conn.side[s] \in {"open", "remote"} /\ SendRoom(s) > 0 /\ h2conn' = Sent(s, 1, TRUE)
    <3>1. 1 <= SendRoom(s)
      BY <1>1, <2>4 DEF SendRoom, H2Conns, H2Fields
    <3>2. Onward(h2conn, Sent(s, 1, TRUE)) /\ Sent(s, 1, TRUE).side[s] \in {"local", "closed"}
      BY <1>1, <2>4, <3>1, SentIs
    <3>. QED
      BY <2>4, <3>2
  <2>. QED
    BY <2>1, <2>2, <2>3, <2>4 DEF ReturnsStream
<1>4. h2conn' \in H2Conns /\ task' \in [Streams -> Kinds]
  BY <1>1, <1>2, <1>3 DEF Onward
<1>5. H2Types'
  BY <1>1, <1>2, <1>4, LeavesTyped DEF H2Types
<1>6. unread' = [unread EXCEPT ![s] = <<>>]
  BY <1>2 DEF LeavesBehind
<1>. QED
  BY <1>1, <1>2, <1>3, <1>5, <1>6, StreamSteps

-----------------------------------------------------------------------------
(* receive.                                                                   *)
LEMMA TailTakes ==
  ASSUME NEW q \in Seq({"data", "end"}), q # <<>>
  PROVE  /\ Len(q) \in Nat /\ Len(q) >= 1 /\ DOMAIN q = 1 .. Len(q) /\ Head(q) = q[1]
         /\ \A i \in 1 .. Len(q) : q[i] \in {"data", "end"}
         /\ Tail(q) \in Seq({"data", "end"}) /\ Len(Tail(q)) = Len(q) - 1
         /\ DOMAIN Tail(q) = 1 .. Len(q) - 1
         /\ \A i \in 1 .. Len(q) - 1 : Tail(q)[i] = q[i + 1]
<1>1. /\ Len(q) \in Nat /\ Len(q) >= 1 /\ DOMAIN q = 1 .. Len(q) /\ Head(q) = q[1]
      /\ \A i \in 1 .. Len(q) : q[i] \in {"data", "end"}
      /\ Tail(q) \in Seq({"data", "end"}) /\ Len(Tail(q)) = Len(q) - 1
  OBVIOUS
<1>2. DOMAIN Tail(q) = 1 .. Len(q) - 1
  BY <1>1
<1>3. \A i \in 1 .. Len(q) - 1 : Tail(q)[i] = q[i + 1]
  BY <1>1
<1>. QED
  BY <1>1, <1>2, <1>3

(* What is taken from the front of a queue frees the last place that holds a  *)
(* chunk, since only an end can follow one.                                   *)
LEMMA TakingFrees ==
  ASSUME NEW u \in [Streams -> Seq({"data", "end"})], NEW s \in Streams, u[s] # <<>>, u[s][1] = "data",
         \A k \in DOMAIN u[s] : u[s][k] = "end" => k = Len(u[s]),
         Len(u[s]) <= ReceiveWindow + 1
  PROVE  \E c \in HeldChunks(u) : HeldChunks([u EXCEPT ![s] = Tail(u[s])]) = HeldChunks(u) \ {c}
<1>. DEFINE u2 == [u EXCEPT ![s] = Tail(u[s])]
            n == Len(u[s])
            m == IF u[s][n] = "data" THEN n ELSE n - 1
<1>1. /\ n \in Nat /\ n >= 1 /\ DOMAIN u[s] = 1 .. n
      /\ \A i \in 1 .. n : u[s][i] \in {"data", "end"}
      /\ DOMAIN Tail(u[s]) = 1 .. n - 1
      /\ \A i \in 1 .. n - 1 : Tail(u[s])[i] = u[s][i + 1]
  BY TailTakes
<1>2. u2[s] = Tail(u[s]) /\ \A r \in Streams : r # s => u2[r] = u[r]
  OBVIOUS
<1>3. /\ DOMAIN u2[s] = 1 .. n - 1
      /\ \A i \in 1 .. n - 1 : u2[s][i] = u[s][i + 1]
  BY <1>1, <1>2
<1>4. n <= ReceiveWindow + 1 /\ ReceiveWindow \in Nat /\ u[s][1] = "data"
      /\ \A k \in 1 .. n : u[s][k] = "end" => k = n
  BY <1>1, H2Assumption
<1>. HIDE DEF u2, n
<1>5. m \in Nat /\ 1 <= m /\ m <= n /\ m <= ReceiveWindow + 1
  <2>1. CASE u[s][n] = "data"
    BY <1>1, <1>4, <2>1
  <2>2. CASE u[s][n] # "data"
    <3>1. n # 1
      BY <1>4, <2>2
    <3>. QED
      BY <1>1, <1>4, <2>2, <3>1
  <2>. QED
    BY <2>1, <2>2
<1>6. ASSUME NEW i \in 1 .. n PROVE u[s][i] = "data" <=> i <= m
  <2>1. CASE u[s][n] = "data"
    BY <1>1, <1>4, <2>1
  <2>2. CASE u[s][n] # "data"
    <3>1. CASE i = n
      BY <1>1, <2>2, <3>1
    <3>2. CASE i # n
      BY <1>1, <1>4, <2>2, <3>2
    <3>. QED
      BY <3>1, <3>2
  <2>. QED
    BY <2>1, <2>2
<1>. HIDE DEF m
<1>7. <<s, m>> \in HeldChunks(u)
  BY <1>1, <1>4, <1>5, <1>6 DEF HeldChunks
<1>8. ASSUME NEW c \in Streams \X (1 .. ReceiveWindow + 1)
      PROVE  c \in HeldChunks(u2) <=> c \in HeldChunks(u) /\ c # <<s, m>>
  <2>1. PICK r \in Streams, k \in 1 .. ReceiveWindow + 1 : c = <<r, k>>
    OBVIOUS
  <2>2. CASE r # s
    BY <1>2, <2>1, <2>2 DEF HeldChunks
  <2>3. CASE r = s
    <3>1. c \in HeldChunks(u) <=> k <= m
      BY <1>1, <1>5, <1>6, <2>1, <2>3 DEF HeldChunks
    <3>2. c \in HeldChunks(u2) <=> (k \in 1 .. n - 1 /\ u2[s][k] = "data")
      BY <1>3, <2>1, <2>3 DEF HeldChunks
    <3>3. c \in HeldChunks(u2) <=> (k \in 1 .. n - 1 /\ k + 1 <= m)
      <4>1. k \in 1 .. n - 1 => k + 1 \in 1 .. n /\ u2[s][k] = u[s][k + 1]
        BY <1>1, <1>3
      <4>. QED
        BY <1>6, <3>2, <4>1
    <3>4. c # <<s, m>> <=> k # m
      BY <2>1, <2>3
    <3>5. (k \in 1 .. n - 1 /\ k + 1 <= m) <=> (k <= m /\ k # m)
      BY <1>1, <1>5
    <3>. QED
      BY <3>1, <3>3, <3>4, <3>5
  <2>. QED
    BY <2>2, <2>3
<1>9. HeldChunks(u2) = HeldChunks(u) \ {<<s, m>>}
  <2>1. /\ \A c \in HeldChunks(u2) : c \in Streams \X (1 .. ReceiveWindow + 1)
        /\ \A c \in HeldChunks(u) : c \in Streams \X (1 .. ReceiveWindow + 1)
    BY DEF HeldChunks
  <2>. QED
    BY <1>8, <2>1
<1>. QED
  BY <1>7, <1>9 DEF u2

LEMMA TakesKeeps == ASSUME H2Inv, NEW s \in Streams, TakesBody(s) PROVE H2Inv'
<1>. DEFINE w == h2conn
            u == unread
            q == unread[s]
            u2 == [unread EXCEPT ![s] = Tail(unread[s])]
<1>1. /\ task[s] = "app" /\ s \notin readAll /\ q # <<>> /\ unread' = u2
      /\ IF Head(q) = "data" THEN h2conn' = [h2conn EXCEPT !.credit = @ + 1] /\ UNCHANGED readAll
         ELSE readAll' = readAll \cup {s} /\ UNCHANGED h2conn
      /\ UNCHANGED <<events, table, task, condemned, rest, last, begun, answered, resets, readLoop>>
  BY DEF TakesBody, tasks, sending
<1>2. /\ H2Types /\ w \in H2Conns /\ u \in [Streams -> Seq({"data", "end"})] /\ q \in Seq({"data", "end"})
      /\ events \in Seq(Frames) /\ readAll \subseteq Streams
      /\ OpenedOnce(w, events, task) /\ EndedOnce(w, events, u, readAll)
      /\ CreditKept(w, events, u, task, readAll)
      /\ WokenUp(w, events, task, condemned, readLoop # "reading")
  BY DEF H2Inv, H2Types
<1>3. /\ Len(q) \in Nat /\ Len(q) >= 1 /\ DOMAIN q = 1 .. Len(q) /\ Head(q) = q[1]
      /\ q[1] \in {"data", "end"}
      /\ Tail(q) \in Seq({"data", "end"}) /\ Len(Tail(q)) = Len(q) - 1
      /\ DOMAIN Tail(q) = 1 .. Len(q) - 1
      /\ \A i \in 1 .. Len(q) - 1 : Tail(q)[i] = q[i + 1]
  BY <1>1, <1>2, TailTakes
<1>4. /\ u2 \in [Streams -> Seq({"data", "end"})] /\ u2[s] = Tail(q)
      /\ \A r \in Streams : r # s => u2[r] = u[r]
  BY <1>2, <1>3
<1>5. /\ h2conn' \in H2Conns /\ h2conn'.side = w.side /\ h2conn'.win = w.win /\ h2conn'.conn = w.conn
      /\ h2conn'.lowered = w.lowered
      /\ h2conn'.credit = IF q[1] = "data" THEN w.credit + 1 ELSE w.credit
  <2>1. CASE Head(q) = "data"
    <3>1. h2conn' = [h2conn EXCEPT !.credit = h2conn.credit + 1] /\ q[1] = "data"
      BY <1>1, <1>3, <2>1
    <3>2. h2conn \in H2Conns /\ h2conn.credit \in Nat /\ h2conn.credit + 1 \in Nat
      BY <1>2 DEF H2Conns, H2Fields
    <3>3. /\ h2conn' \in H2Conns /\ h2conn'.side = h2conn.side /\ h2conn'.win = h2conn.win
          /\ h2conn'.lowered = h2conn.lowered
          /\ h2conn'.conn = h2conn.conn /\ h2conn'.credit = h2conn.credit + 1
      BY <3>1, <3>2 DEF H2Conns, H2Fields
    <3>. QED
      BY <3>1, <3>3
  <2>2. CASE Head(q) # "data"
    <3>1. h2conn' = h2conn /\ q[1] # "data"
      BY <1>1, <1>3, <2>2
    <3>. QED
      BY <1>2, <3>1
  <2>. QED
    BY <2>1, <2>2
<1>6. readAll' = IF q[1] = "data" THEN readAll ELSE readAll \cup {s}
  BY <1>1, <1>3
<1>7. /\ \A k \in DOMAIN q : q[k] = "end" =>
           /\ w.side[s] \in {"remote", "closed"} /\ k = Len(q)
           /\ \A i \in DOMAIN events : events[i] \notin BodyOf(s)
  BY <1>2 DEF EndedOnce
<1>8. q[1] = "end" => Len(q) = 1
  <2>. HIDE DEF q
  <2>1. 1 \in DOMAIN q
    BY <1>3
  <2>. QED
    BY <1>7, <2>1
<1>9. H2Types'
  BY <1>1, <1>2, <1>4, <1>5, <1>6 DEF H2Types
<1>10. \A r : RoomOf(h2conn', r) = RoomOf(w, r)
  BY <1>5 DEF RoomOf
<1>11. \A r \in Streams : Len(u[r]) <= ReceiveWindow + 1
  BY <1>2 DEF CreditKept
<1>12. q[1] = "data" => \E c \in HeldChunks(u) : HeldChunks(u2) = HeldChunks(u) \ {c}
  BY <1>1, <1>2, <1>7, <1>11, TakingFrees
<1>. HIDE DEF w, u, q, u2
<1>13. OpenedOnce(h2conn, events, task)'
  <2>1. OpenedOnce(h2conn', events, task)
    BY <1>2, <1>5 DEF OpenedOnce
  <2>. QED
    BY <1>1, <2>1
<1>14. EndedOnce(h2conn, events, unread, readAll)'
  <2>1. ASSUME NEW r \in Streams
        PROVE  /\ \A i \in DOMAIN events : events[i] = <<"end", r>> =>
                     /\ w.side[r] \in {"remote", "closed"}
                     /\ \A j \in DOMAIN events : events[j] \in BodyOf(r) => j <= i
               /\ \A k \in DOMAIN u2[r] : u2[r][k] = "end" =>
                     /\ w.side[r] \in {"remote", "closed"} /\ k = Len(u2[r])
                     /\ \A i \in DOMAIN events : events[i] \notin BodyOf(r)
               /\ r \in readAll' => /\ w.side[r] \in {"remote", "closed"} /\ u2[r] = <<>>
                                    /\ \A i \in DOMAIN events : events[i] \notin BodyOf(r)
    <3>1. \A i \in DOMAIN events : events[i] = <<"end", r>> =>
                     /\ w.side[r] \in {"remote", "closed"}
                     /\ \A j \in DOMAIN events : events[j] \in BodyOf(r) => j <= i
      BY <1>2 DEF EndedOnce
    <3>2. CASE r # s
      BY <1>2, <1>4, <1>6, <3>1, <3>2 DEF EndedOnce
    <3>3. CASE r = s
      <4>1. ASSUME NEW k \in DOMAIN u2[s], u2[s][k] = "end"
            PROVE  /\ w.side[s] \in {"remote", "closed"} /\ k = Len(u2[s])
                   /\ \A i \in DOMAIN events : events[i] \notin BodyOf(s)
        <5>1. k \in 1 .. Len(q) - 1 /\ q[k + 1] = "end"
          BY <1>3, <1>4, <4>1
        <5>2. k + 1 \in DOMAIN q
          BY <1>3, <5>1
        <5>. QED
          BY <1>3, <1>4, <1>7, <5>1, <5>2
      <4>2. ASSUME s \in readAll'
            PROVE  /\ w.side[s] \in {"remote", "closed"} /\ u2[s] = <<>>
                   /\ \A i \in DOMAIN events : events[i] \notin BodyOf(s)
        <5>1. q[1] = "end" /\ 1 \in DOMAIN q
          BY <1>1, <1>3, <1>6, <4>2
        <5>2. Len(Tail(q)) = 0
          <6>1. Len(q) = 1 /\ Len(Tail(q)) = Len(q) - 1
            BY <1>3, <1>8, <5>1
          <6>. QED
            BY <6>1
        <5>3. Tail(q) = <<>>
          BY <1>3, <5>2, EmptySeq
        <5>. QED
          BY <1>4, <1>7, <5>1, <5>3
      <4>. QED
        BY <3>1, <3>3, <4>1, <4>2
    <3>. QED
      BY <3>2, <3>3
  <2>2. EndedOnce(w, events, u2, readAll')
    BY <2>1 DEF EndedOnce
  <2>3. EndedOnce(h2conn', events, u2, readAll')
    BY <1>5, <2>2 DEF EndedOnce
  <2>. QED
    BY <1>1, <2>3
<1>15. CreditKept(h2conn, events, unread, task, readAll)'
  <2>. DEFINE H == Cardinality(HeldChunks(u))
              H2 == Cardinality(HeldChunks(u2))
              n == DueChunks(events)
              all == \A r \in Streams : task[r] = "over" => r \in readAll
  <2>1. /\ IsFiniteSet(HeldChunks(u)) /\ w.credit + n + H <= ReceiveWindow
        /\ all => w.credit + n + H = ReceiveWindow
    BY <1>2 DEF CreditKept
  <2>2. /\ n \in Nat /\ w.credit \in Nat /\ ReceiveWindow \in Nat /\ H \in Nat
    BY <1>2, <2>1, DueCounts, FS_CardinalityType, H2Assumption DEF H2Conns, H2Fields
  <2>3. \A r \in Streams : Len(u2[r]) <= ReceiveWindow + 1
    <3>1. Len(u2[s]) <= ReceiveWindow + 1
      <4>1. Len(u2[s]) = Len(q) - 1 /\ Len(q) \in Nat /\ Len(q) <= ReceiveWindow + 1
        BY <1>3, <1>4, <1>11 DEF q, u
      <4>. QED
        BY <2>2, <4>1
    <3>. QED
      BY <1>4, <1>11, <3>1
  <2>4. (\A r \in Streams : task[r] = "over" => r \in readAll') <=> all
    BY <1>1, <1>6
  <2>5. CASE q[1] = "data"
    <3>1. PICK c \in HeldChunks(u) : HeldChunks(u2) = HeldChunks(u) \ {c}
      BY <1>12, <2>5
    <3>2. IsFiniteSet(HeldChunks(u2)) /\ H2 = H - 1
      BY <2>1, <3>1, FS_RemoveElement
    <3>3. h2conn'.credit = w.credit + 1
      BY <1>5, <2>5
    <3>. HIDE DEF H, H2, n, all
    <3>4. h2conn'.credit + n + H2 = w.credit + n + H
      BY <2>2, <3>2, <3>3
    <3>5. CreditKept(h2conn', events, u2, task, readAll')
      BY <2>1, <2>3, <2>4, <3>2, <3>4 DEF CreditKept, H, H2, n, all
    <3>. QED
      BY <1>1, <3>5
  <2>6. CASE q[1] = "end"
    <3>1. HeldChunks(u2) = HeldChunks(u)
      <4>1. DOMAIN u2[s] = {} /\ DOMAIN q = {1} /\ u[s] = q
        BY <1>3, <1>4, <1>8, <2>6 DEF q, u
      <4>2. \A c \in Streams \X (1 .. ReceiveWindow + 1) :
                (c[2] \in DOMAIN u2[c[1]] /\ u2[c[1]][c[2]] = "data")
                <=> (c[2] \in DOMAIN u[c[1]] /\ u[c[1]][c[2]] = "data")
        BY <1>4, <2>6, <4>1
      <4>. QED
        BY <4>2 DEF HeldChunks
    <3>2. h2conn'.credit = w.credit
      BY <1>5, <2>6
    <3>3. CreditKept(h2conn', events, u2, task, readAll')
      BY <2>1, <2>3, <2>4, <3>1, <3>2 DEF CreditKept
    <3>. QED
      BY <1>1, <3>3
  <2>. QED
    BY <1>3, <2>5, <2>6
<1>16. WokenUp(h2conn, events, task, condemned, readLoop # "reading")'
  <2>1. WokenUp(h2conn', events, task, condemned, readLoop # "reading")
    BY <1>2, <1>10 DEF WokenUp
  <2>. QED
    BY <1>1, <2>1
<1>17. Tabled(table, task, condemned)'
  BY <1>1 DEF H2Inv, Tabled
<1>18. AnswersFit'
  <2>1. h2conn'.lowered = h2conn.lowered /\ \A r \in Streams : h2conn'.side[r] = h2conn.side[r]
    BY <1>5 DEF w
  <2>2. readAll' \subseteq readAll \cup {s}
    BY <1>6
  <2>. QED
    BY <1>1, <2>1, <2>2 DEF H2Inv, AnswersFit, Working
<1>19. Closing'
  BY <1>1 DEF H2Inv, Closing
<1>. QED
  BY <1>9, <1>13, <1>14, <1>15, <1>16, <1>17, <1>18, <1>19 DEF H2Inv

-----------------------------------------------------------------------------
THEOREM H2Invariant == H2sSpec => []H2Inv
<1>1. H2sInit => H2Inv
  BY H2Starts
<1>2. H2Inv /\ [H2sNext]_h2sVars => H2Inv'
  <2> SUFFICES ASSUME H2Inv, [H2sNext]_h2sVars PROVE H2Inv'
    OBVIOUS
  <2>1. CASE UNCHANGED h2sVars
    <3>1. UNCHANGED <<h2conn, events, table, task, condemned, rest, last, begun, answered, unread, readAll,
                      resets, readLoop>>
      BY <2>1 DEF h2sVars, tasks, sending, reads
    <3>2. H2Types' /\ AnswersFit' /\ Closing' /\ Tabled(table, task, condemned)'
      BY <3>1 DEF H2Inv, H2Types, AnswersFit, Closing, Tabled
    <3>3. /\ OpenedOnce(h2conn, events, task)' /\ EndedOnce(h2conn, events, unread, readAll)'
          /\ CreditKept(h2conn, events, unread, task, readAll)'
          /\ WokenUp(h2conn, events, task, condemned, readLoop # "reading")'
      BY <3>1 DEF H2Inv
    <3>. QED
      BY <3>2, <3>3 DEF H2Inv
  <2>2. CASE Feeds
    BY <2>2, FeedsKeep
  <2>3. CASE FeedFails \/ LoopEnds
    BY <2>3, LoopKeeps
  <2>4. CASE HandlesEvents
    BY <2>4, HandlesKeep
  <2>5. ASSUME NEW s \in Streams,
               \/ StartsStream(s) \/ NeverStarts(s) \/ IsCancelled(s) \/ TakesBody(s)
               \/ SendsHead(s) \/ SendsBody(s) \/ SendsTurn(s) \/ ReturnsStream(s)
        PROVE  H2Inv'
    BY <2>5, StartsKeeps, EndsKeep, TakesKeeps, TurnKeeps, ReturnsKeeps
  <2>. QED
    BY <2>1, <2>2, <2>3, <2>4, <2>5 DEF H2sNext
<1>. QED
  BY <1>1, <1>2, PTL DEF H2sSpec

(* An HTTP/2 connection wakes the senders it has room for, ends every response *)
(* of a finished task, accounts for the credit of the client's bodies, closes *)
(* on the budget of resets and outlives no task of its own.                   *)
THEOREM ConnectionsSound == H2sSpec => []ConnectionIsSound
<1>1. H2Inv => ConnectionIsSound
  <2> SUFFICES ASSUME H2Inv PROVE ConnectionIsSound
    OBVIOUS
  <2>1. SendersWake
    <3>1. ASSUME NEW s \in Streams, task[s] = "parked", readLoop = "reading"
          PROVE  SendRoom(s) <= 0 \/ s \in condemned \/ Coming({"window", "connWindow"} \cup Settings, s)
      <4>1. RoomOf(h2conn, s) <= 0 \/ s \in condemned \/ \E i \in DOMAIN events : Wakes(events[i], s)
        BY <3>1 DEF H2Inv, WokenUp
      <4>2. ASSUME NEW i \in DOMAIN events, Wakes(events[i], s)
            PROVE  Coming({"window", "connWindow"} \cup Settings, s)
        <5>1. events[i] \in Frames
          BY DEF H2Inv, H2Types
        <5>2. events[i][1] \in {"window", "connWindow"} \cup Settings /\ events[i][2] \in {s, "all"}
          <6>1. CASE events[i] = <<"window", s>>
            BY <6>1
          <6>2. CASE events[i][1] \in {"connWindow"} \cup Settings
            BY <5>1, <6>2 DEF Frames, Settings
          <6>. QED
            BY <4>2, <6>1, <6>2 DEF Wakes
        <5>. QED
          BY <5>2 DEF Coming
      <4>. QED
        BY <4>1, <4>2, RoomIsSendRoom
    <3>. QED
      BY <3>1 DEF SendersWake
  <2>2. ResponsesEnd
    BY DEF H2Inv, AnswersFit, ResponsesEnd
  <2>3. CreditIsEven
    BY DEF H2Inv, CreditKept, CreditIsEven, Expected, Unacknowledged, HeldChunks, DueChunks
  <2>4. /\ resets > MaxStreamResets => readLoop # "reading"
        /\ readLoop = "over" => \A s \in Streams : task[s] \in {"none", "over"}
    BY DEF H2Inv, Closing
  <2>5. /\ \A s \in Streams : task[s] \in Working \cup {"created"} => s \in table
        /\ \A s \in table : task[s] = "over" => s \in condemned
    BY DEF H2Inv, H2Types, Tabled
  <2>. QED
    BY <2>1, <2>2, <2>3, <2>4, <2>5 DEF ConnectionIsSound
<1>. QED
  BY <1>1, H2Invariant, PTL

-----------------------------------------------------------------------------
(* Compression: any table of codings, any weights, any floor and body.        *)
NoBest == [coding |-> "none", weight |-> 0]
IsBest(g, o, n) == g = [i \in 0 .. n |-> IF i = 0 THEN NoBest ELSE Heavier(o, g[i - 1], Available[i])]

LEMMA TableIs == Len(Available) \in Nat /\ DOMAIN Available = 1 .. Len(Available)
BY TableAssumption

LEMMA BestExists ==
  ASSUME NEW o, NEW n \in 0 .. Len(Available) PROVE \E g : IsBest(g, o, n)
<1>. DEFINE T == {m \in 0 .. Len(Available) : ~ \E g : IsBest(g, o, m)}
<1>1. SUFFICES ASSUME T # {} PROVE FALSE
  OBVIOUS
<1>2. T \subseteq Nat
  BY TableIs
<1>3. PICK m \in T : \A y \in T : m <= y
  <2>. HIDE DEF T
  <2>. QED
    BY <1>1, <1>2, LeastThereIs
<1>4. CASE m = 0
  <2>1. IsBest([i \in 0 .. 0 |-> NoBest], o, 0)
    BY DEF IsBest
  <2>. QED
    BY <1>3, <1>4, <2>1
<1>5. CASE m # 0
  <2>1. m \in Nat /\ m - 1 \in 0 .. Len(Available) /\ m - 1 < m /\ m - 1 \in Nat
    BY <1>2, <1>3, <1>5, TableIs
  <2>2. m - 1 \notin T
    <3>. HIDE DEF T
    <3>. QED
      BY <1>2, <1>3, <2>1
  <2>3. PICK g : IsBest(g, o, m - 1)
    BY <2>1, <2>2
  <2>. DEFINE h == [i \in 0 .. m |-> IF i = m THEN Heavier(o, g[m - 1], Available[m]) ELSE g[i]]
  <2>4. \A i \in 0 .. m - 1 : g[i] = IF i = 0 THEN NoBest ELSE Heavier(o, g[i - 1], Available[i])
    BY <2>3 DEF IsBest
  <2>5. ASSUME NEW i \in 0 .. m PROVE h[i] = IF i = 0 THEN NoBest ELSE Heavier(o, h[i - 1], Available[i])
    <3>1. CASE i = m
      <4>1. i - 1 \in 0 .. m /\ i - 1 # m /\ i # 0
        BY <2>1, <1>5, <3>1
      <4>. QED
        BY <3>1, <4>1
    <3>2. CASE i # m
      <4>1. i \in 0 .. m - 1 /\ (i # 0 => i - 1 \in 0 .. m /\ i - 1 # m)
        BY <2>1, <2>5, <3>2
      <4>. QED
        BY <2>4, <2>5, <3>2, <4>1
    <3>. QED
      BY <3>1, <3>2
  <2>6. IsBest(h, o, m)
    BY <2>5 DEF IsBest
  <2>. QED
    BY <1>3, <2>6
<1>. QED
  BY <1>4, <1>5

LEMMA BestIs == ASSUME NEW o PROVE IsBest(HeaviestUpTo(o), o, Len(Available))
<1>0. Len(Available) \in 0 .. Len(Available)
  BY TableIs
<1>1. PICK g : IsBest(g, o, Len(Available))
  BY <1>0, BestExists
<1>2. HeaviestUpTo(o) = CHOOSE f : f = [i \in 0 .. Len(Available) |->
                              IF i = 0 THEN NoBest ELSE Heavier(o, f[i - 1], Available[i])]
  BY DEF HeaviestUpTo, NoBest
<1>. QED
  BY <1>1, <1>2 DEF IsBest

LEMMA Weights ==
  ASSUME NEW o \in Offers, NEW token \in Tokens
  PROVE  Weight(o, token) \in Nat
<1>1. o[token] \in 0 .. Absent /\ o["*"] \in 0 .. Absent /\ Absent \in Nat
  BY TableAssumption DEF Offers, Tokens, Absent
<1>. QED
  BY <1>1 DEF Weight

(* Of the first codings, the heaviest, and the first of these.                *)
HeaviestOf(o, b, n) ==
    /\ b.weight \in Nat
    /\ \A j \in 1 .. n : Weight(o, Available[j]) <= b.weight
    /\ \/ b.coding = "none" /\ b.weight = 0
       \/ \E k \in 1 .. n : /\ b.coding = Available[k] /\ b.weight = Weight(o, Available[k]) /\ b.weight > 0
                            /\ \A j \in 1 .. n : j < k => Weight(o, Available[j]) < b.weight

LEMMA HeavierIs ==
  ASSUME NEW o \in Offers, NEW n \in Nat, n + 1 <= Len(Available), NEW b, HeaviestOf(o, b, n)
  PROVE  HeaviestOf(o, Heavier(o, b, Available[n + 1]), n + 1)
<1>. DEFINE w == Weight(o, Available[n + 1])
            c == Heavier(o, b, Available[n + 1])
<1>1. \A j \in 1 .. n + 1 : Weight(o, Available[j]) \in Nat
  <2>1. \A j \in 1 .. n + 1 : Available[j] \in Tokens
    BY TableIs DEF Tokens, Codings
  <2>. QED
    BY <2>1, Weights
<1>2. w \in Nat /\ \A j \in 1 .. n + 1 : j \in 1 .. n \/ j = n + 1
  BY <1>1
<1>3. \A j \in 1 .. n : j \in 1 .. n + 1
  OBVIOUS
<1>4. CASE w <= b.weight
  <2>1. c = b
    BY <1>4 DEF Heavier
  <2>2. \A j \in 1 .. n + 1 : Weight(o, Available[j]) <= b.weight
    BY <1>2, <1>4 DEF HeaviestOf
  <2>3. ASSUME NEW k \in 1 .. n PROVE \A j \in 1 .. n + 1 : j < k => j \in 1 .. n
    OBVIOUS
  <2>. HIDE DEF c, w
  <2>. QED
    BY <1>3, <2>1, <2>2, <2>3 DEF HeaviestOf, c
<1>5. CASE ~(w <= b.weight)
  <2>1. c = [coding |-> Available[n + 1], weight |-> w]
    BY <1>5 DEF Heavier
  <2>2. b.weight \in Nat /\ b.weight < w /\ w > 0
    BY <1>2, <1>5 DEF HeaviestOf
  <2>3. \A j \in 1 .. n + 1 : Weight(o, Available[j]) <= w /\ (j < n + 1 => Weight(o, Available[j]) < w)
    BY <1>1, <1>2, <2>2 DEF HeaviestOf
  <2>4. n + 1 \in 1 .. n + 1
    OBVIOUS
  <2>5. c.coding = Available[n + 1] /\ c.weight = w
    BY <2>1
  <2>. HIDE DEF c
  <2>. QED
    BY <1>2, <2>2, <2>3, <2>4, <2>5 DEF HeaviestOf, c
<1>. QED
  BY <1>4, <1>5

LEMMA HeaviestIs ==
  ASSUME NEW o \in Offers
  PROVE  HeaviestOf(o, Heaviest(o), Len(Available))
<1>. DEFINE g == HeaviestUpTo(o)
            T == {n \in 0 .. Len(Available) : ~HeaviestOf(o, g[n], n)}
<1>0. Len(Available) \in Nat /\ Len(Available) \in 0 .. Len(Available)
  BY TableIs
<1>1. \A i \in 0 .. Len(Available) : g[i] = IF i = 0 THEN NoBest ELSE Heavier(o, g[i - 1], Available[i])
  BY BestIs DEF IsBest
<1>. HIDE DEF g
<1>2. T = {}
  <2>1. SUFFICES ASSUME T # {} PROVE FALSE
    OBVIOUS
  <2>2. PICK n \in T : \A y \in T : n <= y
    <3>1. T \subseteq Nat
      BY <1>0
    <3>. HIDE DEF T
    <3>. QED
      BY <2>1, <3>1, LeastThereIs
  <2>3. CASE n = 0
    <3>1. g[0] = NoBest
      BY <1>0, <1>1
    <3>2. HeaviestOf(o, NoBest, 0)
      BY DEF HeaviestOf, NoBest
    <3>. QED
      BY <2>2, <2>3, <3>1, <3>2
  <2>4. CASE n # 0
    <3>1. n \in 0 .. Len(Available) /\ n - 1 \in Nat /\ n - 1 < n /\ n - 1 \in 0 .. Len(Available)
          /\ (n - 1) + 1 = n /\ n <= Len(Available)
      BY <1>0, <2>2, <2>4
    <3>2. n - 1 \notin T
      <4>. HIDE DEF T
      <4>. QED
        BY <2>2, <3>1
    <3>3. HeaviestOf(o, g[n - 1], n - 1)
      BY <3>1, <3>2
    <3>. DEFINE m == n - 1
    <3>4. m \in Nat /\ m + 1 = n /\ m + 1 <= Len(Available) /\ HeaviestOf(o, g[m], m)
      BY <3>1, <3>3
    <3>. HIDE DEF m
    <3>5. HeaviestOf(o, Heavier(o, g[m], Available[m + 1]), m + 1)
      BY <3>4, HeavierIs
    <3>6. g[n] = Heavier(o, g[m], Available[m + 1])
      BY <1>1, <2>4, <3>1, <3>4 DEF m
    <3>. QED
      BY <2>2, <3>4, <3>5, <3>6
  <2>. QED
    BY <2>3, <2>4
<1>. QED
  BY <1>0, <1>2 DEF Heaviest, g

LEMMA NegotiatesAsAsked ==
  ASSUME NEW o \in Offers \cup {NoOffer}
  PROVE  AsAsked(o, NegotiateCoding(o)) /\ NegotiateCoding(o) \in Codings \cup {"none"}
<1>1. CASE o = NoOffer
  BY <1>1 DEF NegotiateCoding, AsAsked
<1>2. CASE o # NoOffer
  <2>. DEFINE b == Heaviest(o)
              N == Len(Available)
              id == Weight(o, "identity")
              most == {x \in Codings : \A y \in Codings : Weight(o, y) <= Weight(o, x)}
  <2>1. o \in Offers /\ HeaviestOf(o, b, N) /\ id \in Nat
    BY <1>2, HeaviestIs, Weights DEF Tokens
  <2>2. DOMAIN Available = 1 .. N /\ \A j \in 1 .. N : Available[j] \in Codings /\ Weight(o, Available[j]) \in Nat
    BY <2>1, TableIs, Weights DEF Codings, Tokens
  <2>3. \A x \in Codings : \E j \in 1 .. N : x = Available[j]
    BY TableIs DEF Codings
  <2>. HIDE DEF b, N, id
  <2>4. \A x \in Codings : Weight(o, x) <= b.weight /\ Weight(o, x) \in Nat
    BY <2>1, <2>2, <2>3 DEF HeaviestOf
  <2>5. b.weight \in Nat
    BY <2>1 DEF HeaviestOf
  <2>6. CASE id > b.weight
    <3>1. NegotiateCoding(o) = "none"
      BY <1>2, <2>6 DEF NegotiateCoding, b, id
    <3>2. \A x \in Codings : Weight(o, x) < id
      BY <2>1, <2>4, <2>5, <2>6
    <3>. QED
      BY <3>1, <3>2 DEF AsAsked, id
  <2>7. CASE ~(id > b.weight) /\ b.coding = "none" /\ b.weight = 0
    <3>1. NegotiateCoding(o) = "none"
      BY <1>2, <2>7 DEF NegotiateCoding, b, id
    <3>2. \A x \in Codings : Weight(o, x) = 0
      BY <2>4, <2>7
    <3>. QED
      BY <3>1, <3>2 DEF AsAsked
  <2>8. CASE /\ ~(id > b.weight)
             /\ \E k \in 1 .. N : /\ b.coding = Available[k] /\ b.weight = Weight(o, Available[k]) /\ b.weight > 0
                                  /\ \A j \in 1 .. N : j < k => Weight(o, Available[j]) < b.weight
    <3>1. PICK k \in 1 .. N : /\ b.coding = Available[k] /\ b.weight = Weight(o, Available[k]) /\ b.weight > 0
                              /\ \A j \in 1 .. N : j < k => Weight(o, Available[j]) < b.weight
      BY <2>8
    <3>2. NegotiateCoding(o) = Available[k] /\ Available[k] # "none"
      BY <1>2, <2>2, <2>8, <3>1, TableAssumption DEF NegotiateCoding, b, id
    <3>3. Available[k] \in most /\ \A x \in most : Weight(o, x) = b.weight
      BY <2>2, <2>4, <2>5, <3>1
    <3>4. ASSUME NEW i \in 1 .. N, NEW j \in 1 .. N, Available[i] = Available[k], Available[j] \in most PROVE i <= j
      <4>1. i = k
        BY <2>2, <3>4, TableAssumption
      <4>2. Weight(o, Available[j]) = b.weight
        BY <3>3, <3>4
      <4>3. ~(j < k)
        BY <2>5, <3>1, <4>2
      <4>4. N \in Nat
        BY TableIs DEF N
      <4>. QED
        BY <4>1, <4>3, <4>4
    <3>5. b.weight >= id
      BY <2>1, <2>5, <2>8
    <3>. QED
      BY <2>2, <3>1, <3>2, <3>3, <3>4, <3>5 DEF AsAsked, id
  <2>. QED
    BY <2>1, <2>6, <2>7, <2>8 DEF HeaviestOf
<1>. QED
  BY <1>1, <1>2

-----------------------------------------------------------------------------
(* Where a response stands: nothing is out, it is held below the floor, it    *)
(* goes out as it is, or all of it goes through the codec.                    *)
Declared == start.length # Unstated => produced <= start.length
Unstarted ==
    /\ out = Nothing /\ produced = 0 /\ heldBytes = 0 /\ clear = 0 /\ fed = 0 /\ decodable = 0
    /\ ~appDone /\ ~finished
Withheld ==
    /\ out = Nothing /\ start \in Heads /\ IsCandidate(start) /\ coding \in Codings
    /\ clear = 0 /\ fed = 0 /\ decodable = 0 /\ heldBytes = produced /\ ~finished /\ ~appDone
    /\ heldBytes > 0 => weigh /\ heldBytes < MinimumSize
    /\ Declared
GoesClear ==
    /\ start \in Heads /\ out.sent = TRUE /\ out.coding \in {"none", "own"}
    /\ out.length \in {start.length, Unstated}
    /\ IsCandidate(start) \/ RevalidatesEncodable(start) => out.vary = TRUE
    /\ fed = 0 /\ decodable = 0 /\ clear = produced /\ heldBytes = 0
    /\ Declared
GoesCoded ==
    /\ start \in Heads /\ coding \in Codings
    /\ out.sent = TRUE /\ out.coding = coding /\ out.vary = TRUE /\ out.etag # "strong"
    /\ out.length \in {Unstated, Exact}
    /\ out.length = Exact => finished /\ appDone /\ ~(start.trailers /\ chunked)
    /\ clear = 0 /\ decodable = produced /\ fed = produced /\ heldBytes = 0 /\ produced > 0
CompTyped ==
    /\ mw \in {"waiting", "asked", "holding", "clear", "encoding", "raised"}
    /\ produced \in Nat /\ heldBytes \in Nat /\ clear \in Nat /\ fed \in Nat
    /\ coding \in Codings \cup {"none"}
CompInv ==
    /\ CompTyped
    /\ mw \in {"waiting", "asked"} => Unstarted
    /\ mw = "asked" => AsAsked(offer, coding)
    /\ mw = "holding" => Withheld
    /\ mw = "clear" => GoesClear
    /\ mw \in {"encoding", "raised"} => GoesCoded

ClearHead(head, h, v) ==
    /\ head.sent = TRUE /\ head.coding \in {"none", "own"} /\ head.length \in {h.length, Unstated}
    /\ head.vary = v
CodedHead(head, length) ==
    /\ head.sent = TRUE /\ head.coding = coding /\ head.vary = TRUE /\ head.etag # "strong"
    /\ head.length = length

LEMMA StatedIs ==
  ASSUME NEW h \in Heads, NEW v
  PROVE  /\ ClearHead(AsStated(h, v), h, v)
         /\ ClearHead([AsStated(h, v) EXCEPT !.etag = Weakened(h), !.length = Unstated], h, v)
BY DEF AsStated, ClearHead

LEMMA EncodedIs == ASSUME NEW h \in Heads, NEW length PROVE CodedHead(Encoded(h, length), length)
BY DEF AsStated, Encoded, Weakened, CodedHead

LEMMA RequestedKeeps == ASSUME CompInv, Requested PROVE CompInv'
BY NegotiatesAsAsked DEF Requested, CompInv, CompTyped, Unstarted, app, prefix, sentBody

LEMMA HeadKeeps == ASSUME CompInv, HeadComes PROVE CompInv'
<1>1. PICK h \in Heads :
         /\ start' = h
         /\ \/ /\ RevalidatesEncodable(h)
               /\ out' = IF coding = "none" THEN AsStated(h, TRUE)
                         ELSE [AsStated(h, TRUE) EXCEPT !.etag = Weakened(h), !.length = Unstated]
               /\ mw' = "clear"
            \/ /\ ~RevalidatesEncodable(h) /\ ~IsCandidate(h)
               /\ out' = AsStated(h, FALSE)
               /\ mw' = "clear"
            \/ /\ IsCandidate(h) /\ (coding = "none" \/ BelowFloor(h))
               /\ out' = AsStated(h, TRUE)
               /\ mw' = "clear"
            \/ /\ IsCandidate(h) /\ coding # "none" /\ ~BelowFloor(h)
               /\ out' = Nothing
               /\ mw' = "holding"
  BY DEF HeadComes
<1>2. /\ Unstarted /\ CompTyped /\ coding' = coding /\ weigh' = weigh /\ produced' = 0 /\ appDone' = appDone
      /\ heldBytes' = 0 /\ clear' = 0 /\ fed' = 0 /\ decodable' = 0 /\ finished' = finished
  BY DEF HeadComes, CompInv, app, prefix, sentBody, Unstarted
<1>3. Declared'
  <2>1. h.length \in {Unstated} \cup (0 .. MaxBody)
    BY DEF Heads
  <2>. QED
    BY <1>1, <1>2, <2>1, TableAssumption DEF Declared
<1>4. CASE mw' = "holding"
  <2>1. out' = Nothing /\ IsCandidate(start') /\ coding \in Codings
    BY <1>1, <1>2, <1>4 DEF CompTyped
  <2>. QED
    BY <1>1, <1>2, <1>3, <1>4, <2>1 DEF Unstarted, CompTyped, Withheld, CompInv
<1>5. CASE mw' = "clear"
  <2>1. /\ out'.sent = TRUE /\ out'.coding \in {"none", "own"} /\ out'.length \in {h.length, Unstated}
        /\ (IsCandidate(h) \/ RevalidatesEncodable(h) => out'.vary = TRUE)
    <3>1. ClearHead(out', h, TRUE) \/ (ClearHead(out', h, FALSE) /\ ~RevalidatesEncodable(h) /\ ~IsCandidate(h))
      <4>1. /\ ClearHead(AsStated(h, TRUE), h, TRUE) /\ ClearHead(AsStated(h, FALSE), h, FALSE)
            /\ ClearHead([AsStated(h, TRUE) EXCEPT !.etag = Weakened(h), !.length = Unstated], h, TRUE)
        BY <1>1, StatedIs
      <4>2. out' \in {AsStated(h, TRUE), [AsStated(h, TRUE) EXCEPT !.etag = Weakened(h), !.length = Unstated]}
            \/ (out' = AsStated(h, FALSE) /\ ~RevalidatesEncodable(h) /\ ~IsCandidate(h))
        BY <1>1, <1>5
      <4>. QED
        BY <4>1, <4>2
    <3>. QED
      BY <3>1 DEF ClearHead
  <2>2. GoesClear'
    BY <1>1, <1>2, <1>3, <2>1 DEF GoesClear
  <2>. QED
    BY <1>2, <1>5, <2>2 DEF CompTyped, CompInv
<1>. QED
  BY <1>1, <1>4, <1>5

(* What the application yields stays within what it declared.                 *)
LEMMA YieldsWithin ==
  ASSUME CompInv, NEW n \in 0 .. 2, NEW more, AppYields(n, more), start' = start
  PROVE  Declared' /\ produced' = produced + n /\ produced' \in Nat /\ produced \in Nat /\ n \in Nat
BY DEF AppYields, Declared, CompInv, CompTyped

LEMMA PassesKeeps == ASSUME CompInv, NEW n \in 0 .. 2, NEW more \in BOOLEAN, Passes(n, more) PROVE CompInv'
<1>1. GoesClear /\ CompTyped /\ mw = "clear" /\ mw' = "clear" /\ clear' = clear + n /\ out' = out
      /\ start' = start /\ coding' = coding /\ heldBytes' = heldBytes /\ fed' = fed /\ decodable' = decodable
      /\ AppYields(n, more)
  BY DEF Passes, CompInv, prefix
<1>2. Declared' /\ produced' = produced + n /\ produced' \in Nat
  BY <1>1, YieldsWithin
<1>3. GoesClear'
  BY <1>1, <1>2 DEF GoesClear
<1>. QED
  BY <1>1, <1>2, <1>3 DEF CompInv, CompTyped, GoesClear

LEMMA HoldsKeeps == ASSUME CompInv, NEW n \in 0 .. 2, Holds(n) PROVE CompInv'
<1>1. Withheld /\ CompTyped /\ mw = "holding" /\ mw' = "holding" /\ heldBytes' = heldBytes + n /\ out' = out
      /\ start' = start /\ coding' = coding /\ clear' = clear /\ fed' = fed /\ decodable' = decodable
      /\ finished' = finished /\ weigh' = weigh /\ AppYields(n, TRUE)
      /\ (heldBytes + n = 0 \/ heldBytes + n < HoldUpTo)
  BY DEF Holds, CompInv, sentBody, request
<1>2. Declared' /\ produced' = produced + n /\ produced' \in Nat /\ n \in Nat /\ ~appDone'
  BY <1>1, YieldsWithin DEF AppYields
<1>3. heldBytes + n > 0 => weigh /\ heldBytes + n < MinimumSize
  BY <1>1, <1>2, TableAssumption DEF HoldUpTo, CompTyped
<1>4. Withheld'
  BY <1>1, <1>2, <1>3 DEF Withheld
<1>. QED
  BY <1>1, <1>2, <1>4 DEF CompInv, CompTyped, Withheld

LEMMA WholeKeeps == ASSUME CompInv, NEW n \in 0 .. 2, Whole(n) PROVE CompInv'
<1>. DEFINE size == heldBytes + n
            small == size = 0 \/ size < MinimumSize
            l == IF start.trailers /\ chunked THEN Unstated ELSE Exact
<1>1. Withheld /\ CompTyped /\ mw = "holding" /\ start' = start /\ coding' = coding /\ heldBytes' = 0
      /\ finished' = TRUE /\ chunked' = chunked /\ AppYields(n, FALSE)
  BY DEF Whole, CompInv, request, ReleasesHeld
<1>2. Declared' /\ produced' = size /\ produced' \in Nat /\ n \in Nat /\ appDone'
  BY <1>1, YieldsWithin DEF AppYields, Withheld
<1>3. out' = (IF small THEN AsStated(start, TRUE) ELSE Encoded(start, l))
      /\ clear' = (IF small THEN size ELSE 0) /\ fed' = (IF small THEN 0 ELSE size) /\ decodable' = fed'
      /\ mw' = IF small THEN "clear" ELSE "encoding"
  BY DEF Whole, ReleasesHeld
<1>. HIDE DEF size, small, l
<1>4. CASE small
  <2>0. ClearHead(out', start, TRUE)
    BY <1>1, <1>3, <1>4, StatedIs DEF Withheld
  <2>1. GoesClear'
    BY <1>1, <1>2, <1>3, <1>4, <2>0 DEF GoesClear, Withheld, ClearHead
  <2>. QED
    BY <1>1, <1>2, <1>3, <1>4, <2>1 DEF CompInv, CompTyped
<1>5. CASE ~small
  <2>1. out' = Encoded(start, l)
    BY <1>3, <1>5
  <2>2. out'.sent = TRUE /\ out'.coding = coding /\ out'.vary = TRUE /\ out'.etag # "strong" /\ out'.length = l
    BY <1>1, <2>1, EncodedIs DEF Withheld, CodedHead
  <2>3. l \in {Unstated, Exact} /\ (l = Exact => ~(start.trailers /\ chunked))
    BY TableAssumption DEF l
  <2>5. produced' > 0
    BY <1>1, <1>2, <1>5 DEF small, size, Withheld, CompTyped
  <2>4. GoesCoded'
    BY <1>1, <1>2, <1>3, <1>5, <2>2, <2>3, <2>5 DEF GoesCoded, Withheld
  <2>. QED
    BY <1>1, <1>2, <1>3, <1>5, <2>4 DEF CompInv, CompTyped
<1>. QED
  BY <1>4, <1>5

LEMMA CommitsKeeps == ASSUME CompInv, NEW n \in 0 .. 2, CommitsToCoding(n) PROVE CompInv'
<1>1. Withheld /\ CompTyped /\ mw = "holding" /\ start' = start /\ coding' = coding /\ heldBytes' = 0
      /\ AppYields(n, TRUE)
  BY DEF CommitsToCoding, CompInv, ReleasesHeld
<1>2. Declared' /\ produced' = heldBytes + n /\ produced' \in Nat /\ n \in Nat
  BY <1>1, YieldsWithin DEF Withheld
<1>3. CASE /\ out' = Encoded(start, Unstated) /\ fed' = heldBytes + n /\ decodable' = heldBytes + n
           /\ mw' = "encoding" /\ clear' = clear
  <2>1. out'.sent = TRUE /\ out'.coding = coding /\ out'.vary = TRUE /\ out'.etag # "strong" /\ out'.length = Unstated
    BY <1>1, <1>3, EncodedIs DEF Withheld, CodedHead
  <2>3. produced' > 0
    BY <1>2 DEF CommitsToCoding
  <2>2. GoesCoded'
    BY <1>1, <1>2, <1>3, <2>1, <2>3, TableAssumption DEF GoesCoded, Withheld
  <2>. QED
    BY <1>1, <1>2, <1>3, <2>2 DEF CompInv, CompTyped, Withheld
<1>4. CASE /\ out' = AsStated(start, TRUE) /\ clear' = heldBytes + n /\ mw' = "clear" /\ fed' = fed /\ decodable' = decodable
  <2>0. ClearHead(out', start, TRUE)
    BY <1>1, <1>4, StatedIs DEF Withheld
  <2>1. GoesClear'
    BY <1>1, <1>2, <1>4, <2>0 DEF GoesClear, Withheld, ClearHead
  <2>. QED
    BY <1>1, <1>2, <1>4, <2>1 DEF CompInv, CompTyped, Withheld
<1>. QED
  BY <1>3, <1>4 DEF CommitsToCoding, ReleasesHeld, Delivers

LEMMA EncodesKeeps == ASSUME CompInv, NEW n \in 0 .. 2, NEW more \in BOOLEAN, Encodes(n, more) PROVE CompInv'
<1>1. GoesCoded /\ CompTyped /\ mw = "encoding" /\ mw' = "encoding" /\ fed' = fed + n /\ decodable' = fed + n
      /\ start' = start /\ coding' = coding /\ heldBytes' = heldBytes /\ clear' = clear /\ out' = out
      /\ chunked' = chunked /\ AppYields(n, more)
  BY DEF Encodes, Delivers, CompInv, prefix, request
<1>2. produced' = produced + n /\ produced' \in Nat /\ n \in Nat /\ produced \in Nat
  BY <1>1, YieldsWithin
<1>3. out.length # Exact
  BY <1>1 DEF GoesCoded, AppYields
<1>4. GoesCoded'
  BY <1>1, <1>2, <1>3 DEF GoesCoded
<1>. QED
  BY <1>1, <1>2, <1>4 DEF CompInv, CompTyped, GoesCoded

LEMMA PushesKeeps == ASSUME CompInv, Pushes PROVE CompInv'
BY DEF Pushes, CompInv, CompTyped, Withheld, Declared, request, app, sentBody

LEMMA OffloadsKeeps == ASSUME CompInv, Offloads PROVE CompInv'
<1>1. CompTyped /\ start' = start /\ coding' = coding /\ produced' = produced /\ fed' = fed /\ decodable' = decodable
      /\ clear' = clear + heldBytes /\ mw' = "clear" /\ (mw = "holding" \/ mw = "clear")
  BY DEF Offloads, CompInv
<1>2. CASE mw = "holding"
  <2>1. Withheld /\ out' = AsStated(start, TRUE) /\ heldBytes' = 0
    BY <1>2 DEF Offloads, ReleasesHeld, CompInv
  <2>0. ClearHead(out', start, TRUE)
    BY <2>1, StatedIs DEF Withheld
  <2>3. clear' = produced' /\ fed' = 0 /\ decodable' = 0 /\ heldBytes' = 0 /\ produced' = produced
    BY <1>1, <2>1 DEF Withheld, CompTyped
  <2>4. start \in Heads /\ Declared' /\ start' = start
    BY <1>1, <2>1 DEF Withheld, Declared
  <2>2. GoesClear'
    BY <2>0, <2>3, <2>4 DEF GoesClear, ClearHead
  <2>. QED
    BY <1>1, <2>1, <2>2 DEF CompInv, CompTyped, Withheld
<1>3. CASE mw = "clear"
  <2>1. GoesClear /\ out' = out /\ heldBytes' = heldBytes
    BY <1>3 DEF Offloads, prefix, CompInv
  <2>2. GoesClear'
    BY <1>1, <2>1 DEF GoesClear, Declared, CompTyped
  <2>. QED
    BY <1>1, <2>1, <2>2 DEF CompInv, CompTyped, GoesClear
<1>. QED
  BY <1>1, <1>2, <1>3

LEMMA TooLateKeeps == ASSUME CompInv, OffloadsTooLate PROVE CompInv'
BY DEF OffloadsTooLate, CompInv, CompTyped, GoesCoded, request, prefix, sentBody

LEMMA ShortKeeps == ASSUME CompInv, EndsShort PROVE CompInv'
<1>1. CompTyped /\ start' = start /\ coding' = coding /\ produced' = produced /\ fed' = fed /\ decodable' = decodable
      /\ clear' = clear + heldBytes /\ mw' = (IF mw = "holding" THEN "clear" ELSE mw) /\ finished' = finished
      /\ mw \in {"holding", "encoding", "clear"} /\ ~appDone /\ chunked' = chunked
  BY DEF EndsShort, CompInv, request
<1>2. CASE mw = "holding"
  <2>1. Withheld /\ out' = AsStated(start, TRUE) /\ heldBytes' = 0
    BY <1>2 DEF EndsShort, ReleasesHeld, CompInv
  <2>0. ClearHead(out', start, TRUE)
    BY <2>1, StatedIs DEF Withheld
  <2>3. clear' = produced' /\ fed' = 0 /\ decodable' = 0 /\ heldBytes' = 0 /\ produced' = produced
    BY <1>1, <2>1 DEF Withheld, CompTyped
  <2>4. start \in Heads /\ Declared' /\ start' = start
    BY <1>1, <2>1 DEF Withheld, Declared
  <2>2. GoesClear'
    BY <2>0, <2>3, <2>4 DEF GoesClear, ClearHead
  <2>. QED
    BY <1>1, <1>2, <2>1, <2>2 DEF CompInv, CompTyped, Withheld
<1>3. CASE mw = "clear"
  <2>1. GoesClear /\ out' = out /\ heldBytes' = heldBytes
    BY <1>3 DEF EndsShort, prefix, CompInv
  <2>2. GoesClear'
    BY <1>1, <2>1 DEF GoesClear, Declared, CompTyped
  <2>. QED
    BY <1>1, <1>3, <2>1, <2>2 DEF CompInv, CompTyped, GoesClear
<1>4. CASE mw = "encoding"
  <2>1. GoesCoded /\ out' = out /\ heldBytes' = heldBytes
    BY <1>4 DEF EndsShort, prefix, CompInv
  <2>2. GoesCoded'
    BY <1>1, <2>1 DEF GoesCoded, CompTyped
  <2>. QED
    BY <1>1, <1>4, <2>1, <2>2 DEF CompInv, CompTyped, GoesCoded
<1>. QED
  BY <1>1, <1>2, <1>3, <1>4

THEOREM CompressionInvariant == CompSpec => []CompInv
<1>1. CompInit => CompInv
  BY DEF CompInit, CompInv, CompTyped, Unstarted
<1>2. CompInv /\ [CompNext]_compVars => CompInv'
  <2>. SUFFICES ASSUME CompInv, [CompNext]_compVars PROVE CompInv'
    OBVIOUS
  <2>1. CASE UNCHANGED compVars
    BY <2>1 DEF compVars, request, app, prefix, sentBody, CompInv, CompTyped, Unstarted, Withheld, GoesClear,
                GoesCoded, Declared
  <2>2. CASE Requested \/ HeadComes \/ Pushes \/ Offloads \/ OffloadsTooLate \/ EndsShort
    BY <2>2, RequestedKeeps, HeadKeeps, PushesKeeps, OffloadsKeeps, TooLateKeeps, ShortKeeps
  <2>3. ASSUME NEW n \in 0 .. 2, Holds(n) \/ Whole(n) \/ CommitsToCoding(n) PROVE CompInv'
    BY <2>3, HoldsKeeps, WholeKeeps, CommitsKeeps
  <2>4. ASSUME NEW n \in 0 .. 2, NEW more \in BOOLEAN, Passes(n, more) \/ Encodes(n, more) PROVE CompInv'
    BY <2>4, PassesKeeps, EncodesKeeps
  <2>. QED
    BY <2>1, <2>2, <2>3, <2>4 DEF CompNext
<1>. QED
  BY <1>1, <1>2, PTL DEF CompSpec

(* The coding of a response is what its request asked for, and its head and   *)
(* its body agree, whatever the application yields, pushes, offloads or       *)
(* leaves out (negotiate_coding, rewritten and _deliverable of compression.py). *)
THEOREM CodedAsAgreed == CompSpec => []EncodedAsAgreed
<1>1. CompInv => EncodedAsAgreed
  <2>. SUFFICES ASSUME CompInv PROVE EncodedAsAgreed
    OBVIOUS
  <2>1. "none" \notin Codings /\ "own" \notin Codings /\ Exact # Unstated
    BY TableAssumption
  <2>2. Nothing.sent = FALSE /\ Nothing.coding = "none"
    BY DEF Nothing
  <2>3. CASE mw \in {"waiting", "asked"}
    BY <2>1, <2>2, <2>3 DEF CompInv, Unstarted, EncodedAsAgreed
  <2>4. CASE mw = "holding"
    BY <2>1, <2>2, <2>4 DEF CompInv, Withheld, EncodedAsAgreed
  <2>5. CASE mw = "clear"
    BY <2>1, <2>5 DEF CompInv, CompTyped, GoesClear, Declared, EncodedAsAgreed
  <2>6. CASE mw \in {"encoding", "raised"}
    BY <2>1, <2>6 DEF CompInv, CompTyped, GoesCoded, EncodedAsAgreed
  <2>. QED
    BY <2>3, <2>4, <2>5, <2>6 DEF CompInv, CompTyped
<1>. QED
  BY <1>1, CompressionInvariant, PTL

-----------------------------------------------------------------------------
(* Files: any sizes, any clock, any number of writes, asks and ranges.        *)
Copies == 1 .. Len(versions)
Version == [size : Nat, mtime : Nat]
Fields == {"stage", "status", "first", "count", "size", "sent", "tag", "date", "coding", "gz",
           "asOf", "body", "probe", "range", "byTag", "byDate"}
Built(r) == r = [x \in Fields |-> r[x]]
CopyFields == {"bytes", "total", "tag", "date", "coding", "gz", "disturbed", "byDate"}
WholeCopy(c) == c = [x \in CopyFields |-> c[x]]

Asked == reply.stage \in {"decided", "answered", "streaming"}

FilesTyped ==
    /\ helper \in {"handed", "named"} \cup Assets
    /\ moment \in Nat
    /\ versions \in Seq(Version) /\ Len(versions) > 0
    /\ stored \in {0, Len(versions)}
    /\ sidecar \subseteq [version : Copies, mtime : Nat]
    /\ \A e \in stock : e.version \in Copies
    /\ \A e \in stock : \A x \in e.variants : x.version \in Copies
    /\ \A e, f \in stock : e = f
    /\ handle \in [version : Nat, named : BOOLEAN]

(* What was written later is not older; nor is what the build left behind.    *)
TimesRise ==
    /\ \A v \in Copies : versions[v].mtime <= moment
    /\ \A v, w \in Copies : v <= w => versions[v].mtime <= versions[w].mtime
SidecarsRise ==
    \A x \in sidecar :
      /\ x.mtime <= moment
      /\ \A w \in Copies : x.version < w => x.mtime <= versions[w].mtime

(* A response bears the validators of the version it was decided for, and     *)
(* reads that one or a later one.                                             *)
ReplyKept ==
    Asked =>
      /\ Built(reply)
      /\ reply.asOf \in Copies /\ reply.sent \in Nat /\ reply.body \in Nat /\ reply.first \in Int
      /\ reply.tag = Validator(reply.asOf, reply.coding) /\ reply.date = DateOf(reply.asOf)
      /\ helper \in Assets => \A e \in stock : reply.asOf <= e.version
      /\ helper \notin Assets => reply.coding = "identity"
      /\ reply.stage = "decided" => reply.sent = 0 /\ reply.status \in {200, 206}
      /\ reply.stage = "decided" /\ reply.status = 200 => reply.first = 0

HandleKept ==
    reply.stage = "streaming" /\ ~FromMemory =>
      handle.version \in Copies /\ reply.asOf <= handle.version

(* A copy is of the version whose validators it bears, with what is known to  *)
(* mix it; a response that goes on with it is of that version too.            *)
Mixed(c) == (c.byDate /\ DatesTie) \/ (helper = "stamped" /\ StampsTie)
AllOf(c, v) == \A i \in DOMAIN c.bytes : c.bytes[i][1] = v
Continues == ~reply.probe /\ (reply.stage = "streaming" \/ (reply.stage = "decided" /\ reply.status = 206))
Meets(c, v) ==
    /\ reply.asOf = v \/ (reply.byDate /\ DatesTie) \/ (helper = "stamped" /\ StampsTie)
    /\ Held(c) \/ Len(c.bytes) = reply.first + reply.sent
IsOf(c, v) ==
    /\ c.tag = Validator(v, c.coding) /\ c.date = DateOf(v)
    /\ helper \in Assets => \A e \in stock : v <= e.version
    /\ AllOf(c, v) \/ c.disturbed \/ Mixed(c)
    /\ c.disturbed /\ helper \notin Assets => v < Len(versions) \/ DatesTie
    /\ Continues => Meets(c, v)
CopyKept ==
    /\ \A c, d \in copy : c = d
    /\ \A c \in copy :
         /\ WholeCopy(c)
         /\ c.bytes \in Seq(Nat \X Int)
         /\ \A i \in DOMAIN c.bytes : c.bytes[i][2] = i - 1
         /\ \E v \in Copies : IsOf(c, v)

(* The inductive invariant.                                                   *)
FilesInv ==
    /\ FilesTyped /\ TimesRise /\ SidecarsRise
    /\ ReplyKept /\ HandleKept /\ CopyKept
    /\ FramedAsDeclared /\ ConfirmedIsCurrent /\ VariantsEncodeTheAsset

-----------------------------------------------------------------------------
LEMMA DivRises ==
  ASSUME NEW m \in Nat, NEW n \in Nat, m <= n, NEW k \in Nat \ {0}
  PROVE  m \div k <= n \div k /\ m \div k \in Int /\ n \div k \in Int
BY SMT

LEMMA DatesTieIs ==
  DatesTie <=> \E v, w \in DOMAIN versions :
                 v # w /\ (versions[v].mtime \div Coarse = versions[w].mtime \div Coarse)
BY DEF DatesTie, TwoOf

LEMMA StampsTieIs ==
  StampsTie <=> \E v, w \in DOMAIN versions : v # w /\ versions[v] = versions[w]
BY DEF StampsTie, TwoOf

LEMMA PlacesAre ==
  ASSUME FilesTyped
  PROVE  /\ DOMAIN versions = Copies /\ Len(versions) \in Nat /\ Len(versions) \in Copies
         /\ \A v \in Copies : v \in Nat /\ versions[v] \in Version
                              /\ versions[v].size \in Nat /\ versions[v].mtime \in Nat
         /\ stored # 0 => stored \in Copies /\ \A v \in Copies : v <= stored
<1>1. DOMAIN versions = Copies /\ Len(versions) \in Nat /\ \A v \in Copies : versions[v] \in Version
  BY DEF FilesTyped, Copies
<1>2. \A x \in Version : x.size \in Nat /\ x.mtime \in Nat
  BY DEF Version
<1>3. Len(versions) \in Copies /\ \A v \in Copies : v \in Nat /\ v <= Len(versions)
  <2>1. Len(versions) \in Nat /\ Len(versions) > 0
    BY DEF FilesTyped
  <2>. QED
    BY <2>1 DEF Copies
<1>. QED
  BY <1>1, <1>2, <1>3 DEF FilesTyped

(* Validators that agree are of one version, or of two that tie.              *)
LEMMA TagsTell ==
  ASSUME FilesTyped, NEW v \in Copies, NEW w \in Copies, NEW x, NEW y,
         Validator(v, x) = Validator(w, y)
  PROVE  /\ x = y
         /\ v = w \/ (StampsTie /\ helper # "hashed")
<1>1. x = y /\ Stamp(v) = Stamp(w)
  BY DEF Validator
<1>2. CASE helper = "hashed"
  <2>1. Stamp(v)[1] = v /\ Stamp(w)[1] = w
    BY <1>2 DEF Stamp
  <2>. QED
    BY <1>1, <2>1
<1>3. CASE helper # "hashed"
  <2>1. Stamp(v)[1] = versions[v].size /\ Stamp(v)[2] = versions[v].mtime
        /\ Stamp(w)[1] = versions[w].size /\ Stamp(w)[2] = versions[w].mtime
    BY <1>3 DEF Stamp
  <2>2. versions[v] \in Version /\ versions[w] \in Version /\ v \in DOMAIN versions /\ w \in DOMAIN versions
    BY PlacesAre
  <2>3. versions[v] = versions[w]
    BY <1>1, <2>1, <2>2 DEF Version
  <2>4. v = w \/ StampsTie
    BY <2>2, <2>3, StampsTieIs
  <2>. QED
    BY <1>1, <1>3, <2>4
<1>. QED
  BY <1>2, <1>3

LEMMA DatesTell ==
  ASSUME FilesTyped, NEW v \in Copies, NEW w \in Copies, DateOf(v) = DateOf(w)
  PROVE  v = w \/ DatesTie
BY PlacesAre, DatesTieIs DEF DateOf

LEMMA StampsDate == ASSUME FilesTyped, StampsTie PROVE DatesTie
<1>1. PICK v, w \in DOMAIN versions : v # w /\ versions[v] = versions[w]
  BY StampsTieIs
<1>2. versions[v].mtime \div Coarse = versions[w].mtime \div Coarse
  BY <1>1
<1>. QED
  BY <1>1, <1>2, DatesTieIs

LEMMA DatesRise ==
  ASSUME FilesTyped, TimesRise, NEW v \in Copies, NEW w \in Copies, v <= w
  PROVE  DateOf(v) <= DateOf(w) /\ DateOf(v) \in Int /\ DateOf(w) \in Int
<1>1. versions[v].mtime \in Nat /\ versions[w].mtime \in Nat /\ versions[v].mtime <= versions[w].mtime
  BY PlacesAre DEF TimesRise
<1>. QED
  BY <1>1, DivRises, FilesAssumption DEF DateOf

-----------------------------------------------------------------------------
(* Records: what a response and a copy are made of.                           *)
LEMMA StageSet ==
  ASSUME NEW r, Built(r), NEW x
  PROVE  LET q == [r EXCEPT !.stage = x]
         IN  /\ Built(q) /\ q.stage = x
             /\ \A f \in Fields : f # "stage" => q[f] = r[f]
<1>. DEFINE q == [r EXCEPT !.stage = x]
<1>1. DOMAIN r = Fields /\ "stage" \in Fields
  BY DEF Built, Fields
<1>2. \A f \in Fields : q[f] = IF f = "stage" THEN x ELSE r[f]
  BY <1>1, Zenon
<1>3. DOMAIN q = Fields
  BY <1>1
<1>4. q = [f \in Fields |-> q[f]]
  BY <1>3
<1>. HIDE DEF q
<1>. QED
  BY <1>1, <1>2, <1>4 DEF Built

LEMMA SentSet ==
  ASSUME NEW r, Built(r)
  PROVE  LET q == [r EXCEPT !.sent = @ + 1]
         IN  /\ Built(q) /\ q.sent = r.sent + 1
             /\ \A f \in Fields : f # "sent" => q[f] = r[f]
<1>. DEFINE q == [r EXCEPT !.sent = @ + 1]
<1>1. DOMAIN r = Fields /\ "sent" \in Fields
  BY DEF Built, Fields
<1>2. \A f \in Fields : q[f] = IF f = "sent" THEN r.sent + 1 ELSE r[f]
  BY <1>1, Zenon
<1>3. DOMAIN q = Fields
  BY <1>1
<1>4. q = [f \in Fields |-> q[f]]
  BY <1>3
<1>. HIDE DEF q
<1>. QED
  BY <1>1, <1>2, <1>4 DEF Built

Made(stage, status, first, count, size, tag, date, code, gz, asOf, body, probe, range, byTag, byDate) ==
    [stage |-> stage, status |-> status, first |-> first, count |-> count, size |-> size,
     sent |-> 0, tag |-> tag, date |-> date, coding |-> code, gz |-> gz, asOf |-> asOf,
     body |-> body, probe |-> probe, range |-> range, byTag |-> byTag, byDate |-> byDate]

LEMMA WholeReply ==
  ASSUME NEW a1, NEW a2, NEW a3, NEW a4, NEW a5, NEW a6, NEW a7, NEW a8,
         NEW a9, NEW a10, NEW a11, NEW a12, NEW a13, NEW a14, NEW a15, NEW r,
         r = Made(a1, a2, a3, a4, a5, a6, a7, a8, a9, a10, a11, a12, a13, a14, a15)
  PROVE  /\ Built(r)
         /\ r.stage = a1 /\ r.status = a2 /\ r.first = a3 /\ r.count = a4 /\ r.size = a5
         /\ r.sent = 0 /\ r.tag = a6 /\ r.date = a7 /\ r.coding = a8 /\ r.asOf = a10
         /\ r.body = a11 /\ r.probe = a12 /\ r.range = a13 /\ r.byTag = a14 /\ r.byDate = a15
BY DEF Built, Fields, Made

WithByte(c, b, d, e) == [c EXCEPT !.bytes = b, !.disturbed = d, !.byDate = e]

LEMMA CopySet ==
  ASSUME NEW c, WholeCopy(c), NEW b, NEW d, NEW e
  PROVE  /\ WholeCopy(WithByte(c, b, d, e)) /\ WithByte(c, b, d, e).bytes = b
         /\ WithByte(c, b, d, e).disturbed = d /\ WithByte(c, b, d, e).byDate = e
         /\ WithByte(c, b, d, e).total = c.total /\ WithByte(c, b, d, e).tag = c.tag
         /\ WithByte(c, b, d, e).date = c.date /\ WithByte(c, b, d, e).coding = c.coding
<1>. DEFINE q == WithByte(c, b, d, e)
<1>1. DOMAIN c = CopyFields
  BY DEF WholeCopy
<1>2. \A f \in CopyFields : q[f] = IF f = "byDate" THEN e ELSE IF f = "disturbed" THEN d
                                   ELSE IF f = "bytes" THEN b ELSE c[f]
  BY <1>1 DEF WithByte
<1>3. DOMAIN q = CopyFields
  BY <1>1 DEF WithByte
<1>4. q = [f \in CopyFields |-> q[f]]
  BY <1>3 DEF WithByte
<1>5. q.bytes = b /\ q.disturbed = d /\ q.byDate = e
      /\ q.total = c.total /\ q.tag = c.tag /\ q.date = c.date /\ q.coding = c.coding
  <2>. HIDE DEF q
  <2>. QED
    BY <1>2 DEF CopyFields
<1>. QED
  BY <1>4, <1>5 DEF WholeCopy

LEMMA WholeFresh ==
  ASSUME NEW b, NEW n, NEW t, NEW d, NEW x, NEW z
  PROVE  LET c == [bytes |-> b, total |-> n, tag |-> t, date |-> d, coding |-> x, gz |-> z,
                   disturbed |-> FALSE, byDate |-> FALSE]
         IN  /\ WholeCopy(c) /\ c.bytes = b /\ c.tag = t /\ c.date = d /\ c.coding = x
             /\ ~c.disturbed /\ ~c.byDate
BY DEF WholeCopy, CopyFields

-----------------------------------------------------------------------------
(* Versions only become more, and what two of them share they share for good. *)
Grown ==
    /\ helper' = helper /\ FilesTyped /\ FilesTyped'
    /\ Len(versions) <= Len(versions')
    /\ \A v \in Copies : versions'[v] = versions[v]

LEMMA GrownKeeps ==
  ASSUME Grown
  PROVE  /\ Copies \subseteq Copies'
         /\ \A v \in Copies : \A x : Validator(v, x)' = Validator(v, x)
         /\ \A v \in Copies : DateOf(v)' = DateOf(v)
         /\ DatesTie => DatesTie'
         /\ StampsTie => StampsTie'
<1>1. FilesTyped /\ FilesTyped' /\ Len(versions) \in Nat /\ Len(versions') \in Nat
      /\ Len(versions) <= Len(versions') /\ DOMAIN versions = Copies /\ DOMAIN versions' = Copies'
  BY DEF Grown, FilesTyped, Copies
<1>2. Copies \subseteq Copies'
  BY <1>1 DEF Copies
<1>3. helper' = helper /\ \A v \in Copies : versions'[v] = versions[v]
  BY DEF Grown
<1>4. ASSUME DatesTie PROVE DatesTie'
  <2>1. PICK v, w \in DOMAIN versions : v # w /\ (versions[v].mtime \div Coarse = versions[w].mtime \div Coarse)
    BY <1>4, DatesTieIs
  <2>2. versions'[v] = versions[v] /\ versions'[w] = versions[w] /\ v \in DOMAIN versions' /\ w \in DOMAIN versions'
    BY <1>1, <1>2, <1>3
  <2>3. versions'[v].mtime \div Coarse = versions'[w].mtime \div Coarse
    BY <2>1, <2>2
  <2>. QED
    BY <2>1, <2>2, <2>3 DEF DatesTie, TwoOf
<1>5. ASSUME StampsTie PROVE StampsTie'
  <2>1. PICK v, w \in DOMAIN versions : v # w /\ versions[v] = versions[w]
    BY <1>5, StampsTieIs
  <2>2. versions'[v] = versions[v] /\ versions'[w] = versions[w] /\ v \in DOMAIN versions' /\ w \in DOMAIN versions'
    BY <1>1, <1>2, <1>3
  <2>. QED
    BY <2>1, <2>2 DEF StampsTie, TwoOf
<1>6. \A v \in Copies : Stamp(v)' = Stamp(v)
  BY <1>3 DEF Stamp
<1>7. \A v \in Copies : \A x : Validator(v, x)' = Validator(v, x)
  BY <1>3, <1>6 DEF Validator
<1>8. \A v \in Copies : DateOf(v)' = DateOf(v)
  BY <1>3 DEF DateOf
<1>. QED
  BY <1>2, <1>4, <1>5, <1>7, <1>8

LEMMA FramedStands ==
  ASSUME FramedAsDeclared, helper' = helper, reply' = reply PROVE FramedAsDeclared'
BY DEF FramedAsDeclared

(* What others write leaves the response and the copy as they were.           *)
LEMMA WritersKeep ==
  ASSUME FilesInv, Grown, copy' = copy, reply' = reply,
         stock' = stock \/ \A e \in stock' : \A v \in Copies : v <= e.version
  PROVE  ReplyKept' /\ CopyKept' /\ FramedAsDeclared' /\ ConfirmedIsCurrent'
<1>0. helper' = helper
  BY DEF Grown
<1>1. ReplyKept'
  <2>1. ReplyKept /\ reply' = reply
    BY DEF FilesInv
  <2>2. Asked' = Asked
    BY DEF Asked
  <2>3. SUFFICES ASSUME Asked PROVE ReplyKept'
    BY <2>2 DEF ReplyKept
  <2>4. reply.asOf \in Copies
    BY <2>1, <2>3 DEF ReplyKept
  <2>5. (reply.tag = Validator(reply.asOf, reply.coding) /\ reply.date = DateOf(reply.asOf))'
    <3>1. reply.tag = Validator(reply.asOf, reply.coding) /\ reply.date = DateOf(reply.asOf)
      BY <2>1, <2>3 DEF ReplyKept
    <3>2. versions'[reply.asOf] = versions[reply.asOf]
      BY <2>4 DEF Grown
    <3>. QED
      BY <1>0, <2>1, <3>1, <3>2 DEF Validator, Stamp, DateOf
  <2>6. helper \in Assets => \A e \in stock' : reply.asOf <= e.version
    BY <2>1, <2>3, <2>4 DEF ReplyKept
  <2>7. reply'.asOf \in Copies'
    BY <2>1, <2>4, GrownKeeps
  <2>. QED
    BY <1>0, <2>1, <2>3, <2>5, <2>6, <2>7 DEF ReplyKept
<1>2. CopyKept'
  <2>1. CopyKept
    BY DEF FilesInv
  <2>2. ASSUME NEW c \in copy, NEW v \in Copies, IsOf(c, v) PROVE v \in Copies' /\ IsOf(c, v)'
    <3>1. v \in Copies' /\ v \in Copies /\ Len(versions) \in Nat /\ Len(versions') \in Nat
          /\ Len(versions) <= Len(versions') /\ v \in Nat
      BY GrownKeeps, PlacesAre DEF FilesTyped, Grown
    <3>2. c.tag = Validator(v, c.coding)' /\ c.date = DateOf(v)'
      BY <2>2, <3>1, GrownKeeps DEF IsOf
    <3>3. helper \in Assets => \A e \in stock' : v <= e.version
      BY <2>2, <3>1 DEF IsOf
    <3>4. Mixed(c) => Mixed(c)'
      BY <1>0, GrownKeeps DEF Mixed
    <3>5. v < Len(versions) \/ DatesTie => v < Len(versions') \/ DatesTie'
      BY <3>1, GrownKeeps
    <3>6. Continues' = Continues
      BY DEF Continues
    <3>7. Meets(c, v) => Meets(c, v)'
      BY <1>0, GrownKeeps DEF Meets
    <3>. QED
      BY <1>0, <2>2, <3>1, <3>2, <3>3, <3>4, <3>5, <3>6, <3>7 DEF IsOf
  <2>. QED
    BY <2>1, <2>2 DEF CopyKept
<1>3. FramedAsDeclared'
  BY <1>0, FramedStands DEF FilesInv
<1>4. ConfirmedIsCurrent'
  <2>1. ConfirmedIsCurrent
    BY DEF FilesInv
  <2>. QED
    BY <1>0, <2>1, GrownKeeps DEF ConfirmedIsCurrent
<1>. QED
  BY <1>1, <1>2, <1>3, <1>4

LEMMA WritesFileKeeps ==
  ASSUME FilesInv, NEW inPlace \in BOOLEAN, WritesFile(inPlace) PROVE FilesInv'
<1>. DEFINE N == Len(versions)
<1>1. PICK n \in Sizes : versions' = Append(versions, [size |-> n, mtime |-> moment'])
  BY DEF WritesFile
<1>2. moment \in Nat /\ moment' \in Nat /\ moment <= moment' /\ n \in Nat
  BY FilesAssumption DEF WritesFile, FilesInv, FilesTyped
<1>3. FilesTyped /\ versions \in Seq(Version) /\ N \in Nat /\ N > 0
  BY DEF FilesInv, FilesTyped
<1>. DEFINE new == [size |-> n, mtime |-> moment']
<1>4. new \in Version /\ new.mtime = moment'
  BY <1>2 DEF Version
<1>. HIDE DEF new
<1>5. /\ versions' \in Seq(Version) /\ Len(versions') = N + 1
      /\ \A v \in 1 .. N : versions'[v] = versions[v]
      /\ versions'[N + 1] = new
  BY <1>1, <1>3, <1>4 DEF new
<1>6. Copies = 1 .. N /\ Copies' = 1 .. N + 1 /\ \A w \in Copies' : w \in Copies \/ w = N + 1
  BY <1>3, <1>5 DEF Copies
<1>7. stored' = N + 1 /\ UNCHANGED <<helper, sidecar, stock, asks, reply, copy>>
  BY <1>5 DEF WritesFile
<1>. HIDE DEF N
<1>8. Copies \subseteq Copies'
  BY <1>3, <1>6
<1>9. FilesTyped'
  <2>1. sidecar' \subseteq [version : Copies', mtime : Nat]
    BY <1>3, <1>7, <1>8 DEF FilesTyped
  <2>2. /\ (\A e \in stock' : e.version \in Copies') /\ (\A e, f \in stock' : e = f)
        /\ \A e \in stock' : \A x \in e.variants : x.version \in Copies'
    BY <1>3, <1>7, <1>8 DEF FilesTyped
  <2>3. handle' \in [version : Nat, named : BOOLEAN]
    <3>1. handle \in [version : Nat, named : BOOLEAN]
      BY <1>3 DEF FilesTyped
    <3>2. handle' = handle \/ handle' = [handle EXCEPT !.version = N + 1]
          \/ handle' = [handle EXCEPT !.named = FALSE]
      BY <1>7 DEF WritesFile
    <3>3. ASSUME NEW n0 \in Nat, NEW b0 \in BOOLEAN
          PROVE  /\ [handle EXCEPT !.version = n0] \in [version : Nat, named : BOOLEAN]
                 /\ [handle EXCEPT !.named = b0] \in [version : Nat, named : BOOLEAN]
      BY <3>1
    <3>4. N + 1 \in Nat /\ FALSE \in BOOLEAN
      BY <1>3
    <3>. QED
      BY <3>1, <3>2, <3>3, <3>4
  <2>. QED
    BY <1>2, <1>3, <1>5, <1>7, <2>1, <2>2, <2>3 DEF FilesTyped
<1>10. Grown
  BY <1>3, <1>5, <1>6, <1>7, <1>9 DEF Grown, N
<1>11. ReplyKept' /\ CopyKept' /\ FramedAsDeclared' /\ ConfirmedIsCurrent'
  BY <1>7, <1>10, WritersKeep
<1>12. \A v \in Copies : versions'[v].mtime = versions[v].mtime /\ versions[v].mtime \in Nat
                         /\ versions[v].mtime <= moment
  BY <1>3, <1>5, <1>6, PlacesAre DEF FilesInv, TimesRise
<1>13. TimesRise'
  <2>1. \A v \in Copies' : versions'[v].mtime <= moment'
    BY <1>2, <1>4, <1>5, <1>6, <1>12
  <2>2. ASSUME NEW v \in Copies', NEW w \in Copies', v <= w PROVE versions'[v].mtime <= versions'[w].mtime
    <3>1. CASE w = N + 1
      BY <1>4, <1>5, <2>1, <3>1
    <3>2. CASE w \in Copies
      <4>1. v \in Copies
        BY <1>3, <1>6, <2>2, <3>2
      <4>. QED
        BY <1>12, <2>2, <3>2, <4>1 DEF FilesInv, TimesRise
    <3>. QED
      BY <1>6, <3>1, <3>2
  <2>. QED
    BY <2>1, <2>2 DEF TimesRise
<1>14. SidecarsRise'
  <2>1. ASSUME NEW x \in sidecar PROVE x.mtime <= moment' /\ x.mtime \in Nat
    BY <1>2, <1>3 DEF FilesInv, FilesTyped, SidecarsRise
  <2>2. ASSUME NEW x \in sidecar, NEW w \in Copies', x.version < w PROVE x.mtime <= versions'[w].mtime
    BY <1>4, <1>5, <1>6, <1>12, <2>1, <2>2 DEF FilesInv, SidecarsRise
  <2>. QED
    BY <1>7, <2>1, <2>2 DEF SidecarsRise
<1>15. HandleKept'
  <2>1. FromMemory' = FromMemory
    BY <1>7 DEF FromMemory
  <2>2. SUFFICES ASSUME reply.stage = "streaming", ~FromMemory
                 PROVE  handle'.version \in Copies' /\ reply.asOf <= handle'.version
    BY <1>7, <2>1 DEF HandleKept
  <2>3. handle.version \in Copies /\ reply.asOf <= handle.version /\ reply.asOf \in Copies
    BY <2>2 DEF FilesInv, HandleKept, ReplyKept, Asked
  <2>4. handle'.version = handle.version \/ handle'.version = N + 1
    <3>1. handle' = handle \/ handle' = [handle EXCEPT !.version = N + 1] \/ handle' = [handle EXCEPT !.named = FALSE]
      BY <1>7 DEF WritesFile
    <3>2. handle \in [version : Nat, named : BOOLEAN]
      BY <1>3 DEF FilesTyped
    <3>. QED
      BY <3>1, <3>2
  <2>. QED
    BY <1>3, <1>6, <1>8, <2>3, <2>4
<1>16. VariantsEncodeTheAsset'
  <2>1. \A e \in stock : e.version \in Copies
    BY <1>3 DEF FilesTyped
  <2>. QED
    BY <1>7, <1>12, <2>1 DEF FilesInv, VariantsEncodeTheAsset
<1>. QED
  BY <1>9, <1>11, <1>13, <1>14, <1>15, <1>16 DEF FilesInv

LEMMA StillGrown ==
  ASSUME FilesTyped, FilesTyped', helper' = helper, versions' = versions PROVE Grown
BY DEF Grown, FilesTyped

LEMMA RemovesKeeps == ASSUME FilesInv, Removes PROVE FilesInv'
<1>1. /\ stored' = 0 /\ UNCHANGED <<helper, moment, versions, sidecar, stock, asks, reply, copy>>
      /\ handle' = [handle EXCEPT !.named = FALSE]
  BY DEF Removes
<1>2. FilesTyped /\ handle \in [version : Nat, named : BOOLEAN] /\ Copies' = Copies
  BY <1>1 DEF FilesInv, FilesTyped, Copies
<1>3. handle' \in [version : Nat, named : BOOLEAN] /\ handle'.version = handle.version
  BY <1>1, <1>2
<1>4. FilesTyped'
  BY <1>1, <1>2, <1>3 DEF FilesTyped
<1>5. ReplyKept' /\ CopyKept' /\ FramedAsDeclared' /\ ConfirmedIsCurrent'
  BY <1>1, <1>2, <1>4, StillGrown, WritersKeep
<1>6. TimesRise' /\ SidecarsRise' /\ VariantsEncodeTheAsset'
  BY <1>1, <1>2 DEF FilesInv, TimesRise, SidecarsRise, VariantsEncodeTheAsset
<1>7. HandleKept'
  BY <1>1, <1>2, <1>3 DEF FilesInv, HandleKept, FromMemory
<1>. QED
  BY <1>4, <1>5, <1>6, <1>7 DEF FilesInv

LEMMA BesideKeeps == ASSUME FilesInv, EncodesBeside PROVE FilesInv'
<1>1. /\ UNCHANGED <<helper, versions, stored, stock, asks, reply, handle, copy>>
      /\ stored # 0 /\ moment' \in moment .. LastMoment
      /\ sidecar' = {[version |-> stored, mtime |-> moment']}
  BY DEF EncodesBeside
<1>2. FilesTyped /\ Copies' = Copies
  BY <1>1 DEF FilesInv, FilesTyped, Copies
<1>3. moment \in Nat /\ moment' \in Nat /\ moment <= moment'
  BY <1>1, <1>2, FilesAssumption DEF FilesTyped
<1>4. stored \in Copies /\ \A w \in Copies : w \in Nat /\ w <= stored /\ stored \in Nat
  BY <1>1, <1>2, PlacesAre
<1>5. FilesTyped'
  BY <1>1, <1>2, <1>3, <1>4 DEF FilesTyped
<1>6. ReplyKept' /\ CopyKept' /\ FramedAsDeclared' /\ ConfirmedIsCurrent'
  BY <1>1, <1>2, <1>5, StillGrown, WritersKeep
<1>7. TimesRise'
  <2>1. \A v \in Copies : versions[v].mtime \in Nat
    BY <1>2, PlacesAre
  <2>. QED
    BY <1>1, <1>2, <1>3, <2>1 DEF FilesInv, TimesRise
<1>8. SidecarsRise'
  BY <1>1, <1>2, <1>3, <1>4 DEF SidecarsRise
<1>9. VariantsEncodeTheAsset' /\ HandleKept'
  BY <1>1, <1>2 DEF FilesInv, VariantsEncodeTheAsset, HandleKept, FromMemory
<1>. QED
  BY <1>5, <1>6, <1>7, <1>8, <1>9 DEF FilesInv

LEMMA StockKeeps == ASSUME FilesInv, TakesInventory PROVE FilesInv'
<1>1. /\ UNCHANGED <<helper, moment, versions, stored, sidecar, asks, reply, handle, copy>>
      /\ stored # 0 /\ stock' = {[version |-> stored, variants |-> Variants]}
  BY DEF TakesInventory
<1>2. FilesTyped /\ Copies' = Copies
  BY <1>1 DEF FilesInv, FilesTyped, Copies
<1>3. stored \in Copies /\ \A w \in Copies : w \in Nat /\ w <= stored /\ stored \in Nat
  BY <1>1, <1>2, PlacesAre
<1>4. \A e \in stock' : e.version = stored /\ e.variants = Variants
  BY <1>1
<1>5. FilesTyped'
  <2>1. (\A e \in stock' : e.version \in Copies') /\ (\A e, f \in stock' : e = f)
    BY <1>1, <1>2, <1>3
  <2>2. \A x \in sidecar : x.version \in Copies
    BY <1>2, PlacesAre DEF FilesTyped
  <2>3. \A x \in Variants : x.version \in Copies
    BY <1>3, <2>2 DEF Variants, FreshSidecar
  <2>. QED
    BY <1>1, <1>2, <1>4, <2>1, <2>3 DEF FilesTyped
<1>6. ReplyKept' /\ CopyKept' /\ FramedAsDeclared' /\ ConfirmedIsCurrent'
  <2>1. \A e \in stock' : \A v \in Copies : v <= e.version
    BY <1>3, <1>4
  <2>. QED
    BY <1>1, <1>2, <1>5, <2>1, StillGrown, WritersKeep
<1>7. TimesRise' /\ SidecarsRise' /\ HandleKept'
  BY <1>1, <1>2 DEF FilesInv, TimesRise, SidecarsRise, HandleKept, FromMemory
<1>8. ASSUME NEW x \in Variants PROVE x.version = stored \/ x.mtime = versions[stored].mtime
  <2>1. CASE FreshSidecar = {}
    BY <1>8, <2>1 DEF Variants
  <2>2. CASE FreshSidecar # {}
    <3>1. x \in sidecar /\ x.mtime >= versions[stored].mtime
      BY <1>8, <2>2 DEF Variants, FreshSidecar
    <3>2. x.version \in Copies /\ x.mtime \in Nat /\ versions[stored].mtime \in Nat
      BY <1>2, <1>3, <3>1, PlacesAre DEF FilesTyped
    <3>3. x.version < stored => x.mtime <= versions[stored].mtime
      BY <1>3, <3>1 DEF FilesInv, SidecarsRise
    <3>. QED
      BY <1>3, <3>1, <3>2, <3>3
  <2>. QED
    BY <2>1, <2>2
<1>9. VariantsEncodeTheAsset'
  BY <1>1, <1>4, <1>8 DEF VariantsEncodeTheAsset
<1>. QED
  BY <1>5, <1>6, <1>7, <1>9 DEF FilesInv

(* A response that is over asks nothing more of anyone.                       *)
LEMMA OverKeeps ==
  ASSUME FilesInv, Built(reply), NEW x \in {"aborted", "ended"},
         reply' = [reply EXCEPT !.stage = x], x = "ended" => reply.sent = reply.count,
         handle' = [version |-> 0, named |-> FALSE],
         UNCHANGED <<helper, moment, versions, stored, sidecar, stock, asks, copy>>
  PROVE  FilesInv'
<1>1. reply'.stage = x /\ reply'.sent = reply.sent /\ reply'.count = reply.count
  BY StageSet DEF Fields
<1>2. FilesTyped /\ Copies' = Copies
  BY DEF FilesInv, FilesTyped, Copies
<1>3. FilesTyped'
  BY <1>2 DEF FilesTyped
<1>4. TimesRise' /\ SidecarsRise' /\ VariantsEncodeTheAsset'
  BY <1>2 DEF FilesInv, TimesRise, SidecarsRise, VariantsEncodeTheAsset
<1>5. ReplyKept' /\ HandleKept' /\ ConfirmedIsCurrent' /\ FramedAsDeclared'
  BY <1>1 DEF ReplyKept, HandleKept, Asked, ConfirmedIsCurrent, FramedAsDeclared
<1>6. ~Continues'
  BY <1>1 DEF Continues
<1>7. CopyKept'
  <2>1. \A c \in copy, v \in Copies : IsOf(c, v) => IsOf(c, v)'
    <3>1. ASSUME NEW c \in copy, NEW v \in Copies, IsOf(c, v) PROVE IsOf(c, v)'
      <4>1. Validator(v, c.coding)' = Validator(v, c.coding) /\ DateOf(v)' = DateOf(v)
            /\ Mixed(c)' = Mixed(c) /\ DatesTie' = DatesTie
        BY DEF Validator, Stamp, DateOf, Mixed, DatesTie, StampsTie, TwoOf
      <4>. QED
        BY <1>6, <3>1, <4>1 DEF IsOf
    <3>. QED
      BY <3>1
  <2>. QED
    BY <1>2, <2>1 DEF FilesInv, CopyKept
<1>. QED
  BY <1>3, <1>4, <1>5, <1>7 DEF FilesInv

LEMMA FileEndsKeeps == ASSUME FilesInv, FileEnds PROVE FilesInv'
<1>1. Built(reply)
  BY DEF FileEnds, FilesInv, ReplyKept, Asked
<1>2. CASE AllSent
  BY <1>1, <1>2, OverKeeps DEF FileEnds, AllSent
<1>3. CASE ~AllSent
  BY <1>1, <1>3, OverKeeps DEF FileEnds
<1>. QED
  BY <1>2, <1>3

LEMMA StopsReadingKeeps == ASSUME FilesInv, StopsReading PROVE FilesInv'
<1>1. Built(reply)
  BY DEF StopsReading, FilesInv, ReplyKept, Asked
<1>. QED
  BY <1>1, OverKeeps DEF StopsReading

LEMMA OpensFileKeeps == ASSUME FilesInv, OpensFile PROVE FilesInv'
<1>1. /\ reply.stage = "decided" /\ UNCHANGED <<helper, moment, versions, stored, sidecar, stock>>
      /\ handle' = [version |-> IF FromMemory THEN 0 ELSE stored, named |-> ~FromMemory]
  BY DEF OpensFile
<1>2. PICK x \in {"streaming", "aborted"} :
         reply' = [reply EXCEPT !.stage = x] /\ (x = "streaming" => FromMemory \/ stored # 0)
  BY DEF OpensFile
<1>3. FilesTyped /\ Copies' = Copies /\ stored \in Nat
  BY <1>1, PlacesAre DEF FilesInv, FilesTyped, Copies
<1>4. ReplyKept /\ Asked /\ Built(reply)
  BY <1>1 DEF FilesInv, ReplyKept, Asked
<1>5. Built(reply') /\ reply'.stage = x /\ \A f \in Fields : f # "stage" => reply'[f] = reply[f]
  BY <1>2, <1>4, StageSet
<1>6. /\ reply'.status = reply.status /\ reply'.first = reply.first /\ reply'.sent = reply.sent
      /\ reply'.tag = reply.tag /\ reply'.date = reply.date /\ reply'.coding = reply.coding
      /\ reply'.asOf = reply.asOf /\ reply'.body = reply.body /\ reply'.probe = reply.probe
      /\ reply'.byDate = reply.byDate
  BY <1>5 DEF Fields
<1>7. reply.sent = 0 /\ reply.status \in {200, 206} /\ (reply.status = 200 => reply.first = 0)
      /\ reply.asOf \in Copies /\ reply.tag = Validator(reply.asOf, reply.coding)
      /\ reply.date = DateOf(reply.asOf) /\ (helper \in Assets => \A e \in stock : reply.asOf <= e.version)
  BY <1>1, <1>4 DEF ReplyKept
<1>8. FilesTyped'
  <2>1. handle' \in [version : Nat, named : BOOLEAN]
    BY <1>1, <1>3
  <2>. QED
    BY <1>1, <1>3, <2>1 DEF FilesTyped
<1>9. TimesRise' /\ SidecarsRise' /\ VariantsEncodeTheAsset'
  BY <1>1, <1>3 DEF FilesInv, TimesRise, SidecarsRise, VariantsEncodeTheAsset
<1>10. FramedAsDeclared' /\ ConfirmedIsCurrent'
  BY <1>2, <1>5 DEF FramedAsDeclared, ConfirmedIsCurrent
<1>11. ReplyKept'
  <2>1. (reply.tag = Validator(reply.asOf, reply.coding) /\ reply.date = DateOf(reply.asOf))'
    BY <1>1, <1>6, <1>7 DEF Validator, Stamp, DateOf
  <2>2. reply'.stage # "decided"
    BY <1>2, <1>5
  <2>. QED
    BY <1>1, <1>3, <1>4, <1>5, <1>6, <1>7, <2>1, <2>2 DEF ReplyKept
<1>12. HandleKept'
  <2>1. FromMemory' = FromMemory
    BY <1>6 DEF FromMemory
  <2>2. SUFFICES ASSUME x = "streaming", ~FromMemory
                 PROVE  handle'.version \in Copies /\ reply.asOf <= handle'.version
    BY <1>3, <1>5, <1>6, <2>1 DEF HandleKept
  <2>. QED
    BY <1>1, <1>2, <1>3, <1>7, <2>2, PlacesAre
<1>13. \A v \in Copies : \A y : Validator(v, y)' = Validator(v, y) /\ DateOf(v)' = DateOf(v)
  BY <1>1 DEF Validator, Stamp, DateOf
<1>14. DatesTie' = DatesTie /\ StampsTie' = StampsTie
  BY <1>1 DEF DatesTie, StampsTie, TwoOf
<1>15. CASE reply.probe \/ reply.status = 206
  <2>1. copy' = copy
    BY <1>15 DEF OpensFile
  <2>2. Continues' => Continues
    BY <1>1, <1>6, <1>15 DEF Continues
  <2>3. ASSUME NEW c \in copy, NEW v \in Copies, IsOf(c, v) PROVE IsOf(c, v)'
    <3>1. Meets(c, v)' = Meets(c, v) /\ Mixed(c)' = Mixed(c)
      BY <1>1, <1>6, <1>14 DEF Meets, Mixed
    <3>. QED
      BY <1>1, <1>13, <1>14, <2>2, <2>3, <3>1 DEF IsOf
  <2>4. CopyKept'
    BY <1>3, <2>1, <2>3 DEF FilesInv, CopyKept
  <2>. QED
    BY <1>8, <1>9, <1>10, <1>11, <1>12, <2>4 DEF FilesInv
<1>16. CASE ~(reply.probe \/ reply.status = 206)
  <2>0. PICK c : c = [bytes |-> <<>>, total |-> reply.count, tag |-> reply.tag,
                      date |-> reply.date, coding |-> reply.coding, gz |-> reply.gz,
                      disturbed |-> FALSE, byDate |-> FALSE]
    OBVIOUS
  <2>1. copy' = {c}
    BY <1>16, <2>0 DEF OpensFile
  <2>2. WholeCopy(c) /\ c.bytes = <<>> /\ c.tag = reply.tag /\ c.date = reply.date
        /\ c.coding = reply.coding /\ ~c.disturbed
    BY <2>0, WholeFresh
  <2>3. reply.first = 0
    BY <1>7, <1>16
  <2>4. c.bytes \in Seq(Nat \X Int) /\ Len(c.bytes) = 0 /\ DOMAIN c.bytes = {}
    BY <2>2
  <2>5. \E v \in Copies' : IsOf(c, v)'
    <3>1. PICK v \in Copies : v = reply.asOf
      BY <1>7
    <3>2. c.tag = Validator(v, c.coding)' /\ c.date = DateOf(v)'
      BY <1>7, <1>13, <2>2, <3>1
    <3>3. AllOf(c, v)
      BY <2>4 DEF AllOf
    <3>4. reply'.asOf = v /\ Len(c.bytes) = reply'.first + reply'.sent
      BY <1>6, <1>7, <2>3, <2>4, <3>1
    <3>5. Meets(c, v)'
      BY <3>4 DEF Meets
    <3>6. IsOf(c, v)'
      BY <1>1, <1>7, <2>2, <3>1, <3>2, <3>3, <3>5 DEF IsOf, AllOf
    <3>. QED
      BY <1>3, <3>6
  <2>6. CopyKept'
    BY <2>1, <2>2, <2>4, <2>5 DEF CopyKept
  <2>. QED
    BY <1>8, <1>9, <1>10, <1>11, <1>12, <2>6 DEF FilesInv
<1>. QED
  BY <1>15, <1>16

(* What a client makes of the next byte.                                      *)
LEMMA ReceivedIs ==
  ASSUME NEW c, WholeCopy(c), ~Held(c)
  PROVE  \E d \in BOOLEAN, e \in BOOLEAN :
           /\ d <=> (c.disturbed \/ Source # reply.asOf)
           /\ e <=> (c.byDate \/ reply.byDate)
           /\ WholeCopy(Received(c))
           /\ Received(c).bytes = Append(c.bytes, <<Source, Position>>)
           /\ Received(c).disturbed = d /\ Received(c).byDate = e
           /\ Received(c).total = c.total /\ Received(c).tag = c.tag
           /\ Received(c).date = c.date /\ Received(c).coding = c.coding
<1>. DEFINE d == c.disturbed \/ Source # reply.asOf
            e == c.byDate \/ reply.byDate
            b == Append(c.bytes, <<Source, Position>>)
<1>1. DOMAIN c = CopyFields /\ "bytes" \in CopyFields /\ "disturbed" \in CopyFields /\ "byDate" \in CopyFields
  BY DEF WholeCopy, CopyFields
<1>2. Received(c) = WithByte(c, b, d, e)
  BY Zenon DEF Received, WithByte
<1>3. d \in BOOLEAN /\ e \in BOOLEAN
  OBVIOUS
<1>4. (d <=> (c.disturbed \/ Source # reply.asOf)) /\ (e <=> (c.byDate \/ reply.byDate))
  OBVIOUS
<1>. HIDE DEF b, d, e
<1>5. /\ WholeCopy(Received(c))
      /\ Received(c).bytes = b
      /\ Received(c).disturbed = d /\ Received(c).byDate = e
      /\ Received(c).total = c.total /\ Received(c).tag = c.tag
      /\ Received(c).date = c.date /\ Received(c).coding = c.coding
  BY <1>2, CopySet
<1>6. b = Append(c.bytes, <<Source, Position>>)
  BY DEF b
<1>. QED
  BY <1>3, <1>4, <1>5, <1>6

(* A byte received is of the copy's version, or the copy knows what mixed it. *)
LEMMA ReceivedIsOf ==
  ASSUME FilesInv, reply.stage = "streaming", ~reply.probe, MoreToRead,
         NEW c \in copy, NEW v \in Copies, IsOf(c, v)
  PROVE  /\ WholeCopy(Received(c))
         /\ Received(c).bytes \in Seq(Nat \X Int)
         /\ \A i \in DOMAIN Received(c).bytes : Received(c).bytes[i][2] = i - 1
         /\ Received(c).tag = c.tag /\ Received(c).date = c.date /\ Received(c).coding = c.coding
         /\ AllOf(Received(c), v) \/ Received(c).disturbed \/ Mixed(Received(c))
         /\ Received(c).disturbed /\ helper \notin Assets => v < Len(versions) \/ DatesTie
         /\ Held(Received(c)) \/ Len(Received(c).bytes) = reply.first + reply.sent + 1
<1>. DEFINE r == Received(c)
<1>1. WholeCopy(c) /\ c.bytes \in Seq(Nat \X Int) /\ \A i \in DOMAIN c.bytes : c.bytes[i][2] = i - 1
  BY DEF FilesInv, CopyKept
<1>2. Asked /\ ReplyKept /\ FilesTyped /\ HandleKept
  BY DEF FilesInv, Asked
<1>3. Meets(c, v)
  BY DEF IsOf, Continues
<1>4. reply.asOf \in Copies /\ reply.sent \in Nat /\ reply.body \in Nat
      /\ (helper \notin Assets => reply.coding = "identity")
  BY <1>2 DEF ReplyKept
<1>5. CASE Held(c)
  <2>1. r = c
    BY <1>5 DEF Received
  <2>. QED
    BY <1>1, <1>5, <2>1 DEF IsOf
<1>6. CASE ~Held(c)
  <2>1. PICK d \in BOOLEAN, e \in BOOLEAN :
           /\ d <=> (c.disturbed \/ Source # reply.asOf)
           /\ e <=> (c.byDate \/ reply.byDate)
           /\ WholeCopy(r)
           /\ r.bytes = Append(c.bytes, <<Source, Position>>)
           /\ r.disturbed = d /\ r.byDate = e
           /\ r.total = c.total /\ r.tag = c.tag
           /\ r.date = c.date /\ r.coding = c.coding
    BY <1>1, <1>6, ReceivedIs
  <2>. HIDE DEF r
  <2>2. Len(c.bytes) = Position /\ Len(c.bytes) \in Nat
    BY <1>1, <1>3, <1>6 DEF Meets, Position
  <2>3. Source \in Nat
    BY <1>2, <1>4, PlacesAre DEF Source, HandleKept
  <2>4. <<Source, Position>> \in Nat \X Int
    BY <2>2, <2>3
  <2>. DEFINE n == Len(c.bytes)
  <2>5. /\ r.bytes \in Seq(Nat \X Int) /\ Len(r.bytes) = n + 1
        /\ DOMAIN c.bytes = 1 .. n /\ DOMAIN r.bytes = 1 .. n + 1
        /\ \A i \in 1 .. n : r.bytes[i] = c.bytes[i]
        /\ r.bytes[n + 1] = <<Source, Position>>
    BY <1>1, <2>1, <2>4
  <2>6. \A i \in DOMAIN r.bytes : r.bytes[i][2] = i - 1
    <3>1. ASSUME NEW i \in 1 .. n + 1 PROVE r.bytes[i][2] = i - 1
      <4>1. CASE i \in 1 .. n
        BY <1>1, <2>5, <4>1
      <4>2. CASE i = n + 1
        <5>1. r.bytes[i][2] = Position /\ Position = n
          BY <2>2, <2>5, <4>2
        <5>. QED
          BY <2>2, <4>2, <5>1
      <4>. QED
        BY <2>2, <4>1, <4>2
    <3>. QED
      BY <2>5, <3>1
  <2>7. AllOf(r, v) \/ r.disturbed \/ Mixed(r)
    <3>1. CASE c.disturbed \/ Source # reply.asOf
      BY <2>1, <3>1
    <3>2. CASE Mixed(c)
      BY <2>1, <3>2 DEF Mixed
    <3>3. CASE ~c.disturbed /\ Source = reply.asOf /\ AllOf(c, v) /\ ~Mixed(c)
      <4>1. CASE reply.asOf = v
        <5>1. \A i \in 1 .. n + 1 : i \in 1 .. n \/ i = n + 1
          BY <2>2
        <5>2. r.bytes[n + 1][1] = v
          BY <2>5, <3>3, <4>1
        <5>3. \A i \in 1 .. n : c.bytes[i][1] = v
          BY <2>5, <3>3 DEF AllOf
        <5>4. ASSUME NEW i \in 1 .. n + 1 PROVE r.bytes[i][1] = v
          <6>1. CASE i \in 1 .. n
            <7>1. r.bytes[i] = c.bytes[i]
              BY <2>5, <6>1
            <7>. QED
              BY <5>3, <6>1, <7>1
          <6>2. CASE i = n + 1
            BY <5>2, <6>2
          <6>. QED
            BY <5>1, <6>1, <6>2
        <5>5. AllOf(r, v)
          BY <2>5, <5>4 DEF AllOf
        <5>. QED
          BY <5>5
      <4>2. CASE reply.asOf # v
        BY <1>3, <2>1, <4>2 DEF Meets, Mixed
      <4>. QED
        BY <4>1, <4>2
    <3>. QED
      BY <3>1, <3>2, <3>3 DEF IsOf
  <2>8. ASSUME r.disturbed, helper \notin Assets PROVE v < Len(versions) \/ DatesTie
    <3>1. CASE c.disturbed
      BY <2>8, <3>1 DEF IsOf
    <3>2. CASE ~c.disturbed
      <4>1. Source # reply.asOf
        BY <2>1, <2>8, <3>2
      <4>2. ~FromMemory
        BY <1>4, <2>8 DEF FromMemory
      <4>3. Source = handle.version /\ handle.version \in Copies /\ reply.asOf <= handle.version
        BY <1>2, <4>2 DEF Source, HandleKept
      <4>4. reply.asOf < Len(versions)
        <5>1. handle.version \in Nat /\ reply.asOf \in Nat /\ Len(versions) \in Nat /\ handle.version <= Len(versions)
          BY <1>2, <1>4, <4>3, PlacesAre DEF Copies
        <5>. QED
          BY <4>1, <4>3, <5>1
      <4>5. helper # "stamped"
        BY <2>8 DEF Assets
      <4>. QED
        BY <1>3, <4>4, <4>5 DEF Meets
    <3>. QED
      BY <3>1, <3>2
  <2>9. Len(r.bytes) = reply.first + reply.sent + 1
    BY <2>2, <2>5 DEF Position
  <2>. QED
    BY <2>1, <2>5, <2>6, <2>7, <2>8, <2>9 DEF r
<1>. QED
  BY <1>5, <1>6

LEMMA ReadsFileKeeps == ASSUME FilesInv, ReadsFile PROVE FilesInv'
<1>1. /\ reply.stage = "streaming" /\ MoreToRead
      /\ UNCHANGED <<helper, moment, versions, stored, sidecar, stock, asks, handle>>
      /\ reply' = [reply EXCEPT !.sent = @ + 1]
  BY DEF ReadsFile
<1>2. FilesTyped /\ Copies' = Copies
  BY <1>1 DEF FilesInv, FilesTyped, Copies
<1>3. ReplyKept /\ Asked /\ Built(reply)
  BY <1>1 DEF FilesInv, ReplyKept, Asked
<1>4. Built(reply') /\ reply'.sent = reply.sent + 1 /\ \A f \in Fields : f # "sent" => reply'[f] = reply[f]
  BY <1>1, <1>3, SentSet
<1>5. /\ reply'.stage = reply.stage /\ reply'.status = reply.status /\ reply'.first = reply.first
      /\ reply'.tag = reply.tag /\ reply'.date = reply.date /\ reply'.coding = reply.coding
      /\ reply'.asOf = reply.asOf /\ reply'.body = reply.body /\ reply'.probe = reply.probe
      /\ reply'.byDate = reply.byDate
  BY <1>4 DEF Fields
<1>6. FilesTyped' /\ TimesRise' /\ SidecarsRise' /\ VariantsEncodeTheAsset'
  BY <1>1, <1>2 DEF FilesInv, FilesTyped, TimesRise, SidecarsRise, VariantsEncodeTheAsset
<1>7. FramedAsDeclared' /\ ConfirmedIsCurrent'
  BY <1>1, <1>5 DEF FramedAsDeclared, ConfirmedIsCurrent
<1>8. ReplyKept'
  <2>1. (reply.tag = Validator(reply.asOf, reply.coding) /\ reply.date = DateOf(reply.asOf))'
    BY <1>1, <1>3, <1>5 DEF Validator, Stamp, DateOf, ReplyKept
  <2>. QED
    BY <1>1, <1>2, <1>3, <1>4, <1>5, <2>1 DEF ReplyKept
<1>9. HandleKept'
  BY <1>1, <1>2, <1>5 DEF FilesInv, HandleKept, FromMemory
<1>10. \A v \in Copies : \A y : Validator(v, y)' = Validator(v, y) /\ DateOf(v)' = DateOf(v)
  BY <1>1 DEF Validator, Stamp, DateOf
<1>11. DatesTie' = DatesTie /\ StampsTie' = StampsTie
  BY <1>1 DEF DatesTie, StampsTie, TwoOf
<1>12. Continues' = Continues
  BY <1>5 DEF Continues
<1>13. CopyKept'
  <2>0. CopyKept
    BY DEF FilesInv
  <2>1. CASE reply.probe
    <3>1. copy' = copy /\ ~Continues
      BY <2>1 DEF ReadsFile, Continues
    <3>2. ASSUME NEW c \in copy, NEW v \in Copies, IsOf(c, v) PROVE IsOf(c, v)'
      <4>1. Mixed(c)' = Mixed(c)
        BY <1>1, <1>11 DEF Mixed
      <4>. QED
        BY <1>1, <1>10, <1>11, <1>12, <3>1, <3>2, <4>1 DEF IsOf
    <3>. QED
      BY <1>2, <2>0, <3>1, <3>2 DEF CopyKept
  <2>2. CASE ~reply.probe
    <3>1. copy' = {Received(c) : c \in copy}
      BY <2>2 DEF ReadsFile
    <3>2. ASSUME NEW q \in copy'
          PROVE  /\ WholeCopy(q) /\ q.bytes \in Seq(Nat \X Int)
                 /\ \A i \in DOMAIN q.bytes : q.bytes[i][2] = i - 1
                 /\ \E v \in Copies' : IsOf(q, v)'
      <4>1. PICK c \in copy : q = Received(c)
        BY <3>1
      <4>2. PICK v \in Copies : IsOf(c, v)
        BY <2>0 DEF CopyKept
      <4>3. /\ WholeCopy(q) /\ q.bytes \in Seq(Nat \X Int)
            /\ \A i \in DOMAIN q.bytes : q.bytes[i][2] = i - 1
            /\ q.tag = c.tag /\ q.date = c.date /\ q.coding = c.coding
            /\ AllOf(q, v) \/ q.disturbed \/ Mixed(q)
            /\ q.disturbed /\ helper \notin Assets => v < Len(versions) \/ DatesTie
            /\ Held(q) \/ Len(q.bytes) = reply.first + reply.sent + 1
        BY <1>1, <2>2, <4>1, <4>2, ReceivedIsOf
      <4>4. Meets(c, v)
        BY <1>1, <2>2, <4>2 DEF IsOf, Continues
      <4>5. Meets(q, v)'
        <5>1. reply.first + reply.sent + 1 = reply'.first + reply'.sent
          <6>1. reply.sent \in Nat /\ reply.first \in Int
            BY <1>3 DEF ReplyKept
          <6>. QED
            BY <1>4, <1>5, <6>1
        <5>. QED
          BY <1>1, <1>5, <1>11, <4>3, <4>4, <5>1 DEF Meets
      <4>6. Mixed(q)' = Mixed(q)
        BY <1>1, <1>11 DEF Mixed
      <4>7. q.tag = Validator(v, q.coding) /\ q.date = DateOf(v)
            /\ (helper \in Assets => \A e \in stock : v <= e.version)
        BY <4>2, <4>3 DEF IsOf
      <4>8. IsOf(q, v)'
        BY <1>1, <1>10, <1>11, <4>3, <4>5, <4>6, <4>7 DEF IsOf
      <4>. QED
        BY <1>2, <4>3, <4>8
    <3>3. \A c, d \in copy' : c = d
      BY <2>0, <3>1 DEF CopyKept
    <3>. QED
      BY <3>2, <3>3 DEF CopyKept
  <2>. QED
    BY <2>1, <2>2
<1>. QED
  BY <1>6, <1>7, <1>8, <1>9, <1>13 DEF FilesInv

-----------------------------------------------------------------------------
(* What is decided of a request.                                              *)
Ranges == [kind : {"span", "from", "suffix"}, first : Nat, last : Nat]

LEMMA SpanIs ==
  ASSUME NEW spec \in Ranges, NEW size \in Nat
  PROVE  LET k == SpanFor(spec, size)
             named == BytesNamed(spec, size)
         IN  /\ k.status \in {200, 206, 416} /\ k.first \in Int
             /\ k.status = 206 => named = k.first .. k.first + k.count - 1 /\ named # {}
             /\ k.status = 416 => named = {}
             /\ k.status = 200 => spec.kind = "span" /\ spec.last < spec.first /\ k.first = 0
             /\ k.status = 206 /\ spec.kind = "from" => k.first = spec.first
<1>. DEFINE k == SpanFor(spec, size)
            named == BytesNamed(spec, size)
<1>1. spec.kind \in {"span", "from", "suffix"} /\ spec.first \in Nat /\ spec.last \in Nat
  BY DEF Ranges
<1>2. \A a, b, n : /\ Answer(a, b, n).status = a /\ Answer(a, b, n).first = b
                   /\ Answer(a, b, n).count = n
  BY DEF Answer
<1>3. CASE spec.kind = "suffix"
  <2>1. named = {p \in 0 .. size - 1 : size - spec.last <= p}
    BY <1>3 DEF BytesNamed
  <2>2. CASE spec.last = 0 \/ size = 0
    <3>1. k = Answer(416, 0, 0)
      BY <1>3, <2>2 DEF SpanFor
    <3>2. named = {}
      BY <1>1, <2>1, <2>2
    <3>. QED
      BY <1>2, <1>3, <3>1, <3>2
  <2>3. CASE ~(spec.last = 0 \/ size = 0)
    <3>. DEFINE f == IF spec.last > size THEN 0 ELSE size - spec.last
    <3>1. k = Answer(206, f, (size - 1) - f + 1)
      BY <1>3, <2>3 DEF SpanFor
    <3>2. f \in Nat /\ f <= size - 1
      BY <1>1, <2>3
    <3>3. named = f .. f + ((size - 1) - f + 1) - 1
      BY <1>1, <2>1, <2>3
    <3>4. f \in named
      BY <3>2, <3>3
    <3>. HIDE DEF f, k, named
    <3>5. k.status = 206 /\ k.first = f /\ k.count = (size - 1) - f + 1
      BY <1>2, <3>1
    <3>6. named = k.first .. k.first + k.count - 1 /\ named # {} /\ k.first \in Int
      <4>1. f + k.count - 1 = f + ((size - 1) - f + 1) - 1
        BY <3>5
      <4>2. named = k.first .. k.first + k.count - 1
        BY <3>3, <3>5, <4>1
      <4>3. k.first \in Int
        BY <3>2, <3>5
      <4>. QED
        BY <3>4, <4>2, <4>3
    <3>. QED
      BY <1>3, <3>5, <3>6 DEF k, named
  <2>. QED
    BY <2>2, <2>3
<1>4. CASE spec.kind # "suffix" /\ spec.first >= size
  <2>1. k = Answer(416, 0, 0)
    BY <1>1, <1>4 DEF SpanFor
  <2>2. named = {}
    BY <1>1, <1>4 DEF BytesNamed
  <2>. QED
    BY <1>2, <2>1, <2>2
<1>5. CASE spec.kind = "from" /\ spec.first < size
  <2>1. k = Answer(206, spec.first, (size - 1) - spec.first + 1)
    BY <1>1, <1>5 DEF SpanFor
  <2>2. named = {p \in 0 .. size - 1 : spec.first <= p}
    BY <1>5 DEF BytesNamed
  <2>3. named = spec.first .. spec.first + ((size - 1) - spec.first + 1) - 1 /\ spec.first \in named
    BY <1>1, <1>5, <2>2
  <2>. HIDE DEF k, named
  <2>4. k.status = 206 /\ k.first = spec.first /\ k.count = (size - 1) - spec.first + 1
    BY <1>2, <2>1
  <2>. QED
    BY <1>1, <1>5, <2>3, <2>4 DEF k, named
<1>6. CASE spec.kind = "span" /\ spec.first < size
  <2>1. k = IF spec.last < spec.first THEN Answer(200, 0, size)
            ELSE Answer(206, spec.first, Lesser(spec.last, size - 1) - spec.first + 1)
    BY <1>1, <1>6 DEF SpanFor
  <2>2. CASE spec.last < spec.first
    <3>1. k = Answer(200, 0, size)
      BY <2>1, <2>2
    <3>. QED
      BY <1>2, <1>6, <2>2, <3>1
  <2>3. CASE ~(spec.last < spec.first)
    <3>. DEFINE l == Lesser(spec.last, size - 1)
    <3>1. k = Answer(206, spec.first, l - spec.first + 1)
      BY <2>1, <2>3
    <3>2. named = {p \in 0 .. size - 1 : spec.first <= p /\ p <= spec.last}
      BY <1>6 DEF BytesNamed
    <3>3. l \in Nat /\ spec.first <= l /\ l <= spec.last /\ l <= size - 1 /\ (l = spec.last \/ l = size - 1)
      BY <1>1, <1>6, <2>3 DEF Lesser
    <3>. HIDE DEF l
    <3>4. named = spec.first .. spec.first + (l - spec.first + 1) - 1 /\ spec.first \in named
      BY <1>1, <1>6, <3>2, <3>3
    <3>. HIDE DEF k, named
    <3>5. k.status = 206 /\ k.first = spec.first /\ k.count = l - spec.first + 1
      BY <1>2, <3>1
    <3>. QED
      BY <1>1, <1>6, <3>4, <3>5 DEF k, named
  <2>. QED
    BY <2>2, <2>3
<1>. QED
  BY <1>1, <1>3, <1>4, <1>5, <1>6

Chosen(ask, v, code, size) ==
    IF helper = "handed" THEN Answer(200, 0, size)
    ELSE SelectionFor(ask, size, Validator(v, code), DateOf(v))
Length(v, code, body) == IF code = "gzip" THEN CodedSize(body) ELSE versions[v].size

LEMMA ChosenIs ==
  ASSUME NEW ask, NEW v, NEW code, NEW size \in Nat,
         ask.range = {} \/ \E spec \in Ranges : ask.range = {spec}
  PROVE  LET k == Chosen(ask, v, code, size)
         IN  /\ k.status \in {200, 206, 304, 416} /\ k.first \in Int
             /\ k.status = 304 => IsCurrent(ask, Validator(v, code), DateOf(v))
             /\ k.status = 206 => /\ ask.range # {}
                                  /\ RangeAllowed(ask, Validator(v, code), DateOf(v))
                                  /\ \A spec : ask.range = {spec} => k = SpanFor(spec, size)
             /\ k.status = 200 => k.first = 0
<1>. DEFINE k == Chosen(ask, v, code, size)
            t == Validator(v, code)
            d == DateOf(v)
<1>1. \A a, b, n : Answer(a, b, n).status = a /\ Answer(a, b, n).first = b
  BY DEF Answer
<1>2. CASE helper = "handed"
  <2>1. k = Answer(200, 0, size)
    BY <1>2 DEF Chosen
  <2>. QED
    BY <1>1, <2>1
<1>3. CASE helper # "handed"
  <2>0. k = SelectionFor(ask, size, t, d)
    BY <1>3 DEF Chosen
  <2>. HIDE DEF t, d
  <2>1. CASE IsCurrent(ask, t, d)
    <3>1. k = Answer(304, 0, 0)
      BY <2>0, <2>1 DEF SelectionFor
    <3>. QED
      BY <1>1, <2>1, <3>1 DEF t, d
  <2>2. CASE ~IsCurrent(ask, t, d) /\ (ask.head \/ ask.range = {} \/ ~RangeAllowed(ask, t, d))
    <3>1. k = Answer(200, 0, 0) \/ k = Answer(200, 0, size)
      BY <2>0, <2>2 DEF SelectionFor
    <3>. QED
      BY <1>1, <3>1
  <2>3. CASE ~IsCurrent(ask, t, d) /\ ~ask.head /\ ask.range # {} /\ RangeAllowed(ask, t, d)
    <3>1. k = SpanFor(CHOOSE spec \in ask.range : TRUE, size)
      BY <2>0, <2>3 DEF SelectionFor
    <3>2. PICK spec \in Ranges : ask.range = {spec}
      BY <2>3
    <3>3. (CHOOSE x \in ask.range : TRUE) = spec
      BY <3>2
    <3>4. k = SpanFor(spec, size)
      BY <3>1, <3>3
    <3>. HIDE DEF k
    <3>5. k.status \in {200, 206, 416} /\ k.first \in Int /\ (k.status = 200 => k.first = 0)
      BY <3>4, SpanIs
    <3>6. \A x : ask.range = {x} => x = spec
      BY <3>2
    <3>. QED
      BY <2>3, <3>4, <3>5, <3>6 DEF k, t, d
  <2>. QED
    BY <2>1, <2>2, <2>3
<1>. QED
  BY <1>2, <1>3

LEMMA DecidedIs ==
  ASSUME NEW ask, NEW v, NEW code, NEW body, NEW probe
  PROVE  LET r == Decided(ask, v, code, body, probe)
             k == Chosen(ask, v, code, Length(v, code, body))
         IN  /\ Built(r)
             /\ r.stage \in {"refused", "decided", "answered"}
             /\ r.stage = "decided" => k.status \in {200, 206}
             /\ r.status = k.status /\ r.first = k.first /\ r.count = k.count
             /\ r.size = Length(v, code, body) /\ r.sent = 0
             /\ r.tag = Validator(v, code) /\ r.date = DateOf(v) /\ r.coding = code
             /\ r.asOf = v /\ r.body = body /\ r.probe = probe /\ r.range = ask.range
             /\ r.byTag = (ask.noneMatch # {}) /\ r.byDate = (ask.ifDate # {})
<1>. DEFINE size == Length(v, code, body)
            k == Chosen(ask, v, code, size)
            owes == k.status \in {200, 206} /\ (helper = "handed" \/ ~ask.head)
            changed == /\ helper \in Assets /\ code = "identity" /\ owes
                       /\ stored = 0 \/ versions[stored].size # size
            stage == IF changed THEN "refused" ELSE IF owes THEN "decided" ELSE "answered"
            tag == (ask.noneMatch # {})
            dated == (ask.ifDate # {})
            r == Decided(ask, v, code, body, probe)
<1>1. r = Made(stage, k.status, k.first, k.count, size, Validator(v, code), DateOf(v),
               code, ask.gz, v, body, probe, ask.range, tag, dated)
  BY Zenon DEF Decided, Chosen, Length, Made
<1>2. stage \in {"refused", "decided", "answered"} /\ (stage = "decided" => k.status \in {200, 206})
  OBVIOUS
<1>3. (tag = (ask.noneMatch # {})) /\ (dated = (ask.ifDate # {}))
  BY Zenon
<1>. HIDE DEF stage, tag, dated, k, size, r
<1>4. /\ Built(r)
      /\ r.stage = stage /\ r.status = k.status /\ r.first = k.first /\ r.count = k.count /\ r.size = size
      /\ r.sent = 0 /\ r.tag = Validator(v, code) /\ r.date = DateOf(v) /\ r.coding = code
      /\ r.asOf = v /\ r.body = body
      /\ r.probe = probe /\ r.range = ask.range /\ r.byTag = tag /\ r.byDate = dated
  BY <1>1, WholeReply
<1>. QED
  BY <1>2, <1>3, <1>4, Zenon DEF k, size, r

(* What a client asks on account of its copy, and what one asks that has none. *)
TheRest(c) == [kind |-> "from", first |-> Len(c.bytes), last |-> 0]
AsksForRest(ask, c) ==
    /\ ask.range = {TheRest(c)}
    /\ \/ ask.ifTag = {c.tag} /\ ask.ifDate = {}
       \/ ask.ifTag = {} /\ ask.ifDate = {c.date}
ByClient(ask) ==
    /\ ask.range = {} \/ \E c \in copy : AsksForRest(ask, c)
    /\ \A x \in ask.noneMatch : \E c \in copy : x = c.tag
    /\ \A d \in ask.since : \E c \in copy : d = c.date
ByProbe(ask) ==
    /\ \E spec \in Ranges : ask.range = {spec}
    /\ ask.noneMatch = {} /\ ask.since = {} /\ ask.ifTag = {} /\ ask.ifDate = {}
    /\ ~ask.head /\ ~ask.gz

LEMMA PlainIs ==
  ASSUME NEW gz
  PROVE  LET p == Plain(gz)
         IN  /\ ~p.head /\ p.gz = gz /\ p.noneMatch = {} /\ p.since = {}
             /\ p.range = {} /\ p.ifTag = {} /\ p.ifDate = {}
BY DEF Plain

LEMMA ProbesAsk == ASSUME NEW ask \in Probes PROVE ByProbe(ask)
<1>1. PICK spec \in Specs : ask = [Plain(FALSE) EXCEPT !.range = {spec}]
  BY DEF Probes
<1>2. spec \in Ranges
  BY FilesAssumption DEF Ranges
<1>3. /\ ask.range = {spec} /\ ask.noneMatch = {} /\ ask.since = {} /\ ask.ifTag = {}
      /\ ask.ifDate = {} /\ ask.head = FALSE /\ ask.gz = FALSE
  BY <1>1 DEF Plain
<1>. QED
  BY <1>2, <1>3 DEF ByProbe

LEMMA ClientsAsk ==
  ASSUME NEW ask, (\E gz \in BOOLEAN : ask = Plain(gz)) \/ ask \in Conditional
  PROVE  ByClient(ask)
<1>1. CASE \E gz \in BOOLEAN : ask = Plain(gz)
  BY <1>1, PlainIs DEF ByClient
<1>2. CASE ask \in Conditional
  <2>1. PICK c \in copy : ask \in IF Held(c) THEN Revalidates(c) ELSE GoesOn(c)
    BY <1>2 DEF Conditional
  <2>2. CASE Held(c)
    <3>1. ask \in Revalidates(c)
      BY <2>1, <2>2
    <3>2. ask.range = {} /\ ask.noneMatch \in {{}, {c.tag}} /\ ask.since \in {{}, {c.date}}
      BY <3>1 DEF Revalidates, Plain
    <3>. QED
      BY <3>2 DEF ByClient
  <2>3. CASE ~Held(c)
    <3>1. ask \in GoesOn(c)
      BY <2>1, <2>3
    <3>2. AsksForRest(ask, c) /\ ask.noneMatch = {} /\ ask.since = {}
      BY <3>1 DEF GoesOn, Plain, AsksForRest, TheRest
    <3>. QED
      BY <3>2 DEF ByClient
  <2>. QED
    BY <2>2, <2>3
<1>. QED
  BY <1>1, <1>2

LEMMA ServedIs ==
  ASSUME FilesInv, NEW ask, NEW probe
  PROVE  \/ Served(ask, probe).stage = "refused"
         \/ \E v \in Copies, body \in Copies, code \in {"identity", "gzip"} :
              /\ Served(ask, probe) = Decided(ask, v, code, body, probe)
              /\ helper \in Assets => \E e \in stock : v = e.version
              /\ helper \notin Assets => code = "identity" /\ v = Len(versions)
              /\ ~ask.gz => code = "identity"
<1>0. FilesTyped
  BY DEF FilesInv
<1>1. CASE helper \in Assets /\ stock # {}
  <2>1. PICK e \in stock : e = CHOOSE x \in stock : TRUE
    BY <1>1
  <2>2. e.version \in Copies /\ \A x \in e.variants : x.version \in Copies
    BY <1>0 DEF FilesTyped
  <2>3. CASE ask.gz /\ e.variants # {}
    <3>1. PICK x \in e.variants : x = CHOOSE y \in e.variants : TRUE
      BY <2>3
    <3>2. Served(ask, probe) = Decided(ask, e.version, "gzip", x.version, probe)
      BY <1>1, <2>1, <2>3, <3>1 DEF Served
    <3>. QED
      BY <1>1, <2>2, <2>3, <3>1, <3>2
  <2>4. CASE ~(ask.gz /\ e.variants # {})
    <3>1. Served(ask, probe) = Decided(ask, e.version, "identity", e.version, probe)
      BY <1>1, <2>1, <2>4 DEF Served
    <3>. QED
      BY <1>1, <2>2, <2>4, <3>1
  <2>. QED
    BY <2>3, <2>4
<1>2. CASE helper \notin Assets /\ stored # 0
  <2>1. Served(ask, probe) = Decided(ask, stored, "identity", stored, probe)
    BY <1>2 DEF Served
  <2>2. stored \in Copies /\ stored = Len(versions)
    BY <1>0, <1>2, PlacesAre DEF FilesTyped
  <2>. QED
    BY <1>2, <2>1, <2>2
<1>3. CASE ~(helper \in Assets /\ stock # {}) /\ ~(helper \notin Assets /\ stored # 0)
  <2>1. Served(ask, probe) = [stage |-> "refused", status |-> 404]
    BY <1>3 DEF Served
  <2>. QED
    BY <2>1
<1>. QED
  BY <1>1, <1>2, <1>3

LEMMA LengthsAre ==
  ASSUME FilesTyped, NEW v \in Copies, NEW body \in Copies, NEW code
  PROVE  Length(v, code, body) \in Nat
<1>1. versions[v].size \in Nat /\ versions[body].size \in Nat
  BY PlacesAre
<1>2. CodedSize(body) \in Nat
  BY <1>1 DEF CodedSize
<1>. QED
  BY <1>1, <1>2 DEF Length

(* A range asked for by one that has no copy is answered with its bytes.      *)
LEMMA ProbeIs ==
  ASSUME NEW ask, ByProbe(ask), helper # "handed", NEW v, NEW code, NEW size,
         NEW spec, ask.range = {spec}
  PROVE  Chosen(ask, v, code, size) = SpanFor(spec, size)
<1>1. ~IsCurrent(ask, Validator(v, code), DateOf(v))
  BY DEF ByProbe, IsCurrent
<1>2. RangeAllowed(ask, Validator(v, code), DateOf(v))
  BY DEF ByProbe, RangeAllowed
<1>3. ~ask.head /\ ask.range # {}
  BY DEF ByProbe
<1>4. (CHOOSE x \in ask.range : TRUE) = spec
  OBVIOUS
<1>. QED
  BY <1>1, <1>2, <1>3, <1>4 DEF Chosen, SelectionFor

(* The rest of a copy comes of the copy's own version, or of one that ties.   *)
LEMMA RestIsOf ==
  ASSUME FilesInv, NEW ask, NEW c \in copy, AsksForRest(ask, c),
         NEW v \in Copies, NEW o \in Copies, NEW code, IsOf(c, o),
         RangeAllowed(ask, Validator(v, code), DateOf(v))
  PROVE  v = o \/ (ask.ifDate # {} /\ DatesTie) \/ (helper = "stamped" /\ StampsTie)
<1>1. FilesTyped /\ c.tag = Validator(o, c.coding) /\ c.date = DateOf(o)
  BY DEF FilesInv, IsOf
<1>2. CASE ask.ifTag = {c.tag}
  <2>1. c.tag = Validator(v, code) /\ Validator(v, code).strong
    BY <1>2 DEF RangeAllowed, Strongly
  <2>2. helper \in Assets
    BY <2>1 DEF Validator
  <2>3. v = o \/ (StampsTie /\ helper # "hashed")
    <3>1. Validator(v, code) = Validator(o, c.coding)
      BY <1>1, <2>1
    <3>. QED
      BY <1>1, <3>1, TagsTell
  <2>. QED
    BY <2>2, <2>3 DEF Assets
<1>3. CASE ask.ifDate = {c.date}
  <2>1. DateOf(v) = DateOf(o)
    BY <1>1, <1>3 DEF RangeAllowed
  <2>. QED
    BY <1>1, <1>3, <2>1, DatesTell
<1>. QED
  BY <1>2, <1>3 DEF AsksForRest

(* What a copy is called current for is what it is of.                        *)
LEMMA CurrentIsOf ==
  ASSUME FilesInv, NEW ask, ByClient(ask), NEW c \in copy,
         NEW v \in Copies, NEW code,
         helper \in Assets => \E e \in stock : v = e.version,
         helper \notin Assets => v = Len(versions),
         IsCurrent(ask, Validator(v, code), DateOf(v))
  PROVE  /\ ask.noneMatch # {} => c.coding = code
         /\ AllOf(c, v) \/ DatesTie \/ (helper \in Assets /\ c.disturbed)
<1>1. FilesTyped /\ TimesRise /\ \A x, y \in copy : x = y
  BY DEF FilesInv, CopyKept
<1>2. PICK o \in Copies : IsOf(c, o)
  BY DEF FilesInv, CopyKept
<1>3. c.tag = Validator(o, c.coding) /\ c.date = DateOf(o)
  BY <1>2 DEF IsOf
<1>4. CASE ask.noneMatch # {}
  <2>1. c.tag = Validator(v, code)
    BY <1>1, <1>4 DEF IsCurrent, Weakly, ByClient
  <2>2. c.coding = code /\ (v = o \/ DatesTie)
    <3>1. Validator(o, c.coding) = Validator(v, code)
      BY <1>3, <2>1
    <3>2. c.coding = code /\ (o = v \/ StampsTie)
      BY <1>1, <3>1, TagsTell
    <3>. QED
      BY <1>1, <3>2, StampsDate
  <2>3. v = o => AllOf(c, v) \/ DatesTie \/ (helper \in Assets /\ c.disturbed)
    BY <1>1, <1>2, PlacesAre, StampsDate DEF IsOf, Mixed
  <2>. QED
    BY <2>2, <2>3
<1>5. CASE ask.noneMatch = {}
  <2>1. DateOf(v) <= DateOf(o)
    BY <1>1, <1>3, <1>5 DEF IsCurrent, ByClient
  <2>2. o <= v
    <3>1. CASE helper \in Assets
      BY <1>2, <3>1 DEF IsOf
    <3>2. CASE helper \notin Assets
      BY <1>1, <3>2, PlacesAre DEF Copies
    <3>. QED
      BY <3>1, <3>2
  <2>3. v = o \/ DatesTie
    <3>1. DateOf(o) <= DateOf(v) /\ DateOf(v) \in Int /\ DateOf(o) \in Int
      BY <1>1, <2>2, DatesRise
    <3>. QED
      BY <1>1, <2>1, <3>1, DatesTell
  <2>4. v = o => AllOf(c, v) \/ DatesTie \/ (helper \in Assets /\ c.disturbed)
    BY <1>1, <1>2, PlacesAre, StampsDate DEF IsOf, Mixed
  <2>. QED
    BY <1>5, <2>3, <2>4
<1>. QED
  BY <1>4, <1>5

(* A range answered to one without a copy covers the bytes it names.          *)
Framed(r) ==
    \A spec \in r.range :
      LET named == BytesNamed(spec, r.size)
      IN  CASE r.status = 206 -> named = r.first .. r.first + r.count - 1 /\ named # {}
            [] r.status = 416 -> named = {}
            [] OTHER -> spec.kind = "span" /\ spec.last < spec.first

LEMMA ProbesFramed ==
  ASSUME NEW ask, ByProbe(ask), helper # "handed",
         NEW v, NEW code, NEW body, NEW probe,
         Length(v, code, body) \in Nat
  PROVE  Framed(Decided(ask, v, code, body, probe))
<1>. DEFINE r == Decided(ask, v, code, body, probe)
            size == Length(v, code, body)
<1>1. PICK spec \in Ranges : ask.range = {spec}
  BY DEF ByProbe
<1>. DEFINE k == SpanFor(spec, size)
<1>2. k = Chosen(ask, v, code, size)
  BY <1>1, ProbeIs
<1>3. r.range = {spec} /\ r.size = size /\ r.status = k.status /\ r.first = k.first /\ r.count = k.count
  <2>1. /\ r.range = ask.range /\ r.size = size
        /\ r.status = Chosen(ask, v, code, size).status
        /\ r.first = Chosen(ask, v, code, size).first
        /\ r.count = Chosen(ask, v, code, size).count
    BY DecidedIs
  <2>. HIDE DEF r, k, size
  <2>. QED
    BY <1>1, <1>2, <2>1
<1>4. /\ k.status \in {200, 206, 416}
      /\ k.status = 206 => BytesNamed(spec, size) = k.first .. k.first + k.count - 1 /\ BytesNamed(spec, size) # {}
      /\ k.status = 416 => BytesNamed(spec, size) = {}
      /\ k.status = 200 => spec.kind = "span" /\ spec.last < spec.first
  BY <1>1, SpanIs
<1>. HIDE DEF r, k, size
<1>5. \A x \in r.range :
         CASE r.status = 206 ->
                    BytesNamed(x, r.size) = r.first .. r.first + r.count - 1 /\ BytesNamed(x, r.size) # {}
           [] r.status = 416 -> BytesNamed(x, r.size) = {}
           [] OTHER -> x.kind = "span" /\ x.last < x.first
  BY <1>3, <1>4
<1>6. Framed(r)
  BY <1>5 DEF Framed
<1>. QED
  BY <1>6 DEF r

LEMMA AsksKeeps == ASSUME FilesInv, AsksForFile PROVE FilesInv'
<1>1. UNCHANGED <<helper, moment, versions, stored, sidecar, stock, handle, copy>>
  BY DEF AsksForFile
<1>2. PICK ask, probe :
        /\ probe \in BOOLEAN
        /\ reply' = Served(ask, probe)
        /\ probe => ByProbe(ask)
        /\ ~probe => ByClient(ask)
  <2>1. CASE \E gz \in BOOLEAN : reply' = Served(Plain(gz), FALSE)
    <3>1. PICK gz \in BOOLEAN : reply' = Served(Plain(gz), FALSE)
      BY <2>1
    <3>2. ByClient(Plain(gz))
      BY ClientsAsk
    <3>3. PICK probe \in BOOLEAN : probe = FALSE
      OBVIOUS
    <3>4. reply' = Served(Plain(gz), probe)
      BY <3>1, <3>3, Zenon
    <3>5. (probe => ByProbe(Plain(gz))) /\ (~probe => ByClient(Plain(gz)))
      BY <3>2, <3>3
    <3>. QED
      BY <3>4, <3>5, Zenon
  <2>2. CASE \E ask \in Conditional : reply' = Served(ask, FALSE)
    <3>1. PICK ask \in Conditional : reply' = Served(ask, FALSE)
      BY <2>2
    <3>2. ByClient(ask)
      BY ClientsAsk
    <3>3. PICK probe \in BOOLEAN : probe = FALSE
      OBVIOUS
    <3>4. reply' = Served(ask, probe)
      BY <3>1, <3>3, Zenon
    <3>5. (probe => ByProbe(ask)) /\ (~probe => ByClient(ask))
      BY <3>2, <3>3
    <3>. QED
      BY <3>4, <3>5, Zenon
  <2>3. CASE \E ask \in Probes : reply' = Served(ask, TRUE)
    <3>1. PICK ask \in Probes : reply' = Served(ask, TRUE)
      BY <2>3
    <3>2. ByProbe(ask)
      BY ProbesAsk
    <3>3. PICK probe \in BOOLEAN : probe = TRUE
      OBVIOUS
    <3>4. reply' = Served(ask, probe)
      BY <3>1, <3>3, Zenon
    <3>5. (probe => ByProbe(ask)) /\ (~probe => ByClient(ask))
      BY <3>2, <3>3
    <3>. QED
      BY <3>4, <3>5, Zenon
  <2>. QED
    BY <2>1, <2>2, <2>3 DEF AsksForFile
<1>3. FilesTyped /\ Copies' = Copies /\ CopyKept
  BY <1>1 DEF FilesInv, FilesTyped, Copies
<1>4. FilesTyped' /\ TimesRise' /\ SidecarsRise' /\ VariantsEncodeTheAsset'
  BY <1>1, <1>3 DEF FilesInv, FilesTyped, TimesRise, SidecarsRise, VariantsEncodeTheAsset
<1>5. \A w \in Copies : \A y : Validator(w, y)' = Validator(w, y) /\ DateOf(w)' = DateOf(w)
  BY <1>1 DEF Validator, Stamp, DateOf
<1>6. DatesTie' = DatesTie /\ StampsTie' = StampsTie
  BY <1>1 DEF DatesTie, StampsTie, TwoOf
<1>7. ASSUME NEW c \in copy, NEW w \in Copies, IsOf(c, w), Continues' => Meets(c, w)' PROVE IsOf(c, w)'
  <2>1. Mixed(c)' = Mixed(c)
    BY <1>1, <1>6 DEF Mixed
  <2>. QED
    BY <1>1, <1>5, <1>6, <1>7, <2>1 DEF IsOf
<1>8. CASE reply'.stage = "refused"
  <2>1. ReplyKept' /\ HandleKept' /\ FramedAsDeclared' /\ ConfirmedIsCurrent' /\ ~Continues'
    BY <1>8 DEF ReplyKept, Asked, HandleKept, FramedAsDeclared, ConfirmedIsCurrent, Continues
  <2>2. CopyKept'
    BY <1>1, <1>3, <1>7, <2>1 DEF CopyKept
  <2>. QED
    BY <1>4, <2>1, <2>2 DEF FilesInv
<1>9. CASE reply'.stage # "refused"
  <2>1. PICK v \in Copies, body \in Copies, code \in {"identity", "gzip"} :
              /\ Served(ask, probe) = Decided(ask, v, code, body, probe)
              /\ helper \in Assets => \E e \in stock : v = e.version
              /\ helper \notin Assets => code = "identity" /\ v = Len(versions)
              /\ ~ask.gz => code = "identity"
    BY <1>2, <1>9, ServedIs
  <2>. DEFINE size == Length(v, code, body)
              k == Chosen(ask, v, code, size)
  <2>2. reply' = Decided(ask, v, code, body, probe)
    BY <1>2, <2>1
  <2>3. size \in Nat
    BY <1>3, LengthsAre
  <2>4. /\ Built(reply')
        /\ reply'.stage \in {"decided", "answered"}
        /\ reply'.stage = "decided" => k.status \in {200, 206}
        /\ reply'.status = k.status /\ reply'.first = k.first
        /\ reply'.sent = 0
        /\ reply'.tag = Validator(v, code) /\ reply'.date = DateOf(v) /\ reply'.coding = code
        /\ reply'.asOf = v /\ reply'.body = body /\ reply'.probe = probe
        /\ reply'.byTag = (ask.noneMatch # {}) /\ reply'.byDate = (ask.ifDate # {})
    BY <1>9, <2>2, DecidedIs
  <2>5. ask.range = {} \/ \E spec \in Ranges : ask.range = {spec}
    <3>1. CASE probe
      BY <1>2, <3>1 DEF ByProbe
    <3>2. CASE ~probe
      <4>1. ASSUME NEW c \in copy PROVE TheRest(c) \in Ranges
        BY <1>3 DEF TheRest, Ranges, CopyKept
      <4>. QED
        BY <1>2, <3>2, <4>1 DEF ByClient, AsksForRest
    <3>. QED
      BY <3>1, <3>2
  <2>6. /\ k.status \in {200, 206, 304, 416} /\ k.first \in Int
        /\ k.status = 304 => IsCurrent(ask, Validator(v, code), DateOf(v))
        /\ k.status = 206 => /\ ask.range # {}
                             /\ RangeAllowed(ask, Validator(v, code), DateOf(v))
                             /\ \A spec : ask.range = {spec} => k = SpanFor(spec, size)
        /\ k.status = 200 => k.first = 0
    BY <2>3, <2>5, ChosenIs
  <2>7. FramedAsDeclared'
    <3>1. SUFFICES ASSUME probe, helper # "handed" PROVE FramedAsDeclared'
      BY <1>1, <2>4 DEF FramedAsDeclared
    <3>2. ByProbe(ask)
      BY <1>2, <3>1
    <3>3. Framed(reply')
      BY <2>2, <2>3, <3>1, <3>2, ProbesFramed
    <3>. QED
      BY <2>4, <3>3 DEF FramedAsDeclared, Framed
  <2>. HIDE DEF k, size
  <2>8. ReplyKept'
    <3>1. (reply.tag = Validator(reply.asOf, reply.coding) /\ reply.date = DateOf(reply.asOf))'
      BY <1>1, <2>4 DEF Validator, Stamp, DateOf
    <3>2. helper \in Assets => \A e \in stock : v <= e.version
      BY <1>3, <2>1, PlacesAre DEF FilesTyped
    <3>3. reply'.body \in Nat
      BY <1>3, <2>4, PlacesAre
    <3>. QED
      BY <1>1, <1>3, <2>1, <2>4, <2>6, <3>1, <3>2, <3>3 DEF ReplyKept
  <2>9. HandleKept'
    BY <2>4 DEF HandleKept
  <2>10. CopyKept'
    <3>1. ASSUME NEW c \in copy, NEW w \in Copies, IsOf(c, w), Continues' PROVE Meets(c, w)'
      <4>1. ~probe /\ k.status = 206
        BY <2>4, <3>1 DEF Continues
      <4>2. AsksForRest(ask, c)
        BY <1>2, <1>3, <2>6, <4>1 DEF ByClient, CopyKept
      <4>3. v = w \/ (ask.ifDate # {} /\ DatesTie) \/ (helper = "stamped" /\ StampsTie)
        BY <2>6, <3>1, <4>1, <4>2, RestIsOf
      <4>4. reply'.first = Len(c.bytes)
        <5>1. TheRest(c) \in Ranges /\ TheRest(c).kind = "from" /\ TheRest(c).first = Len(c.bytes)
          BY <1>3 DEF TheRest, Ranges, CopyKept
        <5>2. k = SpanFor(TheRest(c), size)
          BY <2>6, <4>1, <4>2 DEF AsksForRest
        <5>. QED
          BY <2>3, <2>4, <4>1, <5>1, <5>2, SpanIs
      <4>5. Len(c.bytes) = reply'.first + reply'.sent
        <5>1. Len(c.bytes) \in Nat
          BY <1>3 DEF CopyKept
        <5>. QED
          BY <2>4, <4>4, <5>1
      <4>6. reply'.asOf = w \/ (reply'.byDate /\ DatesTie') \/ (helper' = "stamped" /\ StampsTie')
        BY <1>1, <1>6, <2>4, <4>3
      <4>. QED
        BY <4>5, <4>6 DEF Meets
    <3>2. ASSUME NEW c \in copy PROVE \E w \in Copies : IsOf(c, w)'
      BY <1>3, <1>7, <3>1 DEF CopyKept
    <3>. QED
      BY <1>1, <1>3, <3>2 DEF CopyKept
  <2>11. ConfirmedIsCurrent'
    <3>0. (reply'.byTag <=> ask.noneMatch # {}) /\ (DatesTie' <=> DatesTie)
      BY <1>6, <2>4, Zenon
    <3>1. SUFFICES ASSUME k.status = 304, NEW c \in copy
                   PROVE  /\ ask.noneMatch # {} => c.coding = code
                          /\ AllOf(c, v) \/ DatesTie \/ (helper \in Assets /\ c.disturbed)
      BY <1>1, <2>4, <3>0 DEF ConfirmedIsCurrent, AllOf
    <3>2. IsCurrent(ask, Validator(v, code), DateOf(v))
      BY <2>6, <3>1
    <3>3. CASE probe
      BY <1>2, <3>2, <3>3 DEF ByProbe, IsCurrent
    <3>4. CASE ~probe
      <4>1. ByClient(ask)
        BY <1>2, <3>4
      <4>2. /\ helper \in Assets => \E e \in stock : v = e.version
            /\ helper \notin Assets => v = Len(versions)
        BY <2>1
      <4>. QED
        BY <3>1, <3>2, <4>1, <4>2, CurrentIsOf
    <3>. QED
      BY <3>3, <3>4
  <2>. QED
    BY <1>4, <2>7, <2>8, <2>9, <2>10, <2>11 DEF FilesInv
<1>. QED
  BY <1>8, <1>9

-----------------------------------------------------------------------------
(* FilesInv is inductive.                                                     *)
THEOREM FilesInvariant == FilesSpec => []FilesInv
<1>1. FilesInit => FilesInv
  <2>. SUFFICES ASSUME FilesInit PROVE FilesInv
    OBVIOUS
  <2>1. PICK n \in Sizes : versions = <<[size |-> n, mtime |-> 0]>>
    BY DEF FilesInit
  <2>2. n \in Nat /\ versions \in Seq(Version) /\ Len(versions) = 1 /\ versions[1].mtime = 0
    BY <2>1, FilesAssumption DEF Version
  <2>3. FilesTyped
    BY <2>2 DEF FilesInit, FilesTyped
  <2>4. TimesRise
    BY <2>2 DEF FilesInit, TimesRise, Copies
  <2>5. SidecarsRise /\ CopyKept /\ VariantsEncodeTheAsset
    BY DEF FilesInit, SidecarsRise, CopyKept, VariantsEncodeTheAsset
  <2>6. reply.stage = "none"
    BY DEF FilesInit
  <2>7. ReplyKept /\ HandleKept /\ FramedAsDeclared /\ ConfirmedIsCurrent
    BY <2>6 DEF ReplyKept, Asked, HandleKept, FramedAsDeclared, ConfirmedIsCurrent
  <2>. QED
    BY <2>3, <2>4, <2>5, <2>7 DEF FilesInv
<1>2. FilesInv /\ [FilesNext]_fileVars => FilesInv'
  <2>. SUFFICES ASSUME FilesInv, [FilesNext]_fileVars PROVE FilesInv'
    OBVIOUS
  <2>1. ASSUME NEW inPlace \in BOOLEAN, WritesFile(inPlace) PROVE FilesInv'
    BY <2>1, WritesFileKeeps
  <2>2. CASE Removes
    BY <2>2, RemovesKeeps
  <2>3. CASE EncodesBeside
    BY <2>3, BesideKeeps
  <2>4. CASE TakesInventory
    BY <2>4, StockKeeps
  <2>5. CASE AsksForFile
    BY <2>5, AsksKeeps
  <2>6. CASE OpensFile
    BY <2>6, OpensFileKeeps
  <2>7. CASE ReadsFile
    BY <2>7, ReadsFileKeeps
  <2>8. CASE FileEnds
    BY <2>8, FileEndsKeeps
  <2>9. CASE StopsReading
    BY <2>9, StopsReadingKeeps
  <2>10. CASE UNCHANGED fileVars
    <3>1. UNCHANGED <<helper, moment, versions, stored, sidecar, stock, reply, handle, copy>>
      BY <2>10 DEF fileVars
    <3>2. FilesTyped /\ FilesTyped' /\ Copies' = Copies
      BY <3>1 DEF FilesInv, FilesTyped, Copies
    <3>3. ReplyKept' /\ CopyKept' /\ FramedAsDeclared' /\ ConfirmedIsCurrent'
      BY <3>1, <3>2, StillGrown, WritersKeep
    <3>4. TimesRise' /\ SidecarsRise' /\ VariantsEncodeTheAsset' /\ HandleKept'
      BY <3>1, <3>2 DEF FilesInv, TimesRise, SidecarsRise, VariantsEncodeTheAsset, HandleKept, FromMemory
    <3>. QED
      BY <3>2, <3>3, <3>4 DEF FilesInv
  <2>. QED
    BY <2>1, <2>2, <2>3, <2>4, <2>5, <2>6, <2>7, <2>8, <2>9, <2>10 DEF FilesNext
<1>. QED
  BY <1>1, <1>2, PTL DEF FilesSpec

(* A response is framed as it declares and covers the bytes a range names; a  *)
(* client that goes on where its copy broke off splices no versions that a    *)
(* validator can tell apart; a copy is called current only if it is; and a    *)
(* variant encodes the asset it stands for (files.py, assets.py,              *)
(* selection.py).                                                             *)
THEOREM FilesHold == FilesSpec => []FilesAreSound
<1>1. FilesInv => FilesAreSound
  <2>. SUFFICES ASSUME FilesInv PROVE FilesAreSound
    OBVIOUS
  <2>1. ASSUME NEW c \in copy
        PROVE  /\ \A i \in DOMAIN c.bytes : c.bytes[i][2] = i - 1
               /\ \/ \A i, j \in DOMAIN c.bytes : c.bytes[i][1] = c.bytes[j][1]
                  \/ c.disturbed
                  \/ c.byDate /\ DatesTie
                  \/ helper = "stamped" /\ StampsTie
    BY DEF FilesInv, CopyKept, IsOf, AllOf, Mixed
  <2>. QED
    BY <2>1 DEF FilesInv, FilesAreSound, NothingSpliced
<1>. QED
  BY <1>1, FilesInvariant, PTL

-----------------------------------------------------------------------------
(* Event streams: any feed, any chunks, any cuts.                          *)

(* A position in what a producer writes: how many frames are behind it, which *)
(* line of the next frame, or of a heartbeat, it is at, and whether that line *)
(* has been written or is but half ended.                                     *)
Marks == [field : {"none", "CR", "LF", "id", "data", "retry", "comment"}, n : Nat]
Positions == [at : 0 .. Len(Feed), kind : {"frame", "beat"}, line : Nat, stage : {"clean", "written", "half"}]
Pos(m, k, l, s) == [at |-> m, kind |-> k, line |-> l, stage |-> s]
Between(m) == Pos(m, "frame", 0, "clean")
LineAt(P) == IF P.kind = "beat" THEN Line("comment", 0) ELSE Lines(P.at + 1)[P.line + 1]
HasLine(P) == IF P.kind = "beat" THEN P.line = 0 ELSE P.at < Len(Feed) /\ P.line < Len(Lines(P.at + 1))
IsWhole(P) == IF P.kind = "beat" THEN P.line = 1 ELSE P.at < Len(Feed) /\ P.line = Len(Lines(P.at + 1))
AfterEnd == IF Len(breaks) = 2 THEN "half" ELSE "clean"
Past(P) == IF P.kind = "beat" THEN P.at ELSE P.at + 1

(* One mark leads from a position to the next.                                *)
PutsLine(P, mark, Q) ==
    /\ P.stage = "clean" /\ mark = LineAt(Q)
    /\ \/ P.kind = "frame" /\ HasLine(P) /\ Q = Pos(P.at, "frame", P.line, "written")
       \/ P.kind = "frame" /\ P.line = 0 /\ Q = Pos(P.at, "beat", 0, "written")
EndsTheLine(P, mark, Q) ==
    /\ P.stage = "written" /\ HasLine(P) /\ mark = breaks[1]
    /\ Q = Pos(P.at, P.kind, P.line + 1, AfterEnd)
EndsFrame(P, mark, Q) ==
    /\ P.stage = "clean" /\ IsWhole(P) /\ mark = breaks[1]
    /\ Q = Pos(Past(P), "frame", 0, AfterEnd)
EndsPair(P, mark, Q) ==
    /\ P.stage = "half" /\ mark = LF /\ Len(breaks) = 2
    /\ Q = Pos(P.at, P.kind, P.line, "clean")
Leads(P, mark, Q) ==
    PutsLine(P, mark, Q) \/ EndsTheLine(P, mark, Q) \/ EndsFrame(P, mark, Q) \/ EndsPair(P, mark, Q)
Along(w, h) ==
    /\ h \in [0 .. Len(w) -> Positions]
    /\ \A i \in 1 .. Len(w) : Leads(h[i - 1], w[i], h[i])
Path(w, P, Q) == \E h : Along(w, h) /\ h[0] = P /\ h[Len(w)] = Q

BreaksIs == breaks \in {<<LF>>, <<CR>>, <<CR, LF>>}

LEMMA FeedIs ==
  /\ Len(Feed) \in Nat /\ DOMAIN Feed = 1 .. Len(Feed) /\ Places = 1 .. Len(Feed)
  /\ \A n \in Places : /\ Feed[n].kind \in {"Event", "Checkpoint", "Retry"} /\ Feed[n].id \in BOOLEAN
                       /\ Feed[n].lines \in Nat /\ Feed[n].after \in Nat
                       /\ Feed[n].kind = "Event" => Feed[n].lines > 0
<1>. DEFINE S == [kind : {"Event", "Checkpoint", "Retry"}, id : BOOLEAN, lines : Nat, after : Nat]
<1>1. Feed \in Seq(S)
  BY FeedAssumption
<1>2. \A x \in S : x.kind \in {"Event", "Checkpoint", "Retry"} /\ x.id \in BOOLEAN /\ x.lines \in Nat /\ x.after \in Nat
  OBVIOUS
<1>. HIDE DEF S
<1>3. Len(Feed) \in Nat /\ DOMAIN Feed = 1 .. Len(Feed) /\ \A n \in 1 .. Len(Feed) : Feed[n] \in S
  BY <1>1
<1>. QED
  BY <1>2, <1>3, FeedAssumption DEF Places

LEMMA LineIs == /\ \A n \in Nat : \A f \in {"none", "CR", "LF", "id", "data", "retry", "comment"} :
                     Line(f, n) \in Marks /\ Line(f, n).field = f /\ Line(f, n).n = n
                /\ None \in Marks /\ CR \in Marks /\ LF \in Marks
                /\ None.field = "none" /\ CR.field = "CR" /\ LF.field = "LF"
                /\ LineEnds = {CR, LF}
BY DEF Line, Marks, None, CR, LF, LineEnds

LEMMA PosIs ==
  ASSUME NEW m, NEW k, NEW l, NEW s
  PROVE  /\ Pos(m, k, l, s).at = m /\ Pos(m, k, l, s).kind = k /\ Pos(m, k, l, s).line = l /\ Pos(m, k, l, s).stage = s
         /\ m \in 0 .. Len(Feed) /\ k \in {"frame", "beat"} /\ l \in Nat /\ s \in {"clean", "written", "half"}
               => Pos(m, k, l, s) \in Positions
BY DEF Pos, Positions

LEMMA RestIs ==
  ASSUME NEW m \in 0 .. Len(Feed)
  PROVE  Between(m) \in Positions /\ Between(m).at = m /\ Between(m).kind = "frame" /\ Between(m).line = 0 /\ Between(m).stage = "clean"
BY PosIs DEF Between

(* The lines of a frame: that of its id, if it carries one, and its data.     *)
LEMMA EventLines ==
  ASSUME NEW n \in Places, Feed[n].kind = "Event"
  PROVE  /\ Lines(n) \in Seq(Marks) /\ Len(Lines(n)) = Feed[n].lines + (IF Feed[n].id THEN 1 ELSE 0)
         /\ \A j \in 1 .. Len(Lines(n)) : Lines(n)[j] = IF Feed[n].id /\ j = 1 THEN Line("id", n) ELSE Line("data", n)
<1>. DEFINE a == IF Feed[n].id THEN <<Line("id", n)>> ELSE <<>>
            b == [i \in 1 .. Feed[n].lines |-> Line("data", n)]
<1>1. n \in Nat /\ Line("id", n) \in Marks /\ Line("data", n) \in Marks /\ Feed[n].lines \in Nat /\ Feed[n].id \in BOOLEAN
  BY FeedIs, LineIs
<1>2. a \in Seq(Marks) /\ Len(a) = IF Feed[n].id THEN 1 ELSE 0
  BY <1>1
<1>4. b \in Seq(Marks) /\ Len(b) = Feed[n].lines /\ \A i \in 1 .. Feed[n].lines : b[i] = Line("data", n)
  BY <1>1, IsASeq
<1>5. Lines(n) = a \o b
  BY DEF Lines
<1>. HIDE DEF a, b
<1>6. /\ Lines(n) \in Seq(Marks) /\ Len(Lines(n)) = Len(a) + Len(b)
      /\ \A j \in 1 .. Len(a) + Len(b) : Lines(n)[j] = IF j <= Len(a) THEN a[j] ELSE b[j - Len(a)]
  <2>1. a \o b \in Seq(Marks) /\ Len(a \o b) = Len(a) + Len(b)
        /\ \A j \in 1 .. Len(a) + Len(b) : (a \o b)[j] = IF j <= Len(a) THEN a[j] ELSE b[j - Len(a)]
    BY <1>2, <1>4, ConcatProperties
  <2>. QED
    BY <1>5, <2>1
<1>7. ASSUME NEW j \in 1 .. Len(Lines(n))
      PROVE  Lines(n)[j] = IF Feed[n].id /\ j = 1 THEN Line("id", n) ELSE Line("data", n)
  <2>1. CASE Feed[n].id
    <3>1. a[1] = Line("id", n)
      BY <2>1 DEF a
    <3>2. j # 1 => j - Len(a) \in 1 .. Feed[n].lines
      BY <1>1, <1>2, <1>4, <1>6, <2>1
    <3>. QED
      BY <1>1, <1>2, <1>4, <1>6, <2>1, <3>1, <3>2
  <2>2. CASE ~Feed[n].id
    <3>1. j - Len(a) \in 1 .. Feed[n].lines
      BY <1>1, <1>2, <1>4, <1>6, <2>2
    <3>. QED
      BY <1>1, <1>2, <1>4, <1>6, <2>2, <3>1
  <2>. QED
    BY <2>1, <2>2
<1>. QED
  BY <1>1, <1>2, <1>4, <1>6, <1>7

LEMMA LinesAre ==
  ASSUME NEW n \in Places
  PROVE  /\ Lines(n) \in Seq(Marks) /\ Len(Lines(n)) \in Nat \ {0}
         /\ Feed[n].kind # "Event" => Len(Lines(n)) = 1
         /\ Feed[n].kind = "Checkpoint" => Lines(n)[1] = Line("id", n)
         /\ Feed[n].kind = "Retry" => Lines(n)[1] = Line("retry", Feed[n].after)
<1>1. n \in Nat /\ Line("id", n) \in Marks /\ Line("retry", Feed[n].after) \in Marks
  BY FeedIs, LineIs
<1>2. CASE Feed[n].kind = "Event"
  BY <1>2, EventLines, FeedIs
<1>3. CASE Feed[n].kind = "Checkpoint"
  <2>1. Lines(n) = <<Line("id", n)>>
    BY <1>3 DEF Lines
  <2>. QED
    BY <1>1, <1>3, <2>1
<1>4. CASE Feed[n].kind = "Retry"
  <2>1. Lines(n) = <<Line("retry", Feed[n].after)>>
    BY <1>4 DEF Lines
  <2>. QED
    BY <1>1, <1>4, <2>1
<1>. QED
  BY <1>2, <1>3, <1>4, FeedIs

(* Every mark that is written is a line of some kind, or ends one.            *)
LEMMA LineAtIs ==
  ASSUME NEW P \in Positions, HasLine(P)
  PROVE  LineAt(P) \in Marks /\ LineAt(P).field \in {"id", "data", "retry", "comment"}
<1>1. CASE P.kind = "beat"
  BY <1>1, LineIs DEF LineAt
<1>2. CASE P.kind = "frame"
  <2>1. P.at + 1 \in Places /\ P.line + 1 \in 1 .. Len(Lines(P.at + 1)) /\ Len(Lines(P.at + 1)) \in Nat
    BY <1>2, FeedIs, LinesAre DEF HasLine, Positions
  <2>2. P.at + 1 \in Nat /\ Feed[P.at + 1].after \in Nat /\ Feed[P.at + 1].kind \in {"Event", "Checkpoint", "Retry"}
    BY <2>1, FeedIs
  <2>3. LineAt(P) = Lines(P.at + 1)[P.line + 1]
    BY <1>2 DEF LineAt
  <2>4. CASE Feed[P.at + 1].kind = "Event"
    <3>1. LineAt(P) \in {Line("id", P.at + 1), Line("data", P.at + 1)}
      BY <2>1, <2>3, <2>4, EventLines
    <3>. QED
      BY <2>2, <3>1, LineIs
  <2>5. CASE Feed[P.at + 1].kind # "Event"
    <3>1. P.line + 1 = 1
      <4>1. Len(Lines(P.at + 1)) = 1
        BY <2>1, <2>5, LinesAre
      <4>2. P.line \in Nat /\ P.line < Len(Lines(P.at + 1))
        BY <1>2 DEF HasLine, Positions
      <4>. DEFINE x == P.line
                  y == Len(Lines(P.at + 1))
      <4>3. x \in Nat /\ x < y /\ y = 1
        BY <4>1, <4>2
      <4>. HIDE DEF x, y
      <4>4. x = 0
        BY <4>3
      <4>5. P.line = 0
        BY <4>4 DEF x
      <4>. QED
        BY <4>5
    <3>2. LineAt(P) \in {Line("id", P.at + 1), Line("retry", Feed[P.at + 1].after)}
      BY <2>1, <2>2, <2>3, <2>5, <3>1, LinesAre
    <3>. QED
      BY <2>2, <3>2, LineIs
  <2>. QED
    BY <2>4, <2>5
<1>. QED
  BY <1>1, <1>2 DEF Positions

LEMMA BreaksAre ==
  ASSUME BreaksIs
  PROVE  /\ breaks \in Seq(Marks) /\ Len(breaks) \in {1, 2} /\ breaks[1] \in {CR, LF}
         /\ Len(breaks) = 2 => breaks[1] = CR /\ breaks[2] = LF
         /\ breaks[1] = LF => Len(breaks) = 1
<1>1. CR \in Marks /\ LF \in Marks /\ CR # LF
  BY LineIs
<1>2. CASE breaks = <<LF>>
  BY <1>1, <1>2
<1>3. CASE breaks = <<CR>>
  BY <1>1, <1>3
<1>4. CASE breaks = <<CR, LF>>
  BY <1>1, <1>4
<1>. QED
  BY <1>2, <1>3, <1>4 DEF BreaksIs

-----------------------------------------------------------------------------
(* Paths compose, and what is cut off one is one.                             *)
LEMMA PathEmpty ==
  ASSUME NEW P \in Positions PROVE Path(<<>>, P, P)
<1>. DEFINE h == [i \in 0 .. 0 |-> P]
<1>1. Along(<<>>, h) /\ h[0] = P /\ h[Len(<<>>)] = P
  BY DEF Along
<1>. HIDE DEF h
<1>. QED
  BY <1>1 DEF Path

LEMMA PathOne ==
  ASSUME NEW P \in Positions, NEW Q \in Positions, NEW mark, Leads(P, mark, Q)
  PROVE  Path(<<mark>>, P, Q)
<1>. DEFINE h == [i \in 0 .. 1 |-> IF i = 0 THEN P ELSE Q]
<1>1. Len(<<mark>>) = 1 /\ <<mark>>[1] = mark /\ h \in [0 .. 1 -> Positions] /\ h[0] = P /\ h[1] = Q
  OBVIOUS
<1>2. ASSUME NEW i \in 1 .. 1 PROVE i = 1 /\ i - 1 = 0
  OBVIOUS
<1>. HIDE DEF h
<1>3. Along(<<mark>>, h)
  BY <1>1, <1>2 DEF Along
<1>. QED
  BY <1>1, <1>3 DEF Path

LEMMA PathJoins ==
  ASSUME NEW u \in Seq(Marks), NEW v \in Seq(Marks), NEW P, NEW Q, NEW R, Path(u, P, Q), Path(v, Q, R)
  PROVE  Path(u \o v, P, R)
<1>1. PICK g : Along(u, g) /\ g[0] = P /\ g[Len(u)] = Q
  BY DEF Path
<1>2. PICK h : Along(v, h) /\ h[0] = Q /\ h[Len(v)] = R
  BY DEF Path
<1>. DEFINE f == [i \in 0 .. Len(u) + Len(v) |-> IF i <= Len(u) THEN g[i] ELSE h[i - Len(u)]]
<1>3. /\ Len(u) \in Nat /\ Len(v) \in Nat /\ Len(u \o v) = Len(u) + Len(v)
      /\ \A i \in 1 .. Len(u) + Len(v) : (u \o v)[i] = IF i <= Len(u) THEN u[i] ELSE v[i - Len(u)]
  BY ConcatProperties
<1>4. f \in [0 .. Len(u \o v) -> Positions]
  <2>1. ASSUME NEW i \in 0 .. Len(u) + Len(v)
        PROVE  (IF i <= Len(u) THEN g[i] ELSE h[i - Len(u)]) \in Positions
    <3>1. CASE i <= Len(u)
      BY <1>1, <1>3, <3>1 DEF Along
    <3>2. CASE i > Len(u)
      <4>1. i - Len(u) \in 0 .. Len(v) /\ ~(i <= Len(u))
        BY <1>3, <3>2
      <4>. QED
        BY <1>2, <4>1 DEF Along
    <3>. QED
      BY <1>3, <3>1, <3>2
  <2>. QED
    BY <1>3, <2>1
<1>5. f[0] = P /\ f[Len(u \o v)] = R
  BY <1>1, <1>2, <1>3
<1>6. ASSUME NEW i \in 1 .. Len(u \o v) PROVE Leads(f[i - 1], (u \o v)[i], f[i])
  <2>1. CASE i <= Len(u)
    <3>1. i \in 1 .. Len(u) /\ f[i - 1] = g[i - 1] /\ f[i] = g[i] /\ (u \o v)[i] = u[i]
      BY <1>3, <2>1
    <3>. QED
      BY <1>1, <3>1 DEF Along
  <2>2. CASE i > Len(u)
    <3>1. /\ i - Len(u) \in 1 .. Len(v) /\ f[i] = h[i - Len(u)] /\ (u \o v)[i] = v[i - Len(u)]
      BY <1>3, <2>2
    <3>2. f[i - 1] = h[(i - Len(u)) - 1]
      <4>1. CASE i - 1 = Len(u)
        <5>1. (i - Len(u)) - 1 = 0 /\ i - 1 \in 0 .. Len(u) + Len(v) /\ i - 1 <= Len(u)
          BY <1>3, <4>1
        <5>. QED
          BY <1>1, <1>2, <4>1, <5>1
      <4>2. CASE i - 1 # Len(u)
        <5>1. (i - 1) - Len(u) = (i - Len(u)) - 1 /\ i - 1 \in 0 .. Len(u) + Len(v) /\ ~(i - 1 <= Len(u))
          BY <1>3, <2>2, <4>2
        <5>. QED
          BY <5>1
      <4>. QED
        BY <4>1, <4>2
    <3>. QED
      BY <1>2, <3>1, <3>2 DEF Along
  <2>. QED
    BY <1>3, <2>1, <2>2
<1>. HIDE DEF f
<1>7. Along(u \o v, f)
  BY <1>4, <1>6 DEF Along
<1>. QED
  BY <1>5, <1>7 DEF Path

LEMMA PathCut ==
  ASSUME NEW w \in Seq(Marks), NEW h, Along(w, h), NEW n \in 0 .. Len(w)
  PROVE  /\ Path(SubSeq(w, 1, n), h[0], h[n]) /\ Path(SubSeq(w, n + 1, Len(w)), h[n], h[Len(w)])
         /\ h[0] \in Positions /\ h[n] \in Positions
         /\ SubSeq(w, 1, n) \in Seq(Marks) /\ SubSeq(w, n + 1, Len(w)) \in Seq(Marks)
<1>. DEFINE u == SubSeq(w, 1, n)
            v == SubSeq(w, n + 1, Len(w))
            g == [i \in 0 .. n |-> h[i]]
            f == [i \in 0 .. Len(w) - n |-> h[n + i]]
<1>1. Len(w) \in Nat /\ n \in Nat
  OBVIOUS
<1>2. u \in Seq(Marks) /\ Len(u) = n /\ \A i \in 1 .. n : u[i] = w[i]
  BY <1>1, SubSeqProperties
<1>3. v \in Seq(Marks) /\ Len(v) = Len(w) - n /\ \A i \in 1 .. Len(w) - n : v[i] = w[n + i]
  BY <1>1, SubSeqProperties
<1>4. /\ g \in [0 .. n -> Positions] /\ g[0] = h[0] /\ g[n] = h[n]
      /\ f \in [0 .. Len(w) - n -> Positions] /\ f[0] = h[n] /\ f[Len(w) - n] = h[Len(w)]
  <2>1. h \in [0 .. Len(w) -> Positions] /\ \A i \in 0 .. n : i \in 0 .. Len(w)
    BY <1>1 DEF Along
  <2>2. \A i \in 0 .. Len(w) - n : n + i \in 0 .. Len(w)
    BY <1>1
  <2>3. g \in [0 .. n -> Positions] /\ f \in [0 .. Len(w) - n -> Positions]
    BY <2>1, <2>2
  <2>4. 0 \in 0 .. n /\ n \in 0 .. n /\ 0 \in 0 .. Len(w) - n /\ Len(w) - n \in 0 .. Len(w) - n
        /\ n + 0 = n /\ n + (Len(w) - n) = Len(w)
    BY <1>1
  <2>. QED
    BY <2>3, <2>4
<1>5. ASSUME NEW i \in 1 .. n PROVE Leads(g[i - 1], u[i], g[i])
  <2>1. i \in 1 .. Len(w) /\ g[i - 1] = h[i - 1] /\ g[i] = h[i]
    BY <1>1
  <2>. QED
    BY <1>2, <2>1 DEF Along
<1>6. ASSUME NEW i \in 1 .. Len(w) - n PROVE Leads(f[i - 1], v[i], f[i])
  <2>1. n + i \in 1 .. Len(w) /\ f[i - 1] = h[(n + i) - 1] /\ f[i] = h[n + i] /\ v[i] = w[n + i]
    BY <1>1, <1>3
  <2>. HIDE DEF f, v
  <2>. QED
    BY <2>1 DEF Along
<1>7. h[0] \in Positions /\ h[n] \in Positions
  BY <1>1 DEF Along
<1>. HIDE DEF u, v, g, f
<1>8. Along(u, g) /\ Along(v, f)
  BY <1>2, <1>3, <1>4, <1>5, <1>6 DEF Along
<1>9. Path(u, h[0], h[n]) /\ Path(v, h[n], h[Len(w)])
  BY <1>2, <1>3, <1>4, <1>8 DEF Path
<1>. QED
  BY <1>2, <1>3, <1>7, <1>9 DEF u, v

-----------------------------------------------------------------------------
(* What a producer writes of a frame leads past it.                           *)
IsRendered(g, lines, n) == g = [i \in 0 .. n |-> IF i = 0 THEN <<>> ELSE g[i - 1] \o <<lines[i]>> \o breaks]

LEMMA RenderingExists ==
  ASSUME NEW lines \in Seq(Marks), NEW n \in 0 .. Len(lines) PROVE \E g : IsRendered(g, lines, n)
<1>. DEFINE T == {m \in 0 .. Len(lines) : ~ \E g : IsRendered(g, lines, m)}
<1>1. SUFFICES ASSUME T # {} PROVE FALSE
  OBVIOUS
<1>2. T \subseteq Nat
  OBVIOUS
<1>3. PICK m \in T : \A y \in T : m <= y
  <2>. HIDE DEF T
  <2>. QED
    BY <1>1, <1>2, LeastThereIs
<1>4. CASE m = 0
  <2>1. IsRendered([i \in 0 .. 0 |-> <<>>], lines, 0)
    BY DEF IsRendered
  <2>. QED
    BY <1>3, <1>4, <2>1
<1>5. CASE m # 0
  <2>1. m \in Nat /\ m - 1 \in 0 .. Len(lines) /\ m - 1 < m /\ m - 1 \in Nat
    BY <1>2, <1>3, <1>5
  <2>2. m - 1 \notin T
    <3>. HIDE DEF T
    <3>. QED
      BY <1>2, <1>3, <2>1
  <2>3. PICK g : IsRendered(g, lines, m - 1)
    BY <2>1, <2>2
  <2>. DEFINE h == [i \in 0 .. m |-> IF i = m THEN g[m - 1] \o <<lines[m]>> \o breaks ELSE g[i]]
  <2>4. \A i \in 0 .. m - 1 : g[i] = IF i = 0 THEN <<>> ELSE g[i - 1] \o <<lines[i]>> \o breaks
    BY <2>3 DEF IsRendered
  <2>5. ASSUME NEW i \in 0 .. m PROVE h[i] = IF i = 0 THEN <<>> ELSE h[i - 1] \o <<lines[i]>> \o breaks
    <3>1. CASE i = m
      <4>1. i - 1 \in 0 .. m /\ i - 1 # m /\ i # 0
        BY <2>1, <1>5, <3>1
      <4>. QED
        BY <3>1, <4>1
    <3>2. CASE i # m
      <4>1. i \in 0 .. m - 1 /\ (i # 0 => i - 1 \in 0 .. m /\ i - 1 # m)
        BY <2>1, <2>5, <3>2
      <4>. QED
        BY <2>4, <2>5, <3>2, <4>1
    <3>. QED
      BY <3>1, <3>2
  <2>6. IsRendered(h, lines, m)
    BY <2>5 DEF IsRendered
  <2>. QED
    BY <1>3, <2>6
<1>. QED
  BY <1>4, <1>5

LEMMA RenderedIs ==
  ASSUME NEW lines \in Seq(Marks)
  PROVE  /\ Rendered(lines)[0] = <<>>
         /\ \A i \in 1 .. Len(lines) : Rendered(lines)[i] = Rendered(lines)[i - 1] \o <<lines[i]>> \o breaks
<1>0. Len(lines) \in 0 .. Len(lines)
  OBVIOUS
<1>1. PICK g : IsRendered(g, lines, Len(lines))
  BY <1>0, RenderingExists
<1>2. Rendered(lines) = CHOOSE f : f = [i \in 0 .. Len(lines) |->
                              IF i = 0 THEN <<>> ELSE f[i - 1] \o <<lines[i]>> \o breaks]
  BY DEF Rendered
<1>3. IsRendered(Rendered(lines), lines, Len(lines))
  BY <1>1, <1>2 DEF IsRendered
<1>4. \A i \in 0 .. Len(lines) :
        Rendered(lines)[i] = IF i = 0 THEN <<>> ELSE Rendered(lines)[i - 1] \o <<lines[i]>> \o breaks
  BY <1>3 DEF IsRendered
<1>5. 0 \in 0 .. Len(lines) /\ \A i \in 1 .. Len(lines) : i \in 0 .. Len(lines) /\ i # 0
  BY <1>0
<1>. QED
  BY <1>4, <1>5

(* A line end, of one mark or of two.                                         *)
LEMMA PairIs == ASSUME NEW a, NEW b PROVE <<a>> \o <<b>> = <<a, b>>
<1>. DEFINE S == {a, b}
            u == <<a>>
            v == <<b>>
            w == <<a, b>>
<1>1. /\ u \in Seq(S) /\ v \in Seq(S) /\ w \in Seq(S) /\ Len(u) = 1 /\ Len(v) = 1 /\ Len(w) = 2
      /\ u[1] = a /\ v[1] = b /\ w[1] = a /\ w[2] = b
  OBVIOUS
<1>. HIDE DEF S, u, v, w
<1>2. /\ u \o v \in Seq(S) /\ Len(u \o v) = 2
      /\ \A i \in 1 .. 2 : (u \o v)[i] = IF i <= 1 THEN u[i] ELSE v[i - 1]
  BY <1>1, ConcatProperties
<1>3. \A i \in 1 .. 2 : (u \o v)[i] = w[i]
  BY <1>1, <1>2
<1>4. u \o v = w
  BY <1>1, <1>2, <1>3, SeqEqual
<1>. QED
  BY <1>4 DEF u, v, w

LEMMA EndIsPath ==
  ASSUME BreaksIs, NEW P \in Positions, NEW m \in 0 .. Len(Feed), NEW k \in {"frame", "beat"}, NEW l \in Nat,
         Leads(P, breaks[1], Pos(m, k, l, AfterEnd))
  PROVE  Path(breaks, P, Pos(m, k, l, "clean"))
<1>. DEFINE H == Pos(m, k, l, AfterEnd)
            Q == Pos(m, k, l, "clean")
<1>1. /\ H \in Positions /\ Q \in Positions
      /\ H.at = m /\ H.kind = k /\ H.line = l /\ H.stage = AfterEnd
  BY PosIs DEF AfterEnd
<1>. HIDE DEF H
<1>2. CASE Len(breaks) = 1
  <2>1. breaks = <<breaks[1]>>
    <3>1. Len(<<CR, LF>>) = 2 /\ <<CR>>[1] = CR /\ <<LF>>[1] = LF
      OBVIOUS
    <3>2. breaks = <<LF>> \/ breaks = <<CR>>
      BY <1>2, <3>1 DEF BreaksIs
    <3>. QED
      BY <3>1, <3>2
  <2>2. H = Q
    BY <1>2 DEF AfterEnd, H
  <2>. QED
    BY <1>1, <2>1, <2>2, PathOne DEF H
<1>3. CASE Len(breaks) = 2
  <2>1. breaks = <<CR, LF>> /\ breaks[1] = CR
    <3>. DEFINE a == <<LF>>
                b == <<CR>>
    <3>1. Len(a) = 1 /\ Len(b) = 1 /\ <<CR, LF>>[1] = CR
      OBVIOUS
    <3>2. breaks \in {a, b, <<CR, LF>>}
      BY DEF BreaksIs
    <3>. HIDE DEF a, b
    <3>3. breaks # a /\ breaks # b
      BY <1>3, <3>1
    <3>4. breaks = <<CR, LF>>
      BY <3>2, <3>3
    <3>. QED
      BY <3>1, <3>4
  <2>2. Path(<<CR>>, P, H)
    BY <1>1, <2>1, PathOne DEF H
  <2>3. EndsPair(H, LF, Q)
    BY <1>1, <1>3 DEF AfterEnd, EndsPair
  <2>4. Path(<<LF>>, H, Q)
    BY <1>1, <2>3, PathOne DEF Leads
  <2>5. <<CR>> \in Seq(Marks) /\ <<LF>> \in Seq(Marks) /\ <<CR>> \o <<LF>> = <<CR, LF>>
    BY LineIs, PairIs
  <2>. HIDE DEF Q
  <2>6. Path(<<CR>> \o <<LF>>, P, Q)
    BY <2>2, <2>4, <2>5, PathJoins
  <2>. QED
    BY <2>1, <2>5, <2>6 DEF Q
<1>. QED
  BY <1>2, <1>3, BreaksAre

LEMMA LineIsPath ==
  ASSUME BreaksIs, NEW P \in Positions, NEW m \in 0 .. Len(Feed), NEW k \in {"frame", "beat"}, NEW l \in Nat,
         HasLine(Pos(m, k, l, "written")), PutsLine(P, LineAt(Pos(m, k, l, "written")), Pos(m, k, l, "written"))
  PROVE  Path(<<LineAt(Pos(m, k, l, "written"))>> \o breaks, P, Pos(m, k, l + 1, "clean"))
<1>. DEFINE W == Pos(m, k, l, "written")
            Q == Pos(m, k, l + 1, "clean")
<1>1. W \in Positions /\ W.at = m /\ W.kind = k /\ W.line = l /\ W.stage = "written" /\ l + 1 \in Nat
  BY PosIs
<1>. HIDE DEF W
<1>2. HasLine(W) /\ PutsLine(P, LineAt(W), W)
  BY DEF W
<1>3. LineAt(W) \in Marks
  BY <1>1, <1>2, LineAtIs
<1>4. Path(<<LineAt(W)>>, P, W)
  BY <1>1, <1>2, PathOne DEF Leads
<1>5. Leads(W, breaks[1], Pos(m, k, l + 1, AfterEnd))
  BY <1>1, <1>2 DEF Leads, EndsTheLine
<1>6. Path(breaks, W, Q)
  BY <1>1, <1>5, EndIsPath
<1>. HIDE DEF Q
<1>7. <<LineAt(W)>> \in Seq(Marks) /\ breaks \in Seq(Marks)
  BY <1>3, BreaksAre
<1>8. Path(<<LineAt(W)>> \o breaks, P, Q)
  BY <1>4, <1>6, <1>7, PathJoins
<1>. QED
  BY <1>8 DEF W, Q

LEMMA FrameIsPath ==
  ASSUME BreaksIs, NEW m \in 0 .. Len(Feed), m < Len(Feed)
  PROVE  Terminated(Lines(m + 1)) \in Seq(Marks) /\ Path(Terminated(Lines(m + 1)), Between(m), Between(m + 1))
<1>. DEFINE lines == Lines(m + 1)
            g == Rendered(lines)
            Good(i) == g[i] \in Seq(Marks) /\ Path(g[i], Between(m), Pos(m, "frame", i, "clean"))
            T == {i \in 0 .. Len(lines) : ~Good(i)}
<1>1. /\ lines \in Seq(Marks) /\ Len(lines) \in Nat \ {0} /\ m + 1 \in 0 .. Len(Feed) /\ m \in Nat
      /\ \A i \in 1 .. Len(lines) : lines[i] \in Marks
  BY LinesAre, FeedIs
<1>2. g[0] = <<>> /\ \A i \in 1 .. Len(lines) : g[i] = g[i - 1] \o <<lines[i]>> \o breaks
  BY <1>1, RenderedIs
<1>3. breaks \in Seq(Marks)
  BY BreaksAre
<1>. HIDE DEF g
<1>4. T = {}
  <2>1. SUFFICES ASSUME T # {} PROVE FALSE
    OBVIOUS
  <2>2. PICK i \in T : \A y \in T : i <= y
    <3>1. T \subseteq Nat
      BY <1>1
    <3>. HIDE DEF T
    <3>. QED
      BY <2>1, <3>1, LeastThereIs
  <2>3. CASE i = 0
    <3>1. Between(m) \in Positions /\ Between(m) = Pos(m, "frame", 0, "clean")
      BY RestIs DEF Between
    <3>2. Path(<<>>, Between(m), Between(m)) /\ <<>> \in Seq(Marks)
      BY <3>1, PathEmpty
    <3>. QED
      BY <1>2, <2>2, <2>3, <3>1, <3>2
  <2>4. CASE i # 0
    <3>1. i \in 1 .. Len(lines) /\ i - 1 \in 0 .. Len(lines) /\ i - 1 \in Nat /\ i - 1 < i /\ (i - 1) + 1 = i /\ i \in Nat
      BY <1>1, <2>2, <2>4
    <3>2. i - 1 \notin T
      <4>. HIDE DEF T
      <4>. QED
        BY <2>2, <3>1
    <3>3. Good(i - 1)
      BY <3>1, <3>2
    <3>. DEFINE P == Pos(m, "frame", i - 1, "clean")
                W == Pos(m, "frame", i - 1, "written")
    <3>4. /\ P \in Positions /\ P.at = m /\ P.kind = "frame" /\ P.line = i - 1 /\ P.stage = "clean"
          /\ W \in Positions /\ W.at = m /\ W.kind = "frame" /\ W.line = i - 1 /\ W.stage = "written"
      BY <3>1, PosIs
    <3>5. HasLine(W) /\ HasLine(P) /\ LineAt(W) = lines[i]
      BY <1>1, <3>1, <3>4 DEF HasLine, LineAt
    <3>6. PutsLine(P, LineAt(W), W)
      BY <3>4, <3>5 DEF PutsLine
    <3>7. Path(<<LineAt(W)>> \o breaks, P, Pos(m, "frame", (i - 1) + 1, "clean"))
      BY <3>1, <3>4, <3>5, <3>6, LineIsPath
    <3>8. <<lines[i]>> \in Seq(Marks) /\ <<lines[i]>> \o breaks \in Seq(Marks)
      <4>1. lines[i] \in Marks
        BY <1>1, <3>1
      <4>2. <<lines[i]>> \in Seq(Marks)
        BY <4>1
      <4>. QED
        BY <1>3, <4>2, ConcatProperties
    <3>. HIDE DEF P, W, lines
    <3>9. Path(g[i - 1] \o (<<lines[i]>> \o breaks), Between(m), Pos(m, "frame", i, "clean"))
          /\ g[i - 1] \o (<<lines[i]>> \o breaks) \in Seq(Marks)
      <4>1. Path(<<lines[i]>> \o breaks, P, Pos(m, "frame", i, "clean"))
        BY <3>1, <3>5, <3>7
      <4>2. g[i - 1] \in Seq(Marks) /\ Path(g[i - 1], Between(m), P)
        BY <3>3 DEF P
      <4>. QED
        BY <3>8, <4>1, <4>2, PathJoins, ConcatProperties
    <3>10. g[i] = g[i - 1] \o (<<lines[i]>> \o breaks)
      <4>1. g[i] = g[i - 1] \o <<lines[i]>> \o breaks
        BY <1>2, <3>1
      <4>2. g[i - 1] \in Seq(Marks)
        BY <3>3
      <4>3. (g[i - 1] \o <<lines[i]>>) \o breaks = g[i - 1] \o (<<lines[i]>> \o breaks)
        <5>. DEFINE x == g[i - 1]
                    y == <<lines[i]>>
        <5>1. x \in Seq(Marks) /\ y \in Seq(Marks) /\ breaks \in Seq(Marks)
          BY <1>3, <3>8, <4>2
        <5>. HIDE DEF x, y
        <5>2. (x \o y) \o breaks = x \o (y \o breaks)
          BY <5>1, ConcatAssociative
        <5>. QED
          BY <5>2 DEF x, y
      <4>. QED
        BY <4>1, <4>3
    <3>11. Good(i)
      BY <3>9, <3>10
    <3>. QED
      BY <2>2, <3>11
  <2>. QED
    BY <2>3, <2>4
<1>5. Len(lines) \in 0 .. Len(lines)
  BY <1>1
<1>6. Good(Len(lines))
  BY <1>4, <1>5
<1>. DEFINE E == Pos(m, "frame", Len(lines), "clean")
<1>7. E \in Positions /\ E.at = m /\ E.kind = "frame" /\ E.line = Len(lines) /\ E.stage = "clean"
  BY <1>1, PosIs
<1>8. Leads(E, breaks[1], Pos(m + 1, "frame", 0, AfterEnd))
  BY <1>1, <1>7 DEF Leads, EndsFrame, IsWhole, Past
<1>9. Path(breaks, E, Between(m + 1))
  <2>. HIDE DEF E
  <2>. QED
    BY <1>1, <1>7, <1>8, EndIsPath DEF Between
<1>10. Terminated(lines) = g[Len(lines)] \o breaks
  BY DEF Terminated, g
<1>. HIDE DEF E
<1>11. g[Len(lines)] \in Seq(Marks) /\ Path(g[Len(lines)], Between(m), E)
  BY <1>6 DEF E
<1>. HIDE DEF lines
<1>12. Path(g[Len(lines)] \o breaks, Between(m), Between(m + 1)) /\ g[Len(lines)] \o breaks \in Seq(Marks)
  BY <1>3, <1>9, <1>11, PathJoins, ConcatProperties
<1>. QED
  BY <1>10, <1>12 DEF lines

LEMMA BeatIsPath ==
  ASSUME BreaksIs, NEW m \in 0 .. Len(Feed)
  PROVE  Heartbeat \in Seq(Marks) /\ Path(Heartbeat, Between(m), Between(m))
<1>. DEFINE c == Line("comment", 0)
            lines == <<c>>
            W == Pos(m, "beat", 0, "written")
            E == Pos(m, "beat", 1, "clean")
<1>1. c \in Marks /\ <<c>> \in Seq(Marks) /\ Len(lines) = 1 /\ lines[1] = c /\ breaks \in Seq(Marks)
  BY LineIs, BreaksAre
<1>2. Between(m) \in Positions /\ Between(m).kind = "frame" /\ Between(m).line = 0 /\ Between(m).stage = "clean" /\ Between(m).at = m
  BY RestIs
<1>3. /\ W \in Positions /\ W.kind = "beat" /\ W.line = 0 /\ W.stage = "written" /\ W.at = m
      /\ E \in Positions /\ E.kind = "beat" /\ E.line = 1 /\ E.stage = "clean" /\ E.at = m
  BY PosIs
<1>4. HasLine(W) /\ LineAt(W) = c
  BY <1>3 DEF HasLine, LineAt
<1>. HIDE DEF c
<1>5. PutsLine(Between(m), c, W)
  BY <1>2, <1>4 DEF PutsLine
<1>6. Path(<<c>> \o breaks, Between(m), E)
  <2>1. Path(<<LineAt(W)>> \o breaks, Between(m), Pos(m, "beat", 0 + 1, "clean"))
    BY <1>2, <1>4, <1>5, LineIsPath
  <2>. QED
    BY <1>4, <2>1
<1>7. Leads(E, breaks[1], Pos(m, "frame", 0, AfterEnd))
  BY <1>3 DEF Leads, EndsFrame, IsWhole, Past
<1>8. Path(breaks, E, Between(m))
  <2>. HIDE DEF E
  <2>. QED
    BY <1>3, <1>7, EndIsPath DEF Between
<1>. HIDE DEF E
<1>9. Rendered(lines)[1] = <<c>> \o breaks /\ <<c>> \o breaks \in Seq(Marks)
  <2>1. Rendered(lines)[0] = <<>> /\ Rendered(lines)[1] = Rendered(lines)[1 - 1] \o <<lines[1]>> \o breaks
    <3>1. lines \in Seq(Marks) /\ 1 \in 1 .. Len(lines)
      BY <1>1
    <3>. HIDE DEF lines
    <3>. QED
      BY <3>1, RenderedIs
  <2>2. <<>> \o <<c>> = <<c>>
    BY <1>1, ConcatEmptySeq
  <2>3. Rendered(lines)[1] = <<>> \o <<c>> \o breaks
    <3>1. 1 - 1 = 0 /\ lines[1] = c
      BY <1>1
    <3>. HIDE DEF lines
    <3>. QED
      BY <2>1, <3>1
  <2>4. <<c>> \o breaks \in Seq(Marks)
    BY <1>1, ConcatProperties
  <2>. HIDE DEF lines
  <2>. QED
    BY <2>2, <2>3, <2>4
<1>10. Heartbeat = (<<c>> \o breaks) \o breaks
  BY <1>1, <1>9 DEF Heartbeat, Terminated, c
<1>11. Path((<<c>> \o breaks) \o breaks, Between(m), Between(m)) /\ (<<c>> \o breaks) \o breaks \in Seq(Marks)
  BY <1>1, <1>6, <1>8, <1>9, PathJoins, ConcatProperties
<1>. QED
  BY <1>10, <1>11

-----------------------------------------------------------------------------
(* The parser.  What it will do with a return it holds is done already, as    *)
(* far as the position it stands at is concerned.                             *)
Parsers == [held : BOOLEAN, pending : Marks, data : Seq(Nat), last : Nat, reported : Nat]
Items == [kind : {"Event", "Checkpoint", "Retry"}, n : Nat, id : Nat, lines : Nat]
HasId(n) == Feed[n].kind = "Checkpoint" \/ (Feed[n].kind = "Event" /\ Feed[n].id)
Inside(P) == P.kind = "frame" /\ P.line > 0
DataBehind(P) ==
    IF Inside(P) /\ Feed[P.at + 1].kind = "Event" THEN P.line - (IF Feed[P.at + 1].id THEN 1 ELSE 0) ELSE 0
Stands(q, P) ==
    /\ q \in Parsers /\ ~q.held
    /\ q.pending = (IF P.stage = "written" THEN LineAt(P) ELSE None)
    /\ Len(q.data) = DataBehind(P)
    /\ \A i \in 1 .. Len(q.data) : q.data[i] = P.at + 1
    /\ q.reported <= P.at
    /\ q.last = (IF Inside(P) /\ HasId(P.at + 1) THEN P.at + 1 ELSE q.reported)
Fits(p, P) ==
    /\ p \in Parsers
    /\ Stands(AtEnd(p).to, P) /\ AtEnd(p).items \in Seq(Items)
    /\ P.stage = "half" => p.held
    /\ p.held => breaks[1] = CR /\ (Len(breaks) = 2 => P.stage = "half")

(* What is dispatched on the way from a position to the next.                 *)
EventItem(n, id) == [kind |-> "Event", n |-> n, id |-> id, lines |-> Feed[n].lines]
CheckpointItem(n) == [kind |-> "Checkpoint", n |-> 0, id |-> n, lines |-> 0]
RetryItem(t) == [kind |-> "Retry", n |-> t, id |-> 0, lines |-> 0]
Turns(P, Q, was, is, items) ==
    \/ /\ Q.at = P.at /\ is = was
       /\ items = <<>> \/ \E t \in Nat : items = <<RetryItem(t)>>
    \/ /\ Q.at = P.at + 1 /\ Q.at \in Places
       /\ \/ Feed[Q.at].kind = "Retry" /\ items = <<>> /\ is = was
          \/ Feed[Q.at].kind = "Event" /\ is = (IF Feed[Q.at].id THEN Q.at ELSE was) /\ items = <<EventItem(Q.at, is)>>
          \/ Feed[Q.at].kind = "Checkpoint" /\ is = Q.at /\ items = <<CheckpointItem(Q.at)>>

LEMMA ClearedIs ==
  ASSUME NEW q \in Parsers
  PROVE  LET c == Cleared(q) IN
         /\ c \in Parsers /\ ~c.held /\ c.pending = None /\ c.data = q.data /\ c.last = q.last /\ c.reported = q.reported
         /\ EndsLine(q) = Handle(c, q.pending)
         /\ c = [held |-> FALSE, pending |-> None, data |-> q.data, last |-> q.last, reported |-> q.reported]
<1>1. None \in Marks
  BY LineIs
<1>2. EndsLine(q) = Handle(Cleared(q), q.pending)
  BY DEF EndsLine
<1>3. Cleared(q) = [held |-> FALSE, pending |-> None, data |-> q.data, last |-> q.last, reported |-> q.reported]
  BY DEF Cleared
<1>4. q.data \in Seq(Nat) /\ q.last \in Nat /\ q.reported \in Nat
  BY DEF Parsers
<1>5. ASSUME NEW c, c = [held |-> FALSE, pending |-> None, data |-> q.data, last |-> q.last, reported |-> q.reported]
      PROVE  /\ c \in Parsers /\ ~c.held /\ c.pending = None /\ c.data = q.data /\ c.last = q.last /\ c.reported = q.reported
  BY <1>1, <1>4, <1>5 DEF Parsers
<1>. QED
  BY <1>2, <1>3, <1>5

LEMMA HeldIs ==
  ASSUME NEW q \in Parsers
  PROVE  LET h == [q EXCEPT !.held = TRUE] IN
         h \in Parsers /\ h.held /\ h.data = q.data /\ h.pending = q.pending /\ EndsLine(h) = EndsLine(q)
<1>. DEFINE h == [q EXCEPT !.held = TRUE]
<1>1. h \in Parsers /\ h.held /\ h.data = q.data /\ h.pending = q.pending /\ h.last = q.last /\ h.reported = q.reported
  BY DEF Parsers
<1>. HIDE DEF h
<1>2. Cleared(h) = Cleared(q)
  <2>1. Cleared(h) = [held |-> FALSE, pending |-> None, data |-> h.data, last |-> h.last, reported |-> h.reported]
        /\ Cleared(q) = [held |-> FALSE, pending |-> None, data |-> q.data, last |-> q.last, reported |-> q.reported]
    BY <1>1, ClearedIs
  <2>. QED
    BY <1>1, <2>1, Zenon
<1>3. EndsLine(h) = EndsLine(q)
  BY <1>1, <1>2, ClearedIs
<1>. QED
  BY <1>1, <1>3 DEF h

LEMMA EndsLineIs ==
  ASSUME NEW q \in Parsers
  PROVE  LET c == Cleared(q) IN
         /\ q.pending = None => EndsLine(q) = Dispatch(c)
         /\ q.pending.field = "data" => EndsLine(q) = [to |-> [c EXCEPT !.data = Append(c.data, q.pending.n)], items |-> <<>>]
         /\ q.pending.field = "id" => EndsLine(q) = [to |-> [c EXCEPT !.last = q.pending.n], items |-> <<>>]
         /\ q.pending.field = "retry" => EndsLine(q) = [to |-> c, items |-> <<RetryItem(q.pending.n)>>]
         /\ q.pending.field = "comment" => EndsLine(q) = [to |-> c, items |-> <<>>]
<1>. DEFINE c == Cleared(q)
            line == q.pending
<1>1. EndsLine(q) = Handle(c, line) /\ None.field = "none"
  BY ClearedIs, LineIs
<1>. HIDE DEF c, line
<1>2. /\ line = None => Handle(c, line) = Dispatch(c)
      /\ line.field = "data" => Handle(c, line) = [to |-> [c EXCEPT !.data = Append(c.data, line.n)], items |-> <<>>]
      /\ line.field = "id" => Handle(c, line) = [to |-> [c EXCEPT !.last = line.n], items |-> <<>>]
      /\ line.field = "retry" => Handle(c, line) = [to |-> c, items |-> <<RetryItem(line.n)>>]
      /\ line.field = "comment" => Handle(c, line) = [to |-> c, items |-> <<>>]
  <2>1. CASE line = None
    BY <1>1, <2>1 DEF Handle
  <2>2. CASE line # None
    BY <1>1, <2>2 DEF Handle, RetryItem
  <2>. QED
    BY <2>1, <2>2
<1>. QED
  BY <1>1, <1>2 DEF c, line

LEMMA AtEndIs ==
  ASSUME NEW p \in Parsers
  PROVE  /\ p.held => AtEnd(p) = EndsLine(p)
         /\ ~p.held => AtEnd(p).to = p /\ AtEnd(p).items = <<>>
BY DEF AtEnd

(* A line that ends.                                                          *)
LEMMA LineLands ==
  ASSUME NEW P \in Positions, NEW Q, NEW q, Stands(q, P), P.stage = "written", HasLine(P),
         Q = Pos(P.at, P.kind, P.line + 1, AfterEnd)
  PROVE  /\ Stands(EndsLine(q).to, Q) /\ ~EndsLine(q).to.held
         /\ Turns(P, Q, q.reported, EndsLine(q).to.reported, EndsLine(q).items)
<1>. DEFINE c == Cleared(q)
            r == EndsLine(q)
            n == P.at + 1
<1>1. /\ q \in Parsers /\ q.pending = LineAt(P) /\ P.line \in Nat /\ P.at \in 0 .. Len(Feed) /\ Len(Feed) \in Nat
      /\ P.kind \in {"frame", "beat"}
  BY FeedIs DEF Stands, Positions
<1>2. /\ c \in Parsers /\ ~c.held /\ c.pending = None /\ c.data = q.data /\ c.last = q.last /\ c.reported = q.reported
  BY <1>1, ClearedIs
<1>3. /\ Q.at = P.at /\ Q.kind = P.kind /\ Q.line = P.line + 1 /\ Q.stage # "written"
  BY PosIs DEF AfterEnd
<1>4. /\ Len(q.data) = DataBehind(P) /\ (\A i \in 1 .. Len(q.data) : q.data[i] = n)
      /\ q.reported <= P.at /\ q.last = (IF Inside(P) /\ HasId(n) THEN n ELSE q.reported)
      /\ q.reported \in Nat /\ q.data \in Seq(Nat)
  BY <1>1 DEF Stands, Parsers
<1>5. \/ q.pending = Line("comment", 0) /\ P.kind = "beat"
      \/ P.kind = "frame" /\ n \in Places /\ n \in Nat
  BY <1>1, FeedIs DEF LineAt, HasLine
<1>. HIDE DEF c, r
<1>6. CASE P.kind = "beat"
  <2>1. q.pending.field = "comment"
    BY <1>5, <1>6, LineIs
  <2>2. r = [to |-> c, items |-> <<>>]
    BY <1>1, <2>1, EndsLineIs DEF r, c
  <2>3. DataBehind(P) = 0 /\ DataBehind(Q) = 0 /\ ~Inside(P) /\ ~Inside(Q)
    BY <1>3, <1>6 DEF DataBehind, Inside
  <2>4. Stands(c, Q)
    BY <1>1, <1>2, <1>3, <1>4, <2>3 DEF Stands
  <2>5. Turns(P, Q, q.reported, c.reported, <<>>)
    BY <1>2, <1>3 DEF Turns
  <2>. QED
    BY <1>2, <2>2, <2>4, <2>5 DEF r
<1>7. CASE P.kind = "frame"
  <2>1. /\ n \in Places /\ n \in Nat /\ P.line < Len(Lines(n)) /\ Len(Lines(n)) \in Nat /\ P.line + 1 \in 1 .. Len(Lines(n))
        /\ q.pending = Lines(n)[P.line + 1]
    BY <1>1, <1>5, <1>7, LinesAre DEF HasLine, LineAt
  <2>2. Inside(Q) /\ (Inside(P) <=> P.line > 0)
    BY <1>1, <1>3, <1>7 DEF Inside
  <2>3. CASE Feed[n].kind = "Event"
    <3>1. /\ Len(Lines(n)) = Feed[n].lines + (IF Feed[n].id THEN 1 ELSE 0)
          /\ q.pending = IF Feed[n].id /\ P.line = 0 THEN Line("id", n) ELSE Line("data", n)
          /\ Feed[n].id \in BOOLEAN
      <4>1. \A j \in 1 .. Len(Lines(n)) : Lines(n)[j] = IF Feed[n].id /\ j = 1 THEN Line("id", n) ELSE Line("data", n)
        BY <2>1, <2>3, EventLines
      <4>2. P.line + 1 = 1 <=> P.line = 0
        BY <1>1
      <4>3. Len(Lines(n)) = Feed[n].lines + (IF Feed[n].id THEN 1 ELSE 0)
        BY <2>1, <2>3, EventLines
      <4>. QED
        BY <2>1, <4>1, <4>2, <4>3, FeedIs
    <3>2. CASE Feed[n].id /\ P.line = 0
      <4>1. q.pending.field = "id" /\ q.pending.n = n
        BY <2>1, <3>1, <3>2, LineIs
      <4>2. r = [to |-> [c EXCEPT !.last = n], items |-> <<>>]
        BY <1>1, <4>1, EndsLineIs DEF r, c
      <4>. DEFINE d == [c EXCEPT !.last = n]
      <4>3. /\ d \in Parsers /\ ~d.held /\ d.pending = None /\ d.data = q.data /\ d.last = n /\ d.reported = q.reported
        BY <1>2, <2>1 DEF Parsers
      <4>. HIDE DEF d
      <4>4. DataBehind(P) = 0 /\ DataBehind(Q) = 0 /\ HasId(n)
        BY <1>1, <1>3, <2>2, <2>3, <3>2 DEF DataBehind, HasId
      <4>5. Stands(d, Q)
        BY <1>1, <1>3, <1>4, <2>2, <4>3, <4>4 DEF Stands
      <4>6. Turns(P, Q, q.reported, d.reported, <<>>)
        BY <1>3, <4>3 DEF Turns
      <4>7. EndsLine(q).to = d /\ EndsLine(q).items = <<>>
        BY <4>2 DEF r, d
      <4>. QED
        BY <4>3, <4>5, <4>6, <4>7
    <3>3. CASE ~(Feed[n].id /\ P.line = 0)
      <4>1. q.pending.field = "data" /\ q.pending.n = n
        BY <2>1, <3>1, <3>3, LineIs
      <4>2. r = [to |-> [c EXCEPT !.data = Append(c.data, n)], items |-> <<>>]
        BY <1>1, <4>1, EndsLineIs DEF r, c
      <4>. DEFINE e == Append(q.data, n)
                  d == [c EXCEPT !.data = e]
      <4>3. e \in Seq(Nat) /\ Len(e) = Len(q.data) + 1 /\ \A i \in 1 .. Len(e) : e[i] = n
        BY <1>4, <2>1
      <4>. HIDE DEF e
      <4>4. /\ d \in Parsers /\ ~d.held /\ d.pending = None /\ d.data = e /\ d.last = q.last /\ d.reported = q.reported
        BY <1>2, <4>3 DEF Parsers
      <4>. HIDE DEF d
      <4>5. DataBehind(Q) = DataBehind(P) + 1 /\ (HasId(n) => Inside(P))
        BY <1>1, <1>3, <2>2, <2>3, <3>1, <3>3 DEF DataBehind, HasId
      <4>6. Stands(d, Q)
        BY <1>1, <1>3, <1>4, <2>2, <4>3, <4>4, <4>5 DEF Stands
      <4>7. Turns(P, Q, q.reported, d.reported, <<>>)
        BY <1>3, <4>4 DEF Turns
      <4>8. r = [to |-> d, items |-> <<>>]
        BY <1>2, <4>2 DEF d, e
      <4>9. EndsLine(q).to = d /\ EndsLine(q).items = <<>>
        BY <4>8 DEF r
      <4>. QED
        BY <4>4, <4>6, <4>7, <4>9
    <3>. QED
      BY <3>2, <3>3
  <2>4. CASE Feed[n].kind = "Checkpoint"
    <3>1. P.line = 0 /\ q.pending = Line("id", n)
      <4>1. Len(Lines(n)) = 1 /\ Lines(n)[1] = Line("id", n)
        BY <2>1, <2>4, LinesAre
      <4>. QED
        BY <1>1, <2>1, <4>1
    <3>2. q.pending.field = "id" /\ q.pending.n = n
      BY <2>1, <3>1, LineIs
    <3>3. r = [to |-> [c EXCEPT !.last = n], items |-> <<>>]
      BY <1>1, <3>2, EndsLineIs DEF r, c
    <3>. DEFINE d == [c EXCEPT !.last = n]
    <3>4. /\ d \in Parsers /\ ~d.held /\ d.pending = None /\ d.data = q.data /\ d.last = n /\ d.reported = q.reported
      BY <1>2, <2>1 DEF Parsers
    <3>. HIDE DEF d
    <3>5. DataBehind(P) = 0 /\ DataBehind(Q) = 0 /\ HasId(n)
      BY <1>3, <2>2, <2>4 DEF DataBehind, HasId
    <3>6. Stands(d, Q)
      BY <1>1, <1>3, <1>4, <2>2, <3>4, <3>5 DEF Stands
    <3>7. Turns(P, Q, q.reported, d.reported, <<>>)
      BY <1>3, <3>4 DEF Turns
    <3>8. EndsLine(q).to = d /\ EndsLine(q).items = <<>>
      BY <3>3 DEF r, d
    <3>. QED
      BY <3>4, <3>6, <3>7, <3>8
  <2>5. CASE Feed[n].kind = "Retry"
    <3>1. P.line = 0 /\ q.pending = Line("retry", Feed[n].after) /\ Feed[n].after \in Nat
      <4>1. Len(Lines(n)) = 1 /\ Lines(n)[1] = Line("retry", Feed[n].after) /\ Feed[n].after \in Nat
        BY <2>1, <2>5, LinesAre, FeedIs
      <4>. QED
        BY <1>1, <2>1, <4>1
    <3>2. q.pending.field = "retry" /\ q.pending.n = Feed[n].after
      BY <3>1, LineIs
    <3>3. r = [to |-> c, items |-> <<RetryItem(Feed[n].after)>>]
      BY <1>1, <3>2, EndsLineIs DEF r, c
    <3>4. DataBehind(P) = 0 /\ DataBehind(Q) = 0 /\ ~HasId(n)
      BY <1>3, <2>2, <2>5 DEF DataBehind, HasId
    <3>5. Stands(c, Q)
      BY <1>1, <1>2, <1>3, <1>4, <2>2, <3>4 DEF Stands
    <3>6. Turns(P, Q, q.reported, c.reported, <<RetryItem(Feed[n].after)>>)
      BY <1>2, <1>3, <3>1 DEF Turns
    <3>. QED
      <4>1. EndsLine(q).to = c /\ EndsLine(q).items = <<RetryItem(Feed[n].after)>>
        BY <3>3 DEF r
      <4>. QED
        BY <1>2, <3>5, <3>6, <4>1
  <2>. QED
    BY <2>1, <2>3, <2>4, <2>5, FeedIs
<1>. QED
  BY <1>1, <1>6, <1>7

(* A blank line.                                                              *)
LEMMA BlankLands ==
  ASSUME NEW P \in Positions, NEW Q, NEW q, Stands(q, P), P.stage = "clean", IsWhole(P),
         Q = Pos(Past(P), "frame", 0, AfterEnd)
  PROVE  /\ Stands(EndsLine(q).to, Q) /\ ~EndsLine(q).to.held
         /\ Turns(P, Q, q.reported, EndsLine(q).to.reported, EndsLine(q).items)
<1>. DEFINE c == Cleared(q)
            r == EndsLine(q)
            n == P.at + 1
            kept == [c EXCEPT !.data = <<>>, !.reported = c.last]
            bare == [c EXCEPT !.data = <<>>]
<1>1. /\ q \in Parsers /\ q.pending = None /\ P.line \in Nat /\ P.at \in 0 .. Len(Feed) /\ Len(Feed) \in Nat
      /\ P.kind \in {"frame", "beat"}
  BY FeedIs DEF Stands, Positions
<1>2. /\ c \in Parsers /\ ~c.held /\ c.pending = None /\ c.data = q.data /\ c.last = q.last /\ c.reported = q.reported
  BY <1>1, ClearedIs
<1>3. /\ Q.at = Past(P) /\ Q.kind = "frame" /\ Q.line = 0 /\ Q.stage # "written" /\ ~Inside(Q) /\ DataBehind(Q) = 0
  BY PosIs DEF AfterEnd, Inside, DataBehind
<1>4. /\ Len(q.data) = DataBehind(P) /\ (\A i \in 1 .. Len(q.data) : q.data[i] = n)
      /\ q.reported <= P.at /\ q.last = (IF Inside(P) /\ HasId(n) THEN n ELSE q.reported)
      /\ q.reported \in Nat /\ q.data \in Seq(Nat) /\ q.last \in Nat
  BY <1>1 DEF Stands, Parsers
<1>. HIDE DEF c, r
<1>5. r = Dispatch(c)
  BY <1>1, EndsLineIs DEF r, c
<1>6. /\ kept \in Parsers /\ ~kept.held /\ kept.pending = None /\ kept.data = <<>> /\ kept.last = q.last /\ kept.reported = q.last
      /\ bare \in Parsers /\ ~bare.held /\ bare.pending = None /\ bare.data = <<>> /\ bare.last = q.last
      /\ bare.reported = q.reported
  <2>1. <<>> \in Seq(Nat)
    OBVIOUS
  <2>2. /\ kept \in Parsers /\ ~kept.held /\ kept.pending = None /\ kept.data = <<>> /\ kept.last = q.last
        /\ kept.reported = q.last
    BY <1>2, <1>4, <2>1 DEF Parsers
  <2>3. /\ bare \in Parsers /\ ~bare.held /\ bare.pending = None /\ bare.data = <<>> /\ bare.last = q.last
        /\ bare.reported = q.reported
    BY <1>2, <1>4, <2>1 DEF Parsers
  <2>. QED
    BY <2>2, <2>3
<1>7. /\ q.data # <<>> =>
           r = [to |-> kept, items |-> <<[kind |-> "Event", n |-> q.data[1], id |-> q.last, lines |-> Len(q.data)]>>]
      /\ q.data = <<>> /\ q.last # q.reported => r = [to |-> kept, items |-> <<CheckpointItem(q.last)>>]
      /\ q.data = <<>> /\ q.last = q.reported => r = [to |-> bare, items |-> <<>>]
  BY <1>2, <1>5 DEF Dispatch, CheckpointItem
<1>. HIDE DEF kept, bare
<1>8. Len(q.data) = 0 <=> q.data = <<>>
  BY <1>4, EmptySeq
<1>9. CASE P.kind = "beat"
  <2>1. ~Inside(P) /\ DataBehind(P) = 0 /\ Past(P) = P.at
    BY <1>9 DEF Inside, DataBehind, Past
  <2>2. r = [to |-> bare, items |-> <<>>]
    BY <1>4, <1>7, <1>8, <2>1
  <2>3. Stands(bare, Q)
    BY <1>3, <1>4, <1>6, <2>1 DEF Stands
  <2>4. Turns(P, Q, q.reported, bare.reported, <<>>)
    BY <1>3, <1>6, <2>1 DEF Turns
  <2>. QED
    BY <1>6, <2>2, <2>3, <2>4 DEF r
<1>10. CASE P.kind = "frame"
  <2>1. /\ n \in Places /\ n \in Nat /\ P.line = Len(Lines(n)) /\ P.line > 0 /\ Inside(P) /\ Past(P) = n /\ P.at < n /\ Q.at = n
    <3>1. P.at < Len(Feed) /\ P.line = Len(Lines(P.at + 1))
      BY <1>10 DEF IsWhole
    <3>2. n \in Places
      BY <1>1, <3>1, FeedIs
    <3>3. Len(Lines(n)) \in Nat \ {0}
      BY <3>2, LinesAre
    <3>. QED
      BY <1>1, <1>3, <1>10, <3>1, <3>2, <3>3 DEF Inside, Past
  <2>2. CASE Feed[n].kind = "Event"
    <3>1. Len(q.data) = Feed[n].lines /\ Feed[n].lines > 0 /\ Feed[n].id \in BOOLEAN /\ Feed[n].lines \in Nat
      BY <1>4, <2>1, <2>2, EventLines, FeedIs DEF DataBehind
    <3>2. q.data # <<>> /\ q.data[1] = n
      BY <1>4, <3>1
    <3>3. q.last = IF Feed[n].id THEN n ELSE q.reported
      BY <1>4, <2>1, <2>2 DEF HasId
    <3>4. r = [to |-> kept, items |-> <<EventItem(n, q.last)>>]
      BY <1>7, <3>1, <3>2 DEF EventItem
    <3>5. Stands(kept, Q)
      BY <1>1, <1>3, <1>4, <1>6, <2>1, <3>3 DEF Stands
    <3>6. Turns(P, Q, q.reported, kept.reported, <<EventItem(n, q.last)>>)
      BY <1>3, <1>6, <2>1, <2>2, <3>3 DEF Turns
    <3>. QED
      BY <1>6, <3>4, <3>5, <3>6 DEF r
  <2>3. CASE Feed[n].kind = "Checkpoint"
    <3>1. q.data = <<>> /\ q.last = n /\ q.last # q.reported
      BY <1>1, <1>4, <1>8, <2>1, <2>3 DEF DataBehind, HasId
    <3>2. r = [to |-> kept, items |-> <<CheckpointItem(n)>>]
      BY <1>7, <3>1
    <3>3. Stands(kept, Q)
      BY <1>1, <1>3, <1>4, <1>6, <2>1, <3>1 DEF Stands
    <3>4. Turns(P, Q, q.reported, kept.reported, <<CheckpointItem(n)>>)
      BY <1>3, <1>6, <2>1, <2>3, <3>1 DEF Turns
    <3>. QED
      BY <1>6, <3>2, <3>3, <3>4 DEF r
  <2>4. CASE Feed[n].kind = "Retry"
    <3>1. q.data = <<>> /\ q.last = q.reported
      BY <1>1, <1>4, <1>8, <2>1, <2>4 DEF DataBehind, HasId
    <3>2. r = [to |-> bare, items |-> <<>>]
      BY <1>7, <3>1
    <3>3. Stands(bare, Q)
      BY <1>1, <1>3, <1>4, <1>6, <2>1, <3>1 DEF Stands
    <3>4. Turns(P, Q, q.reported, bare.reported, <<>>)
      BY <1>3, <1>6, <2>1, <2>4, <3>1 DEF Turns
    <3>. QED
      BY <1>6, <3>2, <3>3, <3>4 DEF r
  <2>. QED
    BY <2>1, <2>2, <2>3, <2>4, FeedIs
<1>. QED
  BY <1>1, <1>9, <1>10

LEMMA TurnsTyped ==
  ASSUME NEW P \in Positions, NEW Q, NEW was \in Nat, NEW is \in Nat, NEW items, Turns(P, Q, was, is, items)
  PROVE  items \in Seq(Items)
<1>1. \A t \in Nat : RetryItem(t) \in Items
  BY DEF RetryItem, Items
<1>2. \A n \in Places : EventItem(n, is) \in Items /\ CheckpointItem(n) \in Items
  BY FeedIs DEF EventItem, CheckpointItem, Items
<1>3. \A x \in Items : <<x>> \in Seq(Items)
  OBVIOUS
<1>4. <<>> \in Seq(Items)
  OBVIOUS
<1>. QED
  BY <1>1, <1>2, <1>3, <1>4 DEF Turns

LEMMA FeedsLine ==
  ASSUME NEW p
  PROVE  ReadsMark(p, LF) = [to |-> EndsLine(p).to, items |-> <<>> \o EndsLine(p).items]
<1>1. LF # CR /\ LF \in LineEnds
  BY LineIs
<1>. QED
  BY <1>1 DEF ReadsMark

(* One mark of a chunk takes the parser along, and what it lets out is what   *)
(* is dispatched on the way.                                                  *)
LEMMA MarkLands ==
  ASSUME BreaksIs, NEW P \in Positions, NEW Q \in Positions, NEW mark, Leads(P, mark, Q), NEW p, Fits(p, P)
  PROVE  LET r == ReadsMark(p, mark) IN
         /\ Fits(r.to, Q) /\ r.items \in Seq(Items)
         /\ \E new \in Seq(Items) :
              /\ r.items \o AtEnd(r.to).items = AtEnd(p).items \o new
              /\ Turns(P, Q, AtEnd(p).to.reported, AtEnd(r.to).to.reported, new)
<1>. DEFINE r == ReadsMark(p, mark)
            q == AtEnd(p).to
            owed == AtEnd(p).items
<1>1. /\ p \in Parsers /\ Stands(q, P) /\ owed \in Seq(Items) /\ q \in Parsers /\ ~q.held
      /\ (P.stage = "half" => p.held) /\ (p.held => breaks[1] = CR /\ (Len(breaks) = 2 => P.stage = "half"))
      /\ q.reported \in Nat
  BY DEF Fits, Stands, Parsers
<1>2. /\ p.held => q = EndsLine(p).to /\ owed = EndsLine(p).items
      /\ ~p.held => q = p /\ owed = <<>>
  BY <1>1, AtEndIs
<1>3. owed \o <<>> = owed /\ <<>> \o owed = owed /\ <<>> \in Seq(Items)
  BY <1>1, ConcatEmptySeq
<1>. HIDE DEF q, owed
<1>4. CASE PutsLine(P, mark, Q)
  <2>1. /\ P.stage = "clean" /\ mark = LineAt(Q) /\ Q.stage = "written" /\ Q.at = P.at /\ HasLine(Q)
        /\ (Inside(Q) <=> Inside(P)) /\ Q.line = P.line /\ P.kind = "frame"
    BY <1>4, PosIs DEF PutsLine, HasLine, Inside
  <2>2. mark \in Marks /\ mark # LF /\ mark # CR /\ mark \notin LineEnds
    BY <2>1, LineAtIs, LineIs
  <2>. DEFINE d == [q EXCEPT !.pending = mark]
  <2>3. r.to = d /\ r.items = owed
    <3>1. CASE p.held
      <4>1. r = [to |-> d, items |-> owed \o <<>>]
        BY <1>2, <2>2, <3>1 DEF ReadsMark
      <4>. QED
        BY <1>3, <4>1
    <3>2. CASE ~p.held
      <4>1. r = [to |-> d, items |-> owed \o <<>>]
        BY <1>2, <2>2, <3>2 DEF ReadsMark
      <4>. QED
        BY <1>3, <4>1
    <3>. QED
      BY <3>1, <3>2
  <2>4. /\ d \in Parsers /\ ~d.held /\ d.pending = mark /\ d.data = q.data /\ d.last = q.last /\ d.reported = q.reported
    BY <1>1, <2>2 DEF Parsers
  <2>. HIDE DEF r, d
  <2>5. DataBehind(Q) = DataBehind(P)
    BY <2>1 DEF DataBehind
  <2>6. Stands(d, Q)
    BY <1>1, <2>1, <2>4, <2>5 DEF Stands
  <2>7. AtEnd(d).to = d /\ AtEnd(d).items = <<>>
    BY <2>4, AtEndIs
  <2>8. Fits(d, Q)
    BY <1>3, <2>1, <2>4, <2>6, <2>7 DEF Fits
  <2>9. Turns(P, Q, q.reported, d.reported, <<>>)
    BY <2>1, <2>4 DEF Turns
  <2>. QED
    BY <1>1, <1>3, <2>3, <2>7, <2>8, <2>9 DEF r, q, owed
<1>5. CASE EndsTheLine(P, mark, Q) \/ EndsFrame(P, mark, Q)
  <2>. DEFINE e == EndsLine(q)
  <2>1. Stands(e.to, Q) /\ ~e.to.held /\ Turns(P, Q, q.reported, e.to.reported, e.items)
    <3>1. CASE EndsTheLine(P, mark, Q)
      BY <1>1, <3>1, LineLands DEF EndsTheLine
    <3>2. CASE EndsFrame(P, mark, Q)
      BY <1>1, <3>2, BlankLands DEF EndsFrame
    <3>. QED
      BY <1>5, <3>1, <3>2
  <2>2. mark = breaks[1] /\ P.stage # "half" /\ Q.stage = AfterEnd
    BY <1>5, PosIs DEF EndsTheLine, EndsFrame
  <2>3. e.to \in Parsers /\ e.to.reported \in Nat
    BY <2>1 DEF Stands, Parsers
  <2>4. e.items \in Seq(Items)
    BY <1>1, <2>1, <2>3, TurnsTyped
  <2>5. /\ CR # LF /\ mark \in {CR, LF} /\ Len(breaks) \in {1, 2} /\ (mark = LF => Len(breaks) = 1)
        /\ CR \in LineEnds
    BY <2>2, BreaksAre, LineIs
  <2>. HIDE DEF e
  <2>6. CASE mark = LF
    <3>1. ~p.held /\ q = p /\ owed = <<>>
      BY <1>1, <1>2, <2>2, <2>5, <2>6
    <3>2. r = [to |-> e.to, items |-> <<>> \o e.items]
      BY <2>6, <3>1, FeedsLine DEF e
    <3>3. r.to = e.to /\ r.items = e.items
      BY <2>4, <3>2, ConcatEmptySeq
    <3>4. AtEnd(e.to).to = e.to /\ AtEnd(e.to).items = <<>>
      BY <2>1, <2>3, AtEndIs
    <3>5. Q.stage = "clean"
      BY <2>2, <2>5, <2>6 DEF AfterEnd
    <3>6. Fits(e.to, Q)
      BY <1>3, <2>1, <2>3, <3>4, <3>5 DEF Fits
    <3>7. e.items \o <<>> = e.items /\ <<>> \o e.items = e.items
      BY <2>4, ConcatEmptySeq
    <3>. HIDE DEF r
    <3>. QED
      BY <2>1, <2>4, <3>1, <3>3, <3>4, <3>6, <3>7 DEF r, q, owed
  <2>7. CASE mark = CR
    <3>. DEFINE d == [q EXCEPT !.held = TRUE]
    <3>1. r.to = d /\ r.items = owed
      <4>1. CASE p.held
        <5>1. r = [to |-> d, items |-> owed \o <<>>]
          BY <1>2, <2>5, <2>7, <4>1 DEF ReadsMark
        <5>. QED
          BY <1>3, <5>1
      <4>2. CASE ~p.held
        <5>1. r = [to |-> d, items |-> owed \o <<>>]
          BY <1>2, <2>5, <2>7, <4>2 DEF ReadsMark
        <5>. QED
          BY <1>3, <5>1
      <4>. QED
        BY <4>1, <4>2
    <3>2. d \in Parsers /\ d.held /\ EndsLine(d) = e
      BY <1>1, HeldIs DEF e
    <3>. HIDE DEF d, r
    <3>3. AtEnd(d) = e
      BY <3>2, AtEndIs
    <3>4. Fits(d, Q)
      <4>1. Len(breaks) = 2 => Q.stage = "half"
        BY <2>2 DEF AfterEnd
      <4>. QED
        BY <2>1, <2>2, <2>4, <2>7, <3>2, <3>3, <4>1 DEF Fits
    <3>. QED
      BY <1>1, <2>1, <2>4, <3>1, <3>3, <3>4 DEF r, q, owed
  <2>. QED
    BY <2>5, <2>6, <2>7
<1>6. CASE EndsPair(P, mark, Q)
  <2>1. /\ P.stage = "half" /\ mark = LF /\ Q.stage = "clean" /\ Q.at = P.at /\ Q.kind = P.kind /\ Q.line = P.line
        /\ p.held
    BY <1>1, <1>6, PosIs DEF EndsPair
  <2>2. r = [to |-> q, items |-> <<>> \o owed]
    BY <1>2, <2>1, FeedsLine
  <2>3. r.to = q /\ r.items = owed
    BY <1>3, <2>2
  <2>4. AtEnd(q).to = q /\ AtEnd(q).items = <<>>
    BY <1>1, AtEndIs
  <2>5. (Inside(P) <=> Inside(Q)) /\ DataBehind(P) = DataBehind(Q)
    BY <2>1 DEF Inside, DataBehind
  <2>6. Stands(q, Q)
    BY <1>1, <2>1, <2>5 DEF Stands
  <2>7. Fits(q, Q)
    BY <1>1, <1>3, <2>1, <2>4, <2>6 DEF Fits
  <2>8. Turns(P, Q, q.reported, q.reported, <<>>)
    BY <2>1 DEF Turns
  <2>. HIDE DEF r
  <2>. QED
    BY <1>1, <1>3, <2>3, <2>4, <2>7, <2>8 DEF r, q, owed
<1>. QED
  BY <1>4, <1>5, <1>6 DEF Leads

-----------------------------------------------------------------------------
(* Items that are on their way to the caller: in the order of the feed, none  *)
(* left out, and none before what was handed over.                            *)
Advances(x) == x.kind # "Retry"
Place(x) == IF x.kind = "Event" THEN x.n ELSE x.id
Gives(L, i, e) == L[i].kind = "Event" /\ L[i].n = e
ItemIs(x, point) ==
    /\ Place(x) \in Places
    /\ x.kind = "Event" => /\ Feed[x.n].kind = "Event" /\ x.lines = Feed[x.n].lines
                           /\ Feed[x.n].id => x.id = x.n
    /\ x.kind = "Checkpoint" => Feed[x.id].kind = "Checkpoint"
    /\ point < Place(x) /\ point <= x.id /\ x.id <= Place(x)
ItemFollows(L, k, sn) ==
    /\ \A i \in 1 .. k - 1 : Advances(L[i]) => Place(L[i]) < Place(L[k]) /\ L[i].id <= L[k].id
    /\ \A e \in Events : e < Place(L[k]) => e \in sn \/ \E i \in 1 .. k - 1 : Gives(L, i, e)
InOrder(L, sn, point) ==
    L \in Seq(Items) /\ \A k \in 1 .. Len(L) : Advances(L[k]) => ItemIs(L[k], point) /\ ItemFollows(L, k, sn)
UpTo(L, sn, point, m, r) ==
    /\ point <= r /\ r <= m
    /\ \A k \in 1 .. Len(L) : Advances(L[k]) => Place(L[k]) <= m /\ L[k].id <= r
    /\ \A e \in Events : e <= m => e \in sn \/ \E i \in 1 .. Len(L) : Gives(L, i, e)

LEMMA AddsOne ==
  ASSUME NEW L \in Seq(Items), NEW x \in Items
  PROVE  LET M == L \o <<x>> IN
         /\ M \in Seq(Items) /\ Len(M) = Len(L) + 1 /\ Len(L) \in Nat /\ M[Len(L) + 1] = x
         /\ \A k \in 1 .. Len(L) : M[k] = L[k]
<1>. DEFINE u == <<x>>
<1>1. u \in Seq(Items) /\ Len(u) = 1 /\ u[1] = x /\ Len(L) \in Nat
  OBVIOUS
<1>. HIDE DEF u
<1>2. /\ L \o u \in Seq(Items) /\ Len(L \o u) = Len(L) + 1
      /\ \A i \in 1 .. Len(L) + 1 : (L \o u)[i] = IF i <= Len(L) THEN L[i] ELSE u[i - Len(L)]
  <2>1. /\ L \o u \in Seq(Items) /\ Len(L \o u) = Len(L) + Len(u)
        /\ \A i \in 1 .. Len(L) + Len(u) : (L \o u)[i] = IF i <= Len(L) THEN L[i] ELSE u[i - Len(L)]
    BY <1>1, ConcatProperties
  <2>2. Len(u) = 1
    BY <1>1
  <2>. QED
    BY <2>1, <2>2, Zenon
<1>3. Len(L) + 1 \in 1 .. Len(L) + 1 /\ ~(Len(L) + 1 <= Len(L)) /\ (Len(L) + 1) - Len(L) = 1
  BY <1>1
<1>4. \A k \in 1 .. Len(L) : k \in 1 .. Len(L) + 1 /\ k <= Len(L)
  BY <1>1
<1>5. (L \o u)[Len(L) + 1] = x /\ \A k \in 1 .. Len(L) : (L \o u)[k] = L[k]
  BY <1>1, <1>2, <1>3, <1>4
<1>. QED
  BY <1>1, <1>2, <1>5 DEF u

LEMMA EventsAre == Events \subseteq Nat /\ \A e \in Events : e \in Places /\ Feed[e].kind = "Event"
BY FeedIs DEF Events

LEMMA ItemTyped == ASSUME NEW x \in Items PROVE x.id \in Nat /\ x.n \in Nat /\ Place(x) \in Nat
BY DEF Items, Place

(* What the items before say goes on to hold when another one comes.          *)
LEMMA StillFollows ==
  ASSUME NEW L, NEW M, NEW n \in Nat, \A k \in 1 .. n : M[k] = L[k], NEW k \in 1 .. n, NEW sn, ItemFollows(L, k, sn)
  PROVE  ItemFollows(M, k, sn)
<1>1. \A i \in 1 .. k - 1 : i \in 1 .. n /\ M[i] = L[i]
  OBVIOUS
<1>2. M[k] = L[k]
  OBVIOUS
<1>. QED
  BY <1>1, <1>2 DEF ItemFollows, Gives

LEMMA OrderKept ==
  ASSUME NEW L, NEW sn, NEW point \in Nat, NEW was \in Nat, NEW is, NEW P \in Positions, NEW Q \in Positions, NEW new,
         InOrder(L, sn, point), UpTo(L, sn, point, P.at, was), Turns(P, Q, was, is, new)
  PROVE  /\ InOrder(L \o new, sn, point) /\ UpTo(L \o new, sn, point, Q.at, is) /\ is \in Nat
<1>1. L \in Seq(Items) /\ Len(L) \in Nat /\ L \o <<>> = L /\ P.at \in Nat /\ P.at + 1 \in Nat
  BY ConcatEmptySeq, FeedIs DEF InOrder, Positions
<1>2. CASE new = <<>>
  <2>1. CASE Q.at = P.at /\ is = was
    BY <1>1, <1>2, <2>1
  <2>2. CASE Q.at = P.at + 1 /\ Q.at \in Places /\ Feed[Q.at].kind = "Retry" /\ is = was
    <3>1. \A e \in Events : e <= P.at + 1 => e <= P.at
      <4>1. Q.at \notin Events
        BY <2>2, EventsAre
      <4>. QED
        BY <1>1, <2>2, <4>1, EventsAre
    <3>2. UpTo(L, sn, point, Q.at, is)
      <4>1. is <= Q.at /\ point <= is
        BY <1>1, <2>2 DEF UpTo
      <4>2. \A k \in 1 .. Len(L) : Advances(L[k]) => Place(L[k]) <= Q.at /\ L[k].id <= is
        <5>1. \A k \in 1 .. Len(L) : Place(L[k]) \in Nat
          BY <1>1, ItemTyped
        <5>. QED
          BY <1>1, <2>2, <5>1 DEF UpTo
      <4>3. \A e \in Events : e <= Q.at => e \in sn \/ \E i \in 1 .. Len(L) : Gives(L, i, e)
        BY <2>2, <3>1 DEF UpTo
      <4>. QED
        BY <4>1, <4>2, <4>3 DEF UpTo
    <3>. QED
      BY <1>1, <1>2, <2>2, <3>2
  <2>3. \A t \in Nat : <<RetryItem(t)>> # <<>>
    OBVIOUS
  <2>. QED
    BY <1>2, <2>1, <2>2, <2>3 DEF Turns
<1>3. ASSUME NEW t \in Nat, new = <<RetryItem(t)>>, Q.at = P.at, is = was
      PROVE  InOrder(L \o new, sn, point) /\ UpTo(L \o new, sn, point, Q.at, is) /\ is \in Nat
  <2>. DEFINE x == RetryItem(t)
              M == L \o <<x>>
  <2>1. x \in Items /\ ~Advances(x) /\ x.kind = "Retry"
    BY DEF RetryItem, Items, Advances
  <2>. HIDE DEF x
  <2>2. /\ M \in Seq(Items) /\ Len(M) = Len(L) + 1 /\ M[Len(L) + 1] = x /\ \A k \in 1 .. Len(L) : M[k] = L[k]
    BY <1>1, <2>1, AddsOne
  <2>. HIDE DEF M
  <2>3. ASSUME NEW k \in 1 .. Len(M), Advances(M[k]) PROVE k \in 1 .. Len(L) /\ M[k] = L[k]
    <3>1. k = Len(L) + 1 \/ k \in 1 .. Len(L)
      BY <1>1, <2>2
    <3>. QED
      BY <2>1, <2>2, <2>3, <3>1
  <2>4. ASSUME NEW k \in 1 .. Len(M), Advances(M[k]) PROVE ItemIs(M[k], point) /\ ItemFollows(M, k, sn)
    <3>1. k \in 1 .. Len(L) /\ M[k] = L[k]
      BY <2>3, <2>4
    <3>2. ItemIs(L[k], point) /\ ItemFollows(L, k, sn)
      BY <2>4, <3>1 DEF InOrder
    <3>3. ItemFollows(M, k, sn)
      BY <1>1, <2>2, <3>1, <3>2, StillFollows
    <3>. QED
      BY <3>1, <3>2, <3>3
  <2>5. InOrder(M, sn, point)
    BY <2>2, <2>4 DEF InOrder
  <2>6. \A k \in 1 .. Len(M) : Advances(M[k]) => Place(M[k]) <= Q.at /\ M[k].id <= is
    <3>1. \A k \in 1 .. Len(L) : Advances(L[k]) => Place(L[k]) <= Q.at /\ L[k].id <= is
      BY <1>3 DEF UpTo
    <3>. QED
      BY <2>3, <3>1
  <2>7. ASSUME NEW e \in Events, e <= Q.at PROVE e \in sn \/ \E i \in 1 .. Len(M) : Gives(M, i, e)
    <3>1. e \in sn \/ \E i \in 1 .. Len(L) : Gives(L, i, e)
      BY <1>3, <2>7 DEF UpTo
    <3>2. \A i \in 1 .. Len(L) : i \in 1 .. Len(M)
      BY <1>1, <2>2
    <3>. QED
      BY <2>2, <3>1, <3>2 DEF Gives
  <2>8. point <= is /\ is <= Q.at
    BY <1>3 DEF UpTo
  <2>9. UpTo(M, sn, point, Q.at, is)
    BY <2>6, <2>7, <2>8 DEF UpTo
  <2>. QED
    BY <1>3, <2>5, <2>9 DEF M, x
<1>4. ASSUME NEW x \in Items, new = <<x>>, Advances(x), Q.at = P.at + 1, Q.at \in Places, Place(x) = Q.at, x.id = is,
             is = was \/ is = Q.at,
             x.kind = "Event" => Feed[x.n].kind = "Event" /\ x.lines = Feed[x.n].lines /\ (Feed[x.n].id => x.id = x.n),
             x.kind = "Checkpoint" => Feed[x.id].kind = "Checkpoint",
             x.kind = "Checkpoint" => Q.at \notin Events
      PROVE  InOrder(L \o new, sn, point) /\ UpTo(L \o new, sn, point, Q.at, is) /\ is \in Nat
  <2>. DEFINE M == L \o <<x>>
              n == Q.at
  <2>1. n \in Nat /\ is \in Nat /\ P.at < n /\ point <= was /\ was <= P.at /\ was <= is /\ is <= n
    BY <1>1, <1>4, FeedIs DEF UpTo
  <2>2. /\ M \in Seq(Items) /\ Len(M) = Len(L) + 1 /\ M[Len(L) + 1] = x /\ \A k \in 1 .. Len(L) : M[k] = L[k]
    BY <1>1, <1>4, AddsOne
  <2>. HIDE DEF M
  <2>3. \A k \in 1 .. Len(M) : k = Len(L) + 1 \/ k \in 1 .. Len(L)
    BY <1>1, <2>2
  <2>4. ASSUME NEW k \in 1 .. Len(L), Advances(L[k])
        PROVE  Place(L[k]) <= P.at /\ L[k].id <= was /\ Place(L[k]) \in Nat /\ L[k].id \in Nat
    BY <1>1, <2>4, ItemTyped DEF UpTo
  <2>5. ItemIs(x, point)
    <3>1. point < n /\ point <= is
      BY <1>1, <2>1
    <3>2. point < Place(x) /\ point <= x.id /\ x.id <= Place(x) /\ Place(x) \in Places
      BY <1>4, <2>1, <3>1
    <3>. QED
      BY <1>4, <3>2 DEF ItemIs
  <2>6. ItemFollows(M, Len(L) + 1, sn)
    <3>1. \A i \in 1 .. (Len(L) + 1) - 1 : i \in 1 .. Len(L) /\ M[i] = L[i]
      BY <1>1, <2>2
    <3>2. ASSUME NEW i \in 1 .. (Len(L) + 1) - 1, Advances(M[i]) PROVE Place(M[i]) < n /\ M[i].id <= is
      <4>1. i \in 1 .. Len(L) /\ M[i] = L[i]
        BY <3>1
      <4>2. Place(L[i]) <= P.at /\ L[i].id <= was /\ Place(L[i]) \in Nat /\ L[i].id \in Nat
        BY <2>4, <3>2, <4>1
      <4>3. Place(L[i]) < n /\ L[i].id <= is
        <5>. DEFINE a == Place(L[i])
                    b == L[i].id
                    c == P.at
        <5>1. a \in Nat /\ b \in Nat /\ c \in Nat /\ n \in Nat /\ is \in Nat /\ a <= c /\ c < n /\ b <= was /\ was <= is
          BY <1>1, <2>1, <4>2
        <5>. HIDE DEF a, b, c, n
        <5>2. a < n /\ b <= is
          BY <5>1
        <5>. QED
          BY <5>2 DEF a, b
      <4>. QED
        BY <4>1, <4>3
    <3>3. ASSUME NEW e \in Events, e < n PROVE e \in sn \/ \E i \in 1 .. (Len(L) + 1) - 1 : Gives(M, i, e)
      <4>1. e <= P.at
        BY <1>1, <1>4, <3>3, EventsAre
      <4>2. e \in sn \/ \E i \in 1 .. Len(L) : Gives(L, i, e)
        BY <4>1 DEF UpTo
      <4>3. \A i \in 1 .. Len(L) : i \in 1 .. (Len(L) + 1) - 1
        BY <1>1
      <4>. QED
        BY <3>1, <4>2, <4>3 DEF Gives
    <3>4. Place(M[Len(L) + 1]) = n /\ M[Len(L) + 1].id = is
      BY <1>4, <2>2
    <3>. QED
      BY <3>2, <3>3, <3>4 DEF ItemFollows
  <2>7. ASSUME NEW k \in 1 .. Len(M), Advances(M[k]) PROVE ItemIs(M[k], point) /\ ItemFollows(M, k, sn)
    <3>1. CASE k = Len(L) + 1
      BY <2>2, <2>5, <2>6, <3>1
    <3>2. CASE k \in 1 .. Len(L)
      <4>1. ItemIs(L[k], point) /\ ItemFollows(L, k, sn) /\ M[k] = L[k]
        BY <2>2, <2>7, <3>2 DEF InOrder
      <4>2. ItemFollows(M, k, sn)
        BY <1>1, <2>2, <3>2, <4>1, StillFollows
      <4>. QED
        BY <4>1, <4>2
    <3>. QED
      BY <2>3, <3>1, <3>2
  <2>8. InOrder(M, sn, point)
    BY <2>2, <2>7 DEF InOrder
  <2>9. ASSUME NEW k \in 1 .. Len(M), Advances(M[k]) PROVE Place(M[k]) <= n /\ M[k].id <= is
    <3>1. CASE k = Len(L) + 1
      BY <1>4, <2>1, <2>2, <3>1
    <3>2. CASE k \in 1 .. Len(L)
      <4>1. M[k] = L[k]
        BY <2>2, <3>2
      <4>2. Place(L[k]) <= P.at /\ L[k].id <= was /\ Place(L[k]) \in Nat /\ L[k].id \in Nat
        BY <2>4, <2>9, <3>2, <4>1
      <4>3. Place(L[k]) <= n /\ L[k].id <= is
        <5>. DEFINE a == Place(L[k])
                    b == L[k].id
                    c == P.at
        <5>1. a \in Nat /\ b \in Nat /\ c \in Nat /\ n \in Nat /\ is \in Nat /\ a <= c /\ c < n /\ b <= was /\ was <= is
          BY <1>1, <2>1, <4>2
        <5>. HIDE DEF a, b, c, n
        <5>2. a <= n /\ b <= is
          BY <5>1
        <5>. QED
          BY <5>2 DEF a, b
      <4>. QED
        BY <4>1, <4>3
    <3>. QED
      BY <2>3, <3>1, <3>2
  <2>10. ASSUME NEW e \in Events, e <= n PROVE e \in sn \/ \E i \in 1 .. Len(M) : Gives(M, i, e)
    <3>1. CASE e = n
      <4>1. x.kind = "Event" /\ x.n = e
        BY <1>4, <2>10, <3>1 DEF Items, Advances, Place
      <4>2. Len(L) + 1 \in 1 .. Len(M)
        BY <1>1, <2>2
      <4>. QED
        BY <2>2, <4>1, <4>2 DEF Gives
    <3>2. CASE e # n
      <4>1. e <= P.at
        BY <1>1, <1>4, <2>10, <3>2, EventsAre
      <4>2. e \in sn \/ \E i \in 1 .. Len(L) : Gives(L, i, e)
        BY <4>1 DEF UpTo
      <4>3. \A i \in 1 .. Len(L) : i \in 1 .. Len(M) /\ M[i] = L[i]
        BY <1>1, <2>2
      <4>. QED
        BY <4>2, <4>3 DEF Gives
    <3>. QED
      BY <3>1, <3>2
  <2>11. UpTo(M, sn, point, n, is)
    BY <1>1, <2>1, <2>9, <2>10 DEF UpTo
  <2>. QED
    BY <1>4, <2>1, <2>8, <2>11 DEF M
<1>5. ASSUME Q.at = P.at + 1, Q.at \in Places, Feed[Q.at].kind = "Event", is = (IF Feed[Q.at].id THEN Q.at ELSE was),
             new = <<EventItem(Q.at, is)>>
      PROVE  InOrder(L \o new, sn, point) /\ UpTo(L \o new, sn, point, Q.at, is) /\ is \in Nat
  <2>. DEFINE x == EventItem(Q.at, is)
  <2>1. Q.at \in Nat /\ is \in Nat /\ Feed[Q.at].lines \in Nat
    BY <1>5, FeedIs
  <2>2. /\ x \in Items /\ x.kind = "Event" /\ x.n = Q.at /\ x.id = is /\ x.lines = Feed[Q.at].lines
    BY <2>1 DEF EventItem, Items
  <2>. HIDE DEF x
  <2>3. Advances(x) /\ Place(x) = Q.at /\ (is = was \/ is = Q.at)
    BY <1>5, <2>2 DEF Advances, Place
  <2>. QED
    BY <1>4, <1>5, <2>2, <2>3 DEF x
<1>6. ASSUME Q.at = P.at + 1, Q.at \in Places, Feed[Q.at].kind = "Checkpoint", is = Q.at, new = <<CheckpointItem(Q.at)>>
      PROVE  InOrder(L \o new, sn, point) /\ UpTo(L \o new, sn, point, Q.at, is) /\ is \in Nat
  <2>. DEFINE x == CheckpointItem(Q.at)
  <2>1. Q.at \in Nat /\ Q.at \notin Events
    BY <1>6, FeedIs, EventsAre
  <2>2. /\ x \in Items /\ x.kind = "Checkpoint" /\ x.id = Q.at
    BY <2>1 DEF CheckpointItem, Items
  <2>. HIDE DEF x
  <2>3. Advances(x) /\ Place(x) = Q.at
    BY <2>2 DEF Advances, Place
  <2>. QED
    BY <1>4, <1>6, <2>1, <2>2, <2>3 DEF x
<1>. QED
  BY <1>2, <1>3, <1>5, <1>6 DEF Turns

(* A chunk.                                                                   *)
IsReading(g, p, u, n) == g = [i \in 0 .. n |-> IF i = 0 THEN [to |-> p, items |-> <<>>] ELSE ReadsNext(g[i - 1], u[i])]

LEMMA ReadingExists ==
  ASSUME NEW p, NEW u \in Seq(Marks), NEW n \in 0 .. Len(u) PROVE \E g : IsReading(g, p, u, n)
<1>. DEFINE T == {m \in 0 .. Len(u) : ~ \E g : IsReading(g, p, u, m)}
<1>1. SUFFICES ASSUME T # {} PROVE FALSE
  OBVIOUS
<1>2. T \subseteq Nat
  OBVIOUS
<1>3. PICK m \in T : \A y \in T : m <= y
  <2>. HIDE DEF T
  <2>. QED
    BY <1>1, <1>2, LeastThereIs
<1>4. CASE m = 0
  <2>1. IsReading([i \in 0 .. 0 |-> [to |-> p, items |-> <<>>]], p, u, 0)
    BY DEF IsReading
  <2>. QED
    BY <1>3, <1>4, <2>1
<1>5. CASE m # 0
  <2>1. m \in Nat /\ m - 1 \in 0 .. Len(u) /\ m - 1 < m /\ m - 1 \in Nat
    BY <1>2, <1>3, <1>5
  <2>2. m - 1 \notin T
    <3>. HIDE DEF T
    <3>. QED
      BY <1>2, <1>3, <2>1
  <2>3. PICK g : IsReading(g, p, u, m - 1)
    BY <2>1, <2>2
  <2>. DEFINE h == [i \in 0 .. m |-> IF i = m THEN ReadsNext(g[m - 1], u[m]) ELSE g[i]]
  <2>4. \A i \in 0 .. m - 1 : g[i] = IF i = 0 THEN [to |-> p, items |-> <<>>] ELSE ReadsNext(g[i - 1], u[i])
    BY <2>3 DEF IsReading
  <2>5. ASSUME NEW i \in 0 .. m PROVE h[i] = IF i = 0 THEN [to |-> p, items |-> <<>>] ELSE ReadsNext(h[i - 1], u[i])
    <3>1. CASE i = m
      <4>1. i - 1 \in 0 .. m /\ i - 1 # m /\ i # 0
        BY <2>1, <1>5, <3>1
      <4>. QED
        BY <3>1, <4>1
    <3>2. CASE i # m
      <4>1. i \in 0 .. m - 1 /\ (i # 0 => i - 1 \in 0 .. m /\ i - 1 # m)
        BY <2>1, <2>5, <3>2
      <4>. QED
        BY <2>4, <2>5, <3>2, <4>1
    <3>. QED
      BY <3>1, <3>2
  <2>6. IsReading(h, p, u, m)
    BY <2>5 DEF IsReading
  <2>. QED
    BY <1>3, <2>6
<1>. QED
  BY <1>4, <1>5

LEMMA ReadsThroughIs ==
  ASSUME NEW p, NEW u \in Seq(Marks)
  PROVE  /\ ReadsThrough(p, u)[0] = [to |-> p, items |-> <<>>]
         /\ \A i \in 1 .. Len(u) : ReadsThrough(p, u)[i] = ReadsNext(ReadsThrough(p, u)[i - 1], u[i])
<1>0. Len(u) \in 0 .. Len(u)
  OBVIOUS
<1>1. PICK g : IsReading(g, p, u, Len(u))
  BY <1>0, ReadingExists
<1>2. ReadsThrough(p, u) = CHOOSE f : f = [i \in 0 .. Len(u) |->
                              IF i = 0 THEN [to |-> p, items |-> <<>>] ELSE ReadsNext(f[i - 1], u[i])]
  BY DEF ReadsThrough
<1>3. IsReading(ReadsThrough(p, u), p, u, Len(u))
  BY <1>1, <1>2 DEF IsReading
<1>. DEFINE R == ReadsThrough(p, u)
<1>4. \A i \in 0 .. Len(u) : R[i] = IF i = 0 THEN [to |-> p, items |-> <<>>] ELSE ReadsNext(R[i - 1], u[i])
  BY <1>3 DEF IsReading
<1>5. 0 \in 0 .. Len(u) /\ \A i \in 1 .. Len(u) : i \in 0 .. Len(u) /\ i # 0
  BY <1>0
<1>. HIDE DEF R
<1>6. R[0] = [to |-> p, items |-> <<>>] /\ \A i \in 1 .. Len(u) : R[i] = ReadsNext(R[i - 1], u[i])
  BY <1>4, <1>5
<1>. QED
  BY <1>6 DEF R

(* The items of a chunk come after those there were, those dispatched on the  *)
(* way behind what the parser owed.                                           *)
LEMMA Associates ==
  ASSUME NEW A \in Seq(Items), NEW B \in Seq(Items), NEW C \in Seq(Items)
  PROVE  (A \o B) \o C = A \o (B \o C)
BY ConcatAssociative

LEMMA Regroups ==
  ASSUME NEW A \in Seq(Items), NEW B \in Seq(Items), NEW C \in Seq(Items), NEW D \in Seq(Items), NEW N \in Seq(Items),
         B \o C = D \o N
  PROVE  (A \o B) \o C = (A \o D) \o N /\ A \o B \in Seq(Items)
<1>1. (A \o B) \o C = A \o (B \o C)
  BY Associates, Zenon
<1>2. (A \o D) \o N = A \o (D \o N)
  BY Associates, Zenon
<1>3. A \o B \in Seq(Items)
  BY ConcatProperties, Zenon
<1>. QED
  BY <1>1, <1>2, <1>3, Zenon

LEMMA NextReads ==
  ASSUME BreaksIs, NEW P \in Positions, NEW Q \in Positions, NEW mark, Leads(P, mark, Q),
         NEW r, Fits(r.to, P), r.items \in Seq(Items), NEW sn, NEW point \in Nat,
         InOrder(r.items \o AtEnd(r.to).items, sn, point),
         UpTo(r.items \o AtEnd(r.to).items, sn, point, P.at, AtEnd(r.to).to.reported)
  PROVE  LET s == ReadsNext(r, mark) IN
         /\ Fits(s.to, Q) /\ s.items \in Seq(Items)
         /\ InOrder(s.items \o AtEnd(s.to).items, sn, point)
         /\ UpTo(s.items \o AtEnd(s.to).items, sn, point, Q.at, AtEnd(s.to).to.reported)
<1>. DEFINE p == r.to
            t == ReadsMark(p, mark)
            A == r.items
            B == t.items
            C == AtEnd(t.to).items
            D == AtEnd(p).items
            was == AtEnd(p).to.reported
            is == AtEnd(t.to).to.reported
            s == ReadsNext(r, mark)
<1>1. Fits(t.to, Q) /\ B \in Seq(Items) /\ \E new \in Seq(Items) : B \o C = D \o new /\ Turns(P, Q, was, is, new)
  BY MarkLands
<1>2. PICK N \in Seq(Items) : B \o C = D \o N /\ Turns(P, Q, was, is, N)
  BY <1>1
<1>3. A \in Seq(Items) /\ C \in Seq(Items) /\ D \in Seq(Items) /\ was \in Nat
  BY <1>1 DEF Fits, Stands, Parsers
<1>4. s.to = t.to /\ s.items = A \o B
  BY DEF ReadsNext
<1>5. InOrder(A \o D, sn, point) /\ UpTo(A \o D, sn, point, P.at, was)
  OBVIOUS
<1>. HIDE DEF A, B, C, D, was, is
<1>6. (A \o B) \o C = (A \o D) \o N /\ A \o B \in Seq(Items)
  <2>1. A \in Seq(Items) /\ B \in Seq(Items) /\ C \in Seq(Items) /\ D \in Seq(Items) /\ N \in Seq(Items)
    BY <1>1, <1>3
  <2>2. B \o C = D \o N
    BY <1>2
  <2>3. \A a, b, c, e, n \in Seq(Items) : b \o c = e \o n => (a \o b) \o c = (a \o e) \o n /\ a \o b \in Seq(Items)
    BY Regroups
  <2>4. \A b, c, e, n \in Seq(Items) : b \o c = e \o n => (A \o b) \o c = (A \o e) \o n /\ A \o b \in Seq(Items)
    BY <2>1, <2>3, Zenon
  <2>5. \A e, n \in Seq(Items) : B \o C = e \o n => (A \o B) \o C = (A \o e) \o n /\ A \o B \in Seq(Items)
    BY <2>1, <2>4, Zenon
  <2>6. B \o C = D \o N => (A \o B) \o C = (A \o D) \o N /\ A \o B \in Seq(Items)
    BY <2>1, <2>5, Zenon
  <2>. QED
    BY <2>2, <2>6, Zenon
<1>7. InOrder((A \o D) \o N, sn, point) /\ UpTo((A \o D) \o N, sn, point, Q.at, is)
  BY <1>2, <1>3, <1>5, OrderKept
<1>. HIDE DEF s, t
<1>8. C = AtEnd(s.to).items /\ is = AtEnd(s.to).to.reported
  BY <1>4 DEF C, is
<1>. QED
  BY <1>1, <1>4, <1>6, <1>7, <1>8 DEF s

LEMMA ChunkLands ==
  ASSUME BreaksIs, NEW u \in Seq(Marks), NEW P, NEW Q, Path(u, P, Q), NEW p, Fits(p, P), NEW sn, NEW point \in Nat,
         InOrder(AtEnd(p).items, sn, point), UpTo(AtEnd(p).items, sn, point, P.at, AtEnd(p).to.reported)
  PROVE  LET r == Parsed(p, u) IN
         /\ Fits(r.to, Q) /\ r.items \in Seq(Items)
         /\ InOrder(r.items \o AtEnd(r.to).items, sn, point)
         /\ UpTo(r.items \o AtEnd(r.to).items, sn, point, Q.at, AtEnd(r.to).to.reported)
<1>1. PICK h : Along(u, h) /\ h[0] = P /\ h[Len(u)] = Q
  BY DEF Path
<1>2. Len(u) \in Nat /\ (\A i \in 0 .. Len(u) : h[i] \in Positions) /\ \A i \in 1 .. Len(u) : Leads(h[i - 1], u[i], h[i])
  BY <1>1 DEF Along
<1>. DEFINE d == ReadsThrough(p, u)
            Good(i) == /\ Fits(d[i].to, h[i]) /\ d[i].items \in Seq(Items)
                       /\ InOrder(d[i].items \o AtEnd(d[i].to).items, sn, point)
                       /\ UpTo(d[i].items \o AtEnd(d[i].to).items, sn, point, h[i].at, AtEnd(d[i].to).to.reported)
            T == {i \in 0 .. Len(u) : ~Good(i)}
<1>3. d[0] = [to |-> p, items |-> <<>>] /\ \A i \in 1 .. Len(u) : d[i] = ReadsNext(d[i - 1], u[i])
  BY ReadsThroughIs
<1>. HIDE DEF d
<1>4. Good(0)
  <2>1. d[0].to = p /\ d[0].items = <<>>
    BY <1>3
  <2>2. AtEnd(p).items \in Seq(Items)
    BY DEF InOrder
  <2>3. <<>> \o AtEnd(p).items = AtEnd(p).items /\ <<>> \in Seq(Items)
    BY <2>2, ConcatEmptySeq
  <2>. QED
    BY <1>1, <2>1, <2>3
<1>5. ASSUME NEW i \in 1 .. Len(u), Good(i - 1) PROVE Good(i)
  <2>1. i - 1 \in 0 .. Len(u) /\ i \in 0 .. Len(u)
    BY <1>2
  <2>. DEFINE r == d[i - 1]
              R == h[i - 1]
              S == h[i]
              mark == u[i]
  <2>2. R \in Positions /\ S \in Positions /\ Leads(R, mark, S) /\ d[i] = ReadsNext(r, mark)
    BY <1>2, <1>3, <2>1
  <2>3. /\ Fits(r.to, R) /\ r.items \in Seq(Items) /\ InOrder(r.items \o AtEnd(r.to).items, sn, point)
        /\ UpTo(r.items \o AtEnd(r.to).items, sn, point, R.at, AtEnd(r.to).to.reported)
    BY <1>5
  <2>. HIDE DEF r, R, S, mark
  <2>. DEFINE s == d[i]
  <2>4. /\ Fits(s.to, S) /\ s.items \in Seq(Items)
        /\ InOrder(s.items \o AtEnd(s.to).items, sn, point)
        /\ UpTo(s.items \o AtEnd(s.to).items, sn, point, S.at, AtEnd(s.to).to.reported)
    <3>. DEFINE t == ReadsNext(r, mark)
    <3>1. /\ Fits(t.to, S) /\ t.items \in Seq(Items)
          /\ InOrder(t.items \o AtEnd(t.to).items, sn, point)
          /\ UpTo(t.items \o AtEnd(t.to).items, sn, point, S.at, AtEnd(t.to).to.reported)
      BY <2>2, <2>3, NextReads
    <3>2. s = t
      BY <2>2
    <3>. HIDE DEF s, t
    <3>. QED
      BY <3>1, <3>2
  <2>. QED
    BY <2>4 DEF S
<1>6. T = {}
  <2>1. SUFFICES ASSUME T # {} PROVE FALSE
    OBVIOUS
  <2>2. T \subseteq Nat
    OBVIOUS
  <2>. HIDE DEF Good
  <2>3. PICK m \in T : \A y \in T : m <= y
    <3>. HIDE DEF T
    <3>. QED
      BY <2>1, <2>2, LeastThereIs
  <2>4. m # 0 /\ m \in 1 .. Len(u) /\ m - 1 \in 0 .. Len(u) /\ ~(m <= m - 1) /\ ~Good(m)
    BY <1>2, <1>4, <2>3
  <2>5. m - 1 \notin T
    <3>. HIDE DEF T
    <3>. QED
      BY <2>3, <2>4
  <2>6. Good(m - 1)
    BY <2>4, <2>5
  <2>. QED
    BY <1>5, <2>4, <2>6
<1>7. Good(Len(u))
  <2>. HIDE DEF Good
  <2>. QED
    BY <1>2, <1>6
<1>8. Parsed(p, u) = d[Len(u)]
  BY DEF Parsed, d
<1>. QED
  BY <1>1, <1>7, <1>8

(* Handing one on.                                                            *)
LEMMA HandsOne ==
  ASSUME NEW L, NEW sn, NEW point \in Nat, InOrder(L, sn, point), L # <<>>, NEW then, sn \subseteq then, NEW now,
         now = (IF Advances(L[1]) THEN L[1].id ELSE point), L[1].kind = "Event" => L[1].n \in then
  PROVE  /\ InOrder(Tail(L), then, now) /\ now \in Nat
         /\ \A m, r : UpTo(L, sn, point, m, r) => UpTo(Tail(L), then, now, m, r)
<1>. DEFINE M == Tail(L)
<1>1. L \in Seq(Items) /\ Len(L) \in Nat \ {0} /\ 1 \in 1 .. Len(L) /\ L[1] \in Items
  BY EmptySeq DEF InOrder
<1>2. M \in Seq(Items) /\ Len(M) = Len(L) - 1 /\ \A i \in 1 .. Len(M) : M[i] = L[i + 1]
  BY <1>1, HeadTailProperties
<1>3. \A i \in 1 .. Len(M) : i + 1 \in 1 .. Len(L) /\ i + 1 # 1 /\ (i + 1) - 1 = i /\ M[i] = L[i + 1]
  BY <1>1, <1>2
<1>4. \A i \in 1 .. Len(L) : i # 1 => i - 1 \in 1 .. Len(M) /\ (i - 1) + 1 = i
  BY <1>1, <1>2
<1>5. now \in Nat
  BY <1>1, ItemTyped
<1>. HIDE DEF M
<1>6. ASSUME NEW i \in 1 .. Len(M), Advances(M[i]) PROVE now < Place(M[i]) /\ now <= M[i].id
  <2>. DEFINE k == i + 1
  <2>1. k \in 1 .. Len(L) /\ k # 1 /\ M[i] = L[k] /\ 1 \in 1 .. k - 1
    BY <1>3
  <2>. HIDE DEF k
  <2>2. ItemIs(L[k], point) /\ ItemFollows(L, k, sn)
    BY <1>6, <2>1 DEF InOrder
  <2>3. CASE Advances(L[1])
    <3>1. Place(L[1]) < Place(L[k]) /\ L[1].id <= L[k].id
      BY <2>1, <2>2, <2>3 DEF ItemFollows
    <3>2. L[1].id <= Place(L[1])
      BY <1>1, <2>3 DEF InOrder, ItemIs
    <3>3. Place(L[1]) \in Nat /\ Place(L[k]) \in Nat /\ L[1].id \in Nat
      BY <1>1, <2>1, ItemTyped
    <3>4. L[1].id < Place(L[k])
      <4>. DEFINE a == L[1].id
                  b == Place(L[1])
                  c == Place(L[k])
      <4>1. a \in Nat /\ b \in Nat /\ c \in Nat /\ a <= b /\ b < c
        BY <3>1, <3>2, <3>3
      <4>. HIDE DEF a, b, c
      <4>2. a < c
        BY <4>1
      <4>. QED
        BY <4>2 DEF a, c
    <3>. QED
      BY <2>1, <2>3, <3>1, <3>4
  <2>4. CASE ~Advances(L[1])
    BY <2>1, <2>2, <2>4 DEF ItemIs
  <2>. QED
    BY <2>3, <2>4
<1>7. ASSUME NEW e \in Events, NEW n \in 1 .. Len(L), e \in sn \/ \E i \in 1 .. n : Gives(L, i, e)
      PROVE  e \in then \/ \E i \in 1 .. n - 1 : i \in 1 .. Len(M) /\ Gives(M, i, e)
  <2>1. CASE e \in sn
    BY <2>1
  <2>2. CASE e \notin sn
    <3>1. PICK i \in 1 .. n : Gives(L, i, e)
      BY <1>7, <2>2
    <3>2. CASE i = 1
      BY <3>1, <3>2 DEF Gives
    <3>3. CASE i # 1
      <4>. DEFINE j == i - 1
      <4>1. i \in 1 .. Len(L) /\ j \in 1 .. n - 1 /\ j \in 1 .. Len(M) /\ j + 1 = i
        BY <1>1, <1>4, <3>3
      <4>. HIDE DEF j
      <4>2. M[j] = L[i]
        BY <1>3, <4>1
      <4>3. Gives(M, j, e)
        BY <3>1, <4>2 DEF Gives
      <4>. QED
        BY <4>1, <4>3
    <3>. QED
      BY <3>2, <3>3
  <2>. QED
    BY <2>1, <2>2
<1>8. ASSUME NEW k \in 1 .. Len(M), Advances(M[k]) PROVE ItemIs(M[k], now) /\ ItemFollows(M, k, then)
  <2>. DEFINE l == k + 1
  <2>1. l \in 1 .. Len(L) /\ M[k] = L[l] /\ l - 1 = k /\ l \in Nat
    BY <1>3
  <2>2. \A i \in 1 .. k - 1 : i \in 1 .. Len(M) /\ i + 1 \in 1 .. l - 1
    BY <1>1, <1>2
  <2>. HIDE DEF l
  <2>3. ItemIs(L[l], point) /\ ItemFollows(L, l, sn)
    BY <1>8, <2>1 DEF InOrder
  <2>4. ItemIs(M[k], now)
    <3>1. now < Place(M[k]) /\ now <= M[k].id
      BY <1>6, <1>8
    <3>. QED
      BY <2>1, <2>3, <3>1 DEF ItemIs
  <2>5. ASSUME NEW i \in 1 .. k - 1, Advances(M[i]) PROVE Place(M[i]) < Place(M[k]) /\ M[i].id <= M[k].id
    <3>1. M[i] = L[i + 1] /\ i + 1 \in 1 .. l - 1
      BY <1>3, <2>2
    <3>. QED
      BY <2>1, <2>3, <2>5, <3>1 DEF ItemFollows
  <2>6. ASSUME NEW e \in Events, e < Place(M[k]) PROVE e \in then \/ \E i \in 1 .. k - 1 : Gives(M, i, e)
    <3>1. e \in sn \/ \E i \in 1 .. k : Gives(L, i, e)
      BY <2>1, <2>3, <2>6 DEF ItemFollows
    <3>2. k \in 1 .. Len(L)
      BY <1>1, <1>2
    <3>. QED
      BY <1>7, <3>1, <3>2
  <2>. QED
    BY <2>4, <2>5, <2>6 DEF ItemFollows
<1>9. InOrder(M, then, now)
  BY <1>2, <1>8 DEF InOrder
<1>10. ASSUME NEW m, NEW r, UpTo(L, sn, point, m, r) PROVE UpTo(M, then, now, m, r)
  <2>1. now <= r /\ r <= m
    BY <1>1, <1>10 DEF UpTo
  <2>2. ASSUME NEW k \in 1 .. Len(M), Advances(M[k]) PROVE Place(M[k]) <= m /\ M[k].id <= r
    <3>1. k + 1 \in 1 .. Len(L) /\ M[k] = L[k + 1]
      BY <1>3
    <3>. QED
      BY <1>10, <2>2, <3>1 DEF UpTo
  <2>3. ASSUME NEW e \in Events, e <= m PROVE e \in then \/ \E i \in 1 .. Len(M) : Gives(M, i, e)
    <3>1. e \in sn \/ \E i \in 1 .. Len(L) : Gives(L, i, e)
      BY <1>10, <2>3 DEF UpTo
    <3>2. Len(L) \in 1 .. Len(L)
      BY <1>1
    <3>. QED
      BY <1>7, <3>1, <3>2
  <2>. QED
    BY <2>1, <2>2, <2>3 DEF UpTo
<1>. QED
  BY <1>5, <1>9, <1>10 DEF M

LEMMA FrontInOrder ==
  ASSUME NEW A \in Seq(Items), NEW B \in Seq(Items), NEW sn, NEW point, InOrder(A \o B, sn, point)
  PROVE  InOrder(A, sn, point)
<1>. DEFINE M == A \o B
<1>1. Len(M) = Len(A) + Len(B) /\ Len(A) \in Nat /\ Len(B) \in Nat /\ \A i \in 1 .. Len(A) : M[i] = A[i] /\ i \in 1 .. Len(M)
  <2>1. /\ Len(M) = Len(A) + Len(B)
        /\ \A i \in 1 .. Len(A) + Len(B) : M[i] = IF i <= Len(A) THEN A[i] ELSE B[i - Len(A)]
    BY ConcatProperties
  <2>2. Len(A) \in Nat /\ Len(B) \in Nat
    OBVIOUS
  <2>3. \A i \in 1 .. Len(A) : i \in 1 .. Len(A) + Len(B) /\ i <= Len(A)
    BY <2>2
  <2>. HIDE DEF M
  <2>. QED
    BY <2>1, <2>2, <2>3
<1>. HIDE DEF M
<1>2. ASSUME NEW k \in 1 .. Len(A), Advances(A[k]) PROVE ItemIs(A[k], point) /\ ItemFollows(A, k, sn)
  <2>1. ItemIs(M[k], point) /\ ItemFollows(M, k, sn) /\ M[k] = A[k]
    BY <1>1, <1>2 DEF InOrder, M
  <2>2. Len(A) \in Nat /\ \A i \in 1 .. Len(A) : A[i] = M[i]
    BY <1>1
  <2>3. ItemFollows(A, k, sn)
    BY <2>1, <2>2, StillFollows
  <2>. QED
    BY <2>1, <2>3
<1>. QED
  BY <1>2 DEF InOrder

LEMMA TailJoins ==
  ASSUME NEW A \in Seq(Items), NEW B \in Seq(Items), A # <<>>
  PROVE  Tail(A \o B) = Tail(A) \o B /\ A \o B # <<>> /\ (A \o B)[1] = A[1] /\ Tail(A) \in Seq(Items) /\ Head(A) = A[1]
<1>. DEFINE M == A \o B
            C == Tail(A)
            N == C \o B
            T == Tail(M)
<1>1. /\ Len(A) \in Nat \ {0} /\ Len(B) \in Nat /\ C \in Seq(Items) /\ Len(C) = Len(A) - 1
      /\ \A i \in 1 .. Len(C) : C[i] = A[i + 1]
  BY EmptySeq, HeadTailProperties
<1>2. /\ M \in Seq(Items) /\ Len(M) = Len(A) + Len(B)
      /\ \A i \in 1 .. Len(A) + Len(B) : M[i] = IF i <= Len(A) THEN A[i] ELSE B[i - Len(A)]
  BY ConcatProperties
<1>. HIDE DEF M, C
<1>3. /\ N \in Seq(Items) /\ Len(N) = Len(C) + Len(B)
      /\ \A i \in 1 .. Len(C) + Len(B) : N[i] = IF i <= Len(C) THEN C[i] ELSE B[i - Len(C)]
  BY <1>1, ConcatProperties
<1>4. M # <<>> /\ Len(M) \in Nat \ {0} /\ M[1] = A[1]
  BY <1>1, <1>2, EmptySeq
<1>5. T \in Seq(Items) /\ Len(T) = Len(M) - 1 /\ \A i \in 1 .. Len(T) : T[i] = M[i + 1]
  BY <1>2, <1>4, HeadTailProperties
<1>. HIDE DEF N, T
<1>6. Len(T) = Len(N)
  BY <1>1, <1>2, <1>3, <1>5
<1>7. ASSUME NEW i \in 1 .. Len(T) PROVE T[i] = N[i]
  <2>1. /\ i + 1 \in 1 .. Len(A) + Len(B) /\ i \in 1 .. Len(C) + Len(B) /\ (i + 1 <= Len(A) <=> i <= Len(C))
        /\ (i + 1) - Len(A) = i - Len(C)
    BY <1>1, <1>2, <1>5
  <2>2. CASE i <= Len(C)
    BY <1>1, <1>2, <1>3, <1>5, <2>1, <2>2
  <2>3. CASE ~(i <= Len(C))
    BY <1>2, <1>3, <1>5, <2>1, <2>3
  <2>. QED
    BY <2>2, <2>3
<1>8. T = N
  BY <1>3, <1>5, <1>6, <1>7, SeqEqual
<1>. QED
  BY <1>1, <1>4, <1>8 DEF M, C, N, T

-----------------------------------------------------------------------------
(* The subscription.  The caller has the feed up to the point a connection    *)
(* would resume from, and what is read of this one carries on from there.     *)
SseTypes ==
    /\ BreaksIs
    /\ server \in [pull : {"none", "pulling", "done", "over"}, at : 0 .. Len(Feed)]
    /\ server.pull = "done" => server.at < Len(Feed)
    /\ wire \in Seq(Marks)
    /\ wireEnd \in {"open", "eof", "error"}
    /\ inHand \in Seq(Items)
OnItsWay(P, Q) ==
    /\ Path(wire, P, Q) /\ Fits(parser, P)
    /\ wireEnd = "open" => Q = Between(server.at)
    /\ InOrder(inHand \o AtEnd(parser).items, seen, lastId)
    /\ UpTo(inHand \o AtEnd(parser).items, seen, lastId, P.at, AtEnd(parser).to.reported)
OnTheWay == \E P, Q \in Positions : OnItsWay(P, Q)
Carries ==
    /\ sub = "reading" => OnTheWay
    /\ sub \in {"draining", "oversized"} => InOrder(inHand, seen, lastId)
    /\ sub \in {"connecting", "sleeping", "refused", "unreachable", "raised"} => inHand = <<>>
SeenKept(sn, ag, point) ==
    /\ point \in 0 .. Len(Feed)
    /\ sn \subseteq Events
    /\ \A n \in sn : \A m \in Events : m < n => m \in sn
    /\ \A m \in Events : m <= point => m \in sn
    /\ \A n \in sn : Feed[n].id => n <= point
    /\ \A n \in ag : ~Feed[n].id
Kept == SeenKept(seen, again, lastId)
WaitIs == wait = Reconnect \/ wait \in MinimumReconnect .. MaximumReconnect
Unheard ==
    /\ ~established => seen = {} /\ sub \in {"connecting", "unreachable", "refused"}
    /\ sub = "unreachable" => ~established
SseInv == SseTypes /\ Carries /\ Kept /\ WaitIs /\ Unheard

LEMMA PathGoesOn ==
  ASSUME breaks' = breaks, NEW w, w = wire', NEW P, NEW Q, Path(w, P, Q) PROVE Path(wire, P, Q)'
BY DEF Path, Along, Leads, PutsLine, EndsTheLine, EndsFrame, EndsPair, AfterEnd

LEMMA FitsGoesOn ==
  ASSUME breaks' = breaks, NEW p, p = parser', NEW P, Fits(p, P) PROVE Fits(parser, P)'
BY DEF Fits

LEMMA OnGoes ==
  ASSUME breaks' = breaks, NEW w, w = wire', NEW p, p = parser', NEW L, L = inHand',
         NEW sn, sn = seen', NEW point, point = lastId',
         NEW P \in Positions, NEW Q \in Positions, Path(w, P, Q), Fits(p, P), wireEnd' = "open" => Q = Between(server'.at),
         InOrder(L \o AtEnd(p).items, sn, point), UpTo(L \o AtEnd(p).items, sn, point, P.at, AtEnd(p).to.reported)
  PROVE  OnTheWay'
<1>1. Path(wire, P, Q)' /\ Fits(parser, P)'
  BY PathGoesOn, FitsGoesOn
<1>2. (wireEnd = "open" => Q = Between(server.at))'
  OBVIOUS
<1>3. InOrder(inHand \o AtEnd(parser).items, seen, lastId)'
  OBVIOUS
<1>4. UpTo(inHand \o AtEnd(parser).items, seen, lastId, P.at, AtEnd(parser).to.reported)'
  OBVIOUS
<1>5. OnItsWay(P, Q)'
  BY <1>1, <1>2, <1>3, <1>4 DEF OnItsWay
<1>. QED
  BY <1>5 DEF OnTheWay

LEMMA NoItemsYet == \A sn, point : InOrder(<<>>, sn, point)
BY DEF InOrder

(* What leaves the subscriber alone.                                          *)
LEMMA SubscriberKeeps ==
  ASSUME SseInv, breaks' = breaks, UNCHANGED <<sub, subscriber, inHand, history>>, SseTypes', sub = "reading" => OnTheWay'
  PROVE  SseInv'
BY DEF SseInv, Carries, Kept, WaitIs, Unheard, subscriber, history

LEMMA StaysOnItsWay ==
  ASSUME SseInv, sub = "reading", UNCHANGED <<breaks, wire, parser, inHand, seen, lastId>>,
         wireEnd' = "open" => wireEnd = "open" /\ server'.at = server.at
  PROVE  OnTheWay'
<1>1. PICK P \in Positions, Q \in Positions : OnItsWay(P, Q)
  BY DEF SseInv, Carries, OnTheWay
<1>2. wireEnd' = "open" => Q = Between(server'.at)
  BY <1>1 DEF OnItsWay
<1>3. Path(wire, P, Q) /\ Fits(parser, P)
  BY <1>1 DEF OnItsWay
<1>4. InOrder(inHand \o AtEnd(parser).items, seen, lastId)
      /\ UpTo(inHand \o AtEnd(parser).items, seen, lastId, P.at, AtEnd(parser).to.reported)
  BY <1>1 DEF OnItsWay
<1>. QED
  BY <1>2, <1>3, <1>4, OnGoes

LEMMA ProducesKeeps == ASSUME SseInv, Produces PROVE SseInv'
<1>1. server' = [server EXCEPT !.pull = IF server.at < Len(Feed) THEN "done" ELSE "over"]
      /\ UNCHANGED <<breaks, cap, wire, wireEnd, parser, sub, lastId, wait, established, inHand, seen, again>>
  BY DEF Produces, subscriber, history
<1>2. server'.at = server.at /\ SseTypes'
  BY <1>1 DEF SseInv, SseTypes, BreaksIs
<1>3. sub = "reading" => OnTheWay'
  BY <1>1, <1>2, StaysOnItsWay
<1>. QED
  BY <1>1, <1>2, <1>3, SubscriberKeeps DEF subscriber, history

(* What is written comes behind what is on the wire.                          *)
LEMMA AddedKeeps ==
  ASSUME SseInv, NEW more \in Seq(Marks), NEW m \in 0 .. Len(Feed), Path(more, Between(server.at), Between(m)),
         wireEnd = "open", wire' = wire \o more, server'.at = m,
         UNCHANGED <<breaks, wireEnd, parser, sub, lastId, inHand, seen>>, sub = "reading"
  PROVE  OnTheWay' /\ wire' \in Seq(Marks)
<1>1. PICK P \in Positions, Q \in Positions : OnItsWay(P, Q)
  BY DEF SseInv, Carries, OnTheWay
<1>2. Path(wire, P, Q) /\ Fits(parser, P) /\ Q = Between(server.at)
  BY <1>1 DEF OnItsWay
<1>3. InOrder(inHand \o AtEnd(parser).items, seen, lastId)
      /\ UpTo(inHand \o AtEnd(parser).items, seen, lastId, P.at, AtEnd(parser).to.reported)
  BY <1>1 DEF OnItsWay
<1>4. wire \in Seq(Marks)
  BY DEF SseInv, SseTypes
<1>5. Path(wire \o more, P, Between(m)) /\ Between(m) \in Positions
  BY <1>2, <1>4, PathJoins, RestIs
<1>6. wire \o more \in Seq(Marks)
  BY <1>4, ConcatProperties
<1>. QED
  BY <1>2, <1>3, <1>5, <1>6, OnGoes

LEMMA SendsKeeps == ASSUME SseInv, Sends PROVE SseInv'
<1>. DEFINE more == Terminated(Lines(server.at + 1))
            m == server.at + 1
<1>1. /\ server.pull = "done" /\ wireEnd = "open" /\ wire' = wire \o more /\ server' = [pull |-> "pulling", at |-> m]
      /\ UNCHANGED <<breaks, cap, wireEnd, parser, sub, lastId, wait, established, inHand, seen, again>>
  BY DEF Sends, subscriber, history
<1>2. server.at \in 0 .. Len(Feed) /\ server.at < Len(Feed) /\ BreaksIs /\ wire \in Seq(Marks) /\ Len(Feed) \in Nat
  BY <1>1, FeedIs DEF SseInv, SseTypes
<1>3. more \in Seq(Marks) /\ Path(more, Between(server.at), Between(m)) /\ m \in 0 .. Len(Feed)
  BY <1>2, FrameIsPath
<1>. HIDE DEF more, m
<1>4. wire \o more \in Seq(Marks)
  BY <1>2, <1>3, ConcatProperties
<1>5. server'.at = m /\ server'.pull = "pulling" /\ server' \in [pull : {"none", "pulling", "done", "over"}, at : 0 .. Len(Feed)]
  BY <1>1, <1>3
<1>6. SseTypes'
  BY <1>1, <1>4, <1>5 DEF SseInv, SseTypes, BreaksIs
<1>7. sub = "reading" => OnTheWay'
  BY <1>1, <1>3, <1>5, AddedKeeps
<1>. QED
  BY <1>1, <1>6, <1>7, SubscriberKeeps DEF subscriber, history

LEMMA BeatsKeeps == ASSUME SseInv, Beats PROVE SseInv'
<1>1. /\ wireEnd = "open" /\ wire = <<>> /\ wire' = Heartbeat
      /\ UNCHANGED <<breaks, server, cap, wireEnd, parser, sub, lastId, wait, established, inHand, seen, again>>
  BY DEF Beats, serverSide, subscriber, history
<1>2. server.at \in 0 .. Len(Feed) /\ BreaksIs /\ wire \in Seq(Marks)
  BY DEF SseInv, SseTypes
<1>3. Heartbeat \in Seq(Marks) /\ Path(Heartbeat, Between(server.at), Between(server.at))
  BY <1>2, BeatIsPath
<1>4. wire' = wire \o Heartbeat
  BY <1>1, <1>3, ConcatEmptySeq
<1>5. SseTypes'
  BY <1>1, <1>3 DEF SseInv, SseTypes, BreaksIs
<1>6. sub = "reading" => OnTheWay'
  BY <1>1, <1>2, <1>3, <1>4, AddedKeeps
<1>. QED
  BY <1>1, <1>5, <1>6, SubscriberKeeps DEF subscriber, history

LEMMA NoServer == NoResponse \in [pull : {"none", "pulling", "done", "over"}, at : 0 .. Len(Feed)] /\ NoResponse.pull = "none"
BY FeedIs DEF NoResponse

LEMMA StreamEndsKeeps == ASSUME SseInv, EventStreamEnds PROVE SseInv'
<1>1. /\ server' = NoResponse /\ wireEnd' = "eof"
      /\ UNCHANGED <<breaks, cap, wire, parser, sub, lastId, wait, established, inHand, seen, again>>
  BY DEF EventStreamEnds, subscriber, history
<1>2. SseTypes'
  BY <1>1, NoServer DEF SseInv, SseTypes, BreaksIs
<1>3. sub = "reading" => OnTheWay'
  BY <1>1, StaysOnItsWay
<1>. QED
  BY <1>1, <1>2, <1>3, SubscriberKeeps DEF subscriber, history

LEMMA CutKeeps == ASSUME SseInv, Cut PROVE SseInv'
<1>1. PICK n \in 0 .. Len(wire), how \in {"eof", "error"} : wire' = SubSeq(wire, 1, n) /\ wireEnd' = how
  BY DEF Cut
<1>2. /\ sub = "reading" /\ server' = NoResponse
      /\ UNCHANGED <<breaks, cap, parser, sub, lastId, wait, established, inHand, seen, again>>
  BY DEF Cut, subscriber, history
<1>3. PICK P \in Positions, Q \in Positions : OnItsWay(P, Q)
  BY <1>2 DEF SseInv, Carries, OnTheWay
<1>4. Path(wire, P, Q) /\ Fits(parser, P) /\ wire \in Seq(Marks)
      /\ InOrder(inHand \o AtEnd(parser).items, seen, lastId)
      /\ UpTo(inHand \o AtEnd(parser).items, seen, lastId, P.at, AtEnd(parser).to.reported)
  BY <1>3 DEF OnItsWay, SseInv, SseTypes
<1>5. PICK h : Along(wire, h) /\ h[0] = P /\ h[Len(wire)] = Q
  BY <1>4 DEF Path
<1>6. Path(SubSeq(wire, 1, n), P, h[n]) /\ h[n] \in Positions /\ SubSeq(wire, 1, n) \in Seq(Marks)
  BY <1>4, <1>5, PathCut
<1>7. SseTypes'
  BY <1>1, <1>2, <1>6, NoServer DEF SseInv, SseTypes, BreaksIs
<1>8. OnTheWay'
  BY <1>1, <1>2, <1>4, <1>6, OnGoes
<1>. QED
  BY <1>2, <1>7, <1>8, SubscriberKeeps DEF subscriber, history

LEMMA ReadsKeeps == ASSUME SseInv, ReadsChunk PROVE SseInv'
<1>1. /\ sub = "reading" /\ inHand = <<>>
      /\ UNCHANGED <<breaks, server, cap, wireEnd, lastId, wait, established, seen, again>>
  BY DEF ReadsChunk, serverSide, subscriber, history
<1>2. PICK n \in 1 .. ChunkSize :
        /\ n <= Len(wire) /\ wire' = SubSeq(wire, n + 1, Len(wire))
        /\ parser' = Parsed(parser, SubSeq(wire, 1, n)).to /\ inHand' = Parsed(parser, SubSeq(wire, 1, n)).items
        /\ sub' \in {"oversized", "reading"}
  BY DEF ReadsChunk
<1>3. PICK P \in Positions, Q \in Positions : OnItsWay(P, Q)
  BY <1>1 DEF SseInv, Carries, OnTheWay
<1>4. /\ Path(wire, P, Q) /\ Fits(parser, P) /\ wire \in Seq(Marks) /\ BreaksIs /\ lastId \in Nat
      /\ (wireEnd = "open" => Q = Between(server.at))
  BY <1>3, FeedIs DEF OnItsWay, SseInv, SseTypes, Kept, SeenKept
<1>5. PICK h : Along(wire, h) /\ h[0] = P /\ h[Len(wire)] = Q
  BY <1>4 DEF Path
<1>6. n \in 0 .. Len(wire)
  BY <1>2, <1>4, FeedAssumption
<1>. DEFINE u == SubSeq(wire, 1, n)
            v == SubSeq(wire, n + 1, Len(wire))
            R == h[n]
            r == Parsed(parser, u)
<1>7. /\ Path(u, P, R) /\ Path(v, R, Q) /\ R \in Positions /\ u \in Seq(Marks) /\ v \in Seq(Marks)
  BY <1>4, <1>5, <1>6, PathCut
<1>. HIDE DEF u, v, R
<1>8. InOrder(AtEnd(parser).items, seen, lastId) /\ UpTo(AtEnd(parser).items, seen, lastId, P.at, AtEnd(parser).to.reported)
  <2>1. AtEnd(parser).items \in Seq(Items)
    BY <1>4 DEF Fits
  <2>2. inHand \o AtEnd(parser).items = AtEnd(parser).items
    BY <1>1, <2>1, ConcatEmptySeq
  <2>. QED
    BY <1>3, <2>2 DEF OnItsWay
<1>9. /\ Fits(r.to, R) /\ r.items \in Seq(Items)
      /\ InOrder(r.items \o AtEnd(r.to).items, seen, lastId)
      /\ UpTo(r.items \o AtEnd(r.to).items, seen, lastId, R.at, AtEnd(r.to).to.reported)
  BY <1>4, <1>7, <1>8, ChunkLands
<1>10. parser' = r.to /\ inHand' = r.items /\ wire' = v
  BY <1>2 DEF u, v
<1>. HIDE DEF r
<1>11. SseTypes'
  BY <1>1, <1>7, <1>9, <1>10 DEF SseInv, SseTypes, BreaksIs
<1>12. OnTheWay'
  <2>1. wireEnd' = "open" => Q = Between(server'.at)
    BY <1>1, <1>4
  <2>. QED
    BY <1>1, <1>7, <1>9, <1>10, <2>1, OnGoes
<1>13. InOrder(inHand, seen, lastId)'
  <2>1. AtEnd(r.to).items \in Seq(Items)
    BY <1>9 DEF Fits
  <2>2. InOrder(r.items, seen, lastId)
    BY <1>9, <2>1, FrontInOrder
  <2>. QED
    BY <1>1, <1>10, <2>2
<1>14. Carries'
  BY <1>2, <1>12, <1>13 DEF Carries
<1>15. Kept' /\ WaitIs' /\ Unheard'
  BY <1>1, <1>2 DEF SseInv, Kept, WaitIs, Unheard
<1>. QED
  BY <1>11, <1>14, <1>15 DEF SseInv

LEMMA StreamOverKeeps == ASSUME SseInv, StreamOver PROVE SseInv'
<1>1. /\ sub = "reading" /\ inHand = <<>> /\ sub' = "draining"
      /\ UNCHANGED <<breaks, server, cap, wire, wireEnd, lastId, wait, established, seen, again>>
  BY DEF StreamOver, serverSide, subscriber, history
<1>2. inHand' = AtEnd(parser).items \/ inHand' = <<>>
  BY DEF StreamOver
<1>3. PICK P \in Positions, Q \in Positions : OnItsWay(P, Q)
  BY <1>1 DEF SseInv, Carries, OnTheWay
<1>4. AtEnd(parser).items \in Seq(Items)
  BY <1>3 DEF OnItsWay, Fits
<1>5. InOrder(AtEnd(parser).items, seen, lastId)
  <2>1. inHand \o AtEnd(parser).items = AtEnd(parser).items
    BY <1>1, <1>4, ConcatEmptySeq
  <2>. QED
    BY <1>3, <2>1 DEF OnItsWay
<1>6. InOrder(inHand, seen, lastId)'
  BY <1>1, <1>2, <1>5, NoItemsYet
<1>7. SseTypes'
  BY <1>1, <1>2, <1>4 DEF SseInv, SseTypes, BreaksIs
<1>8. Carries'
  BY <1>1, <1>6 DEF Carries
<1>9. Kept' /\ WaitIs' /\ Unheard'
  BY <1>1 DEF SseInv, Kept, WaitIs, Unheard
<1>. QED
  BY <1>7, <1>8, <1>9 DEF SseInv

(* A connection takes up the feed where the caller has it.                    *)
LEMMA FreshFits ==
  ASSUME NEW m \in 0 .. Len(Feed)
  PROVE  LET p == Parser(m) IN
         Fits(p, Between(m)) /\ AtEnd(p).items = <<>> /\ AtEnd(p).to.reported = m
<1>. DEFINE p == Parser(m)
            P == Between(m)
<1>1. m \in Nat /\ <<>> \in Seq(Nat) /\ Len(<<>>) = 0 /\ None \in Marks
  BY FeedIs, LineIs
<1>2. /\ p \in Parsers /\ ~p.held /\ p.pending = None /\ p.data = <<>> /\ p.last = m /\ p.reported = m
  BY <1>1 DEF Parser, Parsers
<1>. HIDE DEF p
<1>3. AtEnd(p).to = p /\ AtEnd(p).items = <<>>
  BY <1>2, AtEndIs
<1>4. P.at = m /\ P.kind = "frame" /\ P.line = 0 /\ P.stage = "clean"
  BY RestIs
<1>. HIDE DEF P
<1>5. ~Inside(P) /\ DataBehind(P) = 0
  BY <1>4 DEF Inside, DataBehind
<1>6. Stands(p, P)
  BY <1>1, <1>2, <1>4, <1>5 DEF Stands
<1>7. Fits(p, P)
  <2>1. <<>> \in Seq(Items)
    OBVIOUS
  <2>. QED
    BY <1>2, <1>3, <1>4, <1>6, <2>1 DEF Fits
<1>. QED
  BY <1>2, <1>3, <1>7 DEF p, P

LEMMA SubscribesKeeps == ASSUME SseInv, Subscribes PROVE SseInv'
<1>1. /\ sub = "connecting" /\ sub' = "reading" /\ established' = TRUE /\ server' = [pull |-> "pulling", at |-> lastId]
      /\ wire' = <<>> /\ wireEnd' = "open" /\ parser' = Parser(lastId)
      /\ UNCHANGED <<breaks, cap, lastId, wait, inHand, seen, again>>
  BY DEF Subscribes, Connected, history
<1>2. lastId \in 0 .. Len(Feed) /\ inHand = <<>> /\ \A m \in Events : m <= lastId => m \in seen
  BY <1>1 DEF SseInv, Carries, Kept, SeenKept
<1>. DEFINE p == Parser(lastId)
            P == Between(lastId)
<1>3. Fits(p, P) /\ AtEnd(p).items = <<>> /\ AtEnd(p).to.reported = lastId /\ P \in Positions /\ P.at = lastId
  BY <1>2, FreshFits, RestIs
<1>4. Path(<<>>, P, P)
  BY <1>3, PathEmpty
<1>5. <<>> \o <<>> = <<>> /\ lastId \in Nat /\ Len(<<>>) = 0 /\ <<>> \in Seq(Marks)
  BY <1>2, FeedIs
<1>6. InOrder(<<>>, seen, lastId) /\ UpTo(<<>>, seen, lastId, lastId, lastId)
  <2>1. \A k \in 1 .. Len(<<>>) : FALSE
    BY <1>5
  <2>. QED
    BY <1>2, <1>5, <2>1, NoItemsYet DEF UpTo
<1>. HIDE DEF p, P
<1>7. OnTheWay'
  <2>1. inHand' = <<>> /\ seen' = seen /\ lastId' = lastId /\ parser' = p /\ wire' = <<>>
    BY <1>1, <1>2 DEF p
  <2>2. wireEnd' = "open" => P = Between(server'.at)
    BY <1>1 DEF P
  <2>3. InOrder(<<>> \o AtEnd(p).items, seen, lastId)
        /\ UpTo(<<>> \o AtEnd(p).items, seen, lastId, P.at, AtEnd(p).to.reported)
    BY <1>3, <1>5, <1>6
  <2>. QED
    BY <1>1, <1>3, <1>4, <2>1, <2>2, <2>3, OnGoes
<1>8. SseTypes'
  BY <1>1, <1>2, <1>5 DEF SseInv, SseTypes, BreaksIs
<1>9. Carries'
  BY <1>1, <1>7 DEF Carries
<1>10. Kept' /\ WaitIs' /\ Unheard'
  BY <1>1 DEF SseInv, Kept, WaitIs, Unheard
<1>. QED
  BY <1>8, <1>9, <1>10 DEF SseInv

LEMMA EmptyHandKeeps ==
  ASSUME SseInv, inHand = <<>>,
         sub' \in {"connecting", "sleeping", "refused", "unreachable", "raised"},
         server' = server \/ server' = NoResponse,
         ~established => sub' \in {"connecting", "unreachable", "refused"}, sub' = "unreachable" => ~established,
         UNCHANGED <<breaks, cap, wire, wireEnd, parser, subscriber, inHand, history>>
  PROVE  SseInv'
<1>1. SseTypes'
  BY NoServer DEF SseInv, SseTypes, BreaksIs
<1>2. Carries'
  BY DEF Carries
<1>3. Kept' /\ WaitIs' /\ Unheard'
  BY DEF SseInv, Kept, WaitIs, Unheard, subscriber, history
<1>. QED
  BY <1>1, <1>2, <1>3 DEF SseInv

LEMMA IdleKeeps ==
  ASSUME SseInv, AttemptFails \/ NotAnEventStream \/ TooBig \/ Drops \/ Sleeps
  PROVE  SseInv'
<1>1. UNCHANGED <<breaks, cap, wire, wireEnd, parser, subscriber, inHand, history>>
  BY DEF AttemptFails, NotAnEventStream, TooBig, Drops, Sleeps, serverSide
<1>2. server' = server \/ server' = NoResponse
  BY DEF AttemptFails, NotAnEventStream, TooBig, Drops, Sleeps, serverSide
<1>3. inHand = <<>>
  BY DEF AttemptFails, NotAnEventStream, TooBig, Drops, Sleeps, SseInv, Carries
<1>4. /\ sub' \in {"connecting", "sleeping", "refused", "unreachable", "raised"}
      /\ sub' = "unreachable" => ~established
      /\ ~established => sub' \in {"connecting", "unreachable", "refused"}
  BY DEF AttemptFails, NotAnEventStream, TooBig, Drops, Sleeps, SseInv, Unheard
<1>. QED
  BY <1>1, <1>2, <1>3, <1>4, EmptyHandKeeps

LEMMA CallerLeavesKeeps == ASSUME SseInv, CallerLeaves PROVE SseInv'
<1>1. /\ sub \in {"reading", "draining"} /\ sub' = "closed" /\ server' = NoResponse
      /\ UNCHANGED <<breaks, cap, wire, wireEnd, parser, lastId, wait, established, inHand, seen, again>>
  BY DEF CallerLeaves, subscriber, history
<1>2. SseTypes'
  BY <1>1, NoServer DEF SseInv, SseTypes, BreaksIs
<1>3. Carries' /\ Kept' /\ WaitIs' /\ Unheard'
  BY <1>1 DEF SseInv, Carries, Kept, WaitIs, Unheard
<1>. QED
  BY <1>2, <1>3 DEF SseInv

(* What is in hand goes on to the caller, the first of it first.              *)
LEMMA HandingKeeps ==
  ASSUME SseInv, Handing, NEW x, x = inHand[1], inHand' = Tail(inHand), seen \subseteq seen',
         lastId' = (IF Advances(x) THEN x.id ELSE lastId), x.kind = "Event" => x.n \in seen',
         Kept', WaitIs', UNCHANGED <<server, breaks, cap, wire, wireEnd, parser, sub, established>>
  PROVE  SseInv'
<1>1. /\ sub \in {"reading", "draining", "oversized"} /\ inHand # <<>> /\ inHand \in Seq(Items) /\ lastId \in Nat
      /\ established
  BY FeedIs DEF SseInv, Handing, SseTypes, Kept, SeenKept, Unheard
<1>2. Tail(inHand) \in Seq(Items)
  BY <1>1, HeadTailProperties
<1>3. SseTypes'
  BY <1>2 DEF SseInv, SseTypes, BreaksIs
<1>4. ASSUME sub = "reading" PROVE OnTheWay'
  <2>1. PICK P \in Positions, Q \in Positions : OnItsWay(P, Q)
    BY <1>4 DEF SseInv, Carries, OnTheWay
  <2>. DEFINE owed == AtEnd(parser).items
              was == AtEnd(parser).to.reported
              L == inHand \o owed
  <2>2. /\ Path(wire, P, Q) /\ Fits(parser, P) /\ (wireEnd = "open" => Q = Between(server.at))
        /\ InOrder(L, seen, lastId) /\ UpTo(L, seen, lastId, P.at, was) /\ owed \in Seq(Items)
    BY <2>1 DEF OnItsWay, Fits
  <2>. HIDE DEF owed, was
  <2>3. Tail(L) = Tail(inHand) \o owed /\ L # <<>> /\ L[1] = x
    BY <1>1, <2>2, TailJoins
  <2>. HIDE DEF L
  <2>4. InOrder(Tail(L), seen', lastId') /\ UpTo(Tail(L), seen', lastId', P.at, was)
    BY <1>1, <2>2, <2>3, HandsOne
  <2>5. InOrder(Tail(inHand) \o owed, seen', lastId') /\ UpTo(Tail(inHand) \o owed, seen', lastId', P.at, was)
    BY <2>3, <2>4
  <2>6. wireEnd' = "open" => Q = Between(server'.at)
    BY <2>2
  <2>. QED
    BY <2>2, <2>5, <2>6, OnGoes DEF owed, was
<1>5. ASSUME sub # "reading" PROVE InOrder(inHand, seen, lastId)'
  <2>1. InOrder(inHand, seen, lastId)
    BY <1>1, <1>5 DEF SseInv, Carries
  <2>. QED
    BY <1>1, <2>1, HandsOne
<1>6. Carries'
  BY <1>1, <1>4, <1>5 DEF Carries
<1>7. Unheard'
  BY <1>1 DEF SseInv, Unheard
<1>. QED
  BY <1>3, <1>6, <1>7 DEF SseInv

LEMMA FirstInHand ==
  ASSUME SseInv, Handing
  PROVE  /\ Head(inHand) = inHand[1] /\ inHand[1] \in Items
         /\ Advances(inHand[1]) => ItemIs(inHand[1], lastId) /\ ItemFollows(inHand, 1, seen)
<1>1. sub \in {"reading", "draining", "oversized"} /\ inHand # <<>> /\ inHand \in Seq(Items)
  BY DEF SseInv, Handing, SseTypes
<1>2. 1 \in 1 .. Len(inHand) /\ Head(inHand) = inHand[1] /\ inHand[1] \in Items
  BY <1>1, EmptySeq
<1>3. InOrder(inHand, seen, lastId)
  <2>1. CASE sub = "reading"
    <3>1. PICK P \in Positions, Q \in Positions : OnItsWay(P, Q)
      BY <2>1 DEF SseInv, Carries, OnTheWay
    <3>2. InOrder(inHand \o AtEnd(parser).items, seen, lastId) /\ AtEnd(parser).items \in Seq(Items)
      BY <3>1 DEF OnItsWay, Fits
    <3>. QED
      BY <1>1, <3>2, FrontInOrder
  <2>2. CASE sub # "reading"
    BY <1>1, <2>2 DEF SseInv, Carries
  <2>. QED
    BY <2>1, <2>2
<1>. QED
  BY <1>2, <1>3 DEF InOrder

LEMMA HandsEventKeeps == ASSUME SseInv, HandsEvent PROVE SseInv'
<1>. DEFINE x == inHand[1]
            n == x.n
<1>1. Handing /\ Head(inHand) = x /\ x \in Items
  BY FirstInHand DEF HandsEvent
<1>2. /\ x.kind = "Event" /\ lastId' = x.id /\ inHand' = Tail(inHand)
      /\ seen' = (IF x.lines = Feed[n].lines THEN seen \cup {n} ELSE seen)
      /\ again' = (IF n \in seen THEN again \cup {n} ELSE again)
      /\ UNCHANGED <<server, breaks, cap, wire, wireEnd, parser, sub, wait, established>>
  BY <1>1 DEF HandsEvent, serverSide
<1>3. Advances(x) /\ Place(x) = n
  BY <1>2 DEF Advances, Place
<1>4. ItemIs(x, lastId) /\ ItemFollows(inHand, 1, seen)
  BY <1>1, <1>3, FirstInHand
<1>. HIDE DEF x
<1>5. /\ n \in Places /\ Feed[n].kind = "Event" /\ x.lines = Feed[n].lines /\ (Feed[n].id => x.id = n)
      /\ lastId < n /\ lastId <= x.id /\ x.id <= n
  BY <1>2, <1>3, <1>4 DEF ItemIs
<1>6. \A e \in Events : e < n => e \in seen
  <2>1. \A e \in Events : e < Place(inHand[1]) => e \in seen \/ \E i \in 1 .. 1 - 1 : Gives(inHand, i, e)
    BY <1>4 DEF ItemFollows
  <2>2. \A i \in 1 .. 1 - 1 : FALSE
    OBVIOUS
  <2>. QED
    BY <1>3, <2>1, <2>2 DEF x
<1>7. seen' = seen \cup {n} /\ n \in Events /\ n \in Nat /\ x.id \in Nat /\ lastId \in Nat /\ Len(Feed) \in Nat
      /\ Places = 1 .. Len(Feed)
  BY <1>1, <1>2, <1>5, ItemTyped, FeedIs DEF Events, SseInv, Kept, SeenKept
<1>. HIDE DEF n
<1>8. SeenKept(seen, again, lastId) /\ Events \subseteq Nat
  BY EventsAre DEF SseInv, Kept
<1>9. x.id \in 0 .. Len(Feed)
  BY <1>5, <1>7
<1>10. \A k \in seen' : \A m \in Events : m < k => m \in seen'
  BY <1>6, <1>7, <1>8 DEF SeenKept
<1>11. \A m \in Events : m <= x.id => m \in seen'
  <2>1. ASSUME NEW m \in Events, m <= x.id PROVE m < n \/ m = n
    <3>. DEFINE i == x.id
    <3>1. m \in Nat /\ i \in Nat /\ n \in Nat /\ m <= i /\ i <= n
      BY <1>5, <1>7, <1>8, <2>1
    <3>. HIDE DEF i
    <3>. QED
      BY <3>1
  <2>. QED
    BY <1>6, <1>7, <2>1
<1>12. \A k \in seen' : Feed[k].id => k <= x.id
  <2>1. ASSUME NEW k \in seen, Feed[k].id PROVE k <= x.id
    <3>1. k <= lastId /\ k \in Nat
      BY <1>8, <2>1 DEF SeenKept
    <3>. QED
      BY <1>5, <1>7, <3>1
  <2>2. Feed[n].id => n <= x.id
    BY <1>5, <1>7
  <2>. QED
    BY <1>7, <2>1, <2>2
<1>13. \A k \in again' : ~Feed[k].id
  <2>1. ASSUME n \in seen PROVE ~Feed[n].id
    BY <1>5, <1>7, <1>8, <2>1 DEF SeenKept
  <2>2. \A k \in again : ~Feed[k].id
    BY <1>8 DEF SeenKept
  <2>. QED
    BY <1>2, <2>1, <2>2
<1>14. Kept'
  BY <1>2, <1>7, <1>8, <1>9, <1>10, <1>11, <1>12, <1>13 DEF Kept, SeenKept
<1>15. WaitIs'
  BY <1>2 DEF SseInv, WaitIs
<1>16. seen \subseteq seen' /\ n \in seen'
  BY <1>7
<1>. QED
  BY <1>1, <1>2, <1>3, <1>14, <1>15, <1>16, HandingKeeps DEF x, n

LEMMA WindowIs == \A t \in Nat : Within(t) \in MinimumReconnect .. MaximumReconnect
BY ReconnectAssumption DEF Within

LEMMA TakesRetryKeeps == ASSUME SseInv, TakesRetry PROVE SseInv'
<1>. DEFINE x == inHand[1]
<1>1. Handing /\ Head(inHand) = x /\ x \in Items
  BY FirstInHand DEF TakesRetry
<1>2. /\ x.kind = "Retry" /\ wait' = Within(x.n) /\ inHand' = Tail(inHand)
      /\ UNCHANGED <<server, breaks, cap, wire, wireEnd, parser, sub, lastId, established, seen, again>>
  BY <1>1 DEF TakesRetry, serverSide, history
<1>3. ~Advances(x) /\ x.n \in Nat
  BY <1>1, <1>2 DEF Advances, Items
<1>. HIDE DEF x
<1>4. WaitIs'
  BY <1>2, <1>3, WindowIs DEF WaitIs
<1>5. Kept'
  BY <1>2 DEF SseInv, Kept
<1>. QED
  BY <1>1, <1>2, <1>3, <1>4, <1>5, HandingKeeps DEF x

LEMMA MovesOnKeeps == ASSUME SseInv, MovesOn PROVE SseInv'
<1>. DEFINE x == inHand[1]
<1>1. Handing /\ Head(inHand) = x /\ x \in Items
  BY FirstInHand DEF MovesOn
<1>2. /\ x.kind = "Checkpoint" /\ lastId' = x.id /\ inHand' = Tail(inHand)
      /\ UNCHANGED <<server, breaks, cap, wire, wireEnd, parser, sub, wait, established, seen, again>>
  BY <1>1 DEF MovesOn, serverSide, history
<1>3. Advances(x) /\ Place(x) = x.id
  BY <1>2 DEF Advances, Place
<1>4. ItemIs(x, lastId) /\ ItemFollows(inHand, 1, seen)
  BY <1>1, <1>3, FirstInHand
<1>5. \A e \in Events : e < x.id => e \in seen
  <2>1. \A e \in Events : e < Place(inHand[1]) => e \in seen \/ \E i \in 1 .. 1 - 1 : Gives(inHand, i, e)
    BY <1>4 DEF ItemFollows
  <2>2. \A i \in 1 .. 1 - 1 : FALSE
    OBVIOUS
  <2>. QED
    BY <1>3, <2>1, <2>2
<1>. HIDE DEF x
<1>6. x.id \in Places /\ Feed[x.id].kind = "Checkpoint" /\ lastId < x.id
  BY <1>2, <1>3, <1>4 DEF ItemIs
<1>. DEFINE n == x.id
<1>7. n \in Nat /\ n \in 0 .. Len(Feed) /\ n \notin Events /\ Events \subseteq Nat /\ lastId \in Nat
  BY <1>6, FeedIs, EventsAre DEF SseInv, Kept, SeenKept
<1>. HIDE DEF n
<1>8. SeenKept(seen, again, lastId) /\ lastId < n /\ lastId' = n /\ seen' = seen /\ again' = again
      /\ \A e \in Events : e < n => e \in seen
  BY <1>2, <1>5, <1>6 DEF n, SseInv, Kept
<1>9. \A m \in Events : m <= n => m \in seen
  BY <1>7, <1>8
<1>10. \A k \in seen : Feed[k].id => k <= n
  BY <1>7, <1>8 DEF SeenKept
<1>11. SeenKept(seen, again, n)
  BY <1>7, <1>8, <1>9, <1>10 DEF SeenKept
<1>12. Kept'
  BY <1>8, <1>11 DEF Kept
<1>13. WaitIs'
  BY <1>2 DEF SseInv, WaitIs
<1>. QED
  BY <1>1, <1>2, <1>3, <1>12, <1>13, HandingKeeps DEF x

LEMMA SseStarts == ASSUME SseInit PROVE SseInv
<1>1. /\ BreaksIs /\ server = NoResponse /\ wire = <<>> /\ wireEnd = "open" /\ sub = "connecting" /\ inHand = <<>>
      /\ seen = {} /\ again = {} /\ lastId = 0 /\ wait = Reconnect /\ established = FALSE
  BY DEF SseInit, BreaksIs
<1>2. SseTypes
  <2>1. <<>> \in Seq(Marks) /\ <<>> \in Seq(Items)
    OBVIOUS
  <2>. QED
    BY <1>1, <2>1, NoServer DEF SseTypes
<1>3. Kept
  <2>1. \A m \in Events : ~(m <= 0)
    BY EventsAre, FeedIs
  <2>. QED
    BY <1>1, <2>1, FeedIs DEF Kept, SeenKept
<1>4. Carries /\ WaitIs /\ Unheard
  BY <1>1 DEF Carries, WaitIs, Unheard
<1>. QED
  BY <1>2, <1>3, <1>4 DEF SseInv

LEMMA SseStays == ASSUME SseInv, SseNext \/ UNCHANGED sseVars PROVE SseInv'
<1>1. CASE Produces \/ Sends \/ Beats \/ EventStreamEnds \/ Cut
  BY <1>1, ProducesKeeps, SendsKeeps, BeatsKeeps, StreamEndsKeeps, CutKeeps
<1>2. CASE ReadsChunk \/ StreamOver \/ Subscribes \/ CallerLeaves
  BY <1>2, ReadsKeeps, StreamOverKeeps, SubscribesKeeps, CallerLeavesKeeps
<1>3. CASE AttemptFails \/ NotAnEventStream \/ TooBig \/ Drops \/ Sleeps
  BY <1>3, IdleKeeps
<1>4. CASE HandsEvent \/ TakesRetry \/ MovesOn
  BY <1>4, HandsEventKeeps, TakesRetryKeeps, MovesOnKeeps
<1>5. CASE UNCHANGED sseVars
  <2>1. UNCHANGED <<cap, breaks, server, wire, wireEnd, parser, sub, subscriber, inHand, history>>
    BY <1>5 DEF sseVars, serverSide
  <2>2. SseTypes'
    BY <2>1 DEF SseInv, SseTypes, BreaksIs
  <2>3. sub = "reading" => OnTheWay'
    BY <2>1, StaysOnItsWay DEF subscriber, history
  <2>. QED
    BY <2>1, <2>2, <2>3, SubscriberKeeps
<1>. QED
  BY <1>1, <1>2, <1>3, <1>4, <1>5 DEF SseNext

LEMMA SseGives == ASSUME SseInv PROVE ResumesWithoutGap
BY DEF SseInv, Kept, SeenKept, WaitIs, Unheard, ResumesWithoutGap

(* However often and wherever the stream is cut, in chunks of any size, the   *)
(* caller gets the feed without a gap, an event that carries an id just once, *)
(* and a connection never resumes past an event that was not handed over.     *)
THEOREM FeedResumes == SseSpec => []ResumesWithoutGap
<1>1. SseInit => SseInv
  BY SseStarts
<1>2. SseInv /\ [SseNext]_sseVars => SseInv'
  BY SseStays
<1>3. SseInv => ResumesWithoutGap
  BY SseGives
<1>. QED
  BY <1>1, <1>2, <1>3, PTL DEF SseSpec
=============================================================================
