----------------------------- MODULE MCServices -----------------------------
(* The components that share no state, checked beside one another: a behaviour *)
(* picks one and runs it while the rest stand still, so the state space is the *)
(* sum of theirs and not the product.                                         *)
EXTENDS HttpPool, Http2Client, HttpServer, DagDriver, TaskLimiter, ThreadBridge,
        StreamWiring, EventStream,
        Compression, WebsocketServer, H2Server, AsgiExchange, ClientMiddleware,
        BodyCoding, Routing, CommandLine,
        FileServing, Logging, Lifespan, TLC

CONSTANTS a, b, s, t, u, k1, k2, k3, k4, k5, in1, in2

VARIABLE focus

(* Two inputs; a diamond with a longer arm, whose last node also reads an     *)
(* input that was read before, and a node nobody reads.                       *)
MCDeps == [n \in {k1, k2, k3, k4, k5} |->
            CASE n = k1 -> {in1}
              [] n = k2 -> {k1}
              [] n = k3 -> {k1, in2}
              [] n = k4 -> {k2, k3, in1}
              [] n = k5 -> {k3}]

(* Events with an id and without, a retry hint beyond its window, and an id   *)
(* that comes with no event.                                                  *)
Frame(what, id, size, pause) == [kind |-> what, id |-> id, lines |-> size, after |-> pause]
MCFeed == <<Frame("Event", TRUE, 1, 0), Frame("Event", FALSE, 2, 0), Frame("Retry", FALSE, 0, 9),
            Frame("Checkpoint", TRUE, 0, 0), Frame("Event", TRUE, 1, 0)>>
MCAvailable == <<"br", "gz">>

(* The pairs of frames that meet in the server: two that end a stream, a body *)
(* and its end, and the two windows a sender may be waiting for.              *)
MCTogether == {<<"request", "reset">>, <<"reset", "reset">>, <<"data", "end">>,
               <<"window", "connWindow">>}

(* One origin at three ports, the last of them in clear; a host below it and  *)
(* one beside it. A path that another one begins with, and one below it.      *)
Url(scheme, site, port, path) == [scheme |-> scheme, host |-> site, port |-> port, path |-> path]
MCUrls == {Url("https", <<"shop", "ex">>, 443, <<"/", "a">>),
           Url("https", <<"shop", "ex">>, 8443, <<"/", "a", "b">>),
           Url("http", <<"shop", "ex">>, 80, <<"/", "a", "/", "b">>),
           Url("https", <<"api", "shop", "ex">>, 443, Slash),
           Url("http", <<"evil", "ex">>, 80, <<"/", "a">>)}

(* Cookies of a host and of a domain, one for every site, and one that goes.  *)
SetCookie(domain, path, secure, expires, deletes) ==
    [domain |-> domain, path |-> path, secure |-> secure, expires |-> expires, deletes |-> deletes]
MCSetCookies == {SetCookie(<<>>, <<>>, FALSE, Never, FALSE),
                 SetCookie(<<"shop", "ex">>, <<"/", "a">>, TRUE, 1, FALSE),
                 SetCookie(<<"ex">>, Slash, FALSE, Never, FALSE),
                 SetCookie(<<"shop", "ex">>, <<"/", "a">>, FALSE, Never, TRUE)}
MCHandCookies == {[domain |-> <<"api", "shop", "ex">>, path |-> Slash, secure |-> TRUE,
                   hostOnly |-> FALSE, expires |-> Never, by |-> ByHand]}

(* Routes that meet at a literal, at converters of both ranks and at the rest, *)
(* and an application mounted beside them; two of them, and three in order.   *)
MCRoute(verb, segments, early) ==
    [what |-> "route", verb |-> verb, segments |-> segments, streams |-> early]
MCEntries ==
    <<MCRoute("GET", <<Lit("u"), Lit("me")>>, FALSE),
     MCRoute("POST", <<Lit("u"), Lit("me")>>, TRUE),
     MCRoute("GET", <<Lit("u"), Par("id", "int")>>, FALSE),
     MCRoute("POST", <<Lit("u"), Par("id", "str")>>, TRUE),
     MCRoute("GET", <<Lit("u"), Par("id", "slug"), Lit("7")>>, FALSE),
     MCRoute("GET", <<Par("what", "str"), Lit("me")>>, FALSE),
     MCRoute("GET", <<Lit("u"), Rest("rest", "slug")>>, FALSE),
     MCRoute("GET", <<Rest("rest", "path"), Lit("me")>>, FALSE),
     [what |-> "delegate", verb |-> "none", segments |-> <<Lit("u")>>, streams |-> FALSE]>>
MCTables ==
    LET one == 1 .. Len(MCEntries)
    IN  {<<MCEntries[x[1]], MCEntries[x[2]]>> : x \in {y \in one \X one : y[1] # y[2]}}
          \cup {<<MCEntries[x[1]], MCEntries[x[2]], MCEntries[x[3]]>> :
                    x \in {y \in one \X one \X one : y[1] < y[2] /\ y[2] < y[3]}}
MCPaths == UNION {[1 .. n -> {"u", "me", "7", ""}] : n \in 0 .. 3}

(* A program and its command, each with a -v and the program with a --version *)
(* of its own; values in the word, behind it and at the end of a cluster.     *)
MCOption(names, valued, cardinality, sourced) ==
    [names |-> names, valued |-> valued, cardinality |-> cardinality, sourced |-> sourced]
MCTree == [prog |-> [options |-> {MCOption({"-d", "--dsn"}, TRUE, "optional", TRUE),
                                  MCOption({"-v", "--version"}, FALSE, "many", FALSE)},
                     children |-> {"add"}],
           add |-> [options |-> {MCOption({"-t", "--tag"}, TRUE, "many", FALSE),
                                 MCOption({"-v"}, FALSE, "many", FALSE)},
                    children |-> {}]]
MCBare(text) == [kind |-> "bare", text |-> text]
MCLong(name, held) == [kind |-> "long", name |-> name, inline |-> held]
MCCluster(letters) == [kind |-> "short", letters |-> letters]
MCArgTokens == {MCBare("add"), MCBare("x"), [kind |-> "separator"],
                MCLong("--tag", FALSE), MCLong("--tag", TRUE), MCLong("--version", FALSE),
                MCLong("--dsn", FALSE), MCCluster(<<"-h">>), MCCluster(<<"-v", "-t">>),
                MCCluster(<<"-v", "-d", "-v">>)}

(* Ranges inside the file, beyond its end, across it, turned round and empty. *)
MCRange(sort, m, n) == [kind |-> sort, first |-> m, last |-> n]
MCSpecs == {MCRange("span", 1, 1), MCRange("span", 1, 5), MCRange("span", 2, 1),
            MCRange("from", 3, 0), MCRange("suffix", 0, 2), MCRange("suffix", 0, 4),
            MCRange("suffix", 0, 0)}

OfClient == {"pool", "h2", "middleware", "decompress", "compressing"}
OfServer == {"server", "websocket", "h2server", "asgi", "sse", "compression", "files",
             "lifespan"}
OfTasks == {"dag", "limiter", "blocking", "offload", "wiring", "sample", "capture", "rotation"}
OfPrograms == {"routing", "commandline", "lines"}
Components == OfClient \cup OfServer \cup OfTasks \cup OfPrograms

clientVars == <<poolVars, h2Vars, cmVars, downloadVars, uploading>>
servingVars == <<serverVars, wsVars, h2sVars, asgiVars, sseVars, compVars, fileVars, lsVars>>
taskVars == <<dagVars, limiterVars, bridgeVars, streamVars, captureVars, rotateVars>>
programVars == <<routingVars, cliVars, lineVars>>
vars == <<focus, clientVars, servingVars, taskVars, programVars>>

(* Where a component starts in more ways than one, the others see one of them. *)
Init ==
    /\ focus \in Components
    /\ CodingInit
    /\ focus # "decompress" => codec = "gzip" /\ encoded = <<>>
    /\ focus # "compressing" => uploading = CHOOSE x \in Uploads : TRUE
    /\ IF focus = "routing" THEN TRUE ELSE entries = CHOOSE x \in Tables : TRUE
    /\ RoutingInit
    /\ CliInit
    /\ focus # "commandline" => layout = <<>>
    /\ FilesInit
    /\ focus # "files" => helper = "handed" /\ versions[1].size = 0
    /\ H2Init
    /\ focus # "h2" => limit = CHOOSE n \in Limits : TRUE
    /\ SseInit
    /\ focus # "sse" => cap = 2 /\ breaks = <<LF>>
    /\ CompInit
    /\ focus # "compression" => weigh /\ chunked
    /\ WsInit
    /\ focus # "websocket" => allowed = Uncapped
    /\ PoolInit /\ ServerInit /\ DagInit /\ LimiterInit /\ BridgeInit /\ StreamInit
    /\ H2sInit /\ AsgiInit /\ CmInit
    /\ LinesInit /\ CaptureInit /\ RotateInit
    /\ LsInit
    /\ focus # "lifespan" => appKind = "ours"

Idle(c, tuple) == IF focus = c THEN TRUE ELSE UNCHANGED tuple

Others ==
    /\ UNCHANGED focus
    /\ IF focus \in OfClient
       THEN /\ Idle("pool", poolVars) /\ Idle("h2", h2Vars) /\ Idle("middleware", cmVars)
            /\ Idle("decompress", downloadVars) /\ Idle("compressing", uploading)
       ELSE UNCHANGED clientVars
    /\ IF focus \in OfServer
       THEN /\ Idle("server", serverVars) /\ Idle("websocket", wsVars)
            /\ Idle("h2server", h2sVars) /\ Idle("asgi", asgiVars) /\ Idle("sse", sseVars)
            /\ Idle("compression", compVars) /\ Idle("files", fileVars)
            /\ Idle("lifespan", lsVars)
       ELSE UNCHANGED servingVars
    /\ IF focus \in OfTasks
       THEN /\ Idle("dag", dagVars) /\ Idle("limiter", limiterVars)
            /\ Idle("blocking", blockingVars) /\ Idle("offload", offloadVars)
            /\ Idle("wiring", wiringVars) /\ Idle("sample", sampleVars)
            /\ Idle("capture", captureVars) /\ Idle("rotation", rotateVars)
       ELSE UNCHANGED taskVars
    /\ IF focus \in OfPrograms
       THEN /\ Idle("routing", routingVars) /\ Idle("commandline", cliVars)
            /\ Idle("lines", lineVars)
       ELSE UNCHANGED programVars

Next ==
    \/ focus = "pool" /\ Others /\ PoolNext
    \/ focus = "h2" /\ Others /\ H2Next
    \/ focus = "server" /\ Others /\ ServerNext
    \/ focus = "dag" /\ Others /\ DagNext
    \/ focus = "limiter" /\ Others /\ LimiterNext
    \/ focus = "blocking" /\ Others /\ BlockingNext
    \/ focus = "offload" /\ Others /\ OffloadNext
    \/ focus = "wiring" /\ Others /\ WiringNext
    \/ focus = "sample" /\ Others /\ SampleNext
    \/ focus = "sse" /\ Others /\ SseNext
    \/ focus = "compression" /\ Others /\ CompNext
    \/ focus = "websocket" /\ Others /\ WsNext
    \/ focus = "h2server" /\ Others /\ H2sNext
    \/ focus = "asgi" /\ Others /\ AsgiNext
    \/ focus = "middleware" /\ Others /\ CmNext
    \/ focus = "decompress" /\ Others /\ DownloadNext
    \/ focus = "compressing" /\ Others /\ UploadNext
    \/ focus = "routing" /\ Others /\ RoutingNext
    \/ focus = "commandline" /\ Others /\ CliNext
    \/ focus = "lines" /\ Others /\ LinesNext
    \/ focus = "files" /\ Others /\ FilesNext
    \/ focus = "lifespan" /\ Others /\ LsNext
    \/ focus = "capture" /\ Others /\ CaptureNext
    \/ focus = "rotation" /\ Others /\ RotateNext

(* Two states differ where the component that runs does: the others have not  *)
(* left their one initial state.                                              *)
Watched ==
    CASE focus = "h2" -> <<focus, h2Vars>>
      [] focus = "files" -> <<focus, fileVars>>
      [] focus = "h2server" -> <<focus, h2sVars>>
      [] focus = "asgi" -> <<focus, asgiVars>>
      [] focus = "compression" -> <<focus, compVars>>
      [] focus = "sse" -> <<focus, sseVars>>
      [] focus = "routing" -> <<focus, routingVars>>
      [] focus = "pool" -> <<focus, poolVars>>
      [] focus = "commandline" -> <<focus, cliVars>>
      [] focus = "websocket" -> <<focus, wsVars>>
      [] focus = "rotation" -> <<focus, rotateVars>>
      [] focus = "server" -> <<focus, serverVars>>
      [] focus = "dag" -> <<focus, dagVars>>
      [] focus = "limiter" -> <<focus, limiterVars>>
      [] focus = "blocking" -> <<focus, blockingVars>>
      [] focus = "offload" -> <<focus, offloadVars>>
      [] focus = "wiring" -> <<focus, wiringVars>>
      [] focus = "sample" -> <<focus, sampleVars>>
      [] focus = "middleware" -> <<focus, cmVars>>
      [] focus = "decompress" -> <<focus, downloadVars>>
      [] focus = "compressing" -> <<focus, uploading>>
      [] focus = "lines" -> <<focus, lineVars>>
      [] focus = "lifespan" -> <<focus, lsVars>>
      [] focus = "capture" -> <<focus, captureVars>>

(* Properties of several components, or in several parts; each is asked of    *)
(* the component that runs.  A client's bodies end whole or raise, and the    *)
(* credit of what was read comes back; secrets stay with their origin; coded  *)
(* bodies come out whole.                                                     *)
ClientIsSound ==
    /\ focus = "h2" => WholeOrRaised /\ CreditComesBack
    /\ focus = "middleware" => CredentialsStayHome
    /\ focus \in {"decompress", "compressing"} => CodedWhole

(* What is pulled, offloaded, fanned out, sampled or logged reaches whom it   *)
(* is for, or is accounted for.                                               *)
StreamsDeliver ==
    /\ focus = "limiter" => PulledIsAccountedFor
    /\ focus \in {"blocking", "offload"} => NothingStranded
    /\ focus \in {"wiring", "sample"} => EverySinkSeesAll
    /\ focus = "capture" => LogIsAccountedFor
    /\ focus = "rotation" => RotationHolds

(* WebSocket sessions, HTTP/2 connections, HTTP/1.1 exchanges and the         *)
(* application's lifespan keep theirs.                                        *)
ServerIsSound ==
    /\ focus = "websocket" => SessionIsTold
    /\ focus = "h2server" => ConnectionIsSound
    /\ focus = "asgi" => ExchangesAreSound
    /\ focus = "lifespan" => LifespanIsKept

(* Coded responses and files are what their headers say.                      *)
AnnouncedIsSent ==
    /\ focus = "compression" => EncodedAsAgreed
    /\ focus = "files" => FilesAreSound

(* Every token of a command line has one reading, and every line comes once.  *)
CommandLineIsSound ==
    /\ focus = "commandline" => LineIsAccountedFor
    /\ focus = "lines" => LinesComeWhole

(* Callers a and b play the same part everywhere.                             *)
Alike == Permutations({a, b})

Spec == Init /\ [][Next]_vars
=============================================================================
