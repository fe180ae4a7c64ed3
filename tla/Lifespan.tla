------------------------------ MODULE Lifespan ------------------------------
(* The ASGI lifespan: run_lifespan (without_http/lifespan.py) on the server's *)
(* side, holding the application in a task of its own, and _drive with the    *)
(* cell that requests read (without_asgi/app.py) on the side of an application *)
(* make_asgi_app built.  Another framework's application may do as it likes.  *)
EXTENDS Naturals, Sequences

VARIABLES
    appKind,     \* "ours" or "foreign"
    host,        \* where run_lifespan is
    post,        \* what `receive' has yet to give
    appTask,     \* the application's: "ready", "entering", "up", "leaving", or its end
    resource,    \* the lifespan's context: "unset", "held", "torn"
    cell,        \* _Cell has its value
    started,     \* the events, and whether `failure' has an entry
    lsFinished,
    failure,
    served,      \* the block of run_lifespan has begun
    unready      \* a request found the cell empty

lsVars == <<appKind, host, post, appTask, resource, cell, started, lsFinished, failure,
            served, unready>>
ackVars == <<started, lsFinished, failure>>
stateVars == <<resource, cell>>

LsInit ==
    /\ appKind \in {"ours", "foreign"}
    /\ host = "starting"
    /\ post = <<"startup">>
    /\ appTask = "ready"
    /\ resource = "unset" /\ cell = FALSE
    /\ started = FALSE /\ lsFinished = FALSE /\ failure = FALSE
    /\ served = FALSE /\ unready = FALSE

TaskIsOver == {"returned", "raised", "cancelled"}

-----------------------------------------------------------------------------
(* _drive.                                                                    *)
Mine == appKind = "ours" /\ UNCHANGED <<appKind, host, served, unready>>

GetsEvent ==
    /\ Mine /\ appTask \in {"ready", "up"} /\ post # <<>>
    /\ post' = Tail(post)
    /\ appTask' = IF Head(post) = "startup" THEN "entering" ELSE "leaving"
    /\ UNCHANGED <<stateVars, ackVars>>

EntersContext ==
    /\ Mine /\ appTask = "entering"
    /\ resource' = "held" /\ cell' = TRUE
    /\ started' = TRUE
    /\ appTask' = "up"
    /\ UNCHANGED <<post, lsFinished, failure>>

EnterFails ==
    /\ Mine /\ appTask = "entering"
    /\ failure' = TRUE /\ started' = TRUE
    /\ appTask' = "returned"
    /\ UNCHANGED <<post, stateVars, lsFinished>>

(* The context is left whether or not leaving it raises.                      *)
LeavesContext ==
    /\ Mine /\ appTask = "leaving"
    /\ resource' = "torn"
    /\ lsFinished' = TRUE
    /\ failure' \in {failure, TRUE}
    /\ appTask' = "returned"
    /\ UNCHANGED <<post, cell, started>>

(* Any other application: it may raise at once, answer and carry on, or end.  *)
Theirs ==
    /\ appKind = "foreign" /\ appTask \notin TaskIsOver
    /\ UNCHANGED <<appKind, host, served, unready, stateVars>>

ForeignEnds ==
    /\ Theirs
    /\ appTask' \in {"returned", "raised"}
    /\ UNCHANGED <<post, ackVars>>

ForeignGets ==
    /\ Theirs /\ post # <<>>
    /\ post' = Tail(post)
    /\ UNCHANGED <<appTask, ackVars>>

ForeignReplies ==
    /\ Theirs
    /\ \/ started' = TRUE /\ UNCHANGED lsFinished
       \/ lsFinished' = TRUE /\ UNCHANGED started
    /\ failure' \in {failure, TRUE}
    /\ UNCHANGED <<post, appTask>>

-----------------------------------------------------------------------------
(* run_lifespan: the first wait ends with the event or with the task, and the *)
(* event counts when both are there.                                          *)
Hosting == UNCHANGED <<appKind, resource, cell, ackVars, unready>>

StartupHeard ==
    /\ host = "starting" /\ started
    /\ host' = IF failure THEN "refusing" ELSE "serving"
    /\ served' = (served \/ ~failure)
    /\ Hosting /\ UNCHANGED <<post, appTask>>

Unsupported ==
    /\ host = "starting" /\ ~started /\ appTask \in TaskIsOver
    /\ host' = "serving without"
    /\ served' = TRUE
    /\ Hosting /\ UNCHANGED <<post, appTask>>

RequestArrives ==
    /\ host \in {"serving", "serving without"}
    /\ unready' = (unready \/ (appKind = "ours" /\ ~cell))
    /\ UNCHANGED <<appKind, host, post, appTask, stateVars, ackVars, served>>

(* A startup that failed is raised once the task is over, however long that is.*)
RaisesStartup ==
    /\ host = "refusing" /\ appTask \in TaskIsOver
    /\ host' = "failed"
    /\ Hosting /\ UNCHANGED <<post, appTask, served>>

(* The block ends, by itself, by a failure or by the server's cancellation.   *)
BlockEnds ==
    /\ host = "serving"
    /\ host' = "stopping"
    /\ post' = Append(post, "shutdown")
    /\ Hosting /\ UNCHANGED <<appTask, served>>

BlockEndsWithout ==
    /\ host = "serving without"
    /\ host' = "over"
    /\ Hosting /\ UNCHANGED <<post, appTask, served>>

ShutdownHeard ==
    /\ host = "stopping" /\ (lsFinished \/ appTask \in TaskIsOver)
    /\ host' = "joining"
    /\ Hosting /\ UNCHANGED <<post, appTask, served>>

(* What the task raised comes before what it reported.                        *)
JoinsTask ==
    /\ host = "joining" /\ appTask \in TaskIsOver
    /\ host' = IF failure \/ appTask # "returned" THEN "failed" ELSE "over"
    /\ Hosting /\ UNCHANGED <<post, appTask, served>>

(* A cancellation of a wait leaves the task to itself; one of a join is the   *)
(* task's, whose stack is unwound on its way out.                             *)
CancelledInWait ==
    /\ host \in {"starting", "stopping"}
    /\ host' = "cancelled"
    /\ Hosting /\ UNCHANGED <<post, appTask, served>>

CancelledInJoin ==
    /\ host \in {"refusing", "joining"} /\ appTask \notin TaskIsOver
    /\ host' = "failed"
    /\ appTask' = "cancelled"
    /\ resource' = IF resource = "held" THEN "torn" ELSE resource
    /\ UNCHANGED <<appKind, post, cell, ackVars, served, unready>>

LsNext ==
    \/ GetsEvent \/ EntersContext \/ EnterFails \/ LeavesContext
    \/ ForeignEnds \/ ForeignGets \/ ForeignReplies
    \/ StartupHeard \/ Unsupported \/ RequestArrives \/ RaisesStartup
    \/ BlockEnds \/ BlockEndsWithout \/ ShutdownHeard \/ JoinsTask
    \/ CancelledInWait \/ CancelledInJoin

-----------------------------------------------------------------------------
(* Nobody is served before the application's context is there or after it is  *)
(* gone, a startup it reports as failed serves nobody, and a lifespan it does *)
(* run is never taken for one it does not support.  The host ends with the    *)
(* task ended and the context left, and says so when either half failed,      *)
(* unless it was itself cancelled while it waited.                            *)
LifespanIsKept ==
    /\ ~unready
    /\ appKind = "ours" =>
        /\ host = "serving" => resource = "held" /\ appTask = "up"
        /\ host # "serving without"
        /\ served => cell
        /\ host \in {"over", "failed"} => resource # "held"
    /\ host \in {"over", "failed"} => appTask \in TaskIsOver
    /\ host = "over" /\ started => ~failure
=============================================================================
