------------------------------ MODULE MCStores ------------------------------
(* What outlives a process, and the worker's word to it: the queue scored by  *)
(* visibility, the stores in SQLite, Postgres and Redis, the queue as a Redis *)
(* stream, and the windows a pass asks for.  A behaviour picks one and runs   *)
(* it while the rest stand still: the state space is the sum of theirs.       *)
EXTENDS VisibilityQueue, SqliteStore, PostgresStore, RedisStream, RedisCheckpointer, Extending, TLC

CONSTANTS
    p1, p2, w1, w2, n1, n2, f1, f2, f3, k1,
    Components                  \* those a run looks at

(* Two workers and two workflows at the queue: every race here is between two *)
(* deliveries of one workflow, and a second workflow only adds the choice of  *)
(* which is taken first.                                                      *)
MCWorkers == {p1, p2}
MCWorkflows == {w1, w2}
MCDelays == {1, 2}

VARIABLE focus

storesVars == <<focus, vars, sqliteVars, pgVars, rsVars, rcVars, extVars>>

(* Where a component starts in more ways than one, the others see one of them. *)
StoresInit ==
    /\ focus \in Components
    /\ Init /\ SqliteInit /\ PgInit /\ RsInit /\ RcInit
    /\ ExtInit
    /\ focus # "extending" => driver = "worker" /\ instant = 0

Idle(c, tuple) == IF focus = c THEN TRUE ELSE UNCHANGED tuple

Others ==
    /\ UNCHANGED focus
    /\ Idle("queue", vars) /\ Idle("sqlite", sqliteVars) /\ Idle("postgres", pgVars)
    /\ Idle("redis", rsVars) /\ Idle("rediscp", rcVars) /\ Idle("extending", extVars)

StoresNext ==
    \/ focus = "queue" /\ Others /\ Next
    \/ focus = "sqlite" /\ Others /\ SqliteNext
    \/ focus = "postgres" /\ Others /\ PgNext
    \/ focus = "redis" /\ Others /\ RsNext
    \/ focus = "rediscp" /\ Others /\ RcNext
    \/ focus = "extending" /\ Others /\ ExtNext

(* Two states differ where the component that runs does: the others have not  *)
(* left their one initial state.                                              *)
StoresView ==
    CASE focus = "queue" -> <<focus, vars>>
      [] focus = "sqlite" -> <<focus, sqliteVars>>
      [] focus = "postgres" -> <<focus, pgVars>>
      [] focus = "redis" -> <<focus, rsVars>>
      [] focus = "rediscp" -> <<focus, rcVars>>
      [] focus = "extending" -> <<focus, extVars>>

(* The workers of the queue play the same part, its workflows too, and so do  *)
(* processes n1 and n2 everywhere.                                            *)
Alike == Permutations(MCWorkers) \cup Permutations(MCWorkflows) \cup Permutations({n1, n2})

StoresSpec == StoresInit /\ [][StoresNext]_storesVars
=============================================================================
