----------------------------- MODULE SqliteStore -----------------------------
(* One SQLite file under several processes (without_durability_sqlite).  A    *)
(* process has one connection, a lock that admits one caller to it, and a     *)
(* thread per call that no cancellation reaches.  A command is one statement, *)
(* or two in one transaction: record and its sign of life, an effect and its  *)
(* record, a value and its wakeup, a deletion and its fence.                  *)
EXTENDS Naturals, FiniteSets

CONSTANTS
    Procs,
    Commands,
    Idler        \* nobody, where a command or a process could stand

ASSUME IdlerIsNobody == Idler \notin Procs /\ Idler \notin Commands

VARIABLES
    home,        \* Commands -> the process it is in, while it is
    wrapped,     \* the commands that are transactions
    caller,      \* Commands -> what the awaiting coroutine knows
    thread,      \* Commands -> how far its thread is
    guard,       \* Procs -> Database.guard: the command inside
    draft,       \* Procs -> writes of the connection's open transaction
    writer,      \* the process whose connection holds the write lock
    file,        \* writes that are committed
    shutc        \* Procs whose connection is closed

sqliteVars == <<home, wrapped, caller, thread, guard, draft, writer, file, shutc>>

Halves(w) == {<<w, 1>>, <<w, 2>>}
WritesOf(w) == IF w \in wrapped THEN Halves(w) ELSE {<<w, 1>>}
Inside(p) == {w \in Commands : home[w] = p /\ thread[w] # "none"}

SqliteInit ==
    /\ home = [w \in Commands |-> Idler]
    /\ wrapped = {}
    /\ caller = [w \in Commands |-> "new"]
    /\ thread = [w \in Commands |-> "none"]
    /\ guard = [p \in Procs |-> Idler]
    /\ draft = [p \in Procs |-> {}]
    /\ writer = Idler
    /\ file = {}
    /\ shutc = {}

-----------------------------------------------------------------------------
(* Database.run: the guard, then the thread.  Commands differ in name only.   *)
Unissued == {w \in Commands : caller[w] = "new"}
Issues(w) ==
    /\ Unissued # {} /\ w = CHOOSE next \in Unissued : TRUE
    /\ caller' = [caller EXCEPT ![w] = "asked"]
    /\ \E p \in Procs : home' = [home EXCEPT ![w] = p]
    /\ wrapped' \in {wrapped, wrapped \cup {w}}
    /\ UNCHANGED <<thread, guard, draft, writer, file, shutc>>

Enters(w) ==
    /\ caller[w] = "asked" /\ guard[home[w]] = Idler
    /\ guard' = [guard EXCEPT ![home[w]] = w]
    /\ caller' = [caller EXCEPT ![w] = "waiting"]
    /\ thread' = [thread EXCEPT ![w] = IF home[w] \in shutc THEN "raised"
                                       ELSE IF w \in wrapped THEN "beginning" ELSE "stating"]
    /\ UNCHANGED <<home, wrapped, draft, writer, file, shutc>>

(* A statement by itself commits at once, unless the connection is in a       *)
(* transaction, which it then joins; while another connection writes it waits *)
(* for the lock.                                                              *)
States(w) ==
    /\ thread[w] = "stating" /\ writer \in {Idler, home[w]}
    /\ IF writer = home[w]
       THEN draft' = [draft EXCEPT ![home[w]] = @ \cup WritesOf(w)] /\ UNCHANGED file
       ELSE file' = file \cup WritesOf(w) /\ UNCHANGED draft
    /\ thread' = [thread EXCEPT ![w] = "finished"]
    /\ UNCHANGED <<home, wrapped, caller, guard, writer, shutc>>

(* transacted: BEGIN IMMEDIATE.  One transaction does not open in another.    *)
Begins(w) ==
    /\ thread[w] = "beginning" /\ writer \in {Idler, home[w]}
    /\ IF writer = home[w]
       THEN thread' = [thread EXCEPT ![w] = "raised"] /\ UNCHANGED writer
       ELSE thread' = [thread EXCEPT ![w] = "first"] /\ writer' = home[w]
    /\ UNCHANGED <<home, wrapped, caller, guard, draft, file, shutc>>

(* busy_timeout runs out.                                                     *)
Busy(w) ==
    /\ thread[w] \in {"stating", "beginning"} /\ writer \notin {Idler, home[w]}
    /\ thread' = [thread EXCEPT ![w] = "raised"]
    /\ UNCHANGED <<home, wrapped, caller, guard, draft, writer, file, shutc>>

Half(w, from, n, to) ==
    /\ thread[w] = from
    /\ draft' = [draft EXCEPT ![home[w]] = @ \cup {<<w, n>>}]
    /\ thread' = [thread EXCEPT ![w] = to]
    /\ UNCHANGED <<home, wrapped, caller, guard, writer, file, shutc>>

(* A fence that refuses, an effect or a statement that raises, a COMMIT that  *)
(* fails; for some errors SQLite has rolled back by itself.                   *)
Trips(w) ==
    /\ thread[w] \in {"first", "second", "committing"}
    /\ thread' = [thread EXCEPT ![w] = "undoing"]
    /\ UNCHANGED <<home, wrapped, caller, guard, draft, writer, file, shutc>>

TripsRolledBack(w) ==
    /\ thread[w] \in {"first", "second", "committing"}
    /\ thread' = [thread EXCEPT ![w] = "undoing"]
    /\ draft' = [draft EXCEPT ![home[w]] = {}]
    /\ writer' = Idler
    /\ UNCHANGED <<home, wrapped, caller, guard, file, shutc>>

Commits(w) ==
    /\ thread[w] = "committing"
    /\ file' = file \cup draft[home[w]]
    /\ draft' = [draft EXCEPT ![home[w]] = {}]
    /\ writer' = Idler
    /\ thread' = [thread EXCEPT ![w] = "finished"]
    /\ UNCHANGED <<home, wrapped, caller, guard, shutc>>

(* except BaseException: ROLLBACK, if there is still something to roll back.  *)
RollsBack(w) ==
    /\ thread[w] = "undoing"
    /\ thread' = [thread EXCEPT ![w] = "raised"]
    /\ IF writer = home[w]
       THEN draft' = [draft EXCEPT ![home[w]] = {}] /\ writer' = Idler
       ELSE UNCHANGED <<draft, writer>>
    /\ UNCHANGED <<home, wrapped, caller, guard, file, shutc>>

(* The done callback gives the guard back, and the caller hears the end if it *)
(* is still there.                                                            *)
Concludes(w) ==
    /\ thread[w] \in {"finished", "raised"}
    /\ thread' = [thread EXCEPT ![w] = "none"]
    /\ home' = [home EXCEPT ![w] = Idler]
    /\ guard' = [guard EXCEPT ![home[w]] = IF @ = w THEN Idler ELSE @]
    /\ caller' = [caller EXCEPT ![w] = IF @ # "waiting" THEN @
                                       ELSE IF thread[w] = "finished" THEN "stored" ELSE "failed"]
    /\ UNCHANGED <<wrapped, draft, writer, file, shutc>>

ReleasesOnTheWayOut(w) ==
    /\ caller[w] \in {"asked", "waiting"}
    /\ caller' = [caller EXCEPT ![w] = "gone"]
    /\ home' = [home EXCEPT ![w] = IF thread[w] = "none" THEN Idler ELSE @]
    /\ guard' = [guard EXCEPT ![home[w]] = IF @ = w THEN Idler ELSE @]
    /\ UNCHANGED <<wrapped, thread, draft, writer, file, shutc>>

(* The caller is cancelled: it unwinds at once and its thread goes on.        *)
CallerCancelled(w) ==
    /\ caller[w] \in {"asked", "waiting"}
    /\ caller' = [caller EXCEPT ![w] = "gone"]
    /\ home' = [home EXCEPT ![w] = IF thread[w] = "none" THEN Idler ELSE @]
    /\ UNCHANGED <<wrapped, thread, guard, draft, writer, file, shutc>>

(* aclose takes the guard, and with it waits for the thread inside.           *)
ClosesFile(p) ==
    /\ p \notin shutc /\ guard[p] = Idler
    /\ shutc' = shutc \cup {p}
    /\ UNCHANGED <<home, wrapped, caller, thread, guard, draft, writer, file>>

(* The process dies: the file recovers to its last commit, and the process    *)
(* that takes its place opens the file anew.                                  *)
ProcDies(p) ==
    /\ Inside(p) # {}
    /\ caller' = [w \in Commands |-> IF home[w] = p /\ caller[w] \in {"asked", "waiting"}
                                     THEN "gone" ELSE caller[w]]
    /\ thread' = [w \in Commands |-> IF w \in Inside(p) THEN "none" ELSE thread[w]]
    /\ home' = [w \in Commands |-> IF home[w] = p THEN Idler ELSE home[w]]
    /\ guard' = [guard EXCEPT ![p] = Idler]
    /\ draft' = [draft EXCEPT ![p] = {}]
    /\ writer' = IF writer = p THEN Idler ELSE writer
    /\ shutc' = shutc \ {p}
    /\ UNCHANGED <<wrapped, file>>

SqliteNext ==
    \/ \E w \in Commands :
        \/ Issues(w) \/ Enters(w) \/ States(w) \/ Begins(w) \/ Busy(w)
        \/ Half(w, "first", 1, "second") \/ Half(w, "second", 2, "committing")
        \/ Trips(w) \/ TripsRolledBack(w) \/ Commits(w) \/ RollsBack(w)
        \/ Concludes(w) \/ CallerCancelled(w)
    \/ \E p \in Procs : ClosesFile(p) \/ ProcDies(p)

SqliteSpec == SqliteInit /\ [][SqliteNext]_sqliteVars

-----------------------------------------------------------------------------
SqliteTypeOK ==
    /\ home \in [Commands -> Procs \cup {Idler}]
    /\ wrapped \subseteq Commands
    /\ caller \in [Commands -> {"new", "asked", "waiting", "stored", "failed", "gone"}]
    /\ thread \in [Commands -> {"none", "stating", "beginning", "first", "second", "committing",
                                "undoing", "finished", "raised"}]
    /\ guard \in [Procs -> Commands \cup {Idler}]
    /\ draft \in [Procs -> SUBSET (Commands \X {1, 2})]
    /\ writer \in Procs \cup {Idler}
    /\ file \subseteq Commands \X {1, 2}
    /\ shutc \subseteq Procs

(* What a caller was told is so, whoever was cancelled or died meanwhile: a   *)
(* command reported stored is in the file, one reported failed is not, and    *)
(* the two halves of a transaction are there together or not at all (what     *)
(* Database.run and transacted exist for).  A transaction is open only while  *)
(* its thread is inside, and no thread is inside a connection being closed.   *)
StoredIsStored ==
    /\ \A w \in Commands :
        /\ caller[w] = "stored" => WritesOf(w) \subseteq file
        /\ caller[w] = "failed" => WritesOf(w) \cap file = {}
        /\ WritesOf(w) \subseteq file \/ WritesOf(w) \cap file = {}
    /\ \A p \in Procs :
        /\ writer = p => \E w \in Inside(p) : thread[w] \in {"first", "second", "committing", "undoing"}
        /\ p \in shutc => \A w \in Inside(p) : thread[w] = "raised"
=============================================================================
