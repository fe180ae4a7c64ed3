---------------------------- MODULE PostgresStore ----------------------------
(* One workflow in Postgres (without_durability_postgres): concurrent READ    *)
(* COMMITTED transactions over its claim row, its checkpoint rows and the     *)
(* sequence they are numbered from.  An action is one statement, one effect   *)
(* or one commit.  A statement that needs a row another transaction has       *)
(* changed waits for it and then reads the row again.  When a claim lapses is *)
(* left open: any claim may be granted.                                       *)
EXTENDS Naturals, FiniteSets

CONSTANTS
    Sessions,    \* connections of the pool
    MaxFence,    \* bound on the claim row's token
    MaxSequence  \* bound on the numbers drawn

VARIABLES
    trans,       \* Sessions -> the transaction it is in
    fence,       \* the claim row's token, 0 while there is no row
    rows,        \* the checkpoint rows of the workflow, committed
    effects,     \* effects committed since the records were last discarded
    drawn,       \* nextval: the last number drawn
    granted,     \* the tokens of the Passes handed out
    raised,      \* the highest token a deletion raised the fence to
    cursor,      \* the last inbox key a receive has taken
    received     \* the inbox keys receives have taken

pgVars == <<trans, fence, rows, effects, drawn, granted, raised, cursor, received>>

(* `at` is the statement to come, `token` the Pass's, `lock` the token it has *)
(* put in the claim row or 0, `adds` its row, `drops` the rows it deletes.    *)
Quiet == [op |-> "none", at |-> "none", token |-> 0, lock |-> 0,
          adds |-> {}, drops |-> {}, acted |-> FALSE]

PgInit ==
    /\ trans = [x \in Sessions |-> Quiet]
    /\ fence = 0
    /\ rows = {}
    /\ effects = 0
    /\ drawn = 0
    /\ granted = {}
    /\ raised = 0
    /\ cursor = 0
    /\ received = {}

(* The step's row has key 0, a message the number it was filed under.  `by`   *)
(* is the token it was written under (0: from outside any pass).              *)
Row(key, by, how) == [key |-> key, by |-> by, how |-> how]
Step == {r \in rows : r.key = 0}
Messages == {r \in rows : r.key > 0}

RowFree(x) == \A y \in Sessions \ {x} : trans[y].lock = 0
KeyFree(x) ==
    \A y \in Sessions \ {x} : \A r \in trans[y].adds \cup trans[y].drops : r.key # 0
FenceWasRead(x) == TRUE
FenceHolds(x) == trans[x].token >= fence

store == <<fence, rows, effects, granted, raised, cursor, received>>
Moves(x, to) == trans' = [trans EXCEPT ![x] = to]
Goes(x, at) == Moves(x, [trans[x] EXCEPT !.at = at])
Draws == drawn < MaxSequence /\ drawn' = drawn + 1

-----------------------------------------------------------------------------
StartsTrans(x, op, at, tok) ==
    /\ trans[x] = Quiet
    /\ Moves(x, [Quiet EXCEPT !.op = op, !.at = at, !.token = tok])
    /\ UNCHANGED <<store, drawn>>

Calls(x) ==
    \/ \E op \in {"claim", "supply", "append", "discard"} : StartsTrans(x, op, op, 0)
    \/ \E tok \in granted : StartsTrans(x, "record", "lock", tok) \/ StartsTrans(x, "transact", "fence", tok)

(* CLAIM: the next number up, or a row where there is none.                   *)
ClaimRow(x) ==
    /\ trans[x].at = "claim" /\ RowFree(x)
    /\ \/ fence < MaxFence
          /\ Moves(x, [trans[x] EXCEPT !.lock = fence + 1, !.at = "commit"])
       \/ Moves(x, Quiet)
    /\ UNCHANGED <<store, drawn>>

(* RECORD and WRITE: the claim row is locked and its token read again; a      *)
(* token below the fence writes nothing, and an effect made before goes too.  *)
LocksFence(x) ==
    /\ trans[x].at = "lock" /\ RowFree(x)
    /\ \/ ~FenceHolds(x) /\ Moves(x, Quiet) /\ UNCHANGED drawn
       \/ /\ FenceHolds(x) /\ Draws
          /\ Moves(x, [trans[x] EXCEPT !.lock = fence, !.at = "insert"])
    /\ UNCHANGED store

(* SUPPLY draws its number and inserts without looking at the claim.          *)
SupplyDraws(x) ==
    /\ trans[x].at = "supply" /\ Draws
    /\ Moves(x, [trans[x] EXCEPT !.at = "insert"])
    /\ UNCHANGED store

(* The insertion: it waits for another's uncommitted insertion or deletion of  *)
(* the key; a row already there is kept.  For a transaction with an effect that means    *)
(* Supplied: it rolls back, effect and all, and the row is read instead.      *)
InsertsStep(x) ==
    /\ trans[x].at = "insert" /\ KeyFree(x)
    /\ \/ /\ Step = {}
          /\ Moves(x, [trans[x] EXCEPT !.adds = {Row(0, trans[x].token, trans[x].op)}, !.at = "commit"])
       \/ /\ Step # {} /\ trans[x].op = "transact"
          /\ Moves(x, [Quiet EXCEPT !.op = "transact", !.at = "reread"])
       \/ /\ Step # {} /\ trans[x].op # "transact"
          /\ Goes(x, "commit")
    /\ UNCHANGED <<store, drawn>>

(* transact: FENCE and ALREADY are plain reads, then the effect runs with     *)
(* nothing locked.                                                            *)
ReadsFence(x) ==
    /\ trans[x].at = "fence"
    /\ IF FenceHolds(x) THEN Goes(x, "already") ELSE Moves(x, Quiet)
    /\ UNCHANGED <<store, drawn>>

ReadsAlready(x) ==
    /\ trans[x].at = "already"
    /\ IF Step = {} THEN Goes(x, "effect") ELSE Moves(x, Quiet)
    /\ UNCHANGED <<store, drawn>>

Acts(x) ==
    /\ trans[x].at = "effect"
    /\ Moves(x, [trans[x] EXCEPT !.acted = TRUE, !.at = "lock"])
    /\ UNCHANGED <<store, drawn>>

(* The row that stood in the way is read back; a deletion may have taken it   *)
(* meanwhile, and then the effect is blamed for having written it.            *)
ReadsBack(x) ==
    /\ trans[x].at = "reread"
    /\ Moves(x, Quiet)
    /\ UNCHANGED <<store, drawn>>

(* APPEND: the number is the key and the position.                            *)
Appends(x) ==
    /\ trans[x].at = "append" /\ Draws
    /\ Moves(x, [trans[x] EXCEPT !.adds = {Row(drawn + 1, 0, "append")}, !.at = "commit"])
    /\ UNCHANGED store

(* discard: SUPERSEDE, which leaves alone a row that is not there, then       *)
(* DISCARD, of what is committed by then.                                     *)
SupersedesRow(x) ==
    /\ trans[x].at = "discard"
    /\ \/ /\ fence = 0
          /\ Goes(x, "delete")
       \/ /\ fence > 0 /\ RowFree(x) /\ fence < MaxFence
          /\ Moves(x, [trans[x] EXCEPT !.lock = fence + 1, !.at = "delete"])
    /\ UNCHANGED <<store, drawn>>

DeletesRows(x) ==
    /\ trans[x].at = "delete"
    /\ Moves(x, [trans[x] EXCEPT !.drops = rows, !.at = "commit"])
    /\ UNCHANGED <<store, drawn>>

CommitsTrans(x) ==
    /\ trans[x].at = "commit"
    /\ LET tr == trans[x] IN
       /\ fence' = IF tr.lock > 0 THEN tr.lock ELSE fence
       /\ granted' = granted \cup (IF tr.op = "claim" THEN {tr.lock} ELSE {})
       /\ rows' = (rows \ tr.drops) \cup tr.adds
       /\ effects' = IF tr.op = "discard" /\ Step \subseteq tr.drops THEN 0
                     ELSE IF tr.acted THEN effects + 1 ELSE effects
       /\ raised' = IF tr.op = "discard" /\ tr.lock > 0 THEN tr.lock ELSE raised
       /\ cursor' = IF tr.op = "discard" THEN 0 ELSE cursor
       /\ received' = IF tr.op = "discard" THEN {} ELSE received
    /\ Moves(x, Quiet)
    /\ UNCHANGED drawn

(* An error, a cancellation or a lost connection: everything goes.            *)
Aborts(x) ==
    /\ trans[x] # Quiet
    /\ Moves(x, Quiet)
    /\ UNCHANGED <<store, drawn>>

(* A receive: a pass loads what is committed and takes what lies past its     *)
(* cursor, and the last key it took becomes the cursor.                       *)
TakesInbox ==
    /\ granted # {}
    /\ LET unread == {r.key : r \in {m \in Messages : m.key > cursor}} IN
       /\ unread # {}
       /\ cursor' = CHOOSE k \in unread : \A j \in unread : j <= k
       /\ received' = received \cup unread
    /\ UNCHANGED <<trans, fence, rows, effects, drawn, granted, raised>>

PgNext ==
    \/ \E x \in Sessions :
        \/ Calls(x) \/ ClaimRow(x) \/ LocksFence(x) \/ SupplyDraws(x) \/ InsertsStep(x)
        \/ ReadsFence(x) \/ ReadsAlready(x) \/ Acts(x) \/ ReadsBack(x) \/ Appends(x)
        \/ SupersedesRow(x) \/ DeletesRows(x) \/ CommitsTrans(x) \/ Aborts(x)
    \/ TakesInbox

PgSpec == PgInit /\ [][PgNext]_pgVars

-----------------------------------------------------------------------------
PgTypeOK ==
    /\ \A x \in Sessions : trans[x].token \in granted \cup {0}
    /\ fence \in 0 .. MaxFence
    /\ \A r \in rows : r.key \in 0 .. MaxSequence /\ r.by \in granted \cup {0}
    /\ effects \in Nat
    /\ drawn \in 0 .. MaxSequence
    /\ granted \subseteq 1 .. MaxFence
    /\ raised \in 0 .. MaxFence
    /\ cursor \in 0 .. MaxSequence
    /\ received \subseteq 1 .. MaxSequence

(* With nothing locked while an effect runs, and supplies that ask no fence:  *)
(* the effect is committed with its record or not at all, and never twice;    *)
(* and a deletion that raised the fence is not outlived by a Pass that was    *)
(* out when it ran (interfaces.py on transact and discard).                   *)
EffectsMatchRecords ==
    /\ effects = Cardinality({r \in Step : r.how = "transact"})
    /\ Cardinality(Step) <= 1
    /\ \A r \in rows : r.by # 0 => r.by > raised

(* interfaces.py on append: its keys sort into append order, "which is what   *)
(* makes the `>` against a cursor mean `later than'" (Run.delivered): no      *)
(* message is filed behind the cursor of the reader it is for.                *)
NoneBehindTheCursor == \A m \in Messages : m.key <= cursor => m.key \in received
=============================================================================
