------------------------------ MODULE Logging -------------------------------
(* Logging as a stream (without_logging): `capture' hands what any thread logs *)
(* to the event loop and drains it into a sink until its block ends, and      *)
(* to_rotating_file is the worker that writes lines behind `offload'.  Records *)
(* and lines are numbered in the order they are logged and handed over; what  *)
(* lies between the two ends is ThreadBridge's.                               *)
EXTENDS Naturals, Sequences, FiniteSets

CONSTANTS
    MaxLogged,   \* records that are logged
    Capacity,    \* the bound of the queue
    Waking,      \* what stands in the loop's queue for the end of the block's sleep(0)
    LineSizes,   \* the bytes a line may come to
    FileBound,   \* to_rotating_file's max_bytes
    FileAge,     \* and its max_age
    Moments,     \* what the wall clock shows when at_times wants a new file
    FoldAt,      \* when the wall clock is put back,
    FoldBy,      \* and by how much
    MaxLines,    \* bound on lines written
    MaxFiles,    \* bound on rotations
    LastHour     \* bound on time

ASSUME LoggingAssumption ==
    /\ MaxLogged \in Nat /\ Capacity \in Nat \ {0}
    /\ Waking \notin Nat
    /\ LineSizes \subseteq Nat \ {0}
    /\ FileBound \in Nat /\ FileAge \in Nat \ {0}
    /\ Moments \subseteq Nat
    /\ FoldAt \in Nat /\ FoldBy \in 0 .. FoldAt
    /\ MaxFiles \in Nat /\ LastHour \in Nat

VARIABLES
    capturing,   \* where `capture' is
    logged,      \* records made so far
    inEmit,      \* the one a thread holds between the handler's parse and its hand over
    soon,        \* callbacks the loop will run: records, and that its exit waits for
    backlog,     \* the bounded queue
    drainer,     \* the task that runs the sink
    sunk,        \* what the sink took
    overflow,    \* dropped, the queue being full
    straggling,  \* in a thread's hands when the handler was detached
    refused      \* dropped, the queue being shut

captureVars == <<capturing, logged, inEmit, soon, backlog, drainer, sunk, overflow,
                 straggling, refused>>

CaptureInit ==
    /\ capturing = "open"
    /\ logged = 0
    /\ inEmit = {}
    /\ soon = <<>>
    /\ backlog = <<>>
    /\ drainer = "running"
    /\ sunk = <<>>
    /\ overflow = {} /\ straggling = {} /\ refused = {}

(* The handler's lock is held from the parse to the hand over, so records     *)
(* reach the loop in the order they were made.                                *)
LoopLogs ==
    /\ capturing = "open" /\ inEmit = {} /\ logged < MaxLogged
    /\ logged' = logged + 1
    /\ soon' = Append(soon, logged')
    /\ UNCHANGED <<capturing, inEmit, backlog, drainer, sunk, overflow, straggling, refused>>

ThreadLogs ==
    /\ capturing = "open" /\ inEmit = {} /\ logged < MaxLogged
    /\ logged' = logged + 1
    /\ inEmit' = {logged'}
    /\ UNCHANGED <<capturing, soon, backlog, drainer, sunk, overflow, straggling, refused>>

HandsToLoop ==
    /\ \E n \in inEmit : soon' = Append(soon, n)
    /\ inEmit' = {}
    /\ UNCHANGED <<capturing, logged, backlog, drainer, sunk, overflow, straggling, refused>>

(* _offer, in the loop.                                                       *)
Offered ==
    /\ soon # <<>> /\ Head(soon) # Waking
    /\ soon' = Tail(soon)
    /\ LET n == Head(soon) IN
        \/ /\ capturing \in {"joining", "over"}
           /\ refused' = refused \cup {n} /\ UNCHANGED <<backlog, overflow>>
        \/ /\ capturing \notin {"joining", "over"} /\ Len(backlog) = Capacity
           /\ overflow' = overflow \cup {n} /\ UNCHANGED <<backlog, refused>>
        \/ /\ capturing \notin {"joining", "over"} /\ Len(backlog) < Capacity
           /\ backlog' = Append(backlog, n) /\ UNCHANGED <<overflow, refused>>
    /\ UNCHANGED <<capturing, logged, inEmit, drainer, sunk, straggling>>

SinkTakes ==
    /\ drainer = "running" /\ backlog # <<>>
    /\ sunk' = Append(sunk, Head(backlog))
    /\ backlog' = Tail(backlog)
    /\ UNCHANGED <<capturing, logged, inEmit, soon, drainer, overflow, straggling, refused>>

(* The sink raises: nothing takes from the queue any more, and the block      *)
(* hears of it only when it joins the task.                                   *)
SinkFails ==
    /\ drainer = "running"
    /\ drainer' = "failed"
    /\ UNCHANGED <<capturing, logged, inEmit, soon, backlog, sunk, overflow, straggling, refused>>

SinkEnds ==
    /\ drainer = "running" /\ backlog = <<>> /\ capturing \in {"joining", "over"}
    /\ drainer' = "ended"
    /\ UNCHANGED <<capturing, logged, inEmit, soon, backlog, sunk, overflow, straggling, refused>>

(* The way out: the handler goes, and the block lets the loop run once, which *)
(* is as far as what was scheduled before it.                                 *)
Detaches ==
    /\ capturing = "open"
    /\ capturing' = "flushing"
    /\ straggling' = inEmit
    /\ soon' = Append(soon, Waking)
    /\ UNCHANGED <<logged, inEmit, backlog, drainer, sunk, overflow, refused>>

Shuts ==
    /\ capturing = "flushing" /\ soon # <<>> /\ Head(soon) = Waking
    /\ soon' = Tail(soon)
    /\ capturing' = "joining"
    /\ UNCHANGED <<logged, inEmit, backlog, drainer, sunk, overflow, straggling, refused>>

(* A cancellation in that one tick goes past the shutdown and the join: the   *)
(* sink waits on a queue nobody will end.                                     *)
FlushCutShort ==
    /\ capturing = "flushing" /\ soon # <<>> /\ Head(soon) = Waking
    /\ soon' = Tail(soon)
    /\ capturing' = "abandoned"
    /\ UNCHANGED <<logged, inEmit, backlog, drainer, sunk, overflow, straggling, refused>>

(* The join ends when the sink has, and a cancellation of it is the sink's.   *)
Joined ==
    /\ capturing = "joining"
    /\ \/ drainer # "running" /\ UNCHANGED drainer
       \/ drainer = "running" /\ drainer' = "cancelled"
    /\ capturing' = "over"
    /\ UNCHANGED <<logged, inEmit, soon, backlog, sunk, overflow, straggling, refused>>

CaptureNext ==
    \/ LoopLogs \/ ThreadLogs \/ HandsToLoop \/ Offered \/ SinkTakes \/ SinkFails \/ SinkEnds
    \/ Detaches \/ Shuts \/ FlushCutShort \/ Joined

RecordsIn(queue) == {queue[i] : i \in {x \in DOMAIN queue : queue[x] # Waking}}
Ascends(queue) == \A i, j \in DOMAIN queue : i < j => queue[i] < queue[j]

(* Every record is somewhere, and in one place: on its way, with the sink, or *)
(* counted as dropped.  The sink gets what it gets in the order it was logged *)
(* from whatever thread; a record is refused at the end only if a thread held *)
(* it when the handler went; and a block that ends with its sink has kept     *)
(* back none that was handed over.                                            *)
LogIsAccountedFor ==
    /\ 1 .. logged = inEmit \cup RecordsIn(soon) \cup RecordsIn(backlog) \cup RecordsIn(sunk)
                        \cup overflow \cup refused
    /\ Ascends(sunk \o backlog)
    /\ refused \subseteq straggling
    /\ capturing = "over" /\ drainer = "ended" =>
        \A n \in (1 .. logged) \ straggling : n \in RecordsIn(sunk) \cup overflow

-----------------------------------------------------------------------------
(* to_rotating_file, whose `schedule' is at_times.  A file is named for its   *)
(* index, and a process that starts again begins at 0 over what it finds.     *)
VARIABLES
    hour,        \* now()
    rotator,     \* "up", "failed" or "down"
    index,
    openedAt,    \* when the current file was opened
    boundary,    \* the moment of the schedule after that
    written,     \* the size of the file, as the worker counts it
    added,       \* lines this process has put in it
    unflushed,   \* the last of them, which are not flushed
    midBurst,
    handed,      \* lines handed to the worker so far
    logFile,     \* index -> the pieces in the file
    settled      \* lines that were flushed

rotateVars == <<hour, rotator, index, openedAt, boundary, written, added, unflushed, midBurst,
                handed, logFile, settled>>

SizesUpTo(file) ==
    LET upTo[i \in 0 .. Len(file)] == IF i = 0 THEN 0 ELSE upTo[i - 1] + file[i].size
    IN  upTo
SizeOf(file) == SizesUpTo(file)[Len(file)]

(* The wall clock shows the FoldBy hours before FoldAt twice.                 *)
Wall(h) == IF h < FoldAt THEN h ELSE h - FoldBy
ShownTwice(h) == FoldAt <= h /\ h < FoldAt + FoldBy

(* The next moment is sought on the wall clock, and is meant the first time.  *)
AtTimes(h) ==
    LET later == {m \in Moments : m > Wall(h)}
        next == CHOOSE m \in later : \A o \in later : m <= o
    IN  IF later = {} THEN LastHour + 1
        ELSE IF next < FoldAt THEN next ELSE next + FoldBy

RotateInit ==
    /\ hour = 0
    /\ rotator = "down"
    /\ index = 0 /\ openedAt = 0 /\ boundary = 0
    /\ written = 0 /\ added = 0 /\ unflushed = 0 /\ midBurst = FALSE
    /\ handed = 0
    /\ logFile = [i \in 0 .. MaxFiles |-> <<>>]
    /\ settled = {}

OpensNext(i) ==
    /\ index' = i
    /\ openedAt' = hour
    /\ boundary' = AtTimes(hour)

Boots ==
    /\ rotator = "down" /\ handed < MaxLines
    /\ rotator' = "up"
    /\ OpensNext(0)
    /\ written' = SizeOf(logFile[0])
    /\ added' = 0 /\ unflushed' = 0 /\ midBurst' = FALSE
    /\ UNCHANGED <<hour, handed, logFile, settled>>

Due(size) ==
    /\ written > 0
    /\ written + size > FileBound \/ hour - openedAt >= FileAge \/ hour >= boundary

Piece(n, size) == [line |-> n, size |-> size, whole |-> TRUE, at |-> hour]
WholeLines(file) == {p.line : p \in {file[k] : k \in {x \in DOMAIN file : file[x].whole}}}

SameFile(size) ==
    /\ ~Due(size)
    /\ logFile' = [logFile EXCEPT ![index] = Append(@, Piece(handed', size))]
    /\ written' = written + size
    /\ added' = added + 1
    /\ unflushed' = unflushed + 1
    /\ UNCHANGED <<index, openedAt, boundary, settled>>

(* Closing a file flushes it.  The one that is opened may have been there, and *)
(* the question is not asked again of it.                                     *)
Rotates(size) ==
    /\ Due(size) /\ index < MaxFiles
    /\ settled' = settled \cup WholeLines(logFile[index])
    /\ OpensNext(index + 1)
    /\ logFile' = [logFile EXCEPT ![index + 1] = Append(@, Piece(handed', size))]
    /\ written' = SizeOf(logFile[index + 1]) + size
    /\ added' = 1
    /\ unflushed' = 1

WritesLine(size) ==
    /\ rotator = "up" /\ handed < MaxLines
    /\ handed' = handed + 1
    /\ SameFile(size) \/ Rotates(size)
    /\ midBurst' = TRUE
    /\ UNCHANGED <<hour, rotator>>

EndsBurst ==
    /\ rotator = "up" /\ midBurst
    /\ midBurst' = FALSE
    /\ unflushed' = 0
    /\ settled' = settled \cup WholeLines(logFile[index])
    /\ UNCHANGED <<hour, rotator, index, openedAt, boundary, written, added, handed, logFile>>

(* The next file cannot be opened: the worker ends and the line with it; the  *)
(* old file was closed before.                                                *)
OpenFails(size) ==
    /\ rotator = "up" /\ handed < MaxLines /\ Due(size)
    /\ rotator' = "failed"
    /\ handed' = handed + 1
    /\ unflushed' = 0
    /\ settled' = settled \cup WholeLines(logFile[index])
    /\ UNCHANGED <<hour, index, openedAt, boundary, written, added, midBurst, logFile>>

(* The lines end, or the writing raises: the file is closed on the way out.   *)
WorkEnds ==
    /\ rotator = "up"
    /\ rotator' = "down"
    /\ settled' = settled \cup WholeLines(logFile[index])
    /\ added' = 0 /\ unflushed' = 0 /\ midBurst' = FALSE
    /\ UNCHANGED <<hour, index, openedAt, boundary, written, handed, logFile>>

(* The process dies: some of its buffer is in the file, perhaps as far as the *)
(* first byte of a line.                                                      *)
ProcessDies ==
    /\ rotator = "up"
    /\ rotator' = "down"
    /\ \E kept \in 0 .. unflushed :
        LET file == logFile[index]
            end == Len(file) - unflushed + kept
            stays == SubSeq(file, 1, end)
        IN  \/ logFile' = [logFile EXCEPT ![index] = stays]
            \/ /\ kept < unflushed /\ file[end + 1].size > 1
               /\ logFile' = [logFile EXCEPT ![index] =
                                Append(stays, [file[end + 1] EXCEPT !.size = 1, !.whole = FALSE])]
    /\ added' = 0 /\ unflushed' = 0 /\ midBurst' = FALSE
    /\ UNCHANGED <<hour, index, openedAt, boundary, written, handed, settled>>

HourPasses ==
    /\ hour < LastHour
    /\ hour' = hour + 1
    /\ UNCHANGED <<rotator, index, openedAt, boundary, written, added, unflushed, midBurst, handed,
                   logFile, settled>>

RotateNext ==
    \/ Boots \/ EndsBurst \/ WorkEnds \/ ProcessDies \/ HourPasses
    \/ \E size \in LineSizes : WritesLine(size) \/ OpenFails(size)

(* However often it starts again over its old files, a process counts the     *)
(* bytes that are there, and after the first line it puts in a file no other  *)
(* takes it past max_bytes, its age or its boundary; the boundary lies ahead  *)
(* unless the clock shows the hour for the second time.  A file's lines are   *)
(* in the order they came, and a crash takes none that was flushed.           *)
RotationHolds ==
    /\ rotator = "up" =>
        /\ written = SizeOf(logFile[index])
        /\ added > 1 => written <= FileBound
        /\ ~ShownTwice(openedAt) => boundary > openedAt
        /\ \A k \in DOMAIN logFile[index] : k > Len(logFile[index]) - added + 1 =>
              LET piece == logFile[index][k]
              IN  piece.at < openedAt + FileAge /\ piece.at < boundary
    /\ \A i \in DOMAIN logFile : \A j, k \in DOMAIN logFile[i] :
          j < k => logFile[i][j].line < logFile[i][k].line
    /\ settled \subseteq UNION {WholeLines(logFile[i]) : i \in DOMAIN logFile}
=============================================================================
