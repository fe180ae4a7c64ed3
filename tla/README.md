# A TLA+ model of `without`

`without` is a collection of Python packages for building services: durable
workflows, an ASGI stack, an HTTP client and server, a web and a CLI
framework, streams, logging and small libraries for configuration and HTML.
This directory models the parts of it whose correctness depends on orders of
events nobody can write a test for, checks the models with TLC on small
instances, and proves the results that matter most with TLAPS for every value
of the constants.

Paths below are relative to the repository; `durability/` stands for
`packages/without_durability/src/without_durability/`. The lines each
definition stands for are in `PROJECT.json` under `map`; the header of each
module says how its state and actions correspond to the code.

## The system, and what makes each part correct

| component | state | operations | what is hard | what makes it correct | modelled in |
|---|---|---|---|---|---|
| **checkpoint store** (`durability/memory.py`, SQL and Redis stores) | per workflow a claim row (token, budget, liveness deadline) and the records in order of first landing | `claim`, `extend`, `renew`, `record`, `transact`, `supply`, `append`, `discard`, `release` | a pass that lost its claim and does not know; a release or deletion under a running pass | one writer at a time; first writer wins; transacted effects exactly once; deletion is final for every pass in flight | `Checkpointer`, `FencedLog`, `PassLog`; `SqliteStore`, `PostgresStore`, `RedisCheckpointer` |
| **queue** (`durability/memory.py` MemoryScheduler; Redis sorted set; SQL tables; Redis stream) | which workflow is queued, asleep or being worked on; who may answer for it | `make_ready`, `wake_at`, `next_ready`, `reclaim`, `extend`, `cancel`, `done` | answers from takers that lapsed; wakeups that arrive during a pass; clocks that differ; two moments that look alike | no wakeup lost or put off; one live delivery; a cancelled workflow stays cancelled; every wakeup is served | `MemoryScheduler`, `VisibilityQueue`, `Wakeups`, `RedisStream` |
| **worker** (`durability/worker.py`) and **client side** (`durability/interfaces.py` SplitDurable) | per pool slot a delivery, a claim, a running pass and a ticker | `advance`, `keep_alive`, `look_again`, `arrive`, `deliver`, `delete` | crash, cancellation, lapse between any two awaits; dying between two stores | a workflow whose inputs come is completed; repeats of an effect are bounded by what went wrong | `Worker` |
| **stepwise workflow** (`durability/stepwise.py`) | per pass what it has seen recorded, the keys it used, the suspensions it reached, the windows it was granted | `step`, `transact`, `sleep`, `awaiting`, `receive`, `pending`, `extending`, `resume` | a body run again and again from the top; fan-outs that cancel their siblings; windows counted by two clocks | replay is deterministic; an outcome reports everything the pass waits for; a step keeps the window it named | `Stepwise`, `Extending`, `Worker` |
| **graph workflows** (`durability/graph.py`, `without_dag`) | dependency counts, values still needed | `drive`, `run_durably` | results in any order, failures among them | each node runs once after its dependencies; values are freed after their last reader | `DagDriver` |
| **async tasks** (`without_async/tasks.py`) | running tasks, a source | `limit_concurrency`, `settled`, `background_task` | early exit and cancellation | the limit holds; nothing is left running unannounced | `TaskLimiter`, `Stepwise`, `StreamWiring` |
| **streams** (`without_streams/wiring.py`) | bounded queues between tasks and threads | `spool`, `tee`, `offload`, `stream_from_blocking`, `sample` | a stuck peer, a full queue, an end from either side | nothing lost below the bound; both sides end | `ThreadBridge`, `StreamWiring` |
| **HTTP client** (`without_http/client.py`, wires) | per-host permits and idle connections; HTTP/2 streams and windows; a cookie jar | acquire, send, receive, abort; redirect, attach, decode | cancellation between permit and connection; credit for data nobody reads; secrets over redirects | permits and windows are conserved; what was meant for one origin stays there | `HttpPool`, `Http2Client`, `ClientMiddleware`, `BodyCoding` |
| **HTTP server** (`without_http/server.py`, `lifespan.py`, `ws_wire.py`) | tracked connections, streams, shutdown state | accept, serve, drain | shutdown against connections being accepted; a sender parked on a window | shutdown reaches everyone; no stream is stuck or answered twice | `HttpServer`, `AsgiExchange`, `H2Server`, `WebsocketServer`, `Lifespan` |
| **event streams** (`without_asgi/sse.py`, `without_http/sse.py`) | what has been sent, parsed, handed over | heartbeat, encode, parse, reconnect | a stream cut anywhere in a frame | nothing is skipped, nothing half sent is handed over | `EventStream` |
| **ASGI adapters, compression, assets and files** (`without_asgi`) | a held head, a codec; file versions and validators | negotiate, compress; `serve_file`, `serve_asset`, select a range | a body that fails half way; files replaced between stat, open and resume | what is announced is sent, of the content the validators name | `AsgiExchange`, `Compression`, `FileServing` |
| **web framework** (`without_web`) | a trie of routes | add, resolve, dispatch | turning back in the walk | a route that takes the path is found, the first of those | `Routing` |
| **CLI framework** (`without_cli`) | a command line, a stream of lines | parse, extract; split | clusters, separators, values that look like options | every token has one reading; every line comes once | `CommandLine` |
| **logging** (`without_logging`) | records on their way, an open file | capture, rotate | rotation against a batch in flight, restarts | no record split or lost | `Logging` |
| **codec, HTML, configuration, environment, HTTP testing, examples and benchmarks** | none | | | | not modelled |

`PROJECT.json` says of every component what of it is left out, and lists under
`hazards` what is hard to test, at the line where it bites, with the
properties that would notice it going wrong.

## How the modules fit together

```
Worker --uses--> Wakeups  <--implements-- VisibilityQueue
       \--uses--> PassLog <--implements-- Checkpointer --implements--> FencedLog
```

`Worker` is written over instances of the two abstractions `Wakeups` (a queue
is one wakeup and one answerable delivery per workflow) and `PassLog` (a store
is one Pass per workflow and a set of recorded keys). That workers ask nothing
else of them (`Spec => Queue!Spec`, `Spec => Log!Spec`), and that the queue
scored by visibility and the store with its leases and budgets are such a queue
and such a store, are theorems: the composition is closed for any number of
workers and workflows.

The other modules model components that share no state with one another. Two
modules put them side by side for TLC:

- `MCStores` (run `stores`): `VisibilityQueue`, `SqliteStore`,
  `PostgresStore`, `RedisStream`, `RedisCheckpointer`, `Extending`;
- `MCServices` (run `services`): everything else.

Both have one variable of their own, `focus`: a behaviour picks a component
and runs it while the rest stand still, so the state space is the sum of theirs
and not the product. The `VIEW` keeps only the variables of the component that
runs. That is sound because every other component is still in the one initial
state that behaviours with this focus start it in. The `SYMMETRY` permutes
callers, processes or workers that the components do not tell apart. A property
of one component is asked of it alone, so its violation is a violation by that
component. `MCStores` has a constant `Components`, which lets a run look at
some of them only.

`MC*` modules give the constants small values. A definition whose comment
begins with `Fault:` is a wrong version of the definition that follows, used to
make sure that the properties notice.

## Modules

**`Checkpointer`** models `MemoryCheckpointer`. Its variables are the fields
of the class: `claims` (the row per workflow, a row with token 0 being no row),
`hashes` (the records), `now` (`monotonic()`), and beside them the data a
transacted effect changes and the Passes workers hold. Each method is one
action, because no method awaits between reading and writing; the actions are
interleaved over workers, outside callers and the clock. `heard` and the `by`
field of a record are history. A refused call changes nothing and is left out.
Discarding resets the history of effects, since what an application keeps of
its effects after a deletion is not the store's business.

**`FencedLog`** says what the store is once time is left out: a fence per
workflow that only rises, Passes at or below it, and a log that is added to or
forgotten whole. **`PassLog`** goes one step further, to who may write and
which keys are recorded.

**`MemoryScheduler`** models the class of that name: the ready queue, the
sleepers, the outstanding deliveries in order of receipt. Clocks are relative
(ticks left), so behaviours are unbounded in time and liveness can be checked.
Receipts are taken from a set of unused names.

**`VisibilityQueue`** models the Redis sorted set, one action per server-side
script. `Mark = 1` is the half millisecond that tells a receipt from a moment
anybody names; `Mark = 0` is the queue as the SQL tables keep it. `Skew` is how
far a caller's clock may be off the server's. Any number of scripts may run
within one tick, which the millisecond of the receipts does not rule out: a
take, `make_ready` and a take in one millisecond give two workers one receipt,
and whichever answers first answers for both. If it is the earlier pass that
finishes and the later worker then dies, the wakeup in between is gone
(`sorted_set.py:85`; its comment at line 114 takes scores for distinct). What
the model shows of it is exactly when it can happen: `OneLiveDelivery` says that
two workers can both still answer only if the workflow was made ready in the
very tick both receipts are of. **`Wakeups`** is what the queue promises with
the clock left out. `QueueSpec` holds the scripts to it wherever no two workers
go by one receipt (`ReceiptsApart` before and after the step), which is also the
queue `Worker` is written over.

**`Worker`** models `advance`, `keep_alive` and `look_again`, with `Run`'s
sequential operations and the client calls of `SplitDurable`, over instances of
`Wakeups` and `PassLog`. One action lies between two awaits. A claim's two
deadlines are reduced to alive, quiet (its lease ran out) and free (handed
back, or past its budget). A worker is a pool slot whose process may crash; the
pool is cancelled by `Stop`.

**`Stepwise`** models one body's operations inside a pass: `Run` and `resume`.
A task runs without interruption until it awaits, so `Segment` takes it from one
await to the next and is used wherever a task goes on: at the start of a pass
(`Begin`), and when a write returns (`Lands`). `Abort` is a TaskGroup cancelling
its other tasks, `CancelPass` the worker cancelling the pass, `End` what
`resume` makes of what the body ended with. `Combinators` is how the body owns
its tasks: a TaskGroup, `gather`, or a combinator that captures exceptions.
Passes are numbered by their tokens; a newer pass may begin at any time, which
is what `Checkpointer` allows once a claim has lapsed.

**`Extending`** models `extending` and `Run.covered`: a step that names a window
has the claim stretched over it, and the round trip is skipped when what was
granted before covers it. Store and pass count from different moments, at most
`Lag` apart. The driver is a worker with a ticker, or a caller of `resume`
without one, who may or may not have said what its claim was made for.

**`SqliteStore`** models the guard, the thread and the transaction of every
call, over processes that are cancelled and die. **`PostgresStore`** models the
statements of one workflow under READ COMMITTED: a statement is an action, and
one that waits for a row reads it again. **`RedisCheckpointer`** is one script
per action over two hashes that expire; **`RedisStream`** the consumer group,
takeover, renewal, suspension, and the sweep of `cancel` in pieces.

**`DagDriver`** models `drive` under `run_durably`: filling, completions in the
order they come, the freeing of values, teardown, and passes that start from
what is recorded. **`TaskLimiter`** models `limit_concurrency` and
`cancel_futures`. **`ThreadBridge`** models `stream_from_blocking` and
`offload` (a thread and the loop, one step of either at a time),
**`StreamWiring`** `spool`, `tee` and `sample` in counts, since queues are
first in, first out. **`Logging`** models `capture` from any thread to the sink
and the rotation of files over crashes and restarts, with a clock that may be
put back.

**`HttpPool`** models the permits and connections of one origin,
**`Http2Client`** the coroutines over one HTTP/2 connection,
**`ClientMiddleware`** redirects, credentials and cookies over a set of
origins, **`BodyCoding`** bodies coded in transit. **`HttpServer`** models
connections from the backlog to their end, and the shutdown of `serving` in its
phases; **`AsgiExchange`** the HTTP/1.1 exchanges of a connection and the
application run for each; **`H2Server`** the read loop and the senders of an
HTTP/2 connection; **`WebsocketServer`** a session; **`Lifespan`** both sides
of the lifespan protocol. **`EventStream`** takes a feed through the encoder, a
connection that is cut, the parser and the loop that reconnects.
**`Compression`** is the negotiation and the middleware around a codec,
**`FileServing`** conditional and range requests over files that change.

**`Routing`** folds a table into the trie and walks it, **`CommandLine`** reads
a line of tokens against a tree of commands, and puts the lines of standard
input together out of chunks.

`*_proofs` modules hold the theorems; see below.

## Runs

| run | what it checks | bounds |
|---|---|---|
| `checkpointer` | `AliveWithinBudget`, `AliveIsEarned` (a claim lives only as long as its own holder is heard from, and never past its budget); `OneWriter`; `WritesInTokenOrder`; `EffectWithItsRecord`; `DiscardFencesEveryPass`; the two refinements `LogSpec`, `PassSpec` | two workers, one workflow, two keys and values, time to 3, tokens to 3, inbox appends to 2 records |
| `memory_scheduler` | `NoWakeupLost`, `CancelSticks`, `TakenOverWhenSilent`, and that every wakeup is served | two workers, two workflows, three receipts, one failure, a queue of one before each `make_ready` |
| `memory_scheduler_deadline` | counterexample to `AskedIsKept` (see below) | deadlines of 1 and 2 ticks |
| `worker` | `RepeatsArePaidFor`, `TransactedOnce`, `RecordedInOrder`, `RunnableIsQueued` | two slots, one workflow with one operation of each kind, two interruptions |
| `worker_liveness` | `Finishes` | the same with one interruption |
| `worker_delete` | counterexample to `DeletedStaysEmpty` | a script of one step, no interruption |
| `stepwise` | `EveryDeadlineIsReported`, `EffectsOutliveCancellation`, `ReadsReplayAlike`, `CompletedOwesNothing`, under a TaskGroup and under a capturing combinator | two tasks with a sleep each, a step, a wait and a read between them; two passes; two inbox entries; time to 2 |
| `stepwise_gather` | counterexample to `EveryDeadlineIsReported` under `gather` | one pass, no read |
| `stores` | of the queue `AskedIsKept`, `OneLiveDelivery`, `CancelSticks` and the refinement `QueueSpec`; of SQLite `StoredIsStored`; of Postgres `EffectsMatchRecords`; of Redis `OwedIsKept` (a workflow owed a pass is in the stream or asleep) and `CheckpointsOutliveSilence` (a checkpoint outlives those who are silent); of windows `WindowsAreHonoured` | two of everybody; the queue with two workflows, time to 5 and a skew of 1; three commands of SQLite; fences to 2 and numbers to 3 in Postgres; two entries in the Redis stream; Redis hashes that live 3 ticks with time to 4 and three tokens; windows of 1 and 3 in a grant of 5, time to 5 |
| `visibility_table` | counterexample to `AskedIsKept` with plain receipts | `Mark = 0`, the queue alone |
| `inbox_order` | counterexample to `NoneBehindTheCursor` | Postgres alone, two appends |
| `services` | `PoolIsSound`, `ClientIsSound` of the client; `ShutdownReachesAll`, `ServerIsSound`, `AnnouncedIsSent`, `ResumesWithoutGap` of the server and what it serves; `DriveIsSound` and `StreamsDeliver` of graphs, tasks, threads, wiring and logging; `RoutesAsDeclared`, `CommandLineIsSound` | see below |

`services` and `stores` state one property per part of the system. Where a
part has several modules the property is a conjunction over them, each
conjunct guarded by `focus`; the conjuncts are defined and commented in the
modules.

### Bounds, and why they are enough

Two workers are enough in the stores because each hazard is between the holder
of a claim or delivery and whoever holds it next, and a third party is the
outside, which is always there. One workflow is enough where workflows share
nothing (claims, records); the queues get two, so that one may hold the other
up. Times are long enough for a lease to lapse, be taken over and lapse again.
In `worker`, two interruptions let a pass be lost and the pass that takes over
be lost too. In `stepwise`, two passes are the one that stops or is overtaken
and the one that replays or overtakes it; each task may be cut short by the
other at any await. In Redis, a hash's life (3) is shorter than the clock (4)
and than what three tokens can be minted in, so that a counter is lost between
two claims. In `Extending`, one window fits the ticker's reach and one does
not, and the answer of the store may be a tick late.

In `services`:

- three callers, two connections: one waits for a permit while the others hand
  theirs back or fail. Two requests over an HTTP/2 connection with a window of
  one, which either of them can exhaust;
- `Together` names the pairs of frames that arrive in one read at the server:
  two that end a stream, a body and its end, and the two windows a sender waits
  for. Other frames arrive alone. The client's initial window is a byte or none,
  raised and lowered as often as it likes, so that a window runs from one below
  zero to two;
- three connections at the server, one of them over TLS, and two flush ticks;
- a graph with a diamond, a longer arm, an input read twice and a node nobody
  reads; a limit of two nodes, or two jobs of four;
- `MCUrls`: one origin at three ports, one in clear, a host below it and a
  strange one; cookies of a host, of a domain, secure, expiring and deleted; two
  hops, two requests;
- files of no and of three bytes in two versions, moments that share a second
  of the validator's clock, and ranges inside, across and outside the file;
- tables of two and three routes that meet at literals, at converters of both
  ranks and at the rest; all paths of three segments over four words;
- command lines of three tokens against a program with one subcommand; input
  of five characters in chunks of up to three;
- four log records over a capacity of two; files of two lines' size or three
  hours' age, three lines, and a clock that is put back once.

A `Feed` of five frames has events with and without an id, a retry hint outside
its window, and an id that comes with no event.

Deadlock is not checked in the runs whose clock, budget of interruptions or
script comes to an end: having finished is no deadlock there. In the two
composite runs a component stops when its inputs are used up.

Type invariants are proved rather than checked where a proof exists.

### Fairness

`MemoryScheduler`: time passes, the timer half keeps sweeping (`waking` ticks
for the life of the process), each worker keeps pulling and each pass ends
(weak fairness). Failures are bounded, since a workflow that fails on every
pass is by design retried for ever.

`Worker`: every task that can take its next step takes it (weak fairness per
worker on `advance` and on the ticker's second half); a slot that is free
again and again when a wakeup is visible takes it (strong fairness, as two
slots compete for one entry and a worker's loop polls for ever); a claim
lapses when nobody renews it; a delivery becomes visible when nobody keeps it;
deadlines pass; and a client resubmits until it is told the answer has been
taken, which is what `arrive` asks of it. Nothing is assumed of a claim or
delivery that is being renewed, and nothing forces an interruption.

The other specifications that are run state safety only and assume no
fairness.

## What is proved

TLAPS checks every theorem below for all values of the constants, under the
assumptions named in the modules. The argument is the same throughout: an
inductive invariant, of which the property is a part or a consequence, is shown
to hold initially and to be kept by every action, one lemma or one step per
action; a refinement maps every action to an action of the abstract
specification or to a stutter, using the invariant.

**`Checkpointer_proofs`**, without using the bounds:

- `TypeInvariant`, then `ClaimsInvariant`, the inductive invariant the rest
  rests on: deadlines are in order, no Pass outranks the fence
  (`NoPassAboveFence`), and no two live Passes carry one token
  (`TokensDistinct`). `OneWriter` alone is not inductive: a Pass that equals
  the fence is alone only because tokens above it have not been minted.
- from it `Exclusion` (`OneWriter`), `DeadlineWithinBudget`,
  `DeadlineIsEarned`; and `RecordsInvariant`, with `TokenOrder`
  (`WritesInTokenOrder`) and `EffectOnce` (`EffectWithItsRecord`), which need
  that no record is from above the fence and that a recorded key stays so.
- the action properties `LogsGrowOrGo` and `DiscardsFence`.
- `ImplementsLog`: `Spec => LogSpec`, by mapping each action to one of
  `FencedLog` or to a stutter.
- `ImplementsPassLog`: `Spec => PassSpec`. The writer of `PassLog` is chosen
  among those the fence lets through; the claims invariant makes that choice
  unique, so a step moves the writer only where it moves the fence or a Pass.

**`Programs_proofs`**, of what a program keeps in its own memory. Of the queue of
`MemoryScheduler`: `TypesHold`, `WakeupsAreKept` (`NoWakeupLost`), `CancellationsStick` (`CancelSticks`) and the action property
`TakeoversAreFair` (`TakenOverWhenSilent`), from `QueueInvariant`. The store
finds a delivery by its receipt and a worker believes what it was handed, so
the invariant says that receipts name deliveries (`ReceiptsDiffer`) and that
both sides agree on what for (`HandsAgree`): without it a late answer might put
a cancelled workflow to sleep. `PromisesKept` (the store keeps a delivery at
least as long as its taker was told) is what makes a takeover fair, and
`SleepersFinite` is needed because those that are due are put into a sequence,
however many workflows there are. `PickedIs` is the lemma the deletions rest
on: of a sequence's elements at some of its places, all stay, and in order. It
is proved by counting ranks and not by induction over the sequence.

Of the router, for any table of routes, any path and any texts its converters
take: `RoutesDeclared` (`RoutesAsDeclared`), from `RoutesInv`. The property says
which route answers without a trie; the walk goes down a trie and turns back.
What joins the two is that a node of the trie is the keys that lead to it, so
that a route that takes the path is below a branch exactly as its keys begin
with the branch's (`TakerGoesOn`, `TakerEnds`). `WalkHolds` says of the trail:
below one of its branches is every route that takes the path, branches stand in
the order the routes below them precede each other in (`Ordered`), each has
taken the path as far as it goes, and holds for each parameter behind it what
stands in its place (`OnPath`, `Given`). One branch is tried before another
where their keys part, by the kind of the key or the row that brought it
(`TriedBefore`), and what is below them is ordered alike (`PartBelow`,
`PartPrecedes`); no two rows end at one node, as such a table is refused
(`LeavesApart`).

**`Worker_proofs`**, over any script, any number of workers and workflows and
any bound on interruptions: `TypesHold`, `EffectsArePaidFor`
(`RepeatsArePaidFor`), `TransactsOnce` (`TransactedOnce`), `RecordsInOrder`
(`RecordedInOrder`), `RunnableQueued` (`RunnableIsQueued`), and the two
refinements `WakeupsAreUsed` (`Spec => Queue!Spec`) and `PassesAreFenced`
(`Spec => Log!Spec`). The inductive invariant `WorkerInv` has, besides types:

- where a task is and what it has come to (`OutcomeFits`), and that whoever
  the fence lets through, or whose delivery is live, is at work on that
  workflow (`NewestIsAtWork`, `HolderIsAtWork`);
- that a pass has seen nothing that is not recorded (`SeenIsRecorded`), that
  the newest one has seen every record but an answer that came since
  (`NewestKnows`), and that it performs the step it is at (`PerformsItsStep`);
- that repeats are paid for before they happen (`EffectsArePaid`). Counting
  effects against interruptions is not inductive: an interruption is spent
  when a claim lapses, and the effect may come much later, from a pass that is
  stale by then. So the invariant counts, on the side of what is owed, the
  effects still to come from stale passes and from a newest pass whose claim is
  not alive, and credits the effect whose record is on its way;
- that what clients were told is recorded, what the holder of a live delivery
  cannot know was not told before it loaded, and what a pass ended with is so
  (`InputsAreRecorded`, `HolderKnows`, `EndsWhereItCame`), from which it follows
  that a workflow that could get on keeps its wakeup (`WakeupIsKept`). The last
  names the first unsettled operation instead of choosing it. That there is
  one is proved from the well-foundedness of the naturals, as the prover cannot
  use an induction theorem that takes an operator.

**`Stepwise_proofs`**, over any branches, scripts, durations and combinators, any
number of passes and messages: `TypesHold`, `ReadsReplay` (`ReadsReplayAlike`),
`EffectsOutlive` (`EffectsOutliveCancellation`), `CompletedOwes`
(`CompletedOwesNothing`) and `DeadlinesAreReported`
(`EveryDeadlineIsReported`). The last assumes that `gather` is not among the
combinators: with it the property is false, as the run `stepwise_gather` shows.
The inductive invariant `StepwiseInv` (`StepwiseInvariant`) has, besides types:

- what replay rests on: a pass knows nothing that is not recorded and the
  newest knows every record but a client's answer (`KnownIsRecorded`,
  `NewestKnows`); a branch is recorded as a prefix of its script, and a task is
  where what its pass knows ends (`RecordedInOrder`, `TasksAreBehind`), so that
  two passes that come to one operation have the same ones behind them;
- for the inbox, that a read's record lies between the cursor before it and
  what was delivered, and that what was handed to a body is what the records
  give (`ReadsAreBounded`, `HandedIsRecorded`). That the cursor before an
  operation is the same for whoever has recorded what is before it is a lemma
  about the model's `After`;
- for deadlines, that every suspension is noted, that what is noted is known,
  and that the newest pass has noted every deadline still to come
  (`SuspensionsAreNoted`, `NotedIsKnown`, `DeadlinesAreNoted`). It is kept when
  a pass begins because a sleep still to come is the last record of its branch,
  so that the branch is at it once the first segment has run;
- for an effect, that it is recorded, or held by a pass that is in it
  (`TasksFit`), which a cancellation does not change as `settled` waits;
- that no task is left behind by a pass that is over, unless a `gather` raised
  (`EndedIsOver`).

Most actions change neither the records nor what passes know of them. They are
`Calm`, and one lemma (`CalmKeeps`) serves them all; the writes of the newest
pass, which move the records, have a lemma of their own (`LandsKeeps`).

**`Stores_proofs`**, for any steps, windows, commands, processes, sessions,
workflows and consumers:

- `WindowsHonoured` (`WindowsAreHonoured`) from `WindowsInvariant`: a claim is
  in order, a window granted lies inside the budget and its answer was at most
  `Lag` on its way, what a ticker keeps alive lapses only with the budget, and
  what a pass counts on without one lies within its liveness.
  `ExtendingAssumption` says that an answer takes less than a tick of the ticker
  is worth, and no longer than a window.
- `StoredStays` (`StoredIsStored`) from `SqliteInvariant`. The guard belongs to
  the thread that is inside and not to its caller, who may be gone
  (`GuardIsInside`); a thread that has begun has the write lock, and what it
  wrote lies in its connection's draft (`LockIsHeld`, `DraftIsOpen`), so the
  file changes by whole commands only (`FiledSoFar`).
- `EffectsHaveRecords` (`EffectsMatchRecords`) from `PgInvariant`. The row lock
  of the fence has one holder; while it is held the fence stands still, so that
  a fence once checked is still passed at the insert; of the inserters of one
  step one goes on and the others wait for it; and a deletion drops every row a
  Pass has signed.
- `OwedStays` (`OwedIsKept`) from `StreamInvariant`: ids rise, an entry's taker
  is who was handed it, and whatever a sweep of `cancel` has passed is gone, as
  it goes on from behind what it read (`SweepGoesOn`).
- `CheckpointsOutlive` (`CheckpointsOutliveSilence`) from `RcInvariant`. The
  difficulty is a fence that expires: the next token must be above those from
  before. A token is ahead of the clock by no more than was minted, and the hash
  lives `Ttl` longer than the last script that passed it, so by its expiry every
  token is behind the clock, which seeds the next. `RedisAssumption` makes this
  precise: no more claims and deletions in all than a ttl has ticks.
- of the queue scored by visibility: `TypeInvariant`, `CancellationSticks`,
  `LeavesOnlyAnswered` and, given marked receipts, `WakeupsKept`
  (`AskedIsKept`), `ReceiptsExclusive` (`OneLiveDelivery`) and
  `ImplementsWakeups` (`QueueSpec`). The last two rest on `SharedInv`: a receipt
  of this tick is still the entry's, or the entry is gone, or its workflow was
  made ready in this tick; so a take or a renewal finds another worker under the
  receipt it writes only in that last case, and later arrivals only end both.
  The marks matter through parity: receipts are odd half-ticks and named
  moments even ones, so a live entry is one nobody asked for, and asking ends
  every delivery.

**`Tasks_proofs`**, for any jobs, graphs, callers, sinks, records and bounds:

- `PulledAccounted` from `LimiterInvariant`, and `DriveSound` (`DriveIsSound`)
  from `DagInvariant`: each key is in one place, each release is counted, and
  what is done is in the store.
- `PoolHolds` (`PoolIsSound`) from `PoolInvariant`. A permit is free or with
  one of the callers that count as its holders, but a connection that comes
  back is in the pool before whoever is granted its permit borrows, so places
  are counted apart from permits: idle connections and borrowers together never
  exceed the bound. Nobody borrows before the origin is known to speak
  HTTP/1.1, so the one that finds this out finds every permit free.
- `BridgeStrandsNothing` (`NothingStranded`) from `BridgeInvariant`. Room is
  conserved: what is free, what is in the hand-over and what the thread has set
  out for make `Ahead`, and the consumer's leave makes one more (`RoomCounted`),
  which is what the thread wakes by.
- `SinksSeeAll` (`EverySinkSeesAll`) from `WiringInvariant`. A value goes on
  every queue in turn before the next is read (`PutInTurn`), so that queues
  differ by the value being put; a sink returns only from a queue that is shut
  and empty (`ReturnedEmpty`).
- `LogAccounted` (`LogIsAccountedFor`) from `CaptureInvariant`. That the sink
  gets records in order needs that those on their way to the loop stand behind
  all it has taken in (`TakenBefore`), and that none but a straggler's stands
  behind the wakeup that ends a block's flush (`OnceWaking`).
- `RotationKept` (`RotationHolds`) from `RotateInvariant`. What is not flushed
  is the end of what this process wrote (`CountsAgree`), and a line that was
  flushed stands where no crash reaches (`SettledStand`). The size of a file is
  a recursive function; that a line adds its own size to it is proved by the
  least number at which it would not (`SizeGrows`).
- `ResponsesWhole` (`WholeOrRaised` and `CreditComesBack`) from
  `ClientH2Invariant`. While nothing was lost - no connection down, no stream
  broken, no consumer gone - the window's credit is what is free, what lies in
  queues, what is in a consumer's hand and what an event still brings
  (`Balance`). The balance is stated under that condition because an aborted
  stream's credit does not come back, and the condition, once false, stays so.
- `SecretsStayHome` (`CredentialsStayHome`) from `MiddlewareInvariant`: a
  request that carries credentials is for the origin they were given for, every
  cookie in the jar was one its setter might set, every cookie carried fits the
  URL it is carried to (`CookieFits`), and a caller's open bodies, less one for
  each of its calls that raised on a location, are that of the call it is in.
  Hosts and paths are sequences, and
  that matching by suffix or prefix respects their segments is a lemma on them.
- of bodies in a content coding, `CodedBodiesWhole` (`CodedWhole`) from
  `CodingInvariant`: what was read is the beginning of what was written, and
  the decoders stand where it ends (`ReadUpTo`).

**`Servers_proofs`**, for any connections, streams, windows, limits and flush
ticks:

- `ShutdownReaches` (`ShutdownReachesAll`) and `DownIsQuiet`, from
  `ShutdownInvariant`, which says what each phase of the shutdown has put
  behind it.
- `LifespanKept` (`LifespanIsKept`) from `LifespanInvariant`: what the
  application's task has come to (`TaskSays`) and what its host may conclude
  from it (`HostKnows`).
- `SessionsAreTold` (`SessionIsTold`) from `SessionInvariant`: messages put are
  messages given and those in the queue, and a farewell is the last of them.
- `ExchangesSound` (`ExchangesAreSound`) from `ExchangeInvariant`. What a
  connection has buffered, has on its way and is still being sent makes a flow
  of heads, bodies and ends (`Flows`), and the server's place in it is known by
  what the exchange has read; reading past an end leaves a flow that begins
  with a request.
- `ConnectionsSound` (`ConnectionIsSound`) from `H2Invariant`. A stream is
  opened once and before its body, and ended once and behind it, over the wire,
  the events of a read and the queue of its task (`OpenedOnce`, `EndedOnce`); a
  sender is parked only with no room, unless what wakes it is among the events
  still to be handled (`WokenUp`); credit with h2, in events and in queues never
  exceeds the window, and makes it up where every task that is over has read
  its body to the end (`CreditKept`); a window is below zero, and an answered
  stream not ended, only on a connection whose client has lowered its initial
  window (`H2Conns`, `AnswersFit`). Equality alone is not inductive: a task
  that ends early drops its queue unacknowledged. One step handles several
  events, so the invariant is stated of any wire, events and tables, and proved
  of one event at a time.
- `CodedAsAgreed` (`EncodedAsAgreed`) from `CompressionInvariant`, which says
  of each state of the middleware what has been sent, withheld and encoded.
  An application may yield nothing behind a head that declares a length, as for
  a HEAD: nothing is encoded then, and the length stays what a GET would carry.
  The choice among the codings on offer is a recursive function over the
  server's table; that it picks a coding of greatest weight is proved by the
  least place at which it would not.
- `FilesHold` (`FilesAreSound`) from `FilesInvariant`. A copy is of the version
  whose validators it bears unless the response that made it was disturbed or
  two versions share a validator (`IsOf`, `Mixed`), a response reads the version
  it was decided for or a later one (`HandleKept`), and modification times and
  those of sidecars rise with the versions (`TimesRise`, `SidecarsRise`). That
  versions of one second may be confused is excepted of every 304, of one by
  tag too, where TLC finds no need of it.
- `FeedResumes` (`ResumesWithoutGap`) from `SseInv`, for any feed, chunk size
  and line terminator. A position is a place in what a producer writes: frames
  behind it, lines of the next frame or of a heartbeat, and whether a line or a
  line end is half written. What is on the wire is a path between two positions
  (`Path`), and cutting a path leaves a path; the parser fits the position the
  wire begins at (`Fits`), a return it holds being counted as read; and one mark
  takes both on, letting out what is dispatched between the two positions
  (`MarkLands`). What is in hand, with what the held return would let out, is in
  the feed's order and without a gap behind what was handed over (`InOrder`,
  `UpTo`). The frames, the chunk read and the parser's run over it are recursive
  functions, for which the least number again does what induction would.

**`Services_proofs`**: each component of the composition `MCServices` takes its
own steps or none (`TasksRunAlone`, `ServersRunAlone`, `ClientsRunAlone`), so
that what is proved of it alone holds side by side with the others:
`StreamsDelivered` (`StreamsDeliver`), `ServersSound` (`ServerIsSound`),
`ClientSound` (`ClientIsSound`), `AnnouncedSent` (`AnnouncedIsSent`) and
`FeedResumesBesides` (`ResumesWithoutGap`).

The assumptions are those named in the modules: durations positive, inbox keys
apart from step keys, the script a sequence of operations, `NoWorker` and
`NoWorkflow` outside the sets they extend, finite sets where they are counted,
the marks and bounds of their kind; tables of routes and paths of texts, request
paths that begin with a slash, a table of
codings without repetitions, files whose sizes and times are numbers, a feed
whose events have a line of data at least, as `_data_lines` gives them.

### Only model-checked

- Liveness (`Finishes`, `EveryWakeupServed`), as temporal reasoning under
  fairness and `ENABLED` are out of the prover's reach;
- what recursive definitions compute for every input, since the library's
  induction theorems take an operator as a parameter, which no prover
  installed instantiates: the reading of `CommandLine` (`CommandLineIsSound`),
  which selects from and flattens sequences. Where a recursive function is of
  numbers, an argument by the least number at which a claim fails does serve,
  as in `Tasks_proofs` and for `EventStream`.

## Where the code and its documentation disagree

1. `MemoryScheduler.wake_at` (memory.py:356) writes a workflow's deadline over
   whatever deadline is there. When two deliveries of one workflow are
   outstanding, the later answer puts off the sooner wakeup, which
   interfaces.py:440 forbids. In practice: a worker that finds a workflow
   claimed asks to look again in a few seconds; the pass it lost to then
   suspends for days, and the look is gone. (`memory_scheduler_deadline`)
2. The SQL queues recognise their own delivery by `visible_at`. A wakeup asked
   for at exactly the moment the lease ends is the same number, and is deleted
   by the pass that finishes (store.py:347), where the comment above it says
   the equality is the whole check. (`visibility_table`)
3. `delete` cancels and then discards so that "a crash in the window costs a
   second call rather than a second run". A worker that has taken its delivery
   before and claims after (worker.py:149) gets a fresh token, loads no
   records and runs the body from the top. The documentation names two doors a
   pass comes back through; this is a third. (`worker_delete`)
4. Under `asyncio.gather` the first suspension leaves the body at once and
   `resume` (stepwise.py:888) reports what was reached so far, while the other
   tasks go on. A sleep one of them comes to afterwards is recorded and noted on
   a `Run` nobody reads any more: the pass reports that it waits for the outside
   world, and the deadline wakes nobody. docs/without-durability/index.md:277
   says of `gather` that which combinator the workflow used is not something a
   client should be able to detect; a TaskGroup's pass reports the deadline.
   (`stepwise_gather`)
5. The Postgres inbox numbers a message when the statement runs and shows it
   when the transaction commits (store.py:322). Two appends may commit in the
   order opposite to their numbers; a receive between the commits takes the
   later message, and its cursor passes the earlier one, which is then never
   handed to the body. interfaces.py:288 asks that keys sort into append order.
   (`inbox_order`)

### Observed while modelling

These are behaviours the models have, with no run of their own.

- Queue and stores: a Redis stream `cancel` sweeps in steps, and a suspension
  between its ZREM and its XDEL queues the workflow again; SUSPEND's ZADD
  overwrites a sooner deadline. A discard of a workflow without a claim row
  leaves an old Pass unfenced in Postgres, and so does one in Redis whose pass
  hash expired; a Redis effect that fails keeps what it changed. In Postgres a
  transact that finds a supplied value rolls back, and a deletion at that
  moment makes it raise ValueError.
- Workflows: a step naming a short window without a ticker shortens the
  claim's liveness for steps beside it, where `extend` "takes nothing away"
  (interfaces.py; docs/without-durability/index.md:361). A second cancellation
  cuts the teardown of a graph; `cancel_futures` stops at the first pending
  future that fails.
- HTTP client: a request may stay parked at the gate of an HTTP/2 connection
  (`GateNeverStalls` fails under `H2FairSpec`, against `_open_stream`'s
  docstring); the credit of an aborted stream is not returned (client.py:854);
  a truncated body of a connection that went down ends as if complete
  (client.py:891; `WholeOrRaised` excepts it). `follow_redirects` raises with a
  response open when its location does not parse (client.py:1603; `aclose` comes
  at 1615), though `request` says it never strands a connection
  (client.py:1374-1376): `CredentialsStayHome` counts those bodies, one for each
  such call. It also sends one-shot bodies again empty, and counts only "http"
  as a downgrade. Zstandard decoding fails when a frame ends at a read's boundary
  and another follows, where the docstring has it decode whole
  (client.py:1905-1908); `CodedWhole` excepts it.
- HTTP server: DATA of a stream already gone is not acknowledged, and the
  connection's window shrinks; a 400 or 500 body may wait for ever on an empty
  window. A client that lowers its initial window below what was sent leaves a
  window below zero: h2 refuses even the empty chunk that ends a response, the
  refusal is swallowed (server.py:660-661), and the response is answered and
  never ended; `ResponsesEnd` excepts what was answered on such a connection. A
  task cancelled before its first step leaves its entry behind; a
  WebSocket `receive` after the application's own close waits for ever, where the
  comment says that every end of a connection becomes a disconnect
  (server.py:367-369); `SessionIsTold` excepts it. The
  lifespan of a host cancelled in startup or shutdown leaves the application's
  task, and an application that reports a failed startup and never returns
  hangs its host. `_closing` closes only the outermost stream.
- Files and web: an `If-Range` by date joins versions written within one
  second; a file replaced between stat and open is sent under the first one's
  validators; a sidecar written in the tick of a rewrite is accepted stale.
  Streaming and WebSocket endpoints extract before `catching`, so an extraction
  error is a 500 where the docs say 4xx; `url_for` may render a path that routes
  elsewhere; routes differing in parameter names only are refused even for
  different verbs. On a command line, `--` before a subcommand's name has no
  effect on the child.
- Streams and logging: a reader of a closed sample that calls `updated()`
  waits for ever. After a restart rotation may overshoot `max_bytes` by a line,
  because the decision is not made again after rotating; `at_times` in a zone
  whose clock is put back rotates on every line of the repeated stretch; a torn
  tail after a crash is joined to the next process's first line; a cancellation
  inside `capture`'s `sleep(0)` leaves the sink on a queue nobody shuts.

## Not modelled, and why

Whole components: the checkpoint codec (pure encoding; first-writer-wins does
not look inside a value), HTML rendering (string manipulation), configuration
and environment (reading into values), HTTP testing, TLS and socket options
(wrappers of the library), benchmarks and integration examples. About 2700
lines of `src/` are overloads and signatures of typed decorators.

Within the modelled parts:

- polling and blocking reads (`within`, `idle`, `parked`): when a call returns
  empty-handed nothing changes;
- a record still on its way to a remote store when its worker's process dies;
- a Durable whose two halves are one commit: its behaviours are those in which
  nothing comes between the halves;
- the timer half of a worker and `halves`, which need a model of task groups;
- several workflows in a run of `Worker`: they share the queue's order of
  service only, which `VisibilityQueue` has. The proofs are for any number;
- in `Stepwise`: a write that reached the store although its answer was lost
  (such a sleep, cancelled meanwhile, has a deadline nobody reports, as nobody
  knows of it); a body that does anything around its fan-out; deletion during a
  pass, which `Worker` has;
- a capturing combinator may also capture `Fenced`, and the body then reports
  the workflow finished. The model allows it and no property forbids it: the
  delivery that pass answers for is no longer live;
- values: a record's value never decides what a store does;
- what h11, h2, wsproto, the codecs' libraries and asyncio do is taken from how
  the code uses them; table definitions, usage texts, OpenAPI documents and the
  walk of an asset tree are data mapping.

## Plan

Written, checked and proved: everything above. Left, in this order:

1. proofs for `CommandLine`;
2. a model of task groups, for the worker's `halves`.
