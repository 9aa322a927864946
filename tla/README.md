# Verification of the financial research terminal

TLA+ models of the parts of this repository whose correctness depends on the
order of things: concurrent screens, fetches, transactions, child processes,
streams, timeouts, cancellations, crashes and shutdowns. TLC checks the models
on small instances; TLAPS proves for every instance that ten of the models
keep most of their safety properties and that the portfolio workflows implement
their one-step specification. Source paths below are relative to the
repository.

- [Running the checks](#running-the-checks)
- [The system](#the-system): its components and what makes each correct
- [Modules](#modules): what models what
- [Runs](#runs): what is checked, with which bounds and fairness
- [Proofs](#proofs)
- [Findings and confirmed limits](#findings-and-confirmed-limits)
- [What is abstracted](#what-is-abstracted)
- [Not modelled](#not-modelled)

## Running the checks

    tlc -workers 2 -config Subscriptions.cfg Subscriptions.tla
    tlapm ResourceCacheProofs.tla

`PROJECT.json` lists every run with its module and configuration, the source
lines each definition models, the hazards, and for each property a mutation of
the model that breaks it. Definitions marked `(mutant)` in the modules are
those mutations; no run uses them.

## The system

A desktop application (a Tauri host in Rust with a React web view), native
Rust services for market data, portfolios and research runs, a Rust engine of
financial tools that runs as a child process, an optional Rust server, and a
FastAPI backend with a research agent and providers. The components, the state
each keeps, its operations, and what has to hold:

| Component | State | Operations | What makes it correct | Model |
| --- | --- | --- | --- | --- |
| Subscription scheduler, `terminal-engine/src/subscriptions.rs` | owners and the resource each wants, one entry per resource, running fetches, a published map with revisions | subscribe, unsubscribe, tick, completion, stop | a fetch counts only for the entry that launched it; what is published is the state; nobody is starved; stop ends | `Subscriptions` |
| Web view hook, `frontend/src/subscriptions.ts` | per screen: the request, the latest update, epoch and generation, timers | mount, unmount, hide, show, refresh, replies, events | a visible screen is subscribed and current; no subscription outlives its screen | `LiveFeed` |
| Command bridge and resource forwarder, `frontend/src-tauri/src/terminal.rs` | a broadcast receiver | subscribe, unsubscribe, recover; forward notifications | no update is lost when the receiver lags | `LiveFeed` |
| Desktop session, `frontend/src-tauri/src/terminal.rs`, `lib.rs` | a mutex with the session, exit flags, the startup cancellation | start, commands, quit, close, the ordered shutdown | an exit leaves nothing running and is never lost | `DesktopSession`, `Desktop` |
| Engine worker, `terminal-engine/src/lib.rs` | the published snapshot, a schedule of fetches with history generations, running tasks, a message queue | start, select, range, edits of lists, desks, charts, keys and browsers, commands, fetch completions, stop | an answer is shown only for what is selected; what is shown is saved; edits do not undo each other; stop ends | `EngineWorker` |
| Workspace documents, `terminal-core/src` | none | validate and edit lists, layouts, charts, browsers, keys | an accepted edit leaves documents that can be saved and loaded | `WorkspaceDocuments` |
| Workspace store, `terminal-storage/src/lib.rs` | SQLite tables of a namespace, a worker thread | open with migration and seeding, load with upgrades, list, save, save lists | lists and preferences change together; opening repeats safely | `WorkspaceStore` |
| Resource cache, `terminal-engine/src/resources.rs` | a bounded map of shared cells, their locks, permits | request, next due, stop | one flight per request, retry delays, last success kept | `ResourceCache` |
| Equity screens, `terminal-providers/src/lib.rs`, `equities.rs`, `screening.rs` | snapshots of markets behind a mutex, the pages of a load | read a screen, load pages concurrently, accept, cache | a snapshot is one version of one source; screens show each instrument once | `Screener` |
| Portfolio workflows, `terminal-engine/src/portfolio/` | none between calls | create, rename, delete, record, correct, import | each takes effect at once or not at all, on the current revision | `PortfolioService` |
| Portfolio store, `terminal-storage/src/portfolio.rs` | documents with revisions, a request queue, a worker thread | load, commit, shutdown | limits, revision check, no lost reply | `PortfolioService` |
| Portfolio ledger, `quant-engine/src/portfolio.rs` | none | accept or refuse a history | no sale of what is not held | `PortfolioLedger` |
| Research runs, `terminal-engine/src/research.rs` | a bounded table of runs, a task and an event channel each | start, cancel, list, the task's select, shutdown | one run per conversation, no answer lost, cancel and shutdown end | `ResearchRuns` |
| Financial engine, `mcp-server/src/main.rs`, `supervisor.rs` | the handshake, pending requests, tasks, permits, a child process per job, the writer's queue | call, cancel, answer, kill and reap, stop | a cancellation reaches its own call only; children are held by permits; every call ends | `FinancialEngine` |
| Snapshot store, `data-pipeline/src/store.rs` | records, Parquet files, an index per series | import, load | an index never names half a snapshot | `SnapshotStore` |
| Market service of the Rust server, `terminal-engine/src/market.rs`, `terminal-providers/src/native*`, `terminal-server/src` | a bounded cache with a byte limit, flights, upstream slots, cooldowns, the Yahoo session, the key cache | authenticate, look up, load, trim, drop | one load per resource; nobody waits in a circle | `MarketServer` |

The Python services and pure computation have no module; see
[Not modelled](#not-modelled).

How they interact. The host starts a session when a web view asks for it: it
asks the backend who the user is, opens the database of that namespace, starts
the engine and spawns two forwarders. From then on a screen's hook invokes
desktop commands; a command takes the session's mutex, clones what it needs and
puts a request in the queue of the scheduler or of the engine worker. The
scheduler fetches through the resource cache, which asks the desktop's provider;
it publishes a map of updates and broadcasts the owners that changed; the
forwarder turns broadcasts into window events, and the hook applies replies and
events, whichever arrives first. The engine worker saves edits through the
store's thread and publishes a snapshot after every handler. Portfolio commands
call the workflows, which read and write through a store of their own and wait
for quotes from the resource cache in between. Research commands start tasks
that read an event stream of the backend; the backend's agents call the
financial engine, which registers snapshots in the snapshot store. Exit cancels
a start or stops forwarders, engine and storage in order. The optional
Rust server has the portfolio workflows in common with the desktop, and its own
market cache and providers.

What is hard: commands, replies and events that overtake each other; fetches
that complete after their entry has gone; a broadcast receiver that lags; a
document read before an await and written after it; a caller that is dropped
while a worker commits; a save that fails after the edit; an upgrade that is
interrupted between two commits; a child process that is killed between two
files; pages of a changing upstream; locks held while waiting for slots;
queues, tables and permits at their limit; stop in the middle of any of these.
`PROJECT.json` lists each such hazard at its line, with the properties that
cover it or why none does.

## Modules

**`Subscriptions`** is the scheduler's loop. Its variables are those of the
loop: `owners`, `entries`, the set `tasks` of running or finished fetches,
`generation`, and the published `latest` and `revision`; `phase` is where the
loop is. A command, a tick, a joined task and stop are one action each, with the
publication that ends the handler inside the action. Payloads and errors are the
version of the fetch that brought them. A fetch task is a record with the
generation of the entry that launched it and a status, so that an aborted task
may still have finished, as in a `JoinSet`.

**`LiveFeed`** extends it with the web view, the command bridge and the
resource forwarder. The web view is one thread: a turn of its loop is one action.
`calls`, `replies`, `notes` and `events` are what is in flight on the four
paths. `conditions` is constant in a behaviour: which screens there are, whether
commands may be handled out of order, whether release timers may be late, how
often the resource falls due again, and whether the window gets the focus and
recovers.
The scheduler's own actions are conjoined with what they broadcast.

**`ResourceCache`** models a request step by step between its awaits: look up
and evict under the map's lock, wait for the cell's lock, wait for a permit,
answer. `calls` holds where each caller is, and with it which locks and permits
are held. A cell that a call holds is not evicted. An error of a provider marks
what the cell has as stale, but for a feature list, which it empties.

**`PortfolioLedger`** has the pure parts: which histories the ledger accepts,
how the rows of an import get their ids, what each workflow makes of a document
and when it may. **`PortfolioService`** models the concurrent workflows over the
store's thread: `documents` is the database, `queue` the requests, `ops` where
each caller is (with what it loaded and what it will commit). A caller may be
dropped with its request queued; the process may crash and reopen.
**`AtomicPortfolios`** is what they promise: one step per workflow on the
document of that moment. Calls may name one id however they like: create it
twice at a time, create it again, or create it after a deletion, when its
revisions start again (`reused`); then a workflow may have computed its change
from an earlier document of that id with the same revision (`Bases`).

**`ResearchRuns`** models the table of runs and each task's three-way select.
A stream may send any event, fail or hang. Threads are sequences of their
`__`-separated parts, so that the comparison of plain and qualified names is
the code's. The end of the stream drains the channel in the same step, as the
code does without an await. Shutdown takes the table and joins one task after
the other: one that has not ended in 250 ms is aborted (`TimesOut`), dropped at
its next await (`Aborted`), and only then joined.

**`WorkspaceDocuments`** has the documents of a workspace and their edits:
lists, layouts with panels, drawings, browser settings and presets, keys. An
edit is an operator that returns the set of its results, empty when the code
returns an error, so that a refused edit disables what follows it.
**`WorkspaceStore`** is the SQLite thread: `disk` holds the rows, and each
step of the migration, of the seeding and of a save is one transaction; whether
the namespace is `existing` is whether its preferences have a row. A
request may fail; a crash loses the request and its reply and keeps the disk.
**`EngineWorker`** extends both with the worker's loop: `phase` says which
await it is at, `shown` is the snapshot, `draft` the documents being saved,
`inbox` the accepted messages, `fetch` the legacy scheduler with its history
generation, its schedule and its `JoinSet`. A handler that saves ends in
`saving`; `Finish` takes the reply and either publishes the draft or reports
the error. A web view edits what it saw when it wrote the message.
`scenario` is constant in a behaviour: which messages are sent, which database
is found, and how many messages and restarts there are.

**`SnapshotStore`** is an import, file by file: each is written under a
temporary name, renamed and then its directory synced; the index follows the
files it names. `files` and `index` are what is seen, `synced` and
`syncedIndex` what a power loss cannot take. The sync of a directory does
nothing where the system is not a Unix (`unix`, constant in a behaviour). Several processes import at once
and may be killed after any step. **`FinancialEngine`** extends it with the
server: `server` is the loop and its writer, `pending` the running call of each
request id, `exec` where each task is inside `execute`, `child` the process it
has started and its control pipe. A task may panic; its id is then never free
again, as in `main.rs:272`. A child that registers a snapshot imports it
as a process of the store, and so does `import` on the command line.

**`MarketServer`** follows a request of the Rust server through its waits: the
mutex of the key cache, the map of entries with eviction by idleness, the
entry's lock, a flight, and the upstream requests of the resource, each with
its slot, its host's cooldown and, for options, the shared Yahoo session with
its cookie and crumb. Mutexes are sequences of those who asked. The `last_used`
instants are an order between cached requests (`used`). A deadline is `Dropped`
at any of these points.

**`DesktopSession`** is the host. `lock` is the session's mutex with its queue,
`calls` where each command is (a start looks at the exit flag, asks for the
mutex, and looks again), `woken` who has been notified of the
cancellation, `parts` what the session runs (storage, engine, both forwarders),
`closing` the steps of the shutdown, `app` the flags of the host and whether it
has exited. **`Screener`** is the desktop's equity screens: a load gathers
pages of an upstream that changes between requests and whose gateway may answer
from its cache, checks their provenance and accepts the result or not; a screen
filters, ranks and cuts a page. **`Desktop`** composes the two: screens run in
the session, and its shutdown, which takes it and stops the engine's resources,
drops them wherever they are; a Quit leaves them alone until then.

Each `...Proofs` module extends the module it is named for and holds its
theorems; `LiveFeedProofs` begins with those of the scheduler that `LiveFeed`
extends, and `DesktopProofs` has a part on the session and one on the screens.
The `MC*` modules give constants that a configuration cannot write down;
`MCPortfolioService` also checks over all small files that an import repeated
adds nothing and loses no row (`ImportIsIdempotent`).

## Runs

| Run | Question | Bounds | Distinct states |
| --- | --- | --- | --- |
| `subscriptions` | Do owners, entries, fetches and the published map agree; is the lowest key in demand served; does stop end? | 3 owners, 2 requests, capacity 2, 1 fetch, 4 generations | 71 k |
| `live_feed` | Once things settle, is nothing orphaned or stale; does a subscription end by its own owner's commands only? | 2 screens in order, 1 screen with overtaking commands and late timers, or 1 whose resource falls due again; recoveries on focus; 1 resource | 3.6 M |
| `live_feed_live` | Is a visible screen subscribed and eventually fed, with a lagging receiver and lost unsubscribes? | 1 screen that begins twice, or once while its resource falls due again; 2 resources, queue of 1 | 503 k |
| `live_feed_overtaken` | Counterexample: an overtaken subscribe (see findings) | 1 screen, 1 resource | - |
| `resource_cache` | One flight, retry delay, last success; does every call return? | 2 callers, 3 requests, one unsupported and one a feature list, room for 1, 1 permit | 55 k |
| `portfolio` | Do the workflows implement `AtomicPortfolios`; are stored histories sound; do calls and shutdown end? | 2 callers, 1 id that both may create, 3 trades on three days and 2 files, 4 calls, 1 crash or shutdown | 254 k |
| `research` | One run per conversation, no answer lost, room made by ended runs, the list in order; do cancel and shutdown end? | 3 ids, 3 threads, table of 2, 4 starts and events | 228 k |
| `engine` | Is what is shown of the selection, saved, sound, and changed by its own edits only? | selections, list edits, desk edits, six databases; 2 messages, 1 restart (databases: 2) | 725 k |
| `engine_live` | Is a selection's history fetched; does a stop end? | the same web views with 1 message | 77 k |
| `financial` | Do indexes load, children stay held, ids name one call; does every call end? | 3 calls, 1 permit, queue of 1, answers buffered 1; five plans of calls and imports; a Unix or not | 178 k |
| `market_server` | One load per resource; does every request end without a deadline? | 2 clients; 1 or 2 entries, 1 or 2 flights, 1 or 2 upstream slots; three setups | 32 k |
| `desktop` | Does nothing outlive an exit, does the exit end, are snapshots whole? | 2 commands or screens at once, 6 listings, pages and screens of 2, at most 3 rows | 300 k |

Why the bounds are enough. Every limit of the code (capacity of owners, fetch
slots, cache entries, permits, portfolios, lists, layouts, drawings, table of
runs, channels, pages) is a constant small enough to be reached and passed in a
run, with at least one actor or key more than it admits; the one exception is
the number of portfolios, since `portfolio` has one id for its callers to meet
at, and that limit is in the proof only. A purchase, a sale a day later and the
purchase moved behind the sale are what a history needs to fail in the middle
and not at its end. Two generations of a
key are what a stale completion needs, and one more to show that the counter
itself is right; two callers on one document, and a third revision, are what a
lost update or a repeated one needs; two events in the channel are what the
drain at the end of a stream has to order; two messages are an edit and one
made from the view before it; two restarts are a crash in an interrupted
upgrade and one after it; one permit and three calls are a queue behind a
holder; one upstream slot and a chain that needs three requests while a search
waits is the circle that could close; a second page and a changed source are
what a mixed snapshot needs. Bounds that cut behaviours short are named
`Max...` or are the `messages` and `restarts` of a scenario and the length of a
plan. The revision counter of the scheduler wraps in the code; `subscriptions`
takes it modulo 1, since nothing it checks depends on it, and `live_feed` far
above what it reaches.

Runs that may stop because a bound is reached, or because the host has
exited, say `CHECK_DEADLOCK FALSE`; the scheduler, the cache, the financial
engine and the market server are checked for deadlock.

Fairness, and why the code justifies it:

- Loops and tasks that can go on are polled: weak fairness of their actions.
- Fetches and quotes end: providers have request timeouts (`Subscriptions`,
  `EngineWorker`, `PortfolioService`, `MarketServer`). Research streams may
  hang for their whole 900 seconds and have no fairness. In `Desktop` servers,
  disks, deadlines and the end of the session's parts may take for ever. What
  `ExitEnds` says names its premise: if the two deadlines pass (`DeadlinesPass`),
  a closed window ends the host though a save hangs that the engine awaits; if
  the parts end when told to (`PartsEnd`), Quit and a closed window end it with
  no deadline passing. Quit behind a save that hangs ends nothing.
- Locks and permits are granted in turn: tokio's mutex and semaphore are
  queues. `MarketServer` and `Desktop` model the queues; `ResourceCache`
  assumes strong fairness of taking a lock or permit instead.
- The store's thread serves what it was sent, or dies with the process.
- A child process that can go on does; that its control pipe unblocks it is a
  step of the model, not an assumption. No deadline, interrupt or crash is
  assumed of `FinancialEngine`.
- Commands, replies and events in flight arrive: they are messages within a
  process. Each answer arrives by itself, however often the window recovers.
- `ResearchRuns` assumes only that shutdown itself runs, that its 250 ms limits
  expire and that an aborted task is dropped at its next await. That canceled
  tasks are polled is a premise of `CancelEnds`, not of `ShutdownEnds`: shutdown
  has to end even if they are not.
- Users, screens and callers never have to do anything.

`TakesEffectAtomically` is a refinement: `documents` maps to the abstract
documents, and every concrete step is one abstract step or none. Quotes that
take long, dropped callers, skipped queue entries, crashes and shutdown are
therefore all invisible or all-or-nothing.

## Proofs

Every theorem holds for every value of the constants that its module's named
assumption admits. The assumptions say what the code's types and limits say:
limits are naturals and the revision modulus is positive (`LimitsAssumption`),
sets of keys and callers are finite and numbered as the code numbers them
(`RequestsAssumption`, `CacheAssumption`), the capacity of a broadcast is not
zero (`FeedAssumption`), a thread's name has a part (`RunsAssumption`), a
database found on the disk is one the program wrote, in which every panel shows a
list that is there and one that does not say which dates from before "main"
could be deleted (`WorkerAssumption`), the jobs of a plan are about snapshots that exist (`StoreAssumption`,
`EngineAssumption`), the exit is not a web view (`SessionAssumption`), clients
and resources of the server are finitely many (`ServerAssumption`), a trade
has a side, a day and a quantity and a file is a sequence of them
(`InputsAssumption`), and a listing of the upstream is a sequence of
instruments that an id, where it has one, determines (`ScreenAssumption`; the id
is the moment of the download that Nasdaq's pages are cut from). The bounds of the runs (`Max...`) are constants like any other: a theorem holds
whatever they are, so none of them matters to it.

| Property | Theorem | Under the hypothesis |
| --- | --- | --- |
| type invariant, `OwnersAndEntriesAgree`, `OnlyOwnFetchLands`, `PublishedIsCurrent` of `Subscriptions` | `TypeCorrect`, `SchedulerSafety`, `OwnersHaveEntries`, `OwnFetchLands`, `PublishedMatchesState` | |
| the scheduler behind the window is the scheduler | `FeedRunsScheduler` | |
| `BindingsEndByOwnCommand` | `BindingsEnd` | |
| `NoOrphanSubscription` | `NoOrphan` | the command queue does not overflow |
| `WantedIsBound` | `WantedBound` | commands in order, due timers first |
| `SettledScreenIsCurrent` | `SettledCurrent` | the revision has not wrapped |
| type invariant, `SingleFlight`, `OnlyDueIsFetched`, `LastSuccessKept` of `ResourceCache` | `TypeCorrect`, `OneFlight`, `DueIsFetched`, `SuccessKept` | |
| `TakesEffectAtomically` | `ServiceInvariant`, `ServiceIsAtomic` | |
| `HistoriesAreSound`, and that stored histories are accepted ones | `HistoriesSound`, `HistoriesAccepted` | |
| `OneRunPerThread`, `RunningKeptInOrder`, `AnswerNotLost` | `OneRun`, `RunningIsKept`, `AnswersAreKept` | |
| `ShownIsSaved`, `HistoryIsSelected`, `HandlesAreLive`, `ListsChangeBySaving`, `ShownIsSound`, `ChartsChangeByCharting` of `EngineWorker` | `SavedIsShown`, `SelectedHistory`, `LiveHandles`, `ListsSaved`, `SoundShown`, `ChartsByCharting` | |
| `IndexLoads`, `ChildrenHeld`, `InFlightIsPending` | `StoreIndexLoads`, `EngineUsesStore`, `EngineIndexLoads`, `ChildrenAreHeld`, `RequestsArePending` | |
| `SharedFlights` | `FlightsAreShared` | |
| `NothingOutlivesExit` | `NothingOutlives` | |
| `SnapshotsAreWhole` | `SnapshotsWhole` | |

None of the hypotheses is idle. A full command queue loses unsubscribes (a
hazard without a property), and each of the two races that `Ordered` excludes
breaks `WantedIsBound`: `live_feed_overtaken` shows one. The revision is a `u64`
incremented once per publication; past 2^64 an old update would pass for a new
one. `IndexLoads` is itself conditional (`Promised`): where directories are not
synced, it says nothing after a power loss.

The invariants, and why they are needed:

**Subscriptions.** That an entry's own fetch lands needs that no two entries or
tasks share a generation; that needs that every generation in use is below the
counter; that a fetch is tracked needs that owners and entries agree, since
releasing the last owner is what removes an entry and aborts its task. `IInv`
is the conjunction, kept by each action first through the shape of what the
helpers return (`ReleasedShape`, `SubscribeShape`, `UnsubscribeShape`). The
published map follows from it without another strengthening.

**LiveFeed.** `FeedInv` treats epochs and generations as tokens. Every epoch
was given out by a `begin`, and at most one begin, command or answer in flight
asks for an owner under it (`OneAskPerEpoch`), so an answer that finds its
epoch on the screen is the one the screen waits for, and the screen has no
generation yet (`AskedBeforeBound`). Every generation of an owner is in one
place: on its screen, in an answer, or in a command that gives it back
(`OnePlacePerGeneration`). `NoOrphan` adds that every binding of the scheduler
is in one of the three (`KnownOrGivenBack`): when nothing is in flight only the
screen is left. `WantedBound` adds that a visible screen is bound or something
that nothing overtakes stands for its subscription (`WaitsOrBound`).
`SettledCurrent` is about values: old ones are in flight on two paths and the
hook filters them by generation and revision. Inductive is that for every
owner that has, or waits for, its binding there is a revision from which on
everything in flight and on the screen agrees with what is published, and that
something that reaches this revision is on its screen or still to come - an
event, an answer, or a broadcast that the forwarder has not read or has missed
(`ShownInv`). Once all is settled, the screen is all that is left to have it.

**ResourceCache.** That a request has one flight needs that a call under way
works on the cell that the map has for its request (`HeldIsEntry`; eviction
spares cells that somebody holds) and that a cell's lock has one owner. A fetch
may be started only if the retry delay was found elapsed under that lock, and
nobody else changes the cell until it is given back (`OwnersAreDue`).

**Portfolio workflows.** `ServiceIsAtomic` is a refinement: `documents` maps to
the abstract documents, a commit to one abstract step and all else to none. A
commit is judged by the revision alone, and a creation by the absence of the id,
so the invariant has to say what equal revisions mean: what a call has read was
stored once under its id (`Reads`), what it will write follows from what it has
read, and of an id that was not created again after its deletion no two
versions have one revision. Which of the documents with that revision it was is
what `Bases` leaves open, and only for ids that were. The ledger's helpers are
folds, and that proof never opens them: it only needs that both sides apply the
same ones (`Same...`).
`HistoriesSound` does open them: `HistoriesInv` says that every history anywhere - stored, read, pending in a
call or queued - is in the order of its days and accepted by the ledger, and
an accepted history oversells at no prefix, since the ledger's position after
`n` trades is what they buy less what they sell (`PositionIsDifference`).

**ResearchRuns.** The guard of `Start`, that no running run is of the same
thread, speaks of the moment; inductive is that all running ones are apart.
That a new run comes last needs a bound on the orders kept (`OrdersOK`), and
that an aborted run lost no answer that nobody canceled needs that every task
was told before the first is joined (`ShutdownOK`).
`SameThread` compares by the last part of a name unless both are qualified, and
is not transitive: the proof that eviction and the end of runs keep what the
guard has checked is by cases on the lengths (`ApartMeansApart`). `AnswersAreKept`
needs to know what the drain at the end of a stream will do: `AnswersInv` says
of every run whose first ending was an answer that it has it, or that the
channel holds one and nothing that ends the run stands before it
(`KeepsAnswer`).

**EngineWorker.** `DocsInv` follows the documents from the snapshot into a
draft, a request, the disk and the reply: per phase, what the disk has is what
is shown, or what a request or its reply will make it. `FetchInv` says that
tasks of the present history generation fetch what is selected, and that a
scheduled key with a handle has its task in the `JoinSet`; it needs from the
first that a save leaves the selection alone. `SoundInv`, on top of both, is
about what the documents say, wherever they are: those in a save under way and
those shown name only lists that are with them, and those on the disk only lists
that are there once the database is open (`OpenedIds`), which a crash between two
steps of the upgrade leaves true. That is where the assumption on databases
comes in: an old panel that names no list is given "main". A workspace arrives
from the web view as a document of the right shape and no more, so that
its lists are there follows from the guard of the save alone. A draft has the
charts of what is shown unless it is a chart edit (`DraftInv`), since nobody
edits while a save is awaited.

**FinancialEngine.** Inductive for `IndexLoads` is that the files of every
snapshot named by the visible or the synced index are kept (`Kept`): synced on a
Unix, elsewhere seen as long as there was no power loss. That
needs for each importing process that the files it has passed exist, and are
kept when it is between files. Files stay until a power
loss, so other processes do not disturb it. `EngineUsesStore` shows that every
step of the engine is a step of the store or leaves it alone. `EngineInv` says
of every call that its child lives under its permit and its permit under its
pending request, and counts permits.

**MarketServer.** `SharedFlights` needs that an entry stays while anybody works
on it: whoever is inside works on the slot that the map has for its resource
(`HeldIsEntry`, since only idle entries are evicted or trimmed), the line of a
slot's lock has every call at most once and only calls that are inside with it
(`LinesAreInside`, which a dropped call must leave), and a load is at the head
of its line (`LoadersOwn`). So two loads of one resource are one. That there is
a slot for a new entry is counted: the map and the other calls hold fewer than
there are (`FreeExists`).

**Desktop session.** Until a deadline of the exit passes, a start and a
shutdown have the session's mutex while they work (`LockHeld`), and what runs
belongs to the start, to the session, or to the shutdown that took it
(`Owned`). The exit raises its flag before it asks for the mutex, so no start
gets further than its next look at the flag once the session is taken
(`ExitSeen`).

**Screener.** What a load has so far is kept as `Fetched`: every page is of the
load's source, at an offset of its own that is a multiple of the page size, the
first one is there, and in flight are the requests that may be launched
beside as many answers, less the answered offsets. The load is that of the
mutex's holder, who is in the queue once (`Queued`, `Loads`). When nothing is in
flight no page is missing: were there a gap, all offsets up to the number of
answers would be answered, one more than there are answers (`EveryOffset`). So
the pages are adjacent slices of the listing (`FlattenSlices`), and the check of
the last page that nothing repeats is one of the whole (`AssembledLast`). A row
has as many rows ranked before it as its position says, one position each since
`Ranked` is a strict order (`Positions`), and the screens are adjacent slices of
that order (`ScreensInOrder`).

What a fold computes takes induction over the data, and the library's induction
theorems cannot be instantiated by these provers. The proofs about folds and
flattened sequences (`HistoriesSound`, `AnswersAreKept`, `SnapshotsWhole`), and
the one about renaming legacy desks layout by layout (`SoundShown`), do without: the recursive function behind `FoldLeft`, `MapThenFoldSet` and
`FlattenSeq` is shown to exist by collecting the lengths up to which it does and
taking the least that is missing (`UpTo`), and what it computes follows in the
same way from one step (`FoldSteps`, `Unfolds`).

Only model-checked:

- liveness under fairness, and all that needs `ENABLED`, which the prover does
  not handle: `ServedInOrder`, `StopCompletes`, `ScreenIsFed`, `CallsReturn` of
  the cache and of the portfolios, `StoreCloses`, `CancelEnds`, `ShutdownEnds`,
  `HistoryIsFetched`, `StopEnds`, `CallsEnd`, `RequestsEnd` and `ExitEnds`.

Every other property of the passing runs is stated by one of the theorems.

## Findings and confirmed limits

- **An overtaken subscribe takes a screen's subscription away**
  (`live_feed_overtaken`). Each desktop command is handled concurrently, so two
  subscribes of one owner can reach the scheduler in either order. If the later
  one is handled first, the earlier one takes a newer generation; its reply
  belongs to an old epoch, and the hook gives that generation back
  (`frontend/src/subscriptions.ts:70`), which ends the only binding. The screen
  stays mounted and believes it is subscribed. `frontend/tests/desktop.spec.ts:304`
  expects a panel that is visible again to own a subscription.
- A release timer that runs late, after the screen is mounted again, breaks
  `WantedIsBound` as well; browsers run a due 0 ms timer soon enough for this
  to be unlikely, so only runs that check other properties allow it.
- An unsubscribe that finds the command queue full is lost, and the resource
  goes on being refreshed. `live_feed_live` shows that visible screens are fed
  all the same.
- A portfolio id that is deleted and created again restarts at revision 1, so
  a call that loaded the old document can commit onto the new one. Of such ids
  `TakesEffectAtomically` says only that a workflow takes effect on a document
  of the id that had the revision of the present one.
- A snapshot's files are renamed into place, and the directory is synced only on
  a Unix (`data-pipeline/src/store.rs:70`). On Windows, for which the desktop
  is built and tested first, a power loss may take a file and leave the index
  that names it; `IndexLoads` promises nothing there after one.
- A task of the financial engine that panics never gives its request id back
  (`mcp-server/src/main.rs:272` removes what a task returns).
- An old fetch of a quote that ends after the symbol came back clears the abort
  handle of the new one (`terminal-engine/src/lib.rs:341`), and the quote may be
  fetched twice at a time. No document promises one fetch.
- The worker blocks a key after an authentication failure
  (`terminal-engine/src/lib.rs:348`), which a unit test shows with an `Http`
  error. In the program the fetches go through the resource cache, and `launch`
  makes every error a `Payload` (lines 316 and 325), so no key is ever blocked.
- A full table of research runs makes room by id, not by age, and a full
  resource cache evicts whatever the retry delay; no document says otherwise.
- Yahoo's regional listings carry no snapshot id, and the id of its US listing
  names the totals of the exchanges only (`rest` in `Screener`). Such pages are
  checked for counts and repetitions: they may mix versions when the
  listing changes between two pages and its totals do not. `SnapshotsAreWhole`
  promises one version only where the source names it.

## What is abstracted

Data is abstracted to what the properties tell apart: payloads and errors are
version numbers or flags, texts names, prices and costs are left out. Text
validation decides between accepted and refused; colours, drawing geometry,
panel sizes within their limits and the fields of a market record are left
out. Times are flags (due or not) and timeouts may happen at any moment; the
length of a retry delay or of a cooldown is only that it elapses. SQLite
transactions are atomic and durable. Files are named by their digest, so two
writers of one file write the same bytes. A task's panic is modelled where the
code handles a failed join (`EngineWorker`, `FinancialEngine`), not
in the subscription scheduler. The snapshot forwarder omits candles it has sent
before; the model has only that a snapshot is sent. Namespaces, organisations
and users are independent: one of each is modelled.

## Not modelled

- Messages nobody sends: `Action::SaveState`, the storage requests `Add` and
  `Remove` and `load_watchlist`; the provider's circuit breaker, which never
  opens in the program; coin and `.KL` options, which make no request.
- Artifacts of the financial engine, which no index names; its one-shot modes
  `fetch-fmp`, `schema` and `extract-xbrl`; the tables of tools and the checks
  of their arguments, which are choices of the job.
- The activity log of a research run, the HTTP client and the decoder of its
  event stream.
- `quant-engine` besides the ledger, and the numerical analytics: decimals and
  floats without an order of events.
- The portfolio routes of the Rust server: they call the workflows of
  `PortfolioService`.
- The Python services. `app/infrastructure/offline_worker.py` speaks the
  protocol of `FinancialEngine` from the other side, `orchestrator/budgets.py`
  and `tools/research.py` keep reservations and a single-flight cache of a run,
  `app/infrastructure/native_engine.py` a table of connections,
  `app/market/service.py` a cache of the gateway and
  `app/portfolio/sqlite_repository.py` a second implementation of the
  portfolios. Each would be a module of its own; next are `RunBudget` (the
  coordinator's reserve survives parallel specialists, nothing stays
  reserved) and the repository as a second implementation of
  `AtomicPortfolios`.
- Rendering, configuration, authentication of the Python server, traces,
  agent prompts and scripts: I/O, wording or nothing that depends on order.
