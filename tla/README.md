# A verification development for ChoscorDB

ChoscorDB is a desktop SQL client: a Qt frontend over a Rust engine. The engine runs one
asynchronous task per connection, several worker threads, and a handful of shared budgets; drivers
for SQLite, PostgreSQL and MySQL run behind it, and an updater, diagnostics and two stores beside
it. This directory holds TLA+ modules for these parts, the TLC configurations that check them on
small instances, and proofs that TLAPS checks for every instance. Paths below are relative to the
repository's `crates/` unless they say otherwise.

- [1. The system](#1-the-system)
- [2. The modules and the code](#2-the-modules-and-the-code)
- [3. What is checked](#3-what-is-checked)
- [4. What is proved](#4-what-is-proved)
- [5. Where the code and what is said of it disagree](#5-where-the-code-and-what-is-said-of-it-disagree)
- [6. Assumptions and abstractions](#6-assumptions-and-abstractions)
- [7. What is not modelled](#7-what-is-not-modelled)
- [8. Plan](#8-plan)

## 1. The system

### How the parts interact

```
 desktop (Qt, one thread) -- workspace: pages shown, asked for, cancelled    PageTransfer
    |  calls                    ^ try_event, drained on a timer
    v                           |
 bridge ------ event forwarder --+--- update session --- update helper       UpdateSession, UpdateHelper
    |
 Engine (core/src/lib.rs) -- handle arenas, watch signals                    HandleArena
    |  bounded commands         ^ bounded events        | history writes
    v                           |                       v
 connection actor (core/src/actor.rs) ------------> profile/storage worker   RecoveryQueue
    |        |          \                               |          |
    |        |           catalog session (2nd)      SQLite store  credential store
    |        |            CatalogRoute                    ProfileStore
    |        +-- page memory, hot page cache (shared by all actors)          PageMemory
    |        +-- result store, views, export                 RowView, ExportStream
    v
 driver session (SQLite | PostgreSQL | MySQL), native cancel handles         the three sessions
    +-- SSH masters and listeners, known hosts file                          SshSharing, HostTrust
```

The caller's thread never blocks on the actor: it *tries* to send a command and tries to read an
event. Cancel, release, view cancel and stop do not pass through the command queue at all: they are
`watch` values the actor looks at between its awaits. That is where most of the difficulty lies: the
same signal is seen by different receivers depending on whether its query is queued, waiting for
memory, running, streaming, idle or being viewed.

### Inventory

| Component | State | Operations | Hard behaviour | What makes it correct |
|---|---|---|---|---|
| **Connection actor and engine front end** `core/src/{lib,actor,operation,query_history,protocol}.rs` | handles and watch signals of the engine; command and event channel; SQL cursor, object cursor, result stores, views; history tickets | execute, fetch, next result, view, clear view, load value/chunk, release, cancel, disconnect, shutdown, SQL mode, session requests | signals race driver calls, waits and sends; grace period for a cancelled call; tickets on every early return; a stop with full channels | one recorded outcome per statement; nothing cancelled reaches the database; no call overtakes an unsettled one; a stop always ends; released queries leave nothing |
| **Page memory and hot page cache** `core/src/{memory,hot_cache}.rs`, `result-cache` | used, source and per-result bytes; cache in use order | acquire, shrink, drop, insert, read, evict, remove | three budgets, several locks, check-then-sleep | books balance, budgets hold, no lost wake-up |
| **Handle arena** `driver-api/src/ids.rs` | slots with generations | insert, get, remove | reuse, generation overflow | a stale handle resolves to nothing |
| **Catalog route** `core/src/{catalog,metadata_cache}.rs` | second session, transaction state, retry time, saved children | route, fall back, retry, save | stale transaction state; two sessions answering | what only an open transaction shows is never saved; each read is answered once |
| **Profile worker and credentials** `core/src/profiles.rs`, `credentials`, `storage` | SQLite rows, credential store, journal of pending secrets | save, duplicate, delete, list, clean up | a crash between two stores; two instances; failing writes | both stores agree; every secret has an owner after recovery |
| **Workspace and history requests** `core/src/recovery.rs` | queue, request in flight | submit, complete, shut down | answers that never come; full channels | answered in order, each once |
| **SQLite driver** `driver-sqlite/src/{lib,worker}.rs` | cursor generation, interrupt flag, transaction | execute, fetch, cancel, edit batch | cancel racing the next cursor; finishing saves | nothing saved that nobody asked for; true answers |
| **PostgreSQL driver** `driver-postgres/src/worker.rs` ... | portal, generation, transaction control | execute, fetch, finish, control, probe | cancel request over a second socket, answers read ahead | as above |
| **MySQL driver** `driver-mysql/src/runtime.rs` ... | producer, bounded rows, believed transaction | execute, next set, KILL, drain | kill racing the end of a statement; status lost by an error | as above; the connection is in step |
| **Export** `export`, `core/src/actor/export.rs` | partial file, cursor, store | start, cancel, finish | cancel during a read that settles later | a file is whole or not there |
| **Result store and views** `result-store`, `core/src/{result_view,result_predicate}.rs` | append-only file, pages, sorted runs | append, read, filter, sort | failing in the middle of a replacement | pages show the rows of the last view that was applied, in a true order |
| **Editing of results** `driver-api/src/{edit_query,grid_edit}.rs`, `bridge/src/grid_edit.rs` | recognised target, planned statements | recognise, plan, apply | another writer; text taken for something else | applied as reviewed or not at all; edits go to the cells shown |
| **SSH and transports** `driver-api/src/ssh_*.rs`, `core/src/ssh_trust.rs` | masters, listeners, known hosts file | acquire, release, invalidate, approve | late blocking threads, dying processes | shared by equal settings only; an outcome told is so |
| **Bridge and event forwarder** `bridge` | leases, events in conversion and queue | forward, drain, release | back-pressure across threads, nested event loops | every lease has one owner |
| **Diagnostics** `diagnostics` | bounded queue and day file, counts, markers | record, flush, start, stop, clear | several processes, kills | nothing vanishes uncounted |
| **Update** `update`, `bridge/src/update.rs` | feed, staged file, two files, processes | check, download, install, exchange, roll back | kill at any step, overlapping dialogs | a whole version is left, and it is the one that was asked for |
| **SQL language services** `sql-language` | none | scan, classify, complete | nesting and quoting | statements are split where the server splits them |
| **Desktop frontend** `desktop/` | workspace of tabs | tick, request, render | order of events, nested event loops | covered where it guards a call, shows a page or asks about an update |

`PROJECT.json` lists the same components with their status, and the hazards of the code at their
lines with the properties that cover them.

## 2. The modules and the code

Each module's header says which files it models; its variables carry a prefix of two letters where
modules are composed. Definitions that end in a mistake (`...Anyway`, `...Forgets`, `...OffByOne`,
`AddRowTwice`, `OwnsLiveCursor`, ...) are deliberately wrong variants: each stands directly before
the definition it could replace, is used by no action, and shows with which mistake in the code the
property named for it in `PROJECT.json` fails.

### `QueryActor`: one connection

The caller's thread, the channels, the signals and the actor of **one** connection.

| Variables | Code |
|---|---|
| `open`, `halted`, `registered`, `issued`, `permit`, `sent` | `Engine` (`connections`, `queries`, arena, the reserved command slot inside `execute_source`) |
| `shown` | the last outcome of each query that the caller has read |
| `stop`, `cancelled`, `released`, `viewCancelled` | the `watch` channels of the connection and of each query |
| `commands`, `accepting`, `events` | the bounded `mpsc` channels, and whether the receiver is closed |
| `stage`, `job`, `out` | where the actor is between two awaits, for which command, and what it still has to await |
| `active`, `stored`, `views` | `active`, `object_active`, the result stores and the views |
| `history`, `dropped` | what became of each `Ticket` |
| `abandoned` | ghost: a driver call was given up before it settled |

The actor is sequential, and every `await` is a point at which the caller may run. A step of the
model is what the actor does from one await to the next. When the code then awaits a series of sends
and history writes, the step puts them into `out` in that order, and `SendEvent`, `RecordHistory`
and `FreeTicket` take them out one at a time; no other step of the actor is enabled before `out` is
empty. `send` of the code blocks on a full channel unless the connection is stopping, and then
drops the event: these are the two disjuncts of `SendEvent`.

`Receive` is the `select!` of the actor's loop in its biased order: stop first, then a cancelled or
overdue idle cursor, then a command. `perform` of `operation.rs` is `Start`, `Preflight`,
`WorkFails`, `Interrupt`, `Settle`, and the actions named for what came back (`Executed`, `Fetched`,
`NextResultFound`, `ViewPage`, `SqlModeRead`). `wait_capacity` is the stage `reserve` (and `schema`,
where the memory of a schema is awaited) with its grants and refusals. `Abort` says what each command
does with an operation that failed. `Exit`, `DrainCommand`, `Drained` and `Return` are the end of the
actor; `Discard` is what happens to a command sent through a slot reserved before the receiver
closed, which the channel frees unread together with its history ticket.

One action stands for several requests where the code treats them alike: `Ask("Inspect")` and
`BeginInspect` are every request that is answered from the session without a cursor.

### What the actor relies on: `SessionPromise` and the three sessions

`SessionPromise` is the abstract specification of a driver session: the effect of a statement waits
in the open transaction (`work`) or stays (`saved`); a step may save one new statement when `want` is
`"one"`, all of the work when it is `"all"`, or take work back; and what the driver has `said` of a
statement is so at that moment. `SqliteSession`, `PostgresSession` and `MysqlSession` each declare an
`INSTANCE` of it with a refinement mapping (`SqPromise`, `PgPromise`, `MyPromise`) from their server's
transaction and the caller's command to these five variables.

- `SqliteSession`: the worker thread with its suspended statement (`sqWorker`), `CancellationState`
  and the progress handler's flag (`sqCancel`), the transaction (`sqDb`), the waiting caller, and
  `sqStopped`, the effects that a stop was accepted for.
- `PostgresSession`: the worker with its portal (`pgWorker`), the command channel (`pgQueue`), the
  cancel token with its generation and its out-of-band request (`pgCancel`), the server and the
  caller. Each round trip of the worker is an action, so that a cancel request, a deadline or the
  loss of the connection may fall between any two.
- `MysqlSession`: the session's task (`myWorker`) with its `prepare`, `begin`, `run`, `rows`, `probe`,
  `ping`, `drain` and `kill`, who holds the connection and what is believed of its transaction
  (`myLink`), the produced result sets (`myResult`), the server and the caller.

`MCDrivers` puts one of the three in each behaviour.

### The services beside it

- `PageMemory`: `used`, `source`, `results` are the counters of `Memory`; `held` counts the leases
  outside the cache by shape; `cache` is the hot cache in the order of use. One action per critical
  section: `acquire` is `Enable`, `Try`, `CheckQuota`, `ReadScope`, `Evict` and then `park`, between
  any two of which another thread runs. Freeing bytes and waking waiters are two steps in the code
  (`release` notifies after its lock is dropped), so a release only leaves a wake-up due in `wakes`,
  and `Notify` performs it later.
- `HandleArena`: `slots` is the arena; `given` records what each handle was first issued for, the
  record "stale" is measured against, and is emptied when the handle is removed.
- `CatalogRoute`: the two queues, what each session does and for which read, the route's belief about
  the transaction beside the truth (`crQuery`), and what is saved.
- `RecoveryQueue`: requests numbered in the order of acceptance, the engine's queue with its byte
  budget, the storage worker's channel and the event channel, which other jobs fill as well.
- `ProfileStore`: the metadata file (`profiles`, `journal`), the credential store, the sidecar lock
  and the worker thread of each instance, with a failure or a death between any two writes.
  `ProfileBook` is its abstract specification: one book in which a request takes effect at once or
  not at all. `ProfileStore` instantiates it (`Book`), mapping a row and the items its references name to one
  profile.
- `ExportStream`: cursor, store, the exporting task, the partial file and its rename, chunked values.
- `RowView` and `ValueOrder`: a view from draining to replacing the pages, and the comparison of
  values without conversion. `EditShape` and `GridEdit`: what an editable query is taken for, and the
  planning and the batch of grid changes beside another writer.
- `SshSharing`, `HostTrust`: the registry of masters and listeners; the approvals that append to one
  known hosts file, with the worker threads that go on after a timeout.
- `UpdateHelper`, `UpdateSession`: the exchange of the files with every process dying anywhere; the
  controller with its dialogs, the check, download and install workers.
- `DiagnosticsLog`: recorders of several processes over one bounded day file.
- `PageTransfer`: pages from the actor through the forwarder, the drain and the page builder to the
  workspace, with the lease table, nested event loops and the workspace's flags.

### Modules for TLC and for TLAPS

`MCQueryActor`, `MCRecords`, `MCResults`, `MCServices`, `MCProfileStore`, `MCDrivers` and `MCOutside`
give model values, cases and symmetry. `MCRecords`, `MCResults`, `MCServices` and `MCOutside` compose
parts that share nothing: a variable says which of them acts in a behaviour, and the others rest in
one initial state, so a run checks each part in full and no product of them. The `*_proofs` modules
hold the theorems.

## 3. What is checked

| Run | Parts | Question |
|---|---|---|
| `records` | `QueryActor` with two statements, or with a statement beside an object read; `DiagnosticsLog` | Is every ticket settled, and recorded before it is reported? Does a cancelled statement ever reach the database, or a call overtake an unsettled one? Does a record vanish uncounted? |
| `results` | `QueryActor` with one statement and three requests; `RowView`, `ValueOrder`, `EditShape`, `GridEdit` | Is a view ever shown over a result that still streams, does anything survive a release? Do pages show what was asked for, is an edit what was reviewed? |
| `actor_liveness` | `QueryActor` | Does a stop end the actor even though nobody reads its events? Does a cancellation settle for a reader? |
| `services` | `HandleArena`, `PageMemory`, `RecoveryQueue`, `CatalogRoute`, `UpdateHelper`, `UpdateSession` | Handles, books and wake-ups, order of answers, what is saved, what is installed. |
| `profiles` | `ProfileStore`, refining `ProfileBook` | Two instances over two stores that fail and crash: does it behave as one book? |
| `outside` | the three sessions, refining `SessionPromise`; `ExportStream`, `SshSharing`, `HostTrust`, `PageTransfer` | What the engine relies on outside of itself, and what it leaves there. |
| `actor_ticket_dropped`, `actor_unsettled_view`, `actor_lost_disconnect`, `mysql_implicit_commit`, `sqlite_edit_commit`, `window_cancel` | the smallest instance that shows each | Section 5. |

### The properties

Besides one type invariant for each run (the conjunction of its parts'):

- `TicketOwned`: a pending history ticket is held by the submission, the queue, the running command,
  the SQL cursor, or a record still to be written. About fifteen early returns of the actor each have
  to keep this.
- `FinishedIsRecorded`: a caller that can read `QueryFinished` finds `Completed` in the history (or
  the failed write was reported before).
- `SettledBeforeNextCall`: no driver call starts on a session whose previous call was stopped and
  never settled. `CancelledNeverRuns`: a statement cancelled before it reached the database never
  reaches it.
- `ViewOverSettledResult`: a view is never shown over a result whose cursor is still being read.
  `ReleasedIsFreed`: once a release is handled there is no store, view or cursor of that query.
- `StopEnds`, `CancelSettles`: see the fairness below.
- `DgNothingVanishes`: every record taken over is queued, in the hand of a writer, in the file, or
  counted as dropped.
- `RvShowsWhatWasAsked`: pages show the filtered and sorted rows of the last view that was answered,
  and a view that fails leaves the one before. `VoOrdersTruly`: comparisons agree with the values' order and are an order.
  `EsSaysWhatIsShown`: a result taken as editable shows, in each cell said to be editable, the
  column it is said to show. `GeAppliedAsReviewed`: a batch changes exactly the cells that were
  reviewed, of rows that were as they were shown, or nothing.
- `Accounted` and `NoLostWakeup`, `WaitEnds` of the page memory; `ResolvesToItsOwn` of the arena.
- `RqAnsweredInOrder`, `RqAnswered`; `CrNothingUncommittedSaved`, `CrSavedFirst`, `CrEveryReadAnswered`.
- `UhSaysTheTruth`: wherever a process dies a whole version can be started or put back, and what the
  user reads describes the files.
- `UsInstallsWhatWasAsked`: with offers and prompts open over one another, the installer gets the
  version whose download was accepted last. It says what the code does in the overlapping cases too:
  a newer version than the user was asked about, never an older one, when a check found it before the
  download began or when an older prompt is answered afterwards.
- `StoresAgree`, `NothingShared`, `CleanupIsComplete`, and `BehavesAsOneBook` (the refinement).
- `SessionsKeepTheirPromise` (the refinement of `SessionPromise` by each session), `StoppedIsUndone`,
  `MyInStep`.
- `XpWholeOrNothing`, `ShSharedByKey`, `HtSaysTheTruth`, `PtEveryLeaseHasOneOwner`.

Every property has a variant of the code in `PROJECT.json` under which TLC finds it violated, in
the same instance.

### Bounds, and why they are enough

- *Actor.* A connection has two cursors; two queries let one statement replace another's cursor, wait
  behind it, or use the other slot. A third adds waiting, not interaction. Channel capacity one makes
  "full" the common case; with two command slots (`results`) a release can be queued behind a view or
  a next result of the same query. One or two pages: a cursor that ends at its first page, and one
  that does not. Three requests are needed for view, next result and release on one statement.
  Cancel, release and disconnect are bounded by the state they change, not by a counter.
  `TwoStatements` and `BesideAnObject` of `MCRecords` split the two instances so that each leaves out
  requests that the other has. `OneWayOut` of the liveness run has the caller disconnect or shut
  down, not both, cancel before its first request, shut down only where no object was issued, and
  send a second request only after it has read a new outcome.
- *Memory.* `Global = 8`, `PerResult = 6`, quarter for sources 2; a transfer is 3, a source 2, a
  cached page 2. Two transfers of one query exhaust its budget exactly, a third exceeds the
  global one, and one source exhausts the source quarter: each budget binds alone in some state and
  together in another.
- *Arena.* Three generations per slot: first use, reuse, and retirement.
- *Catalog.* Two reads and two statements: a transaction opened before, between and after the reads;
  queues of one place. *Recovery.* Four requests behind two places, one of them in flight.
- *Updates.* Two published versions and three checks: a newer one may appear while the other is
  offered, downloaded or installed.
- *Profiles.* Two instances, ids, slots, secrets and three references: a secret to be replaced, one
  to be kept, and one whose deletion is due. Instances, ids, references and secrets are symmetric.
- *Sessions.* Three executions for SQLite and PostgreSQL: one inside a transaction, the one that ends
  it, and the one after. Two for MySQL with scripts of one statement or two, the second a single
  write (`SecondWrites`): a script with an error in the middle, and what the next statement does to
  the transaction it left.
- *Outside.* Two exports of up to three rows with one chunked value; three approvals of two keys and
  one foreign write; three SSH requests over three keys with two of one kind; two results of two
  pages with one nested event loop.
- *Results.* Three rows in pages of one and two, two views of which the first is plain (`Asking`); a
  grid of two rows whose first one starts with any opaque value; statements, tables and values as
  `MCResults` enumerates them.

The deadlock check is off (`CHECK_DEADLOCK FALSE`) where the systems really stop: an
actor returns, a session is closed, an arena runs out of generations. The profile run has it on.

### Fairness

- `WF(Driven)`: the runtime polls the actor while one of its futures is ready. `Driven` holds only
  steps that need nobody's help: sends into a channel with room or into one that is being stopped,
  history writes (the worker answers or the ticket is rejected), observing a signal or a deadline,
  the end of a grace period. It does **not** hold a driver's answer, nor a grant of memory
  (`Awaited`): a server may never answer, and other results may keep the memory. The three driver calls
  that section 6 names (`close`, the cancel of an object read, `load_value`) are part of other steps.
- `WF(Execute)`: `execute_source` sends through its reserved slot without waiting for anything.
  `WF(ForwardShutdown)`: the spawned task of `initiate_shutdown`.
- `WF(ReadEvent)` is the hypothesis of `CancelSettles` and part of `ReadingSpec` in the run
  `actor_lost_disconnect`: the desktop drains events on a timer. `StopEnds` is checked without it.
- `MemoryFairness`: threads keep running (`Proceed`, `Notify`) and a consumer drops each of
  its leases in the end (`Drop`).
- `RqFairness`: the storage worker works, replies and stops, and the caller reads events.
- `CrFairness`: the two sessions' tasks run and the lookup of saved children returns.
- `PtFairness` (`window_cancel`): the actor serves, the timer ticks, the drain dispatches, and the page
  builder ends. It shows that the finding is not a matter of waiting longer.

A part that a behaviour does not start has no step that its fairness could ask for. `CancelSettles`
excuses an actor that is stuck for good on a request that watches only the stop (`Unwatched`): a
session request, the memory wait of a value chunk, which listens to its own query's release, or the
transaction state asked for before a failed statement is reported.

## 4. What is proved

TLAPS proves the following for every set of queries, reads, requests, approvals, versions,
instances, profiles and executions, every capacity and every bound, from the named assumptions on the constants only.

| Theorem | Statement | Checked on an instance by |
|---|---|---|
| `TypeCorrect` | `Spec => []TypeOK` of `QueryActor` | `records`, `results` (within their type invariants) |
| `CancelledStatementsNeverRun` | `Spec => CancelledNeverRuns` | `records` |
| `NoTicketIsLost` | `Spec => []TicketOwned` | `records` |
| `CallsSettleBeforeTheNext` | `"View" \notin Ops => (Spec => []SettledBeforeNextCall)` | `records` |
| `ViewsAreOverSettledResults` | `Spec => []ViewOverSettledResult` | `results` |
| `FinishedStatementsAreRecorded` | `Spec => []FinishedIsRecorded` | `records` |
| `ReleasesFreeEverything` | `Spec => []ReleasedIsFreed` | `results` |
| `ArenaInv`, `StaleHandlesAreRefused` | `Spec => []Inv`, `Spec => []ResolvesToItsOwn` of `HandleArena` | `services` |
| `ApprovalsInv`, `ApprovalsSayTheTruth` | `HtSpec => []HtInv`, `HtSpec => []HtSaysTheTruth` | `outside` |
| `PtInvariant`, `LeasesHaveOneOwner` | `PtSpec => []PtInv`, `PtSpec => []PtEveryLeaseHasOneOwner` of `PageTransfer` | `outside` |
| `HelperSaysTheTruth` | `UhSpec => []UhSaysTheTruth` | `services` |
| `InstallsWhatWasAsked` | `UsSpec => []UsInstallsWhatWasAsked` | `services` |
| `PsInvariant`, `ProfilesKeepTheirSecrets`, `SecretsAreNotShared` | `Spec => []PsInv`, `[]StoresAgree`, `[]NothingShared` of `ProfileStore` | `profiles` |
| `CleanupsAreComplete` | `Spec => CleanupIsComplete` (an action property) | `profiles` |
| `ProfilesAreOneBook` | `Spec => BehavesAsOneBook`: `ProfileStore` implements `ProfileBook` | `profiles` |
| `ProfilesTypeCorrect` | `Spec => []TypeOK` of `ProfileStore` | `profiles` |
| `CatalogInv`, `NothingUncommittedIsSaved`, `AnsweredOnce` | `CrSpec => []CrInv`, `[]CrNothingUncommittedSaved`, `[]CrSavedFirst` | `services` |
| `QueueInv`, `AnsweredInOrder` | `RqSpec => []RqInv`, `RqSpec => []RqAnsweredInOrder` | `services` |
| `SqPromiseKept`, `PgPromiseKept`, `MyPromiseKept` | each session's specification implements `SessionPromise` | `outside` |
| `StoppedStaysUndone`, `SessionsAreInStep`, `SessionsKeepPromises` | `MCSpec` of `MCDrivers` implies `[]StoppedIsUndone`, `[]MyInStep`, `SessionsKeepTheirPromise` | `outside` |

Assumptions on constants are named in the modules that declare them and evaluated by TLC in every
run. The session theorems have one hypothesis each, a constant of the module that says whether an
error of the server that the code is known to mishandle can happen at all: `~SqEditCommitFails`,
`~PgCatalogErrors`, `~MyCatalogErrors` (all three together are `Undisturbed`). The first and the third are the findings
`sqlite_edit_commit` and `mysql_implicit_commit` of section 5, the runs that set the constant to
TRUE; the second is an observation of section 6. The instances of `outside` satisfy the hypotheses.

**`QueryActor_proofs`.** `TypeOK` is inductive as it stands because `Jobs`, `Command` and `Step` are
unions that tie the kind of a command to the query it must name, and because it says that only a
view is ever scanned or built. The proof splits it into parts (caller, channels, actor, data,
ledger). Lemmas about sequences of steps (`FailureSteps`, `CompleteSteps`, `CloseStepsType`) and
about the two ways the actor moves (`BecomeType`, `BeginType`) leave each action with only its own
argument; `OutsideType`, `QuietType` and `ReceiveType` discharge everything an actor step leaves
alone.

`CancelledNeverRuns` is an action property. Its argument: the lemma `NextMoves` shows, action by
action, that a step either leaves the job outside the database (`Elsewhere`), leaves `stage` and
`job` alone, is `Start`, or is `Interrupt`, which begins inside. So the only entry is `Start`, which
looks at `stop` and `JobCancelled` in the step that enters. `JobCancelled` is blind for the read of
an object, so the invariant `SlotOK` is needed: a job of `Execute` in the object slot belongs to an
object read. The kind and the slot of a job are fixed when the command is received, and no later
step changes them.

**`QueryTickets_proofs`.** `TicketOwned` says who may hold a ticket, not why it is not dropped. The
inductive invariant `TicketInv` adds what the steps that close a cursor or give up a job rely on:

- `Settled`: the ticket of a cursor that is complete has been written, or the write is due in `out`.
  `close_active` and a new statement may then discard the cursor without a word.
- `OnCursor`: an operation that may give up a cursor names the query of that cursor, so that the
  failure it records is that of the right ticket.
- `Replaced`: while a statement runs, the slot it will fill is empty, so that opening its cursor
  replaces nobody's.
- `IssuedOnly`: only issued handles are in the queue, in the job or in a cursor, so that a new handle is
  not mistaken for an old cursor's.
- `SlotOK` from above: a statement that owns a ticket fills the SQL slot, the one that holds tickets.
- in `Owned`, that object reads have no ticket at all.

What settles a ticket is a `record` or a `drop` in `out` (`Settles`); `FailSettles`, `CompleteSettles`,
`CloseSettles` and `DropSettles` say so of each sequence of steps the code awaits, and `AwaitTicket`
that awaiting the first of them loses nothing. The steps of the actor then fall into four kinds, one
lemma each: the job goes on and keeps every cursor (`BecomeTicket`), a received command begins
(`BeginTicket`), a cursor is closed (`ClosedTicket`), and a statement moves to its next stage
(`ExecuteOn`). `BeginExecute`, `OpenCursor`, `Exit`, `DrainCommand` and `Discard`, where a ticket
changes hands, have arguments of their own.

**`QueryResults_proofs`.** What a caller may conclude from what it sees. `CallsSettleBeforeTheNext` has a
hypothesis: nobody asks for views. It is the instance of the run `records`, and it is needed, since the
run `actor_unsettled_view` (section 5) violates the property with a view. Its invariant says that a call
that was given up leaves the actor in a stage from which it does not come back to the select loop
(`Ended`).

The other three theorems rest on one classification of the actor's steps. Most of them have one of
four *shapes* (`Shaped`): the job goes on, is given up or is done with (`Goes`); a cursor is closed for
its query (`Closes`); a command is answered at once (`Replies`); a command begins (`Begins`). The rest is
the dozen steps in which a query gets or loses something (`Works`), and the awaits. `ActorMoves` proves
that there is nothing else, so that each invariant needs one argument per shape and one per step of
`Works`. The caller's steps are classified in the same way (`CallerShape`). The invariants build on each
other:

- `OnceInv`: a statement is in one place until its cursor is open (reserved, queued once, or run;
  `Fresh`), and the two cursors belong to queries of different kinds.
- `StoreInv`: a statement that is `Fresh` has neither store nor view (`Blank`), a view is made of a stored
  result and built when its cursor is read to the end (`Viewing`), and a page is read only from a cursor
  that has more (`Reading`). Without `Blank` a statement that runs could get its cursor under a view.
- `FinishInv`: nothing speaks against a statement that is fresh or read (`Clean`: its history is open,
  or complete, and no other outcome is about to be written); a `QueryFinished` that is still to be sent
  is about a statement whose record is written, or is the first to be written before it (`Announced`,
  `Heralded`); and whoever was told, in the event channel, on the caller's side, by the request for a
  further result or in the job that serves it, was told of a recorded statement (`Finishes`). The last
  is needed because a further result is announced as finished without a record of its own.
- `ReleaseInv`: of a released query either the release is still queued, as the last command about it,
  or nothing is left of it, no command mentions it and no job works for it (`Freed`), as long as the
  connection is open and the actor has not left its loop.

**`EngineMemory_proofs`.** For the arena, `ResolvesToItsOwn` alone is not inductive: a slot reused at a generation
already issued would break it in the next step. The invariant adds that no handle is ahead of its
slot (`Past`), that a handle stands for its slot's value exactly at the slot's generation (`Present`),
and that the next handle of a reusable slot was never issued (`Unissued`). The last is what the
retirement of a slot at `u32::MAX` is for: `Advance` saturates, and `Reusable` excludes the slot.
For the page memory, `NoLostWakeup` speaks of an actor that sleeps; `MemoryInv` says of each stage between
its failed attempt and its sleep what it has seen so far: the reservation does not fit, the scope it
read is the scope, nothing in it can be evicted (`Unchanged`). Steps that only charge, or cache a page
that is about to be announced, keep that (`Charged`); steps that free bytes leave a wake-up due
(`Freed`); a wake-up or an announcement reaches every registered waiter, which is why registering
before the attempt is enough (`Told`). The budgets are any numbers that satisfy `BudgetAssumption`.

**`Outside_proofs`.** For the approvals, `HtInv` says that the lock of the known hosts file has one holder, that what an
approval has read is still what the file holds while it has the lock (`Read`), that nothing is
written before the approval's atomic state says so (`Decided`), and that what the caller was told is
final (`Reported`). A timeout only competes for the atomic state, which is why a worker that goes on
after it writes nothing.
For masters and listeners, `ShInv` says that two busy connections hold the same slot exactly if they
have the same key and began between the same two invalidations of it (`OneSlot`); that the registry has
the slots of the present epoch and each under one key (`Registered`); that what is shared belongs to
the slot it was started under and that what answers is the slot's content (`Belongs`); and that while
one is started nothing else in its slot answers (`Alone`), which is what the lock of the slot is for.

For the pages, `PtEveryLeaseHasOneOwner` is far from inductive: that the shown page is the page the window counts on
when it asks for the next one depends on the order of events that are still under way. `PtInv` has
four parts. `PtTable` are the books: the leases of the table are those the window holds, those whose
event waits in a drain (`Waits`) and those a drain has taken; what the window holds of a drain's was
retained and not given back; no two drains have taken the same lease and no two events that wait have one
(`DrainsOK`). `Books` is a statement about six sets, and a lemma for each of the ways the code moves a lease
(dispatch, retain, give back, end of a drain, tick) says that it is kept. `PtView` says that the parts of the
window hold distinct leases and that the one build it listens to is of the page it builds.
`PtOrder` says that a statement has one schema, which is in one place: the command, the channel, the
events to be converted or a drain; that until it was dispatched no page was asked for, sent or is in
a drain, and the window is at page 0; and that nothing is under way of numbers not given out yet. So the
schema, whose handler clears the page that is shown, comes to a window that takes no page to be shown, which is what the last
conjunct of the property needs. That a handler runs an event loop, in which another tick may
start a drain, is why the drains are a stack and why `Handling` says of the rest of the stack only what
every handler keeps. `Has`, `Once`, `Drawn` and `DrawnOnce` reduce the sequences to what they contain.

**`Durable_proofs`.** The helper's invariant `UhInv` splits its stages into those before the exchange,
the verification, and those in which the new file is known to be in place (`FilesByStage`), and says
that nothing is told before the end (`SaidAtTheEnd`). The controller's `UsInv` has two ideas. Whatever was offered,
recorded, asked about or downloaded is at most what is available now (`SessionAvailable`), so a download
that begins, of what is available, is at least as new as every question still open. And the file that is
received, staged or taken by the installer `Answers` all of them: it is no older than what is recorded,
confirmed or prompted for, and the recorded version itself when no check came in between
(`SessionFiles`, `SessionInstallation`). The dialogs are a stack, about which `Opening` and `Closing` say
what a bound on its versions keeps.

For the profiles, `StoresAgree` is not inductive: whether a deletion or a commit keeps it depends on
what the worker found out several steps before. `PsInv` adds what each worker knows by the step it is
at. While a save is prepared (`Preparing`) the row on disk is still the one that was read, what was
created is in the credential store, in one slot of the new row and in no saved row, and the slots that
have been seen hold what was asked (`AsAsked`). While an item is put (`Putting`) its name is in the
journal, in no row and not in the store. While a cleanup runs (`Deleting`) what is to be deleted is in
no row; and unless something failed, everything stored and unused is still on its list, which is
`CleanupIsComplete` when the list is empty. `Busy(i) => lock = i` makes this last: whoever is between
two steps has the lock, so no other instance moves the stores (`OneMoves`, `AsideMove`, `LockedMove`).
`Serves` relates the step, the request and the answer so far, for the refinement. Its proof shows for each
action which step of `ProfileBook` it is: `Take` asks, the commit of the row applies (`CommitIsApplied`,
`DuplicateIsApplied`, `DeleteIsApplied`), `Reply` answers, a crash abandons, and all the rest,
the cleanups included, leaves the book alone (`UnseenSave`, `UnseenCleanup`). The commit is the hard one:
that the secrets the new references lead to are the ones asked for is `AsAsked` for every slot, and that
no other profile's secrets change is `NothingShared`. The assumption `NamesAssumption` says that the
values that stand for *nothing* are no profiles, items or secrets; `BoundsAssumption` that there are finitely
many slots and the journal has a bound, for `TypeOK` only.

**`EngineQueues_proofs`.** For the catalog route the sequences of the two queues are reduced to two
predicates, `In` and `OnceIn`, about which a few lemmas say what appending, taking and dropping do.
`CrInv` then says that each read is in one place (`OnePlace`), that its answers so far are at most the
saved children while it is pending (`Answered`), and that the query session never holds an answer
from inside a transaction to be saved once the state has been asked for (`Known`). For the queue of
requests `InOrder` lays the answers, the failed ones, the request at the worker and the waiting ones
end to end, `AtTheWorker` says where the one in flight is, and `Budget` that the byte counter is the
cost of those that wait, by cardinality.

**`Sessions_proofs`.** Refinement: the initial state is `PromiseInit`, and each step is a step of
`PromiseNext` or leaves the mapped variables alone. What a step means for the promise is stated once
per session (`SqMoves`, `PgMoves`, `MyMoves` and what is said, `MySo` and the like), and each action shows which of
`Perform`, `SaveOne`, `SaveAll` or `TakeBack` it is. The inductive invariants carry the reasons:

- SQLite (`SqInv`): a statement is new to the database until it writes; outside of a transaction only
  the suspended statement has work that is not saved (`SqAccounts`); stopped work is that of the
  suspended statement, whose end finds the cancellation or the lateness (`SqStops`).
- PostgreSQL (`PgInv`): one command at a time in the queue or with the worker and the close after it
  (`PgLine`); while the result of an automatic transaction is read, nothing else is asked of the session
  (`PgHeld`); stopped work is being rolled back, or is that of a live portal whose generation is the
  cancelled one (`PgStops`).
- MySQL (`MyInv`): who has the connection and what the server still has to answer (`MyHolds`); the
  results follow the statements of the script (`MyFollows`); what each statement left, and when
  (`MyRemains`); what the cursor finds (`MyShows`). That the believed transaction is the true one when a
  statement is about to begin (`MySane`) is what the ping after an error is for.

`MyAssumption` bounds a script to two statements, the bound of the model; the number of executions
is free.

**Model-checked only.** Liveness under fairness is out of the prover's reach: `StopEnds`,
`CancelSettles`, `WaitEnds`, `RqAnswered`, `CrEveryReadAnswered`. So is induction over data: the sums
of `Accounted` and `DgNothingVanishes`, the folds and searches of `RvShowsWhatWasAsked`, `VoOrdersTruly` and
`EsSaysWhatIsShown`. Safety properties that are model-checked only so far: `XpWholeOrNothing`, `GeAppliedAsReviewed`, and the type invariants of the
composed runs, of which `TypeCorrect` proves the actor's part.

## 5. Where the code and what is said of it disagree

Each of these is a run that TLC must find violated.

1. **A ticket freed by a running actor** (`actor_ticket_dropped`, `DropOnlyAfterReturn`).
   `core/src/query_history.rs:159` says that the fallback in `Ticket`'s `Drop` is reached only by abrupt
   task cancellation or a panic. A fetch whose wait for page memory is interrupted drops the live
   cursor with its ticket (`core/src/actor.rs:1293`): the history says *Disconnected* for a statement
   that was cancelled or timed out on a connection that goes on.
2. **A view forgets that a call never settled** (`actor_unsettled_view`, `SettledBeforeNextCall`).
   `core/src/operation.rs:70` says that a stuck adapter poisons the connection. While a view drains
   its cursor, `outcome.result?` (`core/src/actor.rs:1482`) returns before `outcome.poisoned` is
   looked at, so the actor keeps the session and starts later commands on it. `Abort` models this:
   its `View` case ignores `bad`. The passing run for `SettledBeforeNextCall` has no views, and the
   theorem says so.
3. **The last event may be lost** (`actor_lost_disconnect`, `DisconnectFreesQueries`). After a stop an
   event that finds the channel full is dropped, `Disconnected` included (`core/src/actor.rs:238`).
   The engine gives the connection's queries back only when it reads that event
   (`core/src/lib.rs:907`), and `release_query` is refused once the connection handle is gone.
   `core/tests/engine.rs:266` expects the query back.
4. **A catalog read that fails commits open work** (`mysql_implicit_commit`, `MyKeepsItsPromise`).
   `driver-mysql/src/runtime.rs:163` explains why the status must be refreshed after an error; the
   catalog reads of the same session have no such ping, `unwrap_or(false)` (`runtime.rs:374`) takes
   the transaction for closed, and the next manual statement sends `START TRANSACTION`.
5. **A refused COMMIT of grid changes** (`sqlite_edit_commit`, `SqStoppedIsUndone`).
   `driver-sqlite/src/worker.rs:231` returns the error without a ROLLBACK; the changes are reported as failed and a later commit
   saves them. The repository's `user-guide/results.md:137` says that none of them are applied.
6. **A cancellation nobody acknowledges** (`window_cancel`, `PtCancelAcknowledged`). A stored page of a
   finished result is asked for and cancelled; stored pages survive a cancellation
   (`core/src/actor.rs:1280`), so the page comes and is dropped
   (`desktop/app/query_workspace_events.cpp:536`), and the workspace waits for an event that is never
   sent.

## 6. Assumptions and abstractions

**Actor.** Rows, columns, SQL text and error texts are not modelled. An error is its kind; a page is a
count. A driver's `close`, the cancel of an object read and `load_value` are awaited by the code
without a deadline and without the stop; the model takes them as answering in one step, with success or
failure. `StopEnds` rests on this, and the hazard list says so. `transaction_state()`, asked after a
failed statement (`Inquired`) and after a completed result (`Probe`), is awaited without a deadline too,
but it watches the stop (`metadata_operation`): it is a wait of its own in `Awaited`, which may last for
good, as it does behind a rollback of the PostgreSQL worker
(`driver-postgres/src/worker.rs:1258`), and which only the stop ends (`DropInquiry`, `SkipProbe`).
The connect attempt is one step with its
outcome; the attempt itself watches the stop. The history worker accepts or rejects a record
(`saved`); its queue is `RecoveryQueue`. The caller asks for a further result only for a result it
saw finish, and then waits for the next outcome: this is the guard of
`desktop/app/query_workspace.cpp`. Every other request is unrestricted. The pass over the stored
pages of a view is one step (`Build`); its inside is `RowView`. The grace period and a statement's
deadline have no clock: a timeout may win at any step at which the code polls it, and a cancelled
call either settles in time or does not.

**Memory.** A wait may be abandoned while asleep only; elsewhere the future is not suspended. A wake-up
that is due wakes everybody registered when it is performed, as `notify_waiters` does.

**Sessions.** Executing over an open automatic portal of PostgreSQL, and the cursors of MySQL's object
reads on connections of their own, are not modelled. A cancel request of PostgreSQL that arrives late
is an error of whatever statement the server runs by then (`driver-api/README.md:22` forbids only that
*handles* affect a later execution). With `PgCatalogErrors` a catalog read that fails inside an
automatic transaction, whose result was read ahead, turns the COMMIT into a rollback silently. The
failing of SQLite's `statement.query([])` after the *Started* reply is not modelled. A script of
MySQL has one statement or two.

**Catalog and queues.** Streaming scripts, and statements stopped while idle (`core/src/actor.rs:748`), leave a window in
which the state of the transaction is not known (comment at `core/src/actor.rs:1941`), of which
`CrNothingUncommittedSaved` says nothing; the room of the event channel is in `RecoveryQueue` only.

**Update.** Versions are numbers and authentic ones; the new application behaves or exits. An offer
that comes up over the progress of a download is answered after its end. What the code does when
questions overlap is in `UsInstallsWhatWasAsked`: a download takes what is *available* when it begins
(`bridge/src/update.rs:174`), which a check may have replaced while the offer was open, so that a newer
version is staged under the older name (`usOverlap = "found"`); and a prompt left open under a later
download confirms that one. One case is left out of the property: an offer accepted after an
installation was confirmed and before it has ended (`usOverlap = "late"`). `download()` does not ask for
`installing_`, so the installer may take the file the download has just staged, or put the one it could
not launch back over it; the next download that is accepted ends this. Two installations confirmed in
the same turn of the event loop are left out. A launch that fails leaves
`readyToInstall_` set with nothing staged. Left out of the helper: an I/O error while a good file is
verified (`update/src/linux_helper.rs:186`), a failing authentication in `prepare`, and a
`remove_file` that fails.

**Diagnostics.** `DgNothingVanishes` lists the four ways in which records or counts do go unseen: a
process is killed; a clear; a stop whose last sync fails or does not get the lock, which takes the count
in memory with it (`diagnostics/src/service.rs:294`); and a sync over a `stats.json` that cannot be read,
is invalid or too long, which `read_dropped` takes for 0 (`service.rs:1069`) and `sync_dropped` then
overwrites, so that what other processes counted is forgotten. Counts of a process that has stopped
are not counted as kept. A process that has stopped does not start again (a bound); one whose start
failed may. What the model shows besides: drops before the start are
overwritten by `dropped.store(prior)`; `append_bounded` counts some records that stay in the file; a
start that fails after removing stale markers never reports those exits; `clear()` takes stale
markers with it. `force_memory` samples every 5 s where `user-guide/diagnostics.md` says at most
one a minute. The change of the day, pruning and a foreign oversized day file are left out.

**Results.** A view that is cancelled while it fetches the last page leaves the page stored and its cursor
uncompleted (`core/src/actor.rs:1492`). The store is complete with that page and takes none after it
(`result-store/src/lib.rs:185`), so that every later view of the result fails and the next fetch closes
its cursor with an error, although the comment at `core/src/actor.rs:1463` calls the cursor resumable
(`RvRead`). Cancelling an export during a fetch closes the original cursor. A view over a closed,
incomplete cursor shows what is stored. JSON equality and conditions over several columns are
abstracted; a result has one column. A decimal filter compares zero wrongly beside values
below one tenth (`> 0` omits 0.01; `core/tests/sql_filter_types.rs:192` has such values);
`VoOrdersTruly` excludes this known defect by `ZeroBesideSmall`, and so does not cover that part of
its hazard. Names of tables and columns are compared as the
code compares them; value keywords that equal a column name are not distinguished. MySQL collations
make a conflicting change of case invisible to grid edits. Generated columns, and the refusal of a
batch inside an open transaction, are not modelled.

**Window.** SQL workspaces only: object windows, edits, further result sets, deferred values and
`disconnecting_` are left out, as are panics of the conversion. Leases enter the table when taken; ids
are reused where the code's have generations. Qt timers do not fire recursively in today's
dispatchers, but the code provides for nested drains and so does the model. Seen while modelling: a
page build that is dropped releases its lease while its thread still holds the event; after a
disconnect a live build still shows its page and says *Completed*; any refused command resets
`fetching_` and `busy_`; `nextPage` checks `query_`, opens a dialog, and uses it afterwards.
Left out of showing a page are the refusals of one with an invalid number of columns or cells, or whose
lease is gone (`desktop/app/query_workspace_events.cpp:539`), and of the query states all but what the
cancellation waits for (479); the drain gives those leases back.

## 7. What is not modelled

The SQL scanner, pins and value conversion are sequential data handling with their own tests.
Preferences, history tables and migrations of the storage, most metadata reads of the drivers, the inspection of
host keys and the SSH processes, the Windows installer, the network protocol of the updater, and the
layout of the frontend are left out. `third_party/tokio-postgres`, build files, scripts and tests are
left out for good. In `QueryActor` itself export, catalog reads and the transaction route are
missing: they have modules of their own, and the actor's `Probe` asks for the session state whose
consequences are in `CatalogRoute`.

## 8. Plan

Done: every component that has logic of its own has a module; the inventory, the hazards and the
properties; the six passing runs and six disagreements; and the proofs of section 4, which cover every
safety property of `QueryActor`, of the handle arena, the catalog route, the request queue, the updates,
the host keys, the shared SSH masters, the leases of pages, the driver sessions and the profiles, and of the page memory all
but the sums of its books.

Next, in this order:

1. `GridEdit`: `GeAppliedAsReviewed`.
2. `ExportStream`: of `XpWholeOrNothing` the part about the stored result; what the file holds is a fold
   over the pages, so it stays with TLC.
