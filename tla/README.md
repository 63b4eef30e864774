# A TLA+ model of the centaur control plane

Centaur runs coding-agent sessions.  A client (a chat bot, the console, a
workflow) posts a message to a *thread*; the control plane (`api-rs`) turns it
into an *execution* (a turn), gives the session a *sandbox*, writes the turn's
input to the harness server in it, pumps the harness's stdout into a durable
event log and lets clients follow the log as a stream.  Workflows are durable
tasks of a queue in the same database; they own sessions of their own and are
fired by schedules.  What a sandbox may reach is decided by a proxy, whose
configuration carries access tokens that a broker keeps fresh.  A further
service copies what a user can read in Google Calendar, Drive, Granola and Slack
into a search index and keeps it current.  The control plane runs in several
replicas over one Postgres, its replicas overlap in rolling updates, and every
process may be killed at any moment.

This directory models what those processes do to the shared rows, sandboxes,
pipes and events, in every interleaving of their statements, with crashes,
shutdowns, stalls, store errors, lost sandboxes, lapsed leases and lost replies.

Short names for sources: `R` = `crates/centaur-session-runtime/src/lib.rs`,
`S` = `crates/centaur-session-sqlx/src/lib.rs`, `Q`, `Q8`, `Q9` = its
migrations 0007 to 0009, `K` = `crates/absurd-sdk/src/lib.rs`, `W` =
`crates/centaur-workflows/src/lib.rs`, `HS` = `crates/harness-server/src`,
`WP`, `RP` = `crates/centaur-sandbox-manager/src/{warm_pool,reaper}.rs`, `CL` =
`crates/centaur-session-runtime/src/cleanup.rs`, `TB` =
`crates/centaur-token-broker/src`, `PS` = `crates/centaur-proxy-sync/src`, `CO`
= `services/console/app`, `CC` = `crates/centaur-company-context/src`.

## 1. Inventory

| Component | State | Operations | Interacts with | What is hard |
|---|---|---|---|---|
| Execution control (`R`, `S`) | `session_executions` rows: status, stdout owner, lease; per process: attached pipes, dispatching marker, renewers, timers | enqueue, drive, claim/renew/release stdout ownership, pump lines, end, adopt orphans, hand off | every replica through Postgres; sandbox through attach streams | several drivers of one execution, stale owners, a crash between two statements, everyone waiting for a dead owner |
| Event log and streams (`R`, `S`, `retention.rs`, migrations 0001, 0002) | `session_events`, a per-thread advisory lock, each stream's cursor | append (plain, owner-fenced, active-and-not-recent), list after a cursor, notify, safety tick, retention | all writers of a thread; SSE clients | ids drawn before commit, lost notifications, deletion under a reader |
| Sandbox assignment and workers (`R`, `WP`, `RP`, `CL`) | `sessions.sandbox_id`, `session_warm_sandboxes`, backend status, `pending_orphans` | ensure, claim warm, create cold, assign; replenish, prune, evict, reap, sweep orphans, pause, release, switch, drain | dispatches of all replicas, the backend | check-then-act on stale readings by nine kinds of actor |
| Progress updates (`activity_summary.rs`) | jobs in memory | read the active execution, call a model, append | event log | the turn ends during the model call; replicas compete |
| Harness server (`HS`) | `turn_active`, the command and active-turn channels, the child process, turn ids | read lines, start, steer and interrupt turns, read the child, settle, retry, write notifications | the runtime through stdin and stdout; the harness process | a line routed by a flag that changes; leftovers of one turn read in the next; a child that never answers |
| Forwarding and attribution (`R`) | the pump's map of turn ids | forward messages, interrupt, attribute a line to an execution | harness server | the turn ends between the read and the write; late lines |
| Workflow queue (`K`, `Q`) | tasks, runs, checkpoints, waits, events | spawn, claim, checkpoint, sleep, await and emit events, heartbeat, complete, fail, cancel, retry | workers of all replicas | leases that lapse under a running handler, retries, events before waits, replies that are lost |
| Workflow runs (`W`) | the session a run owns, its sandbox, the cleanup guard | open a session, execute a turn, clean up | queue, execution control | a guard that outlives its run; a retry that takes over the session |
| Schedules (`W`) | tick tasks, registry and miss counts per replica | discover, reconcile, tick, fire, reap | queue; disks that differ during a deployment | check-then-spawn on every replica, used-up keys, partial deployments |
| Token broker (`TB`) | `broker_credentials`, row locks | tick, lock a due credential, request a token, record refresh, retry or death | token endpoints; Console on the same rows | a refresh rotates the token: a second writer, a crash or a timeout at the wrong moment loses it |
| Proxy sync (`PS`, `centaur-console-db`) | a cache of configuration hashes, per proxy and generation | load the proxy's row, look up, build, store, answer | Console's tables, iron-proxy | version, tokens and settings are read at different times |
| Console (`CO`) | users, principals, grants, credentials | among much else: re-authorize a credential, edit settings | broker, proxy sync | loads without a lock and saves the changed columns |
| Calendar sync (`CC/calendar_tasks.rs`) | `google_calendars` (the cursor), `google_calendar_documents` | discover, reconcile, list a page, apply it, restart a full sync, sweep | queue, Google, the broker's credentials | two syncs from one cursor; a full sync interrupted half-way; a cutoff that moves with the clock |
| Drive scan (`CC/tasks.rs`) | `google_drive_checkpoints`, observations per credential | discover, scan, follow the change feed, walk shared folders, expire | queue, Google | a change during the listing; access revoked and returned between two statements |
| Granola notes (`CC/granola_tasks.rs`) | `granola_notes`, observations, documents, vectors | sync, fetch and stage, embed and publish, remove | queue, Granola, embeddings service | an embed task that finishes after its note has changed or gone; removal that meets a fetch |
| Slack pacing (`CC/slack_rate_limit.rs`) | `slack_rate_limits` (next slot, block) | reserve a slot, wait, send, report a rate limit | every worker of a workspace | a schedule shared without a lock held while waiting |
| Slack days (`CC/slack_tasks.rs`, `CC/slack_documents.rs`) | observations, `slack_conversations`, messages, `slack_channel_days`, documents | discover, claim a history, store a page, project a day, embed, remove | queue, Slack, Console | rows stamped at begin and seen at commit; overlapping renderings; a conversation removed and observed again |
| HTTP API, chat services, CLI, packages, tools | little of their own that the control plane relies on | | | |

What makes them correct:

* *Execution control*: at most one active execution per thread; input delivered
  at most once; one end, announced once, nothing of the turn after it; every
  accepted execution ends; a lease in force means somebody can end the turn.
* *Event log*: a cursor never passes an event its client was not given; every
  event arrives; a stream scoped to an execution completes.
* *Sandboxes*: none is shared; none is stopped while it is in use; none is
  leaked.
* *Harness server*: a turn ends by its own output and ends its own execution;
  a message for a turn is taken in or becomes a turn; everything ends.
* *Queue*: one live run per task; an emitted event wakes every waiter; a replay
  sees what was stored; every task ends.
* *Schedules*: one waiting tick; the chain goes on; what is gone is reaped.
* *Tokens*: no authorization is lost; dead means that a person is needed; a
  proxy is told "unchanged" only if nothing has changed; tokens arrive.
* *Company context*: what is published becomes what the user can read, and
  nothing once nobody can; what a row says of the index is true; what a sync
  has passed over it has stored.

`PROJECT.json` lists every component, modelled or not, and every hazard with
its line and the properties that watch it.

## 2. Modules

| Module | Role |
|---|---|
| `SessionExecution` | executions of one thread, driven by several processes |
| `ExecutionContract` | the abstract contract: what clients are promised of executions |
| `SessionExecutionProofs` | TLAPS: types; the safety invariant and the refinement; turns with a limit are driven |
| `EventStream` | the event log of one thread and the streams that read it |
| `EventStreamProofs` | TLAPS: types, and the safety of log and streams |
| `SandboxLifecycle` | sessions, sandboxes, the warm pool and the background workers |
| `SandboxProofs` | TLAPS: types; no sandbox is shared, and none in use is released, swept or reaped |
| `BlocksInput` | both ends of the pipes of a sandbox: forwarding, the reader thread, the pump |
| `CliTurns`, `CodexTurns` | a turn on a command-line harness; on the codex app-server |
| `HarnessServer` | composes the three |
| `HarnessProofs` | TLAPS: a turn ends by its own output and ends its own execution; a process is quiet between turns; steering is not lost |
| `AbsurdQueue` | the durable task queue |
| `WorkflowRuns` | composes the queue with the session and sandbox a run owns |
| `WorkflowProofs` | TLAPS: types; one live run, no lost wake-up, replays agree |
| `WorkflowSchedule` | the ticks of one schedule, the reconcilers and the reaper |
| `ScheduleProofs` | TLAPS: types; waiting ticks wait for one slot, and chains go on |
| `ConsoleTables` | the tables that broker, Console and proxy sync share |
| `TokenBroker`, `ProxySync` | the broker with Console and the endpoint; the sync service with its proxies |
| `TokenDelivery` | composes the two |
| `TokenDeliveryProofs` | TLAPS: types and locks; the cached hash is current; no authorization is lost, and dead means unusable |
| `CalendarSync` | one credential's view of one calendar |
| `DriveScan` | one credential's access to the files of one Shared Drive |
| `NoteIndex` | one Granola note, its observations and its place in the index |
| `SlackPacing` | the calls that share one method of Slack in one workspace |
| `CompanyContextProofs` | TLAPS: of `NoteIndex`, types and the safety of the index; of `SlackPacing`, types, the distance of slots, Retry-After |
| `SlackDays` | one day of one conversation, from Slack to its document |
| `MC...` | each specification with its symmetry sets and definitions, for TLC |

Each specification defines, before the operator it varies, the mutants of that
operator (marked `Mutant:`): the plausible mistakes that the properties catch.

### SessionExecution

One SQL statement is one step.  `status`, `owner`, `lease` are the row;
`lease` is the truth of `stdout_owner_lease_expires_at > now()`.  What a process
does asynchronously is a record in `tasks` with a program counter:

* `attempt`: `execute_session_impl` on a persisted row - `MarkRunning`,
  `CheckShuttingDown`, `ClaimStdoutOwner` (or `Requeue`), `AppendStarted`,
  `EnsureSessionSandbox`, `WriteInput`;
* `scan`: `adopt_orphaned_execution` - `ScanTakesRunning`, then `FailOrphaned`
  or `ClaimExpiredStdoutOwner` and `AdoptRecorded`/`AdoptLive`/`AdoptAttachFails`;
* `pump`: one line (`PumpLine`, `AppendOutputLine`, `RecordTerminalOutput`) or
  the end of a stream (`PumpEof`, `PumpDetached`, `StreamReadError`);
* `timer`: `spawn_max_duration_failure`.

All of them end an execution in the same two statements, `Terminate` (fenced by
owner and active status) and `AppendTerminalEvent`.  `renewers` is the set of
running lease renewers, `stream` and `inbox` a process's attach to the sandbox,
`turns` and `finishedSince` what the harness was given and what its recorded
output shows.  A process keeps one pipe and reuses it (`EnsureSessionPipe`), also one
that is `closed`: its stdout has ended and its pump has not given it up yet.  A write
into it is refused or lost, and the pump then fails or reattaches what it reads as
active.  Replacing the sandbox makes the process forget its pipe, which supersedes a
pump that was about to reattach.  `log` keeps three kinds of events: started, output, terminal.
Faults are drawn from a budget: crash, graceful shutdown, store error, stall,
sandbox loss; also retried requests and clients that open a stream on another
replica.

### EventStream

An append is `Begin`, `AcquireLock`, (`CheckProgress`,) `Insert` - the identity
value is drawn - and `Commit`, which makes the row visible and queues the
notification at every listener.  `EndExecution` is the fenced terminal update.
A reader is `Open`, `Read` (a batch), `Emit` one by one, `Complete`, `Notified`,
`SafetyTick`; `NotificationsLost` and `StreamBreaks` are what may go wrong, and
a client reopens with the last event id it was given.

### SandboxLifecycle

`dispatch[s]` is the driver of session `s`: arrived (admission held), admitted
(row committed), ensure, acquire, claimed or holding, ready, running.  `warm`
and `claim` are the row of `session_warm_sandboxes`, `assigned` is
`sessions.sandbox_id`, `backend` what the backend reports.  Each worker lists
once and then has one task per element, so it acts on a reading of any age.
`turnNo` stands for the id of the latest execution.  Ages are `old`
(of the sandbox) and `claim` = young/old against the max lifetime; an
execution past it is `stuck`.  The pools' workload keys are abstracted: a
session may always take the cold path, and any ready row may be one that a
replica does not configure.

### BlocksInput, CliTurns, CodexTurns, HarnessServer

`stdin` and `out` are the pipes between runtime and server, `pipe` the child's
stdout.  On the runtime's side: `Accept`, `Claim`, `Deliver` (the input line of
an execution), `ReadActive` and `WritePost` or `PostFails` (a message or an
interrupt, read against the active execution and written later), `Expire` (the
max-duration timer) and `Pump`, which attributes a line with
`Attributed`/`Forget`, the bookkeeping of `StdoutPumpState`: `turnOf` is its map
from turn ids to executions (`NoMap`, `Get`, `Insert`), `claimed` a history of
it that forgets nothing.  On the server's:
`ReadLine` routes a line by `turnActive`, `SendLine` sends it in a step of its
own, `Receive` starts a turn, `ClearFlag` and `Drain` end one.  `CliTurns` is
`run_harness_turn`: `ReadChild`, `Stall`, `Settle`, `Disconnected`,
`InterruptCli`, `FailTurn`; `view` is what the turn knows of background agents
and held results, `ReleaseChild` whether the child lives on.  A line that does
not parse (`garbled`) kills the child and ends the turn with an error; a turn
that asks `omp` for another model restarts its child (`StartCli`), or fails
while the old child lives if the model is unknown.  `CodexTurns` is
`run_codex_user_turn` with its scopes, `ForwardSteer`, `ForwardInterrupt` and
engine `Retry`.  The harness processes are external and do what the server can
observe: answer, launch background agents, stop, report late, fail, exit.

### AbsurdQueue, WorkflowRuns

`db[t]` is a task with its row, runs, waits and checkpoints; each SQL function
is one step under the row locks it takes, except where it reads without a lock
(`StallPut`, `ComparePut`, `LatePut` are `set_task_checkpoint_state` taken
apart) and except `await_event`, which resolves and registers under locks that
`RowFree` and `Locking` stand for.  `ctx[w]` is a worker's `TaskContext`:
`ClaimTask` (with the sweep of lapsed leases), `LoadCheckpoints`, then per
operation of `Program` `Replay` or `Begin`/`PutCheckpoint`, `SleepOn`,
`AwaitEvent`, and `Complete` or `FailRun`.  A handler is a sequence of
operations, the value of a checkpoint the attempt that wrote it, so that two
attempts that disagree can be told apart.

`WorkflowRuns` adds what `run_centaur_workflow` does around and inside a
handler: `OpenSession`, `ExecuteTurn`, `TurnResult`, and the cleanup guard:
`CleanUp` before the run ends, `DroppedCleanUp` spawned by a handler that was
dropped.  `owner[t]` is `workflow_run_id` in the metadata of the session, `box`
whether its sandbox runs.

### WorkflowSchedule

Slots of time; a tick and a run per slot, under keys that are used once.  A
replica's pass is `Discover` (`disk` into `registry`), `EnsureTick` and
`SpawnTick` (check, then spawn), `Reap` with `MissCount`; a tick is `ClaimTick`,
`Fire`, `SpawnNext`, `CompleteTick` or `TickFails`; `SleepFails` is an attempt
lost at the first claim, which puts the tick to sleep until its slot;
`LeaseLapses` and `Restart` make two replicas execute one tick.

### ConsoleTables, TokenBroker, ProxySync, TokenDelivery

A secret is a number that its token endpoint has counted up; `accepts` is what
the endpoint would take.  `Tick` lists, `StartRefresh` locks a row or skips it,
`Accepted`, `Rejected`, `Unavailable` and `TimesOut` are the outcomes of a
request, `RecordRefresh`, `RecordRetry` and `RecordDead` the three commits.
The endpoint may answer anything to anybody, whether it accepts the secret or
not: `Answers` are the forms of a failure, and `IsRejection` says, as `interpret`
does, which of them are final - one with an error code and a status other than
5xx and 429 (`invalid_grant`, but also `invalid_client`, `invalid_scope` or
`temporarily_unavailable`, and Slack's `"ok": false` with a 200), and for Preqin
any such status, code or none.  `refusals` is a history variable: the final
answers of the latest refresh of a credential, each with the secret sent.  A request whose caller is gone is a stray that the endpoint
still serves.  Console's re-authorization is `Reauthorize` (external: a person
gets fresh values), `LoadCredential` without lock, `BeginSave` (waits for the
row) and `CommitSave`.  A request at proxy sync is `Poll` (with `load_proxy`),
`Hit` or `Miss`, `LoadCredentials`, `AppendAndStore`: three reads in three
statements.  A hash is the configuration itself.

### CalendarSync

`event` and `changes` are Google's; a sync token is the number of a change, a
page token a position in a listing.  `calendar` is the row of
`google_calendars` with its cursor (`sync`, `page`, `started`, `history`), `docs`
the documents.  `Discover` and `RecordDiscovery`, `Reconcile` and
`RemoveUnretained` are two steps each: the list that was read may be stale when
it is recorded.  A sync is `StartSync`, `LoadCursor`, then `ListEvents` and
`ApplyPage`, or `ListRefused` and `RestartFullSync`; `BeginApply` and
`BeginRestart` fix the `NOW()` of their transactions before they have the row.
`apply_page` compares the whole cursor, hence `tag`: Google does not hand out a
sync token twice (external), also when nothing has changed between.

### DriveScan

`member` and `shared` are what the user can reach at Google, `file` each file
with the number of its last change, which also stands for a page token.
`checkpoint` is the row of `google_drive_checkpoints`: the token fetched before
the listing, the page, whether the listing is done, the place in the change
feed.  `obs` is what the credential was seen to have access to.  A discovery is
`Discover`, `ListShared`, `Revoke`, `Forget`, `SpawnScans`; a scan loads the
checkpoint for each page, reads it (`ListDocuments` or `ListChanges`), observes
it and advances, until `max_scan_pages`; `StartWalk` and `ObserveWalked` are a
walk from shared folders.  A page is one file.

### NoteIndex

`note` is the row of `granola_notes` (revision, content, status), `obs` its
observations, `docs` and `vec` what is in the index.  `Sync` lists, `Fetch` reads
the details and `StageNote` stores them; `SpawnEmbed` may be lost; `StartEmbed`,
`ReadVectors` and `Publish` are `embed_note`, of which only the last has the row
locked.  `StartSweep`, `FindCandidate` and `RemoveNote` are
`reconcile_credentials` around the lock that `remove_unobserved_notes` waits
for.  A lapsed lease (`LeaseExpires`) leaves the attempt running next to the one
that replaces it.

### SlackPacing

`next` and `blocked` are the bucket's row, `now` the clock of the database.
`Reserve` is one transaction, after which the call sleeps without the lock until
`Send` or `SendLimited`; the report of a rate limit (`RateLimited`) is a step of
its own.  `quiet` is a history variable: when Slack told this call to return.

### SlackDays

A member of `Tasks` is the chain of a cycle: `Discover` and `RecordDiscovery`,
the history sync (`Claim`, `Read`, `BeginStore`, `CommitStore`, `Finish`), the
projection (`StaleDays`, `RenderedAt`, `LoadDay`, `UpsertDay`, `SpawnEmbed`);
the chains of two cycles overlap freely.  `timeline` orders the times that the
code compares: `updated_at` of the messages, `rendered_at` of the day, and the
`NOW()` of transactions that have begun; times that nobody compares any more are
dropped.  `spawned` are the idempotency keys used up.

## 3. Runs

Every run finishes within five minutes with two workers.  Deadlock checking is
on in `notes`, whose schedulers always have another tick, and off elsewhere: a
system with no request left may stop, and so may one whose bounds on clock or
queue are reached.

| Run | Instance | Shows |
|---|---|---|
| `ownership` | 2 processes, 1 execution, 1 fault of any kind, max duration | `TypeOK`, `DeliveredAtMostOnce`, `ClosedTurnStaysClosed`, `ImplementsContract` |
| `recovery` | the same without store errors; fair | `OwnedTurnIsDriven`, `AcceptedExecutionEnds`, `EndIsPublishedWhileUp` |
| `events` | 2 writers, 1 reader, batch 1, 2 ids, 1 break; fair | `TypeOK`, `NothingSkipped`, `NothingBehindTerminal`, `OneUpdatePerWindow`, `ScopedStreamCompletes`, `EveryEventArrives` |
| `sandbox_hands` | 2 sessions, 2 sandboxes; fill, drain, switch, release | `NoSharedSandbox` |
| `sandbox_release` | 1 session with 2 turns; fill, release, orphan, prune, pause; all faults | `ReleasedIsNotReused`, `OrphanIsUnused` |
| `sandbox_leak` | 1 session with 2 turns; fill, stale, unconfigured, reap; 2 faults; fair | `YoungClaimIsNotReaped`, `UnusedSandboxIsReleased` |
| `harness` | all 4 kinds of harness, 2 executions, 1 post, 1 of 10 faults; fair | `QuietBetweenTurns`, `KnownTurnEndsItsOwn`, `OwnEnd`, `SteerIsKept`, `EverythingEnds` |
| `workflow_runs` | 1 task, 2 workers, a program with every operation, 2 attempts, 3 runs, 2 of 8 faults; fair | `OneLiveRun`, `NoLostWakeup`, `ReplayAgrees`, `TaskEnds` |
| `schedule` | 2 replicas, a cron schedule of period 2, horizon 3, reap threshold 2, 2 troubles (a fault, or a disk that turns on, off, gone or empty); fair | `OneWaitingTick`, `ChainUnbroken`, `TickReturns`, `GoneIsReaped` |
| `token_broker` | 2 replicas, 1 credential of any of 4 grants, 3 tokens, any answers, 2 of timeout, store error, crash, termination, revocation, stale edit | `TypeOK`, `TokenIsKept`, `DeadWasRefused` |
| `proxy_sync` | 1 broker, 1 proxy, 2 concurrent requests, 2 tokens, 1 edit of settings, 2 windows of the cache, 1 fault; fair | `MatchIsCurrent`, `DeliveryGoesOn` |
| `notes` | 2 credentials, 2 workers, 3 texts, 1 change, 1 of failure and lapsed lease | `TypeOK`, `ObservedIsKept`, `RowTellsIndex`, `VectorIsOfText` |

Five more configurations check the rest of the company context in the same way;
TLC passes each of them, in the time given, with two workers:

| Configuration | Module | Instance | Shows |
|---|---|---|---|
| `calendar_settles.cfg` (80 s) | `MCCalendarSync` | 1 sync, 2 of discovery and reconciliation, 1 event, any 2 of edit, unlisting, death, ageing and more history; 1 fault; fair | `NothingMissed`, `Settles` |
| `drive_scan.cfg` (55 s) | `MCDriveScan` | 1 scan, 1 discovery, 2 files (one shared by itself, one by its folder), 2 changes, 1 failed scan; fair | `TypeOK`, `Settles` |
| `notes_settle.cfg` (80 s) | `MCNoteIndex` | 1 credential, 1 worker, 3 changes, 1 fault; fair | `Settles` |
| `slack_pacing.cfg` (7 s) | `MCSlackPacing` | 3 workers, 2 attempts, 2 lengths of Retry-After, 4 slots, time to 5 | `TypeOK`, `SlotsAreSpaced`, `RetryAfterIsKept` |
| `slack_days.cfg` (140 s) | `MCSlackDays` | 2 cycles, 1 embed worker, 2 edits, 1 failure or stall; fair | `CompletedIsPublished`, `Settles` |

The assumptions on the constants of `CalendarSync`, `DriveScan`, `SlackDays` and
`SlackPacing` are definitions, not `ASSUME`s; the theorems about `SlackPacing`
take `PacingAssumption` as a hypothesis.

Further statements of comments, documents and tests that TLC refutes on a small
instance.  They are defined at the end of the modules and have no run of their
own; the second column says what to put into a configuration to see the
counterexample (otherwise as in the runs of the same module).

| Statement | Instance | Counterexample |
|---|---|---|
| `EndIsPublished` (`docs/pages/architecture.mdx` 128) | 1 crash, fair | the process dies between the terminal update and the terminal event; nobody looks at the row again (`R` 3732, 5680) |
| `AttachedTurnWasDelivered` ("the sandbox is still running the turn", `R` 3741) | no fault | a scan adopts between mark and claim; the dispatch gives up and the adopter waits for a turn that never started (`R` 4121) |
| `HandoffLeavesNoLease` ("an execution accepted after this point would otherwise claim a lease that outlives the process", `R` 4208) | 1 shutdown | flag read, handoff, claim (`R` 1394) |
| `OrphanVerdictIsTrue` ("must not fail a young row", `R` 75) | no fault | the session's old sandbox is down; the scan fails a row its dispatch is about to give a new one (`R` 3967) |
| `DeadStreamSparesDispatch` ("not that execution's to fail", `R` 4851) | sandbox, viewer; 2 faults | a read error, unlike an end of stream, ignores the dispatching marker (`R` 5352) |
| `TerminalEventIsLast` ("nothing else will ever arrive", `R` 4637) | 1 stall | a stalled dispatch stores its started event late (`R` 2449) |
| `PodDeathEndsExecution` (`docs/pages/architecture.mdx` 129) | 1 process, 1 store error, no max duration, fair | the store error ended the pump, the renewer runs on (`R` 4835) |
| `OwnedTurnIsDriven` without a limit | 2 executions, stall and sandbox, 4 faults, no max duration | a stalled dispatch whose row was failed meanwhile goes on and replaces the sandbox under the next turn; that turn's pump finds its pipe gone and returns (`R` 4987), its renewer runs on, and no peer may adopt it |
| `DrainSparesTurn` (`R` 2074) | drain, 1 replica | a turn past admission claims the warm sandbox that the drain has just found idle (`R` 2088) |
| `ActiveTurnDefersReap` (`RP` 10) | 1 sandbox, no pool, reap, 2 turns | a turn arrives between the reading and the stop (`RP` 95) |
| `PauseSparesTurn` (`R` 5936) | 1 sandbox, no pool, pause, 2 turns | a turn arrives between the checks and the pause (`R` 5980) |
| `RunningTurnIsAssigned` (`R` 1828) | 2 sandboxes, no pool, switch | the switch clears a sandbox it did not stop (`R` 1852) |
| `ReadyWithinTarget` (`R` 728) | 2 replicas, 2 sandboxes, target 1, fill | both count, then both fill (`WP` 156) |
| `OrphanIsUnused` | 1 session, 1 sandbox, switch, orphan | a switch clears the assignment of a session whose turn has already got the sandbox; two sweeps later it is stopped under the turn (`R` 1852) |
| `YoungClaimIsNotReaped` (`RP` 9) | 2 sandboxes, fill, prune, reap, 1 flap | the prune marks a row failed that was claimed meanwhile (`S` 1903) |
| `LateOutputIsDropped` (the test at `R` 8820) | fault `fail` | a harness reports an error and then a completion: the second terminal line of a forgotten turn id is attributed to the execution active by then (`R` 5490) |
| `EndsByOwnTurn` | 1 fault | the same, or a steering line that became a turn of its own |
| `OwnEndAlways` (`HS/traits.rs` 115) | no fault | a result later than the settle window arrives after the next turn has drained what was buffered, and ends it (`HS/server.rs` 1259) |
| `SteerIsKeptByAll` ("starts a new turn", `R` 2809) | codex, no fault | a steer read against a turn that ends before the app-server has it is logged and dropped |
| `InterruptHitsItsTurn` | 1 expiry | the reader thread saw the flag of one turn and sends to the next |
| `CompletedLeavesNoSandbox` (the cleanup for "workflow_completed", `W` 2800, and the test at `R` 11573) | crash, `WSpec` | the process dies after the session was opened; the retry finds the session, whose metadata keep the id of the first run (`S` 245), completes, and cleans up the sandboxes of its own run id: none (`W` 2942) |
| `CleanupSparesTurn` | lapse and handler | the guard of an abandoned attempt stops the sandbox that the next attempt's turn runs in |
| `OneWaitingTick` | `Kind = "interval"` | two chains, once started with different phases, have different keys and never merge |
| `ReplayAgrees` without its exception for stalls | stall | a worker whose claim has lapsed between the check and the update overwrites the checkpoint of its successor (`Q` 1421) |
| `DeadIsUnusable` ("`dead` (an unrecoverable refresh failure; needs fresh initial values)", `services/console/docs/API.md` 824) | no fault | the endpoint answers with an error that is not about the secret (`invalid_client`, `temporarily_unavailable` with a 400, Slack's `"ok": false`), or Preqin's with a bare 4xx: the credential is dead although what it has stored is accepted (`TB/client.rs` 206-208, 221-225) |
| `SavedIsLive` ("clears dead state", `services/console/docs/API.md` 811) | `stale_edit` | Console loads the row, the broker marks it dead, and the save writes the changed columns only: `dead` was false when loaded and is not written |
| `Backfilled` ("Raising the value starts a full sync that backfills the older events", `services/company-context/README.md`) | `calendar_settles.cfg` with 3 of ageing and raising, `RaiseBy = 1`, no fault | an event ages out; the days are raised by less than has passed since the last full sync, so the new cutoff is not before that sync's and nothing is restarted: the incremental sync never lists the event again (`CC/calendar_tasks.rs` 257) |
| `ReturnStartsFullScan` ("so that returning to one starts from a full scan", `CC/tasks.rs` 432) | `drive_scan.cfg` with 1 file not shared by itself, 2 changes of membership, 1 failed discovery | access is revoked, discovery dies before it deletes the checkpoint, the user is back when it is retried: the change feed is followed on and the unchanged files stay revoked (`CC/tasks.rs` 438) |
| `BlockHoldsForAll` ("A rate limit blocks the method for every worker until Retry-After passes", `CC/slack_rate_limit.rs` 8) | `slack_pacing.cfg` | a slot reserved before another worker was rate limited is used inside the block (`CC/slack_tasks.rs` 687) |
| `Settles` of `SlackDays` ("After each sync, the conversation's history is projected into documents") | `slack_days.cfg` with `MaxMoves = 2`, no edit, no fault, no deadlock check | a conversation is removed and observed again; its days start at revision 1, whose embed tasks there have been: nothing is spawned and nothing published (`CC/slack_documents.rs` 120) |
| `ChangedIsRendered` ("A day is rendered again when its messages ... change") | `slack_days.cfg` with 1 edit, no fault | a transaction stamps its messages, a rendering reads the day without them, the transaction commits: the messages look older than the rendering (`CC/slack_tasks.rs` 1029) |

For the same reasons `recovery` excludes store errors and
`EndIsPublishedWhileUp` lets go of executions once a process has stopped;
`sandbox_leak` excludes the flapping sandbox, and `sandbox_release` the switch
(a running turn that a switch left behind is unreferenced and the orphan sweep
stops it).  What else the model shows of workflows: a reaped slot keeps its key
used up; a failed pass of the reconciler does not reset the miss counts; the
timeout of `await_event` is not checkpointed; a result held back for
background agents has no deadline of its own (the turn's end then comes from
the max-duration timer or the child's exit).

### Bounds

* Two processes, workers or replicas are enough for every race the code guards
  against by owner id, lease or row lock: the holder and one other.  A restarted
  process has a new owner id, hence a `Crash` is final in `SessionExecution` and
  a replica is always left (`SomeOtherUp`), as in a rolling update.
* One execution exercises the whole life of a turn; that leftovers of one turn
  meet the next is covered by the proofs, and by `harness`, with two executions.
* `MaxFaults` of 1 allows each fault alone at any moment; `sandbox_leak`,
  `workflow_runs`, `schedule` and `token_broker` allow any pair.
* Two event ids and a batch of one give an event that commits late behind a
  cursor, a full batch, and a read that continues after it.
* Two sandboxes give a session one to lose and one to get; two turns give a
  worker a reading from the previous one.
* `AllOperations` contains a sleep, an agent turn, a step, an event awaited with a
  timeout and one awaited without;
  `MaxRuns` of 3 is two attempts and one `retry_task`.
* A horizon of 3 with period 2 leaves slots that are due, missed, and not yet
  due.
* Two syncs, projections or workers of the company context are one that is slow
  and one that overtakes it; two pages are one page under a cursor and one that
  ends the listing.  Two changes are one and its reversal (leave and return, die
  and be renewed, age and raise).  One fault is fewer than the attempts of a
  task: what uses up all attempts is not retried by anybody.
* In `notes` two credentials and two workers are an observer that goes and one that
  stays, and an attempt that overtakes another; three changes of one note, with one
  credential, are in `notes_settle.cfg`.
* Times 0 to 5 with intervals of 2 hold the slots of three workers, a block
  behind them, and a block that another one shortens in the mutant.
* Three tokens are the first one, one that a refresh rotated in and one that a
  person supplied; two suffice for `proxy_sync` (its safety also holds with
  three, 2.5 million states, checked outside the runs).

### Timing assumptions

Time is not modelled, except as order.  Four guards say where the code's
durations exclude an order, each with a large margin:

* `GraceElapsed`: the 120 s grace of a row without sandbox outlasts the two
  statements from `mark_execution_running` to the claim;
* `LeaseRunsOut`: 45 s outlast the two statements by which a scan claims and
  fails a row; apart from that a lease runs out only when its renewer is gone
  or (fault `stall`) its process was stopped for that long;
* `IntervalElapsed`: the interval of the cleanup worker (300 s by default)
  outlasts the statements from a sandbox's creation or claim to its row;
* `Settled`: so does the max lifetime.

### Fairness

* `SessionExecution`: weak fairness of each task of a process that is up (tokio
  runs every spawned task), of the adoption scan and the renewers (interval
  loops that log errors and go on), of handoff and exit, and of the expiry of
  leases.  Nothing is assumed of clients, the harness or the faults: a turn may
  never finish by itself, which is why `recovery` needs the max-duration timer.
* `EventStream`: clients read and reopen and the 30 s tick fires; nothing of the
  writers and nothing of notifications.
* `SandboxLifecycle`: the reaper sweeps, its tasks run and time passes.
* `HarnessServer`: the runtime writes and reads what it began, the server's
  threads run, and the harness goes on with what it was given; nobody owes a
  request, a post or a fault.
* `WorkflowRuns`: workers poll, handlers go on, time passes, turns end and
  spawned cleanups run.
* `WorkflowSchedule`: the clock moves, reconcilers and workers are loops, and
  abandoned claims lapse.
* `TokenDelivery`: replicas are restarted and poll, requests are answered or
  time out, what was begun is stored, proxies poll and are answered; nothing of
  people or of what the token endpoint decides.
* Company context: the scheduler ticks and the queue hands out tasks in the order
  of their time, hence strong fairness of starting each kind of task (a slot is
  free again and again, and no kind can be passed over for ever); weak fairness
  of the steps of a handler that nothing stops; in `DriveScan` access that was
  not seen again expires.  Nothing of users, Google, Slack, Granola or faults.

## 4. Proofs

Proved with TLAPS for every value of the constants that satisfies the
assumptions named below.

### SessionExecution

From `ConstantsAssumption`, for every set of processes and executions and every
fault budget:

* `TypeCorrect`: `Spec => []TypeOK`;
* `Safety`: `Spec => []SafetyInvariant`, whence `AtMostOneDelivery` and
  `NothingAfterTheEnd`;
* `Refinement`: `Spec => ImplementsContract`, the mapping being `phase <-
  status`, `sent <- delivered`, `history <- log`;
* `OwnersDriveTheirTurns` and `LimitedTurnsAreDriven`: if turns have a limit and
  the store answers, `Spec => []OwnedTurnIsDriven`.

Neither `DeliveredAtMostOnce` nor `ClosedTurnStaysClosed` is inductive.
`WriteInput` does not look at the row, so that it delivers only once must
follow from who can get there: `DispatchIsExclusive` says that a driver past
`MarkRunning` is the only one of its execution, that its row has left the queue
and that nothing was delivered; `QueuedIsUndelivered` says the same of rows that
a driver may still take.  `MarkRunning` takes a row out of the queue, so no
second driver can follow; `Requeue` puts it back as its driver ends.  Likewise
`AppendTerminalEvent` and the output path do not look at the log:
`PublisherWonTheFence` says that whoever is about to publish has moved the row
from active to terminal, is alone, and nobody has published before; a row never
becomes active again once terminal, so no output passes the fence.  Leases,
renewers and sandboxes do not occur in the invariant: safety rests on the
guarded updates alone, and lease expiry affects only liveness.

`SessionExecutionProofs` first settles the steps that leave status, log and
deliveries alone (`NeutralStep`, one lemma for most of `Next`), then has one
lemma per remaining action; `Refinement` uses the invariant where the contract's
guards ask for it (`Send` needs `sent = 0`, `PutBack` too, `Announce` needs no
earlier terminal event).

`OwnedTurnIsDriven` speaks of any activity and any attached stream, and is not
inductive: a stream may close, a pump may be about to end.  The invariant `OwnersDrive`
leaves streams and pumps out.  Every turn that a live process owns, renewed or
not, has a dispatch past its claim, an adoption past its claim, or an armed timer of that
process; each of them ends the turn, gives it up, or hands it to the timer
(`PassesOn`), and whatever else happens lets nobody gain a turn or lose a driver
(`KeepsDrives`).  That a new row is unowned is part of it.  Both hypotheses are needed: without
a limit only the pump is left, and TLC shows how it is lost (section 3); a store error
abandons a timer or a dispatch where it stands while the renewer runs on.

### EventStream

`LogAndStreams` proves the conjunction of the inductive invariants, from which
follow `StreamTypeCorrect`, `NothingIsSkipped`, `DeliveryIsInOrder`,
`TerminalIsLast` and `OneUpdateOfAllReplicas`.

That a cursor skips nothing depends on identity values being drawn before the
commit that shows them.  The invariant says that the holder of the thread's
lock is the only writer with an uncommitted id, that this id is `lastId`, and
that every committed id is smaller; so whatever commits later is above every
cursor.  On the reader's side, what a stream has read and not yet emitted is
closed downwards above its cursor, so that emitting the first of it passes
nothing.

### TokenDelivery

From `TablesAssumption`, `BrokerAssumption` and `SyncAssumption`:
`DeliveryTypeCorrect` (types, and that a credential under refresh is locked by
the replica that refreshes it), `ReadsAreGuarded`, `MatchesAreCurrent`,
`SecretsStaySound`, `AuthorizationsAreKept` (`TokenIsKept`) and `DeadWereRefused`
(`DeadWasRefused`, which lets go once a stale record was saved).

The rows a request reads may change between its three statements.  The
invariant is that versions never go back, that equal versions mean equal tokens
and settings, and that a request has read the version before everything it
guards: if the version it read is still the current one, so is all the rest.
An entry of the cache is stored under the version read first, hence an entry
whose version is current holds the current configuration.

The broker's invariant, `SecretsAreSound`, is per credential.  `Numbered`: nobody has a
secret that was not issued, so what the endpoint issues next is new to all.
`HasWhatItNeeds`: each grant has the secrets it uses and no others.
`VerdictIsRight`: a refresh of a row that has a refresh token asks with the initial values only after
an answer to that token that is final for the grant, and one about to say "dead" has had
such an answer to everything that is stored (`AllRefused`), in this refresh; the row lock
keeps a save out until then.  `DeadIsOver`: so the same holds of a dead row: its
secrets change only by a save, which clears the flag it loaded, and `refusals` starts anew
only with a refresh, which a dead row does not get.  Nothing of this looks at what the endpoint accepts: whether a refusal
was deserved is not the broker's to know (`DeadIsUnusable`, section 3).  `NothingIsLost`:
unless disturbed, no secret is in a request that was cut off, the values of an edit are accepted and
nobody else has them, a refresh that was granted holds what the endpoint accepts now, and
hence `TokenIsKept`.

### NoteIndex

From `NoteAssumption`, for any credentials, workers and texts: `NoteTypes`, `RowIsTrue` (a completed
row has its content in the index, and nothing is left of a deleted one),
`VectorsMatch` and `ObservedNotesStay`.

An attempt of an embed task may finish arbitrarily late, so its final step must
be harmless whatever it carries.  The invariant is that an attempt's content is
that of its revision: if the revision it carries is still that of the row, then
the content is the row's too, because revisions only grow and content changes
only with them.  The fence on the locked row does the rest.  A vector that is
reused is the one in the index as long as the revision stands, since only a
publication or a removal, both of which end the pending revision, replace it.
`ObservedIsKept` rests on the recheck under the lock: the candidate was chosen
on a snapshot that did not see the fetch's observation.

### SlackPacing

Under `PacingAssumption`, for any number of workers, attempts and lengths of time:
`PacingTypes`, `SlotsSpaced`, `RetryAfterKept`.

That slots keep their distance follows from `ScheduleIsAhead`: the schedule is
an interval past every slot it has granted, so the next grant is too, wherever
block and clock push it.  That no two calls wait for one slot needs in addition
that a waiting call's slot was granted.  For Retry-After, `Held` follows a call
through its states: one that has yet to report will block for no less than it
was told, one about to reserve is held back by the block, which never shrinks.

### SandboxLifecycle

For any replicas, sessions, sandboxes, turns, jobs and faults:

* `LifecycleTypes`: `Spec => []TypeOK`;
* `NeverShared`: `Spec => []NoSharedSandbox`;
* `RetiredForGood`: a sandbox nobody can get hold of stays so in every step;
* `NotReused`: `Spec => []ReleasedIsNotReused`;
* `OrphansAreUnused`: `Spec /\ [][SwitchSparesTurn]_vars => []OrphanIsUnused`, and
  `OrphansWithoutSwitches` where nobody switches;
* `YoungClaimsSpared`: `Spec /\ [][PruneSparesClaims]_vars =>
  []YoungClaimIsNotReaped`, and `YoungWithoutPruning` where nobody prunes.

The invariant has layers, each of which rests on the one before.  `Types` says
with which fields each task of a worker stands at which step.  `Hands` is the
core: what a session is assigned, or its driver has read, claimed or created, no
other session has (`Exclusive`), it was created (`RowIsCreated`), the pool does not
offer it (`Taken`), and what the replenisher has created and not yet inserted only
the replenisher knows (`Fresh`).  Nearly all steps are *calm*: no session gets a
sandbox it did not have and nothing is offered anew; one lemma disposes of them.
Four steps do give a sandbox, and each takes one that no session has, out of the
pool by a fenced update or newly created.  `Retired` turns this into a fact about
the future: a sandbox that is in no hand, not in the pool and in no way into it
stays so.  Then a release and a sweep may act on a reading of any age: what they
stop was retired when they read it (`ReleasedIsRetired`, `SweptIsRetired`).  For
the sweep this needs its two readings, with the interval between them, and that a
driver past its second reading of the session works in the sandbox that is assigned
(`DrivenIsAssigned`).  `Claims` (`RowFine`, `TaskFine`) follows a row of the pool and
what each task of the reaper knows of its age.

The two hypotheses are not conveniences.  TLC refutes both properties without
them (section 3): a switch clears the assignment of a running turn, and a prune
marks a row failed that was claimed after the prune had listed it.  They exclude
exactly those steps, as an action property, and leave switches of idle sessions and
prunes of unclaimed rows in.

### BlocksInput, CliTurns, CodexTurns, HarnessServer

For any kinds of harness, executions, posts, retries, faults and fault budget:

* `QuietBetween`: `Spec => []QuietBetweenTurns`;
* `EndIsOwn`: `Spec => OwnEnd`;
* `KnownTurnKeeps`: `Spec => []KnownTurnEndsItsOwn`;
* `SteerKept`: `Spec => SteerIsKept`.

`MainInv` and `InputInv` say that the turn under way is the latest one, what the
channels hold, and that for a command-line harness the reader thread passes only
interrupts on to a turn (`OnlyInterrupts`).  A steering line is therefore always in
the command channel or on its way to it, and no drain of `requests` loses one.

`KnownTurnEndsItsOwn` speaks of the past: what the pump attributed first and what
ended an execution.  `Attributed` looks at `turnOf`, which `Forget` prunes by
execution, so the question is whether a line can still come of a turn that was
forgotten.  `SeenIsKnown` says that it cannot, unless the turn has written an error:
the pump knows the execution of a turn it has read from until nothing more is to
come of it.  That in turn needs the order of lines: `TerminalCuts` says that what follows a
terminal line is of a turn of which nothing was read and that wrote nothing before
that line, `UnderWayIsNew` the same of what the turn under way has yet to write.
`KnownWasClaimed` gives that an execution to which a turn was attributed is not one
that is yet to start.

The background agent exists in two places: as it is, in `child`, and as the turn
has understood it from the lines read so far, in `view`.  `ChildInv` ties them
together.  Inside a turn, `AtWork` asks for a function along the pipe that leads from
what `view` says, line by line (`Moves`), to what the agent is, and that nothing
follows a line at which the turn will end (`Tracks`); all lines are of this turn.
So when the turn reads its end, either it knows of an agent and stops the process
(`ReleaseChild`), or there is none and the pipe is empty, which is `AtRest`, and the next turn starts from `FreshView` with nothing to inherit.  For
codex the agent does not exist (`NoAgents`) and ends are told apart by scope.
All this is claimed of a process until one of its turns has been completed by silence
(`settled`); afterwards TLC refutes it (`OwnEndAlways`, section 3).

### AbsurdQueue, WorkflowRuns

From `QueueAssumption`, for any tasks, workers, handler programs, numbers of
attempts and runs, and any faults: `QueueTypes`, `OneRunIsLive`
(`OneLiveRun`), `WakeupsArrive` (`NoLostWakeup`) and `ReplaysAgree`
(`ReplayAgrees`), all of `WSpec`, so with the session, its turn and the cleanup
around the handler.

`WorkflowProofs` first says what each SQL function does to a fine row (`RowFine`:
the last run carries the task's state, those before it have failed; a failed
task has used its attempts; a wait belongs to a sleeping run, which without a
timeout only the event can wake; checkpoints are of runs that exist).  Then it
relates rows and workers.  `Attached` is the heart of it: a worker whose handler has
not failed has a run that is not to be claimed, so a claim never takes a run from under a
handler that could still write; while a worker holds the locks of `await_event` its
run is running and, if it found no payload, there is none; and what it has seen is
what the checkpoints say while its run is live.  `Alone` says that of several workers
of one run (a reply that was lost leaves one behind) all but one have failed.
`NoLostWakeup` follows from `Heard`: once the event is emitted, every wait has timed
out; a registration cannot break it because the lock keeps `emit_event` out.
`ReplayAgrees` needs in addition that the operation a handler is about to store has no
checkpoint yet, that no event that is waited for has one (`Open`), and that a payload
reaches only a run whose handlers, if any, have failed.  Writes by an attempt that was
superseded are refused because its run has failed; only the stalled call, which the
property excludes, gets past that check.

`StepFine` has one lemma per action, built from four generic ones: a statement on a row
(`RowStep`), a step of a handler (`CtxStep`), both at once (`ActStep`), and more
faults (`FaultStep`).

### WorkflowSchedule

From `ScheduleAssumption`: `ScheduleIsOrderly` (the inductive invariant), `ChainsMerge`
(`OneWaitingTick`, for cron schedules; TLC refutes it for intervals, section 3) and
`ChainsGoOn` (`ChainUnbroken`, for both kinds).

That chains merge is arithmetic.  `OnTime` says that every tick there is, and every
slot that a pass or a handler has computed and not used yet, is a multiple of the period and
not after the next slot of the present time: it was computed from an earlier
reading of the clock, and `NextSlot` is monotone.  There is one multiple of the period
after the present time and not after the next slot.  `ChainUnbroken` speaks of
some active tick and is not inductive, since the tick that completes may be the only one.
`Chained` says where the next one is: a tick that is over, or whose handler is done, is
followed by a later one that is active or has failed.  When a successor
completes, its own successor follows both, so no largest slot is needed.  A handler
is done only after its spawn, and if the key it spawns was used up, the tick of that key
has a successor.  That the reaper cancels nothing while the disks are unchanged is part of it.

### Only model-checked

Of the runs: the liveness properties, `AcceptedExecutionEnds`, `EndIsPublishedWhileUp`,
`ScopedStreamCompletes`, `EveryEventArrives`, `UnusedSandboxIsReleased`,
`EverythingEnds`, `TaskEnds`, `TickReturns`, `GoneIsReaped` and `DeliveryGoesOn`
(fairness and `ENABLED` are out of the prover's reach).  Their safety properties
are all proved.  Of the further configurations: everything about calendars, Drive and
Slack days, and `Settles` of notes.  Induction over data and
what RECURSIVE operators compute are out of reach as well; the modules declare none.

## 5. Abstractions and what is not modelled

* In `SessionExecution` the pump's attribution of a line to an execution is a
  choice between the active execution and dropping the line; `BlocksInput` has
  the bookkeeping itself.
* The recorded output of a sandbox is reduced to whether it holds a terminal
  line since an execution was marked running.
* Log events other than started, output and terminal ones are left out of
  `SessionExecution`; in `EventStream` they are notes.
* The running-capacity limit counts, then creates, and is best effort across
  replicas; in `SandboxLifecycle` it is a dispatch that fails.
* Forced drain, tool-host calls, personas, titles and session status.
* Harness server: the JSON-RPC mode, models (except that `omp` restarts
  its child for another one) and reasoning settings, telemetry,
  and the text of anything.
* Harness server, codex: a notification without a thread or turn id is in every
  scope (`HS/codex.rs` 1146), and an `error` that announces a retry (`willRetry`)
  ends nothing; the app-server of the model names the turn in every notification and
  does not announce retries.
* Queue: cancellation policies (`max_delay`, `max_duration`: nothing in the repository
  sets one, and `default_cancellation` is `None`), `retry_task` with `spawn_new`,
  partitioned queues.  Workflows: the protocol of the Python host, webhooks.
* Schedules: the replicas and the database read one clock.  `Reap` is one step: in the
  code the list of active ticks and the cancellations are statements of their own
  (`W` 2345-2408), and a tick that moved on in between is cancelled one pass later
  or has ended; a cancellation that fails is logged and repeated by the next pass, since
  the count of the name goes on.
* `EventStream`: the window of a progress update is counted from `created_at`, the begin
  of its transaction, so it may pass any time after the commit; `WindowPasses` allows that.
* Tokens: who is granted a credential is constant, so a grant that commits while a refresh
  invalidates the configurations of the grantees (`TB/store.rs` 263-279) is left out, as
  is the version that Console bumps for it; times are reduced to being due;
  `failure_count` and the length of a backoff are left out; initial values are present and decrypt; a credential has one edit at a time;
  a proxy keeps its principal; a hash is the configuration; the cache is that of
  one replica of proxy sync; an answer arrives in the step that produces it; the
  suppression of conflicting secrets (`console-db/conflicts.rs`).
* Company context: one calendar, one drive, one note, one conversation with one
  day, whose rows share nothing with others.  A page of the drive is a file.
  Drive: two credentials, and two concurrent scans.  Slack: one credential, and
  the messages of a day are one text; thread syncs, user and channel names, the
  version of the projection, files and members are left out, and so is the
  sharing of vectors between days.  A revision of a day has one attempt of its
  embed task at a time; the list of retained credentials is read in the step that
  removes.  Equal values of `NOW()` are ignored.  Not modelled: extraction,
  embedding and deletion of Drive files, custom documents, and queries.
* The other components are listed in `PROJECT.json` with the reason: they
  translate, render, or call services outside the repository, and keep no state
  that several steps of theirs contend for.

## 6. Plan

Done, in this order: `SessionExecution` with its contract and proofs,
`EventStream` with its proofs, `SandboxLifecycle` with its proofs, the queue and
workflow runs with their proofs, schedules with their proofs, the harness server
with forwarding and attribution and their proofs, token broker and
proxy sync with their proofs, company context (calendar, Drive, Granola with
proofs, Slack pacing with proofs, Slack days).

Next:

1. Capacity across replicas; the dedupe of inbound chat events.
2. The suppression of conflicting secrets: the indexed algorithm against the
   full scan, as functions over small sets of grants.
3. The rest of the company context: Drive's extract, embed and delete tasks,
   Slack threads, custom documents; two concurrent scans of a drive.
4. Proofs: `NothingMissed` (the comparison of
   the cursor makes pages of one listing apply in their order);
   `CompletedIsPublished`.
