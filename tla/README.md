# Verification of the Grinta agent core

This directory holds TLA+ models of Grinta (`src/backend`), the TLC configurations that check them
on small instances, and proofs that TLAPS checks for every value of the constants. Grinta is a
terminal coding agent: an orchestrator asks a language model for actions, executes them through a
runtime, shows some of them to the user first, and records everything in an event ledger that has
to survive crashes. What is hard about it is order: callbacks on an asyncio loop that interleave at
every `await`, threads that share queues and files, timeouts that race late answers, and processes
that die between two file operations. That is what is modelled; wording, prompts, model clients and
screens are not.

`PROJECT.json` is the machine-readable side of this file: components, runs, the source lines behind
every definition (`map`), the mutation that shows each property can fail, the findings, the hazards
and the theorems.

## 1. Inventory

### 1.1 The parts and how they interact

```
            user messages, decisions, stop                       LLM
  TUI / CLI ------------------------------.                       ^
     ^ events (subscriber)                v                       | get_action
     |                             SessionOrchestrator ---- Engine / Context / Inference
     |                             step scheduler, agent state, recovery, watchdogs
     |                                |  add_event       ^ on_event (loop callback)
     |                                v                  |
     '---------------------------- EventStream: ids, delivery queue and workers
                                      |  persist_event   | dispatch to subscribers
                                      v                  v
                              DurableEventWriter      RuntimeExecutor (tools) --> observations
                              file store / SQLite     memory, telemetry, playbooks
```

*Calls.* The orchestrator adds actions to the event stream; before delivery a hook arms the action
in the table of outstanding actions. The stream persists the event, then delivers it to its
subscribers: the runtime (which answers with an observation), the orchestrator itself, the
interface, memory. Observations reach `ObservationService`, which removes the row of the action and
requests the next step with `step()`.
*Threads.* The orchestrator's code runs on one asyncio loop. `step()` and `add_event` may be called
from any thread and reach the loop through `call_soon_threadsafe`. The ledger has a writer thread of
its own; delivery has a pool of worker threads.
*Shared state.* `_step_task`, the request counter and `_step_lock` (scheduler); `_outstanding`
(pending actions); `_cur_id` and the cache page (stream); the session directory (ledger).

### 1.2 Components

| component | state | operations | what is hard | what makes it correct | status |
|---|---|---|---|---|---|
| **Durable ledger, file mode** `ledger/stream/durable_writer.py`, `persistence.py`, `event/event_store.py` | canonical files, `.pending` markers, `lost_events/`, writer queue and batch, `_cur_id` | `add_event`, `persist_event`, enqueue, flush with retries, quarantine, close, replay | writer thread, full queue, failing writes, crash between any two file operations | an acknowledged event is never without a copy; the log is append-only; a restart recovers everything; nothing sits in the queue for ever | `DurableLedger` |
| **Step scheduler** `orchestration/session_orchestrator.py`, `mixins/step.py`, `mixins/watchdog.py`, `mixins/lifecycle.py` | `_step_task`, `_step_request_count`, `_step_lock`, lifecycle, agent state | `step`, `_request_step`, `_create_step_task`, `_drain_steps`, `stop`, `close`, watchdog | callbacks in any order, cancellation at any wait, the lock shared with `stop` and `close` | no request is lost, no two steps at once, no task that `stop` cannot reach, `stop` and `close` end | `StepScheduler` |
| **Pending actions and confirmation** `services/pending_action_service.py`, `action_service.py`, `confirmation_service.py`, `observation_service.py`, `mixins/parallel.py`, `mixins/state.py`, `action_scheduler.py` | `_outstanding`, `agent.pending_actions`, agent state, dialog | execute or ask, serial and parallel drain, decide, resolve, time out, stop, new message | consent given to what is pending later, ids that change, late observations, timeouts | nothing risky runs unapproved, nothing runs twice, no call is lost, no step before the results | `PendingActions` |
| **Event delivery** `ledger/stream/event_stream.py`, `backpressure.py` | delivery queue with its waiting puts, worker tasks, pool threads, subscribers | `add_event`, enqueue under a drop policy, dispatch, close and drain | callers, queue loop and pool threads wait for one another; eviction on a full queue; shutdown while all of them are busy | no event vanishes unrecorded, nobody is called twice, one worker keeps the order, every call returns, close ends | `EventDelivery` |
| **Agent state, recovery, retries** `services/state_transition_service.py`, `recovery_service.py`, `retry_service.py`, `iteration_guard_service.py`, `mixins/watchdog.py` | agent state, retry queue and its counters, iteration limit | transitions, recovery per kind of error, schedule and fire a retry, final turn, watchdog | a retry that fires after a stop or a new turn; flags cleared at other moments than the queue; the limit saved, moved and put back | a waiting agent has a retry queued and leaves the wait, iterations stay within the grant, a running agent steps | `AgentRecovery` |
| **Step guard, circuit breaker, stuck detection** `services/step_guard_service.py`, `agent/circuit_breaker.py`, `stuck/detector.py` | error counts, warning counts | check, record, warn, trip, reset | threshold boundaries, resets at the wrong moment | the counters stay within the limits they are compared with | consecutive errors in `AgentRecovery`, the heuristics not |
| **File-edit transactions** `orchestration/file_edits/` | snapshots per response, members and completed members | `before_action`, `after_observation`, restore, drop queued members | siblings in other threads, timeouts with a late write, blocked members, shared files | an edit of a group that was rolled back is in no file | `Workspace` |
| **Checkpoints and rollback** `execution/rollback/`, `middleware/rollback_middleware.py`, `engine/tools/checkpoint.py` | list of rows, manifest, shadow repository | create, evict, save, revert by user and by model | two threads, two managers of one manifest, protected rows at the limit | the checkpoint announced for an edit exists while the edit is on its way, and undoes it | `Workspace` |
| **SQLite event store** `persistence/sqlite_event_store.py`, `ledger/stream/persistence.py` | table of events, what the file mode left, `_cur_id` | open with migration and replay, append, max id, close | failing import, failed insert, a call that outlives its stream | implements the append-only log; opens only with everything in the table | `SqliteLedger` |
| Compaction and coalescing `ledger/stream/compaction.py`, `nested_event_store.py` | none (pure) | compact, filter | boundaries | equals a reference definition | not modelled (section 6) |
| Tasks `core/tasks/task_tracker.py`, `task_state/service.py` | plan steps and statuses | update, gate completion | gate read before update | finish only with the plan settled | not modelled (section 6) |
| Conversation persistence, session checkpoints | files | save, load | atomic rename | single writer; events are recovered from the ledger | not modelled |
| Rate governor, memory pressure | clock readings | throttle | thresholds | only delays steps | not modelled |
| Replay of recorded sessions | list, index | next | none | sequential | not modelled |
| Runtime executor | processes | run an action | I/O | answers each action once: assumed by `PendingActions` | environment |
| Engine, context, inference, MCP, security analysis, knowledge, telemetry | texts, clients | | network, texts | their outcomes are nondeterministic choices of the models | environment |
| Terminal UI, CLI, bootstrap | screens | show dialog, decide, interrupt, `/checkpoint revert` | polling | its dialog, interrupt key and commands are actions of the models | environment |
| Utilities | | `run_or_schedule`, generic circuit breaker | | abstracted in the loop modules | partly abstracted |

The hazards, each at the line where it bites and with the property aimed at it, are in `PROJECT.json`.
They fall into six groups: crash and partial failure in the two ledgers; lost wakeups and double tasks
in the scheduler; consent, identity and lateness in the pending table; eviction, order and mutual
waiting in delivery; flags, counters and limits that are read, moved and reset at different moments in
recovery; and undoing edits that are still under way in the workspace. The one hazard without a
property is the manifest with two writers (section 4, known limits).

## 2. Modules

| module | models | companion modules |
|---|---|---|
| `EventLog` | what a ledger promises, whatever stores it (abstract) | |
| `DurableLedger` | the file-backed ledger in WAL mode over several process lives | `DurableLedgerMC` (instances), `DurableLedgerProofs`, `DurableLedgerRefinement` (implements `EventLog`) |
| `SqliteLedger` | the ledger on its database, the default, taking over what the file mode left | `SqliteLedgerMC`, `SqliteLedgerProofs` (also: implements `EventLog`) |
| `EventDelivery` | from `add_event` to the callbacks of the subscribers, with backpressure and close | `EventDeliveryMC`, `EventDeliveryProofs` |
| `StepScheduler` | requests, step tasks, drain loop, lock, stop, close, watchdog on the event loop | `StepSchedulerMC`, `StepSchedulerProofs` |
| `PendingActions` | tool calls from the model's answer to the observation that settles them | `PendingActionsMC`, `PendingActionsProofs` |
| `AgentRecovery` | the state graph, recovery of failing steps, retries, breaker, iteration limit, watchdog | `AgentRecoveryMC`, `AgentRecoveryProofs` |
| `Workspace` | the files, edit transactions and checkpoints, over the runtime that executes edits | `WorkspaceMC`, `WorkspaceProofs` |

*How they fit together.* A step (`StepScheduler`) yields tool calls (`PendingActions`), whose actions
and observations are events: each is stored (`SqliteLedger`, or `DurableLedger` in file mode), then
delivered (`EventDelivery`). A step that raises is `AgentRecovery`'s, a call that edits a file is
`Workspace`'s. Each module takes what its neighbours do as nondeterministic choices: `StepScheduler`
any way a step may end, `PendingActions` any order of answers, `EventDelivery` any events, `Workspace`
any grouping of the edits. Composed by refinement are the two ledgers and `EventLog`, which is all
that the readers of a ledger rely on.

The MC modules add only names, sets and symmetry. Definitions called `X_Something` that stand beside
a definition `X` are its deliberate mutations, used to show that a property can fail; nothing else
refers to them.

### 2.1 `DurableLedger`

*State.* `file`, `pend` and `lost` are the three places an event can be: `<id>.json`,
`<id>.json.pending` and `lost_events/`. The payload of an event is the session that created it, so a
directory is a function from ids to sessions, and two events under one id are told apart exactly when
they come from different lives of the process, the only way that can happen. `prod[p]` is the place
of a caller thread inside `persist_event`; `queue`, `wpc`, `batch`, `tries` are the writer's
`queue.Queue`, program counter, batch and flush attempts; `phase` and `todo` the process's life;
`curId` is `_cur_id`. `owner` and `acked` are history: who was last given each id, and which events
`persist_event` reported as safe.

*Actions.* One per file operation or critical section, because a crash or another thread may come
between any two. `AddEvent` is the locked id assignment; `EnqueueMark`/`EnqueuePut`/`EnqueueFull` are
`DurableEventWriter.enqueue`; `SyncMark`/`SyncWrite`/`SyncUnmark` are `_write_event_sync`;
`WriterLoop` to `WriterDrainEnd` are `_run` and `_drain_batch`; `FlushWrite`, `FlushWait`,
`FlushUnmark`, `Quarantine` and `QuarantineUnmark` are `_flush_with_retry` and the quarantine;
`CloseBegin`, `CloseSentinel`, `CloseJoin` are `stop()`; `Crash` and `Restart` a kill and the next
start; the `Replay…` actions and `ReplayEnd` are `replay_pending_events` and `_calculate_cur_id`. Every
write and every delete may fail, at most `MaxFaults` times; `LocalFileStore.delete` swallows its
failures, so a failed delete is a marker that stays.

*Left out.* Cache pages (the event files are authoritative), pruning, search, the in-memory store and
SQLite mode (`SqliteLedger`). A writer thread that outlives the `join` timeout of `close()` is taken to end with the
process. Ids start at 1.

### 2.2 `StepScheduler`

*State.* `ready` is the loop's FIFO of callbacks; `task[t]` a step task's place, its `drained_count`
and whether `cancel()` was called; `stepTask`, `count`, `lock`, `waiters`, `life` are `_step_task`,
`_step_request_count`, `_step_lock`, its waiters and `_lifecycle`; `state` and `pending` the part of
the agent's state that `can_step` reads; `control` where `stop()` and `close()` are. `owed` is
history: whether the last request was answered by a step or a refusal, or was dropped.

*Actions.* An action is what one callback runs until it awaits. `RequestStep` and `CreateStepTask`
are the two scheduled callbacks; `StartTask` and `LockedTask` enter `_step`; `StepEnds`,
`StepHandsOver`, `StepRaises`, `StepCancelled` are the ways out of `_step_inner`; `DrainStops`,
`DrainAgain` and `DrainLimitReached` are the drain loop after its `sleep(0)`; `Teardown` is the
`finally` with the release of the lock; the `Stop…`, `Close…` and `ControlLocked` actions are
`stop()` and `close()` between their awaits; the watchdog, the pending timeout, observations and user
messages are the environment. Task identities are reused after a task ended.

*Left out.* What a step does besides ending in one of its ways is one wait ("work"), including the
suspension in `_ensure_runtime_connected`. `CancelledError` is not swallowed by a step's body.
`asyncio.wait_for` is that of Python 3.12 or later. `stop()` called from inside the step task itself
is not modelled. When the watchdog gives up, the reset it performs is merged into its transition.

### 2.3 `PendingActions`

*State.* `rows` is `_outstanding`, from id to action; an action held back for the user has no stream
id yet, so its key is `Event.INVALID_ID`, -1. `queue`, `serialOnly` and `batch` are
`agent.pending_actions`, the actions marked for serial retry, and those inside `execute_action`;
`step` is the place of the step task; `runtime` and `inbox` hold the actions being executed and the
observations on their way, with the id each started with and the one its object has now; `dialog` is
what the user sees. `seen` is history, one set of actions per fate.

*Actions.* `BeginStep`, `GetAction`, `DrainParallel`, `DrainSerial`, `DrainEnds`, `Settle`,
`ScheduleNext` are the step task between its awaits; `ExecuteNow`, `AskUser`, `CannotAsk` and
`Blocked` the outcomes of `execute_action`; `Arrives`, `Resolve`, `Observed`, `HandlerTimesOut` an
observation through `ObservationService`; `Expires` is `_purge_timeouts`; the two watchdogs ask for a
step; `ShowDialog`, `Decide`, `UserMessage` and `Stop` are the user. `Renamed` models what
`apply_user_decision` does to the action object it takes: its id is wiped and assigned anew while the
runtime or an observation handler may still hold the object.

*Left out.* The recall a follow-up message arms is cleared by `clear_all` in the same handler, so it
leaves no trace. Not modelled: the first message's workspace recall, `clear_primary` (the
step-liveness timeout), replayed actions, duplicate deliveries, the ERROR and FINISHED states and
what `react_to_exception` does: after `CannotAsk` it pops the primary row of whichever sibling holds it
(`recovery_service.py:202`), where the model leaves the rows to their timeouts. All actions may run side by side (distinct resources), and parallel
scheduling is the constant `Parallel`, TRUE by default in the code
(`core/constants.py:388`). The interface ignores messages while a dialog is open and interrupts only
a RUNNING agent, as the TUI does.

### 2.4 `EventLog`, and the two refinements

*State.* `log`, the event each id holds for a reader; `held`, the events of which the store has any
copy; `owner`, whom each id was last given to; `acked`, the events whose caller was told they are
safe. An event is `<<id, session>>`, as in the ledgers.

*Actions.* `Take` hands out an id above everything in the log; `Publish` puts an event where nothing
was; `Store` and `Discard` add and remove copies outside the log; `Acknowledge` needs a copy. Only
`Expendable` copies may go, so an acknowledged event keeps one while its id is its own, and the log
only grows. That is what the readers of the ledger (replay, search, the memory of the agent) rely on.

`DurableLedger!ImplementsEventLog` maps `log <- file` and `held <- Copies` (files, markers and
`lost_events/`); `SqliteLedger!ImplementsEventLog` maps `log <- rows` and `held <- Copies` (rows, files
and markers). Both are properties of a run and theorems (section 5).

### 2.5 `SqliteLedger`

*State.* `rows` is the table; `file` and `pend` what sessions of the file mode left; `phase` and `todo`
where the opening is; `prod[p]` a caller inside `persist_event`, with the stream it belongs to; `late`
the calls that were under way when their stream closed. `due` and `listed` are history of an opening.

*Actions.* `OpenBegin`, `MigrateRow`, `MigrateEnd` are `_migrate_legacy_event_files_to_sqlite`, one row
an action since a kill may come between two; `ReplayRecover` and `ReplayClean` are
`_process_pending_file_to_sqlite`; `OpenFails` is an exception that leaves the constructor; `OpenEnd`
chooses the first id. `AddEvent`, `Insert`, `Acknowledge` are a call on an open stream; `InsertClosed`,
`FileMark`, `FileWrite`, `FileUnmark` the same call when `close()` has taken the store away: it falls
through to the file mode, perhaps while the next session runs. `Close` waits for no call of
`add_event`; `Crash` is a kill.

*Left out.* The initial state is any legacy directory a file session can leave. Search, the full-text
index, checksum repair and export; a call that passed the stop flag (`event_stream.py:557`) and takes its
id only after `close()` has begun; one late call per history is followed (`OneLateCall`, see the known
limits for two); the session lock is given up with the store in one step.

### 2.6 `EventDelivery`

*State.* `call[c]` is a caller of `add_event` (a producer, or a pool thread inside a callback that
replies); `enq[e]` the enqueue coroutine of an event and how it ended; `putters` and `queue` the
`asyncio.Queue` with its waiting puts; `worker`, `jobs` and `pool` the worker tasks, what they
submitted and the threads that run it; `phase` and `late` are `close()`. `got`, `entered` and
`stalled` are history.

*Actions.* `AddEvent` is `add_event` after the id and the persist (which the ledgers model);
`CallerGivesUp` its five-second timeout, after which it delivers inline as well; `Inline` and
`InlineNext` are an inline delivery, one callback an action; `Enqueue`, `Resume` and `PutTimesOut` are
`BackpressureManager.enqueue_event` under each drop policy, with the real behaviour of an asyncio queue:
a woken put takes the slot only when it runs and waits again if it is gone. `TakeEvent`, `DispatchDone`
are `_worker_loop` and `_dispatch_event`; `StartJob` and `EndJob` the pool; `CloseBegin` to `CloseEnd` are
`close()`, `_initiate_shutdown` and its two-second drain.

*Left out.* Coalescing (no event type is eligible), subscribers that come or go before `close()`,
activity listeners. Inline delivery has the causes `CallerGivesUp` and the user as source; the fallbacks
of `_enqueue_serialized_event` for a queue that is not ready or has no loop
(`event_stream.py:786`) are not modelled. What a callback adds is a critical event. An id is taken while
the stream is open, although a call past the stop flag may take one later. Callbacks of asynchronous subscribers are handed to their loop and waited for by
nobody, as in the code.

### 2.7 `AgentRecovery`

*State.* `agent` is the agent's state, `asked` a requested step, `step` who is inside the step lock;
`errors`, `trips` and `survived` are the counters of the breaker, the step guard and the recovery
service; `iters`, `limit`, `hit` the iteration flag; `final` and `saved` the graceful shutdown and the
limit it keeps; `queued`, `attempts`, `count`, `pending` the retry queue with the service's counters,
`revived` the watchdog's memory. `fired` and `granted` are history.

*Actions.* A step begins (`CannotStep`, `StepHitsLimit`, `StepBegins`) and ends in one of its ways
(`StepActs`, `StepAnswers`, `StepYieldsNothing`, `ContextOverflows`, `HardError`, `SurvivableError`, `TransientError`); each
ending is the whole path through `react_to_exception` with the transitions and resets on the way.
`WorkerFires` and `WorkerFails` are `_process_tasks` with what a due task does; `FinalPrepares`,
`FinalBegins`, `FinalTurnRaises` and `FinalRests` are `_graceful_shutdown` between its awaits;
`WatchdogSeesWork` and `WatchdogFires` the watchdog loop; `UserMessage`, `Stop` and `RuntimeFails` the
outside. `Allowed` is the transition table.

*Left out.* Delays (a retry may fire at any time), retries persisted by an earlier process, the
money budget, the repair loops inside one call of the model, the breaker's other trip conditions and
the stuck detector's heuristics. The number of compactions in a row is not bounded, as
`_MAX_CONTEXT_WINDOW_RECOVERY_REQUESTS` bounds it in the code. An exception of the breaker itself is
swallowed where an error is recorded (`recovery_service.py:197`) and leaves `errors` unchanged there.
Numbers of errors above `ErrorCap` are one value.

### 2.8 `Workspace`

*State.* A file is the set of edits whose effect it contains. `queue`, `hooked`, `saving`, `ready`,
`flight`, `runtime` and `inbox` are where a call is: queued, in the middleware, in the thread that makes
its checkpoint, behind it, published, with the runtime, answered. `tx` is the transaction of the
response; `mem` and `manifest` the list of checkpoints in memory and on disk; `got[e]` the checkpoint
the user was told of before `e`.

*Actions.* `Respond`, `TakeOne`, `TakeBatch` give the calls of a response to the middleware, serially
or as a parallel batch; `Checkpoint` and `CheckpointEnds` are `create_checkpoint` in a thread, up to the
save before the clean-up and from there on, with what another thread or a kill does in between; `Block` a middleware that refuses; `Publish` contains `before_action`;
`RunEdit`, `RunSave`, `RunRevert` are the runtime, which may execute an edit long after it was given up;
`Observe` and `TimesOut` contain `after_observation` with restore and drop; `Stop`, `UserReverts` and
`Restart` the user and the process.

*Left out.* The saves after each single eviction of one clean-up are one save, which a start cannot tell
apart because it cleans up again. One response is worked on at a time; a snapshot or restore of the shadow repository is one
step, although a failed restore may leave any part of the files as they were; texts, and hence what
makes an edit fail.

## 3. Runs

All passing runs are exhaustive over their instance. Deadlock checking is off everywhere: each
system may come to rest (all ids used and the process down; agent stopped; all calls made).

| run | question | bounds |
|---|---|---|
| `DurableLedger_main` | Whatever crashes, fails or fills up: is an acknowledged event always kept, the log append-only, recovery complete, does the writer settle what is queued, and is the whole an `EventLog`? | 2 producers, 3 ids, 2 lives, 1 fault, queue 1, batch 2 |
| `SqliteLedger_main` | Over whatever the file mode left, with failing imports, crashes and a late call: is the table an `EventLog`, and does a stream open only with everything in it? | 2 producers, 3 ids, the file session and 3 streams, 1 fault, 1 late call |
| `StepScheduler_main` | At most one reachable step task, steps exclusive, no request lost except at the drain limit; an agent that may step does; `stop()` and `close()` end | 2 tasks, stop and close, 1 outside call, 1 answered action, drain limit 2 |
| `StepScheduler_drop` (violation) | Is every request answered? | 3 tasks, 2 outside calls, otherwise as above |
| `PendingActions_serial` | With serial scheduling: consent, exactly-once, no loss, results before the next step, no false timeout, progress | 3 actions, two risky, 1 follow-up message |
| `PendingActions_batch` | With parallel scheduling: no loss, results before the next step, and only a row that waits for consent blocks a RUNNING agent | 3 actions, none or two risky, no follow-up message |
| `PendingActions_unapproved` (violation) | Is only what the user saw executed? | 3 actions, two risky, parallel |
| `EventDelivery_main` | Does every event reach everybody or the drop counters, once and in order; does every call return and `close()` end? | 1 producer, 1 worker, 1 pool thread, 2 subscribers of which one replies, queue 1, 3 events, 1 stall, all three policies |
| `AgentRecovery_main` | Has a waiting agent a retry, does it leave the wait, do iterations stay within the grant, does a running agent step? | 2 retries, 2 errors, 1 survivable error, limit 3, 2 tasks, 1 outage, 2 messages, 2 faults; with and without final turn, strict and lenient watchdog |
| `AgentRecovery_retries` (violation) | Are the retries of one episode bounded? | limit 4, no message, no fault |
| `Workspace_main` | Is an edit of a group that was rolled back in no file; does the checkpoint announced for an edit exist and undo it? | 3 edits of 2 files, a save, a revert, 3 checkpoints, 1 trouble; the edits of one file are interchangeable |
| `Workspace_half` (violation) | Is a group rolled back as a whole, when nobody reverts to a checkpoint? | no trouble |

*Why the bounds are enough.* The ledgers: two lives cover every crash, replay and the second life's
own writes, and four sessions of the SQLite ledger a late call, its successor, and the opening that
finds what it left; two producers cover a shared queue and two ids in flight; a queue of one is full as
soon as one event waits; one fault reaches every error path once. A flush that fails until its retries
are used up needs two faults: in this run quarantine is reached through a stop during the first retry,
the exhausted retries through the proofs, which hold for every bound.
The scheduler: two tasks are one running and one that `close()` lets through, three add one that is
ending; the drain limit is 10 in the code and 2 here, which is the smallest value that tells the first
and the last iteration apart; `MaxRequests` bounds `ArmPending` because each answered action calls
`step()`. Pending actions: three actions are a first one and a batch of two, or a batch of three; the
two risky ones meet under the key -1. `MaxTurns` is zero where a follow-up message would only hide
the question asked (it clears every row).
Delivery: three events are one being dispatched, one in a full queue and one that waits for its place;
one pool thread is the case in which a callback that replies holds the thread everybody waits for.
Order is promised for a single worker only. Recovery: two retries, two errors and one survivable error
are the least that reach each limit after something else than the limit has happened; three
iterations with an increase of one let the limit be reached, granted and reached again; two tasks are
a pending one and a stale one. Workspace: two edits of one file share a snapshot, the third can be its
sibling in a batch; three rows are two phases and one to be kept
or evicted; one trouble is a
timeout, a revert, a restart or a failing operation, and an event in which an operation fails counts
once.

*Fairness, and why the code gives it.* The file ledger: the operating system schedules the writer and
the producer threads, start-up and shutdown run to their end; nobody is obliged to add events, close or
crash. The scheduler: the loop runs what is ready; a step's awaits and the exception handler have
timeouts; a pending action is answered or times out; the watchdog polls while it is alive. Pending
actions: handlers run under a ten-second timeout, every tool has a timeout, a finite row of a RUNNING
agent expires, the interface polls for the dialog. The user owes nothing except an answer to a dialog
that is open, which is the assumption under which waiting for consent counts as progress. Delivery: the
queue loop, the workers and the pool threads run; a waiting put has a timeout (one second for a critical
event), the drain has two seconds; a caller gives up after five seconds, but that is assumed of the
closed stream only, where nobody else could release it. Callbacks return. Recovery: a step ends (the
model call has a timeout), a pause and the final turn end, the worker polls, the watchdog fires when
nothing is under way; stops, messages and faults owe nothing. `SqliteLedger` and `Workspace` state
safety only.

## 4. What the checks show

**Ledgers.** Both implement `EventLog`, for all bounds by proof: ids are given out above everything in
the log, what is in the log is never replaced, only an event with a copy is acknowledged, and the copy
stays while the id is its own. For the file ledger, an event `persist_event` reported as safe can be read back
from the log, its marker or quarantine at every instant (`AckedDurable`, proved) and no canonical file
is ever replaced (`LedgerAppendOnly`, proved); with no failed file operation a restart recovers every
acknowledged event into the log (`CrashRecoveryComplete`, model-checked); the writer settles every
event it is given (`QueuedEventsSettle`, model-checked). For the SQLite ledger, a stream is opened only
with every event in the table that was safe when the opening began (`OpensComplete`, model-checked),
unless a directory could not be listed.

**Delivery.** While the stream is open no event disappears without being counted as dropped (proved);
nobody is called twice with an event unless the caller gave up on a stalled loop (proved); with one worker
callbacks are called in the order of the queue, across evictions, replies and shutdown (proved); every
`add_event` returns although callbacks add events, and `close()` ends (both model-checked).

**Scheduler.** While the controller is open the only step task that has yet to finish is the one
`_step_task` refers to; even when `close()` lets a second one through, the lock keeps steps apart;
requests are lost only at the drain limit (all three proved). An agent that may step does not sit still
for ever, thanks to the watchdog, and `stop()` and `close()` end (model-checked).

**Pending actions.** With serial scheduling, consent, exactly-once execution and result order hold,
no call is lost and no timeout is false; with parallel scheduling all of this holds as long as no action
needs consent (proved). A RUNNING agent comes back to its model (model-checked); with risky actions
in batches the only thing that blocks a RUNNING agent is a row that waits
for consent.

**Recovery.** An agent that waits for a retry always has one in the queue, although flag, queue and
state are written at different moments (proved), and it leaves the wait; iterations never exceed what
was granted by more than the one of the final turn (proved), whatever moves the limit meanwhile; an
agent that runs within its limit gets to a step, the watchdog making up for lost requests.

**Workspace.** No edit of a transaction that was rolled back is in a file, except where the coordinator
has no hold on it (in the runtime or the middleware at that moment; a file it could not read or write
back; a revert to a checkpoint made in the midst of the group). While an edit is on its way the
checkpoint announced for it is in the list and undoes it, as long as the rows of the phases leave room.
Both are proved.

### Disagreements between code and documentation

Each has a run that exhibits it and an entry under `findings`.

1. `_drain_steps` takes a request off the counter and then tests the limit; the request of the tenth
   iteration is neither run nor handed on (`StepScheduler_drop`; `session_orchestrator.py:330`). The
   agent waits for the 120-second watchdog.
2. `apply_user_decision` acts on what is pending when the answer comes; a sibling that reached the row
   -1 after the dialog opened is executed unseen (`PendingActions_unapproved`; `mixins/state.py:86`).
3. `_process_tasks` resets the retry metrics as soon as a retry has fired, so the next failure counts as
   the first again and a failing provider is retried without bound, against the comments that say
   `max_retries` bounds an episode (`AgentRecovery_retries`; `retry_service.py:500`).
4. Siblings that left the queue as a parallel batch are neither dropped nor restored by a rollback, so
   part of the response stays in the files (`Workspace_half`; `file_edit_transaction.py:341`). In the
   trace e1 runs alone and opens the transaction, e2 and e3 are taken as a batch, e2 fails, the files are
   restored while e3 is in the middleware, and e3 is published and written. The property excuses every
   revert to a checkpoint, and without troubles the batch is the only way to violate it.

### Known limits, seen while modelling and without a run

*Scheduler and pending actions.*
* A task creation queued just before `close()` makes a second step task, since the guard of
  `_create_step_task` is lifted when the controller is closed (`mixins/step.py:93`, against its
  docstring at line 82). `NoOrphanedStepTask` is therefore stated for an open controller;
  `StepsAreExclusive` covers the rest.
* A user message during the await inside `stop()`'s transition leaves a RUNNING agent whose watchdog
  the transition then stops, because `old_state` was read before the await
  (`state_transition_service.py:169`).
* In a parallel batch two actions that wait for the user share the key -1: the later row replaces the
  earlier one and that call is never answered (`pending_action_service.py:213`), and a decision with
  nothing on -1 publishes the sibling with the highest id again (`mixins/state.py:86`).
* An observation that arrives while the user is asked about another action is recorded but leaves
  its row, which later times out (`observation_service.py:178`). `NoFalseTimeout` is checked with
  serial scheduling, where the two cannot overlap; in batches `OnlyConsentBlocks` covers the rest.
* `NoCallIsLost` is conditional on batches without risky actions; for what goes wrong with them see
  `NothingRunsUnapproved` and `OnlyConsentBlocks`.
* A row -1 left behind in RUNNING never expires and blocks the agent until a user message.

*Ledgers.*
* `stop()` of the writer raises its flag first, and the loop ends when it sees it, whatever is queued:
  the events survive as markers, but are not flushed (`durable_writer.py:69`).
* `lost_events/` keeps one file per id and `_calculate_cur_id` does not look there, so the id of a
  quarantined newest event is given out again (`durable_writer.py:284`, `docs/RELIABILITY.md:201`).
  `EventLog` therefore promises a copy only while the id is the event's own.
* A call under way at `close()` finds no database, falls through to the file mode and acknowledges an
  event whose id the next session hands out again (`persistence.py:191`, `:570`); with two such calls an
  acknowledged event can be shadowed.
* A directory that cannot be listed at migration is taken for an empty one (`persistence.py:412`), a
  legacy file that cannot be parsed makes every opening fail (`persistence.py:442`).
* The docstring of `persist_event` calls a SQLite failure fatal; `add_event` continues and delivers
  the event (`event_stream.py:591`).
* The session lock may be released while a writer outlives its join (`event_stream.py:379`); a cache
  page is appended to in a second critical section (`event_stream.py:697`, `:724`), not modelled.

*Delivery.*
* The docstring of `_dispatch_event` says that all asynchronous callbacks complete before the next
  event; their futures are concurrent ones, which the code does not wait for.
* `drop_oldest` evicts critical events too and counts them as plain (`backpressure.py:229`); a plain
  event may take the slot a waiting critical put was woken for.
* Events taken between the stop flag and the cancellation of the workers are discarded, although the
  comment promises no loss during a clean shutdown (`event_stream.py:922`).
* With several workers callbacks of one stream overlap, and finish in any order.

*Recovery.*
* A retry left over from before a stop or a new turn sets the agent RUNNING (`retry_service.py:658`);
  an `OSError` on the save loses the retry.
* The answer of the step guard is ignored, so an enforced trip stops the agent and the step goes on
  (`session_orchestrator.py:358`); warnings are counted per number of errors, so each new number gets
  its own warnings (`step_guard_service.py:110`).
* The end of the final turn overwrites iterations granted meanwhile; an error raised in it leaves the
  limit where it was moved (`iteration_guard_service.py:124`). With a final turn configured, a second
  time at the limit leaves the agent RUNNING without a step (`iteration_guard_service.py:86`).
* With default settings the watchdog's cooldown is shorter than its timeout, so its ERROR branch is
  never reached (`watchdog.py:162`).

*Workspace.*
* The middleware's manager and the checkpoint tool's write one manifest, each from its own list: a save
  erases the other's rows, manual ones included (`rollback_manager.py:169`; the comments at
  `lifecycle.py:174` and `rollback_manager.py:596` expect otherwise).
* Each session leaves two rows of its phases that are never evicted: after fifteen sessions they fill
  `max_checkpoints`, and every new checkpoint is evicted at once while `rollback_available` is reported.
* Two threads in `create_checkpoint` may lose a row of one of them (`rollback_manager.py:582`).
  `UndoAvailable` takes both calls' own rows as not reported (`got` is 0); it shows only that
  the race loses no row of an edit whose call was alone.
* A row of a phase has no snapshot although a comment names it for post-mortem rollback
  (`session_orchestrator.py:541`); a revert without an id may pick one and fail.
* `before_destructive` checkpoints are never made: their middleware looks for a workspace attribute
  that no runtime has.
* A blocked edit leaves its transaction open: a later edit of the response joins it, and its failure
  restores the old snapshots over other work. A revert in the midst of a group brings half of it back.
* `/checkpoint save` reports success when the snapshot failed.

## 5. Proofs

TLAPS checks 28 theorems, for every value of the constants that the modules' named assumptions
allow (`LedgerConstants`, `SqliteConstants`, `SchedulerConstants`, `PendingConstants`,
`DeliveryConstants`, `RecoveryConstants`, `WorkspaceConstants`: bounds are naturals, names that play different parts differ,
the sets of tasks, producers, workers, actions, files and edits are any, finite where the code holds them
in a list or counts them; a subscriber is subscribed once, since `_subscribers` is keyed by its ids
(`event_stream.py:507`), and there are as many pool threads as workers (`event_stream.py:271`)).

| module | theorem | states |
|---|---|---|
| `DurableLedgerProofs` | `LedgerInvariant`, `LedgerTypeOK`, `LedgerAckedDurable`, `LedgerIsAppendOnly` | `[]IInv`, `[]TypeOK`, `[]AckedDurable`, `LedgerAppendOnly` |
| `DurableLedgerRefinement` | `LedgerImplementsEventLog` | `Spec => ImplementsEventLog` |
| `SqliteLedgerProofs` | `SqliteInvariant`, `SqliteImplementsEventLog` | `[]IInv`, `Spec => ImplementsEventLog` |
| `StepSchedulerProofs` | `SchedulerTypes`, `NoStepTaskIsOrphaned`, `StepsExclude`, `NoRequestIsLost` | `[]TypeOK`, `[]NoOrphanedStepTask`, `[]StepsAreExclusive`, `[]RequestLostOnlyAtDrainLimit` |
| `PendingActionsProofs` | `PendingTypes`, `ToolCallsAreKept`, `ModelSeesResults` | `[]TypeOK`, `[]NoCallIsLost`, `[]StepsSeeEveryResult` |
| | `ConsentIsAskedFor`, `ConsentBeforeExecution`, `CallsRunOnce`, `TimeoutsAreReal` | `AskedWhileConfirming`, `NothingRunsUnapproved`, `ExecutedOnce`, `NoFalseTimeout`, under `NoConsentInBatch` |
| `EventDeliveryProofs` | `NoEventIsLost`, `DeliveryTypes`, `EventsOnce`, `EventsInOrder` | `[]NoSilentLoss`, `[]TypeOK`, `[]DeliveredOnce`, `[]SingleWorkerFifo` |
| `AgentRecoveryProofs` | `TypesHold`, `RetryIsQueued`, `BudgetHolds` | `[]TypeOK`, `[]NoForgottenRetry`, `[]IterationBudget` |
| `WorkspaceProofs` | `WorkspaceTypes`, `EditsStayOut`, `EditsCanBeUndone` | `[]TypeOK`, `[]EditsAllOrNothing`, `[]UndoAvailable` |

*The file ledger.* `AckedDurable` is not inductive: nothing in it stops the writer from deleting a
marker whose event reached neither the log nor quarantine, or a producer from writing over another's
file. `IInv` adds what the code relies on without saying so:

* `QuietWhenNotRunning`: outside a running process nobody holds an event, and the replay visits
  only markers that exist;
* `FreshIds`: ids from `_cur_id` on are unused on disk, which is why `_calculate_cur_id` must list
  markers as well as files, and why the replay has to come before it;
* `StoredIsOwners`: file and marker of an id hold the event of the last owner of that id;
* `ProducersOwn`: a producer inside `persist_event` has its id to itself, the event is not acknowledged
  yet, the marker is on disk before the put and the file before the marker goes;
* `WriterOwns`: the writer works on events of this life only and deletes a marker only once the
  file or the quarantine copy exists;
* `AckedWasOwned`: acknowledgements speak of ids handed out.

Each action has a lemma `…IInv` that splits into the conjuncts it can disturb; the frame
lemmas (`ProducerFrame`, `WriterFrame`, `WriterPcFrame` for the writer's moves, `ReplayFrame` for the
replay) carry what an action of that actor leaves alone; `PutEffect` and `TakeEffect` say what a put
and a get do to the queue and to `Busy`. `NextIInv` combines them and `PTL` lifts the result.
`LedgerAppendOnly` follows from `IInv`, the step and the ids being fresh or one's own.

*The SQLite ledger.* Its `IInv` is shorter because the table is the only authority, and harder at one
place, the late call: `WithinOwner` (nothing is stored for a session that was not given the id),
`LateWrites` and `LateCalls` (what SQLite sessions left in files is the one late call's), `FreshIds`
(no row and no claim of this session at or above `_cur_id`), `ProducersInHand` (a producer of the
running stream still owns its id; one that is about to acknowledge has stored its event),
`ImportTodo` and `AckedStored` (an acknowledged event is a row or a file).

*The refinements.* For each action there is one lemma that names the action of `EventLog` it is under
the mapping, or shows that the four mapped variables are unchanged; `IInv` supplies the guard. A
publication needs that nothing is in the log under that id and that the event is its owner's; a removed
marker, that it is expendable or another copy stays.

*The scheduler.* Its invariant is built in three layers. `Types` adds to `TypeOK` that a task which
has not begun its drain loop has drained nothing. `Steps` is `NoOrphanedStepTask` and
`StepsAreExclusive` with one more fact, `StepTaskSteps`: the `finally` of `_step` forgets the task before
the exception handler runs, so `_step_task` is never a task in its handler. Without it a task that
runs its handler could be taken for the live one and the creation of its successor be refused.
`RequestLostOnlyAtDrainLimit` needs more:

* `TaskCarriesRequest`: as long as the last request is open, the live step task will look at it or it is
  counted;
* `RequestOnItsWay`: or something else is to bring it about (a queued `_request_step` or
  `_create_step_task`, a waker) or to stop the agent;
* `CancelledByStop`: while the controller is open only `stop()` cancels a step task, and it awaits
  the one it cancelled, so that a cancelled task never takes an open request with it unnoticed;
* `StopQueuedOnce`: the coroutine `stop()` has at most one callback, and no callback while it waits for
  its task.

The lemmas `RunQueue`, `RunOnce`, `WakeQueue` and `Concat` say what a turn of the loop does to the queue
of callbacks; the proofs of the actions cite them instead of expanding sequences.

*Pending actions.* All of it rests on `NoConsentInBatch`: with batches that may hold actions needing
consent the properties are false, as the known limits say. It is a condition on the configuration, not on
the state: serial scheduling, or a policy that asks about nothing. `IInv` relates the table to what
is outside it:

* `Serial`: a step that has asked the model, or hands over a single action, does so with an empty table;
* `Consent`: what the user is asked about is the only row, in the only state in which it may be, and it
  is what the dialog shows;
* `Table`, `RowsAwaited` and `RunsAccounted`: rows, executions and observations match by id. An action
  with the runtime has its row unless it was given up, a published row has its action with the runtime or
  an observation that was not handled yet. `StepsSeeEveryResult` and `NoFalseTimeout` follow from these;
* `Places`: a call that is not published is in one place only, and nothing has happened to it yet;
  this is what makes `ExecutedOnce` and `NothingRunsUnapproved` inductive.

`TimeoutsAreReal` is an action property and follows from `IInv` and the step. `Largest` shows that
`_primary_entry` finds a row whenever there is one.

*Delivery.* `NoSilentLoss` speaks of the open stream, and so does `IInv`: once `close()` has begun,
events may go without a count, and nothing is claimed of them. It adds to the property `Dispatching` (the
event of a worker has, for every subscriber, been delivered or a job that will) and `Inlining` (an event
delivered by its caller has been delivered to every subscriber that is not left); without them a worker
could finish an event of which a job was forgotten. `Shape` is the part of `TypeOK` the argument needs.

`DeliveredOnce` and `SingleWorkerFifo` hold in every phase and share the invariant `Sound`. Its heart is
`InOrder`: with `entered`, the history of the queue, as the order, what is ahead in the queue, what is ahead
among the jobs of a subscriber and what a subscriber was called with is before whatever is behind it or
upstream. Nothing in `entered` is before itself (`NotBeforeItself`), so a job whose event its subscriber
already had would contradict it: order gives uniqueness for what goes through the queue. For the rest,
`Puts` keeps an event from entering twice (a put waits once, and what has entered is not put again),
`Fresh` says that an event reaches nobody before it enters, unless its caller gave up, and `InlineOnce`
that a user's event is with one caller, who has yet to call the subscribers left. Every step is one of
five for `InOrder`: elements are taken out (`OrderThinned`: heads, evictions, cancelled jobs, a caller that
gives up), an event enters (`OrderEntered`), is taken (`OrderTaken`), a job starts (`OrderStarted`), a
caller calls a subscriber itself (`OrderInlined`). `KeptThinned` is about the filter of the model, `Kept`:
the j-th element kept is the one with j kept places up to it, found because ranks are an injection between
sets of one size. The order is that in which callbacks are called. The proof does not need the single
worker of the documented promise, because taking an event and submitting its jobs is one step of the queue
loop; but with several pool threads a call and the work behind it come apart, and there nothing is claimed.

*Recovery.* `NoForgottenRetry` is strengthened by `PendingHasTask` (the service's flag implies a task in
the queue): a step may set a waiting state on the strength of the flag alone. `IterationBudget` needs
the invariant `BudgetInv`: until a final turn begins, limit and iterations are within what was granted
(`Within`); from then on the limit is at most one above it, and the limit it saved never is.

*The workspace.* `EditsAllOrNothing` looks at the files only, while an edit can come back to them from four
places: a call that is still to be published, the runtime, a snapshot of a transaction and a row of a
checkpoint. `IInv` says of each what keeps the edit out:

* `Queue`, `Answered` and `OneByOne`: a call is queued, outstanding and answered once, and while calls are
  queued no two are on their way. Without the last an edit could be on its way that no transaction
  counts among its members, and `done` would leave `members`;
* `Lists`: in every list (in memory, on disk, with a thread) an id has one row, and no row's snapshot
  holds an edit that is still to be published; what a thread read is cleaned up and has the rows of the
  phases that are in memory, so that it may replace the list;
* `Transaction`: no member is in the snapshot of its own file, or the file was not read; completed
  members are not queued, so that dropping the others empties the queue of the group;
* `Gone`: what was rolled back is not to be published, not in the runtime, in no file and in no snapshot of
  a transaction.

`UndoAvailable` counts: `Anchors` says that the rows that are newer than an edit's checkpoint, and the edits
that have yet to make theirs, are together fewer than the files. The rows that the phases leave room for are
no fewer, so the clean-up (`UndoesCleaned`) evicts none that is needed, in the list and in what another
thread has read; a new row (`UndoesAfterNewRow`) takes the place of one edit ahead. `CleanedList` shows that
keeping the rows with few newer ones keeps as many as there is room for, which needs the lowest of a finite
set of ids (`Lowest`, by the well-foundedness of its subsets).

*Only model-checked.* Liveness (`QueuedEventsSettle`, `NeverStalls`, `ControlsEnd`,
`RunningAgentProceeds`, `OnlyConsentBlocks`, `CallsReturn`, `CloseEnds`, `RunningProgresses`,
`RetryResumes`), which depends on fairness and `ENABLED`, beyond what TLAPS proves here;
`CrashRecoveryComplete` and `OpensComplete`. No module uses a RECURSIVE operator or a fact by induction
over data; a filter that a proof reasons about is written with `Kept` (`EventDelivery`) or as sets of orderings (`Workspace`), because
`SelectSeq` is defined by recursion and opaque to the provers.

## 6. Plan, and what is not modelled

In order, what would add most.

1. `OpensComplete` and `CrashRecoveryComplete` proved, the latter with a strengthening for histories
   without faults.
2. `AgentLoop`: `StepScheduler`, `PendingActions` and `AgentRecovery` composed through `step()` and
   `can_step`, with "every request leads to a step or a refusal, and every call of a step to a result"
   as the abstract specification.
3. Compaction and coalescing as functions against a reference definition; the task tracker with its
   completion gate.

*Not modelled.* Most of the repository's lines are outside what a model of the core's control covers:
screens and widgets, prompts and their assembly, clients of models and of MCP servers, the tools
themselves (shells, editors, browsers, debuggers), catalogs, and analysis of texts. They hold no state
that several actors share, and what they do to the core appears in the modules as choices: any
answer of a model, any result or timeout of a tool, any exception of a client, any key of the user. Of
the core, conversation saves are single-writer and atomic, the rate governor and memory pressure only
delay a step, and replay of recorded sessions is sequential; the components' entries in `PROJECT.json`
say for each part what was left out.
