# Verification of ShellX

ShellX (a Tauri application) hosts the command line agents of several AI
vendors. This directory holds TLA+ models of its Rust back end
(`src/src-tauri/src/`), the TLC configurations that check them on small
instances, and TLAPS proofs about them. Three parts are modelled:

* **Tasks**: scheduled or manual agent runs that must survive crashes, clock
  changes, lost leases and providers that answer late or never;
* **provider sessions**: the child processes in which those agents run, with
  their streams, approvals, aborts and supervisors;
* the **ShellX Browser registry**: the browser tasks of agents, the tabs they
  own, and what user and agents do to both at the same time.

Paths below are relative to `src/src-tauri/src/` unless they start with `src/`.

## 1. The system

```
 operator --create, revise, pause, delete, Run now, cancel--------------+
                                                                        v
 timer (task_runtime_app) --poll--> TaskForegroundService --claim--> TaskStore (file)
                                        |        ^                      ^
                                        | runner | terminal write       | receipts,
                                        v        |                      | heartbeats
                             TaskRuntimeCoordinator --------------------+
                               | route: TaskExecutionCoordinator
                               v
                 dispatch adapters --> provider sessions (external CLIs), Grok ACP
                                        |  start, stdout task, supervisor, abort
                                        v
                                  provider children --host MCP tools--+
                                                                      v
 user (window, prompts, take-back) ----------------------> Browser registry --> engine
```

| Component | State | Operations | Talks to | Hard behaviour | What makes it correct | Model |
|---|---|---|---|---|---|---|
| Task store (`task_store*.rs`, `task_receipts.rs`, `task_model.rs`) | one JSON document: definitions and revisions, watermarks, occurrences, attempts, receipts, detached terminal receipts, attention | create, revise, pause/resume, delete, manual occurrence, plan, claim, heartbeat, provider decision, complete, outcome unknown, reconcile, open | called by everything in Tasks | every call may find its lease expired, its row settled by someone else, the clock set back, or the document invalid after the change; crashes | a row starts at most once and ends once, with matching evidence; capacity; no lost schedule window | `TaskStore` |
| Due planner (`task_due_runner.rs`) | none of its own, reads and writes the store document | `plan_due` | store | watermark, missed-run policies, grace, slot reservation, re-exposure of pending rows, clock rollback | a plan fits the free slots; the watermark never passes a window without trace | `TaskStore` (`PlanDue`) |
| Schedule arithmetic (`task_schedule.rs`, `task_time.rs`) | none | latest/next instant of a trigger | planner | time zones, DST gaps and overlaps, month ends | agrees with a reference definition | as a set of instants |
| Foreground service (`task_foreground_service.rs`) | lifecycle, poll flag, dispatch gate, number of active handoffs | start, poll, Run now handoff, claim and handoff, finish, shutdown | store, runner, timer | overlapping async tasks; shutdown against claims; notification of waiters | one poll in flight; shutdown drains and ends; queued runs advance | `TaskForeground` |
| Application wiring (`task_runtime_app.rs`) | timer task, Run now calls, teardown | 15 s timer, `queue_manual_run`, teardown at window close | service, store | the timer task can end; calls give up when a poll is in flight | as above | `TaskForeground` |
| Provider route (`task_provider_fallback.rs`) | phase, candidate, dispatched candidates | begin, preflight, dispatch observation, terminal observation | execution runtime | only a proof of no start may advance | at most one provider works on an occurrence | `TaskRuntime` |
| Execution runtime (`task_execution_runtime*.rs`) | live coordinator plus a staged one with a pending receipt | stage, persist, classify provider events | store adapter, coordinator | a receipt may be refused; events come in batches | no effect before its receipt; the history ends once and nothing follows its end | `TaskRuntime` |
| Runtime coordinator (`task_runtime_coordinator.rs`) | step of one attempt, cancellation registry, provider handle, Grok tab to clean | drive a claimed attempt to its result | route, adapters, store | lease loss, cancellation, deadline and provider events race | the result is backed by receipts; nothing is left running; the tab is released | `TaskRuntime` |
| Dispatch adapters (`task_provider_dispatch*.rs`) | bounded event projection | dispatch, poll events, abort | provider sessions, ACP | untyped errors after a prompt; dropped events | verdicts never claim "not started" without proof | `TaskRuntime` (environment side) |
| Provider sessions (`provider_sessions.rs`, `provider_sessions/stream_reader.rs`, `.../codex_app_server_runtime.rs`) | registry of runs per tab, abort channels, pending approvals, child processes, the file of conversation ids | start, read a line, approve, supervise, abort, persist | adapters, front end, debug API, process registry | exit, stream end, timeout and abort race; a start is aborted half-way; descendants keep pipes; approvals that nobody answers; two readers write one file | one honest verdict, announced once; an abort kills; nothing is left behind; no id is lost | `ProviderSessions` |
| ShellX Browser (`shellx_browser*.rs`, `debug_api_browser_*.rs`) | tasks, tabs and their owners, focus, leases, prompts and grants, requests in progress | start a task and roll it back, control it, open/focus/close/lease/hand over tabs, record and answer prompts, act | agents over HTTP and MCP, user, native engine | starts and action requests await the engine between check and result; user and agents change the same tabs; tasks end in many ways; history is pruned by reads | tabs and tasks stay consistent; prompts end with their task; leases are exclusive; results reach the task that asked | `BrowserTasks` |
| Attention ledger, receipts journal, attachments, projections | parts of the store document, files | open/resolve, retention, reclamation, views | store | compare-and-set, rotation, two-phase removal | facts are not lost or reopened; references stay valid | not modelled (section 6) |
| Provider adapters (`provider_adapters.rs`, ...) | none | one vendor's command line and stream each | provider sessions | parsing | statuses mean the same for each vendor | not modelled |
| ACP sessions, subagents and host MCP, goals and builds, Vault, debug API, process and Git services, connections, front end | see `PROJECT.json` | | | | | not modelled (section 6) |

`PROJECT.json` lists every component with its sources and status, and under
`hazards` every place that is hard to test, with the property that covers it or
the reason why none does.

## 2. The modules

| Module | Content |
|---|---|
| `OccurrenceLifecycle` | abstract: a row is entered once, started once inside the capacity, and ends exactly once |
| `TaskStore` | the durable store with the planner, leases, clock and crashes |
| `TaskRuntime` | one claimed attempt: route, receipts, runner, providers as environment |
| `TaskForeground` | timer, Run now calls, polls, handoffs, shutdown over a reduced store |
| `ExternalRun` | abstract: what the registry of provider sessions promises to the one that started a run in it |
| `ProviderSessions` | one tab of the provider session registry: start calls, children, stdout tasks, approvals, supervisors, aborts, the file of conversation ids |
| `BrowserTasks` | the browser registry: tasks, tabs, focus, leases, hand-over, prompts, rollback, action requests |
| `TaskStore_proofs`, `TaskRuntime_proofs`, `TaskForeground_proofs`, `ProviderSessions_proofs`, `BrowserTasks_proofs` | theorems and their proofs |
| `ProviderContract_proofs` | the registry implements `ExternalRun` |
| `ProviderAborts_proofs`, `RuntimeGaps_proofs` | how far the claims hold that the findings refute |
| `MCTaskStore`, `MCTaskRuntime`, `MCTaskForeground`, `MCProviderSessions`, `MCBrowserTasks` | the values TLC uses |

Operators introduced by "Faulty variant" or "Mutant" in a comment are not used by any
specification: each is a plausible mistake in the operator below it (a dropped
guard, an off-by-one, a missing reset). Replacing the operator by its variant
makes TLC find the property named under `mutants` in `PROJECT.json` violated,
which shows that the property depends on that code.

### TaskStore

A public operation of the Rust store is one `transaction`: clone the document,
change the clone, validate all of it, write it, publish it. So an operation is
one action, and its error returns and a failed validation are conjuncts of the
guard (the state stays as it was). `defs`, `occ`, `terminal`, `attention` are
the document. `held` is what the running process knows and the file does not: a
runner was handed the lease of attempt `held[o]` by its claim; a crash clears
it. `now` is the wall clock callers pass in, which may be set back.

* Every identity is what `deterministic_occurrence_id` hashes: task, revision
  and instant.
* `PlanDue` is a whole `plan_due`: for every definition it decides whether the
  planner evaluates it, which pending row it re-exposes, which window is due,
  what the missed-run policy says, whether a slot is left after those the
  earlier definitions reserved, and how far the watermark moves.
* `ClaimExpired`, `LateCall`, `Reconcile` and `Open` are the four places where
  an expired lease becomes `OutcomeUnknown`; all share `MarkUnknown`, including
  the validation that can refuse it (`TerminalIsValid`).
* A transaction that fails for another reason (disk full, size limit) is a
  stutter.

### TaskRuntime

`phase`, `cur`, `dispatched` are `TaskExecutionCoordinator`; a route step is
staged on a clone and replaces the live one only after its receipt was
persisted, so step and receipt are one action and a refused receipt is an
action of its own (`FailEarly`, `ApplyRefused`, `StopRefused`,
`ObserveFails`). `journal` holds the receipts of the attempt in the order in
which they were appended, so that a second ending, or activity after an ending,
is visible as such. The lease check that runs beside the dispatch call can drop
the call or its answer (`DispatchDropped`, `HandleDropped`). `run[c]` is what
really happened at candidate `c`, which the runner cannot see: it sees the
dispatch verdict, the drained events and, for external runs, whether the run is
still registered. Providers are free: they emit progress, items, an end of
turn, exit, or stay silent. Errors that contain first (`ContainAndFail`) and
errors that return through `?` (`Fail`) are separate, as they are in the code.

What an external run may do is not chosen here: `TurnEnds`, `ProcessExits`,
`TerminalEvent` and `AbortedElsewhere` are the steps `EndTurn`, `Exit`,
`Announce`, `Cut` and `Hush` of `ExternalRun`, taken through an `INSTANCE` on
`run`, and `ProviderSessions` is shown to promise just these (below). That
includes an abort by somebody else (closing the tab, or the debug API), of
which the attempt gets no event; see the observations in section 5.

Left out: the operator closing a Grok tab while its task runs (then the abort
answers `AlreadyTerminal`), a failing abort of a registered external run, and
the loss of the process (`TaskStore` has it). The tool and approval boundaries
of the event classification are one class.

### TaskForeground

The timer task, each Run now call, each handoff and the teardown are separate
async tasks that interleave; what happens under one hold of a lock is one
action. `poll` is the `PollGuard`, `GateFree` the dispatch gate (no handoff
between claim and count), `active` the counter, and
`claimed -> running -> returned -> settled -> uncounted -> none` are the stages
of `claim_and_handoff`. Shutdown is split exactly where the code releases its
lock: read the count, create the `Notified` future, wait. `finish_handoff` is
split into the decrement under the lock and the notification outside of it. The
store is reduced to row states and lease expiry, with calls that may fail; its
rows move as `OccurrenceLifecycle` allows, which both modules are checked
against, so the reduction is sound for the properties stated here.

### ProviderSessions

Three tokio tasks per run and one per caller of an abort interleave; what one of
them does between two awaits or under one lock is one action.

* `run[r].start` is the place of `start_provider_session_with_command`:
  `Register`, `Spawn`, `SetupWritten` and `Attach` succeed, `PrepareFails`,
  `SpawnFails`, `SetupFails` and `AttachRefused` are its error returns, each
  with what it files, kills and announces.
* `reader` is the stdout task. `ReadTerminal`, `ReadFails` and `ReadEof` are its
  ends (`observed` is the stream terminal it returns and sends to the
  supervisor), `ReadConversation`, `TakeSnapshot` and `WriteStore` are
  `record_provider_conversation_id` and `persist_store` with the store lock,
  `ReadApproval` to `WriteAnswer` are `resolve_codex_app_server_approval`. The
  pending approval and its one-shot channel are one variable: `open`, `elapsed`
  (the wait is over, its future and the receiver not yet dropped:
  `ApprovalExpires`, then `ReceiverDropped`), `expired` (the receiver is gone, the
  entry is not yet), `gone` (the entry was removed), or an answer. `acked` is what
  the operator was told "ok" for; `late` is an answer sent into an elapsed wait,
  which nobody reads.
* `sup` is the supervisor: the arms of its `select!` are `SelectExit`,
  `SelectStream`, `SelectStreamClosed`, `SelectTimeout` and `SelectAbort`; then
  `EndDenies` (the last denial of approvals), `Conclude` (both readers joined,
  the verdict reconciled with the stream and filed if nobody else has filed the
  run) and `Settle`. `Filed` is `record_terminal` and `record_abort`: it drops
  the abort sender with the run, which fires `abort_rx` as well.
* The environment: the child exits, forks a descendant that shares its pipes,
  closes stdout, writes any line; the operator answers or does not.

`View(s)` is what the caller of a start call can tell about the run: the result
of the call, whether the registry still has it, and what reader and supervisor
have said. Under it the module implements `ExternalRun`
(`ImplementsExternalRun`). `ExternalRun` speaks of states; `SpeaksAsContracted`
adds when the events come: a stream has effects only before the end of its turn
(or while it is cut), and the supervisor announces an ending exactly at
`Announce`. With both, `TaskRuntime` needs nothing of the registry that
`ProviderSessions` does not keep.

Left out: transcripts and stderr, what a line contains beyond its kind, pruning
of old runs, loading the file at start-up, and prompts handed from one provider
to another.

### BrowserTasks

The registry is one value behind one mutex, so `reg` is a record and a handler a
function on it (`Repaired`, `Moved`, `Closed`, `ActiveSet`, ... are the helpers
the handlers call); an operation under one lock is one action. What releases
the lock in between has a place of its own:

* `start[t]`: `browser_task_start_http` reads the state (`AskStart`), creates
  task and tab (`StartTask`), synchronises the engine (`Synced`) or rolls back:
  `RollBack` lists the tabs, `RollBackCloses` closes one per lock,
  `RollBackFails` gives up, `RollBackEnds` restores the focus.
* `req[q]`: an action request is authorized (`Submit`), checked against its
  task's status (`Unblocked`), waits for the engine, is checked against owner
  and lease, which drops a lease that has run out (`Checked`), and acts. Then tab
  and task are looked up again (`Found`) and the result is recorded (`Record`), or
  refused after the page was written into the task's record
  (`RecordThenRefuse`), or refused without a trace (`Refuse`). `into` is the task
  whose record shows what the engine read.
* a prompt: the answer to a `beforeunload` dialog is applied under a second lock
  (`ApplyAnswer`). Dialogs and permissions are answered once, while pending
  (`AnswerPrompt`); a session grant is resolved whatever became of it before
  (`AnswerGrant`).

Every read of the state repairs it (`ReadState`): tasks without a tab are
aborted, the active task is recomputed, old ended tasks are pruned. Pruning is by
age and number in the code, so the model prunes any of those allowed. `trust`
holds what an agent may believe of its leases, `stranded` and `loose` are
history variables: the two known ways to leave the registry wrong.

Left out: the engine pool and its queue, profiles, URLs and domain checks. With
them go the contents of page records: that `engine_action_targets_active_context`
brings a task's URL up to date with its engine before the action is not a step
here, and whether an engine matches its tab is a choice between `Record` and
`RecordThenRefuse`. Also left out: downloads, approvals of sensitive actions, the PIN of the personal lock, cowork,
the native webview.

## 3. The runs

| Run | Question | Result |
|---|---|---|
| `MCTaskStore` | Do plans, claims, Run now, expiry and crashes of two tasks under one slot overbook, or leave the life of a row? | no |
| `MCTaskStoreRev` | With two revisions, a clock set back and crashes: is evidence consistent, does anything run twice, is a window lost, does anything finished change, can the clock block the ending of an expired row, and is every expired lease settled that no revision orphaned? | consistent; no, no, no, no; yes |
| `MCTaskStoreLeaseRevised` | And when the definition is revised while its occurrence runs? | **no**, finding 1 |
| `MCTaskRuntime` | Three candidates with Grok second: one provider, effects after receipts, one end, backed results, and does the runner return? | yes |
| `MCTaskRuntimeCompletedMeansFinished` | Is a run that is reported Completed one whose provider finished? | **no**, finding 2 |
| `MCTaskRuntimeErrorContains` | Does every error return stop the accepted run? | **no**, finding 3 |
| `MCTaskRuntimeTabReleased` | Is the Grok tab released whenever the attempt is decided? | **no**, finding 4 |
| `MCTaskForeground` | Timer, two Run now calls, expiry, a failing store and shutdown: one poll, a drained shutdown, one owner per row, the plain life of a row; do queued runs advance, and does shutdown stop claims however long a runner works? | holds |
| `MCTaskForegroundShutdown` | Does `shutdown()` return? | **no**, finding 5 |
| `MCProviderSessions` | A Codex run and its aborts, or two runs of a tab, in every order of exits, stream ends, aborts, approvals, forks and failing writes: is the verdict honest and announced once, is nothing left behind, does nothing unapproved reach the provider, does the file keep every id, does an abort kill, is every verdict filed, and is the contract `ExternalRun` kept? | holds |
| `MCProviderSessionsAbort` | Does an abort kill the child that has closed its stdout? | **no**, finding 6 |
| `MCBrowserTasks` | Two tasks, three tabs, two agents, a prompt and a request: are tabs, tasks, focus, prompts and leases consistent, and does a request for a task's tab act in no other task's? | holds, apart from the two named exceptions |

`ImplementsLifecycle` is a refinement: `TaskStore` and `TaskForeground` are
each checked, and proved, to implement `OccurrenceLifecycle`.
`ImplementsExternalRun` is the one between two components: `ProviderSessions`
is checked, and proved, to implement the contract that the environment of
`TaskRuntime` is made of.

Deadlock checking is off because these systems do stop: an attempt ends, the
application has shut down, the clock reaches its bound.

### Bounds

* `NumTasks` 2 with `GlobalLimit` 1: two definitions compete for one slot, which
  is where reservation and deferral matter; the single-task runs add what two
  tasks would make too large. `MaxRevision` 2 is one revise between any two
  steps; the counter is only compared for equality.
* `MaxTime` 3 or 4 with `LeaseDuration` 1 and `Grace` 0: an instant before, at
  and after each of two windows, a claim, a heartbeat and an expiry.
  `MaxRollbacks` 1 sets the clock back by any amount at any moment.
  `MaxManual` 1: the operator asks for a run only while no row exists yet, so
  planned rows can follow the manual one, which is what competes for slots; with
  two revisions and four instants (`MCTaskStoreRev`) it is 0.
* `NumCandidates` 3: a first, a middle and a last place in the route; with Grok
  in the middle a rejection can come before and after an external candidate is
  tried. `BufferLimit` 2 with `MaxEvents` 4 overflows the projection.
* `Rows` 3 with `Limit` 2: two handoffs of one poll, and a third row that waits.
  `MaxFailures` 1: one store call fails, at any place.

* `ProviderSessions`: `MCCasts` puts one run of the Codex app server and a caller
  that aborts it on stage, or two runs of another provider that share their key
  (for the file). `MaxLines` 1: one line with an effect per run, of each kind.
  `MaxTrouble` 3 counts runs, failures, forks and timeouts together, so that two
  of them meet in the single run, and one happens beside two runs. More runs and
  callers are the proofs' part.
* `BrowserTasks`: two tasks that exchange tabs, a third tab so that a closed one
  can be followed by a focus elsewhere, two agents for one lease. `MCScenes`
  lets groups of operations meet instead of all at once; `MaxCalls` bounds the
  calls of users and agents, while rollbacks, recordings and expiries are not
  counted. It is 4, and 5 where requests meet hand-overs: two starts, a request,
  the take-back of its tab and the hand-over to the other task are five calls.
  Tasks, tabs and agents are symmetric; the run has no liveness property.

Bounds appear only in guards or as the size of a set, and the proofs hold for
every value of all of them.

### Fairness

* `TaskStore`: `Reconcile`, `Open` and `Tick` are weakly fair: every poll
  reconciles, an application that was closed is opened again, time passes.
  Nothing obliges operators, runners or providers.
* `TaskRuntime`: the runner's own steps (`RouteStep`, `WaitStep`) and the clock
  (`Deadline`). A dispatch call is assumed to return; the code puts no bound on
  it (listed as a hazard). Providers owe nothing.
* `TaskForeground`: each spawned task is polled, the gate is a fair lock, and
  the clock passes leases. Runners return (`RunnerFairness`) only where the
  property says so: `ShutdownStopsClaims` is checked without it.

* `ProviderSessions`: the application's own tasks go on when nothing they wait
  for is missing, and waits with a timeout end (setup, approvals, the grace
  periods). No fairness for provider lines, the operator, the exit of a child or
  of a descendant, nor for the run's own timeout.
* `BrowserTasks`: none; all its properties are safety properties.

## 4. The proofs

TLAPS checks all theorems for every value of the constants, under the named
assumptions only: `ConstantsAssumption` (counts are natural numbers, triggers
are sets of instants), `RouteAssumption` (the route is not empty and names Grok
at most once, as `validate_route` enforces), `ForegroundAssumption` (finitely
many rows), `RunsAssumption`, `KeysAssumption`, `BoundsAssumption`,
`CastsAssumption` (each run has a key, runs and callers are different),
`AbsentAssumption` (the absent values are not values) and `MaxCallsAssumption`
(a bound is a natural number).

| Module | Theorems |
|---|---|
| `TaskStore_proofs` | `TypeCorrect`, `EvidenceAlwaysMatches`, `NeverRunTwice`, `CapacityAlwaysRespected`, `PlanAlwaysFits`, `NoWindowLost`, `FinishedStaysFinished`, `StoreImplementsLifecycle`; `OnlyRevisionBlocksSettling`, `RevisedRunsAreStuck` (finding 1) |
| `TaskRuntime_proofs` | `TypeCorrect`, `OneProviderPerOccurrence`, `NoEffectBeforeReceipt`, `HistoryEndsOnce` |
| `TaskForeground_proofs` | `TypeCorrect`, `OnePollInFlight`, `ShutdownAlwaysDrains`, `OnlyOwnerEndsRow`, `ForegroundImplementsLifecycle`; `WakeLostInOneWindow` (finding 5) |
| `ProviderSessions_proofs` | `TypeCorrect`, `SettledRunsAreQuiet`, `VerdictsAreHonest`, `AnnouncementsAgree`, `ApprovalsAreAuthorized`, `FileIsFresh` |
| `ProviderContract_proofs` | `KeepsExternalContract`, `SpeaksOnlyAsContracted` |
| `RuntimeGaps_proofs` | `ResultAlwaysBacked`; `GrokNeverCompletesEarly` (finding 2), `ContainmentLostOnlyByDrop` (finding 3), `TabForgottenOnlyByFallback` (finding 4) |
| `ProviderAborts_proofs` | `AbortsReachAKiller` (finding 6) |
| `BrowserTasks_proofs` | `TypeCorrect`, `TabsStayConsistent`, `OrphansAreTakenBack`, `PromptsAreClosed`, `ContextIsActive`, `LeasesAreExclusive`, `RequestsActAtHome` |

None of the properties is inductive by itself; the strengthenings and why they
are needed:

* `TaskStore`, `RowInv`: the types, `EvidenceMatches` and `RowShape` (attempts
  are 0 before a claim and 1 from it on). `StepShape` reduces every action to
  what it can do to one row (enter, start, renew, complete, unknown), so that
  evidence, attempts, permanence and the refinement are each one
  short argument over the same five cases. Capacity counts `ActiveRuns` as a
  finite set: only a claim adds to it, and a claim counts again. For
  `WindowAccounted` the step lemma `DefStepShape` shows that only a plan moves a
  watermark without restarting its scope, and `PlanTraces` that such a plan
  leaves the trace of the window it passes. `PlanFitsCapacity` needs no
  induction over the tasks: of the rows that a plan selects anew, the one of
  the last task was admitted against a count that already held all the others,
  so all of them fit. `LeaseOrder` (a lease lasts at least one
  duration from its claim, whatever the clock does) and
  `RevisionOrder` (no row is newer than its definition) say when
  `validate_store` accepts the ending of an expired row: exactly while its
  revision is current.
* `TaskRuntime`, `SingleRun`: only the current candidate can have started, and
  a rejection the runner holds belongs to a candidate that did not start; this
  is what makes advancing safe, and it is a fact about the adapters' verdicts.
  `PlanRecorded` ties the dispatch step to its receipt. `History` relates phase
  and receipts (a terminal receipt implies an ended phase, and no receipt is
  appended in one), from which `OneTerminalReceipt` follows; `EndBacked` carries it through the batch of
  drained events to the result.
* `RuntimeGaps_proofs`: `HandleHeld` (the handle of an accepted run is held from
  its dispatch on, so every other error return has something to abort), `TabInv`
  (`Opened`: a tab is open because its Grok candidate was dispatched or, once the
  route is past it, rejected; `Named`: the runner knows the tab while that
  candidate is the current one) and `ToldInv` (a
  completion in the projection, in the drained batch or in the receipts belongs
  to a prompt that completed; nothing is in flight before a dispatch).
* `TaskForeground`, `Accounting` (`active` is the number of handoffs between the
  count and the terminal write), `GateHolds` (a claim under way means the
  service still runs; after the gate of `shutdown()` it does not) and
  `SingleFlight`. Draining follows: at a count of zero no handoff is counted, and
  none can be claimed any more. A shutdown that waits has been woken or a handoff
  will still notify it (`WillWake`); only `AwaitFinished` breaks this, and no
  later step repairs it.
* `ProviderSessions`, `AllGood` and `FileGood`. The first is a conjunction per
  run, since a step of one run changes another only when an abort of all fires
  or files it: `StartGood` (how far the start call is says what exists of the
  run), `EndGood` (what holds at each place of the supervisor: a verdict, a dead
  child, a reader that is done), `ApprovalGood` (who holds the approval, and
  whether an operator was told), `SaidGood` (what was announced, by whom, and
  that it was filed by the same one). `FileGood` says that the lock's holder is
  saving, and that a snapshot or the file may be behind the registry only while
  another reader still has to save.
* `ProviderContract_proofs`: `ViewGood` (a stream that ended its turn has no
  reader any more; only the supervisor files a run it supervises, except for an
  abort). Each action keeps the contract of its own run (`KeepsContract`): its
  view makes one step of `ExternalRun` or none.
* `ProviderAborts_proofs`: `AbortGood` (a started run has a supervisor and a
  channel that has resolved once the run is filed; the supervisor stops
  listening only after a stream that ended without a word).
* `BrowserTasks`, `RegInv` (types, `TabsFit`, `PromptsFit`,
  `OrphansOnlyByTakeBack`, `ActiveContext`) with the leases. Handlers compose
  registry functions, so the proof does too: each function is shown to `Advance`
  the registry (what was right stays right, no task loses its last tab, a
  fitting focus goes on to fit), and an action is a composition of such
  functions. The two operations that do not advance it, the take-back and the
  answer to a dialog, are where the history variables are set. `ReqFits` is what
  makes `ActsAtHome` true although a waiting request is never compared with its
  tab: the tab was opened before, and while it is an agent's it is the task's. It
  rests on `Stays`, which every function keeps: an opened tab gets a new task only
  together with a new owner, and never becomes an agent's own again.
* The refinements are by step simulation: each action maps to `Enter`, `Start`,
  `Succeed`, `Abandon` or a stutter of `OccurrenceLifecycle`.

All safety properties that a passing run checks are proved. Only model-checked: the
liveness properties `SettlesUnlessRevised`, `RunnerReturns`,
`QueuedRunAdvances`, `ShutdownStopsClaims`, `AbortKills`, `VerdictIsFiled` and
those of the violation runs, because fairness and `ENABLED` are outside the
prover's reach. Of three of them the safety core is proved: what a settling step
needs (`OnlyRevisionBlocksSettling`), that an aborted process is in the hands of
someone who kills it (`AbortsReachAKiller`), and that a waiting shutdown will be
notified (`WakeLostInOneWindow`), each with its one exception. No module uses a
`RECURSIVE` operator.

The theorems of `RuntimeGaps_proofs` and `ProviderAborts_proofs`, and those that
the table names with a finding, are about findings. A counterexample shows that a
claim fails; these theorems show that it fails nowhere else, for any number of
candidates, events, runs and callers, so that, as far as safety goes, closing
the named gap is enough.
Their properties are defined beside them and belong to no run (but for
`ResultBacked`, which is proved there because it needs the invariant about tabs).

## 5. Findings

1. **A revise makes a running occurrence unfinishable.** Execution receipts
   carry the current revision of the definition (`task_receipts.rs:95`), and
   validation refuses a terminal receipt whose revision is not its
   occurrence's. After a revise, completion, unknown outcome and reconciliation
   of the older row all fail; polls stop at their reconciliation, and the store
   does not open again, unless the clock is set back. Run
   `MCTaskStoreLeaseRevised`. Proved: every row that a revise meets while it runs
   is stuck (`RevisedRunsAreStuck`), and nothing else makes a settling write
   fail (`OnlyRevisionBlocksSettling`).
2. **A completed item is taken for a completed run.** Every event with status
   Completed ends the attempt as Succeeded
   (`task_execution_runtime_events.rs:40`); Codex items carry that status in the
   middle of a turn. Run `MCTaskRuntimeCompletedMeansFinished`. Proved: a Grok
   prompt is never reported completed before it is (`GrokNeverCompletesEarly`).
3. **Two error returns leave an accepted provider at work**: a lease lost at the
   end of the dispatch wait, and a refused cancellation or timeout receipt
   (`task_runtime_coordinator.rs:843`, `:741`, `:767`). Run
   `MCTaskRuntimeErrorContains`. Proved: no other step loses the containment
   (`ContainmentLostOnlyByDrop`).
4. **A Grok tab is forgotten** when the route falls back from Grok to an
   external candidate (`task_runtime_coordinator.rs:658`). Run
   `MCTaskRuntimeTabReleased`. Proved: a tab is forgotten by no other history
   (`TabForgottenOnlyByFallback`).
5. **`shutdown()` can wait for ever**: the last handoff may finish between the
   read of the count and the creation of the `Notified` future
   (`task_foreground_service.rs:573`). Run `MCTaskForegroundShutdown`. Proved: the
   notification is lost in this window only, and then for ever
   (`WakeLostInOneWindow`).
6. **An abort can leave its child at work.** A child that closes its stdout
   without a terminal line leaves the supervisor in `child.wait()`
   (`provider_sessions.rs:2764`), with the abort channel and the timeout
   dropped; an abort is then recorded and reported, and kills nothing. Run
   `MCProviderSessionsAbort`. Proved: this is the only place where an aborted
   child is in nobody's hands (`AbortsReachAKiller`).

### Observations

Behaviour that the models show and no document or test denies:

* A start call that fails after an abort has filed its run announces `Failed`
  although the registry says `Aborted`; `AnnouncedAsFiled` speaks of the
  supervisor and aborts only.
* An abort by somebody else (closing the tab, the debug API) is announced to the
  attempt by nobody: `abort_active_child` files the run, and a supervisor that
  finds it filed emits no terminal event. Unless the stream still reports an
  end, the runner waits until its deadline and reports a timeout.
* An error between the registration of a run and its spawn leaves it registered
  (`PrepareFails`).
* An accepted `beforeunload` dialog makes its tab and its task active although
  both may be gone (`shellx_browser_dialog_runtime.rs:128`); `ActiveContext`
  excuses it.
* A take-back of a task's last tab leaves the task alive until the next repair
  (`shellx_browser_personal_lock.rs:187`).
* A rollback stops at a tab that is leased or closed already, and its task goes
  on; when it ends well it returns the focus to the former tab even if the user
  has focused another one since.
* Status and lease are not asked again after the engine's answer, so a result
  can reach a task that was paused while the engine worked; and a result that is
  refused because the task's tab is gone has already put its page into the task's
  record (`RecordThenRefuse`).
* A prompt recorded for a task that is over stays pending, and
  `resolve_session_grant` also grants what was cancelled (`AnswerGrant`); nothing
  follows, because `apply_session_grant` always fails.
* An operator's answer that arrives between the elapse of an approval's wait and
  the drop of its receiver is reported as delivered while `Deny` is written.
  `ApprovalAuthorized` shows that this only ever denies.
* `heartbeat_tab` revives a lease that has run out when nobody has looked.
* The engine slot of an action is chosen when it queues; a request that names
  nothing may resolve to another engine when it is applied, and an entry of the
  wait list stays when the HTTP future is dropped while it waits
  (`shellx_browser_engine.rs:328`). The pool is not modelled.

## 6. Not modelled, and why

| Part | Reason | How it would be done |
|---|---|---|
| Attention ledger | sequential under the store's transaction; its content is compare-and-set and rotation of records | `TaskAttention`: open, resolve, overflow, tombstones over a set of facts |
| Receipts journal | retention and hash lineage of records whose sizes matter | `TaskReceipts`: retained tail, detached index |
| Attachments | file system calls between two transactions | `TaskAttachments`: two-phase reclamation with crashes |
| Tasks as a whole | the product of `TaskForeground`, leases and `TaskRuntime` is too large for one exhaustive run; the parts share `OccurrenceLifecycle` instead | `TaskSystem` with a smaller runner |
| Schedule arithmetic | pure functions over calendars and time zones; a trigger is a set of instants here | bounded checks against a reference, in a module for TLC only |
| Browser engine pool and queue | its guards follow Rust's `Drop` and tokio's fair lock; the registry sees only the wait | a module of slots, waiters and dropped futures |
| ACP sessions, subagents and host MCP, goals and builds, Vault | separate protocols, each as large as a module above | one module each, in this order |
| Provider adapters, projections and commands | parsing, views and thin layers over the parts above | none planned |
| Debug API, processes, logs, Git, connections, installation, front end | I/O and views without a protocol of their own | none planned |
| Vendored code | third-party | none planned |
