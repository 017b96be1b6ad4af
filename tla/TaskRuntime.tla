----------------------------- MODULE TaskRuntime -----------------------------
(***************************************************************************)
(* One claimed Task attempt: the ordered route of provider candidates       *)
(* (task_provider_fallback.rs), its durable receipts (task_execution_       *)
(* runtime.rs), and the runner that drives it against real providers        *)
(* (task_runtime_coordinator.rs, task_provider_dispatch_*.rs).              *)
(*                                                                         *)
(* The route is staged on a clone and replaces the live coordinator only    *)
(* after its receipt was persisted, so a route step and its receipt are one *)
(* action.  The store may refuse any receipt (lease gone, I/O).             *)
(*                                                                         *)
(* The providers are the environment: `run` is what really happened at a    *)
(* candidate, `buffer` is the bounded projection of its event stream, which *)
(* the runner drains into `batch`.  An external run behaves as the contract *)
(* ExternalRun allows: it is also visible as a registry snapshot until it   *)
(* has left the registry.                                                   *)
(***************************************************************************)
EXTENDS Integers, Sequences, FiniteSets, Functions

CONSTANTS
    NumCandidates,  \* length of the immutable route, in order
    Grok,           \* the candidates run by Grok ACP; the others are external
    MaxEvents,      \* bound: events that the providers emit
    BufferLimit     \* TASK_RUNTIME_EVENT_BUFFER_LIMIT

Candidates == 1..NumCandidates

\* validate_route refuses an empty route and a provider named twice.
ASSUME RouteAssumption ==
    /\ NumCandidates \in Nat \ {0}
    /\ Grok \subseteq Candidates
    /\ \A c, d \in Grok : c = d
    /\ MaxEvents \in Nat
    /\ BufferLimit \in Nat \ {0}

Phases     == {"Ready", "AwaitingPreflight", "AwaitingDispatch", "Active",
               "NeedsAttention", "OutcomeUnknown", "Completed"}
Outcomes   == {"Succeeded", "Failed", "Cancelled", "TimedOut", "OutcomeUnknown"}
Boundaries == {"ProviderAccepted", "ProviderRunning", "ToolOrApproval"}
Reasons    == {"Selected", "Eligible", "Rejected", "Inconclusive", "Ambiguous"}
                  \cup Boundaries \cup Outcomes
Receipts   == [order : Candidates, reason : Reasons]
Steps      == {"resolving", "begin", "preflight", "dispatch", "observed",
               "waiting", "observing", "notify", "done"}
Results    == {"none", "Completed", "CompletedWithAttention", "OutcomeUnknown",
               "Error"}
Observed   == {"none", "Accepted", "RejectedNoTaskStarted", "Ambiguous"}
Runs       == {"idle", "working", "turned", "exitedOk", "exitedFailed", "exitedAborted",
               "succeeded", "failed", "cut", "aborted", "unconfirmed"}
Events     == {"started", "activity", "item", "turn", "completed", "failed",
               "cancelled", "unknown"}

VARIABLES
    phase, cur, dispatched,   \* TaskExecutionCoordinator
    journal,                  \* durable decision receipts of this attempt, in order
    step, obs, batch, ended,  \* the runner: where it is, the dispatch result it
                              \* holds, drained events, first terminal action
    cleanup,                  \* grok_cleanup_task_tab names the Grok tab
    result,                   \* what the runner returned
    asked, late,              \* cancellation requested; deadline passed
    run, buffer, emitted,     \* providers and the event projection
    tab                       \* the deterministic Grok task tab

route  == <<phase, cur, dispatched, journal>>
runner == <<step, obs, batch, ended, cleanup, result>>
world  == <<run, buffer, emitted, tab>>
vars   == <<route, runner, asked, late, world>>

TypeOK ==
    /\ phase \in Phases /\ cur \in Candidates /\ dispatched \subseteq Candidates
    /\ journal \in Seq(Receipts)
    /\ step \in Steps /\ obs \in Observed
    /\ batch \in Seq(Events) /\ ended \in Results
    /\ cleanup \in BOOLEAN /\ result \in Results
    /\ asked \in BOOLEAN /\ late \in BOOLEAN
    /\ run \in [Candidates -> Runs]
    /\ buffer \in Seq(Events) /\ emitted \in 0..MaxEvents
    /\ tab \in {"none", "open", "closed", "stuck"}

Init ==
    /\ phase = "Ready" /\ cur = 1 /\ dispatched = {} /\ journal = <<>>
    /\ step = "resolving" /\ obs = "none" /\ batch = <<>> /\ ended = "none"
    /\ cleanup = FALSE /\ result = "none"
    /\ asked = FALSE /\ late = FALSE
    /\ run = [c \in Candidates |-> "idle"]
    /\ buffer = <<>> /\ emitted = 0 /\ tab = "none"

-----------------------------------------------------------------------------
(* The route: TaskExecutionCoordinator::apply with its receipt.              *)

Persist(reason) == journal' = Append(journal, [order |-> cur, reason |-> reason])

receipts == Range(journal)

HasRecorded(boundary) == \E r \in receipts : r.reason = boundary

\* Faulty variant of AdvanceAfterRejection: it does not stop at the last candidate.
AdvancePastEnd ==
    /\ Persist("Rejected")
    /\ cur' = cur + 1 /\ phase' = "AwaitingPreflight" /\ step' = "preflight"

\* advance_after_rejection: only a proof of no start moves the route on.
AdvanceAfterRejection ==
    /\ Persist("Rejected")
    /\ \/ /\ cur < NumCandidates
          /\ cur' = cur + 1 /\ phase' = "AwaitingPreflight" /\ step' = "preflight"
       \/ /\ cur = NumCandidates
          /\ phase' = "NeedsAttention" /\ step' = "notify"
          /\ UNCHANGED cur

Settle(to, reason) ==
    /\ phase' = to
    /\ Persist(reason)
    /\ step' = "notify"
    /\ UNCHANGED cur

PhaseAfter(outcome) ==
    CASE outcome = "Succeeded"      -> "Completed"
      [] outcome = "OutcomeUnknown" -> "OutcomeUnknown"
      [] OTHER                      -> "NeedsAttention"

\* terminal_action of the notification that belongs to a terminal phase.
ResultOf(terminalPhase) ==
    CASE terminalPhase = "Completed"      -> "Completed"
      [] terminalPhase = "NeedsAttention" -> "CompletedWithAttention"
      [] OTHER                            -> "OutcomeUnknown"

-----------------------------------------------------------------------------
(* Containment and return.                                                   *)

\* Returning deactivates the cancellation identity of the attempt.
Return(r) == step' = "done" /\ result' = r /\ asked' = FALSE

\* abort_after_receipt: an external run that is still registered is killed and
\* recorded as aborted; a Grok session is asked, which may fail (Uncertain).
Registered(c) == c \notin Grok /\ run[c] \in {"working", "turned"}

AbortOutcomes ==
    IF cur \in Grok THEN {"CancellationRequested", "Uncertain"}
    ELSE IF Registered(cur) THEN {"CancellationRequested"} ELSE {"AlreadyTerminal"}

Live(c) == run[c] \in {"working", "turned"}

RunAfterAbort(abort) ==
    IF ~Live(cur) THEN run
    ELSE [run EXCEPT ![cur] = IF abort = "Uncertain" THEN "unconfirmed" ELSE "aborted"]

\* cleanup_task_tab closes the tab and with it the Grok session, or fails.
TabAfterCleanup(ok) ==
    IF ~cleanup THEN tab ELSE IF ok THEN "closed" ELSE "stuck"

RunAfterCleanup(runs, ok) ==
    [c \in Candidates |->
        IF cleanup /\ ok /\ c \in Grok /\ runs[c] \in {"working", "unconfirmed"}
        THEN "aborted" ELSE runs[c]]

\* Faulty variant of ReturnCleaned: the outcome of the cleanup is ignored.
ReturnIgnoringCleanup(r, ok) == Return(r) /\ tab' = TabAfterCleanup(ok)

\* cleanup_after_terminal_receipt: a failed cleanup turns a clean success into
\* attention.
ReturnCleaned(r, ok) ==
    /\ Return(IF r = "Completed" /\ cleanup /\ ~ok THEN "CompletedWithAttention" ELSE r)
    /\ tab' = TabAfterCleanup(ok)

\* The error paths that contain first: abort the handle that is held, if any,
\* and clean the tab.
ContainAndFail ==
    \E abort \in AbortOutcomes, ok \in BOOLEAN :
        /\ run' = RunAfterCleanup(IF obs = "Accepted" THEN RunAfterAbort(abort) ELSE run, ok)
        /\ tab' = TabAfterCleanup(ok)
        /\ Return("Error")
        /\ UNCHANGED <<route, obs, batch, ended, cleanup, late, buffer, emitted>>

\* The error paths that return at once (`?`).
Fail ==
    /\ Return("Error")
    /\ UNCHANGED <<route, obs, batch, ended, cleanup, late, world>>

-----------------------------------------------------------------------------
(* execute_inner and the loop of drive_bound_runtime.                        *)

\* Trust resolved, binding loaded, cancellation identity active.
Bind ==
    /\ step = "resolving"
    /\ step' = "begin"
    /\ UNCHANGED <<route, obs, batch, ended, cleanup, result, asked, late, world>>

Begin ==
    /\ step = "begin" /\ phase = "Ready"
    /\ phase' = "AwaitingPreflight"
    /\ Persist("Selected")
    /\ step' = "preflight"
    /\ UNCHANGED <<cur, dispatched, obs, batch, ended, cleanup, result, asked,
                   late, world>>

\* Faulty variant of PreflightEligible: the plan is released without a receipt.
PlanUnrecorded ==
    /\ step = "preflight" /\ phase = "AwaitingPreflight"
    /\ cur \notin dispatched
    /\ dispatched' = dispatched \cup {cur}
    /\ phase' = "AwaitingDispatch" /\ step' = "dispatch"
    /\ UNCHANGED <<cur, journal, obs, batch, ended, cleanup, result, asked, late,
                   world>>

\* An eligible candidate gets its dispatch plan with the receipt, once.
PreflightEligible ==
    /\ step = "preflight" /\ phase = "AwaitingPreflight"
    /\ cur \notin dispatched
    /\ dispatched' = dispatched \cup {cur}
    /\ phase' = "AwaitingDispatch"
    /\ Persist("Eligible")
    /\ step' = "dispatch"
    /\ UNCHANGED <<cur, obs, batch, ended, cleanup, result, asked, late, world>>

PreflightStops ==
    /\ step = "preflight" /\ phase = "AwaitingPreflight"
    /\ AdvanceAfterRejection \/ Settle("NeedsAttention", "Inconclusive")
    /\ UNCHANGED <<dispatched, obs, batch, ended, cleanup, result, asked, late, world>>

\* Resolution, binding, activation (capacity 8), lease check or receipt failed.
FailEarly == step \in {"resolving", "begin", "preflight", "dispatch"} /\ Fail

\* The provider took the prompt; an external start also emits `started`.
DispatchAccepted ==
    /\ step = "dispatch"
    /\ obs' = "Accepted"
    /\ run' = [run EXCEPT ![cur] = "working"]
    /\ IF cur \in Grok
       THEN tab' = "open" /\ cleanup' = TRUE /\ buffer' = <<>>
       ELSE cleanup' = FALSE /\ buffer' = <<"started">> /\ UNCHANGED tab
    /\ step' = "observed"
    /\ UNCHANGED <<route, batch, ended, result, asked, late, emitted>>

\* Only Grok can prove that no prompt was sent: the session is not live, or the
\* initializer failed, with or without a tab to release.
DispatchRejected ==
    /\ step = "dispatch" /\ cur \in Grok
    /\ obs' = "RejectedNoTaskStarted"
    /\ \/ cleanup' = FALSE /\ UNCHANGED tab
       \/ cleanup' = TRUE /\ tab' = "open"
    /\ step' = "observed"
    /\ UNCHANGED <<route, batch, ended, result, asked, late, run, buffer, emitted>>

\* An untyped error after the prompt may have been written: the provider may
\* have started.  A failed external start kills its own child.
DispatchAmbiguous ==
    /\ step = "dispatch"
    /\ obs' = "Ambiguous"
    /\ \E r \in {"idle", IF cur \in Grok THEN "working" ELSE "failed"} :
           run' = [run EXCEPT ![cur] = r]
    /\ IF cur \in Grok THEN tab' = "open" /\ cleanup' = TRUE
                       ELSE cleanup' = FALSE /\ UNCHANGED tab
    /\ step' = "observed"
    /\ UNCHANGED <<route, batch, ended, result, asked, late, buffer, emitted>>

\* A heartbeat fails inside await_with_lease: the dispatch future is dropped
\* where it stands (an external child dies with it) ...
DispatchDropped ==
    /\ step = "dispatch"
    /\ \E r \in {"idle", IF cur \in Grok THEN "working" ELSE "failed"} :
           run' = [run EXCEPT ![cur] = r]
    /\ tab' \in (IF cur \in Grok THEN {tab, "open"} ELSE {tab})
    /\ Return("Error")
    /\ UNCHANGED <<route, obs, batch, ended, cleanup, late, buffer, emitted>>

\* ... or only after the future returned: its result is dropped.
HandleDropped == step = "observed" /\ Fail

ApplyAccepted ==
    /\ step = "observed" /\ obs = "Accepted" /\ phase = "AwaitingDispatch"
    /\ phase' = "Active"
    /\ Persist("ProviderAccepted")
    /\ step' = "waiting"
    /\ UNCHANGED <<cur, dispatched, obs, batch, ended, cleanup, result, asked,
                   late, world>>

ApplyRejected ==
    /\ step = "observed" /\ obs = "RejectedNoTaskStarted" /\ phase = "AwaitingDispatch"
    /\ AdvanceAfterRejection
    /\ UNCHANGED <<dispatched, obs, batch, ended, cleanup, result, asked, late, world>>

\* Faulty variant of ApplyAmbiguous: an ambiguous start counts as a rejection.
AmbiguousAdvances ==
    /\ step = "observed" /\ obs = "Ambiguous" /\ phase = "AwaitingDispatch"
    /\ AdvanceAfterRejection
    /\ UNCHANGED <<dispatched, obs, batch, ended, cleanup, result, asked, late, world>>

ApplyAmbiguous ==
    /\ step = "observed" /\ obs = "Ambiguous" /\ phase = "AwaitingDispatch"
    /\ Settle("OutcomeUnknown", "Ambiguous")
    /\ UNCHANGED <<dispatched, obs, batch, ended, cleanup, result, asked, late, world>>

\* The receipt of the dispatch was refused: contain first.
ApplyRefused == step = "observed" /\ ContainAndFail

Notify ==
    /\ step = "notify"
    /\ \E ok \in BOOLEAN :
        /\ ReturnCleaned(ResultOf(phase), ok)
        /\ run' = RunAfterCleanup(run, ok)
    /\ UNCHANGED <<route, obs, batch, ended, cleanup, late, buffer, emitted>>

-----------------------------------------------------------------------------
(* wait_for_terminal.                                                        *)

\* The receipt of the cancellation or timeout comes first, then the abort.
StopRun(outcome) ==
    /\ phase = "Active"
    /\ phase' = PhaseAfter(outcome)
    /\ Persist(outcome)
    /\ \E abort \in AbortOutcomes, ok \in BOOLEAN :
        /\ run' = RunAfterCleanup(RunAfterAbort(abort), ok)
        /\ ReturnCleaned(IF abort = "Uncertain" THEN "OutcomeUnknown"
                                                ELSE ResultOf(phase'), ok)
    /\ UNCHANGED <<cur, dispatched, obs, batch, ended, cleanup, late, buffer, emitted>>

Cancel == step = "waiting" /\ asked /\ StopRun("Cancelled")

TimeOut == step = "waiting" /\ ~asked /\ late /\ StopRun("TimedOut")

\* The receipt of the cancellation or timeout was refused: `?`.
StopRefused == step = "waiting" /\ (asked \/ late) /\ Fail

\* The lease can no longer be proven owned.
LeaseLost == step = "waiting" /\ ContainAndFail

\* Faulty variant of Drain: events are polled without a look at the deadline.
DrainPastDeadline ==
    /\ step = "waiting" /\ ~asked
    /\ batch' = buffer /\ buffer' = <<>>
    /\ step' = "observing"
    /\ UNCHANGED <<route, obs, ended, cleanup, result, asked, late, run, emitted, tab>>

Drain ==
    /\ step = "waiting" /\ ~asked /\ ~late
    /\ batch' = buffer /\ buffer' = <<>>
    /\ step' = "observing"
    /\ UNCHANGED <<route, obs, ended, cleanup, result, asked, late, run, emitted, tab>>

\* classify_provider_session_event, classify_grok_acp_event.
OutcomeOf(event) ==
    CASE event \in {"item", "turn", "completed"} -> "Succeeded"
      [] event = "failed"                        -> "Failed"
      [] event = "cancelled"                     -> "Cancelled"
      [] event = "unknown"                       -> "OutcomeUnknown"
      [] OTHER                                   -> "none"

BoundaryOf(event) == IF event = "started" THEN "ProviderRunning" ELSE "ToolOrApproval"

\* Faulty variant of Observe: an outcome is accepted in any phase.
ObserveAnyPhase(outcome, boundary) ==
    /\ outcome # "none" \/ ~HasRecorded(boundary)
    /\ phase' = IF outcome = "none" THEN phase ELSE PhaseAfter(outcome)
    /\ Persist(IF outcome = "none" THEN boundary ELSE outcome)
    /\ ended' = IF outcome # "none" /\ ended = "none" THEN ResultOf(phase') ELSE ended

\* apply_provider_session_observation for one classified observation: activity
\* is recorded once; an outcome, or new activity, is legal in Active only.
Observe(outcome, boundary) ==
    IF outcome # "none"
    THEN /\ phase = "Active"
         /\ phase' = PhaseAfter(outcome)
         /\ Persist(outcome)
         /\ ended' = IF ended = "none" THEN ResultOf(phase') ELSE ended
    ELSE IF HasRecorded(boundary)
    THEN UNCHANGED <<phase, journal, ended>>
    ELSE /\ phase = "Active"
         /\ Persist(boundary)
         /\ UNCHANGED <<phase, ended>>

ObserveEvent ==
    /\ step = "observing" /\ batch # <<>>
    /\ Observe(OutcomeOf(Head(batch)), BoundaryOf(Head(batch)))
    /\ batch' = Tail(batch)
    /\ UNCHANGED <<cur, dispatched, step, obs, cleanup, result, asked, late, world>>

\* An observation that is classified asks for a receipt, or is not legal.
Persists(outcome, boundary) == outcome # "none" \/ ~HasRecorded(boundary)

\* UnexpectedClassification, or a refused receipt: contain and fail.
ObserveFails ==
    /\ step = "observing"
    /\ IF batch # <<>>
       THEN Persists(OutcomeOf(Head(batch)), BoundaryOf(Head(batch)))
       ELSE Registered(cur) /\ Persists("none", "ProviderRunning")
    /\ ContainAndFail

\* After the batch: the snapshot of a run that is still registered counts as
\* Running; then the first terminal action is returned, or the loop goes on.
ObserveSnapshot ==
    /\ step = "observing" /\ batch = <<>>
    /\ IF Registered(cur) THEN Observe("none", "ProviderRunning")
                          ELSE UNCHANGED <<phase, journal, ended>>
    /\ IF ended = "none"
       THEN step' = "waiting" /\ UNCHANGED <<result, asked, run, tab>>
       ELSE \E ok \in BOOLEAN :
                ReturnCleaned(ended, ok) /\ run' = RunAfterCleanup(run, ok)
    /\ UNCHANGED <<cur, dispatched, obs, batch, cleanup, late, buffer, emitted>>

-----------------------------------------------------------------------------
(* The operator, the clock and the providers.                                *)

\* TaskRuntimeCancellation::request: refused unless the attempt is active.
RequestCancel ==
    /\ step \notin {"resolving", "done"}
    /\ asked' = TRUE
    /\ UNCHANGED <<route, runner, late, world>>

Deadline == ~late /\ late' = TRUE /\ UNCHANGED <<route, runner, asked, world>>

\* The projection drops its oldest event when it is full.
Emit(event) ==
    /\ emitted < MaxEvents
    /\ emitted' = emitted + 1
    /\ buffer' = Append(IF Len(buffer) = BufferLimit THEN Tail(buffer) ELSE buffer, event)

\* Progress, tool calls and text; and, in an external stream, items and errors
\* that carry a Completed or a Failed status one by one while the run goes on.
ProviderActs ==
    \E c \in Candidates :
        /\ run[c] \in (IF c \in Grok THEN {"working"} ELSE {"working", "cut"})
        /\ \E event \in {"started", "activity"}
                 \cup (IF c \in Grok THEN {} ELSE {"item", "failed"}) : Emit(event)
        /\ UNCHANGED <<route, runner, asked, late, run, tab>>

External == INSTANCE ExternalRun WITH Runs <- Candidates \ Grok, state <- run

\* The stream of an external run reports how its turn ended (a Codex turn may
\* be interrupted); the process is still there.
TurnEnds ==
    \E c \in Candidates \ Grok :
        /\ External!EndTurn(c) \/ External!Hush(c)
        /\ \E event \in {"turn", "failed", "cancelled"} : Emit(event)
        /\ UNCHANGED <<route, runner, asked, late, tab>>

\* record_terminal takes the run out of the registry ...
ProcessExits ==
    \E c \in Candidates \ Grok :
        /\ External!Exit(c)
        /\ UNCHANGED <<route, runner, asked, late, buffer, emitted, tab>>

\* ... and only then the terminal event is emitted.
TerminalEvent ==
    \E c \in Candidates \ Grok :
        /\ External!Announce(c)
        /\ Emit(CASE run[c] = "exitedOk"     -> "completed"
                  [] run[c] = "exitedFailed" -> "failed"
                  [] OTHER                   -> "cancelled")
        /\ UNCHANGED <<route, runner, asked, late, tab>>

\* Somebody else aborts the external run: its tab is closed, or the debug API is
\* asked to.  The attempt's projection gets no event of it.
AbortedElsewhere ==
    \E c \in Candidates \ Grok :
        /\ External!Cut(c) \/ External!Hush(c)
        /\ UNCHANGED <<route, runner, asked, late, buffer, emitted, tab>>

\* Grok: one prompt_complete with its stop reason.
PromptCompletes ==
    \E c \in Grok :
        /\ run[c] = "working"
        /\ \/ Emit("completed") /\ run' = [run EXCEPT ![c] = "succeeded"]
           \/ \E event \in {"failed", "cancelled", "unknown"} :
                  Emit(event) /\ run' = [run EXCEPT ![c] = "failed"]
        /\ UNCHANGED <<route, runner, asked, late, tab>>

-----------------------------------------------------------------------------

RouteStep ==
    \/ Bind \/ Begin \/ PreflightEligible \/ PreflightStops \/ FailEarly
    \/ DispatchAccepted \/ DispatchRejected \/ DispatchAmbiguous
    \/ DispatchDropped \/ HandleDropped
    \/ ApplyAccepted \/ ApplyRejected \/ ApplyAmbiguous \/ ApplyRefused
    \/ Notify

WaitStep ==
    \/ Cancel \/ TimeOut \/ StopRefused \/ LeaseLost
    \/ Drain \/ ObserveEvent \/ ObserveFails \/ ObserveSnapshot

ProviderStep ==
    \/ ProviderActs \/ TurnEnds \/ ProcessExits \/ TerminalEvent \/ PromptCompletes
    \/ AbortedElsewhere

Next == RouteStep \/ WaitStep \/ RequestCancel \/ Deadline \/ ProviderStep

Spec == Init /\ [][Next]_vars

\* The runner's future is polled, a dispatch call returns, the clock passes the
\* deadline; a provider owes nothing.
Fairness == WF_vars(RouteStep) /\ WF_vars(WaitStep) /\ WF_vars(Deadline)

FairSpec == Spec /\ Fairness

-----------------------------------------------------------------------------
(* Properties.                                                               *)

Terminal == Outcomes \cup {"Inconclusive", "Ambiguous"}

\* The receipts that end an attempt: an outcome, or no candidate is left.
EndsHistory(r) ==
    r.reason \in Terminal \/ (r.reason = "Rejected" /\ r.order = NumCandidates)

\* "ShellX moves to the next only when the earlier agent proves the task never
\* started": whatever is lost, rejected or refused, at most one provider of the
\* route ever gets to work on the occurrence.
AtMostOneProvider ==
    \A c, d \in Candidates : run[c] # "idle" /\ run[d] # "idle" => c = d

\* No external effect without its durable receipt: a provider that may have
\* started has a persisted dispatch plan.
EffectAfterReceipt ==
    \A c \in Candidates :
        run[c] # "idle" => [order |-> c, reason |-> "Eligible"] \in receipts

\* The attempt's durable history ends once, and ends there: of cancellation,
\* timeout, provider terminal, ambiguity and an exhausted route only one gets a
\* receipt, and no decision receipt follows it, neither of the provider's activity
\* nor of a step to another candidate.
OneTerminalReceipt ==
    \A i \in DOMAIN journal : EndsHistory(journal[i]) => i = Len(journal)

\* What the foreground service is told agrees with the durable history and with
\* the tab: a clean completion has a Succeeded receipt, attention the receipt
\* that asks for it; a tab whose cleanup failed is never behind a clean
\* completion, and one that is still open only after a fallback from Grok, whose
\* external dispatch no longer names it (TabReleased speaks of that).
ResultBacked ==
    /\ result = "Completed" => HasRecorded("Succeeded") /\ tab # "stuck"
    /\ result = "CompletedWithAttention" =>
           \/ \E r \in receipts : r.reason \in {"Failed", "Cancelled", "TimedOut",
                                                "Inconclusive"}
           \/ [order |-> NumCandidates, reason |-> "Rejected"] \in receipts
           \/ HasRecorded("Succeeded") /\ tab = "stuck"
    /\ result = "Completed" /\ tab = "open" =>
           /\ ~cleanup /\ cur \notin Grok
           /\ \E c \in Grok : c < cur /\ [order |-> c, reason |-> "Rejected"] \in receipts

\* The deadline ends every attempt whose dispatch returned: the lease is not
\* kept alive for ever by a runner that waits for a silent provider.
RunnerReturns == <>(step = "done")

\* "Continue waiting for a structured provider completion": a run reported
\* Completed is one whose provider finished its turn.
CompletedMeansFinished ==
    result = "Completed" => ~\E c \in Candidates : run[c] = "working"

\* "Contain the exact provider handle before returning an explicit owner-bound
\* uncertainty": no error return leaves an accepted run working unasked.
ErrorContains == (result = "Error" /\ obs = "Accepted") => ~Live(cur)

\* "Release the exact deterministic task tab after the runtime has durably
\* recorded its terminal/no-start/uncertain decision."
TabReleased == (step = "done" /\ result # "Error") => tab # "open"
=============================================================================
