---------------------------- MODULE TaskForeground ----------------------------
(***************************************************************************)
(* The foreground service (task_foreground_service.rs) with the timer and   *)
(* the Run now calls that drive it (task_runtime_app.rs): who may poll, who *)
(* may claim, and how the application shuts down around running handoffs.   *)
(*                                                                         *)
(* The store is reduced to the state of each row, the expiry of its lease   *)
(* and the fact that any call may fail (at most MaxFailures times); module  *)
(* TaskStore has the rest.  One row stands for one occurrence of a task of  *)
(* its own.  The timer, each Run now call, each handoff and the teardown    *)
(* are separate async tasks; what happens under one hold of a lock is one   *)
(* action.                                                                  *)
(***************************************************************************)
EXTENDS Integers, FiniteSets

CONSTANTS
    Rows,           \* occurrences
    Manual,         \* the rows made by Run now; the schedule makes the others
    Limit,          \* global_active_limit
    MaxFailures     \* bound: store calls that fail

ASSUME ForegroundAssumption ==
    /\ IsFiniteSet(Rows) /\ Manual \subseteq Rows
    /\ Limit \in Nat \ {0}
    /\ MaxFailures \in Nat

RowStates == {"Absent", "Pending", "Running", "Completed", "OutcomeUnknown"}

\* A handoff: planned; claimed, under the dispatch gate; counted, with the
\* runner at work; runner returned; terminal write done; no longer counted,
\* about to notify.
Handoffs == {"none", "ready", "claimed", "running", "returned", "settled",
             "uncounted"}

VARIABLES
    lifecycle,  \* New, Running or Shutdown
    poll,       \* the single poll in flight: idle, entered, reconciled, joining
    timer,      \* the app's timer task
    started,    \* its first poll is over
    call,       \* call[r]: the Run now call of r
    handoff,    \* handoff[r]
    active,     \* active_handoffs
    shut,       \* the teardown task inside shutdown()
    woken,      \* its Notified future was woken
    row,        \* row[r]: the durable state
    expired,    \* the running rows whose lease is past its expiry
    failures    \* store calls that failed

service == <<lifecycle, poll, handoff, active>>
store   == <<row, expired, failures>>
vars    == <<service, timer, started, call, shut, woken, store>>

TypeOK ==
    /\ lifecycle \in {"New", "Running", "Shutdown"}
    /\ poll \in {"idle", "entered", "reconciled", "joining"}
    /\ timer \in {"new", "ticking", "polling", "sleeping", "stopped"}
    /\ started \in BOOLEAN
    /\ call \in [Manual -> {"none", "queued", "polling", "done"}]
    /\ handoff \in [Rows -> Handoffs]
    /\ active \in 0..Cardinality(Rows)
    /\ shut \in {"none", "requested", "reading", "deciding", "waiting", "returned"}
    /\ woken \in BOOLEAN
    /\ row \in [Rows -> RowStates]
    /\ expired \in SUBSET Rows
    /\ failures \in 0..MaxFailures

Init ==
    /\ lifecycle = "New" /\ poll = "idle"
    /\ timer = "new" /\ started = FALSE
    /\ call = [r \in Manual |-> "none"]
    /\ handoff = [r \in Rows |-> "none"] /\ active = 0
    /\ shut = "none" /\ woken = FALSE
    /\ row = [r \in Rows |-> "Absent"] /\ expired = {} /\ failures = 0

StoreFails == failures < MaxFailures /\ failures' = failures + 1

RunningRows == {r \in Rows : row[r] = "Running"}

\* Faulty variant of GateFree: the gate is held until the runner has returned.
GateFreeAfterRun == \A r \in Rows : handoff[r] \notin {"claimed", "running"}

\* The dispatch gate is free: no handoff is between its claim and its count.
GateFree == \A r \in Rows : handoff[r] # "claimed"

-----------------------------------------------------------------------------
(* Who polls: the timer task and the Run now calls.                          *)

\* Faulty variant of CanPoll: a poll in flight does not keep others out.
CanPollAlways == lifecycle = "Running"

\* enter_poll: single flight, and only while the service runs.
CanPoll == lifecycle = "Running" /\ poll = "idle"

EnterPoll ==
    /\ CanPoll
    /\ poll' = "entered"
    /\ UNCHANGED <<lifecycle, handoff, active>>

\* start: the service must be new; a failing clock ends the timer task as well.
TimerStarts ==
    /\ timer = "new"
    /\ \/ lifecycle = "New" /\ lifecycle' = "Running" /\ timer' = "ticking"
       \/ timer' = "stopped" /\ UNCHANGED lifecycle
    /\ UNCHANGED <<poll, handoff, active, started, call, shut, woken, store>>

TimerPolls ==
    /\ timer = "ticking"
    /\ EnterPoll
    /\ timer' = "polling"
    /\ UNCHANGED <<started, call, shut, woken, store>>

\* A tick that finds another poll in flight, or the service stopped, is skipped.
TimerSkips ==
    /\ timer = "ticking" /\ ~CanPoll
    /\ timer' = "sleeping" /\ started' = TRUE
    /\ UNCHANGED <<service, call, shut, woken, store>>

\* poll_once after the interval; the loop ends when the service is shut down.
TimerTicks ==
    /\ timer = "sleeping"
    /\ timer' = IF lifecycle = "Shutdown" THEN "stopped" ELSE "ticking"
    /\ UNCHANGED <<service, started, call, shut, woken, store>>

\* queue_manual_run: the row is durable before the call is spawned.
QueueManual(r) ==
    /\ r \in Manual /\ call[r] = "none" /\ row[r] = "Absent"
    /\ row' = [row EXCEPT ![r] = "Pending"]
    /\ call' = [call EXCEPT ![r] = "queued"]
    /\ UNCHANGED <<service, timer, started, shut, woken, expired, failures>>

CallPolls(r) ==
    /\ r \in Manual /\ call[r] = "queued"
    /\ EnterPoll
    /\ call' = [call EXCEPT ![r] = "polling"]
    /\ UNCHANGED <<timer, started, shut, woken, store>>

\* Busy, stopped or not started: the row stays queued in the store.
CallSkips(r) ==
    /\ r \in Manual /\ call[r] = "queued" /\ ~CanPoll
    /\ call' = [call EXCEPT ![r] = "done"]
    /\ UNCHANGED <<service, timer, started, shut, woken, store>>

-----------------------------------------------------------------------------
(* The poll.                                                                 *)

\* PollGuard is dropped and the caller goes on.  Only an error of its first
\* poll ends the timer task.
LeavePoll(ok) ==
    /\ poll' = "idle"
    /\ IF timer = "polling"
       THEN /\ timer' = IF ok \/ started THEN "sleeping" ELSE "stopped"
            /\ started' = TRUE
            /\ UNCHANGED call
       ELSE /\ call' = [r \in Manual |-> IF call[r] = "polling" THEN "done" ELSE call[r]]
            /\ UNCHANGED <<timer, started>>
    /\ UNCHANGED <<lifecycle, handoff, active, shut, woken>>

IsCaller(r) == r \in Manual /\ call[r] = "polling"

\* Expired rows are reconciled first; a Run now call then hands off its row.
Reconcile ==
    /\ poll = "entered"
    /\ row' = [r \in Rows |-> IF r \in expired THEN "OutcomeUnknown" ELSE row[r]]
    /\ expired' = {}
    /\ IF timer = "polling"
       THEN poll' = "reconciled" /\ UNCHANGED handoff
       ELSE /\ poll' = "joining"
            /\ handoff' = [r \in Rows |-> IF IsCaller(r) THEN "ready" ELSE handoff[r]]
    /\ UNCHANGED <<lifecycle, active, timer, started, call, shut, woken, failures>>

\* Faulty variant of Exposed: the plan offers only the rows it just made.
ExposedNew(due) == due

\* Untouched pending rows are offered again with the rows that are newly due.
Exposed(due) == {r \in Rows : row[r] = "Pending"} \cup due

\* plan_due: as many of them as there are free slots.
Plan ==
    /\ poll = "reconciled"
    /\ \E due \in SUBSET {r \in Rows \ Manual : row[r] = "Absent"} :
       \E ready \in SUBSET Exposed(due) :
        /\ Cardinality(ready) + Cardinality(RunningRows) <= Limit
        /\ \/ ready = Exposed(due)
           \/ Cardinality(ready) + Cardinality(RunningRows) = Limit
        /\ row' = [r \in Rows |-> IF r \in due \cap ready THEN "Pending" ELSE row[r]]
        /\ handoff' = [r \in Rows |-> IF r \in ready THEN "ready" ELSE handoff[r]]
    /\ poll' = "joining"
    /\ UNCHANGED <<lifecycle, active, timer, started, call, shut, woken,
                   expired, failures>>

PollFails ==
    /\ poll \in {"entered", "reconciled"}
    /\ StoreFails
    /\ LeavePoll(FALSE)
    /\ UNCHANGED <<row, expired>>

\* join_all has every handoff's report.
PollJoins ==
    /\ poll = "joining" /\ \A r \in Rows : handoff[r] = "none"
    /\ LeavePoll(TRUE)
    /\ UNCHANGED store

-----------------------------------------------------------------------------
(* One handoff: claim_and_handoff.                                           *)

HandoffGoes(r, to) == handoff' = [handoff EXCEPT ![r] = to]

\* Faulty variant of Claim: a row that ended as unknown is run again.
ClaimAgain(r) ==
    /\ handoff[r] = "ready" /\ GateFree
    /\ lifecycle = "Running"
    /\ row[r] \in {"Pending", "OutcomeUnknown"}
    /\ Cardinality(RunningRows) < Limit
    /\ row' = [row EXCEPT ![r] = "Running"]
    /\ HandoffGoes(r, "claimed")
    /\ UNCHANGED <<lifecycle, poll, active, timer, started, call, shut, woken,
                   expired, failures>>

\* Under the gate: the service runs and the store grants the claim.
Claim(r) ==
    /\ handoff[r] = "ready" /\ GateFree
    /\ lifecycle = "Running"
    /\ row[r] = "Pending" /\ Cardinality(RunningRows) < Limit
    /\ row' = [row EXCEPT ![r] = "Running"]
    /\ HandoffGoes(r, "claimed")
    /\ UNCHANGED <<lifecycle, poll, active, timer, started, call, shut, woken,
                   expired, failures>>

\* Stopped before the claim, or refused by the store.
NoClaim(r) ==
    /\ handoff[r] = "ready" /\ GateFree
    /\ \/ /\ \/ lifecycle # "Running" \/ row[r] # "Pending"
             \/ Cardinality(RunningRows) >= Limit
          /\ UNCHANGED failures
       \/ lifecycle = "Running" /\ StoreFails
    /\ HandoffGoes(r, "none")
    /\ UNCHANGED <<lifecycle, poll, active, timer, started, call, shut, woken,
                   row, expired>>

\* Faulty variant of Count: every handoff of the poll is counted, not this one.
CountAll(r) ==
    /\ handoff[r] = "claimed"
    /\ lifecycle = "Running"
    /\ active' = active + Cardinality({s \in Rows : handoff[s] # "none"})
    /\ HandoffGoes(r, "running")
    /\ UNCHANGED <<lifecycle, poll, timer, started, call, shut, woken, store>>

\* The claim is bound and counted, then the gate opens and the runner starts.
Count(r) ==
    /\ handoff[r] = "claimed"
    /\ lifecycle = "Running"
    /\ active' = active + 1
    /\ HandoffGoes(r, "running")
    /\ UNCHANGED <<lifecycle, poll, timer, started, call, shut, woken, store>>

\* The terminal write of a row.  A completion of an expired lease is unknown;
\* an uncertain outcome is unknown; either write may fail, and a row that is no
\* longer running is refused: it then stays as it is.
SettleRow(r) ==
    \/ /\ row[r] = "Running"
       /\ \E to \in {"Completed", "OutcomeUnknown"} :
            /\ to = "Completed" => r \notin expired
            /\ row' = [row EXCEPT ![r] = to]
       /\ expired' = expired \ {r}
       /\ UNCHANGED failures
    \/ row[r] # "Running" /\ UNCHANGED store
    \/ StoreFails /\ UNCHANGED <<row, expired>>

\* Without a binding the claim ends as unknown, still under the gate.
Unbound(r) ==
    /\ handoff[r] = "claimed"
    /\ SettleRow(r) /\ row'[r] # "Completed"
    /\ HandoffGoes(r, "none")
    /\ UNCHANGED <<lifecycle, poll, active, timer, started, call, shut, woken>>

\* A receipt or heartbeat of the runner finds its own lease expired.
RunnerLate(r) ==
    /\ handoff[r] = "running" /\ row[r] = "Running" /\ r \in expired
    /\ row' = [row EXCEPT ![r] = "OutcomeUnknown"]
    /\ expired' = expired \ {r}
    /\ UNCHANGED <<service, timer, started, call, shut, woken, failures>>

RunnerReturns(r) ==
    /\ handoff[r] = "running"
    /\ HandoffGoes(r, "returned")
    /\ UNCHANGED <<lifecycle, poll, active, timer, started, call, shut, woken, store>>

Settle(r) ==
    /\ handoff[r] = "returned"
    /\ SettleRow(r)
    /\ HandoffGoes(r, "settled")
    /\ UNCHANGED <<lifecycle, poll, active, timer, started, call, shut, woken>>

\* finish_handoff, first half: the count under the state lock ...
Uncount(r) ==
    /\ handoff[r] = "settled"
    /\ active' = IF active > 0 THEN active - 1 ELSE 0
    /\ HandoffGoes(r, "uncounted")
    /\ UNCHANGED <<lifecycle, poll, timer, started, call, shut, woken, store>>

\* ... second half, outside of it: notify_waiters wakes the futures that exist.
NotifyWaiters(r) ==
    /\ handoff[r] = "uncounted"
    /\ HandoffGoes(r, "none")
    /\ woken' = (woken \/ shut = "waiting")
    /\ UNCHANGED <<lifecycle, poll, active, timer, started, call, shut, store>>

\* The clock passes the lease of a running row.
Expire(r) ==
    /\ row[r] = "Running" /\ r \notin expired
    /\ expired' = expired \cup {r}
    /\ UNCHANGED <<service, timer, started, call, shut, woken, row, failures>>

-----------------------------------------------------------------------------
(* shutdown(), spawned when the main window is destroyed.                    *)

RequestShutdown ==
    /\ shut = "none" /\ shut' = "requested"
    /\ UNCHANGED <<service, timer, started, call, woken, store>>

\* Faulty variant of Close: the lifecycle is changed without the gate.
CloseUngated ==
    /\ shut = "requested"
    /\ lifecycle' = "Shutdown" /\ shut' = "reading"
    /\ UNCHANGED <<poll, handoff, active, timer, started, call, woken, store>>

\* Under the gate: no claim is under way, and none will be made again.
Close ==
    /\ shut = "requested" /\ GateFree
    /\ lifecycle' = "Shutdown" /\ shut' = "reading"
    /\ UNCHANGED <<poll, handoff, active, timer, started, call, woken, store>>

\* The loop: read the count, return at zero, else create a Notified future ...
ReadCount ==
    /\ shut = "reading"
    /\ shut' = IF active = 0 THEN "returned" ELSE "deciding"
    /\ UNCHANGED <<service, timer, started, call, woken, store>>

AwaitFinished ==
    /\ shut = "deciding"
    /\ shut' = "waiting" /\ woken' = FALSE
    /\ UNCHANGED <<service, timer, started, call, store>>

\* ... that a later notification wakes.
Wake ==
    /\ shut = "waiting" /\ woken
    /\ shut' = "reading"
    /\ UNCHANGED <<service, timer, started, call, woken, store>>

-----------------------------------------------------------------------------

TimerStep == TimerStarts \/ TimerPolls \/ TimerSkips \/ TimerTicks

CallStep(r) == QueueManual(r) \/ CallPolls(r) \/ CallSkips(r)

PollStep == Reconcile \/ Plan \/ PollFails \/ PollJoins

\* The steps of a handoff that wait for nobody outside the service.
HandoffStep(r) ==
    \/ Claim(r) \/ NoClaim(r) \/ Count(r) \/ Unbound(r)
    \/ Settle(r) \/ Uncount(r) \/ NotifyWaiters(r)

ShutdownStep == Close \/ ReadCount \/ AwaitFinished \/ Wake

Next ==
    \/ TimerStep \/ PollStep \/ RequestShutdown \/ ShutdownStep
    \/ \E r \in Rows :
        \/ CallStep(r) \/ HandoffStep(r)
        \/ RunnerReturns(r) \/ RunnerLate(r) \/ Expire(r)

Spec == Init /\ [][Next]_vars

\* Spawned tasks are polled and the gate is a fair lock; the clock goes on.
ServiceFairness ==
    /\ WF_vars(TimerStep) /\ WF_vars(PollStep) /\ WF_vars(ShutdownStep)
    /\ \A r \in Rows :
        /\ WF_vars(CallPolls(r) \/ CallSkips(r))
        /\ WF_vars(HandoffStep(r)) /\ WF_vars(Expire(r))

\* Runners return (TaskRuntime: RunnerReturns).
RunnerFairness == \A r \in Rows : WF_vars(RunnerReturns(r))

FairSpec == Spec /\ ServiceFairness /\ RunnerFairness

\* Runners may work for ever.
ServiceSpec == Spec /\ ServiceFairness

-----------------------------------------------------------------------------
(* Properties.                                                               *)

\* A handoff lives inside the one poll that made it: no second poll reconciles,
\* plans or claims next to it, whatever the timer and Run now calls do.
SingleFlight == \A r \in Rows : handoff[r] # "none" => poll = "joining"

\* "Shutdown must not report drained merely because a provider future returned
\* while durable finalization is still pending", and "never starts another
\* occurrence after returning": from the return on, no handoff is between its
\* claim and its terminal write.
ShutdownDrains ==
    shut = "returned" =>
        \A r \in Rows : handoff[r] \notin {"claimed", "running", "returned", "settled"}

\* A row that is being run has one owner: it is ended by its own handoff, never
\* by the reconciliation of another poll, even when its lease has expired.
OwnerEndsRow ==
    [][\A r \in Rows :
        (handoff[r] \in {"claimed", "running", "returned"} /\ row'[r] # row[r])
            => (poll = "joining" /\ \A s \in Rows \ {r} : row'[s] = row[s])]_vars

Lifecycle == INSTANCE OccurrenceLifecycle
                WITH TaskOf <- [r \in Rows |-> r], phase <- row

\* Polls, Run now calls, failures and shutdown implement the plain life of a row.
ImplementsLifecycle == Lifecycle!Spec

\* "A busy handoff remains restart-safe because the normal planner re-exposes
\* untouched pending manual occurrences": while runners return and the timer
\* task lives, a queued run that was skipped or refused is still claimed.
QueuedRunAdvances ==
    RunnerFairness =>
        \A r \in Manual :
            row[r] = "Pending" ~>
                (row[r] # "Pending" \/ timer = "stopped" \/ lifecycle = "Shutdown")

\* "A shutdown either wins before a claim, or waits until the already-claimed
\* occurrence has been handed to the runner": no runner keeps it from stopping
\* further claims, however long it works.
ShutdownStopsClaims == shut = "requested" ~> lifecycle = "Shutdown"

\* shutdown() returns once the handoffs have finished.
ShutdownReturns == shut = "requested" ~> shut = "returned"
=============================================================================
