------------------------ MODULE TaskForeground_proofs ------------------------
(***************************************************************************)
(* Proofs about the foreground service, for any finite set of occurrences,  *)
(* any share of Run now calls, any limit and any number of store failures.  *)
(***************************************************************************)
EXTENDS TaskForeground, FiniteSetTheorems, TLAPS

USE ForegroundAssumption

-----------------------------------------------------------------------------
(* The inductive invariant.                                                  *)

Counted == {r \in Rows : handoff[r] \in {"running", "returned", "settled"}}

\* The types, without the bound on the count, which follows from Accounting.
BasicType ==
    /\ lifecycle \in {"New", "Running", "Shutdown"}
    /\ poll \in {"idle", "entered", "reconciled", "joining"}
    /\ timer \in {"new", "ticking", "polling", "sleeping", "stopped"}
    /\ started \in BOOLEAN
    /\ call \in [Manual -> {"none", "queued", "polling", "done"}]
    /\ handoff \in [Rows -> Handoffs]
    /\ shut \in {"none", "requested", "reading", "deciding", "waiting", "returned"}
    /\ woken \in BOOLEAN
    /\ row \in [Rows -> RowStates]
    /\ expired \in SUBSET Rows
    /\ failures \in 0..MaxFailures

\* active_handoffs counts the handoffs from the gate to the terminal write.
Accounting == active = Cardinality(Counted)

\* Between claim and count the service cannot be shut down; after the gate of
\* shutdown() it is.
GateHolds ==
    /\ \A r \in Rows : handoff[r] = "claimed" => lifecycle = "Running"
    /\ shut \in {"reading", "deciding", "waiting", "returned"} => lifecycle = "Shutdown"

\* Only a running row has an expired lease.
ExpiredRunning == \A r \in expired : row[r] = "Running"

Inv == /\ BasicType /\ Accounting /\ SingleFlight /\ GateHolds
       /\ ExpiredRunning /\ ShutdownDrains

\* The counted handoffs are finitely many.
LEMMA CountedFinite == IsFiniteSet(Counted) /\ Cardinality(Counted) \in Nat
BY FS_Subset, FS_CardinalityType DEF Counted

\* A handoff that moves between states that are both counted, or both not, does
\* not change the set.
LEMMA CountSame ==
    ASSUME BasicType, NEW r \in Rows, NEW to \in Handoffs, HandoffGoes(r, to),
           handoff[r] \in {"running", "returned", "settled"}
               <=> to \in {"running", "returned", "settled"}
    PROVE  Counted' = Counted
BY DEF BasicType, HandoffGoes, Counted

\* Counting one more handoff adds one to the cardinality.
LEMMA CountUp ==
    ASSUME Inv, NEW r \in Rows, handoff[r] = "claimed", HandoffGoes(r, "running"),
           active' = active + 1
    PROVE  Accounting'
<1>1. Counted' = Counted \cup {r} /\ r \notin Counted
    BY DEF Inv, BasicType, HandoffGoes, Counted
<1>2. Cardinality(Counted \cup {r}) = Cardinality(Counted) + 1
    BY <1>1, CountedFinite, FS_AddElement
<1>3. QED
    BY <1>1, <1>2 DEF Inv, Accounting

\* Dropping the guard of one handoff takes one away; the count was not zero.
LEMMA CountDown ==
    ASSUME Inv, NEW r \in Rows, handoff[r] = "settled", HandoffGoes(r, "uncounted"),
           active' = IF active > 0 THEN active - 1 ELSE 0
    PROVE  Accounting'
<1>1. Counted' = Counted \ {r} /\ r \in Counted
    BY DEF Inv, BasicType, HandoffGoes, Counted
<1>2. Cardinality(Counted \ {r}) = Cardinality(Counted) - 1
    BY <1>1, CountedFinite, FS_RemoveElement
<1>3. active > 0
    BY <1>1, CountedFinite, FS_EmptySet DEF Inv, Accounting
<1>4. QED
    BY <1>1, <1>2, <1>3 DEF Inv, Accounting

\* A count of zero means that no handoff is counted.
LEMMA ZeroMeansNone ==
    ASSUME Inv, active = 0
    PROVE  Counted = {}
BY CountedFinite, FS_EmptySet DEF Inv, Accounting

\* The terminal write keeps the types and the expired rows running.
LEMMA SettleRowType ==
    ASSUME Inv, NEW r \in Rows, SettleRow(r)
    PROVE  /\ row' \in [Rows -> RowStates] /\ expired' \in SUBSET Rows
           /\ failures' \in 0..MaxFailures /\ ExpiredRunning'
BY DEF Inv, BasicType, SettleRow, StoreFails, ExpiredRunning, RowStates, store

-----------------------------------------------------------------------------
(* The steps.                                                                *)

\* The timer and the Run now calls.
LEMMA CallerStep ==
    ASSUME Inv, TimerStep \/ \E r \in Rows : CallStep(r)
    PROVE  Inv'
<1> USE DEF Inv, service, store
<1>1. handoff' = handoff /\ active' = active /\ Counted' = Counted
    BY DEF TimerStep, TimerStarts, TimerPolls, TimerSkips, TimerTicks, CallStep,
           QueueManual, CallPolls, CallSkips, EnterPoll, Counted
<1>2. BasicType'
    <2>1. CASE TimerStep
        BY <2>1 DEF BasicType, TimerStep, TimerStarts, TimerPolls, TimerSkips,
                    TimerTicks, EnterPoll
    <2>2. ASSUME NEW r \in Rows, CallStep(r)
          PROVE  BasicType'
        BY <2>2 DEF BasicType, CallStep, QueueManual, CallPolls, CallSkips, EnterPoll,
                    RowStates
    <2>3. QED
        BY <2>1, <2>2
<1>3. SingleFlight' /\ GateHolds' /\ ShutdownDrains'
    BY <1>1 DEF TimerStep, TimerStarts, TimerPolls, TimerSkips, TimerTicks, CallStep,
           QueueManual, CallPolls, CallSkips, EnterPoll, CanPoll, SingleFlight,
           GateHolds, ShutdownDrains
<1>4. ExpiredRunning'
    BY DEF BasicType, TimerStep, TimerStarts, TimerPolls, TimerSkips, TimerTicks,
           CallStep, QueueManual, CallPolls, CallSkips, EnterPoll, ExpiredRunning
<1>5. QED
    BY <1>1, <1>2, <1>3, <1>4 DEF Accounting

\* Leaving a poll keeps the types.
LEMMA LeaveType ==
    ASSUME BasicType, NEW ok \in BOOLEAN, LeavePoll(ok)
    PROVE  /\ timer' \in {"new", "ticking", "polling", "sleeping", "stopped"}
           /\ started' \in BOOLEAN
           /\ call' \in [Manual -> {"none", "queued", "polling", "done"}]
           /\ poll' = "idle" /\ UNCHANGED <<lifecycle, handoff, active, shut, woken>>
BY DEF BasicType, LeavePoll

\* The poll itself: no handoff is under way when it reconciles or plans.
LEMMA PollStepInv ==
    ASSUME Inv, PollStep
    PROVE  Inv'
<1> USE DEF Inv
<1>1. CASE PollFails
    <2>1. LeavePoll(FALSE) /\ poll # "joining" /\ UNCHANGED <<row, expired>>
        BY <1>1 DEF PollFails
    <2>2. failures' \in 0..MaxFailures
        BY <1>1 DEF PollFails, StoreFails, BasicType
    <2>3. QED
        BY <2>1, <2>2, LeaveType DEF BasicType, Accounting, Counted, SingleFlight, GateHolds,
                               ExpiredRunning, ShutdownDrains
<1>2. CASE PollJoins
    <2>1. LeavePoll(TRUE) /\ UNCHANGED store /\ \A r \in Rows : handoff[r] = "none"
        BY <1>2 DEF PollJoins
    <2>2. QED
        BY <2>1, LeaveType DEF BasicType, Accounting, Counted, SingleFlight, GateHolds,
                               ExpiredRunning, ShutdownDrains, store
<1>3. CASE Reconcile \/ Plan
    <2>1. \A r \in Rows : handoff[r] = "none"
        BY <1>3 DEF Reconcile, Plan, SingleFlight
    <2>2. /\ handoff' \in [Rows -> Handoffs]
          /\ \A r \in Rows : handoff'[r] \in {"none", "ready"}
        BY <1>3, <2>1 DEF Reconcile, Plan, Handoffs, BasicType
    <2>3. Counted = {} /\ Counted' = {}
        BY <2>1, <2>2 DEF Counted
    <2>4. UNCHANGED <<lifecycle, active, timer, started, call, shut, woken, failures>>
        BY <1>3 DEF Reconcile, Plan
    <2>5. BasicType'
        BY <1>3, <2>2, <2>4 DEF Reconcile, Plan, BasicType, RowStates
    <2>6. SingleFlight'
        BY <1>3, <2>1, <2>2 DEF Reconcile, Plan, SingleFlight
    <2>7. ExpiredRunning'
        BY <1>3 DEF Reconcile, Plan, ExpiredRunning, BasicType
    <2>8. QED
        BY <2>2, <2>3, <2>4, <2>5, <2>6, <2>7
           DEF Accounting, GateHolds, ShutdownDrains
<1>4. QED
    BY <1>1, <1>2, <1>3 DEF PollStep

\* A handoff: only its claim needs a running service, only its count counts.
LEMMA HandoffStepInv ==
    ASSUME Inv, NEW r \in Rows,
           HandoffStep(r) \/ RunnerReturns(r) \/ RunnerLate(r) \/ Expire(r)
    PROVE  Inv'
<1> USE DEF Inv, store, service
<1>1. CASE Claim(r)
    <2>1. Counted' = Counted
        BY <1>1, CountSame DEF Claim, Handoffs
    <2>2. QED
        BY <1>1, <2>1 DEF Claim, HandoffGoes, BasicType, Handoffs, RowStates, Accounting,
                          SingleFlight, GateHolds, ExpiredRunning, ShutdownDrains
<1>2. CASE NoClaim(r)
    <2>1. Counted' = Counted
        BY <1>2, CountSame DEF NoClaim, Handoffs
    <2>2. QED
        BY <1>2, <2>1 DEF NoClaim, StoreFails, HandoffGoes, BasicType, Handoffs,
                  Accounting, SingleFlight, GateHolds, ExpiredRunning, ShutdownDrains
<1>3. CASE Count(r)
    <2>1. Accounting'
        BY <1>3, CountUp DEF Count
    <2>2. QED
        BY <1>3, <2>1 DEF Count, HandoffGoes, BasicType, Handoffs,
                  SingleFlight, GateHolds, ExpiredRunning, ShutdownDrains
<1>4. CASE Unbound(r)
    <2>1. Counted' = Counted
        BY <1>4, CountSame DEF Unbound, Handoffs
    <2>2. QED
        BY <1>4, <2>1, SettleRowType DEF Unbound, HandoffGoes, BasicType, Handoffs,
                  Accounting, SingleFlight, GateHolds, ShutdownDrains
<1>5. CASE RunnerReturns(r)
    <2>1. Counted' = Counted
        BY <1>5, CountSame DEF RunnerReturns, Handoffs
    <2>2. QED
        BY <1>5, <2>1 DEF RunnerReturns, HandoffGoes, BasicType, Handoffs, Accounting,
                  SingleFlight, GateHolds, ExpiredRunning, ShutdownDrains
<1>6. CASE Settle(r)
    <2>1. Counted' = Counted
        BY <1>6, CountSame DEF Settle, Handoffs
    <2>2. QED
        BY <1>6, <2>1, SettleRowType DEF Settle, HandoffGoes, BasicType, Handoffs,
                  Accounting, SingleFlight, GateHolds, ShutdownDrains
<1>7. CASE Uncount(r)
    <2>1. Accounting'
        BY <1>7, CountDown DEF Uncount
    <2>2. QED
        BY <1>7, <2>1 DEF Uncount, HandoffGoes, BasicType, Handoffs,
                  SingleFlight, GateHolds, ExpiredRunning, ShutdownDrains
<1>8. CASE NotifyWaiters(r)
    <2>1. Counted' = Counted
        BY <1>8, CountSame DEF NotifyWaiters, Handoffs
    <2>2. QED
        BY <1>8, <2>1 DEF NotifyWaiters, HandoffGoes, BasicType, Handoffs, Accounting,
                  SingleFlight, GateHolds, ExpiredRunning, ShutdownDrains
<1>9. CASE RunnerLate(r) \/ Expire(r)
    BY <1>9 DEF RunnerLate, Expire, BasicType, RowStates, Accounting, Counted,
                SingleFlight, GateHolds, ExpiredRunning, ShutdownDrains
<1>10. QED
    BY <1>1, <1>2, <1>3, <1>4, <1>5, <1>6, <1>7, <1>8, <1>9 DEF HandoffStep

\* The teardown: it returns only when no handoff is claimed or counted.
LEMMA ShutdownStepInv ==
    ASSUME Inv, RequestShutdown \/ ShutdownStep
    PROVE  Inv'
<1> USE DEF Inv, store, service
<1>1. CASE Close
    BY <1>1 DEF Close, GateFree, BasicType, Accounting, Counted, SingleFlight,
                GateHolds, ExpiredRunning, ShutdownDrains
<1>2. CASE ReadCount
    <2>1. CASE active = 0
        BY <1>2, <2>1, ZeroMeansNone
           DEF ReadCount, BasicType, Accounting, Counted, SingleFlight, GateHolds,
               ExpiredRunning, ShutdownDrains
    <2>2. CASE active # 0
        BY <1>2, <2>2
           DEF ReadCount, BasicType, Accounting, Counted, SingleFlight, GateHolds,
               ExpiredRunning, ShutdownDrains
    <2>3. QED
        BY <2>1, <2>2
<1>3. CASE RequestShutdown \/ AwaitFinished \/ Wake
    BY <1>3 DEF RequestShutdown, AwaitFinished, Wake, BasicType, Accounting, Counted,
                SingleFlight, GateHolds, ExpiredRunning, ShutdownDrains
<1>4. QED
    BY <1>1, <1>2, <1>3 DEF ShutdownStep

\* Every step keeps the invariant.
LEMMA Invariance == Spec => []Inv
<1>1. Init => Inv
    <2>1. Init => Counted = {}
        BY DEF Init, Counted
    <2>2. Cardinality({}) = 0
        BY FS_EmptySet
    <2>3. Init => BasicType
        <3> SUFFICES ASSUME Init
                     PROVE  BasicType
            OBVIOUS
        <3>1. call \in [Manual -> {"none", "queued", "polling", "done"}]
            BY DEF Init
        <3>2. handoff \in [Rows -> Handoffs] /\ row \in [Rows -> RowStates]
            BY DEF Init, Handoffs, RowStates
        <3>3. failures \in 0..MaxFailures
            BY ForegroundAssumption DEF Init
        <3>4. expired \in SUBSET Rows
            BY DEF Init
        <3>5. QED
            BY <3>1, <3>2, <3>3, <3>4 DEF Init, BasicType
    <2>4. Init => Accounting
        BY <2>1, <2>2 DEF Init, Accounting
    <2>5. QED
        BY <2>3, <2>4 DEF Init, Inv, SingleFlight, GateHolds, ExpiredRunning,
                          ShutdownDrains
<1>2. Inv /\ [Next]_vars => Inv'
    <2>1. ASSUME Inv, UNCHANGED vars
          PROVE  Inv'
        BY <2>1 DEF Inv, vars, service, store, BasicType, Accounting, Counted,
                    SingleFlight, GateHolds, ExpiredRunning, ShutdownDrains
    <2>2. QED
        BY <2>1, CallerStep, PollStepInv, HandoffStepInv, ShutdownStepInv DEF Next
<1>3. QED
    BY <1>1, <1>2, PTL DEF Spec

-----------------------------------------------------------------------------
(* The results.                                                              *)

\* The service's state is well formed; the count never exceeds the rows.
THEOREM TypeCorrect == Spec => []TypeOK
<1>1. Inv => TypeOK
    <2> SUFFICES ASSUME Inv
                 PROVE  TypeOK
        OBVIOUS
    <2>1. Cardinality(Counted) <= Cardinality(Rows) /\ Cardinality(Rows) \in Nat
        BY FS_Subset, FS_CardinalityType DEF Counted
    <2>2. active \in 0..Cardinality(Rows)
        BY <2>1, CountedFinite DEF Inv, Accounting
    <2>3. QED
        BY <2>2 DEF Inv, BasicType, TypeOK
<1>2. QED
    BY <1>1, Invariance, PTL

\* One poll at a time: handoffs live inside it.
THEOREM OnePollInFlight == Spec => []SingleFlight
BY Invariance, PTL DEF Inv

\* A shutdown that returned leaves no claimed, running or unwritten handoff, and
\* none begins later.
THEOREM ShutdownAlwaysDrains == Spec => []ShutdownDrains
BY Invariance, PTL DEF Inv

\* A row that is being run is ended by its own handoff only.
THEOREM OnlyOwnerEndsRow == Spec => OwnerEndsRow
<1> DEFINE Owned(r) == handoff[r] \in {"claimed", "running", "returned"}
           Alone(r) == poll = "joining" /\ \A s \in Rows \ {r} : row'[s] = row[s]
<1>1. ASSUME Inv, [Next]_vars, NEW r \in Rows, Owned(r), row'[r] # row[r]
      PROVE  Alone(r)
    <2> USE DEF service, store
    <2>1. poll = "joining"
        BY <1>1 DEF Inv, SingleFlight
    <2>2. \E s \in Rows : \E to : row' = [row EXCEPT ![s] = to]
        <3>1. ~(Reconcile \/ Plan)
            BY <2>1 DEF Reconcile, Plan
        <3>2. ~(UNCHANGED row)
            BY <1>1
        <3>3. PICK s \in Rows : CallStep(s) \/ HandoffStep(s) \/ RunnerLate(s)
            BY <1>1, <3>1, <3>2
               DEF Next, TimerStep, TimerStarts, TimerPolls, TimerSkips, TimerTicks,
                   PollStep, PollFails, PollJoins, RequestShutdown, ShutdownStep,
                   Close, ReadCount, AwaitFinished, Wake, RunnerReturns, Expire, vars
        <3>4. \E to : row' = [row EXCEPT ![s] = to]
            BY <3>2, <3>3
               DEF CallStep, QueueManual, CallPolls, CallSkips, HandoffStep, Claim,
                   NoClaim, Count, Unbound, Settle, SettleRow, Uncount, NotifyWaiters,
                   RunnerLate
        <3>5. QED
            BY <3>4
    <2>3. PICK s \in Rows : \E to : row' = [row EXCEPT ![s] = to]
        BY <2>2
    <2>4. s = r
        BY <1>1, <2>3 DEF Inv, BasicType
    <2>5. QED
        BY <2>1, <2>3, <2>4 DEF Inv, BasicType
<1>2. Inv /\ [Next]_vars =>
        \A r \in Rows : Owned(r) /\ row'[r] # row[r] => Alone(r)
    BY <1>1
<1>3. QED
    BY <1>2, Invariance, PTL DEF Spec, OwnerEndsRow

-----------------------------------------------------------------------------
(* The service implements the life of a row.                                 *)

\* A step that changes rows from one phase to another is a move of the changed
\* rows.
LEMMA MoveChanged ==
    ASSUME row \in [Rows -> RowStates], row' \in [Rows -> RowStates],
           NEW from, NEW to,
           \A r \in Rows : row'[r] # row[r] => row[r] = from /\ row'[r] = to
    PROVE  Lifecycle!Move(Lifecycle!Changed, from, to)
BY DEF Lifecycle!Move, Lifecycle!Changed

\* Entering and abandoning rows are steps of the abstract specification.
LEMMA BatchImplements ==
    ASSUME row \in [Rows -> RowStates], row' \in [Rows -> RowStates],
           \/ \A r \in Rows : row'[r] # row[r]
                                  => row[r] = "Absent" /\ row'[r] = "Pending"
           \/ \A r \in Rows : row'[r] # row[r]
                                  => row[r] = "Running" /\ row'[r] = "OutcomeUnknown"
    PROVE  Lifecycle!Next
BY MoveChanged DEF Lifecycle!Next, Lifecycle!Enter, Lifecycle!Abandon

\* A claim is the abstract start: inside the capacity, alone for its task.
LEMMA ClaimImplements ==
    ASSUME BasicType, NEW r \in Rows, Claim(r)
    PROVE  Lifecycle!Next
<1>1. Lifecycle!Running = RunningRows
    BY DEF Lifecycle!Running, RunningRows
<1>2. Lifecycle!Cardinality(Lifecycle!Running) = Cardinality(RunningRows)
    BY <1>1 DEF Lifecycle!Cardinality, Cardinality
<1>3. \A q \in Lifecycle!Running : [x \in Rows |-> x][q] # [x \in Rows |-> x][r]
    BY <1>1 DEF Claim, RunningRows
<1>4. Lifecycle!Move({r}, "Pending", "Running")
    BY DEF Claim, Lifecycle!Move, BasicType
<1>5. Lifecycle!Start(r)
    BY <1>2, <1>3, <1>4 DEF Claim, Lifecycle!Start
<1>6. QED
    BY <1>5 DEF Lifecycle!Next

\* The terminal write of one handoff succeeds, abandons, or changes nothing.
LEMMA SettleImplements ==
    ASSUME BasicType, NEW r \in Rows, SettleRow(r), row' \in [Rows -> RowStates]
    PROVE  Lifecycle!Next \/ UNCHANGED row
<1>1. CASE row' = [row EXCEPT ![r] = "Completed"] /\ row[r] = "Running"
    <2>1. Lifecycle!Move({r}, "Running", "Completed")
        BY <1>1 DEF Lifecycle!Move, BasicType
    <2>2. QED
        BY <2>1 DEF Lifecycle!Succeed, Lifecycle!Next
<1>2. CASE row' = [row EXCEPT ![r] = "OutcomeUnknown"] /\ row[r] = "Running"
    BY <1>2, BatchImplements DEF BasicType
<1>3. QED
    BY <1>1, <1>2 DEF SettleRow, store

\* Every step maps to a step of the abstract specification or to a stutter.
LEMMA StepImplements ==
    ASSUME Inv, Inv', [Next]_vars
    PROVE  Lifecycle!Next \/ UNCHANGED row
<1> USE DEF service, store
<1>0. BasicType /\ row \in [Rows -> RowStates] /\ row' \in [Rows -> RowStates]
    BY DEF Inv, BasicType
<1>1. CASE Reconcile
    BY <1>0, <1>1, BatchImplements DEF Reconcile, Inv, ExpiredRunning
<1>2. CASE Plan
    BY <1>0, <1>2, BatchImplements DEF Plan
<1>3. ASSUME NEW r \in Rows, QueueManual(r)
      PROVE  Lifecycle!Next
    BY <1>0, <1>3, BatchImplements DEF QueueManual
<1>4. ASSUME NEW r \in Rows, Claim(r)
      PROVE  Lifecycle!Next
    BY <1>0, <1>4, ClaimImplements
<1>5. ASSUME NEW r \in Rows, Settle(r) \/ Unbound(r)
      PROVE  Lifecycle!Next \/ UNCHANGED row
    BY <1>0, <1>5, SettleImplements DEF Settle, Unbound
<1>6. ASSUME NEW r \in Rows, RunnerLate(r)
      PROVE  Lifecycle!Next
    BY <1>0, <1>6, BatchImplements DEF RunnerLate
<1>7. CASE \/ TimerStep \/ PollFails \/ PollJoins \/ RequestShutdown
           \/ ShutdownStep \/ UNCHANGED vars
    BY <1>7 DEF TimerStep, TimerStarts, TimerPolls, TimerSkips, TimerTicks, PollFails,
                PollJoins, RequestShutdown, ShutdownStep, Close, ReadCount,
                AwaitFinished, Wake, vars
<1>8. ASSUME NEW r \in Rows,
             \/ CallPolls(r) \/ CallSkips(r) \/ NoClaim(r) \/ Count(r) \/ Uncount(r)
             \/ NotifyWaiters(r) \/ RunnerReturns(r) \/ Expire(r)
      PROVE  UNCHANGED row
    BY <1>8 DEF CallPolls, CallSkips, NoClaim, Count, Uncount, NotifyWaiters,
                RunnerReturns, Expire
<1>9. QED
    BY <1>1, <1>2, <1>3, <1>4, <1>5, <1>6, <1>7, <1>8
       DEF Next, PollStep, CallStep, HandoffStep

\* Polls, Run now calls, failing store calls and the shutdown implement the
\* plain life of a row: entered once, started once in the capacity, ended once.
THEOREM ForegroundImplementsLifecycle == Spec => ImplementsLifecycle
<1>1. Init => Lifecycle!Init
    BY DEF Init, Lifecycle!Init
<1>2. Inv /\ Inv' /\ [Next]_vars => [Lifecycle!Next]_row
    BY StepImplements
<1>3. QED
    BY <1>1, <1>2, Invariance, PTL DEF Spec, ImplementsLifecycle, Lifecycle!Spec
-----------------------------------------------------------------------------
(* A shutdown that waits, and the one that waits for ever.                   *)

\* Handoffs that will still call notify_waiters.
Telling == {"running", "returned", "settled", "uncounted"}

\* A shutdown that waits has been woken, or somebody will do so.
WillWake ==
    shut = "waiting" => woken \/ \E r \in Rows : handoff[r] \in Telling

\* The wait is lost only where the Notified future is created after the last
\* handoff has notified, never by an order of later steps; then the count that it
\* waits for is zero already, and it stays lost (the finding behind
\* ShutdownReturns).
WakeLostOnlyByWindow ==
    [][/\ WillWake /\ ~WillWake' => AwaitFinished
       /\ ~WillWake => active = 0 /\ ~WillWake']_vars

\* A step of a handoff or of its runner, while the service is shut down: it goes
\* on to notify, or has done so.
LEMMA HandoffWakes ==
    ASSUME Inv, shut = "waiting", NEW r \in Rows,
           HandoffStep(r) \/ RunnerReturns(r) \/ RunnerLate(r) \/ Expire(r)
    PROVE  WillWake' <=> WillWake
<1>1. lifecycle = "Shutdown" /\ handoff \in [Rows -> Handoffs] /\ woken \in BOOLEAN
    BY DEF Inv, BasicType, GateHolds
<1>2. handoff[r] # "claimed"
    BY <1>1 DEF Inv, GateHolds
<1>3. ~Claim(r) /\ ~Count(r) /\ ~Unbound(r)
    BY <1>1, <1>2 DEF Claim, Count, Unbound
<1>4. ASSUME NEW to \in Handoffs, HandoffGoes(r, to), UNCHANGED <<shut, woken>>,
             handoff[r] \in Telling <=> to \in Telling
      PROVE  WillWake' <=> WillWake
    BY <1>1, <1>4 DEF HandoffGoes, WillWake
<1>5. CASE NoClaim(r)
    <2>1. HandoffGoes(r, "none") /\ UNCHANGED <<shut, woken>> /\ handoff[r] = "ready"
        BY <1>5 DEF NoClaim
    <2>2. QED
        BY <1>4, <2>1 DEF Handoffs, Telling
<1>6. CASE RunnerReturns(r)
    <2>1. /\ HandoffGoes(r, "returned") /\ UNCHANGED <<shut, woken>>
          /\ handoff[r] = "running"
        BY <1>6 DEF RunnerReturns
    <2>2. QED
        BY <1>4, <2>1 DEF Handoffs, Telling
<1>7. CASE Settle(r)
    <2>1. /\ HandoffGoes(r, "settled") /\ UNCHANGED <<shut, woken>>
          /\ handoff[r] = "returned"
        BY <1>7 DEF Settle
    <2>2. QED
        BY <1>4, <2>1 DEF Handoffs, Telling
<1>8. CASE Uncount(r)
    <2>1. /\ HandoffGoes(r, "uncounted") /\ UNCHANGED <<shut, woken>>
          /\ handoff[r] = "settled"
        BY <1>8 DEF Uncount
    <2>2. QED
        BY <1>4, <2>1 DEF Handoffs, Telling
<1>9. CASE NotifyWaiters(r)
    <2>1. woken' /\ handoff[r] \in Telling
        BY <1>9 DEF NotifyWaiters, Telling
    <2>2. QED
        BY <2>1 DEF WillWake
<1>10. CASE RunnerLate(r) \/ Expire(r)
    BY <1>10 DEF RunnerLate, Expire, service, WillWake
<1>11. QED
    BY <1>3, <1>5, <1>6, <1>7, <1>8, <1>9, <1>10 DEF HandoffStep

\* The polls of a service that is shut down touch no handoff that was claimed.
LEMMA PollWakes ==
    ASSUME Inv, shut = "waiting",
           TimerStep \/ PollStep \/ \E r \in Rows : CallStep(r)
    PROVE  WillWake' <=> WillWake
<1> USE DEF service, store
<1>1. UNCHANGED <<shut, woken>>
    BY DEF TimerStep, TimerStarts, TimerPolls, TimerSkips, TimerTicks, EnterPoll,
           PollStep, Reconcile, Plan, PollFails, PollJoins, LeavePoll,
           CallStep, QueueManual, CallPolls, CallSkips
<1>2. CASE Reconcile \/ Plan
    <2>1. \A r \in Rows : handoff[r] = "none"
        BY <1>2 DEF Reconcile, Plan, Inv, SingleFlight
    <2>2. \A r \in Rows : handoff'[r] \in {"none", "ready"}
        BY <1>2, <2>1 DEF Reconcile, Plan
    <2>3. QED
        BY <1>1, <2>1, <2>2 DEF WillWake, Telling
<1>3. CASE ~(Reconcile \/ Plan)
    <2>1. UNCHANGED handoff
        BY <1>3 DEF TimerStep, TimerStarts, TimerPolls, TimerSkips, TimerTicks,
                    EnterPoll, PollStep, PollFails, PollJoins, LeavePoll,
                    CallStep, QueueManual, CallPolls, CallSkips
    <2>2. QED
        BY <1>1, <2>1 DEF WillWake
<1>4. QED
    BY <1>2, <1>3

\* Once it waits, shutdown() is woken by the last handoff or it never will be:
\* the one window is between the count and the Notified future.
THEOREM WakeLostInOneWindow == Spec => WakeLostOnlyByWindow
<1>1. Inv /\ [Next]_vars =>
        [/\ WillWake /\ ~WillWake' => AwaitFinished
         /\ ~WillWake => active = 0 /\ ~WillWake']_vars
    <2> SUFFICES ASSUME Inv, [Next]_vars
                 PROVE  /\ WillWake /\ ~WillWake' => AwaitFinished
                        /\ ~WillWake => active = 0 /\ ~WillWake'
        OBVIOUS
    <2>1. ASSUME ~WillWake
          PROVE  active = 0
        <3>1. Counted = {}
            BY <2>1 DEF WillWake, Counted, Telling
        <3>2. QED
            BY <3>1, FS_EmptySet DEF Inv, Accounting
    <2>2. CASE shut = "waiting"
        <3>1. ASSUME Wake
              PROVE  WillWake
            BY <3>1 DEF Wake, WillWake
        <3>2. ASSUME Wake
              PROVE  WillWake'
            BY <3>2 DEF Wake, WillWake
        <3>3. ~RequestShutdown /\ ~Close /\ ~ReadCount /\ ~AwaitFinished
            BY <2>2 DEF RequestShutdown, Close, ReadCount, AwaitFinished
        <3>4. CASE UNCHANGED vars
            BY <2>1, <3>4 DEF vars, service, WillWake
        <3>5. QED
            BY <2>1, <2>2, <3>1, <3>2, <3>3, <3>4, HandoffWakes, PollWakes
               DEF Next, ShutdownStep
    <2>3. CASE shut # "waiting"
        <3>1. WillWake
            BY <2>3 DEF WillWake
        <3>2. ASSUME ~AwaitFinished
              PROVE  shut' # "waiting"
            BY <2>3, <3>2
               DEF Next, TimerStep, TimerStarts, TimerPolls, TimerSkips, TimerTicks,
                   EnterPoll, PollStep, Reconcile, Plan, PollFails, PollJoins, LeavePoll,
                   CallStep, QueueManual, CallPolls, CallSkips, RequestShutdown,
                   ShutdownStep, Close, ReadCount, Wake, HandoffStep, Claim, NoClaim,
                   Count, Unbound, Settle, Uncount, NotifyWaiters, RunnerReturns,
                   RunnerLate, Expire, service, vars
        <3>3. QED
            BY <3>1, <3>2 DEF WillWake
    <2>4. QED
        BY <2>2, <2>3
<1>2. QED
    BY <1>1, Invariance, PTL DEF Spec, WakeLostOnlyByWindow
===============================================================================
