------------------------------ MODULE TaskStore ------------------------------
(***************************************************************************)
(* The durable store of ShellX Tasks (task_store.rs, task_store_occurrences *)
(* .rs, task_store_persistence.rs, task_due_runner.rs).                     *)
(*                                                                         *)
(* Every public operation of the Rust store is one `transaction`: clone the *)
(* state, apply the operation, validate the whole clone, write it to disk   *)
(* and only then publish it.  An operation is therefore one action here,    *)
(* and a failed validation is a conjunct of the action's guard: the state   *)
(* does not change and the caller sees an error.                            *)
(*                                                                         *)
(* The state that is kept in the file is `defs`, `occ`, `terminal` and      *)
(* `attention`.  `held` is the volatile knowledge of the running process:   *)
(* which lease (attempt number) a runner of this process was handed by the  *)
(* claim.  `now` is the wall clock that callers read; it may be set back.   *)
(***************************************************************************)
EXTENDS Integers, FiniteSets

CONSTANTS
    NumTasks,       \* task definitions, numbered in the order of their ids
    MaxRevision,    \* bound: revisions per definition
    MaxTime,        \* bound: the last instant of the clock
    MaxRollbacks,   \* bound: how often the wall clock may be set back
    MaxManual,      \* bound: the operator asks only while fewer rows exist
    LeaseDuration,  \* how long a claim or a heartbeat keeps the lease
    Grace,          \* ON_TIME_GRACE_MS
    GlobalLimit,    \* the caller's global active-run limit
    Trigger,        \* Trigger[t]: the scheduled instants of t ({} is Manual)
    Policy          \* Policy[t]: the missed-run policy of t

Tasks     == 1..NumTasks
Revisions == 1..MaxRevision
Times     == 1..MaxTime
Policies  == {"Skip", "RunOnceWhenAvailable", "NeedsAttention"}

ASSUME ConstantsAssumption ==
    /\ NumTasks \in Nat /\ MaxRevision \in Nat \ {0} /\ MaxTime \in Nat \ {0}
    /\ MaxRollbacks \in Nat /\ MaxManual \in Nat /\ LeaseDuration \in Nat \ {0} /\ Grace \in Nat
    /\ GlobalLimit \in Nat \ {0}
    /\ Trigger \in [Tasks -> SUBSET Times]
    /\ Policy \in [Tasks -> Policies]

\* deterministic_occurrence_id: the row is named by what it is scheduled for.
OccId == [task : Tasks, revision : Revisions, at : Times]

Statuses   == {"absent", "active", "paused", "deleted"}
OccStates  == {"Absent", "Pending", "Running", "Completed", "OutcomeUnknown"}
Finished   == {"Completed", "OutcomeUnknown"}
Sources    == {"missedSchedule", "occurrenceOutcomeUnknown", "providerTerminal"}
Verdicts   == {"Started", "Succeeded", "Failed", "OutcomeUnknown"}

Definition == [status : Statuses, revision : 0..MaxRevision,
               created : 0..MaxTime, watermark : 0..MaxTime]
Occurrence == [state : OccStates, attempts : Nat,
               claimed : 0..MaxTime, expires : 0..MaxTime]
Receipt    == [kind : Finished, revision : Revisions]
Fact       == [source : Sources, about : OccId]

NoDefinition == [status |-> "absent", revision |-> 0,
                 created |-> 0, watermark |-> 0]
NoOccurrence == [state |-> "Absent", attempts |-> 0,
                 claimed |-> 0, expires |-> 0]
NoReceipt    == [kind |-> "none", revision |-> 0]

VARIABLES
    defs,       \* definitions with their current revision and its watermark
    occ,        \* occurrences; an absent row is NoOccurrence
    terminal,   \* terminal_receipts: the detached terminal receipt of a row
    attention,  \* the attention facts that were opened
    held,       \* held[o]: attempt number of the lease a live runner holds, or 0
    up,         \* the store is open in a running process
    now,        \* wall clock
    rollbacks   \* how often the clock was set back

vars == <<defs, occ, terminal, attention, held, up, now, rollbacks>>

durable == <<defs, occ, terminal, attention>>

TypeOK ==
    /\ defs \in [Tasks -> Definition]
    /\ occ \in [OccId -> Occurrence]
    /\ terminal \in [OccId -> Receipt \cup {NoReceipt}]
    /\ attention \subseteq Fact
    /\ held \in [OccId -> Nat]
    /\ up \in BOOLEAN
    /\ now \in Times
    /\ rollbacks \in 0..MaxRollbacks

Init ==
    /\ defs = [t \in Tasks |-> NoDefinition]
    /\ occ = [o \in OccId |-> NoOccurrence]
    /\ terminal = [o \in OccId |-> NoReceipt]
    /\ attention = {}
    /\ held = [o \in OccId |-> 0]
    /\ up = TRUE
    /\ now = 1
    /\ rollbacks = 0

-----------------------------------------------------------------------------
(* Definitions: create, revise, pause, resume, delete.                       *)

\* active_definition: a soft-deleted definition is not found.
Defined(t) == defs[t].status \in {"active", "paused"}

\* A new immutable revision starts its own schedule scope: the planner's
\* watermark of a scope it never evaluated is the creation time.
NewRevision(number, status) ==
    [status |-> status, revision |-> number, created |-> now, watermark |-> now]

Create(t) ==
    /\ up
    /\ defs[t].status = "absent"
    /\ \E status \in {"active", "paused"} :
           defs' = [defs EXCEPT ![t] = NewRevision(1, status)]
    /\ UNCHANGED <<occ, terminal, attention, held, up, now, rollbacks>>

\* The compare-and-set on the current revision: a stale editor gets Conflict.
Revise(t, expected) ==
    /\ up
    /\ Defined(t)
    /\ expected = defs[t].revision
    /\ expected < MaxRevision
    /\ defs' = [defs EXCEPT ![t] = NewRevision(expected + 1, defs[t].status)]
    /\ UNCHANGED <<occ, terminal, attention, held, up, now, rollbacks>>

SetPaused(t, status) ==
    /\ up
    /\ Defined(t)
    /\ defs[t].status # status
    /\ defs' = [defs EXCEPT ![t].status = status]
    /\ UNCHANGED <<occ, terminal, attention, held, up, now, rollbacks>>

\* Soft delete: the rows, receipts and attention of the task stay.
Delete(t) ==
    /\ up
    /\ Defined(t)
    /\ defs' = [defs EXCEPT ![t].status = "deleted"]
    /\ UNCHANGED <<occ, terminal, attention, held, up, now, rollbacks>>

-----------------------------------------------------------------------------
(* Occurrences come from the operator (run now) or from the due planner.     *)

PendingRow == [NoOccurrence EXCEPT !.state = "Pending"]

CurrentOcc(t, at) == [task |-> t, revision |-> defs[t].revision, at |-> at]

CreateManual(t, expected) ==
    LET o == CurrentOcc(t, now) IN
    /\ up
    /\ defs[t].status = "active"
    /\ expected = defs[t].revision
    /\ occ[o].state = "Absent"
    /\ Cardinality({r \in OccId : occ[r].state # "Absent"}) < MaxManual
    /\ occ' = [occ EXCEPT ![o] = PendingRow]
    /\ UNCHANGED <<defs, terminal, attention, held, up, now, rollbacks>>

ActiveRuns == {o \in OccId : occ[o].state = "Running"}

IsCurrent(o) == o.revision = defs[o.task].revision

\* pending_ready_occurrence: only rows of the current revision count.
PendingReady(t) ==
    {o \in OccId : /\ o.task = t /\ IsCurrent(o)
                   /\ occ[o].state = "Pending" /\ o.at <= now}

\* latest_scheduled_at(now), when it lies after the watermark.
LatestDue(t) ==
    {o \in OccId : /\ o.task = t /\ IsCurrent(o)
                   /\ o.at \in Trigger[t] /\ o.at <= now
                   /\ \A s \in Trigger[t] : s <= now => s <= o.at
                   /\ o.at > defs[t].watermark}

Late(o) == now - o.at > Grace

\* A definition is evaluated unless it is paused, deleted, or its watermark
\* lies in the future because the clock was set back (ClockRollbackDeferred).
Evaluable(t) == defs[t].status = "active" /\ now >= defs[t].watermark

\* The due rows that a missed-run policy lets through.
Admitted(t) ==
    {o \in LatestDue(t) : /\ occ[o].state \in {"Absent", "Pending"}
                          /\ Late(o) => Policy[t] = "RunOnceWhenAvailable"}

WantsSlot(t) == Evaluable(t) /\ (PendingReady(t) # {} \/ Admitted(t) # {})

\* Faulty variant: a plan does not reserve.
HasSlotUnreserved(t) == Cardinality(ActiveRuns) < GlobalLimit

\* One plan reserves a slot for every row it exposes, in the order of the ids.
HasSlot(t) ==
    Cardinality(ActiveRuns) + Cardinality({u \in Tasks : u < t /\ WantsSlot(u)})
        < GlobalLimit

\* The rows one plan inserts.
Planned ==
    {o \in OccId : /\ occ[o].state = "Absent"
                   /\ WantsSlot(o.task) /\ HasSlot(o.task)
                   /\ PendingReady(o.task) = {}
                   /\ o \in Admitted(o.task)}

\* Faulty variant: a deferral for want of a slot counts as an evaluation.
AdvancesDeferred(t) == Evaluable(t) /\ PendingReady(t) = {}

\* The watermark moves to now unless the plan re-exposed a pending row or was
\* deferred for want of a slot.
Advances(t) ==
    /\ Evaluable(t)
    /\ PendingReady(t) = {}
    /\ WantsSlot(t) => HasSlot(t)

MissedFacts ==
    {f \in Fact : /\ f.source = "missedSchedule"
                  /\ f.about \in LatestDue(f.about.task)
                  /\ Advances(f.about.task) /\ Late(f.about)
                  /\ Policy[f.about.task] = "NeedsAttention"}

PlanDue ==
    /\ up
    /\ occ' = [o \in OccId |-> IF o \in Planned THEN PendingRow ELSE occ[o]]
    /\ defs' = [t \in Tasks |->
                  IF Advances(t) THEN [defs[t] EXCEPT !.watermark = now]
                                 ELSE defs[t]]
    /\ attention' = attention \cup MissedFacts
    /\ UNCHANGED <<terminal, held, up, now, rollbacks>>

-----------------------------------------------------------------------------
(* Attempts and leases.                                                      *)

Expired(o) == occ[o].expires <= now

\* matching_active_lease for the lease that the caller was handed.
OwnsLease(o) ==
    occ[o].state = "Running" /\ held[o] # 0 /\ held[o] = occ[o].attempts

\* The runner of this lease got its final answer and stops using it.
Released(o) == held' = [held EXCEPT ![o] = 0]

\* append_execution stamps a receipt with the CURRENT revision of the
\* definition.
TerminalReceipt(o, kind) == [kind |-> kind, revision |-> defs[o.task].revision]

\* Faulty variant: the revision of a detached receipt is not validated.
TerminalInOrder(o) == now >= occ[o].claimed

\* validate_store accepts a detached terminal receipt only if it carries the
\* revision of its occurrence, and an attempt only if it was not updated before
\* it was created.
TerminalIsValid(o) ==
    /\ TerminalReceipt(o, "Completed").revision = o.revision
    /\ now >= occ[o].claimed

\* Faulty variant: an ambiguous attempt is queued again.
RequeuedRow(o, kind) ==
    [state |-> IF kind = "OutcomeUnknown" THEN "Pending" ELSE kind,
     attempts |-> occ[o].attempts, claimed |-> 0, expires |-> 0]

EndedRow(o, kind) ==
    [state |-> kind, attempts |-> occ[o].attempts, claimed |-> 0, expires |-> 0]

UnknownFact(o) == [source |-> "occurrenceOutcomeUnknown", about |-> o]

\* mark_occurrence_outcome_unknown, for every row of a set, in one transaction.
MarkUnknown(S) ==
    /\ \A o \in S : TerminalIsValid(o)
    /\ occ' = [o \in OccId |->
                 IF o \in S THEN EndedRow(o, "OutcomeUnknown") ELSE occ[o]]
    /\ terminal' = [o \in OccId |->
                      IF o \in S THEN TerminalReceipt(o, "OutcomeUnknown")
                                 ELSE terminal[o]]
    /\ attention' = attention \cup {UnknownFact(o) : o \in S}
    /\ UNCHANGED <<defs, now, rollbacks>>

\* Faulty variant: the new expiry is off by one.
LeasedLonger(attempts, claimed) ==
    [state |-> "Running", attempts |-> attempts, claimed |-> claimed,
     expires |-> now + LeaseDuration + 1]

LeasedRow(attempts, claimed) ==
    [state |-> "Running", attempts |-> attempts, claimed |-> claimed,
     expires |-> now + LeaseDuration]

\* Faulty variant: the claim trusts the plan for the global limit.
HasTaskCapacity(o) == \A r \in ActiveRuns : r.task # o.task

\* max_active_runs is 1 for every revision that validation accepts.
HasCapacity(o) ==
    /\ Cardinality(ActiveRuns) < GlobalLimit
    /\ \A r \in ActiveRuns : r.task # o.task

\* Claiming looks at capacity and attempts only, not at pause or deletion.
ClaimPending(o) ==
    /\ up
    /\ occ[o].state = "Pending"
    /\ HasCapacity(o)
    /\ now + LeaseDuration <= MaxTime
    /\ occ' = [occ EXCEPT ![o] = LeasedRow(occ[o].attempts + 1, now)]
    /\ held' = [held EXCEPT ![o] = occ[o].attempts + 1]
    /\ UNCHANGED <<defs, terminal, attention, up, now, rollbacks>>

\* Faulty variant: an expired lease is taken over.
TakeOver(o) ==
    /\ up
    /\ occ[o].state = "Running"
    /\ Expired(o)
    /\ now + LeaseDuration <= MaxTime
    /\ occ' = [occ EXCEPT ![o] = LeasedRow(occ[o].attempts + 1, now)]
    /\ held' = [held EXCEPT ![o] = occ[o].attempts + 1]
    /\ UNCHANGED <<defs, terminal, attention, up, now, rollbacks>>

\* A claim of a running row whose lease ran out never takes it over.
ClaimExpired(o) ==
    /\ up
    /\ occ[o].state = "Running"
    /\ Expired(o)
    /\ MarkUnknown({o})
    /\ UNCHANGED <<held, up>>

\* Faulty variant: a heartbeat does not look at the time of the claim.
HeartbeatAnyClock(o) ==
    /\ up
    /\ OwnsLease(o)
    /\ ~Expired(o)
    /\ now + LeaseDuration <= MaxTime
    /\ occ' = [occ EXCEPT ![o] = LeasedRow(occ[o].attempts, occ[o].claimed)]
    /\ UNCHANGED <<defs, terminal, attention, held, up, now, rollbacks>>

Heartbeat(o) ==
    /\ up
    /\ OwnsLease(o)
    /\ ~Expired(o)
    /\ now >= occ[o].claimed
    /\ now + LeaseDuration <= MaxTime
    /\ occ' = [occ EXCEPT ![o] = LeasedRow(occ[o].attempts, occ[o].claimed)]
    /\ UNCHANGED <<defs, terminal, attention, held, up, now, rollbacks>>

\* A failed and an unknown terminal verdict open attention alike (the two
\* sources are one here); the others leave a receipt only.
DecisionFacts(o, verdict) ==
    IF verdict \in {"Failed", "OutcomeUnknown"}
    THEN {[source |-> "providerTerminal", about |-> o]}
    ELSE {}

ProviderDecision(o, verdict) ==
    /\ up
    /\ OwnsLease(o)
    /\ ~Expired(o)
    /\ attention' = attention \cup DecisionFacts(o, verdict)
    /\ UNCHANGED <<defs, occ, terminal, held, up, now, rollbacks>>

Complete(o) ==
    /\ up
    /\ OwnsLease(o)
    /\ ~Expired(o)
    /\ TerminalIsValid(o)
    /\ occ' = [occ EXCEPT ![o] = EndedRow(o, "Completed")]
    /\ terminal' = [terminal EXCEPT ![o] = TerminalReceipt(o, "Completed")]
    /\ Released(o)
    /\ UNCHANGED <<defs, attention, up, now, rollbacks>>

\* Heartbeat, decision and completion that find their own lease expired.
LateCall(o) ==
    /\ up
    /\ OwnsLease(o)
    /\ Expired(o)
    /\ MarkUnknown({o})
    /\ Released(o)
    /\ UNCHANGED up

\* The owner gives the attempt up as ambiguous; no expiry check.
GiveUp(o) ==
    /\ up
    /\ OwnsLease(o)
    /\ MarkUnknown({o})
    /\ Released(o)
    /\ UNCHANGED up

\* The store refuses a runner whose row someone else finished; it stops.
Refused(o) ==
    /\ up
    /\ held[o] # 0
    /\ ~OwnsLease(o)
    /\ Released(o)
    /\ UNCHANGED <<durable, up, now, rollbacks>>

\* Faulty variants: rows that finished, and only leases of this process.
ExpiredRows == {o \in OccId : occ[o].attempts > 0 /\ Expired(o)}
ExpiredOwnRuns == {o \in ActiveRuns : Expired(o) /\ held[o] # 0}

ExpiredRuns == {o \in ActiveRuns : Expired(o)}

\* The whole set is one transaction: one invalid row refuses all of them.
Reconcile ==
    /\ up
    /\ ExpiredRuns # {}
    /\ MarkUnknown(ExpiredRuns)
    /\ UNCHANGED <<held, up>>

-----------------------------------------------------------------------------
(* The process and the clock.                                                *)

\* The process ends at any instant; what was not written is lost.
Crash ==
    /\ up
    /\ up' = FALSE
    /\ held' = [o \in OccId |-> 0]
    /\ UNCHANGED <<durable, now, rollbacks>>

\* TaskStore::open reconciles expired leases and fails when that fails.
Open ==
    /\ ~up
    /\ up' = TRUE
    /\ MarkUnknown(ExpiredRuns)
    /\ UNCHANGED held

Tick ==
    /\ now < MaxTime
    /\ now' = now + 1
    /\ UNCHANGED <<durable, held, up, rollbacks>>

SetBack ==
    /\ rollbacks < MaxRollbacks
    /\ \E earlier \in 1..(now - 1) : now' = earlier
    /\ rollbacks' = rollbacks + 1
    /\ UNCHANGED <<durable, held, up>>

-----------------------------------------------------------------------------

DefinitionStep ==
    \E t \in Tasks :
        \/ Create(t)
        \/ \E r \in Revisions : Revise(t, r)
        \/ \E status \in {"active", "paused"} : SetPaused(t, status)
        \/ Delete(t)

AttemptStep ==
    \E o \in OccId :
        \/ ClaimPending(o)
        \/ ClaimExpired(o)
        \/ Heartbeat(o)
        \/ \E verdict \in Verdicts : ProviderDecision(o, verdict)
        \/ Complete(o)
        \/ LateCall(o)
        \/ GiveUp(o)
        \/ Refused(o)

Next ==
    \/ DefinitionStep
    \/ \E t \in Tasks, r \in Revisions : CreateManual(t, r)
    \/ PlanDue
    \/ AttemptStep
    \/ Reconcile
    \/ Crash
    \/ Open
    \/ Tick
    \/ SetBack

Spec == Init /\ [][Next]_vars

\* Every poll reconciles and plans, time passes, and a process that ended is
\* started again; nothing obliges an operator or a provider to act.
Fairness == WF_vars(Reconcile) /\ WF_vars(Open) /\ WF_vars(Tick)

FairSpec == Spec /\ Fairness

-----------------------------------------------------------------------------
(* Properties.                                                               *)

\* However claims of the poller, of run-now and of stale plans interleave, the
\* durable store never holds more running rows than the global limit, nor two
\* of one task (claim_occurrence_with_limits counts again inside the claim).
CapacityRespected ==
    /\ Cardinality(ActiveRuns) <= GlobalLimit
    /\ \A o, r \in ActiveRuns : o.task = r.task => o = r

\* What one plan exposes fits beside what runs already: reservations of earlier
\* definitions count against later ones (plan_due_transaction).
PlanFitsCapacity ==
    Cardinality(ActiveRuns)
      + Cardinality({t \in Tasks : WantsSlot(t) /\ HasSlot(t)}) <= GlobalLimit

\* A finished row is backed by a terminal receipt of the same outcome and of
\* its own revision, no other row has one, and an unknown outcome has opened
\* attention: no crash or late call separates the three records.
EvidenceMatches ==
    \A o \in OccId :
        /\ terminal[o] =
             IF occ[o].state \in Finished
             THEN [kind |-> occ[o].state, revision |-> o.revision]
             ELSE NoReceipt
        /\ occ[o].state = "OutcomeUnknown" => UnknownFact(o) \in attention

\* No retry, restart, expiry or late call ever starts a row a second time.
AtMostOneAttempt == \A o \in OccId : occ[o].attempts <= 1

\* The planner loses no window: under the policies that promise a trace, the
\* latest instant it has evaluated (after the revision was created) has a row,
\* or, for NeedsAttention, an attention fact.  A deferral for want of a slot, a
\* pause or a clock set back must not move the watermark past it.
WindowAccounted ==
    \A t \in Tasks, at \in Times :
        LET d == defs[t]
            o == CurrentOcc(t, at)
        IN  (/\ Defined(t) /\ at \in Trigger[t]
             /\ d.created < at /\ at <= d.watermark
             /\ \A s \in Trigger[t] : s <= d.watermark => s <= at)
            => \/ Policy[t] = "Skip"
               \/ occ[o].state # "Absent"
               \/ /\ Policy[t] = "NeedsAttention"
                  /\ [source |-> "missedSchedule", about |-> o] \in attention

\* A finished row and its evidence never change again, and attention facts are
\* not forgotten when a task is revised, paused or deleted.
FinishedForever ==
    [][/\ \A o \in OccId : occ[o].state \in Finished =>
              occ'[o] = occ[o] /\ terminal'[o] = terminal[o]
       /\ attention \subseteq attention']_vars

\* An expired lease can be settled exactly when its task was not revised since
\* the row was entered: however claims, heartbeats and a clock that is set back
\* follow one another, validate_store never refuses the ending of an expired row
\* as dated before its claim, which would block every later reconciliation.
ExpiredSettleable ==
    \A o \in ExpiredRuns : TerminalIsValid(o) <=> IsCurrent(o)

\* Every expired lease is settled, also after crashes and a clock set back,
\* unless a revision has cut off a running row: the reconciliation of ALL
\* expired rows is one transaction, and one row of an old revision refuses it.
SettlesUnlessRevised ==
    \A o \in OccId :
        (occ[o].state = "Running" /\ Expired(o))
            ~> \/ occ[o].state \in Finished
               \/ \E r \in ActiveRuns : ~IsCurrent(r)

\* "An expired lease is marked outcomeUnknown": it does not stay Running.
ExpiredLeaseSettles ==
    \A o \in OccId :
        (occ[o].state = "Running" /\ Expired(o)) ~> (occ[o].state \in Finished)

Lifecycle == INSTANCE OccurrenceLifecycle
                WITH Rows   <- OccId,
                     TaskOf <- [o \in OccId |-> o.task],
                     Limit  <- GlobalLimit,
                     phase  <- [o \in OccId |-> occ[o].state]

\* The store, with its leases, expiry, plans and crashes, implements the plain
\* life of a row: entered once, started once within the capacity, ended once.
ImplementsLifecycle == Lifecycle!Spec
=============================================================================
