-------------------------- MODULE TaskRuntime_proofs --------------------------
(***************************************************************************)
(* Proofs about one attempt, for a route of any length, a Grok candidate at *)
(* any place or none, any number of events and any buffer limit.            *)
(***************************************************************************)
EXTENDS TaskRuntime, SequenceTheorems, TLAPS

USE RouteAssumption DEF Candidates

-----------------------------------------------------------------------------
(* The journal.                                                              *)

\* A receipt is appended to what was there.
LEMMA PersistAppends ==
    ASSUME TypeOK, NEW reason \in Reasons, Persist(reason)
    PROVE  LET r == [order |-> cur, reason |-> reason] IN
           /\ journal' \in Seq(Receipts) /\ Len(journal') = Len(journal) + 1
           /\ DOMAIN journal' = DOMAIN journal \cup {Len(journal')}
           /\ journal'[Len(journal')] = r
           /\ \A i \in DOMAIN journal : journal'[i] = journal[i] /\ i < Len(journal')
           /\ receipts' = receipts \cup {r}
<1> DEFINE r == [order |-> cur, reason |-> reason]
<1>1. r \in Receipts /\ journal \in Seq(Receipts) /\ journal' = Append(journal, r)
    BY DEF TypeOK, Receipts, Persist
<1>2. /\ journal' \in Seq(Receipts) /\ Len(journal') = Len(journal) + 1
      /\ journal'[Len(journal) + 1] = r
      /\ \A i \in 1..Len(journal) : journal'[i] = journal[i]
    BY <1>1, AppendProperties
<1>3. /\ DOMAIN journal = 1..Len(journal) /\ Len(journal) \in Nat
      /\ DOMAIN journal' = 1..Len(journal')
    BY <1>1, <1>2, LenProperties
<1>4. DOMAIN journal' = DOMAIN journal \cup {Len(journal')}
    BY <1>2, <1>3
<1>5. \A i \in DOMAIN journal : journal'[i] = journal[i] /\ i < Len(journal')
    BY <1>2, <1>3
<1>6. receipts' = receipts \cup {r}
    BY <1>2, <1>4, <1>5 DEF receipts, Range
<1>7. QED
    BY <1>2, <1>4, <1>5, <1>6

\* The receipts are those of the journal.
LEMMA JournalKept == UNCHANGED journal => receipts' = receipts
BY DEF receipts, Range

-----------------------------------------------------------------------------
(* What containment and the providers may do to the runs.                    *)

\* No run starts or is forgotten.
SameStarted(old, new) ==
    \A c \in Candidates : (old[c] = "idle") <=> (new[c] = "idle")

\* An abort ends a live run; it starts none.
LEMMA AbortKeepsStarted ==
    ASSUME TypeOK, NEW abort
    PROVE  /\ RunAfterAbort(abort) \in [Candidates -> Runs]
           /\ SameStarted(run, RunAfterAbort(abort))
BY DEF TypeOK, RunAfterAbort, Live, Runs, SameStarted

\* So does the cleanup of the Grok tab.
LEMMA CleanupKeepsStarted ==
    ASSUME NEW runs \in [Candidates -> Runs], NEW ok \in BOOLEAN
    PROVE  /\ RunAfterCleanup(runs, ok) \in [Candidates -> Runs]
           /\ SameStarted(runs, RunAfterCleanup(runs, ok))
BY DEF RunAfterCleanup, Runs, SameStarted

\* Both together, as the containing error path applies them.
LEMMA ContainKeepsStarted ==
    ASSUME TypeOK, ContainAndFail
    PROVE  run' \in [Candidates -> Runs] /\ SameStarted(run, run')
<1>1. PICK abort \in AbortOutcomes, ok \in BOOLEAN :
        run' = RunAfterCleanup(IF obs = "Accepted" THEN RunAfterAbort(abort) ELSE run, ok)
    BY DEF ContainAndFail
<1>2. run \in [Candidates -> Runs] /\ SameStarted(run, run)
    BY DEF TypeOK, SameStarted
<1>3. CASE obs = "Accepted"
    <2>1. run' = RunAfterCleanup(RunAfterAbort(abort), ok)
        BY <1>1, <1>3
    <2>2. /\ run' \in [Candidates -> Runs]
          /\ SameStarted(RunAfterAbort(abort), run')
        BY <2>1, AbortKeepsStarted, CleanupKeepsStarted
    <2>3. QED
        BY <2>2, AbortKeepsStarted DEF SameStarted
<1>4. CASE obs # "Accepted"
    <2>1. run' = RunAfterCleanup(run, ok)
        BY <1>1, <1>4
    <2>2. QED
        BY <2>1, <1>2, CleanupKeepsStarted
<1>5. QED
    BY <1>3, <1>4

\* And as a cancellation or a timeout applies them.
LEMMA StopKeepsStarted ==
    ASSUME TypeOK, NEW outcome, StopRun(outcome)
    PROVE  run' \in [Candidates -> Runs] /\ SameStarted(run, run')
<1>1. PICK abort \in AbortOutcomes, ok \in BOOLEAN :
        run' = RunAfterCleanup(RunAfterAbort(abort), ok)
    BY DEF StopRun
<1>2. /\ run' \in [Candidates -> Runs]
      /\ SameStarted(RunAfterAbort(abort), run')
    BY <1>1, AbortKeepsStarted, CleanupKeepsStarted
<1>3. QED
    BY <1>2, AbortKeepsStarted DEF SameStarted

\* The projection of the events stays a sequence of events.
LEMMA EmitType ==
    ASSUME TypeOK, NEW event \in Events, Emit(event)
    PROVE  buffer' \in Seq(Events) /\ emitted' \in 0..MaxEvents
<1>1. CASE Len(buffer) = BufferLimit
    <2>1. buffer # <<>>
        BY <1>1, EmptySeq DEF TypeOK
    <2>2. Tail(buffer) \in Seq(Events)
        BY <2>1, HeadTailProperties DEF TypeOK
    <2>3. QED
        BY <1>1, <2>2, AppendProperties DEF Emit, TypeOK
<1>2. CASE Len(buffer) # BufferLimit
    BY <1>2, AppendProperties DEF Emit, TypeOK
<1>3. QED
    BY <1>1, <1>2

\* An external run that moves has started before, and has started after it.
LEMMA MoveKeepsStarted ==
    ASSUME TypeOK, NEW c \in Candidates \ Grok,
           NEW from \in SUBSET (Runs \ {"idle"}), NEW to \in SUBSET (Runs \ {"idle"}),
           External!Move(c, from, to)
    PROVE  run' \in [Candidates -> Runs] /\ SameStarted(run, run')
<1>1. PICK s \in to : run' = [run EXCEPT ![c] = s]
    BY DEF External!Move
<1>2. run[c] \in from
    BY DEF External!Move
<1>3. QED
    BY <1>1, <1>2 DEF TypeOK, SameStarted

\* In particular at the end of its turn, its exit, its announcement and a cut.
LEMMA ExternalKeepsStarted ==
    ASSUME TypeOK, NEW c \in Candidates \ Grok,
           \/ External!EndTurn(c) \/ External!Exit(c) \/ External!Announce(c)
           \/ External!Cut(c) \/ External!Hush(c)
    PROVE  run' \in [Candidates -> Runs] /\ SameStarted(run, run')
BY MoveKeepsStarted
DEF External!EndTurn, External!Exit, External!Announce, External!Cut, External!Hush, Runs

\* Providers act on runs that have started and on the projection, nothing else.
LEMMA ProviderShape ==
    ASSUME TypeOK, ProviderStep
    PROVE  /\ UNCHANGED <<route, runner, asked, late, tab>>
           /\ run' \in [Candidates -> Runs] /\ SameStarted(run, run')
           /\ buffer' \in Seq(Events) /\ emitted' \in 0..MaxEvents
<1>1. CASE ProviderActs
    <2>1. PICK event \in {"started", "activity", "item", "failed"} : Emit(event)
        BY <1>1 DEF ProviderActs
    <2>2. QED
        BY <1>1, <2>1, EmitType DEF ProviderActs, Events, TypeOK, SameStarted
<1>2. CASE TurnEnds
    <2>1. PICK event \in {"turn", "failed", "cancelled"} : Emit(event)
        BY <1>2 DEF TurnEnds
    <2>2. QED
        BY <1>2, <2>1, EmitType, ExternalKeepsStarted DEF TurnEnds, Events
<1>3. CASE ProcessExits \/ AbortedElsewhere
    BY <1>3, ExternalKeepsStarted DEF ProcessExits, AbortedElsewhere, TypeOK
<1>4. CASE TerminalEvent
    <2>1. PICK event \in {"completed", "failed", "cancelled"} : Emit(event)
        BY <1>4 DEF TerminalEvent
    <2>2. QED
        BY <1>4, <2>1, EmitType, ExternalKeepsStarted DEF TerminalEvent, Events
<1>5. CASE PromptCompletes
    <2>1. PICK event \in {"completed", "failed", "cancelled", "unknown"} : Emit(event)
        BY <1>5 DEF PromptCompletes
    <2>2. QED
        BY <1>5, <2>1, EmitType DEF PromptCompletes, Events, TypeOK, Runs, SameStarted
<1>6. QED
    BY <1>1, <1>2, <1>3, <1>4, <1>5 DEF ProviderStep

-----------------------------------------------------------------------------
(* Type correctness.                                                         *)

\* A receipt that is persisted is a receipt of the route.
LEMMA PersistType ==
    ASSUME TypeOK, NEW reason \in Reasons, Persist(reason)
    PROVE  journal' \in Seq(Receipts)
BY PersistAppends

\* Every outcome and boundary is a reason, and every phase has a result.
LEMMA OutcomeTypes ==
    /\ Outcomes \subseteq Reasons /\ Boundaries \subseteq Reasons
    /\ \A outcome \in Outcomes : PhaseAfter(outcome) \in Phases
    /\ \A p \in Phases : ResultOf(p) \in Results
    /\ \A event \in Events : /\ OutcomeOf(event) \in Outcomes \cup {"none"}
                             /\ BoundaryOf(event) \in Boundaries
BY DEF Outcomes, Boundaries, Reasons, PhaseAfter, Phases, ResultOf, Results,
       OutcomeOf, BoundaryOf, Events

\* The route moves on within its candidates.
LEMMA AdvanceType ==
    ASSUME TypeOK, AdvanceAfterRejection
    PROVE  /\ phase' \in Phases /\ cur' \in Candidates /\ step' \in Steps
           /\ journal' \in Seq(Receipts)
BY PersistType DEF AdvanceAfterRejection, TypeOK, Phases, Steps, Reasons

\* An observation records a known reason and leads to a known phase.
LEMMA ObserveType ==
    ASSUME TypeOK, NEW outcome \in Outcomes \cup {"none"}, NEW boundary \in Boundaries,
           Observe(outcome, boundary)
    PROVE  /\ phase' \in Phases /\ journal' \in Seq(Receipts) /\ ended' \in Results
<1>1. CASE outcome # "none"
    BY <1>1, PersistType, OutcomeTypes DEF Observe, TypeOK
<1>2. CASE outcome = "none"
    BY <1>2, PersistType, OutcomeTypes DEF Observe, TypeOK
<1>3. QED
    BY <1>1, <1>2

\* What a return leaves behind is well typed.
LEMMA ReturnType ==
    ASSUME TypeOK, NEW r \in Results, NEW ok \in BOOLEAN, ReturnCleaned(r, ok)
    PROVE  /\ step' \in Steps /\ result' \in Results /\ asked' \in BOOLEAN
           /\ tab' \in {"none", "open", "closed", "stuck"}
BY DEF TypeOK, ReturnCleaned, Return, TabAfterCleanup, Steps, Results

\* So is what the containing error path leaves behind.
LEMMA ContainType ==
    ASSUME TypeOK, ContainAndFail
    PROVE  TypeOK'
<1>1. run' \in [Candidates -> Runs]
    BY ContainKeepsStarted
<1>2. /\ step' \in Steps /\ result' \in Results /\ asked' \in BOOLEAN
      /\ tab' \in {"none", "open", "closed", "stuck"}
    BY DEF ContainAndFail, TypeOK, Return, TabAfterCleanup, Steps, Results
<1>3. QED
    BY <1>1, <1>2 DEF ContainAndFail, TypeOK, route

\* And a stop by the operator or the deadline.
LEMMA StopType ==
    ASSUME TypeOK, NEW outcome \in Outcomes, StopRun(outcome)
    PROVE  TypeOK'
<1>1. PICK abort \in AbortOutcomes, ok \in BOOLEAN :
        ReturnCleaned(IF abort = "Uncertain" THEN "OutcomeUnknown"
                                             ELSE ResultOf(phase'), ok)
    BY DEF StopRun
<1>2. phase' \in Phases /\ journal' \in Seq(Receipts)
    BY PersistType, OutcomeTypes DEF StopRun
<1>3. (IF abort = "Uncertain" THEN "OutcomeUnknown" ELSE ResultOf(phase')) \in Results
    BY <1>2, OutcomeTypes DEF Results
<1>4. /\ step' \in Steps /\ result' \in Results /\ asked' \in BOOLEAN
      /\ tab' \in {"none", "open", "closed", "stuck"}
    BY <1>1, <1>3, ReturnType
<1>5. run' \in [Candidates -> Runs]
    BY StopKeepsStarted
<1>6. QED
    BY <1>2, <1>4, <1>5 DEF StopRun, TypeOK

\* Steps of the route keep the types.
LEMMA RouteType ==
    ASSUME TypeOK, RouteStep
    PROVE  TypeOK'
<1> USE DEF TypeOK, route, world
<1>1. CASE Bind
    BY <1>1 DEF Bind, Steps
<1>2. CASE Begin
    BY <1>2, PersistType DEF Begin, Steps, Phases, Reasons
<1>3. CASE PreflightEligible
    BY <1>3, PersistType DEF PreflightEligible, Steps, Phases, Reasons
<1>4. CASE PreflightStops
    <2>1. /\ phase' \in Phases /\ cur' \in Candidates /\ step' \in Steps
          /\ journal' \in Seq(Receipts)
        BY <1>4, AdvanceType, PersistType
           DEF PreflightStops, Settle, Steps, Phases, Reasons
    <2>2. QED
        BY <1>4, <2>1 DEF PreflightStops
<1>5. CASE FailEarly \/ HandleDropped
    BY <1>5 DEF FailEarly, HandleDropped, Fail, Return, Steps, Results
<1>6. CASE DispatchAccepted
    <2>1. buffer' \in Seq(Events)
        <3>1. CASE cur \in Grok
            BY <1>6, <3>1, EmptySeq DEF DispatchAccepted
        <3>2. CASE cur \notin Grok
            <4>1. buffer' = <<"started">>
                BY <1>6, <3>2 DEF DispatchAccepted
            <4>2. "started" \in Events
                BY DEF Events
            <4>3. QED
                BY <4>1, <4>2
        <3>3. QED
            BY <3>1, <3>2
    <2>2. run' \in [Candidates -> Runs]
        BY <1>6 DEF DispatchAccepted, Runs
    <2>3. QED
        BY <1>6, <2>1, <2>2 DEF DispatchAccepted, Steps, Observed
<1>7. CASE DispatchRejected
    BY <1>7 DEF DispatchRejected, Steps, Observed
<1>8. CASE DispatchAmbiguous
    BY <1>8 DEF DispatchAmbiguous, Steps, Observed, Runs
<1>9. CASE DispatchDropped
    BY <1>9 DEF DispatchDropped, Return, Steps, Results, Runs
<1>10. CASE ApplyAccepted
    BY <1>10, PersistType DEF ApplyAccepted, Steps, Phases, Reasons, Boundaries
<1>11. CASE ApplyRejected
    BY <1>11, AdvanceType DEF ApplyRejected
<1>12. CASE ApplyAmbiguous
    BY <1>12, PersistType DEF ApplyAmbiguous, Settle, Steps, Phases, Reasons
<1>13. CASE ApplyRefused
    BY <1>13, ContainType DEF ApplyRefused
<1>14. CASE Notify
    <2>1. PICK ok \in BOOLEAN : /\ ReturnCleaned(ResultOf(phase), ok)
                                /\ run' = RunAfterCleanup(run, ok)
        BY <1>14 DEF Notify
    <2>2. ResultOf(phase) \in Results
        BY OutcomeTypes
    <2>3. /\ step' \in Steps /\ result' \in Results /\ asked' \in BOOLEAN
          /\ tab' \in {"none", "open", "closed", "stuck"}
        BY <2>1, <2>2, ReturnType
    <2>4. run' \in [Candidates -> Runs]
        BY <2>1, CleanupKeepsStarted
    <2>5. QED
        BY <1>14, <2>3, <2>4 DEF Notify
<1>15. QED
    BY <1>1, <1>2, <1>3, <1>4, <1>5, <1>6, <1>7, <1>8, <1>9, <1>10, <1>11, <1>12,
       <1>13, <1>14 DEF RouteStep

\* So do the steps of the wait loop.
LEMMA WaitType ==
    ASSUME TypeOK, WaitStep
    PROVE  TypeOK'
<1>1. CASE Cancel \/ TimeOut
    BY <1>1, StopType DEF Cancel, TimeOut, Outcomes
<1>2. CASE StopRefused
    BY <1>2 DEF StopRefused, Fail, Return, TypeOK, route, world, Steps, Results
<1>3. CASE LeaseLost \/ ObserveFails
    BY <1>3, ContainType DEF LeaseLost, ObserveFails
<1>4. CASE Drain
    BY <1>4, EmptySeq DEF Drain, TypeOK, route, Steps
<1>5. CASE ObserveEvent
    <2>1. Head(batch) \in Events /\ Tail(batch) \in Seq(Events)
        BY <1>5, HeadTailProperties DEF ObserveEvent, TypeOK
    <2>2. phase' \in Phases /\ journal' \in Seq(Receipts) /\ ended' \in Results
        BY <1>5, <2>1, OutcomeTypes, ObserveType DEF ObserveEvent
    <2>3. QED
        BY <1>5, <2>1, <2>2 DEF ObserveEvent, TypeOK, world
<1>6. CASE ObserveSnapshot
    <2>1. phase' \in Phases /\ journal' \in Seq(Receipts) /\ ended' \in Results
        <3>1. CASE Registered(cur)
            BY <1>6, <3>1, ObserveType DEF ObserveSnapshot, Boundaries
        <3>2. CASE ~Registered(cur)
            BY <1>6, <3>2 DEF ObserveSnapshot, TypeOK
        <3>3. QED
            BY <3>1, <3>2
    <2>2. /\ step' \in Steps /\ result' \in Results /\ asked' \in BOOLEAN
          /\ tab' \in {"none", "open", "closed", "stuck"}
          /\ run' \in [Candidates -> Runs]
        <3>1. CASE ended = "none"
            BY <1>6, <3>1 DEF ObserveSnapshot, TypeOK, Steps
        <3>2. CASE ended # "none"
            <4>1. PICK ok \in BOOLEAN : /\ ReturnCleaned(ended, ok)
                                        /\ run' = RunAfterCleanup(run, ok)
                BY <1>6, <3>2 DEF ObserveSnapshot
            <4>2. run \in [Candidates -> Runs] /\ ended \in Results
                BY DEF TypeOK
            <4>3. QED
                BY <4>1, <4>2, ReturnType, CleanupKeepsStarted
        <3>3. QED
            BY <3>1, <3>2
    <2>3. QED
        BY <1>6, <2>1, <2>2 DEF ObserveSnapshot, TypeOK
<1>7. QED
    BY <1>1, <1>2, <1>3, <1>4, <1>5, <1>6 DEF WaitStep

\* The attempt starts well typed.
LEMMA InitType == Init => TypeOK
<1>1. <<>> \in Seq(Events) /\ <<>> \in Seq(Receipts)
    BY EmptySeq
<1>2. 0 \in 0..MaxEvents /\ 1 \in Candidates
    OBVIOUS
<1>3. QED
    BY <1>1, <1>2 DEF Init, TypeOK, Phases, Steps, Observed, Results, Runs

\* Whatever the providers, the store and the operator do, the attempt's state
\* stays well formed: the route never leaves its candidates.
THEOREM TypeCorrect == Spec => []TypeOK
<1>1. Init => TypeOK
    BY InitType
<1>2. TypeOK /\ [Next]_vars => TypeOK'
    <2> SUFFICES ASSUME TypeOK, [Next]_vars
                 PROVE  TypeOK'
        OBVIOUS
    <2>1. CASE RouteStep
        BY <2>1, RouteType
    <2>2. CASE WaitStep
        BY <2>2, WaitType
    <2>3. CASE RequestCancel \/ Deadline
        BY <2>3 DEF RequestCancel, Deadline, TypeOK, route, runner, world
    <2>4. CASE ProviderStep
        BY <2>4, ProviderShape DEF TypeOK, route, runner
    <2>5. CASE UNCHANGED vars
        BY <2>5 DEF TypeOK, vars, route, runner, world
    <2>6. QED
        BY <2>1, <2>2, <2>3, <2>4, <2>5 DEF Next
<1>3. QED
    BY <1>1, <1>2, PTL DEF Spec

-----------------------------------------------------------------------------
(* The durable history only grows.                                            *)

Ended == {"Completed", "NeedsAttention", "OutcomeUnknown"}

\* What one step can do to the phase and the durable receipts.
ReceiptStep ==
    \/ UNCHANGED <<phase, journal>>
    \/ /\ phase \notin Ended
       /\ \E reason \in Reasons :
              /\ Persist(reason)
              /\ IF EndsHistory([order |-> cur, reason |-> reason])
                 THEN /\ phase' \in Ended
                      /\ phase' = "Completed" => reason = "Succeeded"
                      /\ phase' = "NeedsAttention"
                             => reason \in {"Failed", "Cancelled", "TimedOut",
                                            "Inconclusive", "Rejected"}
                 ELSE phase' \notin Ended

\* A receipt that ends the attempt is written from a phase that has not ended.
LEMMA ObserveReceiptStep ==
    ASSUME TypeOK, NEW outcome \in Outcomes \cup {"none"}, NEW boundary \in Boundaries,
           Observe(outcome, boundary)
    PROVE  ReceiptStep
<1>1. CASE outcome # "none"
    BY <1>1 DEF Observe, ReceiptStep, EndsHistory, Outcomes, Reasons, Terminal, PhaseAfter, Ended
<1>2. CASE outcome = "none"
    BY <1>2 DEF Observe, ReceiptStep, EndsHistory, Boundaries, Reasons, Terminal, Outcomes, Ended
<1>3. QED
    BY <1>1, <1>2

\* Every step changes the durable history in one of these ways.
LEMMA ReceiptShape ==
    ASSUME TypeOK, [Next]_vars
    PROVE  ReceiptStep
<1> USE DEF route, world, runner, Ended
<1>1. CASE Begin \/ PreflightEligible \/ ApplyAccepted
    BY <1>1 DEF Begin, PreflightEligible, ApplyAccepted, ReceiptStep, EndsHistory, Reasons,
                Boundaries, Terminal, Outcomes
<1>2. CASE PreflightStops \/ ApplyRejected \/ ApplyAmbiguous
    BY <1>2 DEF PreflightStops, ApplyRejected, ApplyAmbiguous, AdvanceAfterRejection,
                Settle, ReceiptStep, EndsHistory, Reasons, Terminal, Outcomes
<1>3. CASE Cancel \/ TimeOut
    BY <1>3 DEF Cancel, TimeOut, StopRun, ReceiptStep, EndsHistory, Reasons, Terminal, Outcomes,
                PhaseAfter
<1>4. CASE ObserveEvent
    <2>1. Head(batch) \in Events
        BY <1>4, HeadTailProperties DEF ObserveEvent, TypeOK
    <2>2. QED
        BY <1>4, <2>1, OutcomeTypes, ObserveReceiptStep DEF ObserveEvent
<1>5. CASE ObserveSnapshot
    <2>1. CASE Registered(cur)
        BY <1>5, <2>1, ObserveReceiptStep DEF ObserveSnapshot, Boundaries
    <2>2. CASE ~Registered(cur)
        BY <1>5, <2>2 DEF ObserveSnapshot, ReceiptStep
    <2>3. QED
        BY <2>1, <2>2
<1>6. CASE ApplyRefused \/ LeaseLost \/ ObserveFails
    BY <1>6 DEF ApplyRefused, LeaseLost, ObserveFails, ContainAndFail, ReceiptStep
<1>7. CASE Bind \/ FailEarly \/ HandleDropped \/ StopRefused
    BY <1>7 DEF Bind, FailEarly, HandleDropped, StopRefused, Fail, ReceiptStep
<1>8. CASE \/ DispatchAccepted \/ DispatchRejected \/ DispatchAmbiguous
           \/ DispatchDropped \/ Notify \/ Drain
    BY <1>8 DEF DispatchAccepted, DispatchRejected, DispatchAmbiguous,
                DispatchDropped, Notify, Drain, ReceiptStep
<1>9. CASE RequestCancel \/ Deadline \/ UNCHANGED vars
    BY <1>9 DEF RequestCancel, Deadline, vars, ReceiptStep
<1>10. CASE ProviderStep
    BY <1>10, ProviderShape DEF ReceiptStep
<1>11. QED
    BY <1>1, <1>2, <1>3, <1>4, <1>5, <1>6, <1>7, <1>8, <1>9, <1>10
       DEF Next, RouteStep, WaitStep

\* Receipts are never lost.
LEMMA ReceiptsGrow ==
    ASSUME TypeOK, ReceiptStep
    PROVE  receipts \subseteq receipts'
BY PersistAppends, JournalKept DEF ReceiptStep

-----------------------------------------------------------------------------
(* At most one provider, and none without its receipt.                       *)

\* Only the current candidate can have started, and only from its dispatch on;
\* a rejection that the runner holds is a proof that it did not.
SingleRun ==
    /\ \A c \in Candidates : run[c] # "idle" => c = cur
    /\ step \in {"resolving", "begin", "preflight", "dispatch"}
           => \A c \in Candidates : run[c] = "idle"
    /\ step = "observed" /\ obs = "RejectedNoTaskStarted" => run[cur] = "idle"

\* A dispatch is under way only for a plan that is recorded.
PlanRecorded ==
    /\ step = "dispatch" => [order |-> cur, reason |-> "Eligible"] \in receipts
    /\ EffectAfterReceipt

RunInv == TypeOK /\ SingleRun /\ PlanRecorded

\* A step that starts no run and neither moves the route nor the runner back
\* keeps the invariant.
LEMMA QuietKeepsRunInv ==
    ASSUME RunInv, run' \in [Candidates -> Runs], SameStarted(run, run'),
           cur' = cur, receipts \subseteq receipts', obs' = obs,
           \/ step' = step
           \/ step' \in {"waiting", "observing", "notify", "done"}
    PROVE  (SingleRun /\ PlanRecorded)'
BY DEF RunInv, TypeOK, SingleRun, PlanRecorded, EffectAfterReceipt, SameStarted

\* The dispatch of a recorded plan may start the current candidate.
LEMMA DispatchKeepsRunInv ==
    ASSUME RunInv, step = "dispatch", NEW r, run' = [run EXCEPT ![cur] = r],
           cur' = cur, receipts \subseteq receipts',
           step' \in {"observed", "done"},
           obs' = "RejectedNoTaskStarted" => step' = "done"
    PROVE  (SingleRun /\ PlanRecorded)'
BY DEF RunInv, TypeOK, SingleRun, PlanRecorded, EffectAfterReceipt

\* A rejection moves the route on with every run still idle.
LEMMA AdvanceKeepsRunInv ==
    ASSUME RunInv, AdvanceAfterRejection, UNCHANGED run, receipts \subseteq receipts',
           \A c \in Candidates : run[c] = "idle"
    PROVE  (SingleRun /\ PlanRecorded)'
BY DEF RunInv, TypeOK, SingleRun, PlanRecorded, EffectAfterReceipt,
       AdvanceAfterRejection

\* Every step keeps a single recorded provider.
LEMMA RunInvariant == Spec => []RunInv
<1>1. Init => RunInv
    <2>1. Init => SingleRun /\ PlanRecorded
        BY DEF Init, SingleRun, PlanRecorded, EffectAfterReceipt
    <2>2. QED
        BY <2>1, InitType DEF RunInv
<1>2. RunInv /\ TypeOK' /\ [Next]_vars => RunInv'
    <2> SUFFICES ASSUME RunInv, [Next]_vars
                 PROVE  (SingleRun /\ PlanRecorded)'
        BY DEF RunInv
    <2> USE DEF route, world, runner
    <2>0. TypeOK /\ run \in [Candidates -> Runs] /\ SameStarted(run, run)
        BY DEF RunInv, TypeOK, SameStarted
    <2>a. receipts \subseteq receipts'
        BY <2>0, ReceiptShape, ReceiptsGrow
    <2>1. CASE Bind \/ Begin
        BY <2>a, <2>1 DEF Bind, Begin, RunInv, SingleRun, PlanRecorded, EffectAfterReceipt
    <2>2. CASE PreflightEligible
        <3>1. "Eligible" \in Reasons
            BY DEF Reasons
        <3>2. [order |-> cur, reason |-> "Eligible"] \in receipts'
            BY <2>0, <2>2, <3>1, PersistAppends DEF PreflightEligible
        <3>3. QED
            BY <2>a, <2>2, <3>2 DEF PreflightEligible, RunInv, SingleRun, PlanRecorded,
                                    EffectAfterReceipt
    <2>3. CASE PreflightStops
        <3>1. CASE AdvanceAfterRejection
            BY <2>3, <3>1, <2>a, AdvanceKeepsRunInv DEF PreflightStops, RunInv, SingleRun
        <3>2. CASE Settle("NeedsAttention", "Inconclusive")
            BY <2>0, <2>a, <2>3, <3>2, QuietKeepsRunInv DEF PreflightStops, Settle
        <3>3. QED
            BY <2>3, <3>1, <3>2 DEF PreflightStops
    <2>4. CASE FailEarly \/ HandleDropped \/ StopRefused
        BY <2>0, <2>a, <2>4, QuietKeepsRunInv
           DEF FailEarly, HandleDropped, StopRefused, Fail, Return
    <2>5. CASE DispatchAccepted
        BY <2>5, <2>a, DispatchKeepsRunInv DEF DispatchAccepted
    <2>6. CASE DispatchRejected
        BY <2>0, <2>a, <2>6 DEF DispatchRejected, RunInv, SingleRun, PlanRecorded,
                          EffectAfterReceipt, TypeOK
    <2>7. CASE DispatchAmbiguous
        <3>1. PICK r : run' = [run EXCEPT ![cur] = r]
            BY <2>7 DEF DispatchAmbiguous
        <3>2. QED
            BY <2>7, <3>1, <2>a, DispatchKeepsRunInv DEF DispatchAmbiguous
    <2>8. CASE DispatchDropped
        <3>1. PICK r : run' = [run EXCEPT ![cur] = r]
            BY <2>8 DEF DispatchDropped
        <3>2. QED
            BY <2>8, <3>1, <2>a, DispatchKeepsRunInv DEF DispatchDropped, Return
    <2>9. CASE ApplyAccepted
        BY <2>0, <2>a, <2>9, QuietKeepsRunInv DEF ApplyAccepted
    <2>10. CASE ApplyRejected
        <3>1. \A c \in Candidates : run[c] = "idle"
            BY <2>10 DEF ApplyRejected, RunInv, SingleRun
        <3>2. QED
            BY <2>10, <3>1, <2>a, AdvanceKeepsRunInv DEF ApplyRejected
    <2>11. CASE ApplyAmbiguous
        BY <2>0, <2>a, <2>11, QuietKeepsRunInv DEF ApplyAmbiguous, Settle
    <2>12. CASE ApplyRefused \/ LeaseLost \/ ObserveFails
        <3>1. ContainAndFail
            BY <2>12 DEF ApplyRefused, LeaseLost, ObserveFails
        <3>2. QED
            BY <2>0, <2>a, <3>1, ContainKeepsStarted, QuietKeepsRunInv
               DEF ContainAndFail, Return
    <2>13. CASE Notify
        <3>1. run' \in [Candidates -> Runs] /\ SameStarted(run, run')
            BY <2>0, <2>a, <2>13, CleanupKeepsStarted DEF Notify
        <3>2. QED
            BY <2>a, <2>13, <3>1, QuietKeepsRunInv DEF Notify, ReturnCleaned, Return
    <2>14. CASE Cancel \/ TimeOut
        <3>1. PICK outcome : StopRun(outcome)
            BY <2>14 DEF Cancel, TimeOut
        <3>2. QED
            BY <2>0, <2>a, <3>1, StopKeepsStarted, QuietKeepsRunInv
               DEF StopRun, ReturnCleaned, Return
    <2>15. CASE Drain
        BY <2>0, <2>a, <2>15, QuietKeepsRunInv DEF Drain
    <2>16. CASE ObserveEvent
        BY <2>0, <2>a, <2>16, QuietKeepsRunInv DEF ObserveEvent
    <2>17. CASE ObserveSnapshot
        <3>2. run' \in [Candidates -> Runs] /\ SameStarted(run, run')
            BY <2>0, <2>a, <2>17, CleanupKeepsStarted DEF ObserveSnapshot
        <3>3. step' \in {"waiting", "done"}
            BY <2>17 DEF ObserveSnapshot, ReturnCleaned, Return
        <3>4. QED
            BY <2>a, <2>17, <3>2, <3>3, QuietKeepsRunInv DEF ObserveSnapshot
    <2>18. CASE RequestCancel \/ Deadline \/ UNCHANGED vars
        BY <2>0, <2>a, <2>18, QuietKeepsRunInv DEF RequestCancel, Deadline, vars
    <2>19. CASE ProviderStep
        BY <2>0, <2>a, <2>19, ProviderShape, QuietKeepsRunInv
    <2>20. QED
        BY <2>1, <2>2, <2>3, <2>4, <2>5, <2>6, <2>7, <2>8, <2>9, <2>10, <2>11,
           <2>12, <2>13, <2>14, <2>15, <2>16, <2>17, <2>18, <2>19
           DEF Next, RouteStep, WaitStep
<1>3. QED
    BY <1>1, <1>2, TypeCorrect, PTL DEF Spec

\* Lost handles, refused receipts, rejections, cancellations and timeouts never
\* let a second provider of the route work on the occurrence.
THEOREM OneProviderPerOccurrence == Spec => []AtMostOneProvider
<1>1. RunInv => AtMostOneProvider
    BY DEF RunInv, SingleRun, AtMostOneProvider
<1>2. QED
    BY <1>1, RunInvariant, PTL

\* No provider starts before its dispatch plan has a durable receipt.
THEOREM NoEffectBeforeReceipt == Spec => []EffectAfterReceipt
<1>1. RunInv => EffectAfterReceipt
    BY DEF RunInv, PlanRecorded
<1>2. QED
    BY <1>1, RunInvariant, PTL

-----------------------------------------------------------------------------
(* One terminal receipt, and a result that agrees with it.                   *)

\* What the durable history says of an attempt that needs attention.
AttentionBacked ==
    \/ \E r \in receipts : r.reason \in {"Failed", "Cancelled", "TimedOut",
                                         "Inconclusive"}
    \/ [order |-> NumCandidates, reason |-> "Rejected"] \in receipts

\* The receipt that ends the history is the last one; the phase agrees.
History ==
    /\ OneTerminalReceipt
    /\ (\E i \in DOMAIN journal : EndsHistory(journal[i])) => phase \in Ended
    /\ phase = "Completed" => HasRecorded("Succeeded")
    /\ phase = "NeedsAttention" => AttentionBacked

HistoryInv == TypeOK /\ History

\* Such a step keeps the history consistent.
LEMMA HistoryStep ==
    ASSUME HistoryInv, ReceiptStep
    PROVE  History'
<1>1. CASE UNCHANGED <<phase, journal>>
    BY <1>1, JournalKept
       DEF HistoryInv, History, OneTerminalReceipt, HasRecorded, AttentionBacked
<1>2. ASSUME phase \notin Ended, NEW reason \in Reasons, Persist(reason),
             IF EndsHistory([order |-> cur, reason |-> reason])
             THEN /\ phase' \in Ended
                  /\ phase' = "Completed" => reason = "Succeeded"
                  /\ phase' = "NeedsAttention"
                         => reason \in {"Failed", "Cancelled", "TimedOut",
                                        "Inconclusive", "Rejected"}
             ELSE phase' \notin Ended
      PROVE  History'
    <2> DEFINE r == [order |-> cur, reason |-> reason]
    <2>1. \A i \in DOMAIN journal : ~EndsHistory(journal[i])
        BY <1>2 DEF HistoryInv, History
    <2>2. /\ DOMAIN journal' = DOMAIN journal \cup {Len(journal')}
          /\ journal'[Len(journal')] = r
          /\ \A i \in DOMAIN journal : journal'[i] = journal[i]
          /\ receipts' = receipts \cup {r}
        BY <1>2, PersistAppends DEF HistoryInv
    <2>3. \A i \in DOMAIN journal' :
              EndsHistory(journal'[i]) => i = Len(journal') /\ EndsHistory(r)
        BY <2>1, <2>2
    <2>4. OneTerminalReceipt'
        BY <2>3 DEF OneTerminalReceipt, EndsHistory
    <2>5. (\E i \in DOMAIN journal' : EndsHistory(journal'[i])) => phase' \in Ended
        BY <1>2, <2>3
    <2>6. phase' = "Completed" => HasRecorded("Succeeded")'
        <3>1. HasRecorded("Succeeded")' <=> \E x \in receipts' : x.reason = "Succeeded"
            BY DEF HasRecorded
        <3>2. QED
            BY <1>2, <2>2, <3>1 DEF Ended
    <2>7. phase' = "NeedsAttention" => AttentionBacked'
        <3>1. ASSUME phase' = "NeedsAttention"
              PROVE  EndsHistory(r) /\ reason \in {"Failed", "Cancelled", "TimedOut",
                                                   "Inconclusive", "Rejected"}
            BY <1>2, <3>1 DEF Ended
        <3>2. EndsHistory(r) /\ reason = "Rejected" => cur = NumCandidates
            BY DEF EndsHistory, Terminal, Outcomes
        <3>3. r \in receipts'
            BY <2>2
        <3>4. QED
            BY <3>1, <3>2, <3>3 DEF AttentionBacked
    <2>8. QED
        BY <2>4, <2>5, <2>6, <2>7 DEF History, EndsHistory
<1>3. QED
    BY <1>1, <1>2 DEF ReceiptStep

\* The history is consistent at every step.
LEMMA HistoryInvariant == Spec => []HistoryInv
<1>1. Init => HistoryInv
    BY InitType DEF Init, HistoryInv, History, OneTerminalReceipt
<1>2. HistoryInv /\ TypeOK' /\ [Next]_vars => HistoryInv'
    BY ReceiptShape, HistoryStep DEF HistoryInv
<1>3. QED
    BY <1>1, <1>2, TypeCorrect, PTL DEF Spec

\* Cancellation, deadline, provider terminal and ambiguity never both end the
\* durable history of an attempt.
THEOREM HistoryEndsOnce == Spec => []OneTerminalReceipt
<1>1. HistoryInv => OneTerminalReceipt
    BY DEF HistoryInv, History
<1>2. QED
    BY <1>1, HistoryInvariant, PTL

\* What ResultBacked says of the receipts, and of a tab that is named.
ReportBacked ==
    /\ result = "Completed" =>
           /\ HasRecorded("Succeeded") /\ tab # "stuck"
           /\ cleanup => tab = "closed"
    /\ result = "CompletedWithAttention" =>
           AttentionBacked \/ (HasRecorded("Succeeded") /\ tab = "stuck")

\* The first terminal action of a drain, and what was returned, agree with the
\* history; a result is there only when the runner is done.
EndBacked ==
    /\ ended = "Completed" => HasRecorded("Succeeded")
    /\ ended = "CompletedWithAttention" => AttentionBacked
    /\ result # "none" \/ tab = "stuck" => step = "done"
    /\ ReportBacked

\* What the receipts say stays said.
LEMMA BackingStays ==
    ASSUME TypeOK, ReceiptStep
    PROVE  /\ HasRecorded("Succeeded") => HasRecorded("Succeeded")'
           /\ AttentionBacked => AttentionBacked'
<1>1. receipts \subseteq receipts'
    BY ReceiptsGrow
<1>2. HasRecorded("Succeeded")' <=> \E r \in receipts' : r.reason = "Succeeded"
    BY DEF HasRecorded
<1>3. QED
    BY <1>1, <1>2 DEF HasRecorded, AttentionBacked

\* A terminal action is backed once the history is.
LEMMA ActionBacked ==
    ASSUME History, NEW p, p = phase
    PROVE  /\ ResultOf(p) = "Completed" => HasRecorded("Succeeded")
           /\ ResultOf(p) = "CompletedWithAttention" => AttentionBacked
BY DEF History, ResultOf

\* An observation leaves a backed first terminal action.
LEMMA ObserveBacked ==
    ASSUME TypeOK, EndBacked, ReceiptStep, History', NEW outcome, NEW boundary,
           Observe(outcome, boundary)
    PROVE  /\ ended' = "Completed" => HasRecorded("Succeeded")'
           /\ ended' = "CompletedWithAttention" => AttentionBacked'
<1>1. CASE ended' = ended
    BY <1>1, BackingStays DEF EndBacked
<1>2. CASE ended' = ResultOf(phase')
    BY <1>2 DEF History, ResultOf
<1>3. QED
    BY <1>1, <1>2 DEF Observe

\* A cleaned return of a backed action is a backed result.
LEMMA ReturnBacked ==
    ASSUME NEW r, NEW ok \in BOOLEAN, ReturnCleaned(r, ok), cleanup' = cleanup,
           tab # "stuck",
           r = "Completed" => HasRecorded("Succeeded")',
           r = "CompletedWithAttention" => AttentionBacked'
    PROVE  ReportBacked' /\ step' = "done"
BY DEF ReturnCleaned, Return, TabAfterCleanup, ReportBacked, AttentionBacked

\* A step that returns nothing, or an error, claims nothing.
LEMMA SilentBacked ==
    ASSUME TypeOK, EndBacked, ReceiptStep, ended' = ended,
           \/ result' = "Error" /\ step' = "done"
           \/ result' = result /\ result = "none" /\ tab' # "stuck"
    PROVE  EndBacked'
BY BackingStays DEF EndBacked, ReportBacked

\* Every step keeps actions and results backed.
LEMMA BackedStep ==
    ASSUME TypeOK, EndBacked, History, History', [Next]_vars
    PROVE  EndBacked'
<1> USE DEF route, world, runner
<1>0. ReceiptStep
    BY ReceiptShape
<1>1. CASE \/ Bind \/ Begin \/ PreflightEligible \/ PreflightStops
           \/ DispatchAccepted \/ DispatchRejected \/ DispatchAmbiguous
           \/ ApplyAccepted \/ ApplyRejected \/ ApplyAmbiguous \/ Drain
    <2>1. step # "done"
        BY <1>1 DEF Bind, Begin, PreflightEligible, PreflightStops, DispatchAccepted,
                    DispatchRejected, DispatchAmbiguous, ApplyAccepted, ApplyRejected,
                    ApplyAmbiguous, Drain
    <2>2. result' = result /\ ended' = ended /\ tab' \in {tab, "open"}
        BY <1>1 DEF Bind, Begin, PreflightEligible, PreflightStops, DispatchAccepted,
                    DispatchRejected, DispatchAmbiguous, ApplyAccepted, ApplyRejected,
                    ApplyAmbiguous, Drain
    <2>3. QED
        BY <1>0, <2>1, <2>2, SilentBacked DEF EndBacked
<1>2. CASE \/ FailEarly \/ HandleDropped \/ StopRefused \/ DispatchDropped
           \/ ApplyRefused \/ LeaseLost \/ ObserveFails
    <2>1. result' = "Error" /\ step' = "done" /\ ended' = ended
        BY <1>2 DEF FailEarly, HandleDropped, StopRefused, DispatchDropped, Fail,
                    ApplyRefused, LeaseLost, ObserveFails, ContainAndFail, Return
    <2>2. QED
        BY <1>0, <2>1, SilentBacked
<1>3. CASE Notify
    <2>1. PICK ok \in BOOLEAN : ReturnCleaned(ResultOf(phase), ok)
        BY <1>3 DEF Notify
    <2>2. ended' = ended /\ cleanup' = cleanup /\ tab # "stuck"
        BY <1>3 DEF Notify, EndBacked
    <2>3. /\ ResultOf(phase) = "Completed" => HasRecorded("Succeeded")'
          /\ ResultOf(phase) = "CompletedWithAttention" => AttentionBacked'
        BY <1>0, ActionBacked, BackingStays
    <2>4. QED
        BY <1>0, <2>1, <2>2, <2>3, ReturnBacked, BackingStays DEF EndBacked
<1>4. CASE Cancel \/ TimeOut
    <2>1. PICK outcome : StopRun(outcome)
        BY <1>4 DEF Cancel, TimeOut
    <2>2. PICK abort \in AbortOutcomes, ok \in BOOLEAN :
            ReturnCleaned(IF abort = "Uncertain" THEN "OutcomeUnknown"
                                                 ELSE ResultOf(phase'), ok)
        BY <2>1 DEF StopRun
    <2>3. ended' = ended /\ cleanup' = cleanup /\ tab # "stuck"
        BY <1>4, <2>1 DEF StopRun, Cancel, TimeOut, EndBacked
    <2>4. /\ ResultOf(phase') = "Completed" => HasRecorded("Succeeded")'
          /\ ResultOf(phase') = "CompletedWithAttention" => AttentionBacked'
        BY DEF History, ResultOf
    <2>5. QED
        BY <1>0, <2>2, <2>3, <2>4, ReturnBacked, BackingStays DEF EndBacked
<1>5. CASE ObserveEvent
    <2>1. PICK outcome, boundary : Observe(outcome, boundary)
        BY <1>5 DEF ObserveEvent
    <2>2. step = "observing" /\ step' = step /\ result' = result /\ tab' = tab
        BY <1>5 DEF ObserveEvent
    <2>3. QED
        BY <1>0, <2>1, <2>2, ObserveBacked DEF EndBacked, ReportBacked
<1>6. CASE ObserveSnapshot
    <2>1. /\ ended' = "Completed" => HasRecorded("Succeeded")'
          /\ ended' = "CompletedWithAttention" => AttentionBacked'
        <3>1. CASE Registered(cur)
            BY <1>0, <1>6, <3>1, ObserveBacked DEF ObserveSnapshot
        <3>2. CASE ~Registered(cur)
            BY <1>0, <1>6, <3>2, BackingStays DEF ObserveSnapshot, EndBacked
        <3>3. QED
            BY <3>1, <3>2
    <2>2. CASE ended = "none"
        BY <1>6, <2>1, <2>2 DEF ObserveSnapshot, EndBacked, ReportBacked
    <2>3. CASE ended # "none"
        <3>1. PICK ok \in BOOLEAN : ReturnCleaned(ended, ok)
            BY <1>6, <2>3 DEF ObserveSnapshot
        <3>2. /\ ended = "Completed" => HasRecorded("Succeeded")'
              /\ ended = "CompletedWithAttention" => AttentionBacked'
            BY <1>0, BackingStays DEF EndBacked
        <3>3. cleanup' = cleanup /\ tab # "stuck"
            BY <1>6 DEF ObserveSnapshot, EndBacked
        <3>4. QED
            BY <2>1, <3>1, <3>2, <3>3, ReturnBacked DEF EndBacked
    <2>4. QED
        BY <2>2, <2>3
<1>7. CASE RequestCancel \/ Deadline \/ ProviderStep \/ UNCHANGED vars
    <2>1. UNCHANGED <<route, runner, tab>>
        BY <1>7, ProviderShape DEF RequestCancel, Deadline, vars
    <2>2. receipts' = receipts
        BY <2>1, JournalKept
    <2>3. QED
        BY <2>1, <2>2 DEF EndBacked, ReportBacked, HasRecorded, AttentionBacked
<1>8. QED
    BY <1>1, <1>2, <1>3, <1>4, <1>5, <1>6, <1>7 DEF Next, RouteStep, WaitStep

\* Actions and results are backed at every step.
LEMMA EndInvariant == Spec => []EndBacked
<1>1. Init => EndBacked
    BY DEF Init, EndBacked, ReportBacked
<1>2. HistoryInv /\ HistoryInv' /\ EndBacked /\ [Next]_vars => EndBacked'
    BY BackedStep DEF HistoryInv
<1>3. QED
    BY <1>1, <1>2, HistoryInvariant, PTL DEF Spec
===============================================================================
