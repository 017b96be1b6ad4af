--------------------------- MODULE TaskStore_proofs ---------------------------
(***************************************************************************)
(* Proofs about the Task store, for any number of definitions, revisions,   *)
(* instants and rollbacks, any lease duration, limit, schedule and policy.  *)
(***************************************************************************)
EXTENDS TaskStore, FiniteSetTheorems, TLAPS

USE ConstantsAssumption

-----------------------------------------------------------------------------
(* Type correctness.                                                         *)

\* Marking rows outcomeUnknown keeps the types: a valid terminal receipt has
\* the revision of its row.
LEMMA MarkUnknownType ==
    ASSUME TypeOK, NEW S \in SUBSET OccId, MarkUnknown(S)
    PROVE  /\ occ' \in [OccId -> Occurrence]
           /\ terminal' \in [OccId -> Receipt \cup {NoReceipt}]
           /\ attention' \subseteq Fact
           /\ defs' = defs /\ now' = now /\ rollbacks' = rollbacks
<1>1. \A o \in S : o.revision \in Revisions
    BY DEF OccId
<1>2. \A o \in S : TerminalReceipt(o, "OutcomeUnknown") \in Receipt
    BY <1>1 DEF MarkUnknown, TerminalIsValid, TerminalReceipt, Receipt, Finished
<1>3. terminal' \in [OccId -> Receipt \cup {NoReceipt}]
    BY <1>2 DEF MarkUnknown, TypeOK
<1>4. \A o \in OccId : EndedRow(o, "OutcomeUnknown") \in Occurrence
    BY DEF TypeOK, EndedRow, Occurrence, OccStates
<1>5. occ' \in [OccId -> Occurrence]
    <2>1. ASSUME NEW o \in OccId
          PROVE  occ'[o] \in Occurrence
        BY <1>4 DEF MarkUnknown, TypeOK
    <2>2. QED
        BY <2>1 DEF MarkUnknown
<1>6. \A o \in S : UnknownFact(o) \in Fact
    BY DEF UnknownFact, Fact, Sources
<1>7. attention' \subseteq Fact
    BY <1>6 DEF MarkUnknown, TypeOK
<1>8. QED
    BY <1>3, <1>5, <1>7 DEF MarkUnknown

\* The store never holds a malformed record, whatever the interleaving.
THEOREM TypeCorrect == Spec => []TypeOK
<1>1. Init => TypeOK
    BY DEF Init, TypeOK, NoDefinition, NoOccurrence, Definition, Occurrence,
           Statuses, OccStates, Times
<1>2. TypeOK /\ [Next]_vars => TypeOK'
    <2> SUFFICES ASSUME TypeOK, [Next]_vars
                 PROVE  TypeOK'
        OBVIOUS
    <2> USE DEF TypeOK
    <2>1. ASSUME NEW t \in Tasks, Create(t)
          PROVE  TypeOK'
        BY <2>1 DEF Create, NewRevision, Definition, Statuses, Times
    <2>2. ASSUME NEW t \in Tasks, NEW r \in Revisions, Revise(t, r)
          PROVE  TypeOK'
        BY <2>2 DEF Revise, NewRevision, Definition, Times, Revisions
    <2>3. ASSUME NEW t \in Tasks, NEW status \in {"active", "paused"},
                 SetPaused(t, status)
          PROVE  TypeOK'
        BY <2>3 DEF SetPaused, Definition, Statuses
    <2>4. ASSUME NEW t \in Tasks, Delete(t)
          PROVE  TypeOK'
        BY <2>4 DEF Delete, Definition, Statuses
    <2>5. ASSUME NEW t \in Tasks, NEW r \in Revisions, CreateManual(t, r)
          PROVE  TypeOK'
        <3>1. PendingRow \in Occurrence
            BY DEF PendingRow, NoOccurrence, Occurrence, OccStates
        <3>2. QED
            BY <2>5, <3>1 DEF CreateManual
    <2>6. CASE PlanDue
        <3>1. PendingRow \in Occurrence
            BY DEF PendingRow, NoOccurrence, Occurrence, OccStates
        <3>2. occ' \in [OccId -> Occurrence]
            BY <2>6, <3>1 DEF PlanDue
        <3>3. defs' \in [Tasks -> Definition]
            BY <2>6 DEF PlanDue, Definition, Times
        <3>4. attention' \subseteq Fact
            BY <2>6 DEF PlanDue, MissedFacts
        <3>5. QED
            BY <2>6, <3>2, <3>3, <3>4 DEF PlanDue
    <2>7. ASSUME NEW o \in OccId, ClaimPending(o)
          PROVE  TypeOK'
        <3>1. occ' \in [OccId -> Occurrence]
            BY <2>7 DEF ClaimPending, LeasedRow, Occurrence, OccStates, Times
        <3>2. held' \in [OccId -> Nat]
            BY <2>7 DEF ClaimPending, Occurrence
        <3>3. QED
            BY <2>7, <3>1, <3>2 DEF ClaimPending
    <2>8. ASSUME NEW o \in OccId, ClaimExpired(o)
          PROVE  TypeOK'
        BY <2>8, MarkUnknownType DEF ClaimExpired
    <2>9. ASSUME NEW o \in OccId, Heartbeat(o)
          PROVE  TypeOK'
        BY <2>9 DEF Heartbeat, LeasedRow, Occurrence, OccStates, Times
    <2>10. ASSUME NEW o \in OccId, NEW v \in Verdicts, ProviderDecision(o, v)
           PROVE  TypeOK'
        BY <2>10 DEF ProviderDecision, DecisionFacts, Fact, Sources
    <2>11. ASSUME NEW o \in OccId, Complete(o)
           PROVE  TypeOK'
        <3>1. TerminalReceipt(o, "Completed") \in Receipt
            BY <2>11 DEF Complete, TerminalIsValid, TerminalReceipt, Receipt,
                         Finished, OccId
        <3>2. EndedRow(o, "Completed") \in Occurrence
            BY DEF EndedRow, Occurrence, OccStates
        <3>3. QED
            BY <2>11, <3>1, <3>2 DEF Complete, Released
    <2>12. ASSUME NEW o \in OccId, LateCall(o)
           PROVE  TypeOK'
        BY <2>12, MarkUnknownType DEF LateCall, Released
    <2>13. ASSUME NEW o \in OccId, GiveUp(o)
           PROVE  TypeOK'
        BY <2>13, MarkUnknownType DEF GiveUp, Released
    <2>14. ASSUME NEW o \in OccId, Refused(o)
           PROVE  TypeOK'
        BY <2>14 DEF Refused, Released, durable
    <2>15. CASE Reconcile
        BY <2>15, MarkUnknownType DEF Reconcile, ExpiredRuns, ActiveRuns
    <2>16. CASE Crash
        BY <2>16 DEF Crash, durable
    <2>17. CASE Open
        BY <2>17, MarkUnknownType DEF Open, ExpiredRuns, ActiveRuns
    <2>18. CASE Tick
        BY <2>18 DEF Tick, durable, Times
    <2>19. CASE SetBack
        BY <2>19 DEF SetBack, durable, Times
    <2>20. CASE UNCHANGED vars
        BY <2>20 DEF vars
    <2>21. QED
        BY <2>1, <2>2, <2>3, <2>4, <2>5, <2>6, <2>7, <2>8, <2>9, <2>10, <2>11,
           <2>12, <2>13, <2>14, <2>15, <2>16, <2>17, <2>18, <2>19, <2>20
           DEF Next, DefinitionStep, AttemptStep
<1>3. QED
    BY <1>1, <1>2, PTL DEF Spec

-----------------------------------------------------------------------------
(* What one step can do to one row.  Every further invariant of a row follows *)
(* from this case split, without looking at the actions again.               *)

\* The ends of a running row: its task was not revised since it was entered,
\* and the receipt and the attention come with the end.
EndStep(o) ==
    /\ occ[o].state = "Running" /\ IsCurrent(o)
    /\ occ'[o].attempts = occ[o].attempts
    /\ occ'[o].state \in Finished
    /\ terminal'[o] = [kind |-> occ'[o].state, revision |-> o.revision]
    /\ occ'[o].state = "OutcomeUnknown" => UnknownFact(o) \in attention'
    /\ occ'[o].state = "Completed" => held[o] # 0

RowStep(o) ==
    \/ occ'[o] = occ[o] /\ terminal'[o] = terminal[o]
    \/ /\ occ[o].state = "Absent" /\ occ'[o] = PendingRow
       /\ terminal'[o] = terminal[o]
    \/ /\ occ[o].state = "Pending" /\ occ'[o].state = "Running"
       /\ occ'[o].attempts = occ[o].attempts + 1
       /\ terminal'[o] = terminal[o]
    \/ /\ occ[o].state = "Running" /\ occ'[o].state = "Running"
       /\ occ'[o].attempts = occ[o].attempts
       /\ terminal'[o] = terminal[o]
    \/ EndStep(o)

\* A valid marking ends exactly the rows of its set.
LEMMA MarkUnknownStep ==
    ASSUME TypeOK, NEW S \in SUBSET ActiveRuns, MarkUnknown(S)
    PROVE  /\ \A o \in OccId : RowStep(o)
           /\ attention \subseteq attention'
<1>1. S \subseteq OccId
    BY DEF ActiveRuns
<1>2. ASSUME NEW o \in S
      PROVE  EndStep(o)
    <2>1. occ'[o] = EndedRow(o, "OutcomeUnknown") /\ occ[o].state = "Running"
        BY <1>1 DEF MarkUnknown, ActiveRuns
    <2>2. occ'[o].state = "OutcomeUnknown" /\ occ'[o].attempts = occ[o].attempts
        BY <2>1 DEF EndedRow
    <2>3. defs[o.task].revision = o.revision
        BY DEF MarkUnknown, TerminalIsValid, TerminalReceipt
    <2>4. terminal'[o] = [kind |-> "OutcomeUnknown", revision |-> o.revision]
        BY <1>1, <2>3 DEF MarkUnknown, TerminalReceipt
    <2>5. UnknownFact(o) \in attention'
        BY DEF MarkUnknown
    <2>6. QED
        BY <2>1, <2>2, <2>3, <2>4, <2>5 DEF EndStep, Finished, IsCurrent
<1>3. ASSUME NEW o \in OccId \ S
      PROVE  occ'[o] = occ[o] /\ terminal'[o] = terminal[o]
    BY DEF MarkUnknown
<1>4. QED
    BY <1>2, <1>3 DEF MarkUnknown, RowStep

\* Every step changes a row in one of the ways of RowStep, whatever the action.
LEMMA StepShape ==
    ASSUME TypeOK, [Next]_vars
    PROVE  /\ \A o \in OccId : RowStep(o)
           /\ attention \subseteq attention'
<1> USE DEF TypeOK
<1>1. CASE UNCHANGED <<occ, terminal, attention>>
    BY <1>1 DEF RowStep
<1>2. CASE DefinitionStep
    BY <1>1, <1>2 DEF DefinitionStep, Create, Revise, SetPaused, Delete
<1>3. ASSUME NEW t \in Tasks, NEW r \in Revisions, CreateManual(t, r)
      PROVE  /\ \A o \in OccId : RowStep(o)
             /\ attention \subseteq attention'
    BY <1>3 DEF CreateManual, RowStep
<1>4. CASE PlanDue
    BY <1>4 DEF PlanDue, Planned, RowStep
<1>5. ASSUME NEW o \in OccId, ClaimPending(o)
      PROVE  /\ \A x \in OccId : RowStep(x)
             /\ attention \subseteq attention'
    BY <1>5 DEF ClaimPending, LeasedRow, RowStep
<1>6. ASSUME NEW o \in OccId, Heartbeat(o)
      PROVE  /\ \A x \in OccId : RowStep(x)
             /\ attention \subseteq attention'
    BY <1>6 DEF Heartbeat, LeasedRow, RowStep, OwnsLease
<1>7. ASSUME NEW o \in OccId, NEW v \in Verdicts, ProviderDecision(o, v)
      PROVE  /\ \A x \in OccId : RowStep(x)
             /\ attention \subseteq attention'
    BY <1>7 DEF ProviderDecision, RowStep
<1>8. ASSUME NEW o \in OccId, Complete(o)
      PROVE  /\ \A x \in OccId : RowStep(x)
             /\ attention \subseteq attention'
    <2>1. occ[o].state = "Running" /\ held[o] # 0
        BY <1>8 DEF Complete, OwnsLease
    <2>2. occ'[o] = EndedRow(o, "Completed")
        BY <1>8 DEF Complete
    <2>3. /\ terminal'[o] = [kind |-> "Completed", revision |-> o.revision]
          /\ IsCurrent(o)
        BY <1>8 DEF Complete, TerminalIsValid, TerminalReceipt, IsCurrent
    <2>4. EndStep(o)
        BY <2>1, <2>2, <2>3 DEF EndedRow, EndStep, Finished
    <2>5. \A x \in OccId \ {o} : occ'[x] = occ[x] /\ terminal'[x] = terminal[x]
        BY <1>8 DEF Complete
    <2>6. QED
        BY <1>8, <2>4, <2>5 DEF Complete, RowStep
<1>9. ASSUME NEW o \in OccId, ClaimExpired(o) \/ LateCall(o) \/ GiveUp(o)
      PROVE  /\ \A x \in OccId : RowStep(x)
             /\ attention \subseteq attention'
    <2>1. MarkUnknown({o}) /\ {o} \in SUBSET ActiveRuns
        BY <1>9 DEF ClaimExpired, LateCall, GiveUp, OwnsLease, ActiveRuns
    <2>2. QED
        BY <2>1, MarkUnknownStep
<1>10. CASE Reconcile \/ Open
    <2>1. MarkUnknown(ExpiredRuns) /\ ExpiredRuns \in SUBSET ActiveRuns
        BY <1>10 DEF Reconcile, Open, ExpiredRuns
    <2>2. QED
        BY <2>1, MarkUnknownStep
<1>11. ASSUME NEW o \in OccId, Refused(o)
       PROVE  UNCHANGED <<occ, terminal, attention>>
    BY <1>11 DEF Refused, durable
<1>12. CASE Crash \/ Tick \/ SetBack
    BY <1>1, <1>12 DEF Crash, Tick, SetBack, durable
<1>13. CASE UNCHANGED vars
    BY <1>1, <1>13 DEF vars
<1>14. QED
    BY <1>1, <1>2, <1>3, <1>4, <1>5, <1>6, <1>7, <1>8, <1>9, <1>10, <1>11,
       <1>12, <1>13 DEF Next, AttemptStep

-----------------------------------------------------------------------------
(* Rows, leases and evidence.                                                *)

\* The strengthening: attempts are counted by the state of the row.
RowShape ==
    \A o \in OccId :
        occ[o].attempts = IF occ[o].state \in {"Absent", "Pending"} THEN 0 ELSE 1

RowInv == TypeOK /\ RowShape /\ EvidenceMatches

\* The rows stay typed, well shaped and backed by their own receipts.
LEMMA RowInvariant == Spec => []RowInv
<1>1. Init => RowInv
    <2>1. Init => TypeOK
        BY DEF Init, TypeOK, NoDefinition, NoOccurrence, Definition, Occurrence,
               Statuses, OccStates, Times
    <2>2. QED
        BY <2>1 DEF Init, RowInv, RowShape, EvidenceMatches, NoOccurrence, Finished
<1>2. RowInv /\ TypeOK' /\ [Next]_vars => RowInv'
    <2> SUFFICES ASSUME RowInv, TypeOK', [Next]_vars
                 PROVE  RowShape' /\ EvidenceMatches'
        BY DEF RowInv
    <2>1. /\ \A o \in OccId : RowStep(o)
          /\ attention \subseteq attention'
        BY StepShape DEF RowInv
    <2>2. ASSUME NEW o \in OccId
          PROVE  occ'[o].attempts =
                   IF occ'[o].state \in {"Absent", "Pending"} THEN 0 ELSE 1
        <3> USE DEF RowInv, RowShape, Finished
        <3>1. CASE occ'[o] = occ[o]
            BY <3>1
        <3>2. CASE occ'[o] = PendingRow
            BY <3>2 DEF PendingRow, NoOccurrence
        <3>3. CASE /\ occ[o].state = "Pending" /\ occ'[o].state = "Running"
                   /\ occ'[o].attempts = occ[o].attempts + 1
            BY <3>3
        <3>4. CASE /\ occ[o].state = "Running"
                   /\ occ'[o].attempts = occ[o].attempts
                   /\ occ'[o].state \in {"Running", "Completed", "OutcomeUnknown"}
            BY <3>4
        <3>5. QED
            BY <2>1, <3>1, <3>2, <3>3, <3>4 DEF RowStep, EndStep
    <2>3. ASSUME NEW o \in OccId
          PROVE  /\ terminal'[o] =
                      IF occ'[o].state \in Finished
                      THEN [kind |-> occ'[o].state, revision |-> o.revision]
                      ELSE NoReceipt
                 /\ occ'[o].state = "OutcomeUnknown" =>
                        UnknownFact(o) \in attention'
        <3> USE DEF RowInv, EvidenceMatches, Finished
        <3>1. CASE occ'[o] = occ[o] /\ terminal'[o] = terminal[o]
            BY <2>1, <3>1
        <3>2. CASE EndStep(o)
            BY <3>2 DEF EndStep
        <3>3. QED
            BY <2>1, <3>1, <3>2 DEF RowStep, PendingRow, NoOccurrence
    <2>4. QED
        BY <2>2, <2>3 DEF RowShape, EvidenceMatches, UnknownFact
<1>3. QED
    BY <1>1, <1>2, TypeCorrect, PTL DEF Spec

\* A finished row is backed by its own terminal receipt, nothing else is, and
\* an unknown outcome has opened attention.
THEOREM EvidenceAlwaysMatches == Spec => []EvidenceMatches
BY RowInvariant, PTL DEF RowInv

\* No retry, restart, expiry or late call starts a row twice.
THEOREM NeverRunTwice == Spec => []AtMostOneAttempt
<1>1. RowInv => AtMostOneAttempt
    BY DEF RowInv, RowShape, AtMostOneAttempt
<1>2. QED
    BY <1>1, RowInvariant, PTL

\* Finished rows, their evidence and attention facts are immutable.
THEOREM FinishedStaysFinished == Spec => FinishedForever
<1>1. TypeOK /\ [Next]_vars =>
        [/\ \A o \in OccId : occ[o].state \in Finished =>
               occ'[o] = occ[o] /\ terminal'[o] = terminal[o]
         /\ attention \subseteq attention']_vars
    BY StepShape DEF RowStep, EndStep, Finished
<1>2. QED
    BY <1>1, TypeCorrect, PTL DEF Spec, FinishedForever

-----------------------------------------------------------------------------
(* The store implements the life of a row.                                   *)

\* A step in which rows at most enter is a step of the abstract specification.
LEMMA EnterImplements ==
    ASSUME \A o \in OccId : \/ occ'[o].state = occ[o].state
                            \/ occ[o].state = "Absent" /\ occ'[o].state = "Pending"
    PROVE  Lifecycle!Enter(Lifecycle!Changed)
BY DEF Lifecycle!Enter, Lifecycle!Changed, Lifecycle!Move

\* So is a step in which rows at most become unknown.
LEMMA AbandonImplements ==
    ASSUME \A o \in OccId :
               \/ occ'[o].state = occ[o].state
               \/ occ[o].state = "Running" /\ occ'[o].state = "OutcomeUnknown"
    PROVE  Lifecycle!Abandon(Lifecycle!Changed)
BY DEF Lifecycle!Abandon, Lifecycle!Changed, Lifecycle!Move

\* Marking running rows unknown is the abstract Abandon of the same rows.
LEMMA MarkUnknownImplements ==
    ASSUME NEW S \in SUBSET ActiveRuns, MarkUnknown(S)
    PROVE  Lifecycle!Next
<1>1. ASSUME NEW o \in OccId
      PROVE  \/ occ'[o].state = occ[o].state
             \/ occ[o].state = "Running" /\ occ'[o].state = "OutcomeUnknown"
    <2>1. CASE o \in S
        BY <2>1 DEF MarkUnknown, EndedRow, ActiveRuns
    <2>2. CASE o \notin S
        BY <2>2 DEF MarkUnknown
    <2>3. QED
        BY <2>1, <2>2
<1>2. QED
    BY <1>1, AbandonImplements DEF Lifecycle!Next

\* The capacity that a claim checks is the capacity of the abstract Start.
LEMMA ClaimImplements ==
    ASSUME TypeOK, NEW o \in OccId, ClaimPending(o)
    PROVE  Lifecycle!Start(o)
<1>1. Lifecycle!Running = ActiveRuns
    BY DEF Lifecycle!Running, ActiveRuns
<1>2. Lifecycle!Move({o}, "Pending", "Running")
    BY DEF ClaimPending, LeasedRow, Lifecycle!Move, TypeOK
<1>3. \A r \in ActiveRuns : [x \in OccId |-> x.task][r] # [x \in OccId |-> x.task][o]
    BY DEF ClaimPending, HasCapacity, ActiveRuns
<1>4. Lifecycle!Cardinality(ActiveRuns) = Cardinality(ActiveRuns)
    BY DEF Lifecycle!Cardinality, Cardinality
<1>5. QED
    BY <1>1, <1>2, <1>3, <1>4 DEF ClaimPending, HasCapacity, Lifecycle!Start

\* Every step maps to a step of the abstract specification or to a stutter.
LEMMA StepImplements ==
    ASSUME TypeOK, [Next]_vars
    PROVE  \/ Lifecycle!Next
           \/ [o \in OccId |-> occ[o].state]' = [o \in OccId |-> occ[o].state]
<1>1. CASE UNCHANGED occ
    BY <1>1
<1>2. ASSUME NEW t \in Tasks, NEW r \in Revisions, CreateManual(t, r)
      PROVE  Lifecycle!Next
    <2>1. \A o \in OccId : \/ occ'[o].state = occ[o].state
                           \/ occ[o].state = "Absent" /\ occ'[o].state = "Pending"
        BY <1>2 DEF CreateManual, PendingRow, NoOccurrence, TypeOK
    <2>2. QED
        BY <2>1, EnterImplements DEF Lifecycle!Next
<1>3. CASE PlanDue
    <2>1. \A o \in OccId : \/ occ'[o].state = occ[o].state
                           \/ occ[o].state = "Absent" /\ occ'[o].state = "Pending"
        BY <1>3 DEF PlanDue, Planned, PendingRow, NoOccurrence
    <2>2. QED
        BY <2>1, EnterImplements DEF Lifecycle!Next
<1>4. ASSUME NEW o \in OccId, ClaimPending(o)
      PROVE  Lifecycle!Next
    BY <1>4, ClaimImplements DEF Lifecycle!Next
<1>5. ASSUME NEW o \in OccId, Heartbeat(o)
      PROVE  [x \in OccId |-> occ[x].state]' = [x \in OccId |-> occ[x].state]
    BY <1>5 DEF Heartbeat, LeasedRow, OwnsLease, TypeOK
<1>6. ASSUME NEW o \in OccId, Complete(o)
      PROVE  Lifecycle!Next
    <2>1. Lifecycle!Move({o}, "Running", "Completed")
        BY <1>6 DEF Complete, OwnsLease, EndedRow, Lifecycle!Move, TypeOK
    <2>2. QED
        BY <2>1 DEF Lifecycle!Succeed, Lifecycle!Next
<1>7. ASSUME NEW o \in OccId, ClaimExpired(o) \/ LateCall(o) \/ GiveUp(o)
      PROVE  Lifecycle!Next
    <2>1. MarkUnknown({o}) /\ {o} \in SUBSET ActiveRuns
        BY <1>7 DEF ClaimExpired, LateCall, GiveUp, OwnsLease, ActiveRuns
    <2>2. QED
        BY <2>1, MarkUnknownImplements
<1>8. CASE Reconcile \/ Open
    <2>1. MarkUnknown(ExpiredRuns) /\ ExpiredRuns \in SUBSET ActiveRuns
        BY <1>8 DEF Reconcile, Open, ExpiredRuns
    <2>2. QED
        BY <2>1, MarkUnknownImplements
<1>9. CASE DefinitionStep
    BY <1>1, <1>9 DEF DefinitionStep, Create, Revise, SetPaused, Delete
<1>10. ASSUME NEW o \in OccId,
              Refused(o) \/ \E v \in Verdicts : ProviderDecision(o, v)
       PROVE  UNCHANGED occ
    BY <1>10 DEF Refused, ProviderDecision, durable
<1>11. CASE Crash \/ Tick \/ SetBack \/ UNCHANGED vars
    BY <1>1, <1>11 DEF Crash, Tick, SetBack, durable, vars
<1>12. QED
    BY <1>1, <1>2, <1>3, <1>4, <1>5, <1>6, <1>7, <1>8, <1>9, <1>10, <1>11
       DEF Next, AttemptStep

\* The store with its leases, plans, revisions and crashes implements the
\* plain life of a row.
THEOREM StoreImplementsLifecycle == Spec => ImplementsLifecycle
<1>1. Init => Lifecycle!Init
    BY DEF Init, Lifecycle!Init, NoOccurrence
<1>2. TypeOK /\ [Next]_vars => [Lifecycle!Next]_([o \in OccId |-> occ[o].state])
    BY StepImplements
<1>3. QED
    BY <1>1, <1>2, TypeCorrect, PTL DEF Spec, ImplementsLifecycle, Lifecycle!Spec

-----------------------------------------------------------------------------
(* Capacity.                                                                 *)

\* The row identities of any instance are finitely many.
LEMMA OccIdFinite == IsFiniteSet(OccId)
<1>1. IsFiniteSet(Tasks) /\ IsFiniteSet(Revisions) /\ IsFiniteSet(Times)
    BY FS_Interval DEF Tasks, Revisions, Times
<1> DEFINE Pairs == Tasks \X Revisions
           Triples == Pairs \X Times
           Id == [p \in Triples |-> [task |-> p[1][1], revision |-> p[1][2], at |-> p[2]]]
<1>2. IsFiniteSet(Triples)
    BY <1>1, FS_Product
<1>3. Id \in Surjection(Triples, OccId)
    <2>1. \A p \in Triples : Id[p] \in OccId
        BY DEF OccId
    <2>2. ASSUME NEW o \in OccId
          PROVE  \E p \in Triples : Id[p] = o
        <3>1. <<<<o.task, o.revision>>, o.at>> \in Triples
            BY DEF OccId
        <3>2. Id[<<<<o.task, o.revision>>, o.at>>] = o
            BY <3>1 DEF OccId
        <3>3. QED
            BY <3>1, <3>2
    <2>3. QED
        BY <2>1, <2>2 DEF Surjection
<1> HIDE DEF Triples, Id
<1>4. QED
    BY <1>2, <1>3, FS_Surjection

\* Only a claim adds a running row, and it adds one that the capacity admits.
LEMMA ActiveStep ==
    ASSUME TypeOK, [Next]_vars
    PROVE  \/ ActiveRuns' \subseteq ActiveRuns
           \/ \E o \in OccId : /\ ActiveRuns' = ActiveRuns \cup {o}
                               /\ o \notin ActiveRuns
                               /\ Cardinality(ActiveRuns) < GlobalLimit
                               /\ \A r \in ActiveRuns : r.task # o.task
<1> USE DEF ActiveRuns
<1>1. CASE UNCHANGED occ
    BY <1>1
<1>2. CASE \E t \in Tasks, r \in Revisions : CreateManual(t, r)
    BY <1>2 DEF CreateManual, PendingRow, NoOccurrence, TypeOK
<1>3. CASE PlanDue
    BY <1>3 DEF PlanDue, PendingRow, NoOccurrence
<1>4. ASSUME NEW o \in OccId, ClaimPending(o)
      PROVE  /\ ActiveRuns' = ActiveRuns \cup {o}
             /\ o \notin ActiveRuns
             /\ Cardinality(ActiveRuns) < GlobalLimit
             /\ \A r \in ActiveRuns : r.task # o.task
    BY <1>4 DEF ClaimPending, HasCapacity, LeasedRow, TypeOK
<1>5. ASSUME NEW o \in OccId, Heartbeat(o) \/ Complete(o)
      PROVE  ActiveRuns' \subseteq ActiveRuns
    BY <1>5 DEF Heartbeat, Complete, OwnsLease, TypeOK
<1>6. ASSUME NEW S \in SUBSET OccId, MarkUnknown(S)
      PROVE  ActiveRuns' \subseteq ActiveRuns
    BY <1>6 DEF MarkUnknown, EndedRow
<1>7. ASSUME NEW o \in OccId, ClaimExpired(o) \/ LateCall(o) \/ GiveUp(o)
      PROVE  ActiveRuns' \subseteq ActiveRuns
    BY <1>6, <1>7 DEF ClaimExpired, LateCall, GiveUp
<1>8. CASE Reconcile \/ Open
    BY <1>6, <1>8 DEF Reconcile, Open, ExpiredRuns
<1>9. CASE DefinitionStep \/ Crash \/ Tick \/ SetBack \/ UNCHANGED vars
    BY <1>1, <1>9 DEF DefinitionStep, Create, Revise, SetPaused, Delete, Crash,
                      Tick, SetBack, durable, vars
<1>10. ASSUME NEW o \in OccId,
              Refused(o) \/ \E v \in Verdicts : ProviderDecision(o, v)
       PROVE  UNCHANGED occ
    BY <1>10 DEF Refused, ProviderDecision, durable
<1>11. QED
    BY <1>1, <1>2, <1>3, <1>4, <1>5, <1>7, <1>8, <1>9, <1>10
       DEF Next, AttemptStep

\* However claims interleave with plans, restarts and late calls, the running
\* rows stay within the global limit and within one per task.
THEOREM CapacityAlwaysRespected == Spec => []CapacityRespected
<1>1. Init => CapacityRespected
    <2>1. Init => ActiveRuns = {}
        BY DEF Init, ActiveRuns, NoOccurrence
    <2>2. QED
        BY <2>1, FS_EmptySet DEF CapacityRespected
<1>2. TypeOK /\ CapacityRespected /\ [Next]_vars => CapacityRespected'
    <2> SUFFICES ASSUME TypeOK, CapacityRespected, [Next]_vars
                 PROVE  CapacityRespected'
        OBVIOUS
    <2>1. IsFiniteSet(ActiveRuns)
        BY OccIdFinite, FS_Subset DEF ActiveRuns
    <2>2. CASE ActiveRuns' \subseteq ActiveRuns
        <3>1. /\ IsFiniteSet(ActiveRuns')
              /\ Cardinality(ActiveRuns') <= Cardinality(ActiveRuns)
            BY <2>1, <2>2, FS_Subset
        <3>2. Cardinality(ActiveRuns') \in Nat /\ Cardinality(ActiveRuns) \in Nat
            BY <2>1, <3>1, FS_CardinalityType
        <3>3. Cardinality(ActiveRuns') <= GlobalLimit
            BY <3>1, <3>2 DEF CapacityRespected
        <3>4. QED
            BY <2>2, <3>3 DEF CapacityRespected
    <2>3. ASSUME NEW o \in OccId, ActiveRuns' = ActiveRuns \cup {o},
                 o \notin ActiveRuns, Cardinality(ActiveRuns) < GlobalLimit,
                 \A r \in ActiveRuns : r.task # o.task
          PROVE  CapacityRespected'
        <3>1. Cardinality(ActiveRuns') = Cardinality(ActiveRuns) + 1
            BY <2>1, <2>3, FS_AddElement
        <3>2. Cardinality(ActiveRuns) \in Nat
            BY <2>1, FS_CardinalityType
        <3>3. Cardinality(ActiveRuns') <= GlobalLimit
            BY <2>3, <3>1, <3>2
        <3>4. QED
            BY <2>3, <3>3 DEF CapacityRespected
    <2>4. QED
        BY <2>2, <2>3, ActiveStep
<1>3. QED
    BY <1>1, <1>2, TypeCorrect, PTL DEF Spec

-----------------------------------------------------------------------------
(* One plan fits the capacity.                                               *)

\* A set of numbers up to n has a greatest element (from the well-founded order
\* of the naturals, turned round).
LEMMA GreatestOf ==
    ASSUME NEW n \in Nat, NEW S \in SUBSET (1..n), S # {}
    PROVE  \E m \in S : \A t \in S : t <= m
<1> DEFINE Below == {ss \in Nat \X Nat : ss[1] < ss[2]}
           Left  == {n - t : t \in S}
<1>1. IsWellFoundedOn(Below, Nat)
    BY NatLessThanWellFounded DEF OpToRel
<1>2. \A t \in S : t \in Int /\ n - t \in Nat /\ n - t \in Left
    OBVIOUS
<1>3. Left \subseteq Nat /\ Left # {}
    BY <1>2
<1> HIDE DEF Left
<1>4. PICK x \in Left : \A y \in Left : ~(<<y, x>> \in Below)
    <2> HIDE DEF Below
    <2>1. QED
        BY <1>1, <1>3, WFMin, ZenonT(60)
<1>5. PICK m \in S : x = n - m
    BY DEF Left
<1>6. ASSUME NEW t \in S
      PROVE  t <= m
    <2>1. ~(n - t < n - m)
        BY <1>2, <1>4, <1>5
    <2>2. QED
        BY <1>2, <2>1
<1>7. QED
    BY <1>6

\* The reservations of one plan: of the tasks that get a slot, the last one
\* counted all the others among the earlier reservations.
LEMMA SelectionFits ==
    ASSUME CapacityRespected
    PROVE  PlanFitsCapacity
<1> DEFINE Selected == {t \in Tasks : WantsSlot(t) /\ HasSlot(t)}
           Earlier(m) == {u \in Tasks : u < m /\ WantsSlot(u)}
<1>1. IsFiniteSet(Tasks)
    BY FS_Interval DEF Tasks
<1>2. IsFiniteSet(ActiveRuns)
    BY OccIdFinite, FS_Subset DEF ActiveRuns
<1>3. /\ Cardinality(ActiveRuns) \in Nat
      /\ Cardinality(ActiveRuns) <= GlobalLimit
    BY <1>2, FS_CardinalityType DEF CapacityRespected
<1>4. Selected \in SUBSET Tasks
    OBVIOUS
<1>5. CASE Selected = {}
    <2>1. Cardinality(Selected) = 0
        BY <1>5, FS_EmptySet
    <2>2. QED
        BY <1>3, <2>1 DEF PlanFitsCapacity
<1>6. CASE Selected # {}
    <2>1. PICK m \in Selected : \A t \in Selected : t <= m
        <3> HIDE DEF Selected
        <3>1. QED
            BY <1>4, <1>6, GreatestOf DEF Tasks
    <2>2. IsFiniteSet(Earlier(m)) /\ Cardinality(Earlier(m)) \in Nat
        BY <1>1, FS_Subset, FS_CardinalityType
    <2>3. /\ IsFiniteSet(Earlier(m) \cup {m})
          /\ Cardinality(Earlier(m) \cup {m}) = Cardinality(Earlier(m)) + 1
        <3>1. m \notin Earlier(m)
            BY DEF Tasks
        <3> HIDE DEF Earlier
        <3>2. QED
            BY <2>2, <3>1, FS_AddElement
    <2>4. Selected \in SUBSET (Earlier(m) \cup {m})
        BY <2>1 DEF Tasks
    <2>5. /\ Cardinality(Selected) <= Cardinality(Earlier(m)) + 1
          /\ Cardinality(Selected) \in Nat
        <3> HIDE DEF Selected, Earlier
        <3>1. QED
            BY <2>3, <2>4, FS_Subset, FS_CardinalityType
    <2>6. Cardinality(ActiveRuns) + Cardinality(Earlier(m)) < GlobalLimit
        BY <2>1 DEF HasSlot
    <2>7. QED
        <3> HIDE DEF Earlier
        <3>1. Cardinality(ActiveRuns) + Cardinality(Selected) <= GlobalLimit
            BY <1>3, <2>2, <2>5, <2>6
        <3>2. QED
            BY <3>1 DEF PlanFitsCapacity
<1>7. QED
    BY <1>5, <1>6

\* In every reachable state what the next plan exposes fits beside what runs.
THEOREM PlanAlwaysFits == Spec => []PlanFitsCapacity
BY CapacityAlwaysRespected, SelectionFits, PTL

-----------------------------------------------------------------------------
(* No window is lost.                                                        *)

\* The revision of a definition that exists is a revision.
DefShape == \A t \in Tasks : defs[t].status # "absent" => defs[t].revision \in Revisions

\* What one step can do to one definition.
DefStep(t) ==
    \/ defs'[t] = defs[t]
    \/ /\ defs'[t].created = defs'[t].watermark
       /\ defs'[t].revision \in Revisions
    \/ /\ Defined(t)
       /\ \E status \in {"active", "paused", "deleted"} :
              defs'[t] = [defs[t] EXCEPT !.status = status]
    \/ /\ PlanDue /\ Advances(t)
       /\ defs'[t] = [defs[t] EXCEPT !.watermark = now]

\* A step changes a definition by an edit, a deletion or a plan, and nothing else.
LEMMA DefStepShape ==
    ASSUME TypeOK, [Next]_vars, DefShape, NEW t \in Tasks
    PROVE  DefStep(t)
<1> USE DEF TypeOK
<1>1. CASE UNCHANGED defs
    BY <1>1 DEF DefStep
<1>2. ASSUME NEW u \in Tasks, Create(u)
      PROVE  DefStep(t)
    BY <1>2 DEF Create, NewRevision, DefStep, Revisions
<1>3. ASSUME NEW u \in Tasks, NEW r \in Revisions, Revise(u, r)
      PROVE  DefStep(t)
    BY <1>3 DEF Revise, NewRevision, DefStep, Revisions
<1>4. ASSUME NEW u \in Tasks, NEW status \in {"active", "paused"},
             SetPaused(u, status)
      PROVE  DefStep(t)
    BY <1>4 DEF SetPaused, DefStep, Definition
<1>5. ASSUME NEW u \in Tasks, Delete(u)
      PROVE  DefStep(t)
    BY <1>5 DEF Delete, DefStep, Definition
<1>6. CASE PlanDue
    BY <1>6 DEF PlanDue, DefStep
<1>7. ASSUME NEW S \in SUBSET OccId, MarkUnknown(S)
      PROVE  UNCHANGED defs
    BY <1>7 DEF MarkUnknown
<1>8. CASE AttemptStep \/ Reconcile \/ Open
    <2>1. CASE Reconcile \/ Open
        BY <1>1, <1>7, <2>1 DEF Reconcile, Open, ExpiredRuns, ActiveRuns
    <2>2. ASSUME NEW o \in OccId, ClaimExpired(o) \/ LateCall(o) \/ GiveUp(o)
          PROVE  UNCHANGED defs
        BY <1>7, <2>2 DEF ClaimExpired, LateCall, GiveUp
    <2>3. ASSUME NEW o \in OccId,
                 \/ ClaimPending(o) \/ Heartbeat(o) \/ Complete(o) \/ Refused(o)
                 \/ \E v \in Verdicts : ProviderDecision(o, v)
          PROVE  UNCHANGED defs
        BY <2>3 DEF ClaimPending, Heartbeat, Complete, Refused, ProviderDecision, durable
    <2>4. QED
        BY <1>1, <1>8, <2>1, <2>2, <2>3 DEF AttemptStep
<1>9. CASE \E u \in Tasks, r \in Revisions : CreateManual(u, r)
    BY <1>1, <1>9 DEF CreateManual
<1>10. CASE Crash \/ Tick \/ SetBack \/ UNCHANGED vars
    BY <1>1, <1>10 DEF Crash, Tick, SetBack, durable, vars
<1>11. QED
    BY <1>1, <1>2, <1>3, <1>4, <1>5, <1>6, <1>8, <1>9, <1>10
       DEF Next, DefinitionStep

\* A window is traced: skipped by policy, a row, or an attention fact.
Traced(t, at) ==
    \/ Policy[t] = "Skip"
    \/ occ[CurrentOcc(t, at)].state # "Absent"
    \/ /\ Policy[t] = "NeedsAttention"
       /\ [source |-> "missedSchedule", about |-> CurrentOcc(t, at)] \in attention

\* A plan that moves the watermark past a window leaves a trace of it.
LEMMA PlanTraces ==
    ASSUME TypeOK, PlanDue, NEW t \in Tasks, NEW at \in Trigger[t],
           Advances(t), CurrentOcc(t, at) \in LatestDue(t), ~Traced(t, at)
    PROVE  \/ occ'[CurrentOcc(t, at)].state # "Absent"
           \/ /\ Policy[t] = "NeedsAttention"
              /\ [source |-> "missedSchedule", about |-> CurrentOcc(t, at)] \in attention'
<1> DEFINE o == CurrentOcc(t, at)
<1>1. o.task = t /\ o \in OccId /\ occ[o].state = "Absent"
    BY DEF CurrentOcc, LatestDue, Traced
<1> HIDE DEF o
<1>2. CASE Late(o) => Policy[t] = "RunOnceWhenAvailable"
    <2>1. o \in Admitted(t)
        BY <1>1, <1>2 DEF Admitted, o
    <2>2. WantsSlot(t) /\ HasSlot(t) /\ PendingReady(t) = {}
        BY <2>1 DEF Advances, WantsSlot
    <2>3. o \in Planned
        BY <1>1, <2>1, <2>2 DEF Planned
    <2>4. occ'[o].state # "Absent"
        BY <1>1, <2>3 DEF PlanDue, PendingRow, NoOccurrence
    <2>5. QED
        BY <2>4 DEF o
<1>3. CASE Late(o) /\ Policy[t] # "RunOnceWhenAvailable"
    <2>1. Policy[t] = "NeedsAttention"
        BY <1>3 DEF Traced, Policies
    <2>2. [source |-> "missedSchedule", about |-> o] \in MissedFacts
        BY <1>1, <1>3, <2>1 DEF MissedFacts, Fact, Sources, o
    <2>3. QED
        BY <2>1, <2>2 DEF PlanDue, o
<1>4. QED
    BY <1>2, <1>3

\* Deferrals, pauses, rollbacks of the clock and restarts never move the
\* watermark past a window that left no trace.
THEOREM NoWindowLost == Spec => []WindowAccounted
<1> DEFINE WInv == DefShape /\ WindowAccounted
<1>1. Init => WInv
    BY DEF Init, DefShape, WindowAccounted, Defined, NoDefinition
<1>2. TypeOK /\ TypeOK' /\ WInv /\ [Next]_vars => WInv'
    <2> SUFFICES ASSUME TypeOK, TypeOK', WInv, [Next]_vars
                 PROVE  WInv'
        OBVIOUS
    <2>1. \A t \in Tasks : DefStep(t)
        BY DefStepShape
    <2>2. ASSUME NEW t \in Tasks, defs'[t].status # "absent"
          PROVE  defs'[t].revision \in Revisions
        BY <2>1, <2>2, SMTT(30) DEF DefStep, DefShape, Defined, TypeOK, Definition
    <2>3. /\ \A o \in OccId : occ[o].state # "Absent" => occ'[o].state # "Absent"
          /\ attention \subseteq attention'
        <3>1. ASSUME NEW o \in OccId, RowStep(o), occ[o].state # "Absent"
              PROVE  occ'[o].state # "Absent"
            BY <3>1 DEF RowStep, EndStep, Finished, PendingRow, NoOccurrence
        <3>2. QED
            BY <3>1, StepShape
    <2>4. ASSUME NEW t \in Tasks, NEW at \in Times,
                 Defined(t)', at \in Trigger[t],
                 defs'[t].created < at, at <= defs'[t].watermark,
                 \A s \in Trigger[t] : s <= defs'[t].watermark => s <= at
          PROVE  \/ Policy[t] = "Skip"
                 \/ occ'[CurrentOcc(t, at)'].state # "Absent"
                 \/ /\ Policy[t] = "NeedsAttention"
                    /\ [source |-> "missedSchedule", about |-> CurrentOcc(t, at)']
                           \in attention'
        <3>1. defs'[t].created # defs'[t].watermark
            BY <2>4 DEF TypeOK, Definition, Times
        <3>2. Defined(t) /\ defs'[t].revision = defs[t].revision
                         /\ defs'[t].created = defs[t].created
            BY <2>1, <2>4, <3>1 DEF DefStep, Defined, TypeOK, Definition, Advances, Evaluable
        <3>3. CurrentOcc(t, at)' = CurrentOcc(t, at)
            BY <3>2 DEF CurrentOcc
        <3>4. CurrentOcc(t, at) \in OccId
            BY <3>2 DEF CurrentOcc, OccId, DefShape, Defined
        <3>5. CASE defs'[t].watermark = defs[t].watermark
            <4>1. Traced(t, at)
                BY <2>4, <3>2, <3>5 DEF WindowAccounted, Traced
            <4>2. QED
                BY <2>3, <3>3, <3>4, <4>1 DEF Traced
        <3>6. CASE PlanDue /\ Advances(t) /\ defs'[t].watermark = now
            <4>1. now \in Int /\ defs[t].watermark \in Int /\ now >= defs[t].watermark
                BY <3>6 DEF TypeOK, Definition, Times, Advances, Evaluable
            <4>2. \A s \in Trigger[t] : s \in Int
                BY DEF Times
            <4>3. CASE at <= defs[t].watermark
                <5>1. \A s \in Trigger[t] : s <= defs[t].watermark => s <= at
                    BY <2>4, <3>6, <4>1, <4>2
                <5>2. Traced(t, at)
                    BY <2>4, <3>2, <4>3, <5>1 DEF WindowAccounted, Traced
                <5>3. QED
                    BY <2>3, <3>3, <3>4, <5>2 DEF Traced
            <4>4. CASE at > defs[t].watermark
                <5>1. CurrentOcc(t, at) \in LatestDue(t)
                    BY <2>4, <3>4, <3>6, <4>4 DEF LatestDue, CurrentOcc, IsCurrent
                <5>2. CASE Traced(t, at)
                    BY <2>3, <3>3, <3>4, <5>2 DEF Traced
                <5>3. CASE ~Traced(t, at)
                    BY <2>4, <3>3, <3>6, <5>1, <5>3, PlanTraces
                <5>4. QED
                    BY <5>2, <5>3
            <4>5. QED
                BY <4>1, <4>3, <4>4 DEF Times
        <3>7. QED
            BY <2>1, <3>1, <3>5, <3>6 DEF DefStep, TypeOK, Definition
    <2>5. QED
        BY <2>2, <2>4 DEF DefShape, WindowAccounted, Defined, CurrentOcc
<1>3. QED
    BY <1>1, <1>2, TypeCorrect, PTL DEF Spec
-----------------------------------------------------------------------------
(* Leases that can be settled, and those that never are.                      *)

\* A lease ends at least one duration after the claim it belongs to, also when
\* the clock was set back between the two.
LeaseOrder ==
    \A o \in OccId :
        occ[o].state = "Running" => occ[o].claimed + LeaseDuration <= occ[o].expires

\* Rows belong to revisions that their definition has had.
RevisionOrder ==
    /\ \A t \in Tasks : defs[t].status = "absent" => defs[t].revision = 0
    /\ \A o \in OccId :
           occ[o].state # "Absent" => o.revision <= defs[o.task].revision

SettleInv == TypeOK /\ LeaseOrder /\ RevisionOrder

\* A step keeps the lease of a row in order: a claim and a heartbeat look at
\* the clock once, and a heartbeat is refused when it lies before the claim.
LEMMA LeaseStep ==
    ASSUME TypeOK, LeaseOrder, [Next]_vars
    PROVE  LeaseOrder'
<1> USE DEF TypeOK, LeaseOrder
<1>1. CASE UNCHANGED occ
    BY <1>1
<1>2. CASE \E t \in Tasks, r \in Revisions : CreateManual(t, r)
    BY <1>2 DEF CreateManual, PendingRow, NoOccurrence
<1>3. CASE PlanDue
    BY <1>3 DEF PlanDue, PendingRow, NoOccurrence
<1>4. ASSUME NEW o \in OccId, ClaimPending(o)
      PROVE  LeaseOrder'
    BY <1>4 DEF ClaimPending, LeasedRow, Times
<1>5. ASSUME NEW o \in OccId, Heartbeat(o)
      PROVE  LeaseOrder'
    BY <1>5 DEF Heartbeat, LeasedRow, Times, Occurrence
<1>6. ASSUME NEW o \in OccId, Complete(o)
      PROVE  LeaseOrder'
    BY <1>6 DEF Complete, EndedRow
<1>7. ASSUME NEW S \in SUBSET OccId, MarkUnknown(S)
      PROVE  LeaseOrder'
    BY <1>7 DEF MarkUnknown, EndedRow
<1>8. ASSUME NEW o \in OccId, ClaimExpired(o) \/ LateCall(o) \/ GiveUp(o)
      PROVE  LeaseOrder'
    BY <1>7, <1>8 DEF ClaimExpired, LateCall, GiveUp
<1>9. CASE Reconcile \/ Open
    BY <1>7, <1>9 DEF Reconcile, Open, ExpiredRuns, ActiveRuns
<1>10. CASE DefinitionStep \/ Crash \/ Tick \/ SetBack \/ UNCHANGED vars
    BY <1>1, <1>10 DEF DefinitionStep, Create, Revise, SetPaused, Delete, Crash,
                       Tick, SetBack, durable, vars
<1>11. ASSUME NEW o \in OccId,
              Refused(o) \/ \E v \in Verdicts : ProviderDecision(o, v)
       PROVE  UNCHANGED occ
    BY <1>11 DEF Refused, ProviderDecision, durable
<1>12. QED
    BY <1>1, <1>2, <1>3, <1>4, <1>5, <1>6, <1>8, <1>9, <1>10, <1>11
       DEF Next, AttemptStep

\* Revisions are numbered upwards, and a row is entered for the current one.
LEMMA RevisionStep ==
    ASSUME TypeOK, TypeOK', RevisionOrder, [Next]_vars
    PROVE  /\ RevisionOrder'
           /\ \A t \in Tasks : defs[t].revision <= defs'[t].revision
<1> USE DEF TypeOK, RevisionOrder
<1>1. CASE DefinitionStep
    <2>1. ASSUME NEW t \in Tasks
          PROVE  /\ defs[t].revision <= defs'[t].revision
                 /\ defs'[t].status = "absent" => defs'[t].revision = 0
        <3>1. ASSUME NEW u \in Tasks, Create(u)
              PROVE  /\ defs[t].revision <= defs'[t].revision
                     /\ defs'[t].status = "absent" => defs'[t].revision = 0
            BY <3>1 DEF Create, NewRevision, Definition
        <3>2. ASSUME NEW u \in Tasks, NEW r \in Revisions, Revise(u, r)
              PROVE  /\ defs[t].revision <= defs'[t].revision
                     /\ defs'[t].status = "absent" => defs'[t].revision = 0
            BY <3>2 DEF Revise, Defined, NewRevision, Definition
        <3>3. ASSUME NEW u \in Tasks, NEW status \in {"active", "paused"},
                     SetPaused(u, status)
              PROVE  /\ defs[t].revision <= defs'[t].revision
                     /\ defs'[t].status = "absent" => defs'[t].revision = 0
            BY <3>3 DEF SetPaused, Definition
        <3>4. ASSUME NEW u \in Tasks, Delete(u)
              PROVE  /\ defs[t].revision <= defs'[t].revision
                     /\ defs'[t].status = "absent" => defs'[t].revision = 0
            BY <3>4 DEF Delete, Definition
        <3>5. QED
            BY <1>1, <3>1, <3>2, <3>3, <3>4 DEF DefinitionStep
    <2>2. UNCHANGED occ
        BY <1>1 DEF DefinitionStep, Create, Revise, SetPaused, Delete
    <2>3. \A o \in OccId : /\ o.task \in Tasks /\ o.revision \in Int
                           /\ defs[o.task].revision \in Int
                           /\ defs'[o.task].revision \in Int
        BY DEF OccId, Revisions, Definition
    <2>4. QED
        BY <2>1, <2>2, <2>3
<1>2. CASE ~DefinitionStep
    <2>1. ASSUME NEW t \in Tasks
          PROVE  /\ defs'[t].revision = defs[t].revision
                 /\ defs'[t].status = defs[t].status
        <3>1. \/ defs'[t] = defs[t]
              \/ PlanDue
            <4>1. ASSUME NEW S \in SUBSET OccId, MarkUnknown(S)
                  PROVE  UNCHANGED defs
                BY <4>1 DEF MarkUnknown
            <4>2. CASE Reconcile \/ Open
                BY <4>1, <4>2 DEF Reconcile, Open, ExpiredRuns, ActiveRuns
            <4>3. ASSUME NEW o \in OccId, ClaimExpired(o) \/ LateCall(o) \/ GiveUp(o)
                  PROVE  UNCHANGED defs
                BY <4>1, <4>3 DEF ClaimExpired, LateCall, GiveUp
            <4>4. ASSUME NEW o \in OccId,
                         \/ ClaimPending(o) \/ Heartbeat(o) \/ Complete(o) \/ Refused(o)
                         \/ \E v \in Verdicts : ProviderDecision(o, v)
                  PROVE  UNCHANGED defs
                BY <4>4 DEF ClaimPending, Heartbeat, Complete, Refused,
                            ProviderDecision, durable
            <4>5. CASE \/ \E u \in Tasks, r \in Revisions : CreateManual(u, r)
                       \/ Crash \/ Tick \/ SetBack \/ UNCHANGED vars
                BY <4>5 DEF CreateManual, Crash, Tick, SetBack, durable, vars
            <4>6. QED
                BY <1>2, <4>2, <4>3, <4>4, <4>5 DEF Next, AttemptStep
        <3>2. QED
            BY <3>1 DEF PlanDue, Definition
    <2>2. ASSUME NEW o \in OccId, occ'[o].state # "Absent", occ[o].state = "Absent"
          PROVE  IsCurrent(o)
        <3>1. ASSUME NEW t \in Tasks, NEW r \in Revisions, CreateManual(t, r)
              PROVE  IsCurrent(o)
            BY <2>2, <3>1 DEF CreateManual, CurrentOcc, IsCurrent
        <3>2. CASE PlanDue
            BY <2>2, <3>2 DEF PlanDue, Planned, Admitted, LatestDue
        <3>3. CASE /\ ~PlanDue
                   /\ ~\E t \in Tasks, r \in Revisions : CreateManual(t, r)
            <4>1. ASSUME NEW S \in SUBSET ActiveRuns, MarkUnknown(S)
                  PROVE  occ'[o] = occ[o]
                BY <2>2, <4>1 DEF MarkUnknown, ActiveRuns
            <4>2. CASE Reconcile \/ Open
                BY <2>2, <4>1, <4>2 DEF Reconcile, Open, ExpiredRuns, ActiveRuns
            <4>3. ASSUME NEW x \in OccId, ClaimExpired(x) \/ LateCall(x) \/ GiveUp(x)
                  PROVE  FALSE
                <5>1. MarkUnknown({x}) /\ {x} \in SUBSET ActiveRuns
                    BY <4>3 DEF ClaimExpired, LateCall, GiveUp, OwnsLease, ActiveRuns
                <5>2. QED
                    BY <2>2, <4>1, <5>1
            <4>4. ASSUME NEW x \in OccId,
                         \/ ClaimPending(x) \/ Heartbeat(x) \/ Complete(x) \/ Refused(x)
                         \/ \E v \in Verdicts : ProviderDecision(x, v)
                  PROVE  FALSE
                BY <2>2, <4>4 DEF ClaimPending, Heartbeat, Complete, Refused, OwnsLease,
                                  ProviderDecision, durable
            <4>5. CASE Crash \/ Tick \/ SetBack \/ UNCHANGED vars
                BY <2>2, <4>5 DEF Crash, Tick, SetBack, durable, vars
            <4>6. QED
                BY <1>2, <3>3, <2>2, <4>2, <4>3, <4>4, <4>5 DEF Next, AttemptStep
        <3>4. QED
            BY <3>1, <3>2, <3>3
    <2>3. \A o \in OccId : o.task \in Tasks /\ o.revision \in Int
        BY DEF OccId, Revisions
    <2>4. \A t \in Tasks : defs[t].revision \in Int
        BY DEF Definition
    <2>5. \A t \in Tasks : /\ defs[t].revision <= defs'[t].revision
                           /\ defs'[t].status = "absent" => defs'[t].revision = 0
        BY <2>1, <2>4
    <2>6. ASSUME NEW o \in OccId, occ'[o].state # "Absent"
          PROVE  o.revision <= defs'[o.task].revision
        <3>1. defs'[o.task].revision = defs[o.task].revision
            BY <2>1, <2>3
        <3>2. CASE occ[o].state = "Absent"
            BY <2>2, <2>3, <2>6, <3>1, <3>2 DEF IsCurrent
        <3>3. CASE occ[o].state # "Absent"
            BY <3>1, <3>3
        <3>4. QED
            BY <3>2, <3>3
    <2>7. QED
        BY <2>5, <2>6
<1>3. QED
    BY <1>1, <1>2

LEMMA SettleInvariant == Spec => []SettleInv
<1>1. Init => LeaseOrder /\ RevisionOrder
    BY DEF Init, LeaseOrder, RevisionOrder, NoOccurrence, NoDefinition
<1>2. TypeOK /\ TypeOK' /\ LeaseOrder /\ RevisionOrder /\ [Next]_vars
          => LeaseOrder' /\ RevisionOrder'
    BY LeaseStep, RevisionStep
<1>3. QED
    BY <1>1, <1>2, TypeCorrect, PTL DEF Spec, SettleInv

\* Neither a crash nor a clock that was set back ever makes validate_store
\* refuse the reconciliation of an expired row: only a revise of its task does.
THEOREM OnlyRevisionBlocksSettling == Spec => []ExpiredSettleable
<1>1. SettleInv => ExpiredSettleable
    <2> SUFFICES ASSUME SettleInv, NEW o \in ExpiredRuns
                 PROVE  TerminalIsValid(o) <=> IsCurrent(o)
        BY DEF ExpiredSettleable
    <2>1. o \in OccId /\ occ[o].state = "Running" /\ occ[o].expires <= now
        BY DEF ExpiredRuns, ActiveRuns, Expired
    <2>2. occ[o].claimed + LeaseDuration <= occ[o].expires
        BY <2>1 DEF SettleInv, LeaseOrder
    <2>3. now \in Int /\ occ[o].claimed \in Int /\ occ[o].expires \in Int
        BY <2>1 DEF SettleInv, TypeOK, Times, Occurrence
    <2>4. now >= occ[o].claimed
        BY <2>1, <2>2, <2>3
    <2>5. QED
        BY <2>4 DEF TerminalIsValid, TerminalReceipt, IsCurrent
<1>2. QED
    BY <1>1, SettleInvariant, PTL

\* A run whose task was revised under it never ends: every terminal receipt of
\* it is refused for ever.  Once its lease has run out it also refuses every
\* reconciliation, and a process that ended cannot open the store again before
\* the clock is set back (the finding behind ExpiredLeaseSettles).
RevisedRunIsStuck ==
    [][\A o \in ActiveRuns : ~IsCurrent(o) =>
           /\ occ'[o].state = "Running" /\ ~IsCurrent(o)'
           /\ Expired(o) => ~Reconcile /\ (~up => ~up')]_vars

THEOREM RevisedRunsAreStuck == Spec => RevisedRunIsStuck
<1>1. SettleInv /\ TypeOK' /\ [Next]_vars =>
          [\A o \in ActiveRuns : ~IsCurrent(o) =>
               /\ occ'[o].state = "Running" /\ ~IsCurrent(o)'
               /\ Expired(o) => ~Reconcile /\ (~up => ~up')]_vars
    <2> SUFFICES ASSUME SettleInv, TypeOK', [Next]_vars,
                        NEW o \in ActiveRuns, ~IsCurrent(o)
                 PROVE  /\ occ'[o].state = "Running" /\ ~IsCurrent(o)'
                        /\ Expired(o) => ~Reconcile /\ (~up => ~up')
        OBVIOUS
    <2>1. o \in OccId /\ occ[o].state = "Running"
        BY DEF ActiveRuns
    <2>2. occ'[o].state = "Running"
        BY <2>1, StepShape DEF SettleInv, RowStep, EndStep
    <2>3. ~IsCurrent(o)'
        <3>1. defs[o.task].revision <= defs'[o.task].revision
            BY <2>1, RevisionStep DEF SettleInv, OccId
        <3>2. o.revision <= defs[o.task].revision
            BY <2>1 DEF SettleInv, RevisionOrder
        <3>3. /\ o.revision \in Int /\ defs[o.task].revision \in Int
              /\ defs'[o.task].revision \in Int
            BY <2>1 DEF SettleInv, TypeOK, OccId, Revisions, Definition
        <3>4. QED
            BY <3>1, <3>2, <3>3 DEF IsCurrent
    <2>4. Expired(o) => ~MarkUnknown(ExpiredRuns)
        BY DEF MarkUnknown, TerminalIsValid, TerminalReceipt, IsCurrent, ExpiredRuns
    <2>5. Expired(o) => ~Reconcile /\ ~Open
        BY <2>4 DEF Reconcile, Open
    <2>6. ASSUME ~up, up'
          PROVE  Open
        <3>1. ASSUME NEW x \in OccId,
                     \/ ClaimPending(x) \/ ClaimExpired(x) \/ Heartbeat(x)
                     \/ \E v \in Verdicts : ProviderDecision(x, v)
                     \/ Complete(x) \/ LateCall(x) \/ GiveUp(x) \/ Refused(x)
              PROVE  FALSE
            BY <2>6, <3>1 DEF ClaimPending, ClaimExpired, Heartbeat, ProviderDecision,
                              Complete, LateCall, GiveUp, Refused
        <3>2. QED
            BY <2>6, <3>1 DEF Next, DefinitionStep, AttemptStep, Create, Revise, SetPaused,
                              Delete, CreateManual, PlanDue, Reconcile, Crash, Tick,
                              SetBack, vars
    <2>7. QED
        BY <2>2, <2>3, <2>5, <2>6
<1>2. QED
    BY <1>1, SettleInvariant, TypeCorrect, PTL DEF Spec, RevisedRunIsStuck
===============================================================================
