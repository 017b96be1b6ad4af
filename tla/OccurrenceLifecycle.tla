-------------------------- MODULE OccurrenceLifecycle --------------------------
(***************************************************************************)
(* What the Task store promises about one occurrence row, without leases,   *)
(* clocks, revisions, receipts or crashes: a row is entered once, started   *)
(* at most once and inside the capacity, and ends exactly once, as a        *)
(* success or as an unknown outcome.  It never goes back to be run again.   *)
(***************************************************************************)
EXTENDS Integers, FiniteSets

CONSTANTS Rows,     \* occurrence ids
          TaskOf,   \* TaskOf[o]: the task a row belongs to
          Limit     \* rows that may run at one time

VARIABLE phase      \* phase[o]: the state of row o

Running == {o \in Rows : phase[o] = "Running"}

Init == phase = [o \in Rows |-> "Absent"]

\* All rows of S go from one phase to another, the others stay.
Move(S, from, to) ==
    /\ \A o \in S : phase[o] = from
    /\ phase' = [o \in Rows |-> IF o \in S THEN to ELSE phase[o]]

Enter(S) == Move(S, "Absent", "Pending")

Start(o) ==
    /\ Cardinality(Running) < Limit
    /\ \A r \in Running : TaskOf[r] # TaskOf[o]
    /\ Move({o}, "Pending", "Running")

Succeed(o) == Move({o}, "Running", "Completed")

Abandon(S) == Move(S, "Running", "OutcomeUnknown")

\* A plan enters, and a reconciliation abandons, several rows in one step.
Changed == {o \in Rows : phase'[o] # phase[o]}

Next ==
    \/ Enter(Changed)
    \/ Abandon(Changed)
    \/ \E o \in Rows : Start(o) \/ Succeed(o)

Spec == Init /\ [][Next]_phase
=============================================================================
