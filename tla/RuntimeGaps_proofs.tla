-------------------------- MODULE RuntimeGaps_proofs --------------------------
(***************************************************************************)
(* Where the runner of an attempt breaks what its comments say, and that it *)
(* does so nowhere else.  TLC finds ErrorContains, TabReleased and          *)
(* CompletedMeansFinished violated; the theorems below say exactly how far  *)
(* each of the three holds, for any route, events and buffer limit.         *)
(***************************************************************************)
EXTENDS TaskRuntime_proofs

USE RouteAssumption DEF Candidates

Before == {"resolving", "begin", "preflight", "dispatch"}

\* Containment is lost only where the result of a dispatch is dropped after it
\* returned (await_with_lease), or where the receipt of a cancellation or a
\* timeout is refused and `?` returns: every other error return has aborted the
\* accepted run, and a run that was contained never comes back to life.
LostOnlyByDrop ==
    [][ErrorContains /\ ~ErrorContains' => HandleDropped \/ StopRefused]_vars

\* A tab is left open only when Grok proved that no task started, the route fell
\* back to an external candidate, and that one's own dispatch forgot the tab.
TabLeftOnlyByFallback ==
    step = "done" /\ result # "Error" /\ tab = "open" =>
        /\ cur \notin Grok /\ ~cleanup
        /\ \E c \in Grok : c < cur /\ [order |-> c, reason |-> "Rejected"] \in receipts

\* A completion reported of a Grok candidate is one whose prompt completed: only
\* an external stream can claim success while its run goes on.
GrokCompletedMeansFinished ==
    result = "Completed" /\ cur \in Grok => run[cur] = "succeeded"

-----------------------------------------------------------------------------
(* What the providers may do to one run.                                     *)

\* A provider never revives a run, nor touches a Grok run that has succeeded.
RunsSink(old, new) ==
    \A c \in Candidates :
        /\ new[c] \in {"working", "turned"} => old[c] \in {"working", "turned"}
        /\ c \in Grok /\ old[c] = "succeeded" => new[c] = "succeeded"

\* No move of an external run leads back to a live one.
LEMMA ExternalSinks ==
    ASSUME TypeOK, NEW c \in Candidates \ Grok,
           NEW from \in SUBSET Runs, NEW to \in SUBSET Runs,
           External!Move(c, from, to),
           \/ from \subseteq {"working", "turned"}
           \/ to \cap {"working", "turned"} = {}
    PROVE  RunsSink(run, run')
<1>1. PICK s \in to : run' = [run EXCEPT ![c] = s]
    BY DEF External!Move
<1>2. run[c] \in from
    BY DEF External!Move
<1>3. QED
    BY <1>1, <1>2 DEF TypeOK, RunsSink

\* What the environment does to the runs only lets them sink.
LEMMA ProvidersSink ==
    ASSUME TypeOK, ProviderStep
    PROVE  RunsSink(run, run')
<1>1. CASE ProviderActs
    BY <1>1 DEF ProviderActs, RunsSink
<1>2. CASE TurnEnds \/ ProcessExits \/ TerminalEvent \/ AbortedElsewhere
    <2>1. PICK c \in Candidates \ Grok :
            \/ External!EndTurn(c) \/ External!Exit(c) \/ External!Announce(c)
            \/ External!Cut(c) \/ External!Hush(c)
        BY <1>2 DEF TurnEnds, ProcessExits, TerminalEvent, AbortedElsewhere
    <2>2. QED
        BY <2>1, ExternalSinks
        DEF External!EndTurn, External!Exit, External!Announce, External!Cut,
            External!Hush, Runs
<1>3. CASE PromptCompletes
    BY <1>3 DEF PromptCompletes, TypeOK, RunsSink
<1>4. QED
    BY <1>1, <1>2, <1>3 DEF ProviderStep

\* Neither does an abort or a cleanup revive a run or undo a success.
LEMMA AbortSinks ==
    ASSUME TypeOK, NEW abort, NEW ok \in BOOLEAN, NEW runs \in {run, RunAfterAbort(abort)}
    PROVE  RunsSink(run, RunAfterCleanup(runs, ok))
BY DEF TypeOK, RunAfterAbort, Live, RunAfterCleanup, RunsSink

\* The containing error path ends an accepted run that it finds live.
LEMMA ContainEnds ==
    ASSUME TypeOK, ContainAndFail
    PROVE  RunsSink(run, run') /\ (obs = "Accepted" => ~Live(cur)')
<1>1. PICK abort \in AbortOutcomes, ok \in BOOLEAN :
        run' = RunAfterCleanup(IF obs = "Accepted" THEN RunAfterAbort(abort) ELSE run, ok)
    BY DEF ContainAndFail
<1>2. RunsSink(run, run')
    BY <1>1, AbortSinks
<1>3. ASSUME obs = "Accepted" PROVE ~Live(cur)'
    <2>1. run' = RunAfterCleanup(RunAfterAbort(abort), ok) /\ cur' = cur
        BY <1>1, <1>3 DEF ContainAndFail, route
    <2>2. ~(RunAfterAbort(abort)[cur] \in {"working", "turned"})
        BY DEF RunAfterAbort, Live, TypeOK
    <2>3. QED
        BY <2>1, <2>2 DEF RunAfterCleanup, Live, TypeOK
<1>4. QED
    BY <1>2, <1>3

-----------------------------------------------------------------------------
(* Containment.                                                              *)

\* The handle of an accepted run is held from its dispatch on, and no terminal
\* action of a drain is an error.
HandleHeld ==
    /\ obs = "Accepted" => step \notin Before
    /\ ended # "Error"

\* An observation asks for a terminal action, never for an error.
LEMMA ObserveNoError ==
    ASSUME ended # "Error", NEW outcome, NEW boundary, Observe(outcome, boundary)
    PROVE  ended' # "Error"
BY DEF Observe, ResultOf

\* Every step keeps the handle.
LEMMA HandleStep ==
    ASSUME HandleHeld, [Next]_vars
    PROVE  HandleHeld'
<1> USE DEF route, world, runner, HandleHeld, Before
<1>1. CASE Bind \/ Begin \/ PreflightEligible \/ PreflightStops
    BY <1>1 DEF Bind, Begin, PreflightEligible, PreflightStops
<1>2. CASE DispatchAccepted \/ DispatchRejected \/ DispatchAmbiguous
    BY <1>2 DEF DispatchAccepted, DispatchRejected, DispatchAmbiguous
<1>3. CASE ApplyRejected \/ ApplyAccepted \/ ApplyAmbiguous
    BY <1>3 DEF ApplyRejected, ApplyAccepted, ApplyAmbiguous, Settle
<1>4. CASE \/ FailEarly \/ HandleDropped \/ StopRefused \/ DispatchDropped
           \/ ApplyRefused \/ LeaseLost \/ ObserveFails
    BY <1>4 DEF FailEarly, HandleDropped, StopRefused, DispatchDropped, Fail,
                ApplyRefused, LeaseLost, ObserveFails, ContainAndFail, Return
<1>5. CASE Notify \/ Cancel \/ TimeOut
    BY <1>5 DEF Notify, Cancel, TimeOut, StopRun, ReturnCleaned, Return
<1>6. CASE Drain
    BY <1>6 DEF Drain
<1>7. CASE ObserveEvent
    BY <1>7, ObserveNoError DEF ObserveEvent
<1>8. CASE ObserveSnapshot
    <2>1. ended' # "Error"
        BY <1>8, ObserveNoError DEF ObserveSnapshot
    <2>2. obs' = obs /\ step' \in {"waiting", "done"}
        BY <1>8 DEF ObserveSnapshot, ReturnCleaned, Return
    <2>3. QED
        BY <2>1, <2>2
<1>9. CASE RequestCancel \/ Deadline \/ UNCHANGED vars
    BY <1>9 DEF RequestCancel, Deadline, vars
<1>10. CASE ProviderStep
    BY <1>10 DEF ProviderStep, ProviderActs, TurnEnds, ProcessExits, TerminalEvent,
                 PromptCompletes, AbortedElsewhere
<1>11. QED
    BY <1>1, <1>2, <1>3, <1>4, <1>5, <1>6, <1>7, <1>8, <1>9, <1>10
       DEF Next, RouteStep, WaitStep

\* No other step than the two loses a contained run.
LEMMA ContainedStep ==
    ASSUME TypeOK, HandleHeld, EndBacked, [Next]_vars, ErrorContains,
           ~HandleDropped, ~StopRefused
    PROVE  ErrorContains'
<1> USE DEF route, world, runner
<1>0. result = "Error" => step = "done"
    BY DEF EndBacked
<1>1. CASE FailEarly \/ DispatchDropped
    <2>1. obs # "Accepted" /\ obs' = obs
        BY <1>1 DEF FailEarly, DispatchDropped, Fail, HandleHeld, Before
    <2>2. QED
        BY <2>1 DEF ErrorContains
<1>2. CASE ApplyRefused \/ LeaseLost \/ ObserveFails
    <2>1. ContainAndFail
        BY <1>2 DEF ApplyRefused, LeaseLost, ObserveFails
    <2>2. obs' = obs
        BY <2>1 DEF ContainAndFail
    <2>3. QED
        BY <2>1, <2>2, ContainEnds DEF ErrorContains
<1>3. CASE \/ Bind \/ Begin \/ PreflightEligible \/ PreflightStops
           \/ DispatchAccepted \/ DispatchRejected \/ DispatchAmbiguous
           \/ ApplyAccepted \/ ApplyRejected \/ ApplyAmbiguous \/ Drain \/ ObserveEvent
    <2>1. step # "done" /\ result' = result
        BY <1>3 DEF Bind, Begin, PreflightEligible, PreflightStops, DispatchAccepted,
                    DispatchRejected, DispatchAmbiguous, ApplyAccepted, ApplyRejected,
                    ApplyAmbiguous, Drain, ObserveEvent
    <2>2. QED
        BY <1>0, <2>1 DEF ErrorContains
<1>4. CASE Notify
    BY <1>4 DEF Notify, ReturnCleaned, Return, ResultOf, ErrorContains
<1>5. CASE Cancel \/ TimeOut
    <2>1. PICK outcome : StopRun(outcome)
        BY <1>5 DEF Cancel, TimeOut
    <2>2. PICK abort \in AbortOutcomes, ok \in BOOLEAN :
            ReturnCleaned(IF abort = "Uncertain" THEN "OutcomeUnknown"
                                                 ELSE ResultOf(phase'), ok)
        BY <2>1 DEF StopRun
    <2>3. result' # "Error"
        BY <2>2 DEF ReturnCleaned, Return, ResultOf
    <2>4. QED
        BY <2>3 DEF ErrorContains
<1>6. CASE ObserveSnapshot
    <2>1. result' # "Error"
        <3>1. ended' # "Error"
            BY <1>6, HandleStep DEF HandleHeld
        <3>2. CASE ended = "none"
            BY <1>0, <1>6, <3>2 DEF ObserveSnapshot
        <3>3. CASE ended # "none"
            <4>1. PICK ok \in BOOLEAN : ReturnCleaned(ended, ok)
                BY <1>6, <3>3 DEF ObserveSnapshot
            <4>2. QED
                BY <4>1 DEF ReturnCleaned, Return, HandleHeld
        <3>4. QED
            BY <3>2, <3>3
    <2>2. QED
        BY <2>1 DEF ErrorContains
<1>7. CASE RequestCancel \/ Deadline \/ UNCHANGED vars
    BY <1>7 DEF RequestCancel, Deadline, vars, ErrorContains, Live
<1>8. CASE ProviderStep
    <2>1. UNCHANGED <<route, runner>>
        BY <1>8, ProviderShape
    <2>2. RunsSink(run, run') /\ cur \in Candidates
        BY <1>8, ProvidersSink DEF TypeOK
    <2>3. QED
        BY <2>1, <2>2 DEF ErrorContains, Live, RunsSink
<1>9. QED
    BY <1>1, <1>2, <1>3, <1>4, <1>5, <1>6, <1>7, <1>8 DEF Next, RouteStep, WaitStep

\* "Contain the exact provider handle before returning an explicit owner-bound
\* uncertainty" is broken by exactly two steps of the runner.
THEOREM ContainmentLostOnlyByDrop == Spec => LostOnlyByDrop
<1>1. Init => HandleHeld
    BY DEF Init, HandleHeld
<1>2. HandleHeld /\ [Next]_vars => HandleHeld'
    BY HandleStep
<1>3. TypeOK /\ HandleHeld /\ EndBacked /\ [Next]_vars
        => [ErrorContains /\ ~ErrorContains' => HandleDropped \/ StopRefused]_vars
    BY ContainedStep
<1>4. QED
    BY <1>1, <1>2, <1>3, TypeCorrect, EndInvariant, PTL DEF Spec, LostOnlyByDrop

-----------------------------------------------------------------------------
(* The Grok tab.                                                             *)

\* A tab was opened by the dispatch of the Grok candidate; past it, it is there
\* because Grok was rejected.
Opened ==
    tab = "open" => \E c \in Grok :
        \/ c = cur /\ step \notin Before
        \/ c < cur /\ [order |-> c, reason |-> "Rejected"] \in receipts

\* While the Grok candidate is current its open tab is named for the cleanup;
\* a return that is no error leaves only what it did not name.
Named ==
    /\ tab = "open" /\ cur \in Grok /\ step # "done" => cleanup
    /\ step = "done" /\ result # "Error" /\ tab = "open" => ~cleanup /\ cur \notin Grok

TabInv == Opened /\ Named

\* The tab of a Grok candidate is not open before its own dispatch.
LEMMA NotYetOpen ==
    ASSUME TypeOK, Opened, cur \in Grok, step \in Before
    PROVE  tab # "open"
<1>1. SUFFICES ASSUME NEW c \in Grok, c < cur \/ (c = cur /\ step \notin Before)
               PROVE  FALSE
    BY DEF Opened
<1>2. c = cur
    OBVIOUS
<1>3. cur \in Int
    BY DEF TypeOK
<1>4. QED
    BY <1>1, <1>2, <1>3

\* A return with cleanup keeps the invariant: what it names is not left open.
LEMMA ReturnKeepsTab ==
    ASSUME TypeOK, TabInv, step \notin Before, step # "done", receipts \subseteq receipts',
           cur' = cur, cleanup' = cleanup,
           NEW r, NEW ok \in BOOLEAN, ReturnCleaned(r, ok)
    PROVE  TabInv'
<1>1. step' = "done" /\ (tab' = "open" => tab = "open" /\ ~cleanup)
    BY DEF ReturnCleaned, Return, TabAfterCleanup
<1>2. QED
    BY <1>1 DEF TabInv, Opened, Named, Before

\* An error return makes no claim about the tab it leaves.
LEMMA ErrorKeepsTab ==
    ASSUME TypeOK, TabInv, receipts \subseteq receipts', cur' = cur,
           step' = "done", result' = "Error", tab' = "open" => tab = "open"
    PROVE  TabInv'
BY DEF TabInv, Opened, Named, Before

\* A step that touches neither the tab nor its name keeps the invariant, unless
\* it takes the runner back.
LEMMA StayKeepsTab ==
    ASSUME TabInv, receipts \subseteq receipts', cur' = cur, UNCHANGED <<tab, cleanup>>,
           step # "done", step' # "done", step \notin Before \/ tab # "open" \/ cur \notin Grok,
           step' \in Before => step \in Before
    PROVE  TabInv'
BY DEF TabInv, Opened, Named, Before

\* A rejection moves the route past the tab that it records.
LEMMA AdvanceKeepsTab ==
    ASSUME TypeOK, TabInv, step # "done", AdvanceAfterRejection, UNCHANGED <<tab, cleanup>>
    PROVE  TabInv'
<1>1. receipts' = receipts \cup {[order |-> cur, reason |-> "Rejected"]}
    BY PersistAppends DEF AdvanceAfterRejection, Reasons
<1>2. CASE cur' = cur + 1 /\ step' = "preflight"
    <2>0. cur \in Int /\ Grok \subseteq Int /\ tab' = tab
        BY DEF TypeOK
    <2>1. ASSUME tab = "open"
          PROVE  \E c \in Grok : c < cur' /\ [order |-> c, reason |-> "Rejected"] \in receipts'
        <3>1. PICK c \in Grok :
                \/ c = cur
                \/ c < cur /\ [order |-> c, reason |-> "Rejected"] \in receipts
            BY <2>1 DEF TabInv, Opened
        <3>2. c < cur'
            BY <1>2, <2>0, <3>1
        <3>3. [order |-> c, reason |-> "Rejected"] \in receipts'
            BY <1>1, <3>1
        <3>4. QED
            BY <3>2, <3>3
    <2>2. Opened'
        BY <2>0, <2>1 DEF Opened
    <2>3. Named'
        <3>1. tab' = "open" => cur' \notin Grok
            <4>1. SUFFICES ASSUME NEW c \in Grok, c < cur', cur' \in Grok
                           PROVE  FALSE
                BY <2>0, <2>1
            <4>2. c = cur'
                BY <4>1
            <4>3. QED
                BY <2>0, <4>1, <4>2
        <3>2. QED
            BY <1>2, <3>1 DEF Named
    <2>4. QED
        BY <2>2, <2>3 DEF TabInv
<1>3. CASE cur' = cur /\ step' = "notify"
    BY <1>1, <1>3 DEF TabInv, Opened, Named, Before
<1>4. QED
    BY <1>2, <1>3 DEF AdvanceAfterRejection

\* Every step keeps it.
LEMMA TabStep ==
    ASSUME TypeOK, EndBacked, TabInv, [Next]_vars
    PROVE  TabInv'
<1> USE DEF route, world, runner
<1>0. receipts \subseteq receipts'
    BY ReceiptShape, ReceiptsGrow
<1>1. CASE Bind \/ Begin \/ PreflightEligible \/ PreflightStops
    <2>1. step \in Before /\ (cur \in Grok => tab # "open")
        BY <1>1, NotYetOpen DEF Bind, Begin, PreflightEligible, PreflightStops, Before, TabInv
    <2>2. CASE PreflightStops /\ AdvanceAfterRejection
        BY <2>1, <2>2, AdvanceKeepsTab DEF PreflightStops, Before
    <2>3. CASE ~(PreflightStops /\ AdvanceAfterRejection)
        <3>1. cur' = cur /\ UNCHANGED <<tab, cleanup>> /\ step' # "done"
            BY <1>1, <2>3 DEF Bind, Begin, PreflightEligible, PreflightStops, Settle
        <3>2. QED
            BY <1>0, <2>1, <3>1, StayKeepsTab DEF Before
    <2>4. QED
        BY <2>2, <2>3
<1>2. CASE DispatchAccepted \/ DispatchRejected \/ DispatchAmbiguous
    <2>1. /\ step = "dispatch" /\ step' = "observed" /\ cur' = cur
          /\ cur \in Grok => tab # "open"
        BY <1>2, NotYetOpen DEF DispatchAccepted, DispatchRejected, DispatchAmbiguous, Before, TabInv
    <2>2. CASE cur \in Grok
        <3>1. tab' = "open" => cleanup'
            BY <1>2, <2>1, <2>2 DEF DispatchAccepted, DispatchRejected, DispatchAmbiguous
        <3>2. QED
            BY <1>0, <2>1, <2>2, <3>1 DEF TabInv, Opened, Named, Before
    <2>3. CASE cur \notin Grok
        <3>1. tab' = tab
            BY <1>2, <2>3 DEF DispatchAccepted, DispatchRejected, DispatchAmbiguous
        <3>2. QED
            BY <1>0, <2>1, <2>3, <3>1 DEF TabInv, Opened, Named, Before
    <2>4. QED
        BY <2>2, <2>3
<1>3. CASE ApplyRejected
    BY <1>3, AdvanceKeepsTab DEF ApplyRejected
<1>4. CASE ApplyAccepted \/ ApplyAmbiguous \/ Drain \/ ObserveEvent
    <2>1. /\ cur' = cur /\ UNCHANGED <<tab, cleanup>>
          /\ step \in {"observed", "waiting", "observing"}
          /\ step' \in {"waiting", "notify", "observing"}
        BY <1>4 DEF ApplyAccepted, ApplyAmbiguous, Settle, Drain, ObserveEvent
    <2>2. QED
        BY <1>0, <2>1, StayKeepsTab DEF Before
<1>5. CASE FailEarly \/ HandleDropped \/ StopRefused
    BY <1>0, <1>5, ErrorKeepsTab DEF FailEarly, HandleDropped, StopRefused, Fail, Return
<1>6. CASE DispatchDropped
    <2>1. /\ step = "dispatch" /\ step' = "done" /\ result' = "Error"
          /\ cur' = cur
          /\ tab' = tab \/ (cur \in Grok /\ tab' = "open")
        BY <1>6 DEF DispatchDropped, Return
    <2>2. QED
        BY <1>0, <2>1 DEF TabInv, Opened, Named, Before
<1>7. CASE ApplyRefused \/ LeaseLost \/ ObserveFails
    <2>1. ContainAndFail
        BY <1>7 DEF ApplyRefused, LeaseLost, ObserveFails
    <2>2. QED
        BY <1>0, <2>1, ErrorKeepsTab DEF ContainAndFail, Return, TabAfterCleanup
<1>8. CASE Notify
    <2>1. PICK ok \in BOOLEAN : ReturnCleaned(ResultOf(phase), ok)
        BY <1>8 DEF Notify
    <2>2. step = "notify" /\ UNCHANGED <<cur, cleanup>>
        BY <1>8 DEF Notify
    <2>3. QED
        BY <1>0, <2>1, <2>2, ReturnKeepsTab DEF Before
<1>9. CASE Cancel \/ TimeOut
    <2>1. PICK outcome : StopRun(outcome) /\ step = "waiting"
        BY <1>9 DEF Cancel, TimeOut
    <2>2. PICK abort \in AbortOutcomes, ok \in BOOLEAN :
            ReturnCleaned(IF abort = "Uncertain" THEN "OutcomeUnknown"
                                                 ELSE ResultOf(phase'), ok)
        BY <2>1 DEF StopRun
    <2>3. UNCHANGED <<cur, cleanup>>
        BY <2>1 DEF StopRun
    <2>4. QED
        BY <1>0, <2>1, <2>2, <2>3, ReturnKeepsTab DEF Before
<1>10. CASE ObserveSnapshot
    <2>1. UNCHANGED <<cur, cleanup>> /\ step = "observing"
        BY <1>10 DEF ObserveSnapshot
    <2>2. CASE ended = "none"
        BY <1>0, <1>10, <2>1, <2>2, StayKeepsTab DEF ObserveSnapshot, Before
    <2>3. CASE ended # "none"
        <3>1. PICK ok \in BOOLEAN : ReturnCleaned(ended, ok)
            BY <1>10, <2>3 DEF ObserveSnapshot
        <3>2. QED
            BY <1>0, <2>1, <3>1, ReturnKeepsTab DEF Before
    <2>4. QED
        BY <2>2, <2>3
<1>11. CASE RequestCancel \/ Deadline \/ UNCHANGED vars \/ ProviderStep
    <2>1. UNCHANGED <<route, runner, tab>>
        BY <1>11, ProviderShape DEF RequestCancel, Deadline, vars
    <2>2. QED
        BY <1>0, <2>1 DEF TabInv, Opened, Named
<1>12. QED
    BY <1>1, <1>2, <1>3, <1>4, <1>5, <1>6, <1>7, <1>8, <1>9, <1>10, <1>11
       DEF Next, RouteStep, WaitStep

\* It holds in every state.
LEMMA TabInvariant == Spec => []TabInv
<1>1. Init => TabInv
    BY DEF Init, TabInv, Opened, Named
<1>2. TypeOK /\ EndBacked /\ TabInv /\ [Next]_vars => TabInv'
    BY TabStep
<1>3. QED
    BY <1>1, <1>2, TypeCorrect, EndInvariant, PTL DEF Spec

\* "Release the exact deterministic task tab" is broken by one history only: Grok
\* rejected, the route fell back, and the external dispatch forgot the tab.
THEOREM TabForgottenOnlyByFallback == Spec => []TabLeftOnlyByFallback
<1>1. TypeOK /\ TabInv => TabLeftOnlyByFallback
    BY DEF TabInv, Opened, Named, TabLeftOnlyByFallback
<1>2. QED
    BY <1>1, TabInvariant, TypeCorrect, PTL

\* A reported completion is backed by a durable success and by a tab that was
\* released or, after a fallback from Grok, forgotten; reported attention is
\* backed by the receipt that asks for it.
THEOREM ResultAlwaysBacked == Spec => []ResultBacked
<1>1. TypeOK /\ TabInv /\ EndBacked => ResultBacked
    <2> SUFFICES ASSUME TypeOK, TabInv, EndBacked
                 PROVE  ResultBacked
        OBVIOUS
    <2>1. /\ result = "Completed" => HasRecorded("Succeeded") /\ tab # "stuck"
          /\ result = "CompletedWithAttention" =>
                 AttentionBacked \/ (HasRecorded("Succeeded") /\ tab = "stuck")
        BY DEF EndBacked, ReportBacked
    <2>2. result = "Completed" /\ tab = "open" =>
              /\ ~cleanup /\ cur \notin Grok
              /\ \E c \in Grok : c < cur /\ [order |-> c, reason |-> "Rejected"] \in receipts
        <3> SUFFICES ASSUME result = "Completed", tab = "open"
                     PROVE  /\ ~cleanup /\ cur \notin Grok
                            /\ \E c \in Grok :
                                  c < cur /\ [order |-> c, reason |-> "Rejected"] \in receipts
            OBVIOUS
        <3>1. step = "done"
            BY DEF EndBacked
        <3>2. ~cleanup /\ cur \notin Grok
            BY <3>1 DEF TabInv, Named
        <3>3. QED
            BY <3>2 DEF TabInv, Opened
    <2>3. QED
        BY <2>1, <2>2 DEF ResultBacked, AttentionBacked
<1>2. QED
    BY <1>1, TabInvariant, EndInvariant, TypeCorrect, PTL

-----------------------------------------------------------------------------
(* What a Grok candidate's events say.                                       *)

\* The events that are classified as a success.
Successes == {"item", "turn", "completed"}

Silent(events) == \A i \in 1..Len(events) : events[i] \notin Successes

\* Nothing was heard before a start, and nothing of a rejected one.
Unheard ==
    step \in Before \/ (step = "observed" /\ obs = "RejectedNoTaskStarted")
        => buffer = <<>>

\* The runner holds nothing before it waits, and comes to an end of its own only
\* without a success.
Undrained ==
    /\ step \in Before \cup {"observed"} => batch = <<>> /\ ended = "none"
    /\ step = "notify" => phase # "Completed"
    /\ result = "Completed" => ended = "Completed"

\* Unless the Grok run succeeded, no success is on its way to the runner or there.
Told ==
    cur \in Grok /\ run[cur] # "succeeded" =>
        Silent(buffer) /\ Silent(batch) /\ ended # "Completed"

ToldInv == Unheard /\ Undrained /\ Told

\* Nothing is heard in an empty sequence.
LEMMA EmptyIsSilent == Silent(<<>>) /\ <<>> \in Seq(Events)
BY EmptySeq DEF Silent

\* The rest of a silent batch is silent, and so is what its head says.
LEMMA SilentRest ==
    ASSUME NEW events \in Seq(Events), events # <<>>, Silent(events)
    PROVE  Silent(Tail(events)) /\ OutcomeOf(Head(events)) # "Succeeded"
<1>1. Len(events) \in Nat /\ Len(events) >= 1
    BY EmptySeq, LenProperties
<1>2. Silent(Tail(events))
    <2>1. Len(Tail(events)) = Len(events) - 1
        BY HeadTailProperties
    <2>2. \A i \in 1..Len(Tail(events)) : Tail(events)[i] = events[i + 1]
        BY HeadTailProperties
    <2>3. QED
        BY <1>1, <2>1, <2>2 DEF Silent
<1>3. Head(events) = events[1] /\ Head(events) \in Events
    BY HeadTailProperties
<1>4. Head(events) \notin Successes
    BY <1>1, <1>3 DEF Silent
<1>5. QED
    BY <1>2, <1>3, <1>4 DEF OutcomeOf, Successes, Events

\* Emitting anything else keeps the projection silent.
LEMMA EmitSilent ==
    ASSUME TypeOK, Silent(buffer), NEW event \in Events \ Successes, Emit(event)
    PROVE  Silent(buffer')
<1> DEFINE kept == IF Len(buffer) = BufferLimit THEN Tail(buffer) ELSE buffer
<1>1. kept \in Seq(Events) /\ Silent(kept)
    <2>1. CASE Len(buffer) = BufferLimit
        <3>1. buffer # <<>>
            BY <2>1, EmptySeq DEF TypeOK
        <3>2. QED
            BY <2>1, <3>1, SilentRest, HeadTailProperties DEF TypeOK
    <2>2. CASE Len(buffer) # BufferLimit
        BY <2>2 DEF TypeOK
    <2>3. QED
        BY <2>1, <2>2
<1>2. buffer' = Append(kept, event)
    BY DEF Emit
<1> HIDE DEF kept
<1>3. /\ Len(buffer') = Len(kept) + 1 /\ buffer'[Len(kept) + 1] = event
      /\ \A i \in 1..Len(kept) : buffer'[i] = kept[i]
    BY <1>1, <1>2, AppendProperties
<1>4. QED
    BY <1>1, <1>3, LenProperties DEF Silent

\* An observation ends the drain with a success only on one.
LEMMA ObserveTold ==
    ASSUME ended # "Completed", NEW outcome, NEW boundary, outcome # "Succeeded",
           Observe(outcome, boundary)
    PROVE  ended' # "Completed"
BY DEF Observe, PhaseAfter, ResultOf

\* A step that adds no event and undoes no success keeps what was told.
LEMMA ToldKept ==
    ASSUME TypeOK, Told, RunsSink(run, run'), cur' = cur, ended' = ended,
           batch' = batch, buffer' = buffer
    PROVE  Told'
BY DEF TypeOK, Told, RunsSink

\* The environment: a Grok run that is heard of has succeeded when it says so.
LEMMA ProviderTold ==
    ASSUME TypeOK, SingleRun, ToldInv, ProviderStep
    PROVE  Unheard' /\ Told'
<1>0. UNCHANGED <<route, runner>> /\ RunsSink(run, run')
    BY ProviderShape, ProvidersSink
<1>1. PICK c \in Candidates : run[c] # "idle"
    BY DEF ProviderStep, ProviderActs, TurnEnds, ProcessExits, TerminalEvent,
           PromptCompletes, AbortedElsewhere, External!EndTurn, External!Exit,
           External!Announce, External!Cut, External!Hush, External!Move
<1>2. c = cur
    BY <1>1 DEF SingleRun
<1>3. Unheard'
    BY <1>0, <1>1, <1>2 DEF SingleRun, Unheard, route, runner, Before
<1>4. ASSUME cur \in Grok, run'[cur] # "succeeded"
      PROVE  Silent(buffer')
    <2>1. run[cur] # "succeeded"
        BY <1>0, <1>4 DEF RunsSink, TypeOK
    <2>2. Silent(buffer)
        BY <1>4, <2>1 DEF ToldInv, Told
    <2>3. \A d \in Candidates \ Grok : run[d] = "idle"
        BY <1>4 DEF SingleRun
    <2>4. \/ buffer' = buffer
          \/ \E event \in Events \ Successes : Emit(event)
        <3>1. CASE ProviderActs
            <4>1. PICK d \in Candidates :
                    /\ run[d] # "idle"
                    /\ \E event \in {"started", "activity"}
                           \cup (IF d \in Grok THEN {} ELSE {"item", "failed"}) : Emit(event)
                BY <3>1 DEF ProviderActs
            <4>2. d \in Grok
                BY <2>3, <4>1
            <4>3. QED
                BY <4>1, <4>2 DEF Events, Successes
        <3>2. CASE PromptCompletes
            <4>1. PICK d \in Grok :
                    /\ run[d] = "working"
                    /\ \/ run' = [run EXCEPT ![d] = "succeeded"]
                       \/ \E event \in {"failed", "cancelled", "unknown"} : Emit(event)
                BY <3>2 DEF PromptCompletes
            <4>2. d = cur
                BY <4>1 DEF SingleRun
            <4>3. QED
                BY <1>4, <4>1, <4>2 DEF Events, Successes, TypeOK
        <3>3. CASE TurnEnds \/ ProcessExits \/ TerminalEvent \/ AbortedElsewhere
            BY <2>3, <3>3 DEF TurnEnds, ProcessExits, TerminalEvent, AbortedElsewhere,
                External!EndTurn, External!Exit, External!Announce, External!Cut,
                External!Hush, External!Move
        <3>4. QED
            BY <3>1, <3>2, <3>3 DEF ProviderStep
    <2>5. QED
        BY <2>2, <2>4, EmitSilent
<1>5. ASSUME cur \in Grok, run'[cur] # "succeeded"
      PROVE  Silent(batch) /\ ended # "Completed"
    <2>1. run[cur] # "succeeded"
        BY <1>0, <1>5 DEF RunsSink, TypeOK
    <2>2. QED
        BY <1>5, <2>1 DEF ToldInv, Told
<1>6. QED
    BY <1>0, <1>3, <1>4, <1>5 DEF Told, route, runner

\* A step past the dispatch that moves nothing the invariant looks at but the
\* runs, which sink, and that returns no success of its own.
LEMMA LateKeepsTold ==
    ASSUME TypeOK, ToldInv, RunsSink(run, run'), cur' = cur,
           UNCHANGED <<batch, buffer, ended>>,
           step \notin Before, step' \in {"waiting", "notify", "observing", "done"},
           step' = "notify" => phase' # "Completed",
           result' = "Completed" => result = "Completed" \/ ended = "Completed"
    PROVE  ToldInv'
<1>1. Told'
    BY ToldKept DEF ToldInv
<1>2. Unheard' /\ Undrained'
    BY DEF ToldInv, Unheard, Undrained, Before
<1>3. QED
    BY <1>1, <1>2 DEF ToldInv

\* Every step keeps it: the dispatch and the fallback,
LEMMA RouteTold ==
    ASSUME TypeOK, EndBacked, ToldInv, [Next]_vars,
           \/ Bind \/ Begin \/ PreflightEligible \/ PreflightStops
           \/ DispatchAccepted \/ DispatchRejected \/ DispatchAmbiguous
           \/ DispatchDropped \/ ApplyRejected \/ FailEarly
    PROVE  ToldInv'
<1> USE DEF route, world, runner, ToldInv
<1>1. /\ buffer = <<>> /\ batch = <<>> /\ ended = "none" /\ result # "Completed"
      /\ UNCHANGED <<batch, ended>>
    BY DEF Bind, Begin, PreflightEligible, PreflightStops, DispatchAccepted,
           DispatchRejected, DispatchAmbiguous, DispatchDropped, ApplyRejected,
           FailEarly, Fail, Unheard, Undrained, Before, EndBacked
<1>2. CASE Bind \/ Begin \/ PreflightEligible \/ DispatchRejected \/ DispatchAmbiguous
    <2>1. /\ buffer' = <<>> /\ result' # "Completed"
          /\ step' \in Before \cup {"observed"}
        BY <1>1, <1>2 DEF Bind, Begin, PreflightEligible, DispatchRejected,
                          DispatchAmbiguous, Before, EndBacked
    <2>2. Told'
        BY <1>1, <2>1, EmptyIsSilent DEF Told
    <2>3. Unheard' /\ Undrained'
        BY <1>1, <2>1 DEF Unheard, Undrained, Before
    <2>4. QED
        BY <2>2, <2>3
<1>3. CASE PreflightStops \/ ApplyRejected
    <2>1. /\ buffer' = <<>> /\ result' # "Completed"
          /\ step' = "preflight" \/ (step' = "notify" /\ phase' = "NeedsAttention")
        BY <1>1, <1>3 DEF PreflightStops, ApplyRejected, AdvanceAfterRejection, Settle
    <2>2. Told'
        BY <1>1, <2>1, EmptyIsSilent DEF Told
    <2>3. Unheard' /\ Undrained'
        BY <1>1, <2>1 DEF Unheard, Undrained, Before
    <2>4. QED
        BY <2>2, <2>3
<1>4. CASE DispatchAccepted
    <2>1. /\ step' = "observed" /\ obs' = "Accepted" /\ result' = result
          /\ cur' = cur /\ (cur \in Grok => buffer' = <<>>)
        BY <1>4 DEF DispatchAccepted
    <2>2. Told'
        BY <1>1, <2>1, EmptyIsSilent DEF Told
    <2>3. Unheard' /\ Undrained'
        BY <1>1, <2>1 DEF Unheard, Undrained, Before
    <2>4. QED
        BY <2>2, <2>3
<1>5. CASE DispatchDropped \/ FailEarly
    <2>1. buffer' = <<>> /\ result' = "Error" /\ step' = "done"
        BY <1>1, <1>5 DEF DispatchDropped, FailEarly, Fail, Return
    <2>2. Told'
        BY <1>1, <2>1, EmptyIsSilent DEF Told
    <2>3. Unheard' /\ Undrained'
        BY <1>1, <2>1 DEF Unheard, Undrained, Before
    <2>4. QED
        BY <2>2, <2>3
<1>6. QED
    BY <1>2, <1>3, <1>4, <1>5

\* what follows an accepted dispatch but the drain,
LEMMA ReturnTold ==
    ASSUME TypeOK, EndBacked, ToldInv,
           \/ ApplyAccepted \/ ApplyAmbiguous \/ ApplyRefused \/ HandleDropped
           \/ Notify \/ Cancel \/ TimeOut \/ StopRefused \/ LeaseLost \/ ObserveFails
    PROVE  ToldInv'
<1> USE DEF route, world, runner
<1>0. RunsSink(run, run)
    BY DEF RunsSink
<1>1. CASE ApplyAccepted \/ ApplyAmbiguous
    <2>1. /\ step' \in {"waiting", "notify"} /\ phase' # "Completed" /\ step = "observed"
          /\ UNCHANGED <<cur, batch, buffer, ended, result, run>>
        BY <1>1 DEF ApplyAccepted, ApplyAmbiguous, Settle
    <2>2. QED
        BY <1>0, <2>1, LateKeepsTold DEF Before
<1>2. CASE HandleDropped \/ StopRefused
    <2>1. /\ step' = "done" /\ result' = "Error" /\ step \in {"observed", "waiting"}
          /\ UNCHANGED <<cur, batch, buffer, ended, run>>
        BY <1>2 DEF HandleDropped, StopRefused, Fail, Return
    <2>2. QED
        BY <1>0, <2>1, LateKeepsTold DEF Before
<1>3. CASE ApplyRefused \/ LeaseLost \/ ObserveFails
    <2>1. ContainAndFail /\ step \in {"observed", "waiting", "observing"}
        BY <1>3 DEF ApplyRefused, LeaseLost, ObserveFails
    <2>2. /\ step' = "done" /\ result' = "Error" /\ UNCHANGED <<cur, batch, buffer, ended>>
        BY <2>1 DEF ContainAndFail, Return
    <2>3. QED
        BY <2>1, <2>2, ContainEnds, LateKeepsTold DEF Before
<1>4. CASE Notify
    <2>1. PICK ok \in BOOLEAN : /\ ReturnCleaned(ResultOf(phase), ok)
                                /\ run' = RunAfterCleanup(run, ok)
        BY <1>4 DEF Notify
    <2>2. step = "notify" /\ UNCHANGED <<cur, batch, buffer, ended>>
        BY <1>4 DEF Notify
    <2>3. phase # "Completed"
        BY <2>2 DEF ToldInv, Undrained
    <2>4. step' = "done" /\ result' # "Completed"
        BY <2>1, <2>3 DEF ReturnCleaned, Return, ResultOf
    <2>5. RunsSink(run, run')
        BY <2>1, AbortSinks
    <2>6. QED
        BY <2>2, <2>4, <2>5, LateKeepsTold DEF Before
<1>5. CASE Cancel \/ TimeOut
    <2>1. PICK outcome \in {"Cancelled", "TimedOut"} : StopRun(outcome)
        BY <1>5 DEF Cancel, TimeOut
    <2>2. PICK abort \in AbortOutcomes, ok \in BOOLEAN :
            /\ run' = RunAfterCleanup(RunAfterAbort(abort), ok)
            /\ ReturnCleaned(IF abort = "Uncertain" THEN "OutcomeUnknown"
                                                    ELSE ResultOf(phase'), ok)
        BY <2>1 DEF StopRun
    <2>3. phase' = "NeedsAttention" /\ UNCHANGED <<cur, batch, buffer, ended>>
        BY <2>1 DEF StopRun, PhaseAfter
    <2>4. step' = "done" /\ result' # "Completed"
        BY <2>2, <2>3 DEF ReturnCleaned, Return, ResultOf
    <2>5. RunsSink(run, run')
        BY <2>2, AbortSinks
    <2>6. step = "waiting"
        BY <1>5 DEF Cancel, TimeOut
    <2>7. QED
        BY <2>3, <2>4, <2>5, <2>6, LateKeepsTold DEF Before
<1>6. QED
    BY <1>1, <1>2, <1>3, <1>4, <1>5

\* and the drain itself.
LEMMA DrainTold ==
    ASSUME TypeOK, EndBacked, ToldInv, Drain \/ ObserveEvent \/ ObserveSnapshot
    PROVE  ToldInv'
<1> USE DEF route, world, runner
<1>1. CASE Drain
    <2>1. /\ step = "waiting" /\ step' = "observing" /\ batch' = buffer /\ buffer' = <<>>
          /\ UNCHANGED <<cur, ended, result, run>>
        BY <1>1 DEF Drain
    <2>2. Told'
        BY <2>1, EmptyIsSilent DEF ToldInv, Told
    <2>3. Unheard' /\ Undrained'
        BY <2>1 DEF ToldInv, Unheard, Undrained, Before
    <2>4. QED
        BY <2>2, <2>3 DEF ToldInv
<1>2. CASE ObserveEvent
    <2>1. /\ step = "observing" /\ step' = step /\ batch # <<>> /\ batch' = Tail(batch)
          /\ UNCHANGED <<cur, result, run, buffer>> /\ result # "Completed"
        BY <1>2 DEF ObserveEvent, EndBacked
    <2>2. ASSUME cur \in Grok, run[cur] # "succeeded"
          PROVE  Silent(batch') /\ ended' # "Completed" /\ Silent(buffer')
        <3>1. Silent(buffer) /\ Silent(batch) /\ ended # "Completed"
            BY <2>2 DEF ToldInv, Told
        <3>2. Silent(Tail(batch)) /\ OutcomeOf(Head(batch)) # "Succeeded"
            BY <2>1, <3>1, SilentRest DEF TypeOK
        <3>3. ended' # "Completed"
            BY <1>2, <3>1, <3>2, ObserveTold DEF ObserveEvent
        <3>4. QED
            BY <2>1, <3>1, <3>2, <3>3
    <2>3. Unheard' /\ Undrained'
        BY <2>1 DEF ToldInv, Unheard, Undrained, Before
    <2>4. QED
        BY <2>1, <2>2, <2>3 DEF ToldInv, Told
<1>3. CASE ObserveSnapshot
    <2>1. step = "observing" /\ UNCHANGED <<cur, batch, buffer>> /\ result # "Completed"
        BY <1>3 DEF ObserveSnapshot, EndBacked
    <2>2. ended' = ended
        BY <1>3 DEF ObserveSnapshot, Observe
    <2>3. CASE ended = "none"
        <3>1. step' = "waiting" /\ UNCHANGED <<result, run>>
            BY <1>3, <2>3 DEF ObserveSnapshot
        <3>2. RunsSink(run, run')
            BY <3>1 DEF RunsSink
        <3>3. QED
            BY <2>1, <2>2, <3>1, <3>2, LateKeepsTold DEF Before
    <2>4. CASE ended # "none"
        <3>1. PICK ok \in BOOLEAN : ReturnCleaned(ended, ok) /\ run' = RunAfterCleanup(run, ok)
            BY <1>3, <2>4 DEF ObserveSnapshot
        <3>2. step' = "done" /\ (result' = "Completed" => ended = "Completed")
            BY <3>1 DEF ReturnCleaned, Return
        <3>3. RunsSink(run, run')
            BY <3>1, AbortSinks
        <3>4. QED
            BY <2>1, <2>2, <3>2, <3>3, LateKeepsTold DEF Before
    <2>5. QED
        BY <2>3, <2>4
<1>4. QED
    BY <1>1, <1>2, <1>3

\* A Grok prompt that has not completed is never reported as a completion: what
\* CompletedMeansFinished claims holds for the one provider whose stream tells
\* its end once.
THEOREM GrokNeverCompletesEarly == Spec => []GrokCompletedMeansFinished
<1>1. Init => ToldInv
    BY EmptyIsSilent DEF Init, ToldInv, Unheard, Undrained, Told
<1>2. RunInv /\ EndBacked /\ ToldInv /\ [Next]_vars => ToldInv'
    <2> SUFFICES ASSUME RunInv, EndBacked, ToldInv, [Next]_vars
                 PROVE  ToldInv'
        OBVIOUS
    <2>0. TypeOK /\ SingleRun
        BY DEF RunInv
    <2>1. CASE RequestCancel \/ Deadline \/ UNCHANGED vars
        <3>1. UNCHANGED <<phase, cur, step, obs, batch, ended, result, run, buffer>>
            BY <2>1 DEF RequestCancel, Deadline, vars, route, runner, world
        <3>2. QED
            BY <3>1 DEF ToldInv, Unheard, Undrained, Told, Silent
    <2>2. CASE ProviderStep
        <3>1. UNCHANGED <<route, runner>>
            BY <2>0, <2>2, ProviderShape
        <3>2. QED
            BY <2>0, <2>2, <3>1, ProviderTold DEF ToldInv, Undrained, route, runner
    <2>3. QED
        BY <2>0, <2>1, <2>2, RouteTold, ReturnTold, DrainTold DEF Next, RouteStep, WaitStep
<1>3. ToldInv => GrokCompletedMeansFinished
    BY DEF ToldInv, Undrained, Told, GrokCompletedMeansFinished
<1>4. QED
    BY <1>1, <1>2, <1>3, RunInvariant, EndInvariant, PTL DEF Spec
===============================================================================
