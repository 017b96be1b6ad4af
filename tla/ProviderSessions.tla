-------------------------- MODULE ProviderSessions --------------------------
(***************************************************************************)
(* One tab of the provider session registry (provider_sessions.rs): the    *)
(* start call that spawns a provider child, the task that reads its        *)
(* stdout, the supervisor that waits for its end, approvals of the Codex   *)
(* app server, aborts from other tasks and the file of conversation ids.   *)
(* They are separate tokio tasks: every step below is what one of them     *)
(* does between two awaits or under one lock.                              *)
(***************************************************************************)
EXTENDS Naturals, FiniteSets, Sequences

CONSTANTS
    Runs,       \* runs started in the tab
    Codex,      \* those served by the Codex app server (they ask approvals)
    Keys,       \* provider-and-transport keys of the stored conversations
    KeyOf,      \* the key of each run
    Callers,    \* tasks that abort runs
    NoRun,      \* the absent run
    MaxLines,   \* bound: stdout lines with an effect, per run
    Casts,      \* bound: the runs and callers that take part together
    MaxTrouble  \* bound: runs, failures, forks and timeouts in a behaviour

ASSUME RunsAssumption == Codex \subseteq Runs /\ NoRun \notin Runs
ASSUME KeysAssumption == KeyOf \in [Runs -> Keys]
ASSUME BoundsAssumption == MaxLines \in Nat /\ MaxTrouble \in Nat
ASSUME CastsAssumption ==
    Runs \cap Callers = {} /\ \A cast \in Casts : Cardinality(cast \cap Runs) \in 0 .. MaxTrouble

VARIABLES
    run,        \* per run: what its three tasks and the registry hold
    caller,     \* per aborting task: its place, its targets, what it reports
    conv,       \* stored_conversations, in memory
    file,       \* provider-sessions.json
    storeLock,  \* the reader that holds store_lock
    snap,       \* the snapshot it is about to write
    unwritten,  \* the last write of the file failed (its error is dropped)
    trouble     \* how much of MaxTrouble has been used

vars == <<run, caller, conv, file, storeLock, snap, unwritten, trouble>>

Endings == {"Completed", "Failed", "Aborted"}
Modes == {"bypass", "readOnly", "ask"}
Answers == {"allow", "deny"}

Start == {"absent", "idle", "registered", "spawned", "ready", "started", "failed", "leaked"}
Child == {"none", "alive", "ok", "bad", "killed"}
Reader == {"none", "reading", "saving", "waiting", "answering", "done"}
Approval == {"none", "open", "elapsed", "expired", "gone"} \cup Answers
Supervisor == {"none", "select", "grace", "childOnly", "aborting", "interrupting",
               "denying", "joining", "marking", "done"}

Announcement == [by : {"start", "supervisor", "abort"}, phase : Endings]

RunState ==
    [start : Start,                        \* the start call
     phase : {"none", "active"} \cup Endings,  \* the registry's; active is
                                           \* Starting or Streaming
     mode : Modes,                         \* permission mode
     child : Child,
     muted : BOOLEAN,                      \* it closed its stdout while alive
     heir : BOOLEAN,                       \* a descendant shares its pipes
     abort : {"none", "held", "fired"},    \* the one-shot abort channel
     reader : Reader,
     lines : 0 .. MaxLines,
     observed : {"none"} \cup Endings,     \* observed_stream_terminal
     approval : Approval,                  \* pending request and its channel
     acked : {"none", "late"} \cup Answers, \* answer the operator got "ok" for;
                                           \* late: when the wait was over
     sup : Supervisor,
     verdict : {"none"} \cup Endings,      \* the supervisor's terminal
     filed : BOOLEAN,                      \* it was the one that recorded it
     proc : {"none", "running", "ended"},  \* entry of the process registry
     told : Seq(Announcement)]             \* terminal events emitted

CallerState == [at : {"idle", "recording", "done"}, todo : SUBSET Runs, loud : BOOLEAN]
Returned == [at |-> "done", todo |-> {}, loud |-> FALSE]

Stored == [Keys -> Runs \cup {NoRun}]

FreshRun(cast, m) ==
    [start |-> cast, phase |-> "none", mode |-> m, child |-> "none",
     muted |-> FALSE, heir |-> FALSE, abort |-> "none", reader |-> "none",
     lines |-> MaxLines, observed |-> "none", approval |-> "none",
     acked |-> "none", sup |-> "none", verdict |-> "none", filed |-> FALSE,
     proc |-> "none", told |-> << >>]

Init ==
    /\ run \in [Runs -> {FreshRun(s, m) : s \in {"idle", "absent"}, m \in Modes}]
    /\ \A r \in Runs : r \notin Codex \/ run[r].start = "absent" => run[r].mode = "ask"
    /\ caller \in [Callers -> {Returned, [Returned EXCEPT !.at = "idle"]}]
    /\ {r \in Runs : run[r].start = "idle"} \cup {c \in Callers : caller[c].at = "idle"}
            \in Casts
    /\ conv = [k \in Keys |-> NoRun]
    /\ file = conv
    /\ storeLock = NoRun
    /\ snap = conv
    /\ unwritten = FALSE
    /\ trouble = Cardinality({r \in Runs : run[r].start = "idle"})

-----------------------------------------------------------------------------
(* What a run's state says *)

Active(r) == run[r].phase = "active"
Alive(r) == run[r].child = "alive"

\* Someone can still write to stdout; someone holds the other two pipes.
StdoutOpen(r) == (Alive(r) /\ ~run[r].muted) \/ run[r].heir
PipesHeld(r) == Alive(r) \/ run[r].heir

\* abort_rx resolves when the sender is used and also when it is dropped,
\* which removing the run from active_runs does.
AbortFired(r) == run[r].abort = "fired"

\* Mutant: dropping the sender with the run does not count as an abort.
FiledKeepingSender(s, ending) ==
    IF s.phase = "active" THEN [s EXCEPT !.phase = ending] ELSE s

\* Mutant: a run is filed by whoever comes last.
FiledAgain(s, ending) ==
    [s EXCEPT !.phase = ending, !.abort = IF s.abort = "held" THEN "fired" ELSE s.abort]

\* record_terminal, record_abort: only an active run is filed; its abort
\* sender goes with it.
Filed(s, ending) ==
    IF s.phase = "active"
    THEN [s EXCEPT !.phase = ending,
                   !.abort = IF s.abort = "held" THEN "fired" ELSE s.abort]
    ELSE s

Dead(s) == IF s.child = "alive" THEN "killed" ELSE s.child

\* deny_pending_approvals_for_run: an entry whose reader still waits is
\* answered, one whose reader has given up is only removed.
Denied(s) ==
    [s EXCEPT !.approval = CASE s.approval = "open" -> "deny"
                             [] s.approval \in {"elapsed", "expired"} -> "gone"
                             [] OTHER -> s.approval]

\* observe_provider_stream_terminal: the first failure stays.
Observed(s, ending) ==
    IF s.observed = "Failed" THEN s.observed ELSE ending

Told(s, who, ending) == Append(s.told, [by |-> who, phase |-> ending])

Others == <<caller, conv, file, storeLock, snap, unwritten>>
Well == UNCHANGED <<Others, trouble>>

\* A step that is counted against MaxTrouble.
Trouble == trouble < MaxTrouble /\ trouble' = trouble + 1
Fails == UNCHANGED Others /\ Trouble

-----------------------------------------------------------------------------
(* start_provider_session_with_command *)

Register(r) ==
    /\ run[r].start = "idle"
    /\ run' = [run EXCEPT ![r].start = "registered", ![r].phase = "active"]
    /\ Well

\* `?` on the command line after the run was registered: nothing unregisters it.
PrepareFails(r) ==
    /\ run[r].start = "registered"
    /\ run' = [run EXCEPT ![r].start = "leaked"]
    /\ Fails

SpawnFails(r) ==
    /\ run[r].start = "registered"
    /\ run' = [run EXCEPT ![r] = [Filed(@, "Failed") EXCEPT
                    !.start = "failed", !.told = Told(run[r], "start", "Failed")]]
    /\ Fails

Spawn(r) ==
    /\ run[r].start = "registered"
    /\ run' = [run EXCEPT ![r].start = "spawned", ![r].child = "alive",
                          ![r].proc = "running"]
    /\ Well

SetupWritten(r) ==
    /\ run[r].start = "spawned"
    /\ run' = [run EXCEPT ![r].start = "ready"]
    /\ Well

\* The three error returns after the spawn kill the child and announce a
\* failure whether or not the run was still theirs to file.
StartGivesUp(r) ==
    run' = [run EXCEPT ![r] = [Filed(@, "Failed") EXCEPT
                !.start = "failed", !.child = Dead(run[r]), !.proc = "ended",
                !.told = Told(run[r], "start", "Failed")]]

SetupFails(r) ==
    /\ run[r].start = "spawned"
    /\ StartGivesUp(r)
    /\ Fails

\* attach_abort_sender, then the three tasks are spawned.
Attach(r) ==
    /\ run[r].start = "ready"
    /\ Active(r)
    /\ run' = [run EXCEPT ![r].start = "started", ![r].abort = "held",
                          ![r].reader = "reading", ![r].sup = "select"]
    /\ Well

AttachRefused(r) ==
    /\ run[r].start = "ready"
    /\ ~Active(r)
    /\ StartGivesUp(r)
    /\ Well

-----------------------------------------------------------------------------
(* The child process and what it leaves behind *)

ChildExits(r, how) ==
    /\ Alive(r)
    /\ run' = [run EXCEPT ![r].child = how]
    /\ Well

\* A descendant keeps the pipes; killing the child does not reach it.
Forks(r) ==
    /\ Alive(r)
    /\ ~run[r].heir
    /\ run' = [run EXCEPT ![r].heir = TRUE]
    /\ Fails

ClosesStdout(r) ==
    /\ Alive(r)
    /\ ~run[r].muted
    /\ run' = [run EXCEPT ![r].muted = TRUE]
    /\ Fails

HeirEnds(r) ==
    /\ run[r].heir
    /\ run' = [run EXCEPT ![r].heir = FALSE]
    /\ Well

-----------------------------------------------------------------------------
(* The stdout task *)

Counted(s) == [s EXCEPT !.lines = @ - 1]

CanRead(r) == run[r].reader = "reading" /\ run[r].lines > 0

\* Mutant: only a key that is new to the registry is written to the file.
ReadConversationOnce(r) ==
    /\ CanRead(r)
    /\ IF Active(r)
       THEN /\ conv' = [conv EXCEPT ![KeyOf[r]] = r]
            /\ run' = [run EXCEPT ![r] = [Counted(@) EXCEPT !.reader =
                    IF conv[KeyOf[r]] = NoRun THEN "saving" ELSE "reading"]]
       ELSE /\ run' = [run EXCEPT ![r] = Counted(@)]
            /\ UNCHANGED conv
    /\ UNCHANGED <<caller, file, storeLock, snap, unwritten, trouble>>

\* record_provider_conversation_id: refused when the run is no longer active.
ReadConversation(r) ==
    /\ CanRead(r)
    /\ IF Active(r)
       THEN /\ conv' = [conv EXCEPT ![KeyOf[r]] = r]
            /\ run' = [run EXCEPT ![r] = [Counted(@) EXCEPT !.reader = "saving"]]
       ELSE /\ run' = [run EXCEPT ![r] = Counted(@)]
            /\ UNCHANGED conv
    /\ UNCHANGED <<caller, file, storeLock, snap, unwritten, trouble>>

\* persist_store: store_lock first, then the snapshot of the registry.
TakeSnapshot(r) ==
    /\ run[r].reader = "saving"
    /\ storeLock = NoRun
    /\ storeLock' = r
    /\ snap' = conv
    /\ UNCHANGED <<run, caller, conv, file, unwritten, trouble>>

WriteStore(r) ==
    /\ storeLock = r
    /\ \/ file' = snap /\ unwritten' = FALSE /\ UNCHANGED trouble
       \/ UNCHANGED file /\ unwritten' = TRUE /\ Trouble
    /\ storeLock' = NoRun
    /\ snap' = [k \in Keys |-> NoRun]
    /\ run' = [run EXCEPT ![r].reader = "reading"]
    /\ UNCHANGED <<caller, conv>>

\* A line that ends the turn ends the reader too.
ReadTerminal(r, ending) ==
    /\ CanRead(r)
    /\ ending = "Aborted" => r \in Codex
    /\ run' = [run EXCEPT ![r] = [Counted(@) EXCEPT
                    !.observed = Observed(run[r], ending), !.reader = "done"]]
    /\ Well

\* Overflow, read error, protocol error: a failure of the stream.
ReadFails(r) ==
    /\ run[r].reader = "reading"
    /\ run' = [run EXCEPT ![r].observed = Observed(run[r], "Failed"),
                          ![r].reader = "done"]
    /\ Fails

ReadEof(r) ==
    /\ run[r].reader = "reading"
    /\ ~StdoutOpen(r)
    /\ run' = [run EXCEPT ![r].reader = "done"]
    /\ Well

-----------------------------------------------------------------------------
(* resolve_codex_app_server_approval and the operator's answer *)

ReadApproval(r) ==
    /\ CanRead(r)
    /\ r \in Codex
    /\ run' = [run EXCEPT ![r] =
            CASE @.mode = "bypass" -> [Counted(@) EXCEPT !.reader = "answering",
                                                         !.approval = "allow"]
              [] @.mode = "readOnly" -> [Counted(@) EXCEPT !.reader = "answering",
                                                           !.approval = "deny"]
              [] OTHER -> [Counted(@) EXCEPT !.reader = "waiting",
                                             !.approval = "open", !.acked = "none"]]
    /\ Well

\* Mutant: the answer counts as delivered although the receiver is dropped.
OperatorAnswersLate(r, answer) ==
    /\ run[r].approval \in {"open", "elapsed", "expired"}
    /\ run' = [run EXCEPT ![r].approval = IF @ = "open" THEN answer ELSE "gone",
                          ![r].acked = IF run[r].approval = "elapsed" THEN "late" ELSE answer]
    /\ Well

\* resolve_pending_approval: "ok" when the receiver still exists, which is so
\* for an instant after the wait for it is over.
OperatorAnswers(r, answer) ==
    /\ run[r].approval \in {"open", "elapsed", "expired"}
    /\ run' = [run EXCEPT ![r] =
            CASE @.approval = "open" -> [@ EXCEPT !.approval = answer, !.acked = answer]
              [] @.approval = "elapsed" -> [@ EXCEPT !.approval = "gone", !.acked = "late"]
              [] OTHER -> [@ EXCEPT !.approval = "gone"]]
    /\ Well

\* 60 seconds without an answer: the poll of the timeout returns Elapsed.
ApprovalExpires(r) ==
    /\ run[r].reader = "waiting"
    /\ run[r].approval = "open"
    /\ run' = [run EXCEPT ![r].approval = "elapsed"]
    /\ Well

\* The finished future is dropped, and the receiver with it; the entry stays
\* until forget_pending_approval.
ReceiverDropped(r) ==
    /\ run[r].reader = "waiting"
    /\ run[r].approval = "elapsed"
    /\ run' = [run EXCEPT ![r].approval = "expired"]
    /\ Well

\* Mutant: an entry that somebody else removed is waited for.
ForgetApprovalPresent(r) ==
    /\ run[r].reader = "waiting"
    /\ run[r].approval = "expired"
    /\ run' = [run EXCEPT ![r].approval = "deny", ![r].reader = "answering"]
    /\ Well

ForgetApproval(r) ==
    /\ run[r].reader = "waiting"
    /\ run[r].approval \in {"expired", "gone"}
    /\ run' = [run EXCEPT ![r].approval = "deny", ![r].reader = "answering"]
    /\ Well

TakeAnswer(r) ==
    /\ run[r].reader = "waiting"
    /\ run[r].approval \in Answers
    /\ run' = [run EXCEPT ![r].reader = "answering"]
    /\ Well

\* write_codex_app_server_message: someone must hold the other end of stdin.
WriteAnswer(r) ==
    /\ run[r].reader = "answering"
    /\ PipesHeld(r)
    /\ run' = [run EXCEPT ![r].approval = "none", ![r].acked = "none",
                          ![r].reader = "reading"]
    /\ Well

\* Nobody holds it, or the write takes longer than its timeout.
WriteAnswerFails(r) ==
    /\ run[r].reader = "answering"
    /\ IF PipesHeld(r) THEN Trouble ELSE UNCHANGED trouble
    /\ run' = [run EXCEPT ![r].approval = "none", ![r].acked = "none",
                          ![r].observed = Observed(run[r], "Failed"),
                          ![r].reader = "done"]
    /\ UNCHANGED Others

-----------------------------------------------------------------------------
(* The supervisor *)

Decide(r, ending) ==
    run' = [run EXCEPT ![r].verdict = ending, ![r].child = Dead(run[r]),
                       ![r].sup = "denying"]

\* provider_terminal_from_wait_status
ExitEnding(r) == IF run[r].child = "ok" THEN "Completed" ELSE "Failed"

SelectExit(r) ==
    /\ run[r].sup \in {"select", "childOnly"}
    /\ run[r].child \in {"ok", "bad"}
    /\ Decide(r, ExitEnding(r))
    /\ Well

\* provider_terminal_from_stream_terminal: a completed turn gets 500 ms to exit.
SelectStream(r) ==
    /\ run[r].sup = "select"
    /\ run[r].observed # "none"
    /\ IF run[r].observed = "Completed"
       THEN run' = [run EXCEPT ![r].sup = "grace"]
       ELSE Decide(r, run[r].observed)
    /\ Well

GraceEnds(r) ==
    /\ run[r].sup = "grace"
    /\ Decide(r, "Completed")
    /\ Well

\* The stream ended without a terminal: from here only the exit is awaited.
SelectStreamClosed(r) ==
    /\ run[r].sup = "select"
    /\ run[r].reader = "done"
    /\ run[r].observed = "none"
    /\ run' = [run EXCEPT ![r].sup = "childOnly"]
    /\ Well

SelectTimeout(r) ==
    /\ run[r].sup = "select"
    /\ Decide(r, "Failed")
    /\ Fails

SelectAbort(r) ==
    /\ run[r].sup = "select"
    /\ AbortFired(r)
    /\ run' = [run EXCEPT ![r].sup = "aborting"]
    /\ Well

AbortDenies(r) ==
    /\ run[r].sup = "aborting"
    /\ run' = [run EXCEPT ![r] = [Denied(@) EXCEPT !.sup = "interrupting"]]
    /\ Well

\* After the interrupt (Codex only) and at most 750 ms of grace.
AbortKillsChild(r) ==
    /\ run[r].sup = "interrupting"
    /\ Decide(r, "Aborted")
    /\ Well

EndDenies(r) ==
    /\ run[r].sup = "denying"
    /\ run' = [run EXCEPT ![r] = [Denied(@) EXCEPT !.sup = "joining"]]
    /\ Well

\* Mutants: the exit status alone, and the stream alone.
ReconciledByExit(r) == run[r].verdict
ReconciledByStream(r) == run[r].observed

\* reconcile_provider_terminal and the missing terminal of the app server
Reconciled(r) ==
    IF run[r].verdict # "Completed" THEN run[r].verdict
    ELSE IF run[r].observed = "Failed" \/ (r \in Codex /\ run[r].observed = "none")
         THEN "Failed"
         ELSE "Completed"

\* Mutant: only the process is awaited, not its stdout reader.
ConcludeEarly(r) ==
    /\ run[r].sup = "joining"
    /\ ~PipesHeld(r)
    /\ run' = [run EXCEPT ![r] = [Filed(@, Reconciled(r)) EXCEPT
                    !.sup = "marking", !.verdict = Reconciled(r),
                    !.filed = Active(r)]]
    /\ Well

\* Both readers are awaited, then the run is filed if nobody has filed it.
Conclude(r) ==
    /\ run[r].sup = "joining"
    /\ run[r].reader = "done"
    /\ ~PipesHeld(r)
    /\ run' = [run EXCEPT ![r] = [Filed(@, Reconciled(r)) EXCEPT
                    !.sup = "marking", !.verdict = Reconciled(r),
                    !.filed = Active(r)]]
    /\ Well

\* Mutant: announced without asking who filed the run.
SettleAlways(r) ==
    /\ run[r].sup = "marking"
    /\ run' = [run EXCEPT ![r].sup = "done", ![r].proc = "ended",
                ![r].told = Told(run[r], "supervisor", run[r].verdict)]
    /\ Well

\* mark_exited always, the terminal event only by the one that filed the run.
Settle(r) ==
    /\ run[r].sup = "marking"
    /\ run' = [run EXCEPT ![r].sup = "done", ![r].proc = "ended",
                ![r].told = IF run[r].filed
                            THEN Told(run[r], "supervisor", run[r].verdict)
                            ELSE @]
    /\ Well

-----------------------------------------------------------------------------
(* Aborts: of one run, or of all runs of the tab. The debug API announces   *)
(* the abort of one run (loud), Tasks and tab closing announce nothing.      *)

\* The senders of the active targets are taken under one lock and used.
TakeAborts(c, todo, loud) ==
    /\ caller[c].at = "idle"
    /\ loud => Cardinality(todo) = 1
    /\ LET hits == {r \in todo : Active(r)} IN
       /\ hits # {}
       /\ caller' = [caller EXCEPT ![c] =
                [at |-> "recording", todo |-> hits, loud |-> loud]]
       /\ run' = [r \in Runs |->
                IF r \in hits /\ run[r].abort = "held"
                THEN [run[r] EXCEPT !.abort = "fired"] ELSE run[r]]
    /\ UNCHANGED <<conv, file, storeLock, snap, unwritten, trouble>>

\* record_abort, one lock per run; false, and nothing announced, when the
\* supervisor or another caller was first.
RecordAbort(c, r) ==
    /\ caller[c].at = "recording"
    /\ r \in caller[c].todo
    /\ LET rest == caller[c].todo \ {r} IN
       caller' = [caller EXCEPT ![c] =
            IF rest = {} THEN Returned ELSE [@ EXCEPT !.todo = rest]]
    /\ run' = [run EXCEPT ![r] = [Filed(@, "Aborted") EXCEPT
            !.told = IF Active(r) /\ caller[c].loud
                     THEN Told(run[r], "abort", "Aborted") ELSE run[r].told]]
    /\ UNCHANGED <<conv, file, storeLock, snap, unwritten, trouble>>

-----------------------------------------------------------------------------

Starts(r) ==
    \/ Register(r) \/ PrepareFails(r) \/ SpawnFails(r) \/ Spawn(r)
    \/ SetupWritten(r) \/ SetupFails(r) \/ Attach(r) \/ AttachRefused(r)

Process(r) ==
    \/ \E how \in {"ok", "bad"} : ChildExits(r, how)
    \/ Forks(r)
    \/ ClosesStdout(r)
    \/ HeirEnds(r)

Reads(r) ==
    \/ ReadConversation(r) \/ TakeSnapshot(r) \/ WriteStore(r)
    \/ \E ending \in Endings : ReadTerminal(r, ending)
    \/ ReadFails(r) \/ ReadEof(r)

Approves(r) ==
    \/ ReadApproval(r)
    \/ \E answer \in Answers : OperatorAnswers(r, answer)
    \/ ApprovalExpires(r) \/ ReceiverDropped(r) \/ ForgetApproval(r) \/ TakeAnswer(r)
    \/ WriteAnswer(r) \/ WriteAnswerFails(r)

Supervises(r) ==
    \/ SelectExit(r) \/ SelectStream(r) \/ GraceEnds(r) \/ SelectStreamClosed(r)
    \/ SelectAbort(r) \/ AbortDenies(r) \/ AbortKillsChild(r)
    \/ EndDenies(r) \/ Conclude(r) \/ Settle(r)

Aborts(c) ==
    \/ \E todo \in {Runs} \cup {{r} : r \in Runs}, loud \in BOOLEAN : TakeAborts(c, todo, loud)
    \/ \E r \in Runs : RecordAbort(c, r)

Next ==
    \/ \E r \in Runs : Starts(r) \/ Process(r) \/ Reads(r) \/ Approves(r)
                        \/ Supervises(r) \/ SelectTimeout(r)
    \/ \E c \in Callers : Aborts(c)

Spec == Init /\ [][Next]_vars

\* Tasks that are not waiting for the provider, the operator or a descendant
\* go on; waits with a timeout of their own end. The run's own timeout (two
\* hours by default) is not relied on.
Fairness ==
    /\ \A r \in Runs :
        /\ WF_vars(SpawnFails(r) \/ Spawn(r) \/ SetupWritten(r)
                   \/ SetupFails(r) \/ Attach(r) \/ AttachRefused(r))
        /\ WF_vars(TakeSnapshot(r) \/ WriteStore(r) \/ ReadEof(r)
                   \/ ApprovalExpires(r) \/ ReceiverDropped(r) \/ ForgetApproval(r)
                   \/ TakeAnswer(r) \/ WriteAnswer(r) \/ WriteAnswerFails(r))
        /\ WF_vars(Supervises(r))
    /\ \A c \in Callers : WF_vars(\E r \in Runs : RecordAbort(c, r))

FairSpec == Spec /\ Fairness

-----------------------------------------------------------------------------
(* Properties *)

TypeOK ==
    /\ run \in [Runs -> RunState]
    /\ caller \in [Callers -> CallerState]
    /\ conv \in Stored
    /\ file \in Stored
    /\ storeLock \in Runs \cup {NoRun}
    /\ snap \in Stored
    /\ unwritten \in BOOLEAN
    /\ trouble \in 0 .. MaxTrouble

\* When the supervisor has finished with a run, or its start call gave up after
\* filing it, nothing of it is left behind: no process, no reader, no approval
\* that the operator could still answer, no entry that looks like running.
SettledIsQuiet ==
    \A r \in Runs :
        run[r].sup = "done" \/ run[r].start = "failed" =>
            /\ ~Alive(r)
            /\ ~Active(r)
            /\ run[r].reader \in {"none", "done"}
            /\ run[r].approval = "none"
            /\ run[r].proc # "running"
            /\ storeLock # r

\* A run filed as Completed has no process any more, its stream reported no
\* failure, and the Codex app server did report the end of a turn, whichever of
\* exit, stream, timeout and abort the supervisor saw first.
VerdictHonest ==
    \A r \in Runs :
        run[r].phase = "Completed" =>
            /\ ~Alive(r)
            /\ run[r].observed # "Failed"
            /\ r \in Codex => run[r].observed # "none"

\* The supervisor and an abort of exactly one run never contradict each other:
\* between them they announce at most one ending, the one the registry filed.
AnnouncedAsFiled ==
    \A r \in Runs :
        LET said == {i \in DOMAIN run[r].told :
                        run[r].told[i].by \in {"supervisor", "abort"}}
        IN  /\ \A i, j \in said : i = j
            /\ \A i \in said : run[r].told[i].phase = run[r].phase

\* An answer that the operator was told was accepted in time is the one written
\* to the provider, and in a mode that asks nothing is allowed that the operator
\* did not allow in time. A timeout or an abort that comes at the same time can
\* only deny: that is also what becomes of an answer told "ok" between the end
\* of the wait and the drop of its receiver.
ApprovalAuthorized ==
    \A r \in Runs : run[r].reader = "answering" =>
        /\ run[r].acked \in Answers => run[r].approval = run[r].acked
        /\ run[r].acked = "late" => run[r].approval = "deny"
        /\ run[r].approval = "allow" => run[r].mode = "bypass" \/ run[r].acked = "allow"

\* When no reader is between a new conversation id and its write, and the last
\* write succeeded, the file holds every id the registry holds: the readers of
\* two runs never overwrite each other's ids.
FileFresh ==
    (\A r \in Runs : run[r].reader # "saving") /\ ~unwritten => file = conv

\* An aborted run has its process killed, wherever the abort meets the start
\* call, the approval wait or the supervisor; unless the process has closed its
\* stdout before (see AbortEndsRun). A run that is filed stays filed, so leads-to
\* is said as infinitely often, which costs TLC no tableau.
AbortKills ==
    \A r \in Runs : []<>(run[r].phase = "Aborted" => ~Alive(r) \/ run[r].muted)

\* Once the supervisor knows how a run ended it files and announces it; only a
\* descendant that keeps the pipes open can hold it up, never an approval that
\* nobody answers any more.
VerdictIsFiled ==
    \A r \in Runs : []<>(run[r].verdict # "none" => run[r].sup = "done" \/ run[r].heir)

\* What the caller of the start call can tell about a run: from the result of the
\* call, the registry's snapshot, and the events of the reader and the supervisor.
View(s) ==
    CASE s.start = "failed"   -> "failed"
      [] s.start \in Start \ {"failed", "started"} -> "idle"
      [] s.start = "started" /\ s.phase = "active" ->
            IF s.observed = "none" THEN "working" ELSE "turned"
      [] s.start = "started" /\ s.phase = "Aborted" /\ ~s.filed ->
            IF s.reader = "done" THEN "aborted" ELSE "cut"
      [] OTHER ->
            CASE s.phase = "Completed" -> IF s.sup = "done" THEN "succeeded" ELSE "exitedOk"
              [] s.phase = "Failed"    -> IF s.sup = "done" THEN "failed" ELSE "exitedFailed"
              [] OTHER                 -> IF s.sup = "done" THEN "aborted" ELSE "exitedAborted"

External == INSTANCE ExternalRun WITH state <- [r \in Runs |-> View(run[r])]

\* The contract that a Task attempt relies on: whatever start call, reader,
\* supervisor, operator, aborts and process do to each other, a run goes through
\* the states of ExternalRun; once it has left the registry it never comes back,
\* and it has one ending.
ImplementsExternalRun == External!Spec

SupervisorTells(s) == \E i \in DOMAIN s.told : s.told[i].by = "supervisor"

\* When it speaks: the stream of a run has effects only before the end of its
\* turn, or while an abort has filed the run and nobody else has; its terminal
\* event comes after it has left the registry, once, and not for a run that an
\* abort has filed.
SpeaksAsContracted ==
    [][\A r \in Runs :
        /\ run'[r].lines # run[r].lines => View(run[r]) \in {"working", "cut"}
        /\ SupervisorTells(run'[r]) /\ ~SupervisorTells(run[r]) <=> External!Announce(r)]_vars

\* docs/public/API.md:259: POST /provider-sessions/abort ends the active run.
\* The code does not keep this when the child has closed its stdout: the
\* supervisor then awaits the exit only.
AbortEndsRun ==
    \A r \in Runs : []<>(run[r].phase = "Aborted" => ~Alive(r))
=============================================================================
