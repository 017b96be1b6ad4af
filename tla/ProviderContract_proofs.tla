------------------------ MODULE ProviderContract_proofs ------------------------
(***************************************************************************)
(* The registry of provider sessions keeps the contract ExternalRun that    *)
(* Task attempts rely on, for any number of runs and of aborting callers.   *)
(***************************************************************************)
EXTENDS ProviderSessions_proofs

-----------------------------------------------------------------------------
(* What the caller sees of one run's record.                                 *)

\* What the contract needs beyond Good: a stream that has ended its turn has no
\* reader any more, and only the supervisor files a run it supervises, except
\* for an abort.
ViewGood(s) ==
    /\ s.observed # "none" => s.reader = "done"
    /\ s.start = "started" => s.phase # "none"
    /\ s.start = "started" /\ s.phase \notin {"active", "Aborted"} => s.filed

AllViews == \A r \in Runs : ViewGood(run[r])

EndOf(phase, told) ==
    CASE phase = "Completed" -> IF told THEN "succeeded" ELSE "exitedOk"
      [] phase = "Failed"    -> IF told THEN "failed" ELSE "exitedFailed"
      [] OTHER               -> IF told THEN "aborted" ELSE "exitedAborted"

\* View, case by case.
LEMMA ViewCases ==
    ASSUME NEW s \in RunState
    PROVE  /\ s.start = "failed" => View(s) = "failed"
           /\ s.start \notin {"failed", "started"} => View(s) = "idle"
           /\ s.start = "started" /\ s.phase = "active" =>
                View(s) = IF s.observed = "none" THEN "working" ELSE "turned"
           /\ s.start = "started" /\ s.phase = "Aborted" /\ ~s.filed =>
                View(s) = IF s.reader = "done" THEN "aborted" ELSE "cut"
           /\ s.start = "started" /\ s.filed /\ s.phase \in Endings =>
                View(s) = EndOf(s.phase, s.sup = "done")
BY DEF View, EndOf, RunState, Start, Endings

\* A stream that still has a reader belongs to a run that works or was cut.
LEMMA SpeakingView ==
    ASSUME NEW r \in Runs, NEW s \in RunState, Good(r, s), ViewGood(s),
           s.reader \notin {"none", "done"}
    PROVE  View(s) \in {"working", "cut"}
<1>1. s.start = "started" /\ s.observed = "none" /\ ~s.filed
    BY DEF Good, StartGood, EndGood, SaidGood, ViewGood
<1>2. s.phase \in {"active", "Aborted"}
    BY <1>1 DEF ViewGood
<1>3. QED
    BY <1>1, <1>2, ViewCases

-----------------------------------------------------------------------------
(* What a step may do to what the caller sees.                               *)

Exited == {"exitedOk", "exitedFailed", "exitedAborted"}

Silently(a, b) ==
    \/ a = b
    \/ a = "idle" /\ b \in {"working", "failed"}
    \/ a = "working" /\ b \in {"turned", "cut", "aborted"} \cup Exited
    \/ a = "turned" /\ b \in {"aborted"} \cup Exited
    \/ a = "cut" /\ b = "aborted"

Announcing(a, b) ==
    \/ a = "exitedOk" /\ b = "succeeded"
    \/ a = "exitedFailed" /\ b = "failed"
    \/ a = "exitedAborted" /\ b = "aborted"

\* The record of a run goes from o to s as the contract allows, and the
\* supervisor's announcement is the contract's.
Keeps(o, s) ==
    /\ ViewGood(s)
    /\ s.lines # o.lines => View(o) \in {"working", "cut"}
    /\ IF SupervisorTells(s) /\ ~SupervisorTells(o)
       THEN Announcing(View(o), View(s))
       ELSE Silently(View(o), View(s))

\* Nothing that the caller can see of it changes; a line is read by a reader.
Quiet(o, s) ==
    /\ s.start = o.start /\ s.phase = o.phase /\ s.observed = o.observed
    /\ s.filed = o.filed /\ s.told = o.told
    /\ s.lines # o.lines => o.reader \notin {"none", "done"}
    /\ s.reader = "done" <=> o.reader = "done"
    /\ s.sup = "done" <=> o.sup = "done"

\* Only run r may change, and as the contract allows.
KeepsContract(r) ==
    /\ \A x \in Runs \ {r} : run'[x] = run[x]
    /\ Keeps(run[r], run'[r])

\* Every record is known to be good before the step and after it.
Known == TypeOK /\ AllGood /\ AllViews /\ TypeOK' /\ AllGood'

\* A step that changes nothing the caller sees keeps the contract.
LEMMA QuietKeeps ==
    ASSUME NEW r \in Runs, NEW o \in RunState, NEW s \in RunState, Quiet(o, s),
           Good(r, o), ViewGood(o)
    PROVE  Keeps(o, s)
<1>1. View(s) = View(o)
    BY DEF View, Quiet
<1>2. ViewGood(s)
    BY DEF ViewGood, Quiet
<1>3. SupervisorTells(s) = SupervisorTells(o)
    BY DEF SupervisorTells, Quiet
<1>4. s.lines # o.lines => View(o) \in {"working", "cut"}
    BY SpeakingView DEF Quiet
<1>5. QED
    BY <1>1, <1>2, <1>3, <1>4 DEF Keeps, Silently

\* A step that is quiet for one run and leaves the others alone.
LEMMA QuietStep ==
    ASSUME Known, NEW r \in Runs, Quiet(run[r], run'[r]),
           \A x \in Runs \ {r} : run'[x] = run[x]
    PROVE  KeepsContract(r)
BY QuietKeeps DEF Known, TypeOK, AllGood, AllViews, KeepsContract

-----------------------------------------------------------------------------
(* The quiet steps.                                                          *)

\* What the child and its descendant do.
LEMMA ProcessQuiet ==
    ASSUME Known, NEW r \in Runs, Process(r)
    PROVE  KeepsContract(r)
<1> DEFINE o == run[r]
<1>1. o \in RunState /\ run \in [Runs -> RunState]
    BY DEF Known, TypeOK
<1>2. PICK s : /\ run' = [run EXCEPT ![r] = s]
               /\ \/ \E how \in {"ok", "bad"} : s = [o EXCEPT !.child = how]
                  \/ \E heir \in BOOLEAN : s = [o EXCEPT !.heir = heir]
                  \/ s = [o EXCEPT !.muted = TRUE]
    BY <1>1 DEF Process, ChildExits, Forks, ClosesStdout, HeirEnds
<1>3. run'[r] = s /\ \A x \in Runs \ {r} : run'[x] = run[x]
    BY <1>1, <1>2
<1> HIDE DEF o
<1>4. Quiet(o, s)
    BY <1>1, <1>2 DEF RunState, Quiet
<1>5. QED
    BY <1>3, <1>4, QuietStep DEF o

\* A conversation id, and its way into the file.
LEMMA ReadsQuiet ==
    ASSUME Known, NEW r \in Runs,
           ReadConversation(r) \/ TakeSnapshot(r) \/ (WriteStore(r) /\ run[r].reader = "saving")
    PROVE  KeepsContract(r)
<1> DEFINE o == run[r]
           n == o.lines - 1
<1>1. o \in RunState /\ run \in [Runs -> RunState]
    BY DEF Known, TypeOK
<1>2. CASE TakeSnapshot(r)
    BY <1>1, <1>2, QuietStep DEF TakeSnapshot, Quiet
<1>3. CASE ReadConversation(r) \/ (WriteStore(r) /\ run[r].reader = "saving")
    <2>1. PICK s : /\ run' = [run EXCEPT ![r] = s]
                   /\ \/ s = [o EXCEPT !.lines = n, !.reader = "saving"] /\ o.reader = "reading"
                      \/ s = [o EXCEPT !.lines = n] /\ o.reader = "reading"
                      \/ s = [o EXCEPT !.reader = "reading"] /\ o.reader = "saving"
        BY <1>1, <1>3 DEF ReadConversation, WriteStore, CanRead, Counted
    <2>2. run'[r] = s /\ \A x \in Runs \ {r} : run'[x] = run[x]
        BY <1>1, <2>1
    <2> HIDE DEF o, n
    <2>3. Quiet(o, s)
        BY <1>1, <2>1, ZenonT(60) DEF RunState, Quiet
    <2>4. QED
        BY <2>2, <2>3, QuietStep DEF o
<1>4. QED
    BY <1>2, <1>3

\* A request for approval and its answer.
LEMMA ApprovesQuiet ==
    ASSUME Known, NEW r \in Runs,
           \/ ReadApproval(r) \/ \E answer \in Answers : OperatorAnswers(r, answer)
           \/ ApprovalExpires(r) \/ ReceiverDropped(r) \/ ForgetApproval(r)
           \/ TakeAnswer(r) \/ WriteAnswer(r)
    PROVE  KeepsContract(r)
<1> DEFINE o == run[r]
           n == o.lines - 1
<1>1. o \in RunState /\ run \in [Runs -> RunState]
    BY DEF Known, TypeOK
<1>2. ASSUME NEW s, run' = [run EXCEPT ![r] = s], Quiet(o, s)
      PROVE  KeepsContract(r)
    BY <1>1, <1>2, QuietStep
<1>3. CASE ReadApproval(r)
    <2>1. PICK w \in {"answering", "waiting"}, a \in {"allow", "deny", "open"} :
            \/ run' = [run EXCEPT ![r] = [o EXCEPT !.lines = n, !.reader = w, !.approval = a]]
            \/ run' = [run EXCEPT ![r] = [o EXCEPT !.lines = n, !.reader = w, !.approval = a,
                                                  !.acked = "none"]]
        BY <1>1, <1>3 DEF ReadApproval, Counted
    <2>2. o.reader = "reading"
        BY <1>3 DEF ReadApproval, CanRead
    <2> HIDE DEF o, n
    <2>3. /\ Quiet(o, [o EXCEPT !.lines = n, !.reader = w, !.approval = a])
          /\ Quiet(o, [o EXCEPT !.lines = n, !.reader = w, !.approval = a, !.acked = "none"])
        BY <1>1, <2>2 DEF RunState, Quiet
    <2>4. QED
        BY <1>2, <2>1, <2>3
<1>4. ASSUME NEW answer \in Answers, OperatorAnswers(r, answer)
      PROVE  KeepsContract(r)
    <2>1. \/ run' = [run EXCEPT ![r] = [o EXCEPT !.approval = answer, !.acked = answer]]
          \/ run' = [run EXCEPT ![r] = [o EXCEPT !.approval = "gone", !.acked = "late"]]
          \/ run' = [run EXCEPT ![r] = [o EXCEPT !.approval = "gone"]]
        BY <1>1, <1>4 DEF OperatorAnswers
    <2> HIDE DEF o
    <2>2. /\ Quiet(o, [o EXCEPT !.approval = answer, !.acked = answer])
          /\ Quiet(o, [o EXCEPT !.approval = "gone", !.acked = "late"])
          /\ Quiet(o, [o EXCEPT !.approval = "gone"])
        BY <1>1 DEF RunState, Quiet
    <2>3. QED
        BY <1>2, <2>1, <2>2
<1>5. CASE ApprovalExpires(r) \/ ReceiverDropped(r) \/ ForgetApproval(r)
    <2>1. /\ o.reader = "waiting"
          /\ \/ run' = [run EXCEPT ![r] = [o EXCEPT !.approval = "elapsed"]]
             \/ run' = [run EXCEPT ![r] = [o EXCEPT !.approval = "expired"]]
             \/ run' = [run EXCEPT ![r] = [o EXCEPT !.approval = "deny", !.reader = "answering"]]
        BY <1>1, <1>5 DEF ApprovalExpires, ReceiverDropped, ForgetApproval
    <2> HIDE DEF o
    <2>2. /\ Quiet(o, [o EXCEPT !.approval = "elapsed"])
          /\ Quiet(o, [o EXCEPT !.approval = "expired"])
          /\ Quiet(o, [o EXCEPT !.approval = "deny", !.reader = "answering"])
        BY <1>1, <2>1 DEF RunState, Quiet
    <2>3. QED
        BY <1>2, <2>1, <2>2
<1>6. CASE TakeAnswer(r) \/ WriteAnswer(r)
    <2>1. /\ o.reader \in {"waiting", "answering"}
          /\ \/ run' = [run EXCEPT ![r] = [o EXCEPT !.reader = "answering"]]
             \/ run' = [run EXCEPT ![r] = [o EXCEPT !.approval = "none", !.acked = "none",
                                                   !.reader = "reading"]]
        BY <1>1, <1>6 DEF TakeAnswer, WriteAnswer
    <2> HIDE DEF o
    <2>2. /\ Quiet(o, [o EXCEPT !.reader = "answering"])
          /\ Quiet(o, [o EXCEPT !.approval = "none", !.acked = "none", !.reader = "reading"])
        BY <1>1, <2>1 DEF RunState, Quiet
    <2>3. QED
        BY <1>2, <2>1, <2>2
<1>7. QED
    BY <1>3, <1>4, <1>5, <1>6

\* The supervisor on its way to the end of the run.
LEMMA SupervisesQuiet ==
    ASSUME Known, NEW r \in Runs,
           \/ SelectExit(r) \/ SelectStream(r) \/ GraceEnds(r) \/ SelectStreamClosed(r)
           \/ SelectAbort(r) \/ AbortDenies(r) \/ AbortKillsChild(r) \/ EndDenies(r)
           \/ SelectTimeout(r)
    PROVE  KeepsContract(r)
<1>1. CASE \E ending : Decide(r, ending) /\ run[r].sup # "done"
    <2>1. PICK ending : run' = [run EXCEPT ![r] = [run[r] EXCEPT
                !.verdict = ending, !.child = Dead(run[r]), !.sup = "denying"]]
        BY <1>1 DEF Decide
    <2> DEFINE c == Dead(run[r])
    <2> HIDE DEF c
    <2>2. run'[r] = [run[r] EXCEPT !.verdict = ending, !.child = c, !.sup = "denying"]
        BY <2>1 DEF Known, TypeOK, c
    <2>3. Quiet(run[r], run'[r])
        BY <1>1, <2>2 DEF Known, TypeOK, RunState, Quiet
    <2>4. QED
        BY <2>1, <2>3, QuietStep DEF Known, TypeOK
<1>2. CASE \/ SelectStreamClosed(r) \/ SelectAbort(r)
           \/ SelectStream(r) /\ run[r].observed = "Completed"
    <2>1. Quiet(run[r], run'[r]) /\ \A x \in Runs \ {r} : run'[x] = run[x]
        BY <1>2, SMTT(40)
        DEF SelectStreamClosed, SelectAbort, SelectStream, Known, TypeOK, RunState, Quiet
    <2>2. QED
        BY <2>1, QuietStep
<1>3. CASE AbortDenies(r) \/ EndDenies(r)
    <2> DEFINE d == Denied(run[r])
    <2>1. PICK a : d = [run[r] EXCEPT !.approval = a]
        BY DEF Denied, Known, TypeOK, RunState
    <2>2. PICK place \in {"interrupting", "joining"} : run' = [run EXCEPT ![r] = [d EXCEPT !.sup = place]]
        BY <1>3 DEF AbortDenies, EndDenies
    <2>3. run[r].sup # "done"
        BY <1>3 DEF AbortDenies, EndDenies
    <2> HIDE DEF d
    <2>4. run'[r] = [[run[r] EXCEPT !.approval = a] EXCEPT !.sup = place]
        BY <2>1, <2>2 DEF Known, TypeOK
    <2>5. Quiet(run[r], run'[r])
        BY <2>3, <2>4 DEF Known, TypeOK, RunState, Quiet
    <2>6. QED
        BY <2>2, <2>5, QuietStep DEF Known, TypeOK
<1>4. QED
    BY <1>1, <1>2, <1>3
    DEF SelectTimeout, SelectExit, SelectStream, GraceEnds, AbortKillsChild
-----------------------------------------------------------------------------
(* The steps that the caller can see.                                        *)

\* An announcement is the supervisor's if the supervisor makes it.
LEMMA TellsAppend ==
    ASSUME NEW o \in RunState, NEW s, NEW who \in {"start", "supervisor", "abort"},
           NEW ending, s.told = Told(o, who, ending)
    PROVE  SupervisorTells(s) <=> SupervisorTells(o) \/ who = "supervisor"
<1>1. o.told \in Seq(Announcement)
    BY DEF RunState
<1>2. /\ DOMAIN s.told = 1 .. (Len(o.told) + 1) /\ DOMAIN o.told = 1 .. Len(o.told)
      /\ Len(o.told) \in Nat
      /\ s.told[Len(o.told) + 1] = [by |-> who, phase |-> ending]
      /\ \A i \in 1 .. Len(o.told) : s.told[i] = o.told[i]
    BY <1>1 DEF Told
<1>3. QED
    BY <1>2 DEF SupervisorTells

\* Filing reads no line.
LEMMA FiledLines ==
    ASSUME NEW o \in RunState, NEW ending
    PROVE  Filed(o, ending).lines = o.lines
BY DEF Filed, RunState

\* A run that has not started yet has only the start call's result to show.
LEMMA NotStartedKeeps ==
    ASSUME NEW o \in RunState, NEW s \in RunState, ViewGood(o),
           o.start \notin {"failed", "started"}, s.start # "started",
           s.observed = o.observed, s.reader = o.reader, s.lines = o.lines,
           SupervisorTells(s) <=> SupervisorTells(o)
    PROVE  Keeps(o, s)
BY ViewCases DEF ViewGood, Keeps, Silently

\* The start call until it gives up or its run is attached.
LEMMA StartsContract ==
    ASSUME Known, NEW r \in Runs, Starts(r)
    PROVE  KeepsContract(r)
<1> DEFINE o == run[r]
           s == run'[r]
           f == Filed(o, "Failed")
           t == Told(o, "start", "Failed")
           c == Dead(o)
<1>1. /\ o \in RunState /\ s \in RunState /\ run \in [Runs -> RunState]
      /\ Good(r, o) /\ ViewGood(o)
    BY DEF Known, TypeOK, AllGood, AllViews
<1>2. ASSUME NEW x, run' = [run EXCEPT ![r] = x]
      PROVE  s = x /\ \A y \in Runs \ {r} : run'[y] = run[y]
    BY <1>1, <1>2
<1>3. CASE Register(r) \/ PrepareFails(r) \/ Spawn(r) \/ SetupWritten(r)
    <2>1. /\ o.start \notin {"failed", "started"}
          /\ \/ run' = [run EXCEPT ![r] = [o EXCEPT !.start = "registered", !.phase = "active"]]
             \/ run' = [run EXCEPT ![r] = [o EXCEPT !.start = "leaked"]]
             \/ run' = [run EXCEPT ![r] = [o EXCEPT !.start = "spawned", !.child = "alive",
                                                   !.proc = "running"]]
             \/ run' = [run EXCEPT ![r] = [o EXCEPT !.start = "ready"]]
        BY <1>1, <1>3 DEF Register, PrepareFails, Spawn, SetupWritten
    <2>2. /\ \A y \in Runs \ {r} : run'[y] = run[y]
          /\ \/ s = [o EXCEPT !.start = "registered", !.phase = "active"]
             \/ s = [o EXCEPT !.start = "leaked"]
             \/ s = [o EXCEPT !.start = "spawned", !.child = "alive", !.proc = "running"]
             \/ s = [o EXCEPT !.start = "ready"]
        BY <1>2, <2>1
    <2> HIDE DEF o, s
    <2>3. /\ s.start # "started" /\ s.observed = o.observed /\ s.reader = o.reader
          /\ s.lines = o.lines /\ s.told = o.told
        BY <1>1, <2>2, ZenonT(60) DEF RunState
    <2>4. Keeps(o, s)
        BY <1>1, <2>1, <2>3, NotStartedKeeps DEF SupervisorTells
    <2>5. QED
        BY <2>2, <2>4 DEF KeepsContract, o, s
<1>4. CASE SpawnFails(r) \/ SetupFails(r) \/ AttachRefused(r)
    <2>1. o.start \notin {"failed", "started"}
        BY <1>4 DEF SpawnFails, SetupFails, AttachRefused
    <2>2. /\ \A y \in Runs \ {r} : run'[y] = run[y]
          /\ \/ s = [f EXCEPT !.start = "failed", !.told = t]
             \/ s = [f EXCEPT !.start = "failed", !.child = c, !.proc = "ended", !.told = t]
        BY <1>2, <1>4 DEF SpawnFails, SetupFails, AttachRefused, StartGivesUp
    <2>3. f \in RunState /\ SameWork(f, o) /\ f.lines = o.lines
        <3>1. f \in RunState /\ SameWork(f, o)
            BY <1>1, FiledShape DEF Endings
        <3>2. f.lines = o.lines
            BY <1>1, FiledLines
        <3>3. QED
            BY <3>1, <3>2
    <2> HIDE DEF o, s, f, t, c
    <2>4. /\ s.start # "started" /\ s.observed = f.observed /\ s.reader = f.reader
          /\ s.lines = f.lines /\ s.told = t
        BY <2>2, <2>3 DEF RunState
    <2>5. SupervisorTells(s) <=> SupervisorTells(o)
        BY <1>1, <2>4, TellsAppend DEF t
    <2>6. Keeps(o, s)
        BY <1>1, <2>1, <2>3, <2>4, <2>5, NotStartedKeeps DEF SameWork
    <2>7. QED
        BY <2>2, <2>6 DEF KeepsContract, o, s
<1>5. CASE Attach(r)
    <2> DEFINE x == [o EXCEPT !.start = "started", !.abort = "held", !.reader = "reading",
                             !.sup = "select"]
    <2>1. o.start = "ready" /\ o.phase = "active"
        BY <1>5 DEF Attach, Active
    <2>2. s = x /\ \A y \in Runs \ {r} : run'[y] = run[y]
        <3>1. run' = [run EXCEPT ![r] = x]
            BY <1>1, <1>5 DEF Attach
        <3> HIDE DEF x
        <3>2. QED
            BY <1>2, <3>1
    <2> HIDE DEF o, s
    <2>3. /\ s.start = "started" /\ s.phase = "active" /\ s.observed = o.observed
          /\ s.lines = o.lines /\ s.told = o.told
        BY <1>1, <2>1, <2>2 DEF RunState
    <2>4. o.observed = "none"
        BY <1>1, <2>1 DEF Good, StartGood, ViewGood
    <2>5. View(o) = "idle" /\ View(s) = "working"
        BY <1>1, <2>1, <2>3, <2>4, ViewCases
    <2>6. ViewGood(s) /\ (SupervisorTells(s) <=> SupervisorTells(o))
        BY <2>3, <2>4 DEF ViewGood, SupervisorTells
    <2>7. Keeps(o, s)
        BY <2>3, <2>5, <2>6 DEF Keeps, Silently
    <2>8. QED
        BY <2>2, <2>7 DEF KeepsContract, o, s
<1>6. QED
    BY <1>3, <1>4, <1>5 DEF Starts

\* What ends the reader: the end of the turn, a failure, the end of the file.
LEMMA EndsReadingKeeps ==
    ASSUME NEW r \in Runs, NEW o \in RunState, NEW s \in RunState, Good(r, o), ViewGood(o),
           o.reader \notin {"none", "done"}, s.reader = "done",
           s.start = o.start, s.phase = o.phase, s.filed = o.filed, s.told = o.told
    PROVE  Keeps(o, s)
<1>1. o.start = "started" /\ o.observed = "none" /\ ~o.filed
    BY DEF Good, StartGood, EndGood, SaidGood, ViewGood
<1>2. o.phase \in {"active", "Aborted"}
    BY <1>1 DEF ViewGood
<1>3. View(o) \in {"working", "cut"}
    BY SpeakingView
<1>4. Silently(View(o), View(s))
    BY <1>1, <1>2, ViewCases DEF Silently
<1>5. ViewGood(s) /\ (SupervisorTells(s) <=> SupervisorTells(o))
    BY <1>1, <1>2 DEF ViewGood, SupervisorTells
<1>6. QED
    BY <1>3, <1>4, <1>5 DEF Keeps

\* The ends of the stdout task: a terminal line, an error, end of file, and an
\* answer that cannot be written.
LEMMA EndsReadingContract ==
    ASSUME Known, NEW r \in Runs,
           \/ \E ending \in Endings : ReadTerminal(r, ending)
           \/ ReadFails(r) \/ ReadEof(r) \/ WriteAnswerFails(r)
    PROVE  KeepsContract(r)
<1> DEFINE o == run[r]
<1>1. /\ o \in RunState /\ run'[r] \in RunState /\ run \in [Runs -> RunState]
      /\ Good(r, o) /\ ViewGood(o)
    BY DEF Known, TypeOK, AllGood, AllViews
<1>2. ASSUME NEW s, run' = [run EXCEPT ![r] = s],
             o.reader \in {"reading", "answering"}, s.reader = "done",
             s.start = o.start, s.phase = o.phase, s.filed = o.filed, s.told = o.told
      PROVE  KeepsContract(r)
    <2>1. run'[r] = s /\ \A y \in Runs \ {r} : run'[y] = run[y]
        BY <1>1, <1>2
    <2>2. Keeps(o, s)
        BY <1>1, <1>2, <2>1, EndsReadingKeeps
    <2>3. QED
        BY <2>1, <2>2 DEF KeepsContract
<1>3. CASE \E ending \in Endings : ReadTerminal(r, ending)
    <2>1. PICK l, e : run' = [run EXCEPT ![r] = [o EXCEPT !.lines = l, !.observed = e,
                                                          !.reader = "done"]]
        BY <1>1, <1>3 DEF ReadTerminal, Counted
    <2>2. o.reader = "reading"
        BY <1>3 DEF ReadTerminal, CanRead
    <2> HIDE DEF o
    <2>3. QED
        BY <1>1, <1>2, <2>1, <2>2 DEF RunState
<1>4. CASE ReadFails(r) \/ ReadEof(r)
    <2>1. /\ o.reader = "reading"
          /\ \E e : run' = [run EXCEPT ![r] = [o EXCEPT !.observed = e, !.reader = "done"]]
        <3>1. CASE ReadFails(r)
            BY <1>1, <3>1 DEF ReadFails
        <3>2. CASE ReadEof(r)
            <4>1. [o EXCEPT !.observed = o.observed, !.reader = "done"] = [o EXCEPT !.reader = "done"]
                <5> HIDE DEF o
                <5>1. QED
                    BY <1>1 DEF RunState
            <4>2. QED
                BY <1>1, <3>2, <4>1 DEF ReadEof
        <3>3. QED
            BY <1>4, <3>1, <3>2
    <2> HIDE DEF o
    <2>2. QED
        BY <1>1, <1>2, <2>1 DEF RunState
<1>5. CASE WriteAnswerFails(r)
    <2> DEFINE m == [o EXCEPT !.approval = "none", !.acked = "none"]
               e == Observed(o, "Failed")
    <2>1. o.reader = "answering"
        BY <1>5 DEF WriteAnswerFails
    <2>2. run' = [run EXCEPT ![r] = [m EXCEPT !.observed = e, !.reader = "done"]]
        BY <1>5 DEF WriteAnswerFails, Known, TypeOK
    <2> HIDE DEF o, e
    <2>3. QED
        BY <1>1, <1>2, <2>1, <2>2 DEF RunState
<1>6. QED
    BY <1>3, <1>4, <1>5

\* Filing by the supervisor: an exit of a run that was active, nothing otherwise.
LEMMA ConcludeContract ==
    ASSUME Known, NEW r \in Runs, Conclude(r)
    PROVE  KeepsContract(r)
<1> DEFINE o == run[r]
           s == run'[r]
           v == Reconciled(r)
           b == Active(r)
           f == Filed(o, v)
           x == [f EXCEPT !.sup = "marking", !.verdict = v, !.filed = b]
<1>1. /\ o \in RunState /\ s \in RunState /\ run \in [Runs -> RunState]
      /\ Good(r, o) /\ ViewGood(o)
    BY DEF Known, TypeOK, AllGood, AllViews
<1>2. o.sup = "joining" /\ o.reader = "done" /\ o.verdict # "none"
    BY <1>1 DEF Conclude, Good, EndGood
<1>3. o.start = "started" /\ ~o.filed
    BY <1>1, <1>2 DEF Good, StartGood, SaidGood
<1>4. v \in Endings
    BY <1>1, <1>2 DEF Reconciled, RunState, Endings
<1>5. b \in BOOLEAN /\ (b <=> o.phase = "active")
    BY DEF Active
<1>6. /\ f \in RunState /\ SameWork(f, o) /\ f.lines = o.lines
      /\ f.phase = IF o.phase = "active" THEN v ELSE o.phase
    <2>1. /\ f \in RunState /\ SameWork(f, o)
          /\ f.phase = IF o.phase = "active" THEN v ELSE o.phase
        BY <1>1, <1>4, FiledShape
    <2>2. f.lines = o.lines
        BY <1>1, FiledLines
    <2>3. QED
        BY <2>1, <2>2
<1>7. s = x /\ \A y \in Runs \ {r} : run'[y] = run[y]
    <2>1. run' = [run EXCEPT ![r] = x]
        BY DEF Conclude
    <2> HIDE DEF x
    <2>2. QED
        BY <1>1, <2>1
<1> HIDE DEF o, s, v, b, f
<1>8. /\ s.start = f.start /\ s.phase = f.phase /\ s.reader = f.reader /\ s.told = f.told
      /\ s.observed = f.observed /\ s.lines = f.lines /\ s.filed = b /\ s.sup = "marking"
    BY <1>5, <1>6, <1>7 DEF RunState
<1>9. ViewGood(s) /\ (SupervisorTells(s) <=> SupervisorTells(o)) /\ s.lines = o.lines
    BY <1>1, <1>2, <1>3, <1>4, <1>5, <1>6, <1>8
    DEF ViewGood, SupervisorTells, SameWork, Endings
<1>10. Silently(View(o), View(s))
    <2>1. CASE o.phase = "active"
        <3>1. View(o) \in {"working", "turned"}
            BY <1>1, <1>3, <2>1, ViewCases
        <3>2. View(s) = EndOf(v, FALSE)
            <4>1. s.start = "started" /\ s.filed /\ s.phase = v /\ s.sup = "marking"
                BY <1>3, <1>5, <1>6, <1>8, <2>1 DEF SameWork
            <4>2. View(s) = EndOf(s.phase, s.sup = "done")
                BY <1>1, <1>4, <4>1, ViewCases
            <4>3. (s.sup = "done") = FALSE
                BY <4>1
            <4>4. QED
                BY <4>1, <4>2, <4>3
        <3>3. QED
            BY <1>4, <3>1, <3>2 DEF EndOf, Silently, Exited, Endings
    <2>2. CASE o.phase # "active"
        <3>1. o.phase = "Aborted"
            BY <1>1, <1>3, <2>2 DEF ViewGood
        <3>2. View(o) = "aborted" /\ View(s) = "aborted"
            BY <1>1, <1>2, <1>3, <1>5, <1>6, <1>8, <2>2, <3>1, ViewCases DEF SameWork
        <3>3. QED
            BY <3>2 DEF Silently
    <2>3. QED
        BY <2>1, <2>2
<1>11. Keeps(o, s)
    BY <1>9, <1>10 DEF Keeps
<1>12. QED
    BY <1>7, <1>11 DEF KeepsContract, o, s

\* The terminal event of the run that the supervisor filed.
LEMMA SettleContract ==
    ASSUME Known, NEW r \in Runs, Settle(r)
    PROVE  KeepsContract(r)
<1> DEFINE o == run[r]
           s == run'[r]
           t == IF o.filed THEN Told(o, "supervisor", o.verdict) ELSE o.told
           x == [o EXCEPT !.sup = "done", !.proc = "ended", !.told = t]
<1>1. /\ o \in RunState /\ s \in RunState /\ run \in [Runs -> RunState]
      /\ Good(r, o) /\ ViewGood(o)
    BY DEF Known, TypeOK, AllGood, AllViews
<1>2. o.sup = "marking"
    BY DEF Settle
<1>3. o.start = "started" /\ o.reader = "done" /\ o.phase \in Endings
    BY <1>1, <1>2 DEF Good, StartGood, EndGood, ViewGood, RunState
<1>4. s = x /\ \A y \in Runs \ {r} : run'[y] = run[y]
    <2>1. run' = [run EXCEPT ![r] = x]
        BY <1>1 DEF Settle
    <2> HIDE DEF x
    <2>2. QED
        BY <1>1, <2>1
<1> HIDE DEF o, s, t
<1>5. /\ s.start = o.start /\ s.phase = o.phase /\ s.reader = o.reader /\ s.told = t
      /\ s.observed = o.observed /\ s.lines = o.lines /\ s.filed = o.filed /\ s.sup = "done"
    BY <1>1, <1>4 DEF RunState
<1>6. ViewGood(s)
    BY <1>1, <1>5 DEF ViewGood
<1>7. CASE o.filed
    <2>1. View(o) = EndOf(o.phase, FALSE) /\ View(s) = EndOf(o.phase, TRUE)
        BY <1>1, <1>2, <1>3, <1>5, <1>7, ViewCases
    <2>2. Announcing(View(o), View(s))
        BY <1>3, <2>1 DEF EndOf, Announcing, Endings
    <2>3. SupervisorTells(s)
        BY <1>1, <1>5, <1>7, TellsAppend DEF t
    <2>4. ~SupervisorTells(o)
        BY <1>1, <1>2, <1>7 DEF Good, SaidGood, Said, SupervisorTells
    <2>5. Keeps(o, s)
        BY <1>5, <1>6, <2>2, <2>3, <2>4 DEF Keeps
    <2>6. QED
        BY <1>4, <2>5 DEF KeepsContract, o, s
<1>8. CASE ~o.filed
    <2>1. o.phase = "Aborted"
        BY <1>1, <1>3, <1>8 DEF ViewGood, Endings
    <2>2. View(o) = "aborted" /\ View(s) = "aborted"
        BY <1>1, <1>3, <1>5, <1>8, <2>1, ViewCases
    <2>3. SupervisorTells(s) <=> SupervisorTells(o)
        BY <1>5, <1>8 DEF SupervisorTells, t
    <2>4. Keeps(o, s)
        BY <1>5, <1>6, <2>2, <2>3 DEF Keeps, Silently
    <2>5. QED
        BY <1>4, <2>4 DEF KeepsContract, o, s
<1>9. QED
    BY <1>7, <1>8

\* An abort cuts a run that is active off, and changes nothing otherwise.
LEMMA RecordAbortContract ==
    ASSUME Known, NEW c \in Callers, NEW r \in Runs, RecordAbort(c, r)
    PROVE  KeepsContract(r)
<1> DEFINE o == run[r]
           s == run'[r]
           f == Filed(o, "Aborted")
           said == Active(r) /\ caller[c].loud
           t == IF said THEN Told(o, "abort", "Aborted") ELSE o.told
           x == [f EXCEPT !.told = t]
<1>1. /\ o \in RunState /\ s \in RunState /\ run \in [Runs -> RunState]
      /\ Good(r, o) /\ ViewGood(o)
    BY DEF Known, TypeOK, AllGood, AllViews
<1>2. /\ f \in RunState /\ SameWork(f, o) /\ f.lines = o.lines
      /\ f.phase = IF o.phase = "active" THEN "Aborted" ELSE o.phase
    <2>1. /\ f \in RunState /\ SameWork(f, o)
          /\ f.phase = IF o.phase = "active" THEN "Aborted" ELSE o.phase
        BY <1>1, FiledShape DEF Endings
    <2>2. f.lines = o.lines
        BY <1>1, FiledLines
    <2>3. QED
        BY <2>1, <2>2
<1>3. s = x /\ \A y \in Runs \ {r} : run'[y] = run[y]
    <2>1. run' = [run EXCEPT ![r] = x]
        BY DEF RecordAbort
    <2> HIDE DEF x
    <2>2. QED
        BY <1>1, <2>1
<1> HIDE DEF o, s, f, said
<1>4. /\ s.start = f.start /\ s.phase = f.phase /\ s.reader = f.reader /\ s.told = t
      /\ s.observed = f.observed /\ s.lines = f.lines /\ s.filed = f.filed /\ s.sup = f.sup
    BY <1>2, <1>3 DEF RunState
<1>5. SupervisorTells(s) <=> SupervisorTells(o)
    <2>1. CASE said
        BY <1>1, <1>4, <2>1, TellsAppend
    <2>2. CASE ~said
        BY <1>4, <2>2 DEF SupervisorTells
    <2>3. QED
        BY <2>1, <2>2
<1>6. ViewGood(s) /\ s.lines = o.lines
    BY <1>1, <1>2, <1>4 DEF ViewGood, SameWork
<1>7. Silently(View(o), View(s))
    <2>1. CASE o.phase # "active"
        <3>1. View(s) = View(o)
            BY <1>2, <1>4, <2>1 DEF View, SameWork
        <3>2. QED
            BY <3>1 DEF Silently
    <2>2. CASE o.phase = "active" /\ o.start # "started"
        <3>1. o.start # "failed"
            BY <1>1, <2>2 DEF Good, StartGood
        <3>2. View(o) = "idle" /\ View(s) = "idle"
            BY <1>1, <1>2, <1>4, <2>2, <3>1, ViewCases DEF SameWork
        <3>3. QED
            BY <3>2 DEF Silently
    <2>3. CASE o.phase = "active" /\ o.start = "started"
        <3>1. ~o.filed
            BY <1>1, <2>3 DEF Good, SaidGood, EndGood
        <3>2. /\ View(o) = IF o.observed = "none" THEN "working" ELSE "turned"
              /\ View(s) = IF o.reader = "done" THEN "aborted" ELSE "cut"
            BY <1>1, <1>2, <1>4, <2>3, <3>1, ViewCases DEF SameWork
        <3>3. QED
            BY <1>1, <3>2 DEF Silently, ViewGood
    <2>4. QED
        BY <2>1, <2>2, <2>3
<1>8. Keeps(o, s)
    BY <1>5, <1>6, <1>7 DEF Keeps
<1>9. QED
    BY <1>3, <1>8 DEF KeepsContract, o, s

\* Taking the senders shows nothing.
LEMMA TakeAbortsContract ==
    ASSUME Known, NEW c \in Callers, NEW todo \in SUBSET Runs, NEW loud \in BOOLEAN,
           TakeAborts(c, todo, loud), NEW r \in Runs
    PROVE  Quiet(run[r], run'[r])
<1> DEFINE o == run[r]
<1>1. o \in RunState
    BY DEF Known, TypeOK
<1>2. run'[r] = o \/ run'[r] = [o EXCEPT !.abort = "fired"]
    BY DEF TakeAborts
<1> HIDE DEF o
<1>3. Quiet(o, o) /\ Quiet(o, [o EXCEPT !.abort = "fired"])
    BY <1>1 DEF RunState, Quiet
<1>4. QED
    BY <1>2, <1>3 DEF o

-----------------------------------------------------------------------------
(* Every step.                                                               *)

\* At most one run moves, and as the contract allows.
LEMMA StepContract ==
    ASSUME Known, IInv, [Next]_vars
    PROVE  \/ \E r \in Runs : KeepsContract(r)
           \/ \A r \in Runs : Quiet(run[r], run'[r])
<1>1. ASSUME NEW r \in Runs,
             Starts(r) \/ Process(r) \/ Reads(r) \/ Approves(r) \/ Supervises(r)
                       \/ SelectTimeout(r)
      PROVE  KeepsContract(r)
    <2>1. CASE Reads(r)
        <3>1. WriteStore(r) => run[r].reader = "saving"
            BY RunsAssumption DEF WriteStore, IInv, FileGood
        <3>2. QED
            BY <2>1, <3>1, ReadsQuiet, EndsReadingContract DEF Reads
    <2>2. CASE Approves(r)
        BY <2>2, ApprovesQuiet, EndsReadingContract DEF Approves
    <2>3. CASE Supervises(r) \/ SelectTimeout(r)
        BY <2>3, SupervisesQuiet, ConcludeContract, SettleContract DEF Supervises
    <2>4. QED
        BY <1>1, <2>1, <2>2, <2>3, StartsContract, ProcessQuiet
<1>2. ASSUME NEW c \in Callers, Aborts(c)
      PROVE  \/ \E r \in Runs : KeepsContract(r)
             \/ \A r \in Runs : Quiet(run[r], run'[r])
    BY <1>2, TakeAbortsContract, RecordAbortContract DEF Aborts
<1>3. CASE UNCHANGED vars
    BY <1>3 DEF vars, Quiet
<1>4. QED
    BY <1>1, <1>2, <1>3 DEF Next

\* So each single run keeps the contract.
LEMMA EachKeeps ==
    ASSUME Known, IInv, [Next]_vars, NEW r \in Runs
    PROVE  Keeps(run[r], run'[r])
<1>1. ASSUME NEW q \in Runs, KeepsContract(q) PROVE Keeps(run[r], run'[r])
    <2>1. Quiet(run[r], run[r])
        BY DEF Quiet
    <2>2. Keeps(run[r], run[r])
        BY <2>1, QuietKeeps DEF Known, TypeOK, AllGood, AllViews
    <2>3. QED
        BY <1>1, <2>2 DEF KeepsContract
<1>2. Quiet(run[r], run'[r]) => Keeps(run[r], run'[r])
    BY QuietKeeps DEF Known, TypeOK, AllGood, AllViews
<1>3. QED
    BY <1>1, <1>2, StepContract

\* What the caller sees is good in every state.
LEMMA ViewsHold == Spec => []AllViews
<1>1. Init => AllViews
    BY DEF Init, FreshRun, AllViews, ViewGood
<1>2. IInv /\ IInv' /\ AllViews /\ [Next]_vars => AllViews'
    BY EachKeeps DEF IInv, Known, AllViews, Keeps
<1>3. QED
    BY <1>1, <1>2, InvHolds, PTL DEF Spec

\* The moves of the contract, as moves of what the caller sees of one run.
LEMMA MoveOfView ==
    ASSUME NEW r \in Runs, \A x \in Runs \ {r} : View(run'[x]) = View(run[x]),
           Silently(View(run[r]), View(run'[r])) \/ Announcing(View(run[r]), View(run'[r]))
    PROVE  [External!Next]_[x \in Runs |-> View(run[x])]
<1> DEFINE old == [x \in Runs |-> View(run[x])]
           new == [x \in Runs |-> View(run'[x])]
           a == View(run[r])
           b == View(run'[r])
<1>1. new = [old EXCEPT ![r] = b] /\ old[r] = a
    OBVIOUS
<1>2. CASE a = b
    BY <1>1, <1>2
<1>3. CASE a # b
    <2>1. Silently(a, b) \/ Announcing(a, b)
        OBVIOUS
    <2>2. ASSUME NEW from, NEW to, a \in from, b \in to
          PROVE  External!Move(r, from, to)
        <3>1. old[r] \in from
            BY <1>1, <2>2
        <3>2. \E s \in to : new = [old EXCEPT ![r] = s]
            BY <1>1, <2>2
        <3>3. QED
            BY <3>1, <3>2, Zenon DEF External!Move
    <2> HIDE DEF a, b
    <2>3. \/ External!Accept(r) \/ External!Refuse(r) \/ External!EndTurn(r)
          \/ External!Exit(r) \/ External!Announce(r) \/ External!Cut(r) \/ External!Hush(r)
        BY <1>3, <2>1, <2>2
        DEF Silently, Announcing, Exited, External!Accept, External!Refuse, External!EndTurn,
            External!Exit, External!Announce, External!Cut, External!Hush
    <2>4. QED
        BY <2>3 DEF External!Next
<1>4. QED
    BY <1>2, <1>3

\* The registry keeps its promise to a Task attempt: whatever readers,
\* supervisors, operators, aborts and processes do, each run goes through the
\* states of ExternalRun.
THEOREM KeepsExternalContract == Spec => ImplementsExternalRun
<1>1. Init => External!Init
    <2> SUFFICES ASSUME Init, NEW r \in Runs PROVE View(run[r]) = "idle"
        BY DEF External!Init
    <2>1. run[r].start \in {"idle", "absent"}
        BY DEF Init, FreshRun
    <2>2. QED
        BY <2>1 DEF View, Start
<1>2. IInv /\ IInv' /\ AllViews /\ AllViews' /\ [Next]_vars
        => [External!Next]_[r \in Runs |-> View(run[r])]
    <2> SUFFICES ASSUME IInv, IInv', AllViews, [Next]_vars
                 PROVE  [External!Next]_[r \in Runs |-> View(run[r])]
        OBVIOUS
    <2>1. Known
        BY DEF IInv, Known
    <2>2. CASE \A r \in Runs : Quiet(run[r], run'[r])
        <3>1. \A r \in Runs : View(run'[r]) = View(run[r])
            BY <2>2 DEF Quiet, View
        <3>2. QED
            BY <3>1
    <2>3. ASSUME NEW r \in Runs, KeepsContract(r)
          PROVE  [External!Next]_[x \in Runs |-> View(run[x])]
        <3>1. \A x \in Runs \ {r} : View(run'[x]) = View(run[x])
            BY <2>3 DEF KeepsContract
        <3>2. Silently(View(run[r]), View(run'[r])) \/ Announcing(View(run[r]), View(run'[r]))
            BY <2>3 DEF KeepsContract, Keeps
        <3>3. QED
            BY <3>1, <3>2, MoveOfView
    <2>4. QED
        BY <2>1, <2>2, <2>3, StepContract
<1>3. QED
    BY <1>1, <1>2, InvHolds, ViewsHold, PTL DEF Spec, ImplementsExternalRun, External!Spec

\* A stream has effects only before the end of its turn or while its run is cut,
\* and the supervisor announces an ending exactly when the contract says so.
THEOREM SpeaksOnlyAsContracted == Spec => SpeaksAsContracted
<1>1. IInv /\ IInv' /\ AllViews /\ [Next]_vars =>
        \A r \in Runs :
            /\ run'[r].lines # run[r].lines => View(run[r]) \in {"working", "cut"}
            /\ SupervisorTells(run'[r]) /\ ~SupervisorTells(run[r]) <=> External!Announce(r)
    <2> SUFFICES ASSUME IInv, IInv', AllViews, [Next]_vars, NEW r \in Runs
                 PROVE  /\ run'[r].lines # run[r].lines => View(run[r]) \in {"working", "cut"}
                        /\ SupervisorTells(run'[r]) /\ ~SupervisorTells(run[r])
                                <=> External!Announce(r)
        OBVIOUS
    <2> DEFINE old == [x \in Runs |-> View(run[x])]
               new == [x \in Runs |-> View(run'[x])]
               a == View(run[r])
               b == View(run'[r])
               tells == SupervisorTells(run'[r]) /\ ~SupervisorTells(run[r])
    <2>1. Known
        BY DEF IInv, Known
    <2>2. Keeps(run[r], run'[r])
        BY <2>1, EachKeeps
    <2>3. External!Announce(r) => Announcing(a, b)
        <3>1. ASSUME NEW e, NEW f, External!Move(r, {e}, {f}) PROVE a = e /\ b = f
            <4>1. old[r] = e /\ new = [old EXCEPT ![r] = f]
                BY <3>1, Zenon DEF External!Move
            <4>2. QED
                BY <4>1
        <3>2. QED
            BY <3>1, Zenon DEF External!Announce, Announcing
    <2>4. Announcing(a, b) => ~Silently(a, b)
        <3> HIDE DEF a, b
        <3>1. QED
            BY DEF Announcing, Silently, Exited
    <2>5. tells => External!Announce(r)
        <3> SUFFICES ASSUME tells PROVE External!Announce(r)
            OBVIOUS
        <3>1. Announcing(a, b)
            BY <2>2 DEF Keeps
        <3>2. \A x \in Runs \ {r} : View(run'[x]) = View(run[x])
            <4>1. PICK q \in Runs : KeepsContract(q)
                <5>1. CASE \A x \in Runs : Quiet(run[x], run'[x])
                    BY <5>1 DEF Quiet, SupervisorTells
                <5>2. QED
                    BY <2>1, <5>1, StepContract
            <4>2. q = r
                BY <4>1 DEF KeepsContract
            <4>3. QED
                BY <4>1, <4>2 DEF KeepsContract
        <3>3. new = [old EXCEPT ![r] = b] /\ old[r] = a
            BY <3>2
        <3>4. ASSUME NEW e, NEW f, a = e, b = f PROVE External!Move(r, {e}, {f})
            <4>1. old[r] \in {e} /\ \E s \in {f} : new = [old EXCEPT ![r] = s]
                BY <3>3, <3>4
            <4>2. QED
                BY <4>1, Zenon DEF External!Move
        <3> HIDE DEF a, b
        <3>5. QED
            BY <3>1, <3>4 DEF Announcing, External!Announce
    <2>6. ~tells => Silently(a, b)
        BY <2>2 DEF Keeps
    <2>7. QED
        BY <2>2, <2>3, <2>4, <2>5, <2>6 DEF Keeps
<1>2. QED
    BY <1>1, InvHolds, ViewsHold, PTL DEF Spec, SpeaksAsContracted
=============================================================================
