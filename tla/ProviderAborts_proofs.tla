------------------------ MODULE ProviderAborts_proofs ------------------------
(***************************************************************************)
(* The safety part of what an abort promises, for any number of runs and    *)
(* of aborting callers: wherever it meets the start call, the reader or the *)
(* supervisor, a run that it has filed is in the hands of someone who kills *)
(* its process.  That they do so is liveness (AbortKills) and left to TLC.  *)
(***************************************************************************)
EXTENDS ProviderSessions_proofs

\* The process of an aborted run that still lives is about to be killed: by the
\* start call, which finds its run filed; by the supervisor, whose select sees
\* the abort channel resolved, or which is past its select; or it has closed its
\* stdout first, and then nobody kills it before it exits (the disagreement that
\* AbortEndsRun shows).
AbortReachesKiller ==
    \A r \in Runs : run[r].phase = "Aborted" /\ Alive(r) =>
        \/ run[r].start \in {"spawned", "ready"}
        \/ run[r].sup = "select" /\ AbortFired(r)
        \/ run[r].sup \in {"grace", "aborting", "interrupting"}
        \/ run[r].sup = "childOnly" /\ run[r].muted

-----------------------------------------------------------------------------
(* What keeps a filed run within reach.                                      *)

\* A started run has a supervisor and an abort channel, which has resolved once
\* the run is filed; the supervisor stops listening to it only after the stream
\* ended without a word, which a live process does only by closing it.
AbortGood(s) ==
    /\ s.start = "started" => s.sup # "none" /\ s.abort # "none"
    /\ s.start = "started" /\ s.phase # "active" => s.abort = "fired"
    /\ s.sup = "childOnly" => s.reader = "done" /\ s.observed = "none"
    /\ s.reader = "done" /\ s.observed = "none" /\ s.child = "alive" => s.muted

AllAbortable == \A r \in Runs : AbortGood(run[r])

\* Every record is known to be good before the step and after it.
Known == TypeOK /\ AllGood /\ AllAbortable /\ TypeOK' /\ AllGood'

\* Only run r may change, and it stays within reach.
KeepsReach(r) ==
    /\ \A x \in Runs \ {r} : run'[x] = run[x]
    /\ AbortGood(run'[r])

\* A step that changes nothing an abort depends on, except that the process may
\* end or close its stdout.
Calm(o, s) ==
    /\ s.start = o.start /\ s.phase = o.phase /\ s.abort = o.abort
    /\ s.sup = o.sup /\ s.observed = o.observed
    /\ s.reader = "done" <=> o.reader = "done"
    /\ s.child = "alive" => o.child = "alive"
    /\ o.muted => s.muted

\* Such a step keeps the run within reach.
LEMMA CalmReach ==
    ASSUME Known, NEW r \in Runs, NEW s, run' = [run EXCEPT ![r] = s], Calm(run[r], s)
    PROVE  KeepsReach(r)
<1>1. run'[r] = s /\ \A x \in Runs \ {r} : run'[x] = run[x]
    BY DEF Known, TypeOK
<1>2. AbortGood(run[r])
    BY DEF Known, AllAbortable
<1>3. AbortGood(s)
    BY <1>2 DEF Calm, AbortGood
<1>4. QED
    BY <1>1, <1>3 DEF KeepsReach

\* A run that has not started has neither reader nor supervisor.
LEMMA UnstartedReach ==
    ASSUME NEW r \in Runs, NEW s, Good(r, s), s.start # "started"
    PROVE  AbortGood(s)
BY DEF Good, StartGood, AbortGood

-----------------------------------------------------------------------------
(* The steps of the start call, the process and the stdout task.             *)

\* The start call: nothing to abort until it attaches the channel.
LEMMA StartsReach ==
    ASSUME Known, NEW r \in Runs, Starts(r)
    PROVE  KeepsReach(r)
<1> DEFINE o == run[r]
           s == run'[r]
<1>1. /\ o \in RunState /\ s \in RunState /\ run \in [Runs -> RunState]
      /\ Good(r, s)
    BY DEF Known, TypeOK, AllGood
<1>2. ASSUME NEW x, run' = [run EXCEPT ![r] = x]
      PROVE  s = x /\ \A y \in Runs \ {r} : run'[y] = run[y]
    BY <1>1, <1>2
<1>3. CASE Register(r) \/ PrepareFails(r) \/ Spawn(r) \/ SetupWritten(r)
    <2>1. \/ run' = [run EXCEPT ![r] = [o EXCEPT !.start = "registered", !.phase = "active"]]
          \/ run' = [run EXCEPT ![r] = [o EXCEPT !.start = "leaked"]]
          \/ run' = [run EXCEPT ![r] = [o EXCEPT !.start = "spawned", !.child = "alive",
                                                !.proc = "running"]]
          \/ run' = [run EXCEPT ![r] = [o EXCEPT !.start = "ready"]]
        BY <1>1, <1>3 DEF Register, PrepareFails, Spawn, SetupWritten
    <2>2. /\ \A y \in Runs \ {r} : run'[y] = run[y]
          /\ \/ s = [o EXCEPT !.start = "registered", !.phase = "active"]
             \/ s = [o EXCEPT !.start = "leaked"]
             \/ s = [o EXCEPT !.start = "spawned", !.child = "alive", !.proc = "running"]
             \/ s = [o EXCEPT !.start = "ready"]
        BY <1>2, <2>1
    <2> HIDE DEF o, s
    <2>3. s.start # "started"
        BY <1>1, <2>2, ZenonT(60) DEF RunState
    <2>4. QED
        BY <1>1, <2>2, <2>3, UnstartedReach DEF KeepsReach, s
<1>4. CASE SpawnFails(r) \/ SetupFails(r) \/ AttachRefused(r)
    <2> DEFINE f == Filed(o, "Failed")
               t == Told(o, "start", "Failed")
               c == Dead(o)
    <2>1. /\ \A y \in Runs \ {r} : run'[y] = run[y]
          /\ \/ s = [f EXCEPT !.start = "failed", !.told = t]
             \/ s = [f EXCEPT !.start = "failed", !.child = c, !.proc = "ended", !.told = t]
        BY <1>2, <1>4 DEF SpawnFails, SetupFails, AttachRefused, StartGivesUp
    <2>2. f \in RunState
        BY <1>1, FiledShape DEF Endings
    <2> HIDE DEF o, s, f, t, c
    <2>3. s.start = "failed"
        BY <2>1, <2>2 DEF RunState
    <2>4. QED
        BY <1>1, <2>1, <2>3, UnstartedReach DEF KeepsReach, s
<1>5. CASE Attach(r)
    <2> DEFINE x == [o EXCEPT !.start = "started", !.abort = "held", !.reader = "reading",
                             !.sup = "select"]
    <2>1. run' = [run EXCEPT ![r] = x] /\ o.phase = "active"
        BY <1>1, <1>5 DEF Attach, Active
    <2> HIDE DEF x
    <2>2. s = x /\ \A y \in Runs \ {r} : run'[y] = run[y]
        BY <1>2, <2>1
    <2> HIDE DEF o, s
    <2>3. s.abort = "held" /\ s.reader = "reading" /\ s.sup = "select" /\ s.phase = "active"
        BY <1>1, <2>1, <2>2 DEF x, RunState
    <2>4. AbortGood(s)
        BY <2>3 DEF AbortGood
    <2>5. QED
        BY <2>2, <2>4 DEF KeepsReach, s
<1>6. QED
    BY <1>3, <1>4, <1>5 DEF Starts

\* What the child and its descendant do.
LEMMA ProcessReach ==
    ASSUME Known, NEW r \in Runs, Process(r)
    PROVE  KeepsReach(r)
<1> DEFINE o == run[r]
<1>1. o \in RunState /\ run \in [Runs -> RunState]
    BY DEF Known, TypeOK
<1>2. PICK s : /\ run' = [run EXCEPT ![r] = s]
               /\ \/ \E how \in {"ok", "bad"} : s = [o EXCEPT !.child = how]
                  \/ \E heir \in BOOLEAN : s = [o EXCEPT !.heir = heir]
                  \/ s = [o EXCEPT !.muted = TRUE]
    BY <1>1 DEF Process, ChildExits, Forks, ClosesStdout, HeirEnds
<1> HIDE DEF o
<1>3. Calm(o, s)
    BY <1>1, <1>2, ZenonT(60) DEF RunState, Calm
<1>4. QED
    BY <1>2, <1>3, CalmReach DEF o

\* The reader while it goes on, and the operator.
LEMMA ReaderReach ==
    ASSUME Known, NEW r \in Runs,
           \/ ReadConversation(r) \/ TakeSnapshot(r)
           \/ (WriteStore(r) /\ run[r].reader = "saving")
           \/ ReadApproval(r)
           \/ (\E answer \in Answers : OperatorAnswers(r, answer))
           \/ ApprovalExpires(r) \/ ReceiverDropped(r) \/ ForgetApproval(r)
           \/ TakeAnswer(r) \/ WriteAnswer(r)
    PROVE  KeepsReach(r)
<1> DEFINE o == run[r]
           n == o.lines - 1
<1>1. o \in RunState /\ run \in [Runs -> RunState]
    BY DEF Known, TypeOK
<1>2. CASE TakeSnapshot(r)
    BY <1>2 DEF TakeSnapshot, KeepsReach, Known, AllAbortable
<1>3. CASE ReadConversation(r) \/ (WriteStore(r) /\ run[r].reader = "saving")
    <2>1. PICK s : /\ run' = [run EXCEPT ![r] = s]
                   /\ \/ s = [o EXCEPT !.lines = n, !.reader = "saving"] /\ o.reader = "reading"
                      \/ s = [o EXCEPT !.lines = n] /\ o.reader = "reading"
                      \/ s = [o EXCEPT !.reader = "reading"] /\ o.reader = "saving"
        BY <1>1, <1>3 DEF ReadConversation, WriteStore, CanRead, Counted
    <2> HIDE DEF o, n
    <2>2. Calm(o, s)
        BY <1>1, <2>1, ZenonT(60) DEF RunState, Calm
    <2>3. QED
        BY <2>1, <2>2, CalmReach DEF o
<1>4. ASSUME NEW s, run' = [run EXCEPT ![r] = s], Calm(o, s)
      PROVE  KeepsReach(r)
    BY <1>4, CalmReach
<1>5. CASE ReadApproval(r)
    <2>1. PICK w \in {"answering", "waiting"}, a \in {"allow", "deny", "open"} :
            \/ run' = [run EXCEPT ![r] = [o EXCEPT !.lines = n, !.reader = w, !.approval = a]]
            \/ run' = [run EXCEPT ![r] = [o EXCEPT !.lines = n, !.reader = w, !.approval = a,
                                                  !.acked = "none"]]
        BY <1>1, <1>5 DEF ReadApproval, Counted
    <2>2. o.reader = "reading"
        BY <1>5 DEF ReadApproval, CanRead
    <2> HIDE DEF o, n
    <2>3. /\ Calm(o, [o EXCEPT !.lines = n, !.reader = w, !.approval = a])
          /\ Calm(o, [o EXCEPT !.lines = n, !.reader = w, !.approval = a, !.acked = "none"])
        BY <1>1, <2>2 DEF RunState, Calm
    <2>4. QED
        BY <1>4, <2>1, <2>3
<1>6. ASSUME NEW answer \in Answers, OperatorAnswers(r, answer)
      PROVE  KeepsReach(r)
    <2>1. \/ run' = [run EXCEPT ![r] = [o EXCEPT !.approval = answer, !.acked = answer]]
          \/ run' = [run EXCEPT ![r] = [o EXCEPT !.approval = "gone", !.acked = "late"]]
          \/ run' = [run EXCEPT ![r] = [o EXCEPT !.approval = "gone"]]
        BY <1>1, <1>6 DEF OperatorAnswers
    <2> HIDE DEF o
    <2>2. /\ Calm(o, [o EXCEPT !.approval = answer, !.acked = answer])
          /\ Calm(o, [o EXCEPT !.approval = "gone", !.acked = "late"])
          /\ Calm(o, [o EXCEPT !.approval = "gone"])
        BY <1>1 DEF RunState, Calm
    <2>3. QED
        BY <1>4, <2>1, <2>2
<1>7. CASE ApprovalExpires(r) \/ ReceiverDropped(r) \/ ForgetApproval(r)
    <2>1. /\ o.reader = "waiting"
          /\ \/ run' = [run EXCEPT ![r] = [o EXCEPT !.approval = "elapsed"]]
             \/ run' = [run EXCEPT ![r] = [o EXCEPT !.approval = "expired"]]
             \/ run' = [run EXCEPT ![r] = [o EXCEPT !.approval = "deny", !.reader = "answering"]]
        BY <1>1, <1>7 DEF ApprovalExpires, ReceiverDropped, ForgetApproval
    <2> HIDE DEF o
    <2>2. /\ Calm(o, [o EXCEPT !.approval = "elapsed"])
          /\ Calm(o, [o EXCEPT !.approval = "expired"])
          /\ Calm(o, [o EXCEPT !.approval = "deny", !.reader = "answering"])
        BY <1>1, <2>1 DEF RunState, Calm
    <2>3. QED
        BY <1>4, <2>1, <2>2
<1>8. CASE TakeAnswer(r) \/ WriteAnswer(r)
    <2>1. /\ o.reader \in {"waiting", "answering"}
          /\ \/ run' = [run EXCEPT ![r] = [o EXCEPT !.reader = "answering"]]
             \/ run' = [run EXCEPT ![r] = [o EXCEPT !.approval = "none", !.acked = "none",
                                                   !.reader = "reading"]]
        BY <1>1, <1>8 DEF TakeAnswer, WriteAnswer
    <2> HIDE DEF o
    <2>2. /\ Calm(o, [o EXCEPT !.reader = "answering"])
          /\ Calm(o, [o EXCEPT !.approval = "none", !.acked = "none", !.reader = "reading"])
        BY <1>1, <2>1 DEF RunState, Calm
    <2>3. QED
        BY <1>4, <2>1, <2>2
<1>9. QED
    BY <1>2, <1>3, <1>5, <1>6, <1>7, <1>8

\* The end of the stream: a word of it, or silence of a process that is gone or
\* has closed it.
LEMMA EndsReach ==
    ASSUME Known, NEW r \in Runs,
           \/ \E ending \in Endings : ReadTerminal(r, ending)
           \/ ReadFails(r) \/ ReadEof(r) \/ WriteAnswerFails(r)
    PROVE  KeepsReach(r)
<1> DEFINE o == run[r]
<1>1. /\ o \in RunState /\ run \in [Runs -> RunState] /\ AbortGood(o)
    BY DEF Known, TypeOK, AllAbortable
<1>2. ASSUME NEW s, run' = [run EXCEPT ![r] = s],
             o.reader \in {"reading", "answering"},
             s.start = o.start, s.phase = o.phase, s.abort = o.abort, s.sup = o.sup,
             s.observed # "none" \/ (s.child = "alive" => s.muted)
      PROVE  KeepsReach(r)
    <2>1. run'[r] = s /\ \A x \in Runs \ {r} : run'[x] = run[x]
        BY <1>1, <1>2
    <2>2. AbortGood(s)
        BY <1>1, <1>2 DEF AbortGood
    <2>3. QED
        BY <2>1, <2>2 DEF KeepsReach
<1>3. \A ending \in Endings : Observed(o, ending) # "none"
    BY DEF Observed, Endings
<1>4. ASSUME NEW ending \in Endings, ReadTerminal(r, ending)
      PROVE  KeepsReach(r)
    <2>1. PICK l : run' = [run EXCEPT ![r] = [o EXCEPT !.lines = l,
                        !.observed = Observed(o, ending), !.reader = "done"]]
        BY <1>1, <1>4 DEF ReadTerminal, Counted
    <2>2. o.reader = "reading"
        BY <1>4 DEF ReadTerminal, CanRead
    <2> HIDE DEF o
    <2>3. QED
        BY <1>1, <1>2, <1>3, <2>1, <2>2 DEF RunState
<1>5. CASE ReadFails(r)
    <2>1. /\ o.reader = "reading"
          /\ run' = [run EXCEPT ![r] = [o EXCEPT !.observed = Observed(o, "Failed"),
                                                 !.reader = "done"]]
        BY <1>1, <1>5 DEF ReadFails
    <2> HIDE DEF o
    <2>2. QED
        BY <1>1, <1>2, <1>3, <2>1 DEF RunState, Endings
<1>6. CASE ReadEof(r)
    <2>1. /\ o.reader = "reading" /\ (o.child = "alive" => o.muted)
          /\ run' = [run EXCEPT ![r] = [o EXCEPT !.reader = "done"]]
        BY <1>1, <1>6 DEF ReadEof, StdoutOpen, Alive
    <2> HIDE DEF o
    <2>2. QED
        BY <1>1, <1>2, <2>1 DEF RunState
<1>7. CASE WriteAnswerFails(r)
    <2>1. /\ o.reader = "answering"
          /\ run' = [run EXCEPT ![r] = [o EXCEPT !.approval = "none", !.acked = "none",
                        !.observed = Observed(o, "Failed"), !.reader = "done"]]
        BY <1>1, <1>7 DEF WriteAnswerFails
    <2> HIDE DEF o
    <2>2. QED
        BY <1>1, <1>2, <1>3, <2>1 DEF RunState, Endings
<1>8. QED
    BY <1>4, <1>5, <1>6, <1>7

-----------------------------------------------------------------------------
(* The supervisor and the aborts.                                            *)

\* The supervisor goes on; it stops listening to aborts only after the silence.
LEMMA SupervisesReach ==
    ASSUME Known, NEW r \in Runs, NEW o, NEW s, o = run[r], run' = [run EXCEPT ![r] = s],
           s.start = o.start, s.phase = o.phase, s.abort = o.abort, s.muted = o.muted,
           s.reader = o.reader, s.observed = o.observed,
           s.child = "alive" => o.child = "alive",
           s.sup # "none",
           s.sup = "childOnly" => o.reader = "done" /\ o.observed = "none"
    PROVE  KeepsReach(r)
<1>1. AbortGood(o) /\ s = run'[r] /\ \A x \in Runs \ {r} : run'[x] = run[x]
    BY DEF Known, TypeOK, AllAbortable
<1>2. AbortGood(s)
    BY <1>1 DEF AbortGood
<1>3. QED
    BY <1>1, <1>2 DEF KeepsReach

\* Its decisions and its way to the end of the run.
LEMMA DecidesReach ==
    ASSUME Known, NEW r \in Runs,
           \/ SelectExit(r) \/ SelectStream(r) \/ GraceEnds(r) \/ SelectStreamClosed(r)
           \/ SelectAbort(r) \/ AbortDenies(r) \/ AbortKillsChild(r) \/ EndDenies(r)
           \/ SelectTimeout(r) \/ Settle(r)
    PROVE  KeepsReach(r)
<1> DEFINE o == run[r]
<1>1. o \in RunState /\ run \in [Runs -> RunState]
    BY DEF Known, TypeOK
<1>2. CASE \E ending : Decide(r, ending)
    <2> DEFINE c == Dead(o)
    <2>1. PICK ending : run' = [run EXCEPT ![r] = [o EXCEPT
                !.verdict = ending, !.child = c, !.sup = "denying"]]
        BY <1>2 DEF Decide
    <2>2. c # "alive"
        BY DEF Dead
    <2> DEFINE s == [o EXCEPT !.verdict = ending, !.child = c, !.sup = "denying"]
    <2> HIDE DEF o, c
    <2>3. /\ s.start = o.start /\ s.phase = o.phase /\ s.abort = o.abort /\ s.muted = o.muted
          /\ s.reader = o.reader /\ s.observed = o.observed /\ s.child = c
          /\ s.sup = "denying"
        BY <1>1 DEF RunState
    <2> HIDE DEF s
    <2>4. QED
        BY <2>1, <2>2, <2>3, SupervisesReach DEF o, s
<1>3. CASE \/ SelectStreamClosed(r) \/ SelectAbort(r)
           \/ (SelectStream(r) /\ run[r].observed = "Completed")
    <2>1. PICK place \in {"childOnly", "aborting", "grace"} :
            /\ run' = [run EXCEPT ![r] = [o EXCEPT !.sup = place]]
            /\ place = "childOnly" => o.reader = "done" /\ o.observed = "none"
        BY <1>3, ZenonT(60) DEF SelectStreamClosed, SelectAbort, SelectStream
    <2> DEFINE s == [o EXCEPT !.sup = place]
    <2> HIDE DEF o
    <2>2. /\ s.start = o.start /\ s.phase = o.phase /\ s.abort = o.abort /\ s.muted = o.muted
          /\ s.reader = o.reader /\ s.observed = o.observed /\ s.child = o.child
          /\ s.sup = place
        BY <1>1 DEF RunState
    <2> HIDE DEF s
    <2>3. QED
        BY <2>1, <2>2, SupervisesReach DEF o, s
<1>4. CASE AbortDenies(r) \/ EndDenies(r)
    <2> DEFINE d == Denied(o)
    <2>1. PICK a : d = [o EXCEPT !.approval = a]
        BY <1>1 DEF Denied, RunState
    <2>2. PICK place \in {"interrupting", "joining"} :
            run' = [run EXCEPT ![r] = [d EXCEPT !.sup = place]]
        BY <1>4 DEF AbortDenies, EndDenies
    <2> DEFINE s == [d EXCEPT !.sup = place]
    <2> HIDE DEF o, d
    <2>3. /\ s.start = o.start /\ s.phase = o.phase /\ s.abort = o.abort /\ s.muted = o.muted
          /\ s.reader = o.reader /\ s.observed = o.observed /\ s.child = o.child
          /\ s.sup = place
        BY <1>1, <2>1 DEF RunState
    <2> HIDE DEF s
    <2>4. QED
        BY <2>2, <2>3, SupervisesReach DEF o, s
<1>5. CASE Settle(r)
    <2> DEFINE t == IF o.filed THEN Told(o, "supervisor", o.verdict) ELSE o.told
               s == [o EXCEPT !.sup = "done", !.proc = "ended", !.told = t]
    <2>1. run' = [run EXCEPT ![r] = s]
        BY <1>1, <1>5 DEF Settle
    <2> HIDE DEF o, t
    <2>2. /\ s.start = o.start /\ s.phase = o.phase /\ s.abort = o.abort /\ s.muted = o.muted
          /\ s.reader = o.reader /\ s.observed = o.observed /\ s.child = o.child
          /\ s.sup = "done"
        BY <1>1 DEF RunState
    <2> HIDE DEF s
    <2>3. QED
        BY <2>1, <2>2, SupervisesReach DEF o
<1>6. QED
    BY <1>2, <1>3, <1>4, <1>5
    DEF SelectTimeout, SelectExit, SelectStream, GraceEnds, AbortKillsChild

\* Whoever files a run resolves its abort channel.
LEMMA FiledReach ==
    ASSUME NEW o \in RunState, NEW ending \in Endings, AbortGood(o)
    PROVE  LET f == Filed(o, ending) IN AbortGood(f) /\ f.muted = o.muted
<1>1. CASE o.phase # "active"
    BY <1>1 DEF Filed
<1>2. CASE o.phase = "active"
    <2> DEFINE a == IF o.abort = "held" THEN "fired" ELSE o.abort
               f == [o EXCEPT !.phase = ending, !.abort = a]
    <2>1. Filed(o, ending) = f
        BY <1>2 DEF Filed
    <2>2. o.abort # "none" => a = "fired"
        BY DEF RunState
    <2> HIDE DEF a
    <2>3. /\ f.start = o.start /\ f.sup = o.sup /\ f.abort = a /\ f.muted = o.muted
          /\ f.reader = o.reader /\ f.observed = o.observed /\ f.child = o.child
        BY DEF RunState
    <2> HIDE DEF f
    <2>4. AbortGood(f)
        BY <2>2, <2>3 DEF AbortGood
    <2>5. QED
        BY <2>1, <2>3, <2>4
<1>3. QED
    BY <1>1, <1>2

\* The supervisor files the run when its process and its readers are gone.
LEMMA ConcludeReach ==
    ASSUME Known, NEW r \in Runs, Conclude(r)
    PROVE  KeepsReach(r)
<1> DEFINE o == run[r]
           v == Reconciled(r)
           b == Active(r)
           f == Filed(o, v)
           s == [f EXCEPT !.sup = "marking", !.verdict = v, !.filed = b]
<1>1. o \in RunState /\ Good(r, o) /\ AbortGood(o) /\ run \in [Runs -> RunState]
    BY DEF Known, TypeOK, AllGood, AllAbortable
<1>2. v \in Endings
    <2>1. o.verdict # "none"
        BY <1>1 DEF Conclude, Good, EndGood
    <2>2. QED
        BY <1>1, <2>1 DEF Reconciled, RunState, Endings
<1>3. f \in RunState /\ AbortGood(f)
    BY <1>1, <1>2, FiledShape, FiledReach
<1>4. run'[r] = s /\ \A x \in Runs \ {r} : run'[x] = run[x]
    BY <1>1 DEF Conclude
<1> HIDE DEF o, v, b, f
<1>5. /\ s.start = f.start /\ s.phase = f.phase /\ s.abort = f.abort /\ s.muted = f.muted
      /\ s.reader = f.reader /\ s.observed = f.observed /\ s.child = f.child
      /\ s.sup = "marking"
    BY <1>3 DEF RunState
<1> HIDE DEF s
<1>6. AbortGood(s)
    BY <1>3, <1>5 DEF AbortGood
<1>7. QED
    BY <1>4, <1>6 DEF KeepsReach

\* An abort files the run at whatever it is.
LEMMA RecordAbortReach ==
    ASSUME Known, NEW c \in Callers, NEW r \in Runs, RecordAbort(c, r)
    PROVE  KeepsReach(r)
<1> DEFINE o == run[r]
           f == Filed(o, "Aborted")
           t == IF Active(r) /\ caller[c].loud THEN Told(o, "abort", "Aborted") ELSE o.told
           s == [f EXCEPT !.told = t]
<1>1. o \in RunState /\ AbortGood(o) /\ run \in [Runs -> RunState]
    BY DEF Known, TypeOK, AllAbortable
<1>2. f \in RunState /\ AbortGood(f)
    BY <1>1, FiledShape, FiledReach DEF Endings
<1>3. run'[r] = s /\ \A x \in Runs \ {r} : run'[x] = run[x]
    BY <1>1 DEF RecordAbort
<1> HIDE DEF o, f, t
<1>4. /\ s.start = f.start /\ s.phase = f.phase /\ s.abort = f.abort /\ s.muted = f.muted
      /\ s.reader = f.reader /\ s.observed = f.observed /\ s.child = f.child
      /\ s.sup = f.sup
    BY <1>2 DEF RunState
<1> HIDE DEF s
<1>5. AbortGood(s)
    BY <1>2, <1>4 DEF AbortGood
<1>6. QED
    BY <1>3, <1>5 DEF KeepsReach

\* Using a sender resolves the channel of a run that is still active.
LEMMA TakeAbortsReach ==
    ASSUME Known, NEW c \in Callers, NEW todo \in SUBSET Runs, NEW loud \in BOOLEAN,
           TakeAborts(c, todo, loud), NEW r \in Runs
    PROVE  AbortGood(run'[r])
<1> DEFINE o == run[r]
           s == [o EXCEPT !.abort = "fired"]
<1>1. o \in RunState /\ AbortGood(o)
    BY DEF Known, TypeOK, AllAbortable
<1>2. run'[r] = o \/ run'[r] = s
    BY DEF TakeAborts
<1> HIDE DEF o
<1>3. /\ s.start = o.start /\ s.abort = "fired" /\ s.muted = o.muted /\ s.sup = o.sup
      /\ s.reader = o.reader /\ s.observed = o.observed /\ s.child = o.child
    BY <1>1 DEF RunState
<1> HIDE DEF s
<1>4. AbortGood(s)
    BY <1>1, <1>3 DEF AbortGood
<1>5. QED
    BY <1>1, <1>2, <1>4

-----------------------------------------------------------------------------

\* No step takes a run out of reach.
LEMMA ReachStep ==
    ASSUME Known, IInv, [Next]_vars
    PROVE  AllAbortable'
<1>1. ASSUME NEW r \in Runs, KeepsReach(r) PROVE AllAbortable'
    BY <1>1 DEF KeepsReach, Known, AllAbortable
<1>2. ASSUME NEW r \in Runs,
             Starts(r) \/ Process(r) \/ Reads(r) \/ Approves(r) \/ Supervises(r)
                       \/ SelectTimeout(r)
      PROVE  KeepsReach(r)
    <2>1. CASE Reads(r)
        <3>1. WriteStore(r) => run[r].reader = "saving"
            BY RunsAssumption DEF WriteStore, IInv, FileGood
        <3>2. QED
            BY <2>1, <3>1, ReaderReach, EndsReach DEF Reads
    <2>2. CASE Approves(r)
        BY <2>2, ReaderReach, EndsReach DEF Approves
    <2>3. CASE Supervises(r) \/ SelectTimeout(r)
        BY <2>3, DecidesReach, ConcludeReach DEF Supervises
    <2>4. QED
        BY <1>2, <2>1, <2>2, <2>3, StartsReach, ProcessReach
<1>3. ASSUME NEW c \in Callers, Aborts(c) PROVE AllAbortable'
    BY <1>1, <1>3, TakeAbortsReach, RecordAbortReach DEF Aborts, AllAbortable
<1>4. CASE UNCHANGED vars
    BY <1>4 DEF vars, Known, AllAbortable
<1>5. QED
    BY <1>1, <1>2, <1>3, <1>4 DEF Next

\* An aborted run whose process still lives is always on its way to a kill, but
\* for the one that closed its stdout while nobody was aborting it.
THEOREM AbortsReachAKiller == Spec => []AbortReachesKiller
<1>1. Init => AllAbortable
    BY DEF Init, FreshRun, AllAbortable, AbortGood
<1>2. IInv /\ IInv' /\ AllAbortable /\ [Next]_vars => AllAbortable'
    BY ReachStep DEF IInv, Known
<1>3. IInv /\ AllAbortable => AbortReachesKiller
    <2> SUFFICES ASSUME IInv, AllAbortable, NEW r \in Runs,
                        run[r].phase = "Aborted", Alive(r)
                 PROVE  \/ run[r].start \in {"spawned", "ready"}
                        \/ run[r].sup = "select" /\ AbortFired(r)
                        \/ run[r].sup \in {"grace", "aborting", "interrupting"}
                        \/ run[r].sup = "childOnly" /\ run[r].muted
        BY DEF AbortReachesKiller
    <2>1. run[r] \in RunState /\ Good(r, run[r]) /\ AbortGood(run[r])
        BY DEF IInv, TypeOK, AllGood, AllAbortable
    <2>2. CASE run[r].start # "started"
        BY <2>1, <2>2 DEF Good, StartGood, RunState, Start, Alive
    <2>3. CASE run[r].start = "started"
        BY <2>1, <2>3
        DEF Good, EndGood, AbortGood, RunState, Supervisor, Alive, AbortFired
    <2>4. QED
        BY <2>2, <2>3
<1>4. QED
    BY <1>1, <1>2, <1>3, InvHolds, PTL DEF Spec
===============================================================================
