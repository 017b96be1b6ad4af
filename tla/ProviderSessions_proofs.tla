------------------------ MODULE ProviderSessions_proofs ------------------------
(***************************************************************************)
(* Proofs about the runs of a tab, for any number of runs, of aborting      *)
(* callers and of stdout lines.                                             *)
(***************************************************************************)
EXTENDS ProviderSessions, SequenceTheorems, TLAPS

-----------------------------------------------------------------------------
(* The inductive invariant of one run's record s.                            *)

\* Where the supervisor or an abort has announced an ending.
Said(told) == {i \in DOMAIN told : told[i].by \in {"supervisor", "abort"}}

\* How far the start call is bounds what else there can be.
StartGood(s) ==
    /\ s.start \in {"absent", "idle"} => s.phase = "none"
    /\ s.start \in {"absent", "idle", "registered", "leaked"} =>
            s.child = "none" /\ s.proc = "none"
    /\ s.start # "started" => s.reader = "none" /\ s.sup = "none"
    /\ s.start = "failed" =>
            s.child # "alive" /\ s.phase # "active" /\ s.proc # "running"
    /\ s.start = "started" => s.reader # "none"

\* What the supervisor has brought to an end stays so.
EndGood(r, s) ==
    /\ s.sup \in {"denying", "joining", "marking", "done"} =>
            s.child # "alive" /\ s.verdict # "none"
    /\ s.sup \in {"marking", "done"} => s.reader = "done" /\ s.phase # "active"
    /\ s.sup = "done" => s.proc # "running"
    /\ s.phase = "Completed" =>
            /\ s.sup \in {"marking", "done"}
            /\ s.observed # "Failed"
            /\ r \in Codex => s.observed # "none"

\* The approval channel, the reader's place and what the operator was told.
ApprovalGood(s) ==
    /\ s.reader \notin {"waiting", "answering"} =>
            s.approval = "none" /\ s.acked = "none"
    /\ s.reader = "waiting" =>
            /\ s.approval # "none"
            /\ s.acked \in Answers => s.approval = s.acked
            /\ s.acked = "late" => s.approval = "gone"
            /\ s.approval = "allow" => s.acked = "allow"
    /\ s.reader = "answering" =>
            /\ s.approval \in Answers
            /\ s.acked \in Answers => s.approval = s.acked
            /\ s.acked = "late" => s.approval = "deny"
            /\ s.approval = "allow" => s.mode = "bypass" \/ s.acked = "allow"

\* Nobody announces before the run is filed, and only who filed it.
SaidGood(s) ==
    /\ s.phase \in {"none", "active"} => Said(s.told) = {}
    /\ s.filed => s.sup \in {"marking", "done"}
    /\ s.filed /\ s.sup = "marking" => Said(s.told) = {} /\ s.phase = s.verdict
    /\ \A i, j \in Said(s.told) : i = j
    /\ \A i \in Said(s.told) : s.told[i].phase = s.phase

Good(r, s) == StartGood(s) /\ EndGood(r, s) /\ ApprovalGood(s) /\ SaidGood(s)

AllGood == \A r \in Runs : Good(r, run[r])

\* A step that leaves every run but r alone, and r good.
KeepsGood(r) ==
    \E s \in RunState : Good(r, s) /\ run' = [run EXCEPT ![r] = s]

-----------------------------------------------------------------------------
(* Announcements and filing.                                                 *)

\* The start call's announcement is not one of the supervisor or an abort.
LEMMA ToldByStart ==
    ASSUME NEW told \in Seq(Announcement), NEW ending \in Endings,
           NEW t, t = Append(told, [by |-> "start", phase |-> ending])
    PROVE  /\ t \in Seq(Announcement)
           /\ Said(t) = Said(told)
           /\ \A i \in Said(told) : t[i] = told[i]
BY DEF Said, Announcement

\* The first announcement of one of these is the only one.
LEMMA ToldFirst ==
    ASSUME NEW o, o.told \in Seq(Announcement), NEW ending \in Endings,
           NEW who \in {"supervisor", "abort"}, Said(o.told) = {}
    PROVE  /\ Told(o, who, ending) \in Seq(Announcement)
           /\ \A i \in Said(Told(o, who, ending)) :
                i = Len(o.told) + 1 /\ Told(o, who, ending)[i].phase = ending
BY DEF Said, Told, Announcement

\* The fields that filing leaves alone.
SameWork(s, o) ==
    /\ s.start = o.start /\ s.mode = o.mode /\ s.child = o.child
    /\ s.reader = o.reader /\ s.observed = o.observed /\ s.approval = o.approval
    /\ s.acked = o.acked /\ s.sup = o.sup /\ s.verdict = o.verdict
    /\ s.filed = o.filed /\ s.proc = o.proc /\ s.told = o.told

\* Filing changes the phase and the abort channel, and only of an active run.
LEMMA FiledShape ==
    ASSUME NEW o \in RunState, NEW ending \in Endings
    PROVE  /\ Filed(o, ending) \in RunState
           /\ SameWork(Filed(o, ending), o)
           /\ Filed(o, ending).phase = IF o.phase = "active" THEN ending ELSE o.phase
<1>1. CASE o.phase = "active"
    <2> DEFINE a == IF o.abort = "held" THEN "fired" ELSE o.abort
               f == [o EXCEPT !.phase = ending, !.abort = a]
    <2>1. Filed(o, ending) = f
        BY <1>1 DEF Filed
    <2>2. a \in {"none", "held", "fired"}
        BY DEF RunState
    <2> HIDE DEF a
    <2>3. f \in RunState /\ SameWork(f, o) /\ f.phase = ending
        BY <2>2 DEF RunState, SameWork
    <2>4. QED
        BY <1>1, <2>1, <2>3
<1>2. CASE o.phase # "active"
    BY <1>2 DEF Filed, SameWork
<1>3. QED
    BY <1>1, <1>2

-----------------------------------------------------------------------------
(* One lemma per action.                                                     *)

\* A run is registered once.
LEMMA RegisterGood ==
    ASSUME TypeOK, AllGood, NEW r \in Runs, Register(r)
    PROVE  KeepsGood(r)
<1> DEFINE o == run[r]
           s == [o EXCEPT !.start = "registered", !.phase = "active"]
<1>1. o \in RunState /\ Good(r, o)
    BY DEF TypeOK, AllGood
<1>2. o.start = "idle"
    BY DEF Register
<1>3. run' = [run EXCEPT ![r] = s]
    BY DEF Register, TypeOK
<1> HIDE DEF o
<1>4. s \in RunState
    BY <1>1, <1>2 DEF RunState, Start
<1>5. Good(r, s)
    BY <1>1, <1>2 DEF RunState, Good, StartGood, EndGood, ApprovalGood, SaidGood
<1>6. QED
    BY <1>3, <1>4, <1>5 DEF KeepsGood

\* A leaked run has no process.
LEMMA PrepareFailsGood ==
    ASSUME TypeOK, AllGood, NEW r \in Runs, PrepareFails(r)
    PROVE  KeepsGood(r)
<1> DEFINE o == run[r]
           s == [o EXCEPT !.start = "leaked"]
<1>1. o \in RunState /\ Good(r, o)
    BY DEF TypeOK, AllGood
<1>2. o.start = "registered"
    BY DEF PrepareFails
<1>3. run' = [run EXCEPT ![r] = s]
    BY DEF PrepareFails, TypeOK
<1> HIDE DEF o
<1>4. s \in RunState
    BY <1>1, <1>2 DEF RunState, Start
<1>5. Good(r, s)
    BY <1>1, <1>2 DEF RunState, Good, StartGood, EndGood, ApprovalGood, SaidGood
<1>6. QED
    BY <1>3, <1>4, <1>5 DEF KeepsGood

\* A spawn that fails files the run and announces it as the start call.
LEMMA SpawnFailsGood ==
    ASSUME TypeOK, AllGood, NEW r \in Runs, SpawnFails(r)
    PROVE  KeepsGood(r)
<1> DEFINE o == run[r]
           f == Filed(o, "Failed")
           t == Told(o, "start", "Failed")
           s == [f EXCEPT !.start = "failed", !.told = t]
<1>1. o \in RunState /\ Good(r, o)
    BY DEF TypeOK, AllGood
<1>2. o.start = "registered"
    BY DEF SpawnFails
<1>3. run' = [run EXCEPT ![r] = s]
    BY DEF SpawnFails, TypeOK
<1>4. o.told \in Seq(Announcement)
    BY <1>1 DEF RunState
<1>5. /\ t \in Seq(Announcement) /\ Said(t) = Said(o.told)
      /\ \A i \in Said(o.told) : t[i] = o.told[i]
    BY <1>4, ToldByStart DEF Told, Endings
<1>6. /\ f \in RunState /\ SameWork(f, o)
      /\ f.phase = IF o.phase = "active" THEN "Failed" ELSE o.phase
    BY <1>1, FiledShape DEF Endings
<1> HIDE DEF o, f, t
<1>7. s \in RunState
    BY <1>5, <1>6 DEF RunState, Start
<1>8. Good(r, s)
    BY <1>1, <1>2, <1>5, <1>6 DEF RunState, SameWork, Good, StartGood, EndGood, ApprovalGood, SaidGood
<1>9. QED
    BY <1>3, <1>7, <1>8 DEF KeepsGood

\* The process starts before there are a reader and a supervisor.
LEMMA SpawnGood ==
    ASSUME TypeOK, AllGood, NEW r \in Runs, Spawn(r)
    PROVE  KeepsGood(r)
<1> DEFINE o == run[r]
           s == [o EXCEPT !.start = "spawned", !.child = "alive",
                         !.proc = "running"]
<1>1. o \in RunState /\ Good(r, o)
    BY DEF TypeOK, AllGood
<1>2. o.start = "registered"
    BY DEF Spawn
<1>3. run' = [run EXCEPT ![r] = s]
    BY DEF Spawn, TypeOK
<1> HIDE DEF o
<1>4. s \in RunState
    BY <1>1, <1>2 DEF RunState, Start, Child
<1>5. Good(r, s)
    BY <1>1, <1>2 DEF RunState, Good, StartGood, EndGood, ApprovalGood, SaidGood
<1>6. QED
    BY <1>3, <1>4, <1>5 DEF KeepsGood

\* Setup changes the start call only.
LEMMA SetupWrittenGood ==
    ASSUME TypeOK, AllGood, NEW r \in Runs, SetupWritten(r)
    PROVE  KeepsGood(r)
<1> DEFINE o == run[r]
           s == [o EXCEPT !.start = "ready"]
<1>1. o \in RunState /\ Good(r, o)
    BY DEF TypeOK, AllGood
<1>2. o.start = "spawned"
    BY DEF SetupWritten
<1>3. run' = [run EXCEPT ![r] = s]
    BY DEF SetupWritten, TypeOK
<1> HIDE DEF o
<1>4. s \in RunState
    BY <1>1, <1>2 DEF RunState, Start
<1>5. Good(r, s)
    BY <1>1, <1>2 DEF RunState, Good, StartGood, EndGood, ApprovalGood, SaidGood
<1>6. QED
    BY <1>3, <1>4, <1>5 DEF KeepsGood

\* A start call that gives up leaves no process and no active run.
LEMMA StartGivesUpGood ==
    ASSUME TypeOK, AllGood, NEW r \in Runs, run[r].start \in {"spawned", "ready"},
           StartGivesUp(r)
    PROVE  KeepsGood(r)
<1> DEFINE o == run[r]
           f == Filed(o, "Failed")
           c == Dead(o)
           t == Told(o, "start", "Failed")
           m == [f EXCEPT !.start = "failed", !.child = c]
           s == [m EXCEPT !.proc = "ended", !.told = t]
<1>1. o \in RunState /\ Good(r, o)
    BY DEF TypeOK, AllGood
<1>2. o.start \in {"spawned", "ready"}
    OBVIOUS
<1>3. run' = [run EXCEPT ![r] = s]
    BY DEF StartGivesUp, TypeOK
<1>4. o.told \in Seq(Announcement)
    BY <1>1 DEF RunState
<1>5. /\ t \in Seq(Announcement) /\ Said(t) = Said(o.told)
      /\ \A i \in Said(o.told) : t[i] = o.told[i]
    BY <1>4, ToldByStart DEF Told, Endings
<1>6. /\ f \in RunState /\ SameWork(f, o)
      /\ f.phase = IF o.phase = "active" THEN "Failed" ELSE o.phase
    BY <1>1, FiledShape DEF Endings
<1>7. c \in Child /\ c # "alive"
    BY <1>1 DEF Dead, RunState, Child
<1> HIDE DEF o, f, c, t
<1>8. m \in RunState
    BY <1>6, <1>7 DEF RunState, Start
<1>9. Good(r, s)
    BY <1>1, <1>2, <1>5, <1>6, <1>7 DEF RunState, SameWork, Good, StartGood, EndGood, ApprovalGood, SaidGood
<1> HIDE DEF m
<1>10. s \in RunState
    BY <1>5, <1>8 DEF RunState
<1>11. QED
    BY <1>3, <1>9, <1>10 DEF KeepsGood

\* The tasks of a run that is still active start together.
LEMMA AttachGood ==
    ASSUME TypeOK, AllGood, NEW r \in Runs, Attach(r)
    PROVE  KeepsGood(r)
<1> DEFINE o == run[r]
           s == [o EXCEPT !.start = "started", !.abort = "held",
                         !.reader = "reading", !.sup = "select"]
<1>1. o \in RunState /\ Good(r, o)
    BY DEF TypeOK, AllGood
<1>2. o.start = "ready" /\ o.phase = "active"
    BY DEF Attach, Active
<1>3. run' = [run EXCEPT ![r] = s]
    BY DEF Attach, TypeOK
<1> HIDE DEF o
<1>4. s \in RunState
    <2> DEFINE m == [o EXCEPT !.start = "started", !.abort = "held"]
    <2>1. m \in RunState
        BY <1>1, <1>2 DEF RunState, Start
    <2> HIDE DEF m
    <2>2. [m EXCEPT !.reader = "reading", !.sup = "select"] \in RunState
        BY <2>1 DEF RunState, Reader, Supervisor
    <2>3. QED
        BY <2>2 DEF m
<1>5. Good(r, s)
    BY <1>1, <1>2 DEF RunState, Good, StartGood, EndGood, ApprovalGood, SaidGood
<1>6. QED
    BY <1>3, <1>4, <1>5 DEF KeepsGood

\* An exit leaves no process.
LEMMA ChildExitsGood ==
    ASSUME TypeOK, AllGood, NEW r \in Runs, NEW how \in {"ok", "bad"}, ChildExits(r, how)
    PROVE  KeepsGood(r)
<1> DEFINE o == run[r]
           s == [o EXCEPT !.child = how]
<1>1. o \in RunState /\ Good(r, o)
    BY DEF TypeOK, AllGood
<1>2. o.child = "alive"
    BY DEF ChildExits, Alive
<1>3. run' = [run EXCEPT ![r] = s]
    BY DEF ChildExits, TypeOK
<1> HIDE DEF o
<1>4. s \in RunState
    BY <1>1, <1>2 DEF RunState, Child
<1>5. Good(r, s)
    BY <1>1, <1>2 DEF RunState, Good, StartGood, EndGood, ApprovalGood, SaidGood
<1>6. QED
    BY <1>3, <1>4, <1>5 DEF KeepsGood

\* A descendant is not the process.
LEMMA ForksGood ==
    ASSUME TypeOK, AllGood, NEW r \in Runs, Forks(r)
    PROVE  KeepsGood(r)
<1> DEFINE o == run[r]
           s == [o EXCEPT !.heir = TRUE]
<1>1. o \in RunState /\ Good(r, o)
    BY DEF TypeOK, AllGood
<1>2. o.child = "alive"
    BY DEF Forks, Alive
<1>3. run' = [run EXCEPT ![r] = s]
    BY DEF Forks, TypeOK
<1> HIDE DEF o
<1>4. s \in RunState
    BY <1>1, <1>2 DEF RunState
<1>5. Good(r, s)
    BY <1>1, <1>2 DEF RunState, Good, StartGood, EndGood, ApprovalGood, SaidGood
<1>6. QED
    BY <1>3, <1>4, <1>5 DEF KeepsGood

\* Nor does a closed stdout end it.
LEMMA ClosesStdoutGood ==
    ASSUME TypeOK, AllGood, NEW r \in Runs, ClosesStdout(r)
    PROVE  KeepsGood(r)
<1> DEFINE o == run[r]
           s == [o EXCEPT !.muted = TRUE]
<1>1. o \in RunState /\ Good(r, o)
    BY DEF TypeOK, AllGood
<1>2. o.child = "alive"
    BY DEF ClosesStdout, Alive
<1>3. run' = [run EXCEPT ![r] = s]
    BY DEF ClosesStdout, TypeOK
<1> HIDE DEF o
<1>4. s \in RunState
    BY <1>1, <1>2 DEF RunState
<1>5. Good(r, s)
    BY <1>1, <1>2 DEF RunState, Good, StartGood, EndGood, ApprovalGood, SaidGood
<1>6. QED
    BY <1>3, <1>4, <1>5 DEF KeepsGood

\* Nor does the end of the descendant.
LEMMA HeirEndsGood ==
    ASSUME TypeOK, AllGood, NEW r \in Runs, HeirEnds(r)
    PROVE  KeepsGood(r)
<1> DEFINE o == run[r]
           s == [o EXCEPT !.heir = FALSE]
<1>1. o \in RunState /\ Good(r, o)
    BY DEF TypeOK, AllGood
<1>2. o.heir
    BY DEF HeirEnds
<1>3. run' = [run EXCEPT ![r] = s]
    BY DEF HeirEnds, TypeOK
<1> HIDE DEF o
<1>4. s \in RunState
    BY <1>1, <1>2 DEF RunState
<1>5. Good(r, s)
    BY <1>1, <1>2 DEF RunState, Good, StartGood, EndGood, ApprovalGood, SaidGood
<1>6. QED
    BY <1>3, <1>4, <1>5 DEF KeepsGood

\* Only the reader's place and the count of lines change with a conversation id.
LEMMA ReadConversationGood ==
    ASSUME TypeOK, AllGood, NEW r \in Runs, ReadConversation(r)
    PROVE  KeepsGood(r)
<1> DEFINE o == run[r]
           n == o.lines - 1
           w == IF Active(r) THEN "saving" ELSE "reading"
           s == [o EXCEPT !.lines = n, !.reader = w]
<1>1. o \in RunState /\ Good(r, o)
    BY DEF TypeOK, AllGood
<1>2. o.reader = "reading" /\ n \in 0 .. MaxLines
    BY <1>1, BoundsAssumption DEF ReadConversation, CanRead, RunState
<1>3. run' = [run EXCEPT ![r] = s]
    <2>1. CASE Active(r)
        BY <2>1 DEF ReadConversation, Counted, TypeOK
    <2>2. CASE ~Active(r)
        <3>1. run' = [run EXCEPT ![r] = [o EXCEPT !.lines = n]]
            BY <2>2 DEF ReadConversation, Counted, TypeOK
        <3>2. [o EXCEPT !.lines = n] = [o EXCEPT !.lines = n, !.reader = "reading"]
            <4> HIDE DEF o, n
            <4>1. QED
                BY <1>1, <1>2 DEF RunState
        <3>3. QED
            BY <2>2, <3>1, <3>2
    <2>3. QED
        BY <2>1, <2>2
<1>4. w \in {"saving", "reading"}
    OBVIOUS
<1> HIDE DEF o, n, w
<1>5. s \in RunState
    BY <1>1, <1>2, <1>4 DEF RunState, Reader
<1>6. Good(r, s)
    BY <1>1, <1>2, <1>4 DEF RunState, Good, StartGood, EndGood, ApprovalGood, SaidGood
<1>7. QED
    BY <1>3, <1>5, <1>6 DEF KeepsGood

\* After the write the reader goes on.
LEMMA WriteStoreGood ==
    ASSUME TypeOK, AllGood, NEW r \in Runs, WriteStore(r), run[r].reader = "saving"
    PROVE  KeepsGood(r)
<1> DEFINE o == run[r]
           s == [o EXCEPT !.reader = "reading"]
<1>1. o \in RunState /\ Good(r, o)
    BY DEF TypeOK, AllGood
<1>2. o.reader = "saving"
    OBVIOUS
<1>3. run' = [run EXCEPT ![r] = s]
    BY DEF WriteStore, TypeOK
<1> HIDE DEF o
<1>4. s \in RunState
    BY <1>1 DEF RunState, Reader
<1>5. Good(r, s)
    BY <1>1, <1>2 DEF RunState, Good, StartGood, EndGood, ApprovalGood, SaidGood
<1>6. QED
    BY <1>3, <1>4, <1>5 DEF KeepsGood

\* What the stream has ended with is an ending.
LEMMA ObservedType ==
    ASSUME NEW o \in RunState, NEW ending \in Endings
    PROVE  Observed(o, ending) \in Endings
BY DEF Observed, RunState, Endings

\* The end of the stream ends the reader, before the run is filed as completed.
LEMMA ReadTerminalGood ==
    ASSUME TypeOK, AllGood, NEW r \in Runs, NEW ending \in Endings, ReadTerminal(r, ending)
    PROVE  KeepsGood(r)
<1> DEFINE o == run[r]
           n == o.lines - 1
           e == Observed(o, ending)
           s == [o EXCEPT !.lines = n, !.observed = e, !.reader = "done"]
<1>1. o \in RunState /\ Good(r, o)
    BY DEF TypeOK, AllGood
<1>2. o.reader = "reading" /\ n \in 0 .. MaxLines
    BY <1>1, BoundsAssumption DEF ReadTerminal, CanRead, RunState
<1>3. run' = [run EXCEPT ![r] = s]
    BY DEF ReadTerminal, Counted, TypeOK
<1>4. e \in {"none"} \cup Endings
    BY <1>1, ObservedType
<1> HIDE DEF o, n, e
<1>5. s \in RunState
    BY <1>1, <1>2, <1>4 DEF RunState, Reader
<1>6. Good(r, s)
    BY <1>1, <1>2, <1>4 DEF RunState, Good, StartGood, EndGood, ApprovalGood, SaidGood
<1>7. QED
    BY <1>3, <1>5, <1>6 DEF KeepsGood

\* So does a failure of the stream.
LEMMA ReadFailsGood ==
    ASSUME TypeOK, AllGood, NEW r \in Runs, ReadFails(r)
    PROVE  KeepsGood(r)
<1> DEFINE o == run[r]
           e == Observed(o, "Failed")
           s == [o EXCEPT !.observed = e, !.reader = "done"]
<1>1. o \in RunState /\ Good(r, o)
    BY DEF TypeOK, AllGood
<1>2. o.reader = "reading"
    BY DEF ReadFails
<1>3. run' = [run EXCEPT ![r] = s]
    BY DEF ReadFails, TypeOK
<1>4. e \in {"none"} \cup Endings
    BY <1>1, ObservedType DEF Endings
<1> HIDE DEF o, e
<1>5. s \in RunState
    BY <1>1, <1>4 DEF RunState, Reader
<1>6. Good(r, s)
    BY <1>1, <1>2, <1>4 DEF RunState, Good, StartGood, EndGood, ApprovalGood, SaidGood
<1>7. QED
    BY <1>3, <1>5, <1>6 DEF KeepsGood

\* And the end of the file.
LEMMA ReadEofGood ==
    ASSUME TypeOK, AllGood, NEW r \in Runs, ReadEof(r)
    PROVE  KeepsGood(r)
<1> DEFINE o == run[r]
           s == [o EXCEPT !.reader = "done"]
<1>1. o \in RunState /\ Good(r, o)
    BY DEF TypeOK, AllGood
<1>2. o.reader = "reading"
    BY DEF ReadEof
<1>3. run' = [run EXCEPT ![r] = s]
    BY DEF ReadEof, TypeOK
<1> HIDE DEF o
<1>4. s \in RunState
    BY <1>1, <1>2 DEF RunState, Reader
<1>5. Good(r, s)
    BY <1>1, <1>2 DEF RunState, Good, StartGood, EndGood, ApprovalGood, SaidGood
<1>6. QED
    BY <1>3, <1>4, <1>5 DEF KeepsGood

\* A mode that does not ask answers at once; the other opens the request.
LEMMA ReadApprovalGood ==
    ASSUME TypeOK, AllGood, NEW r \in Runs, ReadApproval(r)
    PROVE  KeepsGood(r)
<1> DEFINE o == run[r]
           n == o.lines - 1
           s(w, a) == [o EXCEPT !.lines = n, !.reader = w, !.approval = a]
<1>1. o \in RunState /\ Good(r, o)
    BY DEF TypeOK, AllGood
<1>2. o.reader = "reading" /\ n \in 0 .. MaxLines
    BY <1>1, BoundsAssumption DEF ReadApproval, CanRead, RunState
<1>3. o.acked = "none"
    BY <1>1, <1>2 DEF Good, ApprovalGood
<1>4. CASE o.mode = "bypass"
    <2>1. run' = [run EXCEPT ![r] = s("answering", "allow")]
        BY <1>4 DEF ReadApproval, Counted, TypeOK
    <2> HIDE DEF o, n
    <2>2. s("answering", "allow") \in RunState
        BY <1>1, <1>2 DEF RunState, Reader, Approval, Answers
    <2>3. Good(r, s("answering", "allow"))
        BY <1>1, <1>2, <1>4 DEF RunState, Answers, Good, StartGood, EndGood, ApprovalGood, SaidGood
    <2>4. QED
        BY <2>1, <2>2, <2>3 DEF KeepsGood
<1>5. CASE o.mode = "readOnly"
    <2>1. run' = [run EXCEPT ![r] = s("answering", "deny")]
        BY <1>5 DEF ReadApproval, Counted, TypeOK
    <2> HIDE DEF o, n
    <2>2. s("answering", "deny") \in RunState
        BY <1>1, <1>2 DEF RunState, Reader, Approval, Answers
    <2>3. Good(r, s("answering", "deny"))
        BY <1>1, <1>2 DEF RunState, Answers, Good, StartGood, EndGood, ApprovalGood, SaidGood
    <2>4. QED
        BY <2>1, <2>2, <2>3 DEF KeepsGood
<1>6. CASE o.mode \notin {"bypass", "readOnly"}
    <2>1. run' = [run EXCEPT ![r] = s("waiting", "open")]
        <3>1. [s("waiting", "open") EXCEPT !.acked = "none"] = s("waiting", "open")
            <4> HIDE DEF o, n
            <4>1. QED
                BY <1>1, <1>3 DEF RunState
        <3>2. run' = [run EXCEPT ![r] = [s("waiting", "open") EXCEPT !.acked = "none"]]
            BY <1>6 DEF ReadApproval, Counted, TypeOK
        <3>3. QED
            BY <3>1, <3>2
    <2> HIDE DEF o, n
    <2>2. s("waiting", "open") \in RunState
        BY <1>1, <1>2 DEF RunState, Reader, Approval
    <2>3. Good(r, s("waiting", "open"))
        BY <1>1, <1>2, <1>3 DEF RunState, Answers, Good, StartGood, EndGood, ApprovalGood, SaidGood
    <2>4. QED
        BY <2>1, <2>2, <2>3 DEF KeepsGood
<1>7. QED
    BY <1>4, <1>5, <1>6

\* The operator is told of an answer that the reader will take, or is late.
LEMMA OperatorAnswersGood ==
    ASSUME TypeOK, AllGood, NEW r \in Runs, NEW answer \in Answers,
           OperatorAnswers(r, answer)
    PROVE  KeepsGood(r)
<1> DEFINE o == run[r]
           s(a, k) == [o EXCEPT !.approval = a, !.acked = k]
<1>1. o \in RunState /\ Good(r, o)
    BY DEF TypeOK, AllGood
<1>2. o.approval \in {"open", "elapsed", "expired"}
    BY DEF OperatorAnswers
<1>3. o.reader = "waiting" /\ o.acked = "none"
    BY <1>1, <1>2 DEF Good, ApprovalGood, Answers, RunState
<1>4. PICK a \in {answer, "gone"}, k \in {answer, "late", "none"} :
        /\ run' = [run EXCEPT ![r] = s(a, k)]
        /\ (a = answer /\ k = answer) \/ (a = "gone" /\ k \in {"late", "none"})
    <2>1. CASE o.approval = "open"
        BY <2>1 DEF OperatorAnswers, TypeOK
    <2>4. CASE o.approval = "elapsed"
        BY <2>4 DEF OperatorAnswers, TypeOK
    <2>2. CASE o.approval = "expired"
        <3>1. run' = [run EXCEPT ![r] = [o EXCEPT !.approval = "gone"]]
            BY <2>2 DEF OperatorAnswers, TypeOK
        <3>2. [o EXCEPT !.approval = "gone"] = s("gone", "none")
            <4> HIDE DEF o
            <4>1. QED
                BY <1>1, <1>3 DEF RunState
        <3>3. QED
            BY <3>1, <3>2
    <2>3. QED
        BY <1>2, <2>1, <2>2, <2>4
<1> HIDE DEF o
<1>5. s(a, k) \in RunState
    BY <1>1, <1>4 DEF RunState, Approval, Answers
<1>6. Good(r, s(a, k))
    BY <1>1, <1>3, <1>4 DEF RunState, Answers, Good, StartGood, EndGood, ApprovalGood, SaidGood
<1>7. QED
    BY <1>4, <1>5, <1>6 DEF KeepsGood

\* A request whose wait is over has no answer.
LEMMA ApprovalExpiresGood ==
    ASSUME TypeOK, AllGood, NEW r \in Runs, ApprovalExpires(r)
    PROVE  KeepsGood(r)
<1> DEFINE o == run[r]
           s == [o EXCEPT !.approval = "elapsed"]
<1>1. o \in RunState /\ Good(r, o)
    BY DEF TypeOK, AllGood
<1>2. o.reader = "waiting" /\ o.approval = "open"
    BY DEF ApprovalExpires
<1>3. run' = [run EXCEPT ![r] = s]
    BY DEF ApprovalExpires, TypeOK
<1> HIDE DEF o
<1>4. s \in RunState
    BY <1>1, <1>2 DEF RunState, Approval
<1>5. Good(r, s)
    BY <1>1, <1>2 DEF RunState, Good, StartGood, EndGood, ApprovalGood, SaidGood, Answers
<1>6. QED
    BY <1>3, <1>4, <1>5 DEF KeepsGood

\* Dropping the receiver leaves what the operator was told as it is.
LEMMA ReceiverDroppedGood ==
    ASSUME TypeOK, AllGood, NEW r \in Runs, ReceiverDropped(r)
    PROVE  KeepsGood(r)
<1> DEFINE o == run[r]
           s == [o EXCEPT !.approval = "expired"]
<1>1. o \in RunState /\ Good(r, o)
    BY DEF TypeOK, AllGood
<1>2. o.reader = "waiting" /\ o.approval = "elapsed"
    BY DEF ReceiverDropped
<1>3. run' = [run EXCEPT ![r] = s]
    BY DEF ReceiverDropped, TypeOK
<1> HIDE DEF o
<1>4. s \in RunState
    BY <1>1, <1>2 DEF RunState, Approval
<1>5. Good(r, s)
    BY <1>1, <1>2 DEF RunState, Good, StartGood, EndGood, ApprovalGood, SaidGood, Answers
<1>6. QED
    BY <1>3, <1>4, <1>5 DEF KeepsGood

\* A forgotten request is denied.
LEMMA ForgetApprovalGood ==
    ASSUME TypeOK, AllGood, NEW r \in Runs, ForgetApproval(r)
    PROVE  KeepsGood(r)
<1> DEFINE o == run[r]
           s == [o EXCEPT !.approval = "deny", !.reader = "answering"]
<1>1. o \in RunState /\ Good(r, o)
    BY DEF TypeOK, AllGood
<1>2. o.reader = "waiting" /\ o.approval \in {"expired", "gone"}
    BY DEF ForgetApproval
<1>3. run' = [run EXCEPT ![r] = s]
    BY DEF ForgetApproval, TypeOK
<1> HIDE DEF o
<1>4. s \in RunState
    BY <1>1, <1>2 DEF RunState, Approval, Reader, Answers
<1>5. Good(r, s)
    BY <1>1, <1>2 DEF RunState, Good, StartGood, EndGood, ApprovalGood, SaidGood, Answers
<1>6. QED
    BY <1>3, <1>4, <1>5 DEF KeepsGood

\* The answer taken is the one acknowledged.
LEMMA TakeAnswerGood ==
    ASSUME TypeOK, AllGood, NEW r \in Runs, TakeAnswer(r)
    PROVE  KeepsGood(r)
<1> DEFINE o == run[r]
           s == [o EXCEPT !.reader = "answering"]
<1>1. o \in RunState /\ Good(r, o)
    BY DEF TypeOK, AllGood
<1>2. o.reader = "waiting" /\ o.approval \in Answers
    BY DEF TakeAnswer
<1>3. run' = [run EXCEPT ![r] = s]
    BY DEF TakeAnswer, TypeOK
<1> HIDE DEF o
<1>4. s \in RunState
    BY <1>1, <1>2 DEF RunState, Reader
<1>5. Good(r, s)
    BY <1>1, <1>2 DEF RunState, Good, StartGood, EndGood, ApprovalGood, SaidGood, Answers
<1>6. QED
    BY <1>3, <1>4, <1>5 DEF KeepsGood

\* A written answer leaves no request.
LEMMA WriteAnswerGood ==
    ASSUME TypeOK, AllGood, NEW r \in Runs, WriteAnswer(r)
    PROVE  KeepsGood(r)
<1> DEFINE o == run[r]
           s == [o EXCEPT !.approval = "none", !.acked = "none",
                         !.reader = "reading"]
<1>1. o \in RunState /\ Good(r, o)
    BY DEF TypeOK, AllGood
<1>2. o.reader = "answering"
    BY DEF WriteAnswer
<1>3. run' = [run EXCEPT ![r] = s]
    BY DEF WriteAnswer, TypeOK
<1> HIDE DEF o
<1>4. s \in RunState
    BY <1>1, <1>2 DEF RunState, Approval, Reader
<1>5. Good(r, s)
    BY <1>1, <1>2 DEF RunState, Good, StartGood, EndGood, ApprovalGood, SaidGood
<1>6. QED
    BY <1>3, <1>4, <1>5 DEF KeepsGood

\* An answer that cannot be written ends the stream as failed.
LEMMA WriteAnswerFailsGood ==
    ASSUME TypeOK, AllGood, NEW r \in Runs, WriteAnswerFails(r)
    PROVE  KeepsGood(r)
<1> DEFINE o == run[r]
           e == Observed(o, "Failed")
           m == [o EXCEPT !.approval = "none", !.acked = "none"]
           s == [m EXCEPT !.observed = e, !.reader = "done"]
<1>1. o \in RunState /\ Good(r, o)
    BY DEF TypeOK, AllGood
<1>2. o.reader = "answering"
    BY DEF WriteAnswerFails
<1>3. run' = [run EXCEPT ![r] = s]
    BY DEF WriteAnswerFails, TypeOK
<1>4. e \in {"none"} \cup Endings
    BY <1>1, ObservedType DEF Endings
<1> HIDE DEF o, e
<1>5. m \in RunState
    BY <1>1 DEF RunState, Approval
<1>6. Good(r, s)
    BY <1>1, <1>2, <1>4 DEF RunState, Good, StartGood, EndGood, ApprovalGood, SaidGood
<1> HIDE DEF m
<1>7. s \in RunState
    BY <1>4, <1>5 DEF RunState, Reader
<1>8. QED
    BY <1>3, <1>6, <1>7 DEF KeepsGood

\* A decision kills the process.
LEMMA DecideGood ==
    ASSUME TypeOK, AllGood, NEW r \in Runs, NEW ending \in Endings,
           run[r].sup \in {"select", "childOnly", "grace", "interrupting"}, Decide(r, ending)
    PROVE  KeepsGood(r)
<1> DEFINE o == run[r]
           c == Dead(o)
           s == [o EXCEPT !.verdict = ending, !.child = c, !.sup = "denying"]
<1>1. o \in RunState /\ Good(r, o)
    BY DEF TypeOK, AllGood
<1>2. o.sup \in {"select", "childOnly", "grace", "interrupting"}
    OBVIOUS
<1>3. run' = [run EXCEPT ![r] = s]
    BY DEF Decide, TypeOK
<1>4. c \in Child /\ c # "alive" /\ (o.child = "none" => c = "none")
    BY <1>1 DEF Dead, RunState, Child
<1> HIDE DEF o, c
<1>5. s \in RunState
    BY <1>1, <1>4 DEF RunState, Supervisor
<1>6. Good(r, s)
    BY <1>1, <1>2, <1>4 DEF RunState, Endings, Good, StartGood, EndGood, ApprovalGood, SaidGood
<1>7. QED
    BY <1>3, <1>5, <1>6 DEF KeepsGood

\* The supervisor moves on without deciding.
LEMMA MovesOnGood ==
    ASSUME TypeOK, AllGood, NEW r \in Runs, NEW place \in {"grace", "childOnly", "aborting"},
           run[r].sup = "select", run' = [run EXCEPT ![r].sup = place]
    PROVE  KeepsGood(r)
<1> DEFINE o == run[r]
           s == [o EXCEPT !.sup = place]
<1>1. o \in RunState /\ Good(r, o)
    BY DEF TypeOK, AllGood
<1>2. o.sup = "select"
    OBVIOUS
<1>3. run' = [run EXCEPT ![r] = s]
    BY DEF TypeOK
<1> HIDE DEF o
<1>4. s \in RunState
    BY <1>1 DEF RunState, Supervisor
<1>5. Good(r, s)
    BY <1>1, <1>2 DEF RunState, Good, StartGood, EndGood, ApprovalGood, SaidGood
<1>6. QED
    BY <1>3, <1>4, <1>5 DEF KeepsGood

\* A denial closes the open request and wakes its reader with "deny".
LEMMA DenialGood ==
    ASSUME TypeOK, AllGood, NEW r \in Runs, NEW place \in {"interrupting", "joining"},
           \/ run[r].sup = "aborting" /\ place = "interrupting"
           \/ run[r].sup = "denying" /\ place = "joining",
           run' = [run EXCEPT ![r] = [Denied(@) EXCEPT !.sup = place]]
    PROVE  KeepsGood(r)
<1> DEFINE o == run[r]
           a == Denied(o).approval
           s == [o EXCEPT !.approval = a, !.sup = place]
<1>1. o \in RunState /\ Good(r, o)
    BY DEF TypeOK, AllGood
<1>2. \/ o.sup = "aborting" /\ place = "interrupting"
      \/ o.sup = "denying" /\ place = "joining"
    OBVIOUS
<1>3. /\ a \in Approval
      /\ o.approval \notin {"open", "elapsed", "expired"} => a = o.approval
      /\ o.approval = "open" => a = "deny"
      /\ o.approval \in {"elapsed", "expired"} => a = "gone"
    <2> HIDE DEF o
    <2>1. QED
        BY <1>1 DEF Denied, RunState, Approval, Answers
<1>4. Denied(o) = [o EXCEPT !.approval = a]
    <2> HIDE DEF o
    <2>1. QED
        BY <1>1 DEF Denied, RunState
<1>5. run' = [run EXCEPT ![r] = s]
    BY <1>4 DEF TypeOK
<1> HIDE DEF o, a
<1>6. s \in RunState
    BY <1>1, <1>3 DEF RunState, Supervisor
<1>7. Good(r, s)
    BY <1>1, <1>2, <1>3 DEF RunState, Answers, Good, StartGood, EndGood, ApprovalGood, SaidGood
<1>8. QED
    BY <1>5, <1>6, <1>7 DEF KeepsGood

\* The verdict takes the stream into account; then the run is filed once.
LEMMA ConcludeGood ==
    ASSUME TypeOK, AllGood, NEW r \in Runs, Conclude(r)
    PROVE  KeepsGood(r)
<1> DEFINE o == run[r]
           v == Reconciled(r)
           b == Active(r)
           f == Filed(o, v)
           s == [f EXCEPT !.sup = "marking", !.verdict = v, !.filed = b]
<1>1. o \in RunState /\ Good(r, o)
    BY DEF TypeOK, AllGood
<1>2. o.sup = "joining" /\ o.reader = "done" /\ o.child # "alive" /\ o.verdict # "none"
    BY <1>1 DEF Conclude, PipesHeld, Alive, Good, EndGood
<1>3. run' = [run EXCEPT ![r] = s]
    BY DEF Conclude, TypeOK
<1>4. /\ v \in Endings
      /\ v = "Completed" => o.observed # "Failed" /\ (r \in Codex => o.observed # "none")
    BY <1>1, <1>2 DEF Reconciled, RunState, Endings
<1>5. b \in BOOLEAN /\ (b <=> o.phase = "active")
    BY DEF Active
<1>6. /\ f \in RunState /\ SameWork(f, o)
      /\ f.phase = IF o.phase = "active" THEN v ELSE o.phase
    BY <1>1, <1>4, FiledShape
<1> HIDE DEF o, v, b, f
<1>7. s \in RunState
    BY <1>4, <1>5, <1>6 DEF RunState, Supervisor
<1>8. StartGood(s) /\ EndGood(r, s)
    BY <1>1, <1>2, <1>4, <1>5, <1>6 DEF RunState, SameWork, Good, StartGood, EndGood, Endings
<1>9. ApprovalGood(s) /\ SaidGood(s)
    BY <1>1, <1>2, <1>4, <1>5, <1>6
    DEF RunState, SameWork, Good, EndGood, ApprovalGood, SaidGood, Endings
<1>10. QED
    BY <1>3, <1>7, <1>8, <1>9 DEF KeepsGood, Good

\* What the supervisor announces is what it filed.
LEMMA SettleGood ==
    ASSUME TypeOK, AllGood, NEW r \in Runs, Settle(r)
    PROVE  KeepsGood(r)
<1> DEFINE o == run[r]
           t == IF o.filed THEN Told(o, "supervisor", o.verdict) ELSE o.told
           s == [o EXCEPT !.sup = "done", !.proc = "ended", !.told = t]
<1>1. o \in RunState /\ Good(r, o)
    BY DEF TypeOK, AllGood
<1>2. o.sup = "marking" /\ o.verdict \in Endings /\ o.told \in Seq(Announcement)
    BY <1>1 DEF Settle, RunState, Good, EndGood
<1>3. run' = [run EXCEPT ![r] = s]
    BY DEF Settle, TypeOK
<1>4. CASE o.filed
    <2>1. Said(o.told) = {} /\ o.phase = o.verdict
        BY <1>1, <1>2, <1>4 DEF Good, SaidGood
    <2>2. t = Told(o, "supervisor", o.verdict)
        BY <1>4
    <2> HIDE DEF o, t
    <2>3. /\ t \in Seq(Announcement)
          /\ \A i \in Said(t) : i = Len(o.told) + 1 /\ t[i].phase = o.verdict
        BY <1>2, <2>1, <2>2, ToldFirst
    <2>4. s \in RunState
        BY <1>1, <2>3 DEF RunState, Supervisor
    <2>5. StartGood(s) /\ EndGood(r, s) /\ ApprovalGood(s)
        BY <1>1, <1>2 DEF RunState, Good, StartGood, EndGood, ApprovalGood
    <2>6. SaidGood(s)
        BY <1>1, <1>2, <2>1, <2>3 DEF RunState, Good, EndGood, SaidGood, Endings
    <2>7. QED
        BY <1>3, <2>4, <2>5, <2>6 DEF KeepsGood, Good
<1>5. CASE ~o.filed
    <2>1. t = o.told
        BY <1>5
    <2> HIDE DEF o, t
    <2>2. s \in RunState
        BY <1>1, <1>2, <2>1 DEF RunState, Supervisor
    <2>3. Good(r, s)
        BY <1>1, <1>2, <1>5, <2>1 DEF RunState, Good, StartGood, EndGood, ApprovalGood, SaidGood
    <2>4. QED
        BY <1>3, <2>2, <2>3 DEF KeepsGood
<1>6. QED
    BY <1>4, <1>5

\* An abort files and announces a run that is active, and nothing otherwise.
LEMMA RecordAbortGood ==
    ASSUME TypeOK, AllGood, NEW c \in Callers, NEW r \in Runs, RecordAbort(c, r)
    PROVE  KeepsGood(r)
<1> DEFINE o == run[r]
           f == Filed(o, "Aborted")
           said == Active(r) /\ caller[c].loud
           t == IF said THEN Told(o, "abort", "Aborted") ELSE o.told
           s == [f EXCEPT !.told = t]
<1>1. o \in RunState /\ Good(r, o)
    BY DEF TypeOK, AllGood
<1>2. run' = [run EXCEPT ![r] = s]
    BY DEF RecordAbort, TypeOK
<1>3. /\ f \in RunState /\ SameWork(f, o)
      /\ f.phase = IF o.phase = "active" THEN "Aborted" ELSE o.phase
    BY <1>1, FiledShape DEF Endings
<1>4. o.told \in Seq(Announcement)
    BY <1>1 DEF RunState
<1>5. CASE said
    <2>1. o.phase = "active" /\ Said(o.told) = {}
        BY <1>1, <1>5 DEF Active, Good, SaidGood
    <2>2. t = Told(o, "abort", "Aborted")
        BY <1>5
    <2> HIDE DEF o, f, t
    <2>3. /\ t \in Seq(Announcement)
          /\ \A i \in Said(t) : i = Len(o.told) + 1 /\ t[i].phase = "Aborted"
        BY <1>4, <2>1, <2>2, ToldFirst DEF Endings
    <2>4. s \in RunState
        BY <1>3, <2>3 DEF RunState
    <2>5. StartGood(s) /\ EndGood(r, s) /\ ApprovalGood(s)
        BY <1>1, <1>3, <2>1 DEF RunState, SameWork, Good, StartGood, EndGood, ApprovalGood
    <2>6. SaidGood(s)
        BY <1>1, <1>3, <2>1, <2>3 DEF RunState, SameWork, Good, EndGood, SaidGood, Endings
    <2>7. QED
        BY <1>2, <2>4, <2>5, <2>6 DEF KeepsGood, Good
<1>6. CASE ~said
    <2>1. t = o.told
        BY <1>6
    <2> HIDE DEF o, f, t
    <2>2. s \in RunState
        BY <1>3, <1>4, <2>1 DEF RunState
    <2>3. Good(r, s)
        BY <1>1, <1>3, <2>1 DEF RunState, SameWork, Good, StartGood, EndGood, ApprovalGood, SaidGood
    <2>4. QED
        BY <1>2, <2>2, <2>3 DEF KeepsGood
<1>7. QED
    BY <1>5, <1>6

\* Taking the senders changes the abort channels and nothing else.
LEMMA TakeAbortsGood ==
    ASSUME TypeOK, AllGood, NEW c \in Callers, NEW todo \in SUBSET Runs,
           NEW loud \in BOOLEAN, TakeAborts(c, todo, loud)
    PROVE  run' \in [Runs -> RunState] /\ AllGood'
<1> DEFINE fired(o) == [o EXCEPT !.abort = "fired"]
<1>1. \A o \in RunState, r \in Runs : Good(r, o) =>
            fired(o) \in RunState /\ Good(r, fired(o))
    BY DEF RunState, Good, StartGood, EndGood, ApprovalGood, SaidGood
<1>2. PICK hits \in SUBSET Runs :
        run' = [r \in Runs |-> IF r \in hits /\ run[r].abort = "held"
                               THEN fired(run[r]) ELSE run[r]]
    <2>1. {r \in todo : Active(r)} \in SUBSET Runs
        OBVIOUS
    <2>2. QED
        BY <2>1 DEF TakeAborts
<1> HIDE DEF fired
<1>3. ASSUME NEW r \in Runs PROVE run'[r] \in RunState /\ Good(r, run'[r])
    BY <1>1, <1>2 DEF TypeOK, AllGood
<1>4. QED
    BY <1>2, <1>3 DEF AllGood

-----------------------------------------------------------------------------
(* Every step.                                                               *)

\* A step that changes one run, and keeps that one good, keeps all good.
LEMMA KeepsAllGood ==
    ASSUME TypeOK, AllGood, NEW r \in Runs, KeepsGood(r)
    PROVE  run' \in [Runs -> RunState] /\ AllGood'
<1>1. PICK s \in RunState : Good(r, s) /\ run' = [run EXCEPT ![r] = s]
    BY DEF KeepsGood
<1>2. QED
    BY <1>1 DEF TypeOK, AllGood

\* Steps of the start call keep the run good.
LEMMA StartsGood ==
    ASSUME TypeOK, AllGood, NEW r \in Runs, Starts(r)
    PROVE  KeepsGood(r)
<1>1. CASE SetupFails(r)
    BY <1>1, StartGivesUpGood DEF SetupFails
<1>2. CASE AttachRefused(r)
    BY <1>2, StartGivesUpGood DEF AttachRefused
<1>3. QED
    BY <1>1, <1>2, RegisterGood, PrepareFailsGood, SpawnFailsGood, SpawnGood,
       SetupWrittenGood, AttachGood DEF Starts

\* So do the process and its descendant.
LEMMA ProcessGood ==
    ASSUME TypeOK, AllGood, NEW r \in Runs, Process(r)
    PROVE  KeepsGood(r)
BY ChildExitsGood, ForksGood, ClosesStdoutGood, HeirEndsGood DEF Process

\* So does the supervisor.
LEMMA SupervisesGood ==
    ASSUME TypeOK, AllGood, NEW r \in Runs, Supervises(r) \/ SelectTimeout(r)
    PROVE  KeepsGood(r)
<1>1. CASE SelectExit(r)
    BY <1>1, DecideGood DEF SelectExit, ExitEnding, Endings
<1>2. CASE SelectStream(r)
    <2>1. run[r].observed \in Endings
        BY <1>2 DEF SelectStream, TypeOK, RunState
    <2>2. QED
        BY <1>2, <2>1, DecideGood, MovesOnGood DEF SelectStream
<1>3. CASE GraceEnds(r)
    BY <1>3, DecideGood DEF GraceEnds, Endings
<1>4. CASE SelectStreamClosed(r)
    BY <1>4, MovesOnGood DEF SelectStreamClosed
<1>5. CASE SelectAbort(r)
    BY <1>5, MovesOnGood DEF SelectAbort
<1>6. CASE AbortDenies(r)
    BY <1>6, DenialGood DEF AbortDenies
<1>7. CASE AbortKillsChild(r)
    BY <1>7, DecideGood DEF AbortKillsChild, Endings
<1>8. CASE EndDenies(r)
    BY <1>8, DenialGood DEF EndDenies
<1>9. CASE SelectTimeout(r)
    BY <1>9, DecideGood DEF SelectTimeout, Endings
<1>10. QED
    BY <1>1, <1>2, <1>3, <1>4, <1>5, <1>6, <1>7, <1>8, <1>9,
       ConcludeGood, SettleGood DEF Supervises

-----------------------------------------------------------------------------
(* The file of conversation ids.                                             *)

\* What the holder of store_lock is about to write is behind the registry only
\* if another reader still has to write.
FileGood ==
    /\ storeLock # NoRun =>
        /\ run[storeLock].reader = "saving"
        /\ snap # conv => \E r \in Runs \ {storeLock} : run[r].reader = "saving"
    /\ FileFresh

IInv == TypeOK /\ AllGood /\ FileGood

Store == <<conv, file, storeLock, snap, unwritten>>

\* Run r, and no other, may have changed, and it is saving iff it was.
SavesOn(r) ==
    /\ \A x \in Runs \ {r} : run'[x] = run[x]
    /\ run'[r].reader = "saving" <=> run[r].reader = "saving"

\* These steps neither begin nor end a save.
LEMMA StartsSaveOn ==
    ASSUME TypeOK, AllGood, NEW r \in Runs, Starts(r)
    PROVE  UNCHANGED Store /\ SavesOn(r)
<1> USE DEF Well, Fails, Others, Store, SavesOn
<1> DEFINE f == Filed(run[r], "Failed")
           t == Told(run[r], "start", "Failed")
           m == [f EXCEPT !.start = "failed", !.child = Dead(run[r])]
<1>1. f \in RunState /\ f.reader = run[r].reader
    BY FiledShape DEF TypeOK, SameWork, Endings
<1>2. ASSUME NEW s, run' = [run EXCEPT ![r] = s], s.reader = run[r].reader
      PROVE  SavesOn(r)
    BY <1>2 DEF TypeOK
<1>3. CASE SpawnFails(r)
    <2>1. run' = [run EXCEPT ![r] = [f EXCEPT !.start = "failed", !.told = t]]
        BY <1>3 DEF SpawnFails
    <2> HIDE DEF f, t
    <2>2. [f EXCEPT !.start = "failed", !.told = t].reader = f.reader
        BY <1>1 DEF RunState
    <2>3. QED
        BY <1>1, <1>2, <1>3, <2>1, <2>2 DEF SpawnFails
<1>4. CASE SetupFails(r) \/ AttachRefused(r)
    <2>1. run' = [run EXCEPT ![r] = [m EXCEPT !.proc = "ended", !.told = t]]
        BY <1>4 DEF SetupFails, AttachRefused, StartGivesUp
    <2>2. [m EXCEPT !.proc = "ended", !.told = t].reader = f.reader
        <3> HIDE DEF f, t
        <3>1. QED
            BY <1>1 DEF RunState
    <2> HIDE DEF m, f, t
    <2>3. QED
        BY <1>1, <1>2, <1>4, <2>1, <2>2 DEF SetupFails, AttachRefused
<1>5. CASE Attach(r)
    BY <1>5 DEF Attach, TypeOK, RunState, AllGood, Good, StartGood
<1>6. CASE Register(r) \/ PrepareFails(r) \/ Spawn(r) \/ SetupWritten(r)
    BY <1>6 DEF Register, PrepareFails, Spawn, SetupWritten, TypeOK, RunState
<1>7. QED
    BY <1>3, <1>4, <1>5, <1>6 DEF Starts

\* What the child does leaves its reader's saving alone.
LEMMA ProcessSavesOn ==
    ASSUME TypeOK, NEW r \in Runs, Process(r)
    PROVE  UNCHANGED Store /\ SavesOn(r)
BY DEF Process, ChildExits, Forks, ClosesStdout, HeirEnds, Well, Fails, Others, Store,
       SavesOn, TypeOK, RunState

\* Approvals leave the reader's saving alone.
LEMMA ApprovesSavesOn ==
    ASSUME TypeOK, AllGood, NEW r \in Runs, Approves(r)
    PROVE  UNCHANGED Store /\ SavesOn(r)
<1> USE DEF Well, Others, Store, SavesOn, TypeOK, RunState
<1>1. CASE ReadApproval(r)
    BY <1>1 DEF ReadApproval, CanRead, Counted
<1>2. ASSUME NEW answer \in Answers, OperatorAnswers(r, answer)
      PROVE  UNCHANGED Store /\ SavesOn(r)
    BY <1>2 DEF OperatorAnswers
<1>3. CASE \/ ApprovalExpires(r) \/ ReceiverDropped(r) \/ ForgetApproval(r)
           \/ TakeAnswer(r) \/ WriteAnswer(r)
    BY <1>3 DEF ApprovalExpires, ReceiverDropped, ForgetApproval, TakeAnswer, WriteAnswer
<1>4. CASE WriteAnswerFails(r)
    BY <1>4 DEF WriteAnswerFails
<1>5. QED
    BY <1>1, <1>2, <1>3, <1>4 DEF Approves

\* The supervisor leaves the reader's saving alone.
LEMMA SupervisesSavesOn ==
    ASSUME TypeOK, AllGood, NEW r \in Runs, Supervises(r) \/ SelectTimeout(r)
    PROVE  UNCHANGED Store /\ SavesOn(r)
<1> USE DEF Well, Fails, Others, Store, SavesOn
<1>1. CASE \E ending : Decide(r, ending) /\ UNCHANGED Store
    <2>1. PICK ending : run' = [run EXCEPT ![r] = [run[r] EXCEPT
                !.verdict = ending, !.child = Dead(run[r]), !.sup = "denying"]]
        BY <1>1 DEF Decide
    <2> DEFINE c == Dead(run[r])
    <2> HIDE DEF c
    <2>2. run'[r] = [run[r] EXCEPT !.verdict = ending, !.child = c, !.sup = "denying"]
        BY <2>1 DEF TypeOK, c
    <2>3. run'[r].reader = run[r].reader
        BY <2>2 DEF TypeOK, RunState
    <2>4. QED
        BY <1>1, <2>1, <2>3 DEF TypeOK
<1>2. CASE \/ SelectStreamClosed(r) \/ SelectAbort(r)
           \/ SelectStream(r) /\ run[r].observed = "Completed"
    BY <1>2 DEF SelectStreamClosed, SelectAbort, SelectStream, TypeOK, RunState
<1>3. CASE AbortDenies(r) \/ EndDenies(r)
    <2> DEFINE d == Denied(run[r])
    <2>1. d.reader = run[r].reader /\ \E a : d = [run[r] EXCEPT !.approval = a]
        BY DEF Denied, TypeOK, RunState
    <2>2. PICK place : run' = [run EXCEPT ![r] = [d EXCEPT !.sup = place]]
        BY <1>3 DEF AbortDenies, EndDenies
    <2> HIDE DEF d
    <2>3. [d EXCEPT !.sup = place].reader = d.reader
        BY <2>1 DEF TypeOK, RunState
    <2>4. QED
        BY <1>3, <2>1, <2>2, <2>3 DEF AbortDenies, EndDenies, TypeOK
<1>4. CASE Conclude(r)
    <2> DEFINE f == Filed(run[r], Reconciled(r))
    <2>1. Reconciled(r) \in Endings
        BY <1>4 DEF Conclude, Reconciled, TypeOK, AllGood, Good, EndGood, RunState, Endings
    <2>2. f \in RunState /\ f.reader = run[r].reader
        BY <2>1, FiledShape DEF TypeOK, SameWork
    <2>3. run' = [run EXCEPT ![r] = [f EXCEPT !.sup = "marking",
                        !.verdict = Reconciled(r), !.filed = Active(r)]]
        BY <1>4 DEF Conclude
    <2> HIDE DEF f
    <2>4. [f EXCEPT !.sup = "marking", !.verdict = Reconciled(r),
                    !.filed = Active(r)].reader = f.reader
        BY <2>2 DEF RunState
    <2>5. QED
        BY <1>4, <2>2, <2>3, <2>4 DEF Conclude, TypeOK
<1>5. CASE Settle(r)
    BY <1>5 DEF Settle, TypeOK, RunState
<1>6. QED
    BY <1>1, <1>2, <1>3, <1>4, <1>5
    DEF Supervises, SelectTimeout, SelectExit, SelectStream, GraceEnds, AbortKillsChild

\* Such a step keeps what is known of the file.
LEMMA SavesOnKeepsFile ==
    ASSUME IInv, NEW r \in Runs, UNCHANGED Store, SavesOn(r)
    PROVE  FileGood'
BY RunsAssumption DEF IInv, FileGood, FileFresh, Store, SavesOn, TypeOK

\* A new conversation id makes its reader save.
LEMMA ReadConversationFile ==
    ASSUME IInv, NEW r \in Runs, ReadConversation(r)
    PROVE  FileGood'
<1>1. run[r].reader = "reading" /\ run \in [Runs -> RunState]
    BY DEF ReadConversation, CanRead, IInv, TypeOK
<1>2. \A x \in Runs \ {r} : run'[x] = run[x]
    BY <1>1 DEF ReadConversation
<1>3. UNCHANGED <<file, storeLock, snap, unwritten>>
    BY DEF ReadConversation
<1>4. CASE Active(r)
    <2>1. run'[r].reader = "saving"
        BY <1>1, <1>4 DEF ReadConversation, Counted, RunState
    <2>2. QED
        BY <1>1, <1>2, <1>3, <2>1, RunsAssumption DEF IInv, FileGood, FileFresh, TypeOK
<1>5. CASE ~Active(r)
    <2>1. run'[r].reader = run[r].reader /\ conv' = conv
        BY <1>1, <1>5 DEF ReadConversation, Counted, RunState
    <2>2. QED
        BY <1>2, <1>3, <2>1, SavesOnKeepsFile DEF SavesOn, Store
<1>6. QED
    BY <1>4, <1>5

\* A snapshot is what the registry holds now.
LEMMA TakeSnapshotFile ==
    ASSUME IInv, NEW r \in Runs, TakeSnapshot(r)
    PROVE  FileGood'
BY RunsAssumption DEF IInv, FileGood, FileFresh, TypeOK, TakeSnapshot

\* A write that is behind the registry leaves another reader saving.
LEMMA WriteStoreFile ==
    ASSUME IInv, NEW r \in Runs, WriteStore(r)
    PROVE  FileGood'
<1>1. run'[r].reader = "reading" /\ \A x \in Runs \ {r} : run'[x] = run[x]
    BY DEF WriteStore, IInv, TypeOK, RunState
<1>2. QED
    BY <1>1, RunsAssumption DEF IInv, FileGood, FileFresh, TypeOK, WriteStore

\* What ends a reader that is not saving leaves the file alone.
LEMMA ReaderEndsSaveOn ==
    ASSUME TypeOK, NEW r \in Runs,
           ReadFails(r) \/ ReadEof(r) \/ \E ending \in Endings : ReadTerminal(r, ending)
    PROVE  UNCHANGED Store /\ SavesOn(r)
<1> USE DEF Well, Fails, Others, Store, SavesOn, TypeOK, RunState
<1>1. CASE ReadFails(r)
    BY <1>1 DEF ReadFails
<1>2. CASE ReadEof(r)
    BY <1>2 DEF ReadEof
<1>3. ASSUME NEW ending \in Endings, ReadTerminal(r, ending)
      PROVE  UNCHANGED Store /\ SavesOn(r)
    <2> DEFINE n == run[r].lines - 1
               e == Observed(run[r], ending)
    <2>1. run' = [run EXCEPT ![r] = [@ EXCEPT !.lines = n, !.observed = e, !.reader = "done"]]
        BY <1>3 DEF ReadTerminal, Counted
    <2> HIDE DEF n, e
    <2>2. run'[r] = [run[r] EXCEPT !.lines = n, !.observed = e, !.reader = "done"]
        BY <2>1
    <2>3. run'[r].reader = "done" /\ run[r].reader = "reading"
        <3>1. run[r].reader = "reading"
            BY <1>3 DEF ReadTerminal, CanRead
        <3>2. run[r] \in RunState
            OBVIOUS
        <3>3. QED
            BY <2>2, <3>1, <3>2
    <2>4. \A x \in Runs \ {r} : run'[x] = run[x]
        BY <2>1
    <2>5. QED
        BY <1>3, <2>3, <2>4 DEF ReadTerminal
<1>4. QED
    BY <1>1, <1>2, <1>3

\* Nor does an abort.
LEMMA AbortsKeepFile ==
    ASSUME IInv, NEW c \in Callers, Aborts(c)
    PROVE  FileGood'
<1>1. UNCHANGED Store
    BY DEF Aborts, TakeAborts, RecordAbort, Store
<1>2. \A x \in Runs : run'[x].reader = run[x].reader
    <2>1. ASSUME NEW todo, NEW loud, TakeAborts(c, todo, loud)
          PROVE  \A x \in Runs : run'[x].reader = run[x].reader
        <3>1. \A o \in RunState : [o EXCEPT !.abort = "fired"].reader = o.reader
            BY DEF RunState
        <3>2. ASSUME NEW x \in Runs PROVE run'[x].reader = run[x].reader
            BY <2>1, <3>1 DEF TakeAborts, IInv, TypeOK
        <3>3. QED
            BY <3>2
    <2>2. ASSUME NEW r \in Runs, RecordAbort(c, r)
          PROVE  \A x \in Runs : run'[x].reader = run[x].reader
        <3> DEFINE f == Filed(run[r], "Aborted")
                   t == IF Active(r) /\ caller[c].loud
                        THEN Told(run[r], "abort", "Aborted") ELSE run[r].told
        <3>1. f \in RunState /\ f.reader = run[r].reader
            BY FiledShape DEF IInv, TypeOK, SameWork, Endings
        <3>2. run' = [run EXCEPT ![r] = [f EXCEPT !.told = t]]
            BY <2>2 DEF RecordAbort
        <3> HIDE DEF f, t
        <3>3. [f EXCEPT !.told = t].reader = f.reader
            BY <3>1 DEF RunState
        <3>4. QED
            BY <3>1, <3>2, <3>3 DEF IInv, TypeOK
    <2>3. QED
        BY <2>1, <2>2 DEF Aborts
<1>3. QED
    BY <1>1, <1>2, RunsAssumption DEF IInv, FileGood, FileFresh, Store, TypeOK

-----------------------------------------------------------------------------
(* The rest of the state.                                                    *)

RestOK ==
    /\ caller \in [Callers -> CallerState]
    /\ conv \in Stored /\ file \in Stored /\ snap \in Stored
    /\ storeLock \in Runs \cup {NoRun}
    /\ unwritten \in BOOLEAN
    /\ trouble \in 0 .. MaxTrouble

\* A step of a run keeps the types of what is not the run's.
LEMMA RunStepRest ==
    ASSUME TypeOK, NEW r \in Runs,
           Starts(r) \/ Process(r) \/ Reads(r) \/ Approves(r) \/ Supervises(r)
                     \/ SelectTimeout(r)
    PROVE  RestOK'
<1>1. \/ UNCHANGED Others /\ (Trouble \/ UNCHANGED trouble)
      \/ ReadConversation(r) \/ TakeSnapshot(r) \/ WriteStore(r)
    BY DEF Starts, Process, Reads, Approves, Supervises, SelectTimeout, Well, Fails,
       Register, PrepareFails, SpawnFails, Spawn, SetupWritten, SetupFails, Attach,
       AttachRefused, ChildExits, Forks, ClosesStdout, HeirEnds, ReadTerminal, ReadFails,
       ReadEof, ReadApproval, OperatorAnswers, ApprovalExpires, ReceiverDropped, ForgetApproval, TakeAnswer,
       WriteAnswer, WriteAnswerFails, SelectExit, SelectStream, GraceEnds,
       SelectStreamClosed, SelectAbort, AbortDenies, AbortKillsChild, EndDenies, Conclude,
       Settle
<1>2. CASE UNCHANGED Others /\ (Trouble \/ UNCHANGED trouble)
    BY <1>2, BoundsAssumption DEF Others, Trouble, TypeOK, RestOK
<1>3. CASE ReadConversation(r)
    BY <1>3, KeysAssumption DEF ReadConversation, TypeOK, RestOK, Stored
<1>4. CASE TakeSnapshot(r)
    BY <1>4 DEF TakeSnapshot, TypeOK, RestOK
<1>5. CASE WriteStore(r)
    <2>1. trouble' \in 0 .. MaxTrouble
        BY <1>5, BoundsAssumption DEF WriteStore, Trouble, TypeOK
    <2>2. file' \in Stored /\ snap' \in Stored /\ unwritten' \in BOOLEAN
        BY <1>5 DEF WriteStore, TypeOK, Stored
    <2>3. QED
        BY <1>5, <2>1, <2>2 DEF WriteStore, TypeOK, RestOK
<1>6. QED
    BY <1>1, <1>2, <1>3, <1>4, <1>5, SMTT(40)

\* An abort changes its caller only.
LEMMA AbortsRest ==
    ASSUME TypeOK, NEW c \in Callers, Aborts(c)
    PROVE  RestOK'
<1> USE DEF TypeOK, RestOK, CallerState
<1>1. ASSUME NEW todo \in SUBSET Runs, NEW loud \in BOOLEAN, TakeAborts(c, todo, loud)
      PROVE  RestOK'
    <2> DEFINE hits == {r \in todo : Active(r)}
    <2>1. hits \in SUBSET Runs
        OBVIOUS
    <2>2. caller' = [caller EXCEPT ![c] = [at |-> "recording", todo |-> hits, loud |-> loud]]
        BY <1>1 DEF TakeAborts
    <2>3. UNCHANGED <<conv, file, storeLock, snap, unwritten, trouble>>
        BY <1>1 DEF TakeAborts
    <2> HIDE DEF hits
    <2>4. QED
        BY <2>1, <2>2, <2>3
<1>2. ASSUME NEW r \in Runs, RecordAbort(c, r)
      PROVE  RestOK'
    <2>1. caller[c].todo \ {r} \in SUBSET Runs /\ Returned \in CallerState
        BY DEF Returned
    <2>2. UNCHANGED <<conv, file, storeLock, snap, unwritten, trouble>>
        BY <1>2 DEF RecordAbort
    <2> DEFINE rest == caller[c].todo \ {r}
    <2>3. \/ caller' = [caller EXCEPT ![c] = Returned]
          \/ caller' = [caller EXCEPT ![c] = [caller[c] EXCEPT !.todo = rest]]
        BY <1>2 DEF RecordAbort
    <2> HIDE DEF rest
    <2>4. [caller[c] EXCEPT !.todo = rest] \in CallerState
        BY <2>1 DEF rest
    <2>5. caller' \in [Callers -> CallerState]
        BY <2>1, <2>3, <2>4
    <2>6. QED
        BY <2>2, <2>5
<1>3. QED
    BY <1>1, <1>2 DEF Aborts

-----------------------------------------------------------------------------
(* The theorems.                                                             *)

\* It holds before the first start.
LEMMA InitInv == Init => IInv
<1> SUFFICES ASSUME Init PROVE IInv
    OBVIOUS
<1>1. ASSUME NEW m \in Modes, NEW start \in {"idle", "absent"}
      PROVE  FreshRun(start, m) \in RunState
    BY BoundsAssumption, EmptySeq
    DEF FreshRun, RunState, Start, Child, Reader, Approval, Supervisor
<1>2. ASSUME NEW m \in Modes, NEW start \in {"idle", "absent"}, NEW r \in Runs
      PROVE  Good(r, FreshRun(start, m))
    BY DEF FreshRun, Good, StartGood, EndGood, ApprovalGood, SaidGood, Said
<1>3. run \in [Runs -> RunState] /\ AllGood
    BY <1>1, <1>2 DEF Init, AllGood
<1>4. caller \in [Callers -> CallerState]
    <2>1. Returned \in CallerState /\ [Returned EXCEPT !.at = "idle"] \in CallerState
        BY DEF Returned, CallerState
    <2>2. QED
        BY <2>1 DEF Init
<1>5. trouble \in 0 .. MaxTrouble
    <2> DEFINE idle == {r \in Runs : run[r].start = "idle"}
               cast == idle \cup {c \in Callers : caller[c].at = "idle"}
    <2>1. cast \in Casts /\ trouble = Cardinality(idle)
        BY DEF Init
    <2>2. cast \cap Runs = idle
        BY CastsAssumption
    <2> HIDE DEF cast, idle
    <2>3. QED
        BY <2>1, <2>2, CastsAssumption
<1>6. QED
    BY <1>3, <1>4, <1>5, RunsAssumption DEF Init, IInv, TypeOK, FileGood, FileFresh, Stored

\* Every step keeps the invariant.
LEMMA StepInv == IInv /\ [Next]_vars => IInv'
<1> SUFFICES ASSUME IInv, [Next]_vars PROVE IInv'
    OBVIOUS
<1>1. TypeOK /\ AllGood
    BY DEF IInv
<1>2. RestOK' /\ run' \in [Runs -> RunState] => TypeOK'
    BY DEF RestOK, TypeOK
<1>3. ASSUME NEW r \in Runs,
             Starts(r) \/ Process(r) \/ Approves(r) \/ Supervises(r) \/ SelectTimeout(r)
      PROVE  IInv'
    <2>1. KeepsGood(r)
        BY <1>1, <1>3, StartsGood, ProcessGood, SupervisesGood, ReadApprovalGood,
           OperatorAnswersGood, ApprovalExpiresGood, ReceiverDroppedGood, ForgetApprovalGood, TakeAnswerGood,
           WriteAnswerGood, WriteAnswerFailsGood DEF Approves
    <2>2. UNCHANGED Store /\ SavesOn(r)
        BY <1>1, <1>3, StartsSaveOn, ProcessSavesOn, ApprovesSavesOn, SupervisesSavesOn
    <2>3. QED
        BY <1>1, <1>2, <1>3, <2>1, <2>2, KeepsAllGood, SavesOnKeepsFile, RunStepRest DEF IInv
<1>4. ASSUME NEW r \in Runs, Reads(r)
      PROVE  IInv'
    <2>1. RestOK'
        BY <1>1, <1>4, RunStepRest
    <2>2. CASE ReadConversation(r)
        BY <1>1, <1>2, <2>1, <2>2, KeepsAllGood, ReadConversationGood, ReadConversationFile
        DEF IInv
    <2>3. CASE TakeSnapshot(r)
        BY <1>1, <1>2, <2>1, <2>3, TakeSnapshotFile DEF IInv, TakeSnapshot, TypeOK, AllGood
    <2>4. CASE WriteStore(r)
        <3>1. run[r].reader = "saving"
            BY <2>4, RunsAssumption DEF WriteStore, IInv, FileGood
        <3>2. QED
            BY <1>1, <1>2, <2>1, <2>4, <3>1, KeepsAllGood, WriteStoreGood, WriteStoreFile
            DEF IInv
    <2>5. CASE ReadFails(r) \/ ReadEof(r) \/ \E ending \in Endings : ReadTerminal(r, ending)
        <3>1. KeepsGood(r)
            BY <1>1, <2>5, ReadFailsGood, ReadEofGood, ReadTerminalGood
        <3>2. QED
            BY <1>1, <1>2, <2>1, <2>5, <3>1, KeepsAllGood, ReaderEndsSaveOn,
               SavesOnKeepsFile DEF IInv
    <2>6. QED
        BY <1>4, <2>2, <2>3, <2>4, <2>5 DEF Reads
<1>5. ASSUME NEW c \in Callers, Aborts(c)
      PROVE  IInv'
    <2>1. run' \in [Runs -> RunState] /\ AllGood'
        <3>1. ASSUME NEW todo \in SUBSET Runs, NEW loud \in BOOLEAN, TakeAborts(c, todo, loud)
              PROVE  run' \in [Runs -> RunState] /\ AllGood'
            BY <1>1, <3>1, TakeAbortsGood
        <3>2. ASSUME NEW r \in Runs, RecordAbort(c, r)
              PROVE  run' \in [Runs -> RunState] /\ AllGood'
            BY <1>1, <3>2, RecordAbortGood, KeepsAllGood
        <3>3. QED
            BY <1>5, <3>1, <3>2 DEF Aborts
    <2>2. QED
        BY <1>1, <1>2, <1>5, <2>1, AbortsRest, AbortsKeepFile DEF IInv
<1>6. CASE UNCHANGED vars
    BY <1>6 DEF IInv, TypeOK, AllGood, FileGood, FileFresh, vars
<1>7. QED
    BY <1>3, <1>4, <1>5, <1>6 DEF Next

\* Every state a tab can be in satisfies the invariant.
THEOREM InvHolds == Spec => []IInv
BY InitInv, StepInv, PTL DEF Spec

\* The registry, the tasks' places and the file keep their types.
THEOREM TypeCorrect == Spec => []TypeOK
<1>1. IInv => TypeOK
    BY DEF IInv
<1>2. QED
    BY <1>1, InvHolds, PTL

\* A run that the supervisor has finished, or whose start call gave up, leaves
\* no process, reader, approval or store lock behind.
THEOREM SettledRunsAreQuiet == Spec => []SettledIsQuiet
<1>1. IInv => SettledIsQuiet
    <2> SUFFICES ASSUME IInv, NEW r \in Runs,
                        run[r].sup = "done" \/ run[r].start = "failed"
                 PROVE  /\ ~Alive(r) /\ ~Active(r)
                        /\ run[r].reader \in {"none", "done"}
                        /\ run[r].approval = "none"
                        /\ run[r].proc # "running"
                        /\ storeLock # r
        BY DEF SettledIsQuiet
    <2>1. Good(r, run[r]) /\ FileGood
        BY DEF IInv, AllGood
    <2>2. run[r].reader \in {"none", "done"}
        BY <2>1 DEF Good, StartGood, EndGood
    <2>3. QED
        BY <2>1, <2>2, RunsAssumption
        DEF Good, StartGood, EndGood, ApprovalGood, FileGood, Alive, Active
<1>2. QED
    BY <1>1, InvHolds, PTL

\* A run is filed as completed only with its process gone and no failure seen.
THEOREM VerdictsAreHonest == Spec => []VerdictHonest
<1>1. IInv => VerdictHonest
    BY DEF IInv, AllGood, Good, EndGood, VerdictHonest, Alive
<1>2. QED
    BY <1>1, InvHolds, PTL

\* At most one ending is announced by supervisor and aborts, the filed one.
THEOREM AnnouncementsAgree == Spec => []AnnouncedAsFiled
<1>1. IInv => AnnouncedAsFiled
    BY DEF IInv, AllGood, Good, SaidGood, Said, AnnouncedAsFiled
<1>2. QED
    BY <1>1, InvHolds, PTL

\* No answer reaches the provider that the mode or the operator did not give.
THEOREM ApprovalsAreAuthorized == Spec => []ApprovalAuthorized
<1>1. IInv => ApprovalAuthorized
    BY DEF IInv, AllGood, Good, ApprovalGood, ApprovalAuthorized
<1>2. QED
    BY <1>1, InvHolds, PTL

\* With no save under way the file holds what the registry holds.
THEOREM FileIsFresh == Spec => []FileFresh
<1>1. IInv => FileFresh
    BY DEF IInv, FileGood
<1>2. QED
    BY <1>1, InvHolds, PTL

================================================================================
