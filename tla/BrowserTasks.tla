---------------------------- MODULE BrowserTasks ----------------------------
(***************************************************************************)
(* The ShellX Browser registry (shellx_browser*.rs): tasks of agents and    *)
(* the tabs they own, the active tab, tab leases, hand-over of tabs between *)
(* user and agent, page prompts, the rollback of a failed task start and    *)
(* the action requests that await the engine between their checks and       *)
(* their results. The registry is one value behind one mutex: an operation  *)
(* is one step; what releases the lock in between is several.               *)
(* Profiles, URLs, the engine pool and its queue are abstracted.            *)
(***************************************************************************)
EXTENDS Naturals, FiniteSets

CONSTANTS
    Tasks,      \* task ids
    Tabs,       \* tab ids, each opened at most once
    Agents,     \* who holds leases and sends requests
    Reqs,       \* action requests
    Prompts,    \* dialogs, permissions and session grants
    NoTask, NoTab, Nobody,
    Scenes,     \* bound: the groups of operations that take part together
    MaxCalls    \* bound: operations called in a behaviour, for each scene

ASSUME AbsentAssumption == NoTask \notin Tasks /\ NoTab \notin Tabs /\ Nobody \notin Agents
ASSUME MaxCallsAssumption == MaxCalls \in [Scenes -> Nat]

VARIABLES
    reg,        \* the registry (BrowserState)
    start,      \* per task: the call that starts it
    req,        \* per request: how far it is, what it names, the task whose
                \* record shows what the engine read for it (into)
    trust,      \* per tab: the agents that count on a lease they were given
    scene,      \* the groups that take part
    calls,      \* how much of MaxCalls has been used
    stranded,   \* history: tasks whose last tab the user took back
    loose       \* history: the active context was left wrong by a take-back
                \* or by the answer to a dialog

vars == <<reg, start, req, trust, scene, calls, stranded, loose>>

Endings == {"completed", "blocked", "aborted"}
Alive == {"running", "paused", "userTakeover"}
Kinds == {"dialog", "beforeunload", "permission", "grant"}
Groups == {"start", "lease", "handoff", "prompt", "request"}

TabState ==
    [at : {"new", "open", "closed"},
     task : Tasks \cup {NoTask},
     owner : {"User", "Agent", "DelegatedToAgent"},
     lease : Agents \cup {Nobody},
     expired : BOOLEAN]                   \* the lease's time is over

PromptState ==
    [kind : Kinds, task : Tasks \cup {NoTask}, tab : Tabs \cup {NoTab},
     at : {"none", "pending", "accepted", "granted", "closed"},
     late : BOOLEAN]                      \* recorded for a task that was not
                                          \* to keep prompts any more

Registry ==
    [status : [Tasks -> {"none", "pruned"} \cup Alive \cup Endings],
     tab : [Tabs -> TabState],
     activeTab : Tabs \cup {NoTab},
     activeTask : Tasks \cup {NoTask},
     prompt : [Prompts -> PromptState]]

StartState ==
    [at : {"idle", "asked", "syncing", "closing", "done", "stuck"},
     prev : Tabs \cup {NoTab}, left : SUBSET Tabs, focused : BOOLEAN]

Request ==
    [at : {"idle", "authorized", "queued", "acting", "recorded", "refused"},
     task : Tasks \cup {NoTask}, tab : Tabs \cup {NoTab},
     agent : Agents \cup {Nobody}, into : Tasks \cup {NoTask}]

NewTab == [at |-> "new", task |-> NoTask, owner |-> "User", lease |-> Nobody, expired |-> FALSE]
NoPrompt == [kind |-> "dialog", task |-> NoTask, tab |-> NoTab, at |-> "none", late |-> FALSE]
NoStart == [at |-> "idle", prev |-> NoTab, left |-> {}, focused |-> FALSE]
NoRequest == [at |-> "idle", task |-> NoTask, tab |-> NoTab, agent |-> Nobody, into |-> NoTask]

Init ==
    /\ reg = [status |-> [t \in Tasks |-> "none"], tab |-> [b \in Tabs |-> NewTab],
              activeTab |-> NoTab, activeTask |-> NoTask,
              prompt |-> [p \in Prompts |-> NoPrompt]]
    /\ start = [t \in Tasks |-> NoStart]
    /\ req = [q \in Reqs |-> NoRequest]
    /\ trust = [b \in Tabs |-> {}]
    /\ scene \in Scenes
    /\ calls = 0
    /\ stranded = {} /\ loose = FALSE

-----------------------------------------------------------------------------
(* Functions of the registry, as its handlers use them *)

Open(s) == {b \in Tabs : s.tab[b].at = "open"}
TabsOf(s, t) == {b \in Open(s) : s.tab[b].task = t}
Lives(s, t) == t \in Tasks /\ s.status[t] \in Alive
Known(s, t) == t \in Tasks /\ s.status[t] \in Alive \cup Endings

\* The task of tab b if it may be the active one.
ActiveTaskOf(s, b) ==
    IF b \in Open(s) /\ Lives(s, s.tab[b].task) THEN s.tab[b].task ELSE NoTask

\* set_active_tab, repair_active_task_id_locked
ActiveSet(s, b) == [s EXCEPT !.activeTab = b, !.activeTask = ActiveTaskOf(s, b)]
ActiveRepaired(s) == [s EXCEPT !.activeTask = ActiveTaskOf(s, s.activeTab)]

\* Mutant: a permission outlives its task.
ClosesNoPermission(kind, next) ==
    (next \in Endings /\ kind # "permission") \/ (kind = "grant" /\ next = "userTakeover")

\* Which pending prompts a task closes when its status becomes next.
Closes(kind, next) == next \in Endings \/ (kind = "grant" /\ next = "userTakeover")

\* transition_task_status_locked, for a task or for all orphans at once
Moved(s, ts, next) ==
    LET hit(p) == p.at = "pending" /\ p.task \in ts /\ Closes(p.kind, next)
    IN  ActiveRepaired(
            [s EXCEPT !.status = [t \in Tasks |-> IF t \in ts THEN next ELSE @[t]],
                      !.prompt = [p \in Prompts |->
                            IF hit(@[p]) THEN [@[p] EXCEPT !.at = "closed"] ELSE @[p]]])

\* Mutant: age alone decides.
PrunableByAge(s) == {t \in Tasks : s.status[t] \in Endings /\ reg.status[t] \in Endings}

\* Tasks that had ended before this call and own no tab.
Prunable(s) ==
    {t \in Tasks : s.status[t] \in Endings /\ reg.status[t] \in Endings /\ TabsOf(s, t) = {}}

\* prune_terminal_task_history_locked: by age and by number, so any of them.
Pruned(s) ==
    {[s EXCEPT !.status = [t \in Tasks |-> IF t \in old THEN "pruned" ELSE @[t]]] :
        old \in SUBSET Prunable(s)}

Orphans(s) == {t \in Tasks : Lives(s, t) /\ TabsOf(s, t) = {}}

\* repair_browser_task_invariants_locked
Repaired(s) == Pruned(Moved(s, Orphans(s), "aborted"))

\* tab_lock_denial_for_parts
LeaseDenies(s, b, a) == s.tab[b].lease \notin {Nobody, a} /\ ~s.tab[b].expired

Unleased(s, b) == [s EXCEPT !.tab[b].lease = Nobody, !.tab[b].expired = FALSE]

\* expire_tab_lock_if_needed: who looks at a lease that has run out drops it.
Looked(s, b) == IF s.tab[b].expired THEN Unleased(s, b) ELSE s

\* create_browser_tab
Opened(s, b, t) ==
    ActiveSet([s EXCEPT !.tab[b] = [NewTab EXCEPT !.at = "open", !.task = t,
                    !.owner = IF t = NoTask THEN "User" ELSE "Agent"]], b)

Removed(s, b) == [s EXCEPT !.tab[b] = [NewTab EXCEPT !.at = "closed"]]

\* Mutants: the closed tab's task goes on, and the focus stays where it was.
ClosedAlone(s, b) ==
    {IF s.activeTab = b THEN ActiveSet(Removed(s, b), f) ELSE Removed(s, b) :
        f \in IF Open(s) = {b} THEN {NoTab} ELSE Open(s) \ {b}}
ClosedInPlace(s, b) == Repaired(Removed(s, b))

\* close_tab, its lease check passed. The last tab takes its task along; the
\* focus goes to the first tab of a strip that may have been reordered. A task
\* that is not known any more ends the call in the middle.
Closed(s, b) ==
    LET t == s.tab[b].task
        gone == Removed(s, b)
        last == t # NoTask /\ TabsOf(gone, t) = {}
        left == IF last /\ Lives(s, t) THEN Moved(gone, {t}, "aborted") ELSE gone
        first == IF Open(gone) = {} THEN {NoTab} ELSE Open(gone)
    IN  IF last /\ ~Known(s, t) THEN {gone}
        ELSE IF s.activeTab # b THEN Repaired(left)
        ELSE UNION {Repaired(ActiveSet(left, f)) : f \in first}

\* The active tab is open, the active task is alive and owns a tab.
Fits(s) ==
    /\ s.activeTab \in Open(s) \cup {NoTab}
    /\ s.activeTask # NoTask => Lives(s, s.activeTask) /\ TabsOf(s, s.activeTask) # {}

-----------------------------------------------------------------------------
(* What a step counts and remembers *)

In(group) == group \in scene
Call == calls < MaxCalls[scene] /\ calls' = calls + 1
Inside == UNCHANGED calls

\* What was left wrong stays noted until it is right again.
Noted ==
    /\ stranded' = stranded \cap Orphans(reg')
    /\ loose' = (loose /\ ~Fits(reg'))

Registers == UNCHANGED <<start, req, trust, scene>> /\ Call /\ Noted
Elsewhere == UNCHANGED <<reg, scene, stranded, loose>>

-----------------------------------------------------------------------------
(* Starting a task: browser_task_start_http *)

\* registry.state() repairs, and names the tab that has the focus so far.
AskStart(t) ==
    /\ start[t].at = "idle"
    /\ reg' \in Repaired(reg)
    /\ start' = [start EXCEPT ![t] = [NoStart EXCEPT !.at = "asked", !.prev = reg'.activeTab]]
    /\ Call /\ Noted
    /\ UNCHANGED <<req, trust, scene>>

StartTask(t, b) ==
    /\ start[t].at = "asked"
    /\ reg.tab[b].at = "new"
    /\ \E s \in Repaired(reg) : reg' = Opened([s EXCEPT !.status[t] = "running"], b, t)
    /\ start' = [start EXCEPT ![t].at = "syncing"]
    /\ Inside /\ Noted
    /\ UNCHANGED <<req, trust, scene>>

\* sync_engine_to_task; the native engine is outside. The call returns, and what
\* it held is forgotten.
Synced(t) ==
    /\ start[t].at = "syncing"
    /\ start' = [start EXCEPT ![t] = [NoStart EXCEPT !.at = "done"]]
    /\ Inside /\ Elsewhere
    /\ UNCHANGED <<req, trust>>

\* rollback_failed_task_start: lists the task's tabs ...
RollBack(t) ==
    /\ In("start")
    /\ start[t].at = "syncing"
    /\ LET own == TabsOf(reg, t) IN
       start' = [start EXCEPT ![t] =
            IF Known(reg, t) /\ own # {}
            THEN [@ EXCEPT !.at = "closing", !.left = own, !.focused = reg.activeTab \in own]
            ELSE [@ EXCEPT !.at = "stuck"]]
    /\ Inside /\ Elsewhere
    /\ UNCHANGED <<req, trust>>

\* ... closes each of them under a lock of its own, presenting no lease ...
RollBackCloses(t, b) ==
    /\ start[t].at = "closing"
    /\ b \in start[t].left \cap Open(reg)
    /\ ~LeaseDenies(reg, b, Nobody)
    /\ reg' \in Closed(reg, b)
    /\ start' = [start EXCEPT ![t].left = @ \ {b}]
    /\ Inside /\ Noted
    /\ UNCHANGED <<req, trust, scene>>

\* ... gives up at the first that is leased or closed already ...
RollBackFails(t, b) ==
    /\ start[t].at = "closing"
    /\ b \in start[t].left
    /\ b \in Open(reg) => LeaseDenies(reg, b, Nobody)
    /\ start' = [start EXCEPT ![t] = [@ EXCEPT !.at = "stuck", !.left = {}]]
    /\ Inside /\ Elsewhere
    /\ UNCHANGED <<req, trust>>

\* ... and returns the focus to the tab that had it before the start.
RollBackEnds(t) ==
    /\ start[t].at = "closing"
    /\ start[t].left = {}
    /\ reg' = IF start[t].focused /\ start[t].prev \in Open(reg)
              THEN ActiveSet(reg, start[t].prev) ELSE reg
    /\ start' = [start EXCEPT ![t].at = IF Known(reg, t) THEN "done" ELSE "stuck"]
    /\ Inside /\ Noted
    /\ UNCHANGED <<req, trust, scene>>

-----------------------------------------------------------------------------
(* Tasks and tabs *)

\* Every read of the state repairs it; so do calls that are then refused.
ReadState ==
    /\ reg' \in Repaired(reg)
    /\ reg' # reg
    /\ Registers

\* control_task, finish_task: from which status a task may go to next
Before(next) ==
    CASE next = "paused" -> {"running"}
      [] next = "running" -> {"paused", "userTakeover"}
      [] next = "userTakeover" -> {"running", "paused"}
      [] OTHER -> Alive

ControlTask(t, next) ==
    /\ \E s \in Repaired(reg) :
        /\ s.status[t] \in Before(next)
        /\ reg' \in Pruned(Moved(s, {t}, next))
    /\ Registers

OpenTab(b, t) ==
    /\ reg.tab[b].at = "new"
    /\ t = NoTask \/ Lives(reg, t)
    /\ reg' = Opened(reg, b, t)
    /\ Registers

FocusTab(b, a) ==
    /\ b \in Open(reg)
    /\ ~LeaseDenies(reg, b, a)
    /\ reg' = ActiveSet(Looked(reg, b), b)
    /\ Registers

CloseTab(b, a) ==
    /\ b \in Open(reg)
    /\ ~LeaseDenies(reg, b, a)
    /\ reg' \in Closed(reg, b)
    /\ trust' = [trust EXCEPT ![b] = @ \ {a}]
    /\ Call /\ Noted
    /\ UNCHANGED <<start, req, scene>>

\* delegate_tab_to_agent: the reviewed state is compared with the one found.
Delegate(b, t) ==
    /\ In("handoff")
    /\ b \in Open(reg)
    /\ reg.tab[b].owner = "User"
    /\ Lives(reg, t)
    /\ reg' = [reg EXCEPT !.tab[b].owner = "DelegatedToAgent", !.tab[b].task = t,
                          !.activeTask = t]
    /\ Registers

\* take_back_tab_from_agent: no repair, and the lease goes without a word to
\* the agent that holds it.
TakeBack(b) ==
    /\ In("handoff")
    /\ b \in Open(reg)
    /\ reg' = [Unleased(reg, b) EXCEPT !.tab[b].owner = "User", !.tab[b].task = NoTask]
    /\ trust' = [trust EXCEPT ![b] = {}]
    /\ stranded' = (stranded \cup {reg.tab[b].task}) \cap Orphans(reg')
    /\ loose' = ~Fits(reg')
    /\ Call
    /\ UNCHANGED <<start, req, scene>>

-----------------------------------------------------------------------------
(* Leases *)

\* Mutant: the lease of an agent that shows no sign of life is replaced.
LockTabAgain(b, a) ==
    /\ In("lease")
    /\ b \in Open(reg)
    /\ reg' = [reg EXCEPT !.tab[b].lease = a, !.tab[b].expired = FALSE]
    /\ trust' = [trust EXCEPT ![b] = @ \cup {a}]
    /\ Call /\ Noted
    /\ UNCHANGED <<start, req, scene>>

LockTab(b, a) ==
    /\ In("lease")
    /\ b \in Open(reg)
    /\ Looked(reg, b).tab[b].lease = Nobody
    /\ reg' = [reg EXCEPT !.tab[b].lease = a, !.tab[b].expired = FALSE]
    /\ trust' = [trust EXCEPT ![b] = @ \cup {a}]
    /\ Call /\ Noted
    /\ UNCHANGED <<start, req, scene>>

\* Time passes; the agent knows when its lease ends.
LeaseRunsOut(b) ==
    /\ reg.tab[b].lease # Nobody
    /\ ~reg.tab[b].expired
    /\ reg' = [reg EXCEPT !.tab[b].expired = TRUE]
    /\ trust' = [trust EXCEPT ![b] = @ \ {reg.tab[b].lease}]
    /\ Inside /\ Noted
    /\ UNCHANGED <<start, req, scene>>

\* heartbeat_tab does not look at the time: it revives a lease that nobody has
\* looked at since it ran out.
Heartbeat(b, a) ==
    /\ In("lease")
    /\ b \in Open(reg)
    /\ reg.tab[b].lease = a
    /\ reg' = [reg EXCEPT !.tab[b].expired = FALSE]
    /\ trust' = [trust EXCEPT ![b] = @ \cup {a}]
    /\ Call /\ Noted
    /\ UNCHANGED <<start, req, scene>>

UnlockTab(b, a) ==
    /\ In("lease")
    /\ b \in Open(reg)
    /\ Looked(reg, b).tab[b].lease \in {Nobody, a}
    /\ reg' = Unleased(reg, b)
    /\ trust' = [trust EXCEPT ![b] = @ \ {a}]
    /\ Call /\ Noted
    /\ UNCHANGED <<start, req, scene>>

-----------------------------------------------------------------------------
(* Prompts *)

\* record_dialog_event, record_permission_event: the task may have ended, but
\* it must be known, and the tab open. A session grant is not checked.
RecordPrompt(p, kind, t, b) ==
    /\ In("prompt")
    /\ reg.prompt[p].at = "none"
    /\ t # NoTask /\ kind # "grant" => Known(reg, t)
    /\ b # NoTab => b \in Open(reg) /\ kind # "grant"
    /\ reg' = [reg EXCEPT !.prompt[p] =
            [kind |-> kind, task |-> t, tab |-> b, at |-> "pending",
             late |-> IF kind = "grant" THEN ~Lives(reg, t) \/ reg.status[t] = "userTakeover"
                      ELSE ~Lives(reg, t)]]
    /\ Registers

\* Mutant: the answer is kept as the caller spelled it.
AnswerPromptRaw(p, how) ==
    /\ reg.prompt[p].at = "pending"
    /\ reg.prompt[p].kind # "grant"
    /\ how = "accepted" => reg.prompt[p].kind = "beforeunload"
    /\ reg' = [reg EXCEPT !.prompt[p].at = IF how = "closed" THEN "cancel" ELSE how]
    /\ Registers

\* resolve_dialog_event, resolve_permission_event: once, while it is pending
AnswerPrompt(p, how) ==
    /\ reg.prompt[p].at = "pending"
    /\ reg.prompt[p].kind # "grant"
    /\ how = "accepted" => reg.prompt[p].kind = "beforeunload"
    /\ reg' = [reg EXCEPT !.prompt[p].at = how]
    /\ Registers

\* resolve_session_grant: whatever became of the grant before, so also when it
\* was cancelled with its task. To apply a granted one always fails.
AnswerGrant(p, how) ==
    /\ reg.prompt[p].at # "none"
    /\ reg.prompt[p].kind = "grant"
    /\ reg' = [reg EXCEPT !.prompt[p].at = how]
    /\ Registers

\* apply_beforeunload_dialog_resolution: a second lock, and nobody asks again
\* whether the tab is open and the task alive.
ApplyAnswer(p) ==
    /\ reg.prompt[p].at = "accepted"
    /\ LET e == reg.prompt[p]
           done == [reg EXCEPT !.prompt[p].at = "closed"]
           set == IF e.tab = NoTab THEN done ELSE ActiveSet(done, e.tab)
       IN  reg' = IF e.tab = NoTab \/ e.task = NoTask THEN set
                  ELSE [set EXCEPT !.activeTask = e.task]
    /\ stranded' = stranded \cap Orphans(reg')
    /\ loose' = ~Fits(reg')
    /\ Inside
    /\ UNCHANGED <<start, req, trust, scene>>

-----------------------------------------------------------------------------
(* Action requests: browser_action_http *)

\* resolve_action_tab_index: the tabs a request may mean now; {} when it fails.
Targets(q) ==
    IF req[q].tab # NoTab THEN {req[q].tab} \cap Open(reg)
    ELSE IF req[q].task # NoTask
         THEN IF TabsOf(reg, req[q].task) = {} THEN {NoTab} ELSE TabsOf(reg, req[q].task)
    ELSE {reg.activeTab} \cap (Open(reg) \cup {NoTab})

\* action_task_id_for_request without its check: the task that is meant
Meant(q, b) ==
    IF req[q].task # NoTask THEN req[q].task
    ELSE IF b # NoTab THEN reg.tab[b].task ELSE reg.activeTask

\* What is asked of the request's task where no tab says otherwise.
MeantOrActive(q, b) ==
    IF Meant(q, b) # NoTask THEN Meant(q, b) ELSE reg.activeTask

Goes(q, at) ==
    /\ req' = [req EXCEPT ![q].at = at]
    /\ Inside /\ Elsewhere
    /\ UNCHANGED <<start, trust>>

\* The call returns: only the task whose record it wrote is remembered.
Returns(q, at, into) ==
    /\ req' = [req EXCEPT ![q] = [NoRequest EXCEPT !.at = at, !.into = into]]
    /\ Inside /\ Elsewhere
    /\ UNCHANGED <<start, trust>>

\* ensure_browser_request_authority_for_action
Submit(q, t, b, a) ==
    /\ In("request")
    /\ req[q].at = "idle"
    /\ b # NoTab => b \in Open(reg)
    /\ t # NoTask => Known(reg, t)
    /\ t # NoTask /\ b # NoTab => reg.tab[b].task \in {t, NoTask}
    /\ req' = [req EXCEPT ![q] = [at |-> "authorized", task |-> t, tab |-> b,
                                  agent |-> a, into |-> NoTask]]
    /\ Call /\ Elsewhere
    /\ UNCHANGED <<start, trust>>

\* task_control_block_for_action
Unblocked(q, b) ==
    /\ req[q].at = "authorized"
    /\ b \in Targets(q)
    /\ LET t == MeantOrActive(q, b) IN t # NoTask => Known(reg, t) /\ reg.status[t] = "running"
    /\ Goes(q, "queued")

\* What lock_denial_for_action lets through, and that it drops a lease whose
\* time is over. A request without a tab passes; it acts if one is found next.
Admits(q, b, tabAllowed) ==
    /\ req[q].at = "queued"
    /\ b \in Targets(q)
    /\ b # NoTab => tabAllowed /\ ~LeaseDenies(reg, b, req[q].agent)
    /\ reg' = IF b = NoTab THEN reg ELSE Looked(reg, b)
    /\ req' = [req EXCEPT ![q].at = "acting"]
    /\ Inside /\ Noted
    /\ UNCHANGED <<start, trust, scene>>

\* An agent stays off tabs that were handed to others ...
OfOthers(q, b) ==
    reg.tab[b].owner = "DelegatedToAgent" /\ req[q].task # reg.tab[b].task

ByAgent(q) == req[q].task # NoTask \/ req[q].agent # Nobody

\* Mutant: only tabs that were handed over are looked at.
CheckedDelegation(q, b) == Admits(q, b, ByAgent(q) => ~OfOthers(q, b))

\* ... and off the user's; asked once more after the wait for the engine. The
\* task itself, and whether the tab is still its own, is not asked again.
Checked(q, b) ==
    Admits(q, b, ByAgent(q) => reg.tab[b].owner # "User" /\ ~OfOthers(q, b))

\* The engine has answered: tab and task are looked up again, and must still
\* belong together.
Found(q, b) ==
    /\ req[q].at = "acting"
    /\ b \in Targets(q)
    /\ b # NoTab /\ req[q].task # NoTask => reg.tab[b].task = req[q].task
    /\ IF Meant(q, b) = NoTask THEN b # NoTab ELSE Known(reg, Meant(q, b))

\* ensure_engine_task_matches_active_context: the task still has a tab.
InContext(t) == TabsOf(reg, t) # {}

\* record_engine_control_result, record_engine_observation
Record(q, b) ==
    /\ Found(q, b)
    /\ Meant(q, b) # NoTask => InContext(Meant(q, b))
    /\ Returns(q, "recorded", Meant(q, b))

\* reconcile_task_engine_result_before_context_check has put the page into the
\* task's record when the check finds that the task has no tab any more, or that
\* the engine does not match it.
RecordThenRefuse(q, b) ==
    /\ Found(q, b)
    /\ Meant(q, b) # NoTask
    /\ Returns(q, "refused", Meant(q, b))

\* A check fails, the wait for the engine times out, nothing is found any more.
Refuse(q) ==
    /\ req[q].at \in {"authorized", "queued", "acting"}
    /\ Returns(q, "refused", NoTask)

-----------------------------------------------------------------------------

Starts(t) ==
    \/ AskStart(t) \/ Synced(t) \/ RollBack(t) \/ RollBackEnds(t)
    \/ \E b \in Tabs : StartTask(t, b) \/ RollBackCloses(t, b) \/ RollBackFails(t, b)

TasksAndTabs ==
    \/ ReadState
    \/ \E t \in Tasks, next \in Alive \cup Endings : ControlTask(t, next)
    \/ \E b \in Tabs, t \in Tasks \cup {NoTask} : OpenTab(b, t)
    \/ \E b \in Tabs, a \in Agents \cup {Nobody} : FocusTab(b, a) \/ CloseTab(b, a)
    \/ \E b \in Tabs, t \in Tasks : Delegate(b, t)
    \/ \E b \in Tabs : TakeBack(b)

Leases(b, a) == LockTab(b, a) \/ Heartbeat(b, a) \/ UnlockTab(b, a)

AsksUser(p) ==
    \/ \E kind \in Kinds, t \in Tasks \cup {NoTask}, b \in Tabs \cup {NoTab} :
            RecordPrompt(p, kind, t, b)
    \/ \E how \in {"accepted", "closed"} : AnswerPrompt(p, how)
    \/ \E how \in {"granted", "closed"} : AnswerGrant(p, how)
    \/ ApplyAnswer(p)

Acts(q) ==
    \/ \E t \in Tasks \cup {NoTask}, b \in Tabs \cup {NoTab}, a \in Agents \cup {Nobody} :
            Submit(q, t, b, a)
    \/ \E b \in Tabs \cup {NoTab} : Unblocked(q, b) \/ Checked(q, b)
    \/ \E b \in Tabs \cup {NoTab} : Record(q, b) \/ RecordThenRefuse(q, b)
    \/ Refuse(q)

Next ==
    \/ \E t \in Tasks : Starts(t)
    \/ TasksAndTabs
    \/ \E b \in Tabs : LeaseRunsOut(b) \/ \E a \in Agents : Leases(b, a)
    \/ \E p \in Prompts : AsksUser(p)
    \/ \E q \in Reqs : Acts(q)

Spec == Init /\ [][Next]_vars

-----------------------------------------------------------------------------
(* Properties *)

TypeOK ==
    /\ reg \in Registry
    /\ start \in [Tasks -> StartState]
    /\ req \in [Reqs -> Request]
    /\ trust \in [Tabs -> SUBSET Agents]
    /\ scene \in Scenes
    /\ calls \in 0 .. MaxCalls[scene]
    /\ stranded \in SUBSET Tasks
    /\ loose \in BOOLEAN

\* The history of ended tasks is pruned by every read, but the task of an open
\* tab is never forgotten: close_tab would remove the tab and then fail halfway.
\* A tab without a task, and no other, is the user's.
TabsConsistent ==
    \A b \in Open(reg) :
        /\ reg.tab[b].task # NoTask => Known(reg, reg.tab[b].task)
        /\ reg.tab[b].owner = "User" <=> reg.tab[b].task = NoTask

\* A task that is not over owns a tab, whichever way its tabs go, rolled back,
\* closed, handed on; only a take-back leaves one without, until the next repair.
OrphansOnlyByTakeBack == Orphans(reg) \subseteq stranded

\* A prompt that was put to the user while its task could still use the answer
\* is closed with the task, and a session grant also by a takeover, on every way
\* a task can end.
PromptsClosed ==
    \A p \in Prompts :
        LET e == reg.prompt[p] IN
        e.at = "pending" /\ e.task # NoTask /\ ~e.late =>
            /\ Lives(reg, e.task)
            /\ e.kind = "grant" => reg.status[e.task] # "userTakeover"

\* Requests that name nothing go to the active tab and task: the tab is open,
\* the task is alive and owns a tab, unless a take-back or the late answer to a
\* beforeunload dialog has left them wrong.
ActiveContext == Fits(reg) \/ loose

\* As long as an agent counts on a lease it was given, the tab is open, the
\* lease is its own and no second agent counts on the tab too; only the user's
\* take-back ends it without notice.
LeaseExclusive ==
    \A b \in Tabs : \A a \in trust[b] :
        b \in Open(reg) /\ reg.tab[b].lease = a /\ ~reg.tab[b].expired

\* A request that names a task and a tab is let through to the engine only while
\* the tab is that task's, although after its authorization nobody compares the
\* two and the tab may be closed, taken back or handed to another task while the
\* request waits: the last check, by owner, is enough.
ActsAtHome ==
    [][\A q \in Reqs :
        /\ req[q].at = "queued" /\ req'[q].at = "acting"
        /\ req[q].task # NoTask /\ req[q].tab # NoTab
        => req[q].tab \in TabsOf(reg, req[q].task)]_vars
=============================================================================
