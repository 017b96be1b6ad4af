-------------------------- MODULE BrowserTasks_proofs --------------------------
(***************************************************************************)
(* Proofs about the browser registry, for any number of tasks, tabs,        *)
(* agents, prompts and requests and any group of operations.                *)
(***************************************************************************)
EXTENDS BrowserTasks, TLAPS

USE AbsentAssumption

-----------------------------------------------------------------------------
(* What is to hold of a registry s, and what is to hold from s to m.         *)

TabsFit(s) ==
    \A b \in Open(s) :
        /\ s.tab[b].task # NoTask => Known(s, s.tab[b].task)
        /\ s.tab[b].owner = "User" <=> s.tab[b].task = NoTask

PromptsFit(s) ==
    \A p \in Prompts :
        LET e == s.prompt[p] IN
        e.at = "pending" /\ e.task # NoTask /\ ~e.late =>
            /\ Lives(s, e.task)
            /\ e.kind = "grant" => s.status[e.task] # "userTakeover"

RegOK(s) == s \in Registry /\ TabsFit(s) /\ PromptsFit(s)

\* The active task is alive and owns a tab.
TaskFits(s) == s.activeTask # NoTask => Lives(s, s.activeTask) /\ TabsOf(s, s.activeTask) # {}

\* No new task without a tab, and an active context that fits keeps fitting.
Advance(s, m) ==
    /\ RegOK(m)
    /\ Orphans(m) \subseteq Orphans(s)
    /\ Fits(s) => Fits(m)

\* A tab that was opened stays opened, and is an agent's only as it was before.
Stays(s, m) ==
    \A x \in Tabs : s.tab[x].at # "new" =>
        /\ m.tab[x].at # "new"
        /\ m.tab[x].owner = "Agent" => s.tab[x].owner = "Agent" /\ m.tab[x].task = s.tab[x].task

\* An active task that is derived from the active tab fits.
LEMMA ActiveTaskFits ==
    ASSUME NEW s \in Registry, NEW b \in Tabs \cup {NoTab}
    PROVE  /\ ActiveTaskOf(s, b) \in Tasks \cup {NoTask}
           /\ ActiveTaskOf(s, b) # NoTask =>
                Lives(s, ActiveTaskOf(s, b)) /\ b \in TabsOf(s, ActiveTaskOf(s, b))
BY DEF ActiveTaskOf, Open, Lives, TabsOf, Registry, TabState

\* set_active_tab changes the active context only.
LEMMA ActiveSetShape ==
    ASSUME NEW s \in Registry, NEW b \in Tabs \cup {NoTab}
    PROVE  /\ ActiveSet(s, b) \in Registry
           /\ ActiveSet(s, b).status = s.status /\ ActiveSet(s, b).tab = s.tab
           /\ ActiveSet(s, b).prompt = s.prompt
           /\ ActiveSet(s, b).activeTab = b
           /\ TaskFits(ActiveSet(s, b))
<1> DEFINE a == ActiveTaskOf(s, b)
           m == [s EXCEPT !.activeTab = b, !.activeTask = a]
<1>1. a \in Tasks \cup {NoTask}
      /\ (a # NoTask => Lives(s, a) /\ b \in TabsOf(s, a))
    BY ActiveTaskFits
<1> HIDE DEF a
<1>2. /\ m \in Registry
      /\ m.status = s.status /\ m.tab = s.tab /\ m.prompt = s.prompt /\ m.activeTab = b
      /\ m.activeTask = a
    BY <1>1 DEF Registry
<1> HIDE DEF m
<1>3. TaskFits(m)
    BY <1>1, <1>2 DEF TaskFits, Lives, TabsOf, Open
<1>4. QED
    BY <1>2, <1>3 DEF ActiveSet, m, a

\* Same status, tabs and prompts: same soundness, same orphans.
LEMMA SameSound ==
    ASSUME NEW s, NEW m \in Registry, RegOK(s),
           m.status = s.status, m.tab = s.tab, m.prompt = s.prompt
    PROVE  RegOK(m) /\ Orphans(m) = Orphans(s)
BY DEF RegOK, TabsFit, PromptsFit, Orphans, TabsOf, Open, Lives, Known

\* transition_task_status_locked: what it leaves alone, ...
LEMMA MovedShape ==
    ASSUME NEW s \in Registry, NEW ts \in SUBSET Tasks, NEW next \in Alive \cup Endings
    PROVE  /\ Moved(s, ts, next) \in Registry
           /\ Moved(s, ts, next).tab = s.tab
           /\ Moved(s, ts, next).activeTab = s.activeTab
           /\ TaskFits(Moved(s, ts, next))
<1> DEFINE m == Moved(s, ts, next)
           st == [t \in Tasks |-> IF t \in ts THEN next ELSE s.status[t]]
           pr == [p \in Prompts |->
                IF s.prompt[p].at = "pending" /\ s.prompt[p].task \in ts
                                              /\ Closes(s.prompt[p].kind, next)
                THEN [s.prompt[p] EXCEPT !.at = "closed"] ELSE s.prompt[p]]
           n == [s EXCEPT !.status = st, !.prompt = pr]
<1>1. m = ActiveSet(n, n.activeTab)
    BY DEF Moved, ActiveRepaired, ActiveSet
<1>2. st \in [Tasks -> {"none", "pruned"} \cup Alive \cup Endings]
    BY DEF Registry
<1>3. pr \in [Prompts -> PromptState]
    <2>1. \A e \in PromptState : [e EXCEPT !.at = "closed"] \in PromptState
        BY DEF PromptState
    <2>2. QED
        BY <2>1 DEF Registry
<1> HIDE DEF st, pr, m
<1>4. /\ n \in Registry /\ n.tab = s.tab /\ n.activeTab = s.activeTab
      /\ n.activeTab \in Tabs \cup {NoTab}
    BY <1>2, <1>3 DEF Registry
<1> HIDE DEF n
<1>5. m \in Registry /\ m.tab = s.tab /\ m.activeTab = s.activeTab /\ TaskFits(m)
    BY <1>1, <1>4, ActiveSetShape
<1>6. QED
    BY <1>5 DEF m

\* ... the status of its tasks, ...
LEMMA MovedStatus ==
    ASSUME NEW s \in Registry, NEW ts \in SUBSET Tasks, NEW next, NEW t \in Tasks
    PROVE  Moved(s, ts, next).status[t] = IF t \in ts THEN next ELSE s.status[t]
BY DEF Moved, ActiveRepaired, Registry

\* ... and the prompts that stay pending.
LEMMA MovedPrompts ==
    ASSUME NEW s \in Registry, NEW ts \in SUBSET Tasks, NEW next, NEW p \in Prompts,
           Moved(s, ts, next).prompt[p].at = "pending"
    PROVE  /\ Moved(s, ts, next).prompt[p] = s.prompt[p]
           /\ s.prompt[p].task \in ts => ~Closes(s.prompt[p].kind, next)
<1> DEFINE e == IF s.prompt[p].at = "pending" /\ s.prompt[p].task \in ts
                                              /\ Closes(s.prompt[p].kind, next)
                THEN [s.prompt[p] EXCEPT !.at = "closed"] ELSE s.prompt[p]
<1>1. Moved(s, ts, next).prompt[p] = e
    BY DEF Moved, ActiveRepaired, Registry
<1>2. [s.prompt[p] EXCEPT !.at = "closed"].at = "closed"
    BY DEF Registry, PromptState
<1>3. QED
    BY <1>1, <1>2

\* A task that moves on keeps its tabs known and takes its prompts along.
LEMMA MovedSound ==
    ASSUME NEW s, RegOK(s), NEW ts \in SUBSET Tasks, NEW next \in Alive \cup Endings
    PROVE  RegOK(Moved(s, ts, next))
<1> DEFINE m == Moved(s, ts, next)
<1>1. s \in Registry
    BY DEF RegOK
<1>2. m \in Registry /\ m.tab = s.tab
    BY <1>1, MovedShape
<1>3. \A t \in Tasks : m.status[t] = IF t \in ts THEN next ELSE s.status[t]
    BY <1>1, MovedStatus
<1>4. \A p \in Prompts : m.prompt[p].at = "pending" =>
            /\ m.prompt[p] = s.prompt[p]
            /\ s.prompt[p].task \in ts => ~Closes(s.prompt[p].kind, next)
    BY <1>1, MovedPrompts
<1> HIDE DEF m
<1>5. TabsFit(m)
    BY <1>1, <1>2, <1>3 DEF RegOK, TabsFit, Open, Known, Registry, TabState
<1>6. ASSUME NEW p \in Prompts, m.prompt[p].at = "pending", m.prompt[p].task # NoTask,
             ~m.prompt[p].late
      PROVE  /\ Lives(m, m.prompt[p].task)
             /\ m.prompt[p].kind = "grant" => m.status[m.prompt[p].task] # "userTakeover"
    <2>1. /\ m.prompt[p] = s.prompt[p]
          /\ s.prompt[p].task \in ts => ~Closes(s.prompt[p].kind, next)
        BY <1>4, <1>6
    <2>2. /\ Lives(s, s.prompt[p].task)
          /\ s.prompt[p].kind = "grant" => s.status[s.prompt[p].task] # "userTakeover"
        BY <1>6, <2>1 DEF RegOK, PromptsFit
    <2>3. QED
        BY <1>3, <2>1, <2>2 DEF Lives, Closes
<1>7. QED
    BY <1>2, <1>5, <1>6 DEF RegOK, PromptsFit, m

\* prune_terminal_task_history_locked forgets ended tasks without tabs.
LEMMA PrunedSound ==
    ASSUME NEW s, RegOK(s), NEW m \in Pruned(s)
    PROVE  /\ RegOK(m) /\ Orphans(m) = Orphans(s)
           /\ m.tab = s.tab /\ m.activeTab = s.activeTab
           /\ TaskFits(s) => TaskFits(m)
<1>1. s \in Registry
    BY DEF RegOK
<1>2. PICK old \in SUBSET {t \in Tasks : s.status[t] \in Endings /\ TabsOf(s, t) = {}} :
        m = [s EXCEPT !.status = [t \in Tasks |-> IF t \in old THEN "pruned" ELSE @[t]]]
    BY DEF Pruned, Prunable
<1>3. /\ m \in Registry
      /\ m.status = [t \in Tasks |-> IF t \in old THEN "pruned" ELSE s.status[t]]
      /\ m.tab = s.tab /\ m.activeTab = s.activeTab /\ m.prompt = s.prompt
      /\ m.activeTask = s.activeTask
    BY <1>1, <1>2 DEF Registry
<1>4. \A t \in Tasks : Lives(m, t) <=> Lives(s, t)
    BY <1>2, <1>3 DEF Lives, Alive, Endings
<1>5. \A t : TabsOf(m, t) = TabsOf(s, t)
    BY <1>3 DEF TabsOf, Open
<1>6. TabsFit(m)
    BY <1>1, <1>2, <1>3, <1>5 DEF RegOK, TabsFit, Known, Open, TabsOf
<1>7. PromptsFit(m)
    BY <1>1, <1>2, <1>3, <1>4 DEF RegOK, PromptsFit, Lives, Alive, Endings
<1>8. QED
    BY <1>3, <1>4, <1>5, <1>6, <1>7 DEF RegOK, Orphans, TaskFits, Lives

\* repair_browser_task_invariants_locked leaves no task without a tab.
LEMMA RepairedSound ==
    ASSUME NEW s, RegOK(s), NEW m \in Repaired(s)
    PROVE  /\ RegOK(m) /\ Orphans(m) = {} /\ TaskFits(m)
           /\ m.tab = s.tab /\ m.activeTab = s.activeTab
<1> DEFINE ts == Orphans(s)
           next == "aborted"
           n == Moved(s, ts, next)
<1>1. s \in Registry /\ ts \in SUBSET Tasks /\ next \in Alive \cup Endings
    BY DEF RegOK, Orphans, Endings
<1> HIDE DEF ts, next
<1>2. n \in Registry /\ n.tab = s.tab /\ n.activeTab = s.activeTab /\ TaskFits(n)
    BY <1>1, MovedShape
<1>3. \A t \in Tasks : n.status[t] = IF t \in ts THEN next ELSE s.status[t]
    BY <1>1, MovedStatus
<1>4. RegOK(n)
    BY <1>1, MovedSound
<1>5. m \in Pruned(n)
    BY DEF Repaired, ts, next
<1> HIDE DEF n
<1>6. Orphans(n) = {}
    BY <1>2, <1>3 DEF Orphans, Lives, TabsOf, Open, Alive, ts, next
<1>7. QED
    BY <1>2, <1>4, <1>5, <1>6, PrunedSound

\* Repairing a registry that is right is an advance, and leaves no orphan.
LEMMA RepairedAdvance ==
    ASSUME NEW s, RegOK(s), NEW m \in Repaired(s)
    PROVE  Advance(s, m) /\ Orphans(m) = {} /\ m.tab = s.tab
BY RepairedSound DEF Advance, Fits, TaskFits, Open

\* create_browser_tab, for the user or for a task that is alive.
LEMMA OpenedAdvance ==
    ASSUME NEW s, RegOK(s), NEW b \in Tabs, s.tab[b].at = "new",
           NEW t \in Tasks \cup {NoTask}, t = NoTask \/ Lives(s, t)
    PROVE  /\ Advance(s, Opened(s, b, t)) /\ Fits(Opened(s, b, t))
           /\ \A x \in Tabs \ {b} : Opened(s, b, t).tab[x] = s.tab[x]
           /\ Opened(s, b, t).tab[b].at = "open" /\ Opened(s, b, t).tab[b].task = t
<1> DEFINE m == Opened(s, b, t)
           e == [NewTab EXCEPT !.at = "open", !.task = t,
                               !.owner = IF t = NoTask THEN "User" ELSE "Agent"]
           n == [s EXCEPT !.tab[b] = e]
<1>1. e \in TabState /\ e.at = "open" /\ e.task = t /\ (e.owner = "User" <=> t = NoTask)
    BY DEF NewTab, TabState
<1>2. m = ActiveSet(n, b)
    BY DEF Opened
<1> HIDE DEF e, m
<1>3. /\ n \in Registry
      /\ n.tab = [s.tab EXCEPT ![b] = e] /\ n.status = s.status /\ n.prompt = s.prompt
    BY <1>1 DEF Registry, RegOK
<1> HIDE DEF n
<1>4. /\ m \in Registry /\ TaskFits(m) /\ m.activeTab = b
      /\ m.tab = [s.tab EXCEPT ![b] = e] /\ m.status = s.status /\ m.prompt = s.prompt
    BY <1>2, <1>3, ActiveSetShape
<1>5. s.tab \in [Tabs -> TabState]
    BY DEF RegOK, Registry
<1>6. Open(m) = Open(s) \cup {b} /\ \A x \in Open(s) : m.tab[x] = s.tab[x]
    BY <1>1, <1>4, <1>5 DEF Open
<1>7. TabsFit(m)
    BY <1>1, <1>4, <1>5, <1>6 DEF RegOK, TabsFit, Known, Lives
<1>8. PromptsFit(m)
    BY <1>4 DEF RegOK, PromptsFit, Lives
<1>9. Orphans(m) \subseteq Orphans(s)
    BY <1>4, <1>6 DEF Orphans, TabsOf, Lives
<1>10. Fits(m)
    BY <1>4, <1>6 DEF Fits, TaskFits
<1>11. QED
    BY <1>1, <1>4, <1>5, <1>7, <1>8, <1>9, <1>10 DEF Advance, RegOK, m

\* A removed tab leaves the others as they are.
LEMMA RemovedShape ==
    ASSUME NEW s, RegOK(s), NEW b \in Tabs
    PROVE  /\ RegOK(Removed(s, b))
           /\ Open(Removed(s, b)) = Open(s) \ {b}
           /\ \A x \in Tabs \ {b} : Removed(s, b).tab[x] = s.tab[x]
           /\ Removed(s, b).tab[b].at = "closed" /\ Removed(s, b).tab[b].owner = "User"
           /\ Removed(s, b).status = s.status
           /\ Removed(s, b).activeTab = s.activeTab
           /\ Removed(s, b).activeTask = s.activeTask
<1> DEFINE e == [NewTab EXCEPT !.at = "closed"]
           m == Removed(s, b)
<1>1. e \in TabState /\ e.at = "closed" /\ e.owner = "User"
    BY DEF NewTab, TabState
<1>2. m = [s EXCEPT !.tab[b] = e]
    BY DEF Removed
<1> HIDE DEF e, m
<1>3. /\ m \in Registry /\ m.tab = [s.tab EXCEPT ![b] = e] /\ m.status = s.status
      /\ m.prompt = s.prompt /\ m.activeTab = s.activeTab /\ m.activeTask = s.activeTask
    BY <1>1, <1>2 DEF Registry, RegOK
<1>4. /\ Open(m) = Open(s) \ {b} /\ \A x \in Tabs \ {b} : m.tab[x] = s.tab[x]
      /\ m.tab[b].at = "closed" /\ m.tab[b].owner = "User"
    BY <1>1, <1>3 DEF Open, RegOK, Registry
<1>5. TabsFit(m)
    BY <1>3, <1>4 DEF RegOK, TabsFit, Known, Open
<1>6. PromptsFit(m)
    BY <1>3 DEF RegOK, PromptsFit, Lives
<1>7. QED
    BY <1>3, <1>4, <1>5, <1>6 DEF RegOK, m

\* close_tab: a task that loses its last tab ends; the focus goes to an open tab.
LEMMA ClosedAdvance ==
    ASSUME NEW s, RegOK(s), NEW b \in Open(s), NEW m \in Closed(s, b)
    PROVE  Advance(s, m) /\ Stays(s, m) /\ \A x \in Tabs \ {b} : m.tab[x] = s.tab[x]
<1> DEFINE t == s.tab[b].task
           gone == Removed(s, b)
           last == t # NoTask /\ TabsOf(gone, t) = {}
           left == IF last /\ Lives(s, t) THEN Moved(gone, {t}, "aborted") ELSE gone
           first == IF Open(gone) = {} THEN {NoTab} ELSE Open(gone)
<1>1. /\ s \in Registry /\ b \in Tabs /\ (t # NoTask => Known(s, t))
      /\ t \in Tasks \cup {NoTask}
    BY DEF RegOK, TabsFit, Open, Registry, TabState
<1>2. /\ RegOK(gone) /\ Open(gone) = Open(s) \ {b}
      /\ \A x \in Tabs \ {b} : gone.tab[x] = s.tab[x]
      /\ gone.tab[b].at = "closed" /\ gone.tab[b].owner = "User"
      /\ gone.status = s.status /\ gone.activeTab = s.activeTab
    BY <1>1, RemovedShape
<1>3. \/ s.activeTab # b /\ m \in Repaired(left)
      \/ \E f \in first : m \in Repaired(ActiveSet(left, f))
    BY <1>1 DEF Closed
<1>4. /\ RegOK(left) /\ left.tab = gone.tab /\ left.activeTab = s.activeTab
      /\ Open(left) = Open(s) \ {b}
    <2>1. CASE last /\ Lives(s, t)
        <3> DEFINE ts == {t}
                   next == "aborted"
        <3>1. left = Moved(gone, ts, next)
            BY <2>1
        <3>2. ts \in SUBSET Tasks /\ next \in Alive \cup Endings /\ gone \in Registry
            BY <1>2, <2>1 DEF Lives, Endings, RegOK
        <3> HIDE DEF ts, next, left, gone
        <3>3. /\ Moved(gone, ts, next).tab = gone.tab
              /\ Moved(gone, ts, next).activeTab = gone.activeTab
            BY <3>2, MovedShape
        <3>4. RegOK(left)
            BY <1>2, <3>1, <3>2, MovedSound
        <3>5. QED
            BY <1>2, <3>1, <3>3, <3>4 DEF Open
    <2>2. CASE ~(last /\ Lives(s, t))
        BY <1>2, <2>2
    <2>3. QED
        BY <2>1, <2>2
<1>5. first \subseteq Open(left) \cup {NoTab}
    BY <1>2, <1>4
<1> HIDE DEF left, first, gone
\* What Repaired takes away is all that can be missing.
<1>6. ASSUME m.tab = gone.tab
      PROVE  Stays(s, m) /\ \A x \in Tabs \ {b} : m.tab[x] = s.tab[x]
    BY <1>2, <1>6 DEF Stays
<1>7. CASE s.activeTab # b /\ m \in Repaired(left)
    <2>1. /\ RegOK(m) /\ Orphans(m) = {} /\ TaskFits(m)
          /\ m.tab = left.tab /\ m.activeTab = left.activeTab
        BY <1>4, <1>7, RepairedSound
    <2>2. Open(m) = Open(s) \ {b}
        BY <1>4, <2>1 DEF Open
    <2>3. QED
        BY <1>2, <1>4, <1>6, <1>7, <2>1, <2>2 DEF Advance, Fits, TaskFits
<1>8. ASSUME NEW f \in first, m \in Repaired(ActiveSet(left, f))
      PROVE  Advance(s, m) /\ Stays(s, m) /\ \A x \in Tabs \ {b} : m.tab[x] = s.tab[x]
    <2> DEFINE n == ActiveSet(left, f)
    <2>1. f \in Tabs \cup {NoTab} /\ f \in Open(left) \cup {NoTab}
        BY <1>5, <1>8 DEF Open
    <2>2. /\ n \in Registry /\ n.status = left.status /\ n.tab = left.tab
          /\ n.prompt = left.prompt /\ n.activeTab = f
        BY <1>4, <2>1, ActiveSetShape DEF RegOK
    <2> HIDE DEF n
    <2>3. RegOK(n)
        BY <1>4, <2>2, SameSound
    <2>4. /\ RegOK(m) /\ Orphans(m) = {} /\ TaskFits(m)
          /\ m.tab = n.tab /\ m.activeTab = n.activeTab
        BY <1>8, <2>3, RepairedSound DEF n
    <2>5. f \in Open(m) \cup {NoTab}
        BY <2>1, <2>2, <2>4 DEF Open
    <2>6. QED
        BY <1>2, <1>4, <1>6, <2>2, <2>4, <2>5 DEF Advance, Fits, TaskFits
<1>9. QED
    BY <1>3, <1>7, <1>8

\* A lease that changes hands, or runs out, changes nothing else.
Leased(s, b, a, x) == [s EXCEPT !.tab[b].lease = a, !.tab[b].expired = x]

\* A lease that changes is an advance and keeps the tabs as they were.
LEMMA LeaseAdvance ==
    ASSUME NEW s, RegOK(s), NEW b \in Tabs, NEW a \in Agents \cup {Nobody}, NEW x \in BOOLEAN
    PROVE  /\ Advance(s, Leased(s, b, a, x)) /\ Stays(s, Leased(s, b, a, x))
           /\ Open(Leased(s, b, a, x)) = Open(s)
           /\ \A c \in Tabs \ {b} : Leased(s, b, a, x).tab[c] = s.tab[c]
           /\ Leased(s, b, a, x).tab[b].at = s.tab[b].at
           /\ Leased(s, b, a, x).tab[b].lease = a
           /\ Leased(s, b, a, x).tab[b].expired = x
<1> DEFINE m == Leased(s, b, a, x)
           tabs == [s.tab EXCEPT ![b] = [s.tab[b] EXCEPT !.lease = a, !.expired = x]]
           e == [s.tab[b] EXCEPT !.lease = a, !.expired = x]
<1>1. s.tab \in [Tabs -> TabState] /\ s \in Registry
    BY DEF RegOK, Registry
<1>2. /\ e \in TabState /\ e.lease = a /\ e.expired = x /\ e.at = s.tab[b].at
      /\ e.task = s.tab[b].task /\ e.owner = s.tab[b].owner
    BY <1>1 DEF TabState
<1>3. m = [s EXCEPT !.tab = tabs]
    BY <1>1 DEF Registry, Leased
<1>4. tabs = [s.tab EXCEPT ![b] = e] /\ tabs \in [Tabs -> TabState]
    BY <1>1, <1>2
<1> HIDE DEF e, m, tabs
<1>5. /\ m \in Registry /\ m.tab = [s.tab EXCEPT ![b] = e]
      /\ m.status = s.status /\ m.prompt = s.prompt
      /\ m.activeTab = s.activeTab /\ m.activeTask = s.activeTask
    BY <1>1, <1>3, <1>4 DEF Registry
<1>6. /\ \A c \in Tabs : m.tab[c].at = s.tab[c].at /\ m.tab[c].task = s.tab[c].task
                         /\ m.tab[c].owner = s.tab[c].owner
      /\ \A c \in Tabs \ {b} : m.tab[c] = s.tab[c]
      /\ m.tab[b] = e
    BY <1>1, <1>2, <1>5
<1>7. Open(m) = Open(s)
    BY <1>6 DEF Open
<1>8. \A t : TabsOf(m, t) = TabsOf(s, t)
    BY <1>6, <1>7 DEF TabsOf, Open
<1>9. TabsFit(m) /\ PromptsFit(m)
    BY <1>5, <1>6, <1>7 DEF RegOK, TabsFit, PromptsFit, Known, Lives, Open
<1>10. Orphans(m) = Orphans(s)
    BY <1>5, <1>8 DEF Orphans, Lives
<1>11. Fits(s) => Fits(m)
    BY <1>5, <1>7, <1>8 DEF Fits, Lives
<1>12. Stays(s, m)
    BY <1>6 DEF Stays
<1>13. QED
    BY <1>2, <1>5, <1>6, <1>7, <1>9, <1>10, <1>11, <1>12 DEF Advance, RegOK, m

\* expire_tab_lock_if_needed, and the removal of a lease
LEMMA LookedAdvance ==
    ASSUME NEW s, RegOK(s), NEW b \in Tabs
    PROVE  /\ Advance(s, Unleased(s, b)) /\ Advance(s, Looked(s, b))
           /\ Stays(s, Unleased(s, b)) /\ Stays(s, Looked(s, b))
           /\ Open(Unleased(s, b)) = Open(s) /\ Open(Looked(s, b)) = Open(s)
           /\ \A c \in Tabs \ {b} : /\ Unleased(s, b).tab[c] = s.tab[c]
                                    /\ Looked(s, b).tab[c] = s.tab[c]
           /\ ~s.tab[b].expired => Looked(s, b) = s
<1>1. Advance(s, s) /\ Stays(s, s)
    BY DEF Advance, Stays
<1>2. /\ Advance(s, Unleased(s, b)) /\ Stays(s, Unleased(s, b))
      /\ Open(Unleased(s, b)) = Open(s)
      /\ \A c \in Tabs \ {b} : Unleased(s, b).tab[c] = s.tab[c]
    <2> DEFINE a == Nobody
               x == FALSE
    <2>1. Unleased(s, b) = Leased(s, b, a, x)
        BY DEF Unleased, Leased
    <2>2. a \in Agents \cup {Nobody} /\ x \in BOOLEAN
        OBVIOUS
    <2> HIDE DEF a, x
    <2>3. QED
        BY <2>1, <2>2, LeaseAdvance
<1>3. QED
    BY <1>1, <1>2 DEF Looked

\* A step of the focus to an open tab, or to none, fits.
LEMMA FocusAdvance ==
    ASSUME NEW s, RegOK(s), NEW b \in Open(s) \cup {NoTab}
    PROVE  Advance(s, ActiveSet(s, b)) /\ ActiveSet(s, b).tab = s.tab
<1> DEFINE m == ActiveSet(s, b)
<1>1. s \in Registry /\ b \in Tabs \cup {NoTab}
    BY DEF RegOK, Open
<1>2. /\ m \in Registry /\ m.status = s.status /\ m.tab = s.tab /\ m.prompt = s.prompt
      /\ m.activeTab = b /\ TaskFits(m)
    BY <1>1, ActiveSetShape
<1> HIDE DEF m
<1>3. RegOK(m) /\ Orphans(m) = Orphans(s)
    BY <1>2, SameSound
<1>4. Fits(m)
    BY <1>2 DEF Fits, TaskFits, Open
<1>5. QED
    BY <1>2, <1>3, <1>4 DEF Advance, m

\* Advances add up.
LEMMA AdvanceTwice ==
    ASSUME NEW s, NEW n, NEW m, Advance(s, n), Advance(n, m)
    PROVE  Advance(s, m)
BY DEF Advance

-----------------------------------------------------------------------------
(* Every action that changes the registry advances it.                       *)

RegInv ==
    /\ RegOK(reg)
    /\ OrphansOnlyByTakeBack
    /\ ActiveContext
    /\ stranded \in SUBSET Tasks
    /\ loose \in BOOLEAN

\* What was wrong stays noted, and nothing new goes wrong.
LEMMA NotedInv ==
    ASSUME RegInv, Advance(reg, reg'), Noted
    PROVE  RegInv'
BY DEF RegInv, Advance, Noted, OrphansOnlyByTakeBack, ActiveContext, RegOK, Fits

\* A task that starts brings its tab along.
LEMMA StartTaskAdvance ==
    ASSUME RegInv, NEW t \in Tasks, NEW b \in Tabs, StartTask(t, b)
    PROVE  Advance(reg, reg') /\ \A x \in Tabs \ {b} : reg'.tab[x] = reg.tab[x]
<1>1. PICK s \in Repaired(reg) : reg' = Opened([s EXCEPT !.status[t] = "running"], b, t)
    BY DEF StartTask
<1>2. RegOK(s) /\ Orphans(s) = {} /\ s.tab = reg.tab
    BY RepairedSound DEF RegInv
<1> DEFINE n == [s EXCEPT !.status[t] = "running"]
<1>3. /\ n \in Registry /\ n.tab = s.tab /\ n.prompt = s.prompt
      /\ \A x \in Tasks : n.status[x] = IF x = t THEN "running" ELSE s.status[x]
    BY <1>2 DEF RegOK, Registry, Alive
<1> HIDE DEF n
<1>4. TabsFit(n)
    BY <1>2, <1>3 DEF RegOK, TabsFit, Open, Known, Alive
<1>5. PromptsFit(n)
    BY <1>2, <1>3 DEF RegOK, PromptsFit, Lives, Alive
<1>6. Orphans(n) \subseteq {t}
    BY <1>2, <1>3 DEF Orphans, Lives, TabsOf, Open
<1>7. n.tab[b].at = "new" /\ Lives(n, t)
    BY <1>2, <1>3 DEF StartTask, Lives, Alive
<1>8. /\ Advance(n, reg') /\ Fits(reg')
      /\ reg'.tab[b].at = "open" /\ reg'.tab[b].task = t
      /\ \A x \in Tabs \ {b} : reg'.tab[x] = n.tab[x]
    <2>1. RegOK(n) /\ t \in Tasks \cup {NoTask}
        BY <1>3, <1>4, <1>5 DEF RegOK
    <2>2. /\ Advance(n, Opened(n, b, t)) /\ Fits(Opened(n, b, t))
          /\ Opened(n, b, t).tab[b].at = "open" /\ Opened(n, b, t).tab[b].task = t
          /\ \A x \in Tabs \ {b} : Opened(n, b, t).tab[x] = n.tab[x]
        BY <1>7, <2>1, OpenedAdvance
    <2>3. QED
        BY <1>1, <2>2 DEF n
<1>9. b \in TabsOf(reg', t)
    BY <1>8 DEF TabsOf, Open
<1>10. QED
    BY <1>2, <1>3, <1>6, <1>8, <1>9 DEF Advance, Orphans

\* A task that pauses, goes on or ends takes its prompts and its focus along.
LEMMA ControlTaskAdvance ==
    ASSUME RegInv, NEW t \in Tasks, NEW next \in Alive \cup Endings, ControlTask(t, next)
    PROVE  Advance(reg, reg') /\ reg'.tab = reg.tab
<1>1. PICK s \in Repaired(reg) :
        s.status[t] \in Before(next) /\ reg' \in Pruned(Moved(s, {t}, next))
    BY DEF ControlTask
<1>2. /\ RegOK(s) /\ Orphans(s) = {} /\ s.tab = reg.tab /\ s.activeTab = reg.activeTab
      /\ s \in Registry
    BY RepairedSound DEF RegInv, RegOK
<1>3. Lives(s, t)
    BY <1>1 DEF Before, Lives, Alive
<1> DEFINE ts == {t}
           n == Moved(s, ts, next)
<1>4. ts \in SUBSET Tasks
    OBVIOUS
<1> HIDE DEF ts
<1>5. RegOK(n)
    BY <1>2, <1>4, MovedSound
<1>6. n.tab = s.tab /\ n.activeTab = s.activeTab /\ TaskFits(n)
    BY <1>2, <1>4, MovedShape
<1>7. \A x \in Tasks : n.status[x] = IF x \in ts THEN next ELSE s.status[x]
    BY <1>2, <1>4, MovedStatus
<1>8. reg' \in Pruned(n)
    BY <1>1 DEF ts
<1> HIDE DEF n
<1>9. Orphans(n) = {}
    BY <1>2, <1>3, <1>6, <1>7 DEF Orphans, Lives, TabsOf, Open, ts
<1>10. /\ RegOK(reg') /\ Orphans(reg') = {} /\ TaskFits(reg')
       /\ reg'.tab = reg.tab /\ reg'.activeTab = reg.activeTab
    BY <1>2, <1>5, <1>6, <1>8, <1>9, PrunedSound
<1>11. QED
    BY <1>10 DEF Advance, Fits, TaskFits, Open

\* A user's tab that is handed to a living task suits it.
LEMMA DelegateAdvance ==
    ASSUME RegInv, NEW b \in Tabs, NEW t \in Tasks, Delegate(b, t)
    PROVE  Advance(reg, reg')
<1> DEFINE e == [reg.tab[b] EXCEPT !.owner = "DelegatedToAgent", !.task = t]
<1>1. reg \in Registry /\ reg.tab \in [Tabs -> TabState] /\ b \in Open(reg) /\ Lives(reg, t)
    BY DEF RegInv, RegOK, Registry, Delegate
<1>2. reg.tab[b].task = NoTask
    BY <1>1 DEF Delegate, RegInv, RegOK, TabsFit
<1>3. /\ e \in TabState /\ e.task = t /\ e.owner = "DelegatedToAgent"
      /\ e.at = reg.tab[b].at
    BY <1>1 DEF TabState
<1>4. reg' = [reg EXCEPT !.tab[b] = e, !.activeTask = t]
    BY <1>1 DEF Delegate, Registry
<1> HIDE DEF e
<1>5. /\ reg' \in Registry /\ reg'.tab = [reg.tab EXCEPT ![b] = e]
      /\ reg'.status = reg.status /\ reg'.prompt = reg.prompt
      /\ reg'.activeTab = reg.activeTab /\ reg'.activeTask = t
    BY <1>1, <1>3, <1>4 DEF Registry
<1>6. Open(reg') = Open(reg) /\ \A x \in Tabs \ {b} : reg'.tab[x] = reg.tab[x]
    BY <1>1, <1>3, <1>5 DEF Open
<1>7. TabsFit(reg')
    BY <1>1, <1>3, <1>5, <1>6 DEF RegInv, RegOK, TabsFit, Known, Lives, Open
<1>8. PromptsFit(reg')
    BY <1>5 DEF RegInv, RegOK, PromptsFit, Lives
<1>9. Orphans(reg') \subseteq Orphans(reg)
    BY <1>1, <1>2, <1>5, <1>6 DEF Orphans, TabsOf, Lives
<1>10. b \in TabsOf(reg', t)
    BY <1>1, <1>3, <1>5, <1>6 DEF TabsOf, Open
<1>11. QED
    BY <1>1, <1>5, <1>6, <1>7, <1>8, <1>9, <1>10 DEF Advance, RegOK, Fits, Lives

\* A prompt is recorded for a living task, or is noted as late.
LEMMA RecordPromptAdvance ==
    ASSUME RegInv, NEW p \in Prompts, NEW kind \in Kinds, NEW t \in Tasks \cup {NoTask},
           NEW b \in Tabs \cup {NoTab}, RecordPrompt(p, kind, t, b)
    PROVE  Advance(reg, reg')
<1> DEFINE late == IF kind = "grant" THEN ~Lives(reg, t) \/ reg.status[t] = "userTakeover"
                   ELSE ~Lives(reg, t)
           e == [kind |-> kind, task |-> t, tab |-> b, at |-> "pending", late |-> late]
<1>1. late \in BOOLEAN
    BY DEF Lives
<1>2. reg' = [reg EXCEPT !.prompt[p] = e]
    BY DEF RecordPrompt
<1>3. ~late => Lives(reg, t) /\ (kind = "grant" => reg.status[t] # "userTakeover")
    OBVIOUS
<1> HIDE DEF late
<1>4. /\ e \in PromptState /\ e.kind = kind /\ e.task = t /\ e.late = late
    BY <1>1 DEF PromptState
<1> HIDE DEF e
<1>5. /\ reg' \in Registry /\ reg'.tab = reg.tab /\ reg'.status = reg.status
      /\ reg'.prompt = [reg.prompt EXCEPT ![p] = e]
      /\ reg'.activeTab = reg.activeTab /\ reg'.activeTask = reg.activeTask
    BY <1>2, <1>4 DEF RegInv, RegOK, Registry
<1>6. PromptsFit(reg')
    BY <1>3, <1>4, <1>5 DEF RegInv, RegOK, Registry, PromptsFit, Lives
<1>7. QED
    BY <1>5, <1>6 DEF RegInv, RegOK, TabsFit, Advance, Orphans, TabsOf, Open, Lives, Known, Fits

\* An answered prompt is not pending any more.
LEMMA AnswerAdvance ==
    ASSUME RegInv, NEW p \in Prompts, NEW how \in {"accepted", "granted", "closed"},
           NEW m, m = [reg EXCEPT !.prompt[p].at = how]
    PROVE  Advance(reg, m)
<1> DEFINE e == [reg.prompt[p] EXCEPT !.at = how]
<1>1. reg \in Registry /\ reg.prompt \in [Prompts -> PromptState]
    BY DEF RegInv, RegOK, Registry
<1>2. e \in PromptState /\ e.at = how
    BY <1>1 DEF PromptState
<1>3. m = [reg EXCEPT !.prompt[p] = e]
    BY <1>1 DEF Registry
<1> HIDE DEF e
<1>4. /\ m \in Registry /\ m.tab = reg.tab /\ m.status = reg.status
      /\ m.prompt = [reg.prompt EXCEPT ![p] = e]
      /\ m.activeTab = reg.activeTab /\ m.activeTask = reg.activeTask
    BY <1>1, <1>2, <1>3 DEF Registry
<1>5. PromptsFit(m)
    BY <1>1, <1>2, <1>4 DEF RegInv, RegOK, PromptsFit, Lives
<1>6. QED
    BY <1>4, <1>5 DEF RegInv, RegOK, TabsFit, Advance, Orphans, TabsOf, Open, Lives, Known, Fits

\* The late answer to a dialog sets the active context, to whatever it names.
LEMMA ApplyAnswerInv ==
    ASSUME RegInv, NEW p \in Prompts, ApplyAnswer(p)
    PROVE  RegInv'
<1> DEFINE m == [reg EXCEPT !.prompt[p].at = "closed"]
           b == reg.prompt[p].tab
           t == reg.prompt[p].task
           n == IF b = NoTab THEN m ELSE ActiveSet(m, b)
<1>1. b \in Tabs \cup {NoTab} /\ t \in Tasks \cup {NoTask}
    BY DEF RegInv, RegOK, Registry, PromptState
<1>2. m \in Registry /\ RegOK(m) /\ Orphans(m) \subseteq Orphans(reg)
    BY AnswerAdvance DEF Advance, RegOK
<1>3. reg' = IF b = NoTab \/ t = NoTask THEN n ELSE [n EXCEPT !.activeTask = t]
    BY DEF ApplyAnswer
<1>4. stranded' = stranded \cap Orphans(reg') /\ loose' = ~Fits(reg')
    BY DEF ApplyAnswer
<1> HIDE DEF m, b, t
<1>5. RegOK(n) /\ Orphans(n) = Orphans(m)
    BY <1>1, <1>2, ActiveSetShape, SameSound
<1> HIDE DEF n
<1>6. RegOK(reg') /\ Orphans(reg') = Orphans(n)
    <2>1. CASE b = NoTab \/ t = NoTask
        BY <1>3, <1>5, <2>1
    <2>2. CASE ~(b = NoTab \/ t = NoTask)
        <3>1. /\ reg' \in Registry /\ reg'.status = n.status /\ reg'.tab = n.tab
              /\ reg'.prompt = n.prompt
            BY <1>1, <1>3, <1>5, <2>2 DEF RegOK, Registry
        <3>2. QED
            BY <1>5, <3>1, SameSound
    <2>3. QED
        BY <2>1, <2>2
<1>7. QED
    BY <1>2, <1>4, <1>5, <1>6 DEF RegInv, OrphansOnlyByTakeBack, ActiveContext, Fits

\* A take-back may leave the tab's task without one; nobody else's.
LEMMA TakeBackInv ==
    ASSUME RegInv, NEW b \in Tabs, TakeBack(b)
    PROVE  RegInv'
<1> DEFINE u == Unleased(reg, b)
           e == [u.tab[b] EXCEPT !.owner = "User", !.task = NoTask]
           tabs == [u.tab EXCEPT ![b] = e]
           t == reg.tab[b].task
<1>1. b \in Open(reg) /\ reg.tab[b].at = "open" /\ t \in Tasks \cup {NoTask}
    BY DEF TakeBack, Open, RegInv, RegOK, Registry, TabState
<1>2. /\ RegOK(u) /\ Orphans(u) \subseteq Orphans(reg) /\ Open(u) = Open(reg)
      /\ \A c \in Tabs \ {b} : u.tab[c] = reg.tab[c]
    BY LookedAdvance DEF RegInv, Advance
<1>3. u.status = reg.status
    BY DEF Unleased
<1>4. reg' = [u EXCEPT !.tab[b].owner = "User", !.tab[b].task = NoTask]
    BY DEF TakeBack
<1>5. /\ stranded' = (stranded \cup {t}) \cap Orphans(reg') /\ loose' = ~Fits(reg')
    BY DEF TakeBack
<1> HIDE DEF u, t
<1>6. u \in Registry /\ u.tab \in [Tabs -> TabState] /\ b \in Open(u)
    BY <1>1, <1>2 DEF RegOK, Registry
<1>7. e \in TabState /\ e.at = u.tab[b].at /\ e.task = NoTask /\ e.owner = "User"
    BY <1>6 DEF TabState
<1>8. tabs \in [Tabs -> TabState]
    BY <1>6, <1>7
<1>9. reg' = [u EXCEPT !.tab = tabs]
    BY <1>4, <1>6 DEF Registry
<1> HIDE DEF e
<1>10. /\ \A c \in Tabs \ {b} : tabs[c] = u.tab[c]
       /\ tabs[b] = e
    BY <1>6
<1> HIDE DEF tabs
<1>11. /\ reg' \in Registry /\ reg'.tab = tabs /\ reg'.status = u.status
       /\ reg'.prompt = u.prompt
    BY <1>6, <1>8, <1>9 DEF Registry
<1>12. Open(reg') = Open(u)
    BY <1>7, <1>10, <1>11 DEF Open
<1>13. TabsFit(reg')
    BY <1>2, <1>7, <1>10, <1>11, <1>12 DEF RegOK, TabsFit, Known, Open
<1>14. PromptsFit(reg')
    BY <1>2, <1>11 DEF RegOK, PromptsFit, Lives
<1>15. Orphans(reg') \subseteq Orphans(reg) \cup {t}
    BY <1>1, <1>2, <1>3, <1>10, <1>11, <1>12 DEF Orphans, TabsOf, Open, Lives, t
<1>16. QED
    BY <1>1, <1>5, <1>11, <1>13, <1>14, <1>15
    DEF RegInv, RegOK, OrphansOnlyByTakeBack, ActiveContext, Fits, Orphans

\* Every step keeps the registry sound.
LEMMA RegStep ==
    ASSUME RegInv, [Next]_vars
    PROVE  RegInv'
<1> USE DEF RegInv
<1>1. RegOK(reg)
    OBVIOUS
<1>2. ASSUME Elsewhere PROVE RegInv'
    BY <1>2 DEF Elsewhere, OrphansOnlyByTakeBack, ActiveContext
<1>3. ASSUME NEW t \in Tasks, Starts(t) PROVE RegInv'
    <2>1. CASE AskStart(t)
        BY <1>1, <2>1, RepairedAdvance, NotedInv DEF AskStart
    <2>2. ASSUME NEW b \in Tabs, StartTask(t, b) PROVE RegInv'
        BY <2>2, StartTaskAdvance, NotedInv DEF StartTask
    <2>3. ASSUME NEW b \in Tabs, RollBackCloses(t, b) PROVE RegInv'
        BY <1>1, <2>3, ClosedAdvance, NotedInv DEF RollBackCloses
    <2>4. CASE RollBackEnds(t)
        <3>1. Advance(reg, reg)
            BY <1>1 DEF Advance
        <3>2. start[t].prev \in Open(reg) => Advance(reg, ActiveSet(reg, start[t].prev))
            BY <1>1, FocusAdvance
        <3>3. Advance(reg, reg')
            BY <2>4, <3>1, <3>2 DEF RollBackEnds
        <3>4. QED
            BY <2>4, <3>3, NotedInv DEF RollBackEnds
    <2>5. QED
        BY <1>2, <1>3, <2>1, <2>2, <2>3, <2>4 DEF Starts, Synced, RollBack, RollBackFails
<1>4. ASSUME TasksAndTabs PROVE RegInv'
    <2> USE DEF Registers
    <2>1. CASE ReadState
        BY <1>1, <2>1, RepairedAdvance, NotedInv DEF ReadState
    <2>2. ASSUME NEW t \in Tasks, NEW next \in Alive \cup Endings, ControlTask(t, next)
          PROVE  RegInv'
        BY <2>2, ControlTaskAdvance, NotedInv DEF ControlTask
    <2>3. ASSUME NEW b \in Tabs, NEW t \in Tasks \cup {NoTask}, OpenTab(b, t)
          PROVE  RegInv'
        BY <1>1, <2>3, OpenedAdvance, NotedInv DEF OpenTab
    <2>4. ASSUME NEW b \in Tabs, NEW a \in Agents \cup {Nobody}, FocusTab(b, a)
          PROVE  RegInv'
        <3>1. Advance(reg, Looked(reg, b)) /\ b \in Open(Looked(reg, b))
            BY <1>1, <2>4, LookedAdvance DEF FocusTab
        <3>2. Advance(Looked(reg, b), reg')
            BY <2>4, <3>1, FocusAdvance DEF FocusTab, Advance
        <3>3. QED
            BY <2>4, <3>1, <3>2, AdvanceTwice, NotedInv DEF FocusTab
    <2>5. ASSUME NEW b \in Tabs, NEW a \in Agents \cup {Nobody}, CloseTab(b, a)
          PROVE  RegInv'
        BY <1>1, <2>5, ClosedAdvance, NotedInv DEF CloseTab
    <2>6. ASSUME NEW b \in Tabs, NEW t \in Tasks, Delegate(b, t) PROVE RegInv'
        BY <2>6, DelegateAdvance, NotedInv DEF Delegate
    <2>7. ASSUME NEW b \in Tabs, TakeBack(b) PROVE RegInv'
        BY <2>7, TakeBackInv
    <2>8. QED
        BY <1>4, <2>1, <2>2, <2>3, <2>4, <2>5, <2>6, <2>7 DEF TasksAndTabs
<1>5. ASSUME NEW b \in Tabs, NEW a \in Agents, Leases(b, a) PROVE RegInv'
    <2>1. CASE LockTab(b, a)
        <3>1. reg' = Leased(reg, b, a, FALSE)
            BY <2>1 DEF LockTab, Leased
        <3>2. Advance(reg, reg')
            BY <1>1, <3>1, LeaseAdvance
        <3>3. QED
            BY <2>1, <3>2, NotedInv DEF LockTab
    <2>2. CASE Heartbeat(b, a)
        <3>1. reg' = Leased(reg, b, a, FALSE)
            BY <1>1, <2>2 DEF Heartbeat, Leased, RegOK, Registry, TabState
        <3>2. Advance(reg, reg')
            BY <1>1, <3>1, LeaseAdvance
        <3>3. QED
            BY <2>2, <3>2, NotedInv DEF Heartbeat
    <2>3. CASE UnlockTab(b, a)
        BY <1>1, <2>3, LookedAdvance, NotedInv DEF UnlockTab
    <2>4. QED
        BY <1>5, <2>1, <2>2, <2>3 DEF Leases
<1>6. ASSUME NEW b \in Tabs, LeaseRunsOut(b) PROVE RegInv'
    <2> DEFINE a == reg.tab[b].lease
    <2>1. a \in Agents \cup {Nobody}
        BY DEF RegOK, Registry, TabState
    <2>2. reg' = Leased(reg, b, a, TRUE)
        BY <1>1, <1>6 DEF LeaseRunsOut, Leased, RegOK, Registry, TabState
    <2> HIDE DEF a
    <2>3. Advance(reg, reg')
        BY <1>1, <2>1, <2>2, LeaseAdvance
    <2>4. QED
        BY <1>6, <2>3, NotedInv DEF LeaseRunsOut
<1>7. ASSUME NEW p \in Prompts, AsksUser(p) PROVE RegInv'
    <2>1. ASSUME NEW kind \in Kinds, NEW t \in Tasks \cup {NoTask}, NEW b \in Tabs \cup {NoTab},
                 RecordPrompt(p, kind, t, b)
          PROVE  RegInv'
        BY <2>1, RecordPromptAdvance, NotedInv DEF RecordPrompt, Registers
    <2>2. ASSUME NEW how \in {"accepted", "closed"}, AnswerPrompt(p, how)
          PROVE  RegInv'
        BY <2>2, AnswerAdvance, NotedInv DEF AnswerPrompt, Registers
    <2>3. ASSUME NEW how \in {"granted", "closed"}, AnswerGrant(p, how)
          PROVE  RegInv'
        BY <2>3, AnswerAdvance, NotedInv DEF AnswerGrant, Registers
    <2>4. QED
        BY <1>7, <2>1, <2>2, <2>3, ApplyAnswerInv DEF AsksUser
<1>8. ASSUME NEW q \in Reqs, Acts(q) PROVE RegInv'
    <2>1. ASSUME NEW b \in Tabs \cup {NoTab}, Checked(q, b) PROVE RegInv'
        <3>1. Advance(reg, reg)
            BY <1>1 DEF Advance
        <3>2. b \in Tabs => Advance(reg, Looked(reg, b))
            BY <1>1, LookedAdvance
        <3>3. Advance(reg, reg')
            BY <2>1, <3>1, <3>2 DEF Checked, Admits
        <3>4. QED
            BY <2>1, <3>3, NotedInv DEF Checked, Admits
    <2>2. QED
        BY <1>2, <1>8, <2>1
        DEF Acts, Submit, Unblocked, Record, RecordThenRefuse, Returns, Refuse, Goes
<1>9. CASE UNCHANGED vars
    BY <1>9 DEF vars, OrphansOnlyByTakeBack, ActiveContext
<1>10. QED
    BY <1>3, <1>4, <1>5, <1>6, <1>7, <1>8, <1>9 DEF Next

-----------------------------------------------------------------------------
(* Leases and the rest of the state.                                         *)

RestOK ==
    /\ start \in [Tasks -> StartState]
    /\ req \in [Reqs -> Request]
    /\ trust \in [Tabs -> SUBSET Agents]
    /\ scene \in Scenes
    /\ calls \in 0 .. MaxCalls[scene]

\* The tab of a request that was authorized for a task's tab was opened, and
\* while it is an agent's it is that task's.
ReqFits ==
    \A q \in Reqs :
        /\ req[q].at \in {"authorized", "queued"}
        /\ req[q].task # NoTask /\ req[q].tab # NoTab
        => LET e == reg.tab[req[q].tab] IN
           e.at # "new" /\ (e.owner = "Agent" => e.task = req[q].task)

IInv == RegInv /\ RestOK /\ LeaseExclusive /\ ReqFits

\* Where the tab stays as it is, and nobody new counts on it, so does the lease.
SameLease(b) ==
    /\ reg'.tab[b].at = reg.tab[b].at
    /\ reg'.tab[b].lease = reg.tab[b].lease
    /\ reg'.tab[b].expired = reg.tab[b].expired
    /\ trust'[b] \subseteq trust[b]

\* A lease is disturbed in one tab at most, and there nobody counts on it.
LEMMA LeaseKept ==
    ASSUME LeaseExclusive, NEW b \in Tabs \cup {NoTab},
           \A x \in Tabs \ {b} : SameLease(x),
           b \in Tabs => trust'[b] = {} \/ SameLease(b)
    PROVE  LeaseExclusive'
<1> SUFFICES ASSUME NEW x \in Tabs, NEW a \in trust'[x]
             PROVE  x \in Open(reg)' /\ reg'.tab[x].lease = a /\ ~reg'.tab[x].expired
    BY DEF LeaseExclusive
<1>1. SameLease(x) /\ a \in trust[x]
    BY DEF SameLease
<1>2. QED
    BY <1>1 DEF LeaseExclusive, SameLease, Open

\* No tab and no trust changes.
LEMMA LeaseUntouched ==
    ASSUME LeaseExclusive, reg'.tab = reg.tab, UNCHANGED trust
    PROVE  LeaseExclusive'
BY DEF LeaseExclusive, Open

\* Nobody counts on a tab that is not open, is free or has run out, and nobody
\* but its holder on one that is leased.
LEMMA WhoTrusts ==
    ASSUME LeaseExclusive, NEW b \in Tabs, NEW a \in trust[b]
    PROVE  b \in Open(reg) /\ reg.tab[b].at = "open" /\ reg.tab[b].lease = a
           /\ ~reg.tab[b].expired
BY DEF LeaseExclusive, Open

\* What is put to the user, and answered, leaves the tabs alone.
LEMMA PromptsKeepTabs ==
    ASSUME RegOK(reg), NEW p \in Prompts, AsksUser(p)
    PROVE  reg'.tab = reg.tab
BY DEF AsksUser, RecordPrompt, AnswerPrompt, AnswerGrant, ApplyAnswer, ActiveSet, RegOK,
       Registry

\* Every step keeps the leases exclusive.
LEMMA LeaseStep ==
    ASSUME IInv, [Next]_vars
    PROVE  LeaseExclusive'
<1>1. RegOK(reg) /\ RegInv /\ LeaseExclusive /\ trust \in [Tabs -> SUBSET Agents]
    BY DEF IInv, RegInv, RestOK
<1>2. ASSUME Elsewhere, UNCHANGED trust PROVE LeaseExclusive'
    BY <1>1, <1>2, LeaseUntouched DEF Elsewhere
<1>3. ASSUME NEW b \in Tabs, UNCHANGED trust, trust[b] = {},
             \A x \in Tabs \ {b} : reg'.tab[x] = reg.tab[x]
      PROVE  LeaseExclusive'
    BY <1>1, <1>3, LeaseKept DEF SameLease
<1>4. ASSUME NEW t \in Tasks, Starts(t) PROVE LeaseExclusive'
    <2>1. CASE AskStart(t)
        BY <1>1, <2>1, RepairedAdvance, LeaseUntouched DEF AskStart
    <2>2. ASSUME NEW b \in Tabs, StartTask(t, b) PROVE LeaseExclusive'
        <3>1. \A x \in Tabs \ {b} : reg'.tab[x] = reg.tab[x]
            BY <1>1, <2>2, StartTaskAdvance
        <3>2. trust[b] = {} /\ UNCHANGED trust
            BY <1>1, <2>2, WhoTrusts DEF StartTask
        <3>3. QED
            BY <1>3, <3>1, <3>2
    <2>3. ASSUME NEW b \in Tabs, RollBackCloses(t, b) PROVE LeaseExclusive'
        <3>1. trust[b] = {}
            BY <1>1, <2>3, WhoTrusts, AbsentAssumption DEF RollBackCloses, LeaseDenies
        <3>2. QED
            BY <1>1, <1>3, <2>3, <3>1, ClosedAdvance DEF RollBackCloses
    <2>4. CASE RollBackEnds(t)
        BY <1>1, <2>4, FocusAdvance, LeaseUntouched DEF RollBackEnds
    <2>5. QED
        BY <1>2, <1>4, <2>1, <2>2, <2>3, <2>4 DEF Starts, Synced, RollBack, RollBackFails
<1>5. ASSUME TasksAndTabs PROVE LeaseExclusive'
    <2> USE DEF Registers
    <2>1. CASE ReadState
        BY <1>1, <2>1, RepairedAdvance, LeaseUntouched DEF ReadState
    <2>2. ASSUME NEW t \in Tasks, NEW next \in Alive \cup Endings, ControlTask(t, next)
          PROVE  LeaseExclusive'
        BY <1>1, <2>2, ControlTaskAdvance, LeaseUntouched DEF ControlTask
    <2>3. ASSUME NEW b \in Tabs, NEW t \in Tasks \cup {NoTask}, OpenTab(b, t)
          PROVE  LeaseExclusive'
        BY <1>1, <1>3, <2>3, OpenedAdvance, WhoTrusts DEF OpenTab
    <2>4. ASSUME NEW b \in Tabs, NEW a \in Agents \cup {Nobody}, FocusTab(b, a)
          PROVE  LeaseExclusive'
        <3>1. /\ \A x \in Tabs \ {b} : Looked(reg, b).tab[x] = reg.tab[x]
              /\ ~reg.tab[b].expired => Looked(reg, b) = reg
              /\ RegOK(Looked(reg, b)) /\ b \in Open(Looked(reg, b))
            BY <1>1, <2>4, LookedAdvance DEF FocusTab, Advance
        <3>2. reg'.tab = Looked(reg, b).tab
            BY <2>4, <3>1, FocusAdvance DEF FocusTab
        <3>3. CASE reg.tab[b].expired
            BY <1>1, <1>3, <2>4, <3>1, <3>2, <3>3, WhoTrusts DEF FocusTab
        <3>4. CASE ~reg.tab[b].expired
            BY <1>1, <2>4, <3>1, <3>2, <3>4, LeaseUntouched DEF FocusTab
        <3>5. QED
            BY <3>3, <3>4
    <2>5. ASSUME NEW b \in Tabs, NEW a \in Agents \cup {Nobody}, CloseTab(b, a)
          PROVE  LeaseExclusive'
        <3>1. trust'[b] = {}
            BY <1>1, <2>5, WhoTrusts DEF CloseTab, LeaseDenies
        <3>2. \A x \in Tabs \ {b} : reg'.tab[x] = reg.tab[x] /\ trust'[x] = trust[x]
            BY <1>1, <2>5, ClosedAdvance DEF CloseTab
        <3>3. QED
            BY <1>1, <3>1, <3>2, LeaseKept DEF SameLease
    <2>6. ASSUME NEW b \in Tabs, NEW t \in Tasks, Delegate(b, t) PROVE LeaseExclusive'
        <3>1. \A x \in Tabs : SameLease(x)
            BY <1>1, <2>6 DEF Delegate, SameLease, RegOK, Registry, TabState
        <3>2. QED
            BY <1>1, <3>1, LeaseKept
    <2>7. ASSUME NEW b \in Tabs, TakeBack(b) PROVE LeaseExclusive'
        <3>1. \A x \in Tabs \ {b} : reg'.tab[x] = reg.tab[x] /\ trust'[x] = trust[x]
            BY <1>1, <2>7, LookedAdvance DEF TakeBack, Advance, RegOK, Registry
        <3>2. trust'[b] = {}
            BY <1>1, <2>7 DEF TakeBack
        <3>3. QED
            BY <1>1, <3>1, <3>2, LeaseKept DEF SameLease
    <2>8. QED
        BY <1>5, <2>1, <2>2, <2>3, <2>4, <2>5, <2>6, <2>7 DEF TasksAndTabs
<1>6. ASSUME NEW b \in Tabs, NEW a \in Agents, Leases(b, a) PROVE LeaseExclusive'
    <2>1. \A x \in Tabs \ {b} : trust'[x] = trust[x]
        BY <1>1, <1>6 DEF Leases, LockTab, Heartbeat, UnlockTab
    <2>2. CASE LockTab(b, a) \/ Heartbeat(b, a)
        <3>1. reg' = Leased(reg, b, a, FALSE)
            <4>1. CASE LockTab(b, a)
                BY <4>1 DEF LockTab, Leased
            <4>2. CASE Heartbeat(b, a)
                BY <1>1, <4>2 DEF Heartbeat, Leased, RegOK, Registry, TabState
            <4>3. QED
                BY <2>2, <4>1, <4>2
        <3>2. /\ \A x \in Tabs \ {b} : reg'.tab[x] = reg.tab[x]
              /\ reg'.tab[b].at = reg.tab[b].at /\ reg'.tab[b].lease = a
              /\ reg'.tab[b].expired = FALSE
            <4> DEFINE e == FALSE
            <4>1. a \in Agents \cup {Nobody} /\ e \in BOOLEAN
                OBVIOUS
            <4> HIDE DEF e
            <4>2. /\ \A x \in Tabs \ {b} : Leased(reg, b, a, e).tab[x] = reg.tab[x]
                  /\ Leased(reg, b, a, e).tab[b].at = reg.tab[b].at
                  /\ Leased(reg, b, a, e).tab[b].lease = a
                  /\ Leased(reg, b, a, e).tab[b].expired = e
                BY <1>1, <4>1, LeaseAdvance
            <4>3. QED
                BY <3>1, <4>2 DEF e
        <3>3. trust[b] \subseteq {a} /\ reg.tab[b].at = "open"
            <4>1. CASE LockTab(b, a)
                BY <1>1, <4>1, WhoTrusts, AbsentAssumption DEF LockTab, Looked, Open
            <4>2. CASE Heartbeat(b, a)
                BY <1>1, <4>2, WhoTrusts DEF Heartbeat, Open
            <4>3. QED
                BY <2>2, <4>1, <4>2
        <3>4. trust'[b] = {a}
            BY <1>1, <2>2, <3>3 DEF LockTab, Heartbeat
        <3>5. QED
            BY <1>1, <2>1, <3>2, <3>3, <3>4 DEF LeaseExclusive, Open
    <2>3. CASE UnlockTab(b, a)
        <3>1. \A x \in Tabs \ {b} : reg'.tab[x] = reg.tab[x]
            BY <1>1, <2>3, LookedAdvance DEF UnlockTab
        <3>2. trust'[b] = {}
            BY <1>1, <2>3, WhoTrusts, AbsentAssumption DEF UnlockTab, Looked
        <3>3. QED
            BY <1>1, <2>1, <3>1, <3>2, LeaseKept DEF SameLease
    <2>4. QED
        BY <1>6, <2>2, <2>3 DEF Leases
<1>7. ASSUME NEW b \in Tabs, LeaseRunsOut(b) PROVE LeaseExclusive'
    <2>1. \A x \in Tabs \ {b} : reg'.tab[x] = reg.tab[x] /\ trust'[x] = trust[x]
        BY <1>1, <1>7 DEF LeaseRunsOut, RegOK, Registry
    <2>2. trust'[b] = {}
        BY <1>1, <1>7, WhoTrusts DEF LeaseRunsOut
    <2>3. QED
        BY <1>1, <2>1, <2>2, LeaseKept DEF SameLease
<1>8. ASSUME NEW p \in Prompts, AsksUser(p) PROVE LeaseExclusive'
    <2>1. reg'.tab = reg.tab
        BY <1>1, <1>8, PromptsKeepTabs
    <2>2. UNCHANGED trust
        BY <1>8 DEF AsksUser, RecordPrompt, AnswerPrompt, AnswerGrant, ApplyAnswer, Registers
    <2>3. QED
        BY <1>1, <2>1, <2>2, LeaseUntouched
<1>9. ASSUME NEW q \in Reqs, Acts(q) PROVE LeaseExclusive'
    <2>1. ASSUME NEW b \in Tabs \cup {NoTab}, Checked(q, b) PROVE LeaseExclusive'
        <3>1. UNCHANGED trust
            BY <2>1 DEF Checked, Admits
        <3>2. CASE b # NoTab /\ reg.tab[b].expired
            <4>1. b \in Tabs /\ reg' = Looked(reg, b)
                BY <2>1, <3>2 DEF Checked, Admits
            <4>2. \A x \in Tabs \ {b} : reg'.tab[x] = reg.tab[x]
                BY <1>1, <4>1, LookedAdvance
            <4>3. trust[b] = {}
                BY <1>1, <3>2, <4>1, WhoTrusts
            <4>4. QED
                BY <1>3, <3>1, <4>1, <4>2, <4>3
        <3>3. CASE b = NoTab \/ ~reg.tab[b].expired
            <4>1. reg' = reg
                BY <2>1, <3>3 DEF Checked, Admits, Looked
            <4>2. QED
                BY <1>1, <3>1, <4>1, LeaseUntouched
        <3>4. QED
            BY <3>2, <3>3
    <2>2. QED
        BY <1>2, <1>9, <2>1
        DEF Acts, Submit, Unblocked, Record, RecordThenRefuse, Returns, Refuse, Goes
<1>10. CASE UNCHANGED vars
    BY <1>1, <1>10, LeaseUntouched DEF vars
<1>11. QED
    BY <1>4, <1>5, <1>6, <1>7, <1>8, <1>9, <1>10 DEF Next

\* A call that starts a task stays well formed when it moves on.
LEMMA StartMoves ==
    ASSUME NEW s \in StartState, NEW left \in SUBSET Tabs,
           NEW at \in {"idle", "asked", "syncing", "closing", "done", "stuck"}
    PROVE  /\ [s EXCEPT !.at = at] \in StartState
           /\ [s EXCEPT !.left = left] \in StartState
           /\ [s EXCEPT !.at = at, !.left = left] \in StartState
BY DEF StartState

\* The calls under way, the requests and the trust keep their types.
LEMMA RestStep ==
    ASSUME IInv, [Next]_vars
    PROVE  RestOK'
<1>1. /\ RestOK /\ RegOK(reg) /\ MaxCalls[scene] \in Nat
      /\ reg.activeTab \in Tabs \cup {NoTab}
    BY MaxCallsAssumption DEF IInv, RegInv, RegOK, Registry, RestOK
<1> USE <1>1 DEF RestOK
<1>2. ASSUME Call, scene' = scene PROVE calls' \in 0 .. MaxCalls[scene']
    BY <1>2 DEF Call
<1>3. ASSUME NEW t \in Tasks, Starts(t) PROVE RestOK'
    <2>0. start[t] \in StartState
        OBVIOUS
    <2>1. ASSUME NEW o \in StartState, start' = [start EXCEPT ![t] = o]
          PROVE  start' \in [Tasks -> StartState]
        BY <2>1
    <2>2. CASE AskStart(t)
        <3>1. reg' \in Registry
            BY <2>2, RepairedAdvance DEF AskStart, Advance, RegOK
        <3>2. reg'.activeTab \in Tabs \cup {NoTab}
            BY <3>1 DEF Registry
        <3> DEFINE b == reg'.activeTab
                   o == [NoStart EXCEPT !.at = "asked", !.prev = b]
        <3>3. o \in StartState
            BY <3>2 DEF NoStart, StartState
        <3>4. start' = [start EXCEPT ![t] = o]
            BY <2>2 DEF AskStart
        <3> HIDE DEF o
        <3>5. QED
            BY <1>2, <2>1, <2>2, <3>3, <3>4 DEF AskStart
    <2>3. CASE RollBack(t)
        <3> DEFINE own == TabsOf(reg, t)
                   f == reg.activeTab \in own
                   o == [start[t] EXCEPT !.at = "closing", !.left = own, !.focused = f]
        <3>1. own \in SUBSET Tabs /\ f \in BOOLEAN
            BY DEF TabsOf, Open
        <3>2. \/ start' = [start EXCEPT ![t] = o]
              \/ start' = [start EXCEPT ![t] = [start[t] EXCEPT !.at = "stuck"]]
            BY <2>3 DEF RollBack
        <3> HIDE DEF own, f
        <3>3. o \in StartState /\ [start[t] EXCEPT !.at = "stuck"] \in StartState
            BY <3>1, ZenonT(60) DEF StartState
        <3> HIDE DEF o
        <3>4. start' \in [Tasks -> StartState]
            BY <3>2, <3>3
        <3>5. QED
            BY <2>3, <3>4 DEF RollBack, Inside, Elsewhere
    <2>4. ASSUME NEW b \in Tabs, RollBackCloses(t, b) PROVE RestOK'
        <3>0. start[t].left \ {b} \in SUBSET Tabs
            BY <2>0 DEF StartState
        <3> DEFINE o == [start[t] EXCEPT !.left = start[t].left \ {b}]
        <3>1. o \in StartState
            BY <2>0, <3>0, StartMoves, Zenon
        <3>2. start' = [start EXCEPT ![t] = o]
            BY <2>4 DEF RollBackCloses
        <3> HIDE DEF o
        <3>3. QED
            BY <2>1, <2>4, <3>1, <3>2 DEF RollBackCloses, Inside
    <2>5. ASSUME NEW b \in Tabs, RollBackFails(t, b) PROVE RestOK'
        <3> DEFINE o == [start[t] EXCEPT !.at = "stuck", !.left = {}]
        <3>1. o \in StartState
            BY <2>0, StartMoves, Zenon
        <3>2. start' = [start EXCEPT ![t] = o]
            BY <2>5 DEF RollBackFails
        <3> HIDE DEF o
        <3>3. QED
            BY <2>1, <2>5, <3>1, <3>2 DEF RollBackFails, Inside, Elsewhere
    <2>6. ASSUME NEW at \in {"syncing", "done", "stuck"},
                 start' = [start EXCEPT ![t].at = at]
          PROVE  start' \in [Tasks -> StartState]
        <3> DEFINE o == [start[t] EXCEPT !.at = at]
        <3>1. o \in StartState
            BY <2>0, StartMoves, Zenon
        <3>2. start' = [start EXCEPT ![t] = o]
            BY <2>6
        <3> HIDE DEF o
        <3>3. QED
            BY <2>1, <3>1, <3>2
    <2>7. ASSUME NEW b \in Tabs, StartTask(t, b) PROVE RestOK'
        BY <2>6, <2>7 DEF StartTask, Inside
    <2>8. CASE Synced(t)
        <3>1. start' \in [Tasks -> StartState]
            BY <1>2, <2>8 DEF RestOK, Synced, NoStart, StartState
        <3>2. QED
            BY <2>6, <2>8, <3>1 DEF Synced, Inside, Elsewhere
    <2>9. CASE RollBackEnds(t)
        <3>1. \E at \in {"done", "stuck"} : start' = [start EXCEPT ![t].at = at]
            BY <2>9 DEF RollBackEnds
        <3>2. QED
            BY <2>6, <2>9, <3>1 DEF RollBackEnds, Inside
    <2>10. QED
        BY <1>3, <2>2, <2>3, <2>4, <2>5, <2>7, <2>8, <2>9 DEF Starts
<1>4. ASSUME NEW q \in Reqs, Acts(q) PROVE RestOK'
    <2>1. UNCHANGED <<start, trust, scene>>
        BY <1>4 DEF Acts, Submit, Unblocked, Checked, Admits, Record, RecordThenRefuse,
                    Returns, Refuse, Goes, Elsewhere
    <2>2. calls' \in 0 .. MaxCalls[scene']
        BY <1>2, <1>4, <2>1 DEF Acts, Submit, Unblocked, Checked, Admits, Record,
            RecordThenRefuse, Returns, Refuse, Goes, Inside
    <2>3. ASSUME NEW t \in Tasks \cup {NoTask}, NEW b \in Tabs \cup {NoTab},
                 NEW a \in Agents \cup {Nobody}, Submit(q, t, b, a)
          PROVE  req' \in [Reqs -> Request]
        BY <2>3 DEF Submit, Request
    <2>4. ASSUME NEW at \in {"queued", "acting"},
                 req' = [req EXCEPT ![q].at = at]
          PROVE  req' \in [Reqs -> Request]
        BY <2>4 DEF Request
    <2>5. ASSUME NEW t \in Tasks \cup {NoTask}, NEW at \in {"recorded", "refused"},
                 Returns(q, at, t)
          PROVE  req' \in [Reqs -> Request]
        BY <2>5 DEF Returns, NoRequest, Request
    <2>51. ASSUME NEW b \in Tabs \cup {NoTab}
           PROVE  Meant(q, b) \in Tasks \cup {NoTask}
        BY <2>51 DEF Meant, RegOK, Registry, TabState, Request
    <2>6. req' \in [Reqs -> Request]
        BY <1>4, <2>3, <2>4, <2>5, <2>51
        DEF Acts, Unblocked, Checked, Admits, Record, RecordThenRefuse, Refuse, Goes
    <2>7. QED
        BY <2>1, <2>2, <2>6
<1>5. ASSUME TasksAndTabs PROVE RestOK'
    BY <1>2, <1>5, ZenonT(60)
    DEF TasksAndTabs, ReadState, ControlTask, OpenTab, FocusTab, CloseTab, Delegate,
        TakeBack, Registers
<1>6. ASSUME NEW b \in Tabs, NEW a \in Agents, Leases(b, a) PROVE RestOK'
    BY <1>2, <1>6 DEF Leases, LockTab, Heartbeat, UnlockTab
<1>7. ASSUME NEW b \in Tabs, LeaseRunsOut(b) PROVE RestOK'
    BY <1>7 DEF LeaseRunsOut, Inside
<1>8. ASSUME NEW p \in Prompts, AsksUser(p) PROVE RestOK'
    BY <1>2, <1>8 DEF AsksUser, RecordPrompt, AnswerPrompt, AnswerGrant, ApplyAnswer,
                      Registers, Inside
<1>9. CASE UNCHANGED vars
    BY <1>9 DEF vars
<1>10. QED
    BY <1>3, <1>4, <1>5, <1>6, <1>7, <1>8, <1>9 DEF Next

\* A tab that was opened gets a new task only with a new owner.
LEMMA TabsStay ==
    ASSUME IInv, [Next]_vars
    PROVE  Stays(reg, reg')
<1>1. RegOK(reg) /\ RegInv
    BY DEF IInv, RegInv
<1>2. ASSUME reg'.tab = reg.tab PROVE Stays(reg, reg')
    BY <1>2 DEF Stays
<1>3. ASSUME NEW b \in Tabs, reg.tab[b].at = "new",
             \A x \in Tabs \ {b} : reg'.tab[x] = reg.tab[x]
      PROVE  Stays(reg, reg')
    BY <1>3 DEF Stays
<1>4. ASSUME NEW t \in Tasks, Starts(t) PROVE Stays(reg, reg')
    <2>1. CASE AskStart(t)
        BY <1>1, <1>2, <2>1, RepairedAdvance DEF AskStart
    <2>2. ASSUME NEW b \in Tabs, StartTask(t, b) PROVE Stays(reg, reg')
        BY <1>1, <1>3, <2>2, StartTaskAdvance DEF StartTask
    <2>3. ASSUME NEW b \in Tabs, RollBackCloses(t, b) PROVE Stays(reg, reg')
        BY <1>1, <2>3, ClosedAdvance DEF RollBackCloses
    <2>4. CASE RollBackEnds(t)
        BY <1>1, <1>2, <2>4, FocusAdvance DEF RollBackEnds
    <2>5. QED
        BY <1>2, <1>4, <2>1, <2>2, <2>3, <2>4
        DEF Starts, Synced, RollBack, RollBackFails, Elsewhere
<1>5. ASSUME TasksAndTabs PROVE Stays(reg, reg')
    <2>1. CASE ReadState
        BY <1>1, <1>2, <2>1, RepairedAdvance DEF ReadState
    <2>2. ASSUME NEW t \in Tasks, NEW next \in Alive \cup Endings, ControlTask(t, next)
          PROVE  Stays(reg, reg')
        BY <1>1, <1>2, <2>2, ControlTaskAdvance
    <2>3. ASSUME NEW b \in Tabs, NEW t \in Tasks \cup {NoTask}, OpenTab(b, t)
          PROVE  Stays(reg, reg')
        BY <1>1, <1>3, <2>3, OpenedAdvance DEF OpenTab
    <2>4. ASSUME NEW b \in Tabs, NEW a \in Agents \cup {Nobody}, FocusTab(b, a)
          PROVE  Stays(reg, reg')
        <3>1. /\ Stays(reg, Looked(reg, b))
              /\ RegOK(Looked(reg, b)) /\ b \in Open(Looked(reg, b))
            BY <1>1, <2>4, LookedAdvance DEF FocusTab, Advance
        <3>2. reg'.tab = Looked(reg, b).tab
            BY <2>4, <3>1, FocusAdvance DEF FocusTab
        <3>3. QED
            BY <3>1, <3>2 DEF Stays
    <2>5. ASSUME NEW b \in Tabs, NEW a \in Agents \cup {Nobody}, CloseTab(b, a)
          PROVE  Stays(reg, reg')
        BY <1>1, <2>5, ClosedAdvance DEF CloseTab
    <2>6. ASSUME NEW b \in Tabs, NEW t \in Tasks, Delegate(b, t)
          PROVE  Stays(reg, reg')
        BY <1>1, <2>6 DEF Delegate, Stays, Open, RegOK, Registry, TabState
    <2>7. ASSUME NEW b \in Tabs, TakeBack(b) PROVE Stays(reg, reg')
        BY <1>1, <2>7 DEF TakeBack, Unleased, Stays, Open, RegOK, Registry, TabState
    <2>8. QED
        BY <1>5, <2>1, <2>2, <2>3, <2>4, <2>5, <2>6, <2>7 DEF TasksAndTabs
<1>6. ASSUME NEW b \in Tabs, NEW a \in Agents, Leases(b, a) PROVE Stays(reg, reg')
    <2>1. CASE LockTab(b, a)
        BY <1>1, <2>1 DEF LockTab, Stays, RegOK, Registry, TabState
    <2>2. CASE Heartbeat(b, a)
        BY <1>1, <2>2 DEF Heartbeat, Stays, RegOK, Registry, TabState
    <2>3. CASE UnlockTab(b, a)
        BY <1>1, <2>3, LookedAdvance DEF UnlockTab
    <2>4. QED
        BY <1>6, <2>1, <2>2, <2>3 DEF Leases
<1>7. ASSUME NEW b \in Tabs, LeaseRunsOut(b) PROVE Stays(reg, reg')
    BY <1>1, <1>7 DEF LeaseRunsOut, Stays, RegOK, Registry, TabState
<1>8. ASSUME NEW p \in Prompts, AsksUser(p) PROVE Stays(reg, reg')
    BY <1>1, <1>2, <1>8, PromptsKeepTabs
<1>9. ASSUME NEW q \in Reqs, Acts(q) PROVE Stays(reg, reg')
    <2>1. ASSUME NEW b \in Tabs \cup {NoTab}, Checked(q, b) PROVE Stays(reg, reg')
        BY <1>1, <1>2, <2>1, LookedAdvance DEF Checked, Admits
    <2>2. QED
        BY <1>2, <1>9, <2>1
        DEF Acts, Submit, Unblocked, Record, RecordThenRefuse, Returns, Refuse, Goes, Elsewhere
<1>10. CASE UNCHANGED vars
    BY <1>2, <1>10 DEF vars
<1>11. QED
    BY <1>4, <1>5, <1>6, <1>7, <1>8, <1>9, <1>10 DEF Next

\* Only Acts changes a request.
LEMMA WhoChangesReq ==
    ASSUME Next, req' # req
    PROVE  \E q \in Reqs : Acts(q)
BY ZenonT(60) DEF Next, Starts, AskStart, StartTask, Synced, RollBack, RollBackCloses,
    RollBackFails, RollBackEnds, TasksAndTabs, ReadState, ControlTask, OpenTab,
    FocusTab, CloseTab, Delegate, TakeBack, Registers, Leases, LockTab,
    Heartbeat, UnlockTab, LeaseRunsOut, AsksUser, RecordPrompt, AnswerPrompt,
    AnswerGrant, ApplyAnswer

\* A request is authorized for a tab of its task, and what it names stays.
LEMMA ReqStep ==
    ASSUME IInv, [Next]_vars
    PROVE  ReqFits'
<1>1. Stays(reg, reg')
    BY TabsStay
<1>2. req \in [Reqs -> Request] /\ RegOK(reg) /\ ReqFits
    BY DEF IInv, RegInv, RestOK
<1>3. ASSUME NEW q \in Reqs,
             req'[q].task = req[q].task /\ req'[q].tab = req[q].tab,
             req'[q].at \in {"authorized", "queued"} => req[q].at \in {"authorized", "queued"},
             req'[q].at \in {"authorized", "queued"},
             req'[q].task # NoTask, req'[q].tab # NoTab
      PROVE  LET e == reg'.tab[req'[q].tab] IN
             e.at # "new" /\ (e.owner = "Agent" => e.task = req'[q].task)
    <2>1. req[q].tab \in Tabs
        BY <1>2, <1>3 DEF Request
    <2>2. QED
        BY <1>1, <1>2, <1>3, <2>1 DEF Stays, ReqFits
<1>4. CASE req' = req
    BY <1>3, <1>4 DEF ReqFits
<1>5. ASSUME NEW x \in Reqs, Acts(x) PROVE ReqFits'
    <2>1. ASSUME NEW q \in Reqs \ {x}
          PROVE  req'[q] = req[q]
        BY <1>2, <1>5 DEF Acts, Submit, Unblocked, Checked, Admits, Record,
            RecordThenRefuse, Returns, Refuse, Goes
    <2>2. ASSUME NEW t \in Tasks \cup {NoTask}, NEW b \in Tabs \cup {NoTab},
                 NEW a \in Agents \cup {Nobody}, Submit(x, t, b, a),
                 t # NoTask, b # NoTab
          PROVE  /\ req'[x].task = t /\ req'[x].tab = b
                 /\ reg'.tab[b].at # "new"
                 /\ reg'.tab[b].owner = "Agent" => reg'.tab[b].task = t
        <3>1. req'[x].task = t /\ req'[x].tab = b /\ reg' = reg
            BY <1>2, <2>2 DEF Submit, Elsewhere
        <3>2. b \in Open(reg) /\ reg.tab[b].task \in {t, NoTask}
            BY <2>2 DEF Submit
        <3>3. reg.tab[b].at = "open" /\ (reg.tab[b].task = NoTask => reg.tab[b].owner = "User")
            BY <1>2, <3>2 DEF RegOK, TabsFit, Open
        <3>4. QED
            BY <3>1, <3>2, <3>3
    <2>3. ASSUME NEW t \in Tasks \cup {NoTask}, NEW b \in Tabs \cup {NoTab},
                 NEW a \in Agents \cup {Nobody}, Submit(x, t, b, a)
          PROVE  req'[x].task = t /\ req'[x].tab = b
        BY <1>2, <2>3 DEF Submit
    <2>4. ASSUME \A t \in Tasks \cup {NoTask}, b \in Tabs \cup {NoTab},
                    a \in Agents \cup {Nobody} : ~Submit(x, t, b, a)
          PROVE  req'[x].at \in {"authorized", "queued"} =>
                    /\ req'[x].task = req[x].task /\ req'[x].tab = req[x].tab
                    /\ req[x].at \in {"authorized", "queued"}
        <3>1. ASSUME NEW at, req' = [req EXCEPT ![x].at = at]
              PROVE  /\ req'[x].task = req[x].task /\ req'[x].tab = req[x].tab
                     /\ req'[x].at = at
            BY <1>2, <3>1 DEF Request
        <3>2. ASSUME NEW at \in {"recorded", "refused"}, NEW t, Returns(x, at, t)
              PROVE  req'[x].at = at
            BY <1>2, <3>2 DEF Returns, NoRequest
        <3>3. \/ \E b \in Tabs \cup {NoTab} : Unblocked(x, b) \/ Checked(x, b)
              \/ \E b \in Tabs \cup {NoTab} : Record(x, b) \/ RecordThenRefuse(x, b)
              \/ Refuse(x)
            BY <1>5, <2>4 DEF Acts
        <3>4. QED
            BY <3>1, <3>2, <3>3
            DEF Unblocked, Checked, Admits, Record, RecordThenRefuse, Refuse, Goes
    <2>5. ASSUME NEW q \in Reqs, req'[q].at \in {"authorized", "queued"},
                 req'[q].task # NoTask, req'[q].tab # NoTab
          PROVE  LET e == reg'.tab[req'[q].tab] IN
                 e.at # "new" /\ (e.owner = "Agent" => e.task = req'[q].task)
        BY <1>3, <2>1, <2>2, <2>3, <2>4, <2>5
    <2>6. QED
        BY <2>5 DEF ReqFits
<1>6. QED
    BY <1>4, <1>5, WhoChangesReq DEF vars

-----------------------------------------------------------------------------
(* The theorems.                                                             *)

\* It holds before the first task.
LEMMA InitInv == Init => IInv
<1> SUFFICES ASSUME Init PROVE IInv
    OBVIOUS
<1>1. /\ NewTab \in TabState /\ NoPrompt \in PromptState
      /\ NoStart \in StartState /\ NoRequest \in Request
    BY DEF NewTab, TabState, NoPrompt, PromptState, Kinds, NoStart, StartState, NoRequest,
           Request
<1>2. reg \in Registry
    BY <1>1 DEF Init, Registry
<1>3. RestOK
    BY <1>1, MaxCallsAssumption DEF Init, RestOK
<1>4. Open(reg) = {} /\ Orphans(reg) = {} /\ Fits(reg)
    BY DEF Init, Open, NewTab, Orphans, Lives, Alive, Fits
<1>5. PromptsFit(reg)
    BY DEF Init, PromptsFit, NoPrompt
<1>6. LeaseExclusive
    BY DEF Init, LeaseExclusive
<1>7. ReqFits
    BY DEF Init, ReqFits, NoRequest
<1>8. QED
    BY <1>2, <1>3, <1>4, <1>5, <1>6, <1>7
    DEF Init, IInv, RegInv, RegOK, TabsFit, OrphansOnlyByTakeBack, ActiveContext

\* Every state of the registry satisfies the invariant.
THEOREM InvHolds == Spec => []IInv
<1>1. IInv /\ [Next]_vars => IInv'
    BY RegStep, LeaseStep, RestStep, ReqStep DEF IInv
<1>2. QED
    BY <1>1, InitInv, PTL DEF Spec

\* The registry, the calls and the requests keep their types.
THEOREM TypeCorrect == Spec => []TypeOK
<1>1. IInv => TypeOK
    BY DEF IInv, RegInv, RegOK, RestOK, TypeOK
<1>2. QED
    BY <1>1, InvHolds, PTL

\* The task of an open tab is never forgotten.
THEOREM TabsStayConsistent == Spec => []TabsConsistent
<1>1. IInv => TabsConsistent
    BY DEF IInv, RegInv, RegOK, TabsFit, TabsConsistent
<1>2. QED
    BY <1>1, InvHolds, PTL

\* Only a take-back leaves a task that is not over without a tab.
THEOREM OrphansAreTakenBack == Spec => []OrphansOnlyByTakeBack
<1>1. IInv => OrphansOnlyByTakeBack
    BY DEF IInv, RegInv
<1>2. QED
    BY <1>1, InvHolds, PTL

\* A task that ends closes its prompts.
THEOREM PromptsAreClosed == Spec => []PromptsClosed
<1>1. IInv => PromptsClosed
    BY DEF IInv, RegInv, RegOK, PromptsFit, PromptsClosed
<1>2. QED
    BY <1>1, InvHolds, PTL

\* The active tab is open and the active task alive, unless noted as loose.
THEOREM ContextIsActive == Spec => []ActiveContext
<1>1. IInv => ActiveContext
    BY DEF IInv, RegInv
<1>2. QED
    BY <1>1, InvHolds, PTL

\* An agent's lease is its own until it ends or the user takes the tab back.
THEOREM LeasesAreExclusive == Spec => []LeaseExclusive
<1>1. IInv => LeaseExclusive
    BY DEF IInv
<1>2. QED
    BY <1>1, InvHolds, PTL

\* A request for a task's tab reaches the engine only in a tab of that task.
THEOREM RequestsActAtHome == Spec => ActsAtHome
<1> DEFINE Home(q) ==
        /\ req[q].at = "queued" /\ req'[q].at = "acting"
        /\ req[q].task # NoTask /\ req[q].tab # NoTab
        => req[q].tab \in TabsOf(reg, req[q].task)
<1>1. IInv /\ [Next]_vars => [\A q \in Reqs : Home(q)]_vars
    <2> SUFFICES ASSUME IInv, Next, NEW q \in Reqs,
                        req[q].at = "queued", req'[q].at = "acting",
                        req[q].task # NoTask, req[q].tab # NoTab
                 PROVE  req[q].tab \in TabsOf(reg, req[q].task)
        OBVIOUS
    <2>1. req \in [Reqs -> Request] /\ RegOK(reg) /\ ReqFits
        BY Zenon DEF IInv, RegInv, RestOK
    <2>2. PICK x \in Reqs : Acts(x)
        BY WhoChangesReq
    <2>3. PICK b \in Tabs \cup {NoTab} : Checked(q, b)
        <3>1. ASSUME NEW t, NEW b, NEW a, Submit(x, t, b, a) PROVE FALSE
            BY <2>1, <3>1 DEF Submit
        <3>2. ASSUME NEW at, at # "acting", Goes(x, at) PROVE FALSE
            BY <2>1, <3>2 DEF Goes, Request
        <3>3. ASSUME NEW at, at # "acting", NEW t, Returns(x, at, t) PROVE FALSE
            BY <2>1, <3>3 DEF Returns, NoRequest, Request
        <3>4. PICK b \in Tabs \cup {NoTab} : Checked(x, b)
            BY <2>2, <3>1, <3>2, <3>3 DEF Acts, Unblocked, Record, RecordThenRefuse, Refuse
        <3>5. x = q
            BY <2>1, <3>4 DEF Checked, Admits
        <3>6. QED
            BY <3>4, <3>5
\* The tab is not the user's, and one that was handed over is the task's.
    <2>4. /\ b = req[q].tab /\ b \in Open(reg)
          /\ reg.tab[b].owner # "User" /\ ~OfOthers(q, b)
        BY <2>3 DEF Checked, Admits, Targets, ByAgent
    <2>5. reg.tab[b].owner \in {"Agent", "DelegatedToAgent"}
        BY <2>1, <2>4 DEF Open, RegOK, Registry, TabState
    <2>6. reg.tab[b].task = req[q].task
        BY <2>1, <2>4, <2>5 DEF ReqFits, OfOthers
    <2>7. QED
        BY <2>4, <2>6 DEF TabsOf
<1>2. Spec => [][\A q \in Reqs : Home(q)]_vars
    BY <1>1, InvHolds, PTL DEF Spec
<1>3. QED
    BY <1>2 DEF ActsAtHome

================================================================================
