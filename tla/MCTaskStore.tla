----------------------------- MODULE MCTaskStore -----------------------------
(* TLC instances of TaskStore.  Task 1 runs late windows once, task 2 asks    *)
(* for attention; MCOneTrigger is the single-task schedule.                   *)
EXTENDS TaskStore

MCTrigger == <<{2, 4}, {3}>>
MCPolicy  == <<"RunOnceWhenAvailable", "NeedsAttention">>

MCOneTrigger == <<{2, 3}>>
MCOnePolicy  == <<"RunOnceWhenAvailable">>
=============================================================================
