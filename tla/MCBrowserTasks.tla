--------------------------- MODULE MCBrowserTasks ---------------------------
(* Two tasks and three tabs. What takes part together: rollbacks with leases,  *)
(* prompts with hand-over, requests with hand-over and leases.                 *)
EXTENDS BrowserTasks, TLC

MCScenes == {{"start", "lease"}, {"handoff", "prompt"}, {"handoff", "request"},
             {"handoff", "lease", "request"}}

\* A tab that is taken back and handed to another task while a request for it
\* waits: two starts and three calls.
MCMaxCalls == [s \in MCScenes |-> IF s = {"handoff", "request"} THEN 5 ELSE 4]

MCSymmetry == Permutations(Tasks) \cup Permutations(Tabs) \cup Permutations(Agents)

=============================================================================
