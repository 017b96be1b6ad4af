----------------------------- MODULE ExternalRun -----------------------------
(***************************************************************************)
(* What the registry of provider sessions promises to the one that started *)
(* an external run in it: the contract between ProviderSessions, which      *)
(* keeps it, and TaskRuntime, which drives a run and hears of it only       *)
(* through the registry's snapshot and the run's events.                    *)
(*                                                                         *)
(* Per run: `working` while its stream speaks, `turned` once the stream has *)
(* reported the end of the turn, `exited*` once the run has left the        *)
(* registry and before its terminal event, then the ending that this event  *)
(* tells.  A run that an abort has filed is `cut` while its stream can      *)
(* still speak, and `aborted` after it; it gets no terminal event.          *)
(***************************************************************************)
CONSTANT Runs

VARIABLE state

Init == state = [r \in Runs |-> "idle"]

Move(r, from, to) == state[r] \in from /\ \E s \in to : state' = [state EXCEPT ![r] = s]

\* The start call returns a run, or an error.
Accept(r) == Move(r, {"idle"}, {"working"})
Refuse(r) == Move(r, {"idle"}, {"failed"})

\* The stream reports the end of the turn, or fails: it says nothing more.
EndTurn(r) == Move(r, {"working"}, {"turned"})

\* The supervisor takes the run out of the registry ...
Exit(r) == Move(r, {"working", "turned"}, {"exitedOk", "exitedFailed", "exitedAborted"})

\* ... and announces, after that, the ending that it filed.
Announce(r) ==
    \/ Move(r, {"exitedOk"}, {"succeeded"})
    \/ Move(r, {"exitedFailed"}, {"failed"})
    \/ Move(r, {"exitedAborted"}, {"aborted"})

\* An abort takes the run out of the registry, at once and silently.
Cut(r) ==
    \/ Move(r, {"working"}, {"cut", "aborted"})
    \/ Move(r, {"turned"}, {"aborted"})

\* The stream of a run that was cut ends.
Hush(r) == Move(r, {"cut"}, {"aborted"})

Next == \E r \in Runs :
    Accept(r) \/ Refuse(r) \/ EndTurn(r) \/ Exit(r) \/ Announce(r) \/ Cut(r) \/ Hush(r)

Spec == Init /\ [][Next]_state
=============================================================================
