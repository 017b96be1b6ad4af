------------------------ MODULE MCProviderSessions ------------------------
(* Either one Codex run and a caller that aborts it, or two runs of another  *)
(* provider that share their tab and their conversation key.                 *)
EXTENDS ProviderSessions

CONSTANTS codex, first, second, c1

MCRuns == {codex, first, second}
MCCodex == {codex}
MCCallers == {c1}
MCCasts == {{codex, c1}, {first, second}}
MCKeys == {"codex-cli@local", "claude-code@local"}
MCKeyOf == [r \in MCRuns |-> IF r = codex THEN "codex-cli@local" ELSE "claude-code@local"]
=============================================================================
