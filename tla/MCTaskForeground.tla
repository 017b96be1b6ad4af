--------------------------- MODULE MCTaskForeground ---------------------------
(* TLC instances of TaskForeground: three occurrences, one or two by Run now. *)
EXTENDS TaskForeground

CONSTANTS m1, m2, s1

MCRows      == {m1, s1}
MCManual    == {m1}
MCThreeRows == {m1, m2, s1}
MCTwoManual == {m1, m2}
=============================================================================
