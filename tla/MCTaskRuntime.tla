---------------------------- MODULE MCTaskRuntime ----------------------------
(* TLC instances of TaskRuntime: Grok is tried first, in the middle or not.  *)
EXTENDS TaskRuntime

MCGrokFirst  == {1}
MCGrokSecond == {2}
=============================================================================
