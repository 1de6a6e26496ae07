--------------------------- MODULE MCDebugSession ---------------------------
(***************************************************************************)
(* One task: an ARM instruction, vexSystemExitRequest, a bkpt of the       *)
(* program's own, and an instruction of xTaskResumeAll's.                  *)
(***************************************************************************)
EXTENDS DebugSession

MCProgramText == [a \in CodeAddrs |-> IF a = 8 THEN "bkpt" ELSE "op"]

MCWrittenContexts == {CodeContext(0)}
=============================================================================
