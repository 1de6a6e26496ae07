----------------------------- MODULE MCV5Target -----------------------------
(***************************************************************************)
(* An ARM instruction, which is xTaskResumeAll's, and the two Thumb        *)
(* instructions of one word, of which one is vexSystemExitRequest.  GDB    *)
(* writes two contexts that are no code: a PC no instruction of the        *)
(* current set can be at, and the ARM instruction set where Thumb code is. *)
(***************************************************************************)
EXTENDS V5Target

MCProgramText == [a \in CodeAddrs |-> "op"]

MCWrittenContexts ==
  {[pc |-> 10, thumb |-> FALSE], [pc |-> 8, thumb |-> FALSE]}
=============================================================================
