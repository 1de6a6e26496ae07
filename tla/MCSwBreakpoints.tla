-------------------------- MODULE MCSwBreakpoints --------------------------
(***************************************************************************)
(* Three writable addresses for two slots, one of them a bkpt of the       *)
(* program's own, and one read-only address.                               *)
(***************************************************************************)
EXTENDS SwBreakpoints

MCProgramText == [a \in CodeAddrs |-> IF a = 4 THEN "bkpt" ELSE "op"]
=============================================================================
