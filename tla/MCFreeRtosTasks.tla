-------------------------- MODULE MCFreeRtosTasks --------------------------
(***************************************************************************)
(* Three control blocks and room to list two; a context of four words: the *)
(* flag, a register of eight bytes, the critical nesting and one of four   *)
(* bytes; a stack with one word besides the context.                       *)
(***************************************************************************)
EXTENDS FreeRtosTasks

MCHandles       == 1 .. 3
MCFpuRegs       == <<"d0">>
MCBaseRegs      == <<"pc">>
MCWideRegisters == {"d0"}
MCWords         == {0, 1}
MCWrittenWords  == {1}
MCWrittenRegs   == {[d0 |-> 1, pc |-> 0]}
=============================================================================
