-------------------------- MODULE SwBreakpointOps --------------------------
(***************************************************************************)
(* The table of software breakpoints that V5Target keeps                   *)
(* (src/src/gdb_target/breakpoint/software.rs and mod.rs), as operators on *)
(* the table, breaks, and on the program's code in memory, mem.  Code is   *)
(* one instruction per address: the instruction set an address is in, and  *)
(* so which of the two bkpt encodings is written there, never changes.     *)
(***************************************************************************)
EXTENDS Integers

CONSTANTS
  NumSwBreakpoints,     \* slots in the table, 16 in the code
  CodeAddrs,            \* the addresses of the program's instructions
  ReadOnly              \* those below 0x0300_0000

ASSUME SwAssumption ==
  /\ NumSwBreakpoints \in Nat \ {0}
  /\ CodeAddrs \subseteq Nat
  /\ ReadOnly \subseteq CodeAddrs

SwSlots == 0 .. NumSwBreakpoints - 1

\* bkpt is the instruction itself, wherever it came from; the rest are others.
Instruction == {"bkpt", "op", "op2"}

NO_BREAK == [instr_addr |-> -1, enabled |-> FALSE, instr_backup |-> "op",
             user |-> FALSE, internal |-> FALSE]

SwBreakpoint ==
  [instr_addr : CodeAddrs, enabled : BOOLEAN, instr_backup : Instruction,
   user : BOOLEAN, internal : BOOLEAN]

\* The slots that track a breakpoint at addr, and the slots that are None.
SlotsAt(breaks, addr) == {s \in SwSlots : breaks[s].instr_addr = addr}
EmptySlots(breaks) == {s \in SwSlots : breaks[s] = NO_BREAK}

Tracked(breaks) == {a \in CodeAddrs : SlotsAt(breaks, a) # {}}

Lowest(S) == CHOOSE s \in S : \A other \in S : s <= other

(***************************************************************************)
(* SwBreakpoint::set_enabled: nothing if the breakpoint is already in that *)
(* state, else one write, of bkpt or of the backup.                        *)
(***************************************************************************)
WithEnabled(bkpt, enabled) == [bkpt EXCEPT !.enabled = enabled]

Written(bkpt, enabled) == IF enabled THEN "bkpt" ELSE bkpt.instr_backup

(***************************************************************************)
(* V5Target::set_breakpoints_ignored, over every breakpoint in the table.  *)
(* No two of them share an address, so the order of the writes is free.    *)
(***************************************************************************)
\* Faulty variant: the slots that are None are not skipped.
IgnoredBreaksAll(breaks, ignored) ==
  [s \in SwSlots |-> WithEnabled(breaks[s], ~ignored)]

IgnoredBreaks(breaks, ignored) ==
  [s \in SwSlots |->
     IF breaks[s] = NO_BREAK THEN NO_BREAK ELSE WithEnabled(breaks[s], ~ignored)]

\* Faulty variant: re-arming writes the backup again.
IgnoredMemNeverArmed(breaks, mem, ignored) ==
  [a \in CodeAddrs |->
     IF \E s \in SlotsAt(breaks, a) : breaks[s].enabled = ignored
     THEN Written(breaks[Lowest(SlotsAt(breaks, a))], FALSE)
     ELSE mem[a]]

IgnoredMem(breaks, mem, ignored) ==
  [a \in CodeAddrs |->
     IF \E s \in SlotsAt(breaks, a) : breaks[s].enabled = ignored
     THEN Written(breaks[Lowest(SlotsAt(breaks, a))], ~ignored)
     ELSE mem[a]]

(***************************************************************************)
(* register_sw_breakpoint: an address already tracked gets the flag it     *)
(* does not have yet; any other takes the first empty slot, and is written *)
(* at once unless breakpoints are paused.                                  *)
(***************************************************************************)
Flagged(bkpt, internal) == IF internal THEN bkpt.internal ELSE bkpt.user

RegisterResult(breaks, addr, internal) ==
  CASE addr \in ReadOnly -> "CannotWrite"
    [] /\ addr \notin ReadOnly
       /\ SlotsAt(breaks, addr) # {}
       /\ Flagged(breaks[Lowest(SlotsAt(breaks, addr))], internal) -> "AlreadyExists"
    [] /\ addr \notin ReadOnly
       /\ SlotsAt(breaks, addr) = {}
       /\ EmptySlots(breaks) = {} -> "NoSpace"
    [] OTHER -> "Ok"

\* Faulty variant: the backup is read once the breakpoint is in place.
NewBreakReadLate(mem, addr, internal, enabled) ==
  [instr_addr |-> addr, enabled |-> enabled,
   instr_backup |-> IF enabled THEN "bkpt" ELSE mem[addr],
   user |-> ~internal, internal |-> internal]

NewBreak(mem, addr, internal, enabled) ==
  [instr_addr |-> addr, enabled |-> enabled, instr_backup |-> mem[addr],
   user |-> ~internal, internal |-> internal]

WithFlag(bkpt, internal, value) ==
  IF internal THEN [bkpt EXCEPT !.internal = value] ELSE [bkpt EXCEPT !.user = value]

RegisterBreaks(breaks, paused, mem, addr, internal) ==
  IF RegisterResult(breaks, addr, internal) # "Ok" THEN breaks
  ELSE IF SlotsAt(breaks, addr) # {}
       THEN [breaks EXCEPT ![Lowest(SlotsAt(breaks, addr))] = WithFlag(@, internal, TRUE)]
       ELSE [breaks EXCEPT ![Lowest(EmptySlots(breaks))] =
               NewBreak(mem, addr, internal, ~paused)]

\* Whether register_sw_breakpoint writes the instruction (and syncs the cache).
RegisterWrites(breaks, paused, addr, internal) ==
  /\ RegisterResult(breaks, addr, internal) = "Ok"
  /\ SlotsAt(breaks, addr) = {}
  /\ ~paused

RegisterMem(breaks, paused, mem, addr, internal) ==
  IF RegisterWrites(breaks, paused, addr, internal)
  THEN [mem EXCEPT ![addr] = "bkpt"]
  ELSE mem

(***************************************************************************)
(* remove_sw_breakpoint: clears one of the two flags at addr, then drops   *)
(* every breakpoint nobody wants any more, putting its backup back if it   *)
(* was enabled.  The answer is whether a slot was emptied.                 *)
(***************************************************************************)
\* Faulty variant: both flags are cleared.
AfterClearBoth(breaks, s, addr, internal) ==
  IF breaks[s].instr_addr = addr
  THEN [breaks[s] EXCEPT !.user = FALSE, !.internal = FALSE]
  ELSE breaks[s]

AfterClear(breaks, s, addr, internal) ==
  IF breaks[s].instr_addr = addr THEN WithFlag(breaks[s], internal, FALSE) ELSE breaks[s]

Unwanted(bkpt) == bkpt # NO_BREAK /\ ~bkpt.user /\ ~bkpt.internal

Dropped(breaks, addr, internal) ==
  {s \in SwSlots : Unwanted(AfterClear(breaks, s, addr, internal))}

RemoveBreaks(breaks, addr, internal) ==
  [s \in SwSlots |->
     IF s \in Dropped(breaks, addr, internal)
     THEN NO_BREAK
     ELSE AfterClear(breaks, s, addr, internal)]

\* Faulty variant: the slot is emptied without disabling the breakpoint.
RemoveMemUnrestored(breaks, mem, addr, internal) == mem

RemoveMem(breaks, mem, addr, internal) ==
  [a \in CodeAddrs |->
     IF \E s \in Dropped(breaks, addr, internal) :
          breaks[s].instr_addr = a /\ breaks[s].enabled
     THEN Written(breaks[Lowest(SlotsAt(breaks, a))], FALSE)
     ELSE mem[a]]

RemoveResult(breaks, addr, internal) == Dropped(breaks, addr, internal) # {}
=============================================================================
