--------------------------- MODULE SwBreakpoints ---------------------------
(***************************************************************************)
(* The software breakpoints as a component of their own: the table, the    *)
(* memory it patches, and the instructions the processor fetches, which    *)
(* follow memory only where the cache has been synced                      *)
(* (src/src/gdb_target/breakpoint/software.rs and mod.rs,                  *)
(* src/src/cpu/cache.rs).  GDB writes memory behind the table's back       *)
(* (write_addrs in src/src/gdb_target/mod.rs).                             *)
(***************************************************************************)
EXTENDS SwBreakpointOps, FiniteSets

CONSTANTS
  ProgramText,      \* the program as loaded: its instruction at each address
  GdbWrites         \* the addresses at which GDB writes new code

ASSUME SwComponentAssumption ==
  /\ ProgramText \in [CodeAddrs -> Instruction]
  /\ GdbWrites \subseteq CodeAddrs

VARIABLES
  breaks,           \* the table
  paused,           \* breaks_paused
  mem,              \* the program's code in memory
  icache,           \* the instruction the processor would fetch at each address
  text,             \* history: the program's own code, as last written
  result            \* what the last call returned

swvars == <<breaks, paused, mem, icache, text, result>>

Init ==
  /\ breaks = [s \in SwSlots |-> NO_BREAK]
  /\ paused = FALSE
  /\ mem = ProgramText
  /\ icache = ProgramText
  /\ text = ProgramText
  /\ result = "None"

\* Faulty variant: only the d-cache is cleaned.
sync_data_only(addrs) == icache' = icache

\* sync_instruction for the cache lines of addrs, after mem was written.
sync_instruction(addrs) ==
  icache' = [a \in CodeAddrs |-> IF a \in addrs THEN mem'[a] ELSE icache[a]]

set_breakpoints_ignored(ignored) ==
  /\ paused' = ignored
  /\ breaks' = IgnoredBreaks(breaks, ignored)
  /\ mem' = IgnoredMem(breaks, mem, ignored)
  /\ sync_instruction(Tracked(breaks))
  /\ UNCHANGED <<text, result>>

register_sw_breakpoint(addr, internal) ==
  /\ result' = RegisterResult(breaks, addr, internal)
  /\ breaks' = RegisterBreaks(breaks, paused, mem, addr, internal)
  /\ mem' = RegisterMem(breaks, paused, mem, addr, internal)
  /\ sync_instruction(IF RegisterWrites(breaks, paused, addr, internal) THEN {addr} ELSE {})
  /\ UNCHANGED <<paused, text>>

remove_sw_breakpoint(addr, internal) ==
  /\ result' = IF RemoveResult(breaks, addr, internal) THEN "Changed" ELSE "Unchanged"
  /\ breaks' = RemoveBreaks(breaks, addr, internal)
  /\ mem' = RemoveMem(breaks, mem, addr, internal)
  /\ sync_instruction(IF RemoveResult(breaks, addr, internal) THEN {addr} ELSE {})
  /\ UNCHANGED <<paused, text>>

(***************************************************************************)
(* write_addrs: GDB writes code while the program is stopped.  It does not *)
(* sync the cache.  GDB lifts its own breakpoints out at a stop, so it     *)
(* writes where none is tracked.                                           *)
(***************************************************************************)
write_addrs(addr, instr) ==
  /\ paused
  /\ addr \in GdbWrites \ Tracked(breaks)
  /\ mem' = [mem EXCEPT ![addr] = instr]
  /\ text' = [text EXCEPT ![addr] = instr]
  /\ UNCHANGED <<breaks, paused, icache, result>>

\* The processor drops the line holding addr and will fetch it again.
Evict(addr) ==
  /\ icache' = [icache EXCEPT ![addr] = mem[addr]]
  /\ UNCHANGED <<breaks, paused, mem, text, result>>

Next ==
  \/ \E ignored \in BOOLEAN : set_breakpoints_ignored(ignored)
  \/ \E addr \in CodeAddrs, internal \in BOOLEAN :
       register_sw_breakpoint(addr, internal) \/ remove_sw_breakpoint(addr, internal)
  \/ \E addr \in CodeAddrs, instr \in Instruction : write_addrs(addr, instr)
  \/ \E addr \in CodeAddrs : Evict(addr)

Spec == Init /\ [][Next]_swvars

-----------------------------------------------------------------------------
(***************************************************************************)
(* Type invariant.                                                         *)
(***************************************************************************)
TypeOK ==
  /\ breaks \in [SwSlots -> SwBreakpoint \union {NO_BREAK}]
  /\ paused \in BOOLEAN
  /\ mem \in [CodeAddrs -> Instruction]
  /\ icache \in [CodeAddrs -> Instruction]
  /\ text \in [CodeAddrs -> Instruction]
  /\ result \in {"None", "Ok", "AlreadyExists", "NoSpace", "CannotWrite",
                 "Changed", "Unchanged"}

(***************************************************************************)
(* No two slots track one address: a second registration adds a flag       *)
(* (register_sw_breakpoint's scan).                                        *)
(***************************************************************************)
OneSlotPerAddress ==
  \A s, t \in SwSlots :
    breaks[s] # NO_BREAK /\ breaks[s].instr_addr = breaks[t].instr_addr => s = t

(***************************************************************************)
(* Every tracked breakpoint is wanted by somebody, is armed exactly when   *)
(* breakpoints are not paused, and remembers the program's own             *)
(* instruction.                                                            *)
(***************************************************************************)
TableConsistent ==
  \A s \in SwSlots : breaks[s] # NO_BREAK =>
    /\ breaks[s].user \/ breaks[s].internal
    /\ breaks[s].enabled = ~paused
    /\ breaks[s].instr_backup = text[breaks[s].instr_addr]

(***************************************************************************)
(* While breakpoints are paused memory holds the program's own code, with  *)
(* no bkpt of the debugger's left anywhere, whatever was registered or     *)
(* removed before or since (what the monitor shows of the code, and what   *)
(* interrupt handlers run while the program is stopped).                   *)
(***************************************************************************)
ProgramTextShown == paused => mem = text

(***************************************************************************)
(* While they are not, the processor fetches bkpt at every tracked address *)
(* and the program's own instruction at every other, except where GDB      *)
(* wrote code: set_breakpoints_ignored, register_sw_breakpoint and         *)
(* remove_sw_breakpoint sync what they write.                              *)
(***************************************************************************)
BreakpointsTakeEffect ==
  ~paused => \A a \in CodeAddrs :
    /\ a \in Tracked(breaks) => icache[a] = "bkpt"
    /\ a \notin Tracked(breaks) \union GdbWrites => icache[a] = text[a]

\* What makes these inductive: the patches in memory are those of the table, and
\* where it has none the processor runs the program's code, paused or not.
MemoryPatched ==
  \A a \in CodeAddrs :
    mem[a] = IF ~paused /\ a \in Tracked(breaks) THEN "bkpt" ELSE text[a]

UntrackedFetched ==
  \A a \in CodeAddrs \ (Tracked(breaks) \union GdbWrites) : icache[a] = text[a]

TrackedFetched ==
  ~paused => \A a \in Tracked(breaks) : icache[a] = "bkpt"

SwInv ==
  /\ TypeOK
  /\ OneSlotPerAddress
  /\ TableConsistent
  /\ MemoryPatched
  /\ UntrackedFetched
  /\ TrackedFetched

\* The map from addresses to those who want a stop there, as the table has it.
WantedBy(table, a) ==
  {who \in {"user", "internal"} :
     \E s \in SlotsAt(table, a) : Flagged(table[s], who = "internal")}

wanted == [a \in CodeAddrs |-> WantedBy(breaks, a)]

Set == INSTANCE SwBreakpointSet WITH
         Addrs <- CodeAddrs, Refused <- ReadOnly, Capacity <- NumSwBreakpoints

(***************************************************************************)
(* The table behaves as a bounded map from addresses to those who want a   *)
(* stop there: neither party's calls add, remove or hide the other's.      *)
(***************************************************************************)
ImplementsSet == Set!Spec

(***************************************************************************)
(* "operations that change instructions must sync one's cache to the       *)
(* other" (src/src/cpu/cache.rs:3): when the program runs, it runs the     *)
(* instructions that are in memory.                                        *)
(***************************************************************************)
FetchSeesMemory == ~paused => icache = mem
=============================================================================
