--------------------------- MODULE HwBreakpoints ---------------------------
(***************************************************************************)
(* HwBreakpointManager as a component of its own: the register pairs, the  *)
(* occupancy table, the software lock over the register file, and the      *)
(* calls its users make (src/src/gdb_target/breakpoint/hardware.rs; the    *)
(* call sequences of src/tests/hardware.rs are behaviours of this module). *)
(***************************************************************************)
EXTENDS HwBreakpointOps

CONSTANT Addresses          \* the addresses callers ask for

ASSUME AddressesAssumption == Addresses \subseteq Nat

VARIABLES
  regs,             \* the breakpoint register pairs
  used,             \* used_breakpoints, as the set of the indices that are true
  locked,           \* DBGLSR.SLK, the software lock
  result            \* what the last call returned

hwvars == <<regs, used, locked, result>>

\* setup leaves every pair disabled and the register file locked.
Init ==
  /\ regs = [idx \in Slots |-> DISABLED]
  /\ used = {}
  /\ locked = TRUE
  /\ result = "None"

set_locked(lock) ==
  /\ locked' = lock
  /\ UNCHANGED <<regs, used, result>>

\* Faulty variant: reset disables the pairs and forgets the occupancy table.
reset_keeping_used ==
  /\ ~locked
  /\ regs' = [idx \in Slots |-> DISABLED]
  /\ result' = "None"
  /\ UNCHANGED <<used, locked>>

reset ==
  /\ ~locked
  /\ regs' = [idx \in Slots |-> DISABLED]
  /\ used' = {}
  /\ result' = "None"
  /\ UNCHANGED locked

add_breakpoint_at(addr, spec, kind) ==
  /\ ~locked
  /\ result' = AddResult(regs, used, addr, spec, kind)
  /\ regs' = AddRegs(regs, used, addr, spec, kind)
  /\ used' = AddUsed(regs, used, addr, spec, kind)
  /\ UNCHANGED locked

remove_breakpoint_at(addr, spec, kind) ==
  /\ ~locked
  /\ result' = IF Removed(regs, addr, spec, kind) = {} THEN "NotFound" ELSE "Removed"
  /\ regs' = RemoveRegs(regs, addr, spec, kind)
  /\ used' = RemoveUsed(regs, used, addr, spec, kind)
  /\ UNCHANGED locked

Next ==
  \/ \E lock \in BOOLEAN : set_locked(lock)
  \/ reset
  \/ \E addr \in Addresses, spec \in Specificity, kind \in ArmBreakpointKind :
       \/ add_breakpoint_at(addr, spec, kind)
       \/ remove_breakpoint_at(addr, spec, kind)

Spec == Init /\ [][Next]_hwvars

-----------------------------------------------------------------------------
\* What well-formed requests can ask to compare with.
WellFormed ==
  {r \in Addresses \X Specificity \X ArmBreakpointKind : AlignedFor(r[1], r[3])}

Comparisons == {Comparison(r[1], r[2], r[3]) : r \in WellFormed}

Results == {"None", "Ok", "AlreadyExists", "NoSpace", "NotAlignedCorrectly",
            "Removed", "NotFound"}

(***************************************************************************)
(* Type invariant: each pair is disabled or makes a comparison somebody    *)
(* asked for.                                                              *)
(***************************************************************************)
TypeOK ==
  /\ regs \in [Slots -> Comparisons \union {DISABLED}]
  /\ used \subseteq Slots
  /\ locked \in BOOLEAN
  /\ result \in Results

(***************************************************************************)
(* The occupancy table (used_breakpoints) and the control registers, which *)
(* add_breakpoint_at, remove_breakpoint_at and reset update separately,    *)
(* never disagree: breakpoints_available counts the one, the processor     *)
(* obeys the other.                                                        *)
(***************************************************************************)
UsedIsEnabled == OccupancyAgrees(regs, used)

\* The comparisons the processor is making.
held == {regs[idx] : idx \in {i \in Slots : Enabled(regs[i])}}

(***************************************************************************)
(* Two pairs never make the same comparison (add_breakpoint_at's duplicate *)
(* check), so removing it removes it altogether.                           *)
(***************************************************************************)
NoDuplicates == AllDistinct(regs)

HwInv == TypeOK /\ UsedIsEnabled /\ NoDuplicates

\* The set of comparisons the register pairs stand for.
Set == INSTANCE HwBreakpointSet WITH Capacity <- NumBreakpoints

(***************************************************************************)
(* HwBreakpointManager behaves as a bounded set of comparisons: every call *)
(* changes the set, and answers, as HwBreakpointSet says it should,        *)
(* whatever pair it happened to program.                                   *)
(***************************************************************************)
ImplementsSet == Set!Spec
=============================================================================
