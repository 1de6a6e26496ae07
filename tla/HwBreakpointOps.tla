-------------------------- MODULE HwBreakpointOps --------------------------
(***************************************************************************)
(* The Cortex-A9 breakpoint registers as HwBreakpointManager drives them   *)
(* (src/src/gdb_target/breakpoint/hardware.rs), as operators on the two    *)
(* pieces of state the manager keeps: regs, the breakpoint register pairs  *)
(* (value and control), and used, the manager's own occupancy table        *)
(* used_breakpoints.  HwBreakpoints turns them into a component of its     *)
(* own; V5Target composes them with the rest of the debugger.              *)
(***************************************************************************)
EXTENDS Integers, FiniteSets

CONSTANT NumBreakpoints     \* capabilities.num_breakpoints, DBGDIDR.BRPs + 1

ASSUME NumBreakpointsAssumption == NumBreakpoints \in Nat \ {0}

Slots == 0 .. NumBreakpoints - 1

ArmBreakpointKind == {"Arm32", "Thumb16", "Thumb32"}
Specificity == {"Match", "Mismatch"}

(***************************************************************************)
(* A register pair is either disabled or holds the comparison it makes:    *)
(* its type, the word it is at and the bytes of that word it selects.      *)
(* What a disabled pair still holds is never read again.                   *)
(***************************************************************************)
BreakpointControl(type, word, bas) == [type |-> type, word |-> word, bas |-> bas]

BreakpointPair == [type : {"None"} \union Specificity, word : Int, bas : SUBSET Int]

DISABLED == BreakpointControl("None", 0, {})

Enabled(ctrl) == ctrl.type # "None"

AlignedFor(addr, kind) == addr % (IF kind = "Arm32" THEN 4 ELSE 2) = 0

\* split_addr, when it succeeds, and the comparison add_breakpoint_at programs.
Word(addr) == addr - (addr % 4)

ByteAddressSelect(addr, kind) ==
  IF kind = "Arm32" THEN 0 .. 3 ELSE {addr % 4, (addr % 4) + 1}

\* Faulty variant: the kind of comparison asked for is not programmed.
ComparisonMatch(addr, spec, kind) ==
  BreakpointControl("Match", Word(addr), ByteAddressSelect(addr, kind))

Comparison(addr, spec, kind) ==
  BreakpointControl(spec, Word(addr), ByteAddressSelect(addr, kind))

\* Faulty variant: the scan starts one pair late.
MakingAfterFirst(regs, c) == {idx \in Slots \ {0} : regs[idx] = c}

\* The pairs that already make the comparison c.
Making(regs, c) == {idx \in Slots : regs[idx] = c}

\* Faulty variant: any pair will do.
AllSlots(regs, used) == Slots

\* The pairs add_breakpoint_at may program: neither enabled nor in use.
FreeSlots(regs, used) == {idx \in Slots : ~Enabled(regs[idx]) /\ idx \notin used}

FirstOf(S) == CHOOSE idx \in S : \A other \in S : idx <= other

\* The Result of add_breakpoint_at.
AddResult(regs, used, addr, spec, kind) ==
  CASE ~AlignedFor(addr, kind) -> "NotAlignedCorrectly"
    [] /\ AlignedFor(addr, kind)
       /\ Making(regs, Comparison(addr, spec, kind)) # {} -> "AlreadyExists"
    [] /\ AlignedFor(addr, kind)
       /\ Making(regs, Comparison(addr, spec, kind)) = {}
       /\ FreeSlots(regs, used) = {} -> "NoSpace"
    [] OTHER -> "Ok"

\* The register pairs and the occupancy table after add_breakpoint_at.
AddRegs(regs, used, addr, spec, kind) ==
  IF AddResult(regs, used, addr, spec, kind) = "Ok"
  THEN [regs EXCEPT ![FirstOf(FreeSlots(regs, used))] = Comparison(addr, spec, kind)]
  ELSE regs

\* Faulty variant: the occupancy table is marked one index further on.
AddUsedNext(regs, used, addr, spec, kind) ==
  IF AddResult(regs, used, addr, spec, kind) = "Ok"
  THEN used \union {FirstOf(FreeSlots(regs, used)) + 1}
  ELSE used

AddUsed(regs, used, addr, spec, kind) ==
  IF AddResult(regs, used, addr, spec, kind) = "Ok"
  THEN used \union {FirstOf(FreeSlots(regs, used))}
  ELSE used

\* The pairs remove_breakpoint_at disables: none if the address does not split.
Removed(regs, addr, spec, kind) ==
  IF AlignedFor(addr, kind) THEN Making(regs, Comparison(addr, spec, kind)) ELSE {}

RemoveRegs(regs, addr, spec, kind) ==
  [idx \in Slots |->
     IF idx \in Removed(regs, addr, spec, kind) THEN DISABLED ELSE regs[idx]]

RemoveUsed(regs, used, addr, spec, kind) == used \ Removed(regs, addr, spec, kind)

BreakpointsAvailable(used) == NumBreakpoints - Cardinality(used)

(***************************************************************************)
(* What ties the register pairs to the occupancy table, what no two pairs  *)
(* do, and the pairs of one specificity with the comparisons they make.    *)
(***************************************************************************)
OccupancyAgrees(regs, used) == used = {idx \in Slots : Enabled(regs[idx])}

AllDistinct(regs) ==
  \A i, j \in Slots : Enabled(regs[i]) /\ regs[i] = regs[j] => i = j

SlotsOf(regs, spec) == {idx \in Slots : regs[idx].type = spec}

Holding(regs, spec) == {regs[idx] : idx \in SlotsOf(regs, spec)}

(***************************************************************************)
(* What the processor does with the pairs: a Match pair fires on an        *)
(* instruction at one of its bytes, a Mismatch pair on every other.  The   *)
(* privilege filter keeps both from firing in Abort and IRQ mode.          *)
(***************************************************************************)
Covers(ctrl, pc) == ctrl.word = Word(pc) /\ (pc % 4) \in ctrl.bas

Fires(ctrl, pc) ==
  \/ ctrl.type = "Match" /\ Covers(ctrl, pc)
  \/ ctrl.type = "Mismatch" /\ ~Covers(ctrl, pc)

AnyFires(regs, pc) == \E idx \in Slots : Fires(regs[idx], pc)
=============================================================================
