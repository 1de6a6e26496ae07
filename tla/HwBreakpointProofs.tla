------------------------- MODULE HwBreakpointProofs -------------------------
(***************************************************************************)
(* What holds of HwBreakpointManager for any number of register pairs and  *)
(* any addresses: its type, the agreement of the occupancy table with the  *)
(* control registers, and that it implements a bounded set.                *)
(***************************************************************************)
EXTENDS HwBreakpoints, BreakpointLemmas

Requests == Addresses \X Specificity \X ArmBreakpointKind

(***************************************************************************)
(* A well-formed request compares with one of Comparisons.                 *)
(***************************************************************************)
LEMMA RequestCompares ==
  ASSUME NEW addr \in Addresses, NEW spec \in Specificity, NEW kind \in ArmBreakpointKind,
         AlignedFor(addr, kind)
  PROVE  Comparison(addr, spec, kind) \in Comparisons
<1>1. <<addr, spec, kind>> \in WellFormed
  BY DEF WellFormed
<1> QED
  BY <1>1 DEF Comparisons

(***************************************************************************)
(* setup establishes the invariant.                                        *)
(***************************************************************************)
LEMMA InitEstablishesHwInv == Init => HwInv
<1> SUFFICES ASSUME Init PROVE HwInv
  OBVIOUS
<1>1. ~Enabled(DISABLED)
  BY DisabledIsNotEnabled
<1>2. TypeOK
  BY DEF Init, TypeOK, Results
<1>3. UsedIsEnabled /\ NoDuplicates
  BY <1>1 DEF Init, UsedIsEnabled, NoDuplicates, OccupancyAgrees, AllDistinct
<1> QED
  BY <1>2, <1>3 DEF HwInv

(***************************************************************************)
(* Every call preserves it.                                                *)
(***************************************************************************)
LEMMA AddPreservesHwInv ==
  ASSUME HwInv,
         NEW addr \in Addresses, NEW spec \in Specificity, NEW kind \in ArmBreakpointKind,
         add_breakpoint_at(addr, spec, kind)
  PROVE  HwInv'
<1>1. /\ regs \in [Slots -> Comparisons \union {DISABLED}]
      /\ OccupancyAgrees(regs, used)
      /\ AllDistinct(regs)
  BY DEF HwInv, TypeOK, UsedIsEnabled, NoDuplicates
<1>2. AlignedFor(addr, kind) => Comparison(addr, spec, kind) \in Comparisons \union {DISABLED}
  BY RequestCompares
<1>3. /\ regs' \in [Slots -> Comparisons \union {DISABLED}]
      /\ OccupancyAgrees(regs', used')
      /\ AllDistinct(regs')
  BY <1>1, <1>2, AddKeeps DEF add_breakpoint_at
<1>4. result' \in Results
  BY AddAnswers DEF add_breakpoint_at, Results
<1>5. locked' \in BOOLEAN
  BY DEF HwInv, TypeOK, add_breakpoint_at
<1>6. used' \subseteq Slots
  BY <1>3 DEF OccupancyAgrees
<1> QED
  BY <1>3, <1>4, <1>5, <1>6
  DEF HwInv, TypeOK, UsedIsEnabled, NoDuplicates

(***************************************************************************)
(* remove_breakpoint_at keeps the component's invariant.                   *)
(***************************************************************************)
LEMMA RemovePreservesHwInv ==
  ASSUME HwInv,
         NEW addr \in Addresses, NEW spec \in Specificity, NEW kind \in ArmBreakpointKind,
         remove_breakpoint_at(addr, spec, kind)
  PROVE  HwInv'
<1>1. /\ regs \in [Slots -> Comparisons \union {DISABLED}]
      /\ OccupancyAgrees(regs, used)
      /\ AllDistinct(regs)
  BY DEF HwInv, TypeOK, UsedIsEnabled, NoDuplicates
<1>2. /\ regs' \in [Slots -> Comparisons \union {DISABLED}]
      /\ OccupancyAgrees(regs', used')
      /\ AllDistinct(regs')
  BY <1>1, RemoveKeeps DEF remove_breakpoint_at
<1>3. result' \in Results /\ locked' \in BOOLEAN
  BY DEF HwInv, TypeOK, remove_breakpoint_at, Results
<1>4. used' \subseteq Slots
  BY <1>2 DEF OccupancyAgrees
<1> QED
  BY <1>2, <1>3, <1>4
  DEF HwInv, TypeOK, UsedIsEnabled, NoDuplicates

(***************************************************************************)
(* So does every call of the component, and every stutter.                 *)
(***************************************************************************)
LEMMA NextPreservesHwInv == HwInv /\ [Next]_hwvars => HwInv'
<1> SUFFICES ASSUME HwInv, [Next]_hwvars PROVE HwInv'
  OBVIOUS
<1>1. ASSUME NEW lock \in BOOLEAN, set_locked(lock) PROVE HwInv'
  BY <1>1 DEF set_locked, HwInv, TypeOK, UsedIsEnabled, NoDuplicates,
                   OccupancyAgrees, AllDistinct
<1>2. CASE reset
  <2>1. ~Enabled(DISABLED)
    BY DisabledIsNotEnabled
  <2>2. TypeOK'
    BY <1>2 DEF reset, HwInv, TypeOK, Results
  <2> QED
    BY <1>2, <2>1, <2>2 DEF reset, HwInv, UsedIsEnabled, NoDuplicates,
                                    OccupancyAgrees, AllDistinct
<1>3. ASSUME NEW addr \in Addresses, NEW spec \in Specificity, NEW kind \in ArmBreakpointKind,
             add_breakpoint_at(addr, spec, kind)
      PROVE  HwInv'
  BY <1>3, AddPreservesHwInv
<1>4. ASSUME NEW addr \in Addresses, NEW spec \in Specificity, NEW kind \in ArmBreakpointKind,
             remove_breakpoint_at(addr, spec, kind)
      PROVE  HwInv'
  BY <1>4, RemovePreservesHwInv
<1>5. CASE UNCHANGED hwvars
  BY <1>5 DEF hwvars, HwInv, TypeOK, UsedIsEnabled, NoDuplicates,
               OccupancyAgrees, AllDistinct
<1> QED
  BY <1>1, <1>2, <1>3, <1>4, <1>5 DEF Next

(***************************************************************************)
(* HwInv is an invariant of the component, and with it each of its parts.  *)
(***************************************************************************)
THEOREM HwInvHolds == Spec => []HwInv
  BY InitEstablishesHwInv, NextPreservesHwInv, PTL DEF Spec

(***************************************************************************)
(* Each pair is disabled or makes a comparison somebody asked for.         *)
(***************************************************************************)
THEOREM TypeCorrect == Spec => []TypeOK
<1>1. HwInv => TypeOK
  BY DEF HwInv
<1> QED
  BY <1>1, HwInvHolds, PTL

(***************************************************************************)
(* used_breakpoints says of each pair whether it is enabled.               *)
(***************************************************************************)
THEOREM OccupancyIsExact == Spec => []UsedIsEnabled
<1>1. HwInv => UsedIsEnabled
  BY DEF HwInv
<1> QED
  BY <1>1, HwInvHolds, PTL

(***************************************************************************)
(* No two enabled pairs make the same comparison.                          *)
(***************************************************************************)
THEOREM ComparisonsAreDistinct == Spec => []NoDuplicates
<1>1. HwInv => NoDuplicates
  BY DEF HwInv
<1> QED
  BY <1>1, HwInvHolds, PTL
-----------------------------------------------------------------------------
(***************************************************************************)
(* The refinement.  held has as many members as used has.                  *)
(***************************************************************************)
LEMMA HeldSize ==
  ASSUME HwInv
  PROVE  Cardinality(held) = Cardinality(used)
<1> DEFINE f == [idx \in used |-> regs[idx]]
<1>1. held = {regs[idx] : idx \in used}
  BY DEF HwInv, UsedIsEnabled, OccupancyAgrees, held
<1>2. f \in Bijection(used, held)
  <2>1. f \in [used -> held]
    BY <1>1
  <2>2. \A i, j \in used : f[i] = f[j] => i = j
    BY DEF HwInv, UsedIsEnabled, NoDuplicates, OccupancyAgrees, AllDistinct
  <2>3. \A c \in held : \E i \in used : f[i] = c
    BY <1>1
  <2> QED
    BY <2>1, <2>2, <2>3 DEF Bijection, Injection, Surjection, IsInjective
<1>3. ExistsBijection(used, held)
  BY <1>2 DEF ExistsBijection
<1>4. IsFiniteSet(used)
  BY FreeSlotsLeft DEF HwInv, UsedIsEnabled
<1> QED
  BY <1>3, <1>4, FS_Bijection

(***************************************************************************)
(* Nothing is held at first.                                               *)
(***************************************************************************)
LEMMA InitRefines == Init => Set!Init
  BY DisabledIsNotEnabled DEF Init, held, Set!Init

(***************************************************************************)
(* A pair makes the comparison c exactly when c is held.                   *)
(***************************************************************************)
LEMMA MakingIsHolding ==
  ASSUME NEW c, Enabled(c)
  PROVE  Making(regs, c) # {} <=> c \in held
  BY DEF Making, held

(***************************************************************************)
(* HwBreakpointSet means by Cardinality what this module does.             *)
(***************************************************************************)
LEMMA SameCardinality == Set!Cardinality(held) = Cardinality(held)
  BY Zenon DEF Set!Cardinality, Cardinality

(***************************************************************************)
(* add_breakpoint_at adds to the set what it answers it added.             *)
(***************************************************************************)
LEMMA AddRefines ==
  ASSUME HwInv,
         NEW addr \in Addresses, NEW spec \in Specificity, NEW kind \in ArmBreakpointKind,
         add_breakpoint_at(addr, spec, kind)
  PROVE  Set!Next
<1> DEFINE c == Comparison(addr, spec, kind)
<1>1. Enabled(c) /\ (Making(regs, c) # {} <=> c \in held)
  BY ComparisonEnabled, MakingIsHolding
<1>2. AlignedFor(addr, kind) => c \in Comparisons
  BY RequestCompares
<1>3. OccupancyAgrees(regs, used)
  BY DEF HwInv, UsedIsEnabled
<1>4. CASE AddResult(regs, used, addr, spec, kind) # "Ok"
  <2>1. held' = held /\ result' = AddResult(regs, used, addr, spec, kind)
    BY <1>4, AddRefused DEF add_breakpoint_at, held
  <2>2. CASE ~AlignedFor(addr, kind)
    <3>1. result' = "NotAlignedCorrectly"
      BY <2>1, <2>2, AddAnswers, <1>4
    <3> QED
      BY <2>1, <3>1 DEF Set!Next, Set!RefuseAdd
  <2>3. CASE AlignedFor(addr, kind) /\ Making(regs, c) # {}
    <3>1. result' = "AlreadyExists"
      BY <2>1, <2>3, AddAnswers, <1>4
    <3>2. Set!Add(c)
      BY <1>1, <2>1, <2>3, <3>1 DEF Set!Add
    <3> QED
      BY <1>2, <2>3, <3>2 DEF Set!Next
  <2>4. CASE AlignedFor(addr, kind) /\ Making(regs, c) = {}
    <3>1. result' = "NoSpace" /\ FreeSlots(regs, used) = {}
      BY <2>1, <2>4, AddAnswers, <1>4
    <3>2. Cardinality(held) >= NumBreakpoints
      BY <1>3, <3>1, FreeSlotsLeft, HeldSize, NumBreakpointsAssumption
    <3>3. Set!Add(c)
      BY <1>1, <2>1, <2>4, <3>1, <3>2, SameCardinality DEF Set!Add
    <3> QED
      BY <1>2, <2>4, <3>3 DEF Set!Next
  <2> QED
    BY <2>2, <2>3, <2>4
<1>5. CASE AddResult(regs, used, addr, spec, kind) = "Ok"
  <2>1. AlignedFor(addr, kind) /\ Making(regs, c) = {}
    BY <1>5, AddOk
  <2>2. PICK free \in Slots :
          /\ ~Enabled(regs[free])
          /\ free \notin used
          /\ AddRegs(regs, used, addr, spec, kind) = [regs EXCEPT ![free] = c]
    BY <1>5, AddOk
  <2> HIDE DEF c
  <2>3. regs' = [regs EXCEPT ![free] = c] /\ result' = "Ok"
    BY <1>5, <2>2 DEF add_breakpoint_at
  <2>4. held' = held \union {c}
    <3>1. regs \in [Slots -> Comparisons \union {DISABLED}]
      BY DEF HwInv, TypeOK
    <3> QED
      BY <1>1, <2>2, <2>3, <3>1 DEF held
  <2>5. Cardinality(held) < NumBreakpoints
    <3>1. FreeSlots(regs, used) # {}
      BY <2>2 DEF FreeSlots
    <3> QED
      BY <1>3, <3>1, FreeSlotsLeft, HeldSize
  <2>6. Set!Add(c)
    BY <1>1, <2>1, <2>3, <2>4, <2>5, SameCardinality DEF Set!Add
  <2> QED
    BY <1>2, <2>1, <2>6 DEF Set!Next
<1> QED
  BY <1>4, <1>5

(***************************************************************************)
(* remove_breakpoint_at removes one comparison and says so.                *)
(***************************************************************************)
LEMMA RemoveRefines ==
  ASSUME HwInv,
         NEW addr \in Addresses, NEW spec \in Specificity, NEW kind \in ArmBreakpointKind,
         remove_breakpoint_at(addr, spec, kind)
  PROVE  Set!Next
<1> DEFINE c == Comparison(addr, spec, kind)
<1>1. Enabled(c) /\ (Making(regs, c) # {} <=> c \in held)
  BY ComparisonEnabled, MakingIsHolding
<1>2. CASE ~AlignedFor(addr, kind)
  <2>1. Removed(regs, addr, spec, kind) = {}
    BY <1>2 DEF Removed
  <2>2. result' = "NotFound"
    BY <2>1 DEF remove_breakpoint_at
  <2>3. held' = held
    BY <2>1 DEF remove_breakpoint_at, RemoveRegs, held
  <2> QED
    BY <2>2, <2>3 DEF Set!Next, Set!RefuseRemove
<1>3. CASE AlignedFor(addr, kind)
  <2>1. Removed(regs, addr, spec, kind) = Making(regs, c)
    BY <1>3 DEF Removed
  <2>2. c \in Comparisons
    BY <1>3, RequestCompares
  <2> HIDE DEF c
  <2>3. result' = IF c \in held THEN "Removed" ELSE "NotFound"
    BY <1>1, <2>1 DEF remove_breakpoint_at
  <2>4. regs' = [idx \in Slots |-> IF regs[idx] = c THEN DISABLED ELSE regs[idx]]
    BY <2>1 DEF remove_breakpoint_at, RemoveRegs, Making
  <2>5. held' = held \ {c}
    BY <2>4, DisabledIsNotEnabled DEF held
  <2>6. Set!Remove(c)
    BY <2>3, <2>5 DEF Set!Remove
  <2> QED
    BY <2>2, <2>6 DEF Set!Next
<1> QED
  BY <1>2, <1>3

(***************************************************************************)
(* Every call of the component is a call of the set, or none.              *)
(***************************************************************************)
LEMMA NextRefines == HwInv /\ [Next]_hwvars => [Set!Next]_(Set!absvars)
<1> SUFFICES ASSUME HwInv, [Next]_hwvars PROVE [Set!Next]_(Set!absvars)
  OBVIOUS
<1>1. ASSUME NEW lock \in BOOLEAN, set_locked(lock) PROVE UNCHANGED Set!absvars
  BY <1>1 DEF set_locked, Set!absvars, held
<1>2. CASE reset
  BY <1>2, DisabledIsNotEnabled DEF reset, held, Set!Next, Set!Reset
<1>3. ASSUME NEW addr \in Addresses, NEW spec \in Specificity, NEW kind \in ArmBreakpointKind,
             add_breakpoint_at(addr, spec, kind) \/ remove_breakpoint_at(addr, spec, kind)
      PROVE  Set!Next
  BY <1>3, AddRefines, RemoveRefines
<1>4. CASE UNCHANGED hwvars
  BY <1>4 DEF hwvars, Set!absvars, held
<1> QED
  BY <1>1, <1>2, <1>3, <1>4 DEF Next

(***************************************************************************)
(* HwBreakpointManager implements a bounded set of comparisons, whatever   *)
(* pair each of them is programmed into.                                   *)
(***************************************************************************)
THEOREM RefinesSet == Spec => ImplementsSet
<1>1. Spec => Set!Spec
  BY InitRefines, NextRefines, HwInvHolds, PTL DEF Spec, Set!Spec
<1> QED
  BY <1>1 DEF ImplementsSet
=============================================================================
