-------------------------- MODULE BreakpointLemmas --------------------------
(***************************************************************************)
(* What the operators of HwBreakpointOps and SwBreakpointOps preserve, for *)
(* any number of register pairs and of slots.  The proofs about the        *)
(* components that keep this state cite these lemmas and rarely open the   *)
(* operators.                                                              *)
(***************************************************************************)
EXTENDS HwBreakpointOps, SwBreakpointOps, FiniteSetTheorems, WellFoundedInduction, TLAPS

-----------------------------------------------------------------------------
(***************************************************************************)
(* The register pairs and the occupancy table.                             *)
(***************************************************************************)

(***************************************************************************)
(* Every non-empty set of natural numbers has a first member, so FirstOf   *)
(* names one (the scan of add_breakpoint_at stops at the first free pair). *)
(***************************************************************************)
LEMMA FirstOfMember ==
  ASSUME NEW S \in SUBSET Nat, S # {}
  PROVE  FirstOf(S) \in S
<1>1. \E m \in S : \A other \in S : ~ (<<other, m>> \in OpToRel(<, Nat))
  BY NatLessThanWellFounded, WFMin
<1>2. PICK m \in S : \A other \in S : ~ (<<other, m>> \in OpToRel(<, Nat))
  BY <1>1
<1>3. \A other \in S : ~ (other < m)
  BY <1>2 DEF OpToRel
<1>4. \A other \in S : m <= other
  BY <1>3
<1> QED
  BY <1>4 DEF FirstOf

(***************************************************************************)
(* A comparison is an enabled pair.                                        *)
(***************************************************************************)
LEMMA ComparisonEnabled ==
  ASSUME NEW addr, NEW spec \in Specificity, NEW kind
  PROVE  /\ Enabled(Comparison(addr, spec, kind))
         /\ Comparison(addr, spec, kind).type = spec
  BY DEF Specificity, Comparison, BreakpointControl, Enabled

(***************************************************************************)
(* DISABLED is not.                                                        *)
(***************************************************************************)
LEMMA DisabledIsNotEnabled == ~Enabled(DISABLED)
  BY DEF BreakpointControl, Enabled, DISABLED

(***************************************************************************)
(* add_breakpoint_at, when it succeeds, programs one pair that was neither *)
(* enabled nor in use, and marks that pair.                                *)
(***************************************************************************)
LEMMA AddOk ==
  ASSUME NEW regs, NEW used, NEW addr, NEW spec, NEW kind,
         AddResult(regs, used, addr, spec, kind) = "Ok"
  PROVE  /\ AlignedFor(addr, kind)
         /\ Making(regs, Comparison(addr, spec, kind)) = {}
         /\ \E free \in Slots :
              /\ ~Enabled(regs[free])
              /\ free \notin used
              /\ AddRegs(regs, used, addr, spec, kind)
                   = [regs EXCEPT ![free] = Comparison(addr, spec, kind)]
              /\ AddUsed(regs, used, addr, spec, kind) = used \union {free}
<1>1. /\ AlignedFor(addr, kind)
      /\ Making(regs, Comparison(addr, spec, kind)) = {}
      /\ FreeSlots(regs, used) # {}
  BY Zenon DEF AddResult
<1>2. FreeSlots(regs, used) \in SUBSET Nat
  BY NumBreakpointsAssumption DEF FreeSlots, Slots
<1>3. FirstOf(FreeSlots(regs, used)) \in FreeSlots(regs, used)
  BY <1>1, <1>2, FirstOfMember
<1>4. /\ FirstOf(FreeSlots(regs, used)) \in Slots
      /\ ~Enabled(regs[FirstOf(FreeSlots(regs, used))])
      /\ FirstOf(FreeSlots(regs, used)) \notin used
  BY <1>3 DEF FreeSlots
<1> QED
  BY <1>1, <1>4 DEF AddRegs, AddUsed

(***************************************************************************)
(* add_breakpoint_at, when it fails, changes nothing.                      *)
(***************************************************************************)
LEMMA AddRefused ==
  ASSUME NEW regs, NEW used, NEW addr, NEW spec, NEW kind,
         AddResult(regs, used, addr, spec, kind) # "Ok"
  PROVE  /\ AddRegs(regs, used, addr, spec, kind) = regs
         /\ AddUsed(regs, used, addr, spec, kind) = used
  BY DEF AddRegs, AddUsed

(***************************************************************************)
(* What add_breakpoint_at answers.                                         *)
(***************************************************************************)
LEMMA AddAnswers ==
  ASSUME NEW regs, NEW used, NEW addr, NEW spec, NEW kind
  PROVE  \/ /\ AddResult(regs, used, addr, spec, kind) = "NotAlignedCorrectly"
            /\ ~AlignedFor(addr, kind)
         \/ /\ AddResult(regs, used, addr, spec, kind) = "AlreadyExists"
            /\ AlignedFor(addr, kind)
            /\ Making(regs, Comparison(addr, spec, kind)) # {}
         \/ /\ AddResult(regs, used, addr, spec, kind) = "NoSpace"
            /\ AlignedFor(addr, kind)
            /\ Making(regs, Comparison(addr, spec, kind)) = {}
            /\ FreeSlots(regs, used) = {}
         \/ AddResult(regs, used, addr, spec, kind) = "Ok"
  BY Zenon DEF AddResult

(***************************************************************************)
(* add_breakpoint_at keeps the pairs of their type, the table in agreement *)
(* with them, and no comparison made twice.                                *)
(***************************************************************************)
LEMMA AddKeeps ==
  ASSUME NEW Pairs, NEW regs \in [Slots -> Pairs], NEW used,
         NEW addr, NEW spec \in Specificity, NEW kind,
         AlignedFor(addr, kind) => Comparison(addr, spec, kind) \in Pairs,
         OccupancyAgrees(regs, used), AllDistinct(regs)
  PROVE  LET newRegs == AddRegs(regs, used, addr, spec, kind)
             newUsed == AddUsed(regs, used, addr, spec, kind)
         IN  /\ newRegs \in [Slots -> Pairs]
             /\ OccupancyAgrees(newRegs, newUsed)
             /\ AllDistinct(newRegs)
<1>1. CASE AddResult(regs, used, addr, spec, kind) # "Ok"
  BY <1>1, AddRefused
<1>2. CASE AddResult(regs, used, addr, spec, kind) = "Ok"
  <2> DEFINE c == Comparison(addr, spec, kind)
  <2>1. AlignedFor(addr, kind) /\ Making(regs, c) = {}
    BY <1>2, AddOk
  <2>2. PICK free \in Slots :
          /\ ~Enabled(regs[free])
          /\ free \notin used
          /\ AddRegs(regs, used, addr, spec, kind) = [regs EXCEPT ![free] = c]
          /\ AddUsed(regs, used, addr, spec, kind) = used \union {free}
    BY <1>2, AddOk
  <2>3. c \in Pairs /\ Enabled(c)
    BY <2>1, ComparisonEnabled
  <2> HIDE DEF c
  <2>4. [regs EXCEPT ![free] = c] \in [Slots -> Pairs]
    BY <2>3
  <2>5. OccupancyAgrees([regs EXCEPT ![free] = c], used \union {free})
    BY <2>3 DEF OccupancyAgrees
  <2>6. \A idx \in Slots : regs[idx] # c
    BY <2>1 DEF Making
  <2>7. AllDistinct([regs EXCEPT ![free] = c])
    BY <2>6 DEF AllDistinct
  <2> QED
    BY <2>2, <2>4, <2>5, <2>7
<1> QED
  BY <1>1, <1>2

(***************************************************************************)
(* Where the table agrees with the pairs, add_breakpoint_at finds no pair  *)
(* exactly when all of them are in use.                                    *)
(***************************************************************************)
LEMMA FreeSlotsLeft ==
  ASSUME NEW regs, NEW used, OccupancyAgrees(regs, used)
  PROVE  /\ IsFiniteSet(used) /\ Cardinality(used) \in Nat
         /\ FreeSlots(regs, used) = {} => Cardinality(used) = NumBreakpoints
         /\ FreeSlots(regs, used) # {} => Cardinality(used) < NumBreakpoints
<1>1. IsFiniteSet(Slots) /\ Cardinality(Slots) = NumBreakpoints
  BY NumBreakpointsAssumption, FS_Interval DEF Slots
<1>2. used \in SUBSET Slots
  BY DEF OccupancyAgrees
<1>3. /\ IsFiniteSet(used)
      /\ Cardinality(used) <= NumBreakpoints
      /\ Cardinality(used) = NumBreakpoints => used = Slots
  BY <1>1, <1>2, FS_Subset, Zenon
<1>4. Cardinality(used) \in Nat
  BY <1>3, FS_CardinalityType
<1>5. FreeSlots(regs, used) = {} <=> used = Slots
  BY <1>2 DEF OccupancyAgrees, FreeSlots
<1>6. FreeSlots(regs, used) # {} => Cardinality(used) # NumBreakpoints
  BY <1>3, <1>5
<1>7. FreeSlots(regs, used) # {} => Cardinality(used) < NumBreakpoints
  BY <1>3, <1>4, <1>6, NumBreakpointsAssumption
<1>8. FreeSlots(regs, used) = {} => Cardinality(used) = NumBreakpoints
  BY <1>1, <1>5
<1> QED
  BY <1>3, <1>4, <1>7, <1>8

(***************************************************************************)
(* remove_breakpoint_at keeps the same facts.                              *)
(***************************************************************************)
LEMMA RemoveKeeps ==
  ASSUME NEW Pairs, NEW regs \in [Slots -> Pairs], NEW used,
         NEW addr, NEW spec \in Specificity, NEW kind,
         DISABLED \in Pairs,
         OccupancyAgrees(regs, used), AllDistinct(regs)
  PROVE  LET newRegs == RemoveRegs(regs, addr, spec, kind)
             newUsed == RemoveUsed(regs, used, addr, spec, kind)
         IN  /\ newRegs \in [Slots -> Pairs]
             /\ OccupancyAgrees(newRegs, newUsed)
             /\ AllDistinct(newRegs)
<1> DEFINE gone == Removed(regs, addr, spec, kind)
           newRegs == [idx \in Slots |-> IF idx \in gone THEN DISABLED ELSE regs[idx]]
<1>1. ~Enabled(DISABLED)
  BY DisabledIsNotEnabled
<1>2. newRegs \in [Slots -> Pairs]
  OBVIOUS
<1>3. OccupancyAgrees(newRegs, used \ gone)
  BY <1>1 DEF OccupancyAgrees
<1>4. AllDistinct(newRegs)
  BY <1>1 DEF AllDistinct
<1> QED
  BY <1>2, <1>3, <1>4 DEF RemoveRegs, RemoveUsed

-----------------------------------------------------------------------------
(***************************************************************************)
(* The comparisons of one specificity.  add_breakpoint_at adds one, and    *)
(* one pair to those of its specificity, and leaves the other specificity  *)
(* alone.                                                                  *)
(***************************************************************************)
LEMMA AddHolds ==
  ASSUME NEW regs \in [Slots -> BreakpointPair], NEW used,
         NEW addr, NEW spec \in Specificity, NEW kind,
         AddResult(regs, used, addr, spec, kind) = "Ok"
  PROVE  LET newRegs == AddRegs(regs, used, addr, spec, kind)
         IN  /\ Holding(newRegs, spec) = Holding(regs, spec) \union {Comparison(addr, spec, kind)}
             /\ \E free \in Slots \ used : SlotsOf(newRegs, spec) = SlotsOf(regs, spec) \union {free}
             /\ \A other \in Specificity \ {spec} :
                  /\ Holding(newRegs, other) = Holding(regs, other)
                  /\ SlotsOf(newRegs, other) = SlotsOf(regs, other)
<1> DEFINE c == Comparison(addr, spec, kind)
           newRegs == AddRegs(regs, used, addr, spec, kind)
<1>1. PICK free \in Slots :
        /\ ~Enabled(regs[free])
        /\ free \notin used
        /\ newRegs = [regs EXCEPT ![free] = c]
  BY AddOk
<1>2. c.type = spec
  BY ComparisonEnabled
<1> HIDE DEF c, newRegs
<1>3. /\ newRegs[free] = c
      /\ \A idx \in Slots : idx # free => newRegs[idx] = regs[idx]
  BY <1>1
<1>4. regs[free].type \notin Specificity
  BY <1>1 DEF Enabled, Specificity
<1>5. SlotsOf(newRegs, spec) = SlotsOf(regs, spec) \union {free}
  BY <1>2, <1>3 DEF SlotsOf
<1>6. \A other \in Specificity \ {spec} : SlotsOf(newRegs, other) = SlotsOf(regs, other)
  BY <1>2, <1>3, <1>4 DEF SlotsOf
<1>7. Holding(newRegs, spec) = Holding(regs, spec) \union {c}
  <2>1. free \notin SlotsOf(regs, spec)
    BY <1>4 DEF SlotsOf
  <2>2. \A idx \in SlotsOf(regs, spec) : newRegs[idx] = regs[idx]
    BY <1>3, <2>1 DEF SlotsOf
  <2> QED
    BY <1>3, <1>5, <2>2 DEF Holding
<1>8. ASSUME NEW other \in Specificity \ {spec}
      PROVE  Holding(newRegs, other) = Holding(regs, other)
  <2>1. free \notin SlotsOf(regs, other)
    BY <1>4 DEF SlotsOf
  <2>2. \A idx \in SlotsOf(regs, other) : newRegs[idx] = regs[idx]
    BY <1>3, <2>1 DEF SlotsOf
  <2> QED
    BY <1>6, <2>2 DEF Holding
<1> QED
  BY <1>1, <1>5, <1>6, <1>7, <1>8 DEF c, newRegs

(***************************************************************************)
(* remove_breakpoint_at removes that one, and no pair changes its          *)
(* specificity.                                                            *)
(***************************************************************************)
LEMMA RemoveHolds ==
  ASSUME NEW regs \in [Slots -> BreakpointPair],
         NEW addr, NEW spec \in Specificity, NEW kind
  PROVE  LET newRegs == RemoveRegs(regs, addr, spec, kind)
         IN  /\ AlignedFor(addr, kind) =>
                  Holding(newRegs, spec) = Holding(regs, spec) \ {Comparison(addr, spec, kind)}
             /\ \A other \in Specificity : SlotsOf(newRegs, other) \subseteq SlotsOf(regs, other)
             /\ \A other \in Specificity \ {spec} : Holding(newRegs, other) = Holding(regs, other)
<1> DEFINE c == Comparison(addr, spec, kind)
           newRegs == RemoveRegs(regs, addr, spec, kind)
           gone == Removed(regs, addr, spec, kind)
<1>1. c.type = spec /\ \A idx \in gone : regs[idx] = c
  BY ComparisonEnabled DEF Removed, Making
<1>2. AlignedFor(addr, kind) => gone = {idx \in Slots : regs[idx] = c}
  BY DEF Removed, Making
<1>3. newRegs = [idx \in Slots |-> IF idx \in gone THEN DISABLED ELSE regs[idx]]
  BY DEF RemoveRegs
<1>4. DISABLED.type \notin Specificity
  BY DEF DISABLED, BreakpointControl, Specificity
<1> HIDE DEF c, newRegs, gone
<1>5. \A idx \in Slots : newRegs[idx] = IF idx \in gone THEN DISABLED ELSE regs[idx]
  BY <1>3
<1>6. \A other \in Specificity : SlotsOf(newRegs, other) = SlotsOf(regs, other) \ gone
  BY <1>4, <1>5 DEF SlotsOf
<1>7. ASSUME NEW other \in Specificity \ {spec}
      PROVE  Holding(newRegs, other) = Holding(regs, other)
  <2>1. SlotsOf(newRegs, other) = SlotsOf(regs, other)
    BY <1>1, <1>6 DEF SlotsOf
  <2>2. \A idx \in SlotsOf(regs, other) : newRegs[idx] = regs[idx]
    BY <1>1, <1>5 DEF SlotsOf
  <2> QED
    BY <2>1, <2>2 DEF Holding
<1>8. ASSUME AlignedFor(addr, kind)
      PROVE  Holding(newRegs, spec) = Holding(regs, spec) \ {c}
  <2>1. \A idx \in SlotsOf(newRegs, spec) : newRegs[idx] = regs[idx] /\ regs[idx] # c
    BY <1>2, <1>5, <1>6, <1>8 DEF SlotsOf
  <2>2. \A idx \in SlotsOf(regs, spec) : regs[idx] # c => idx \in SlotsOf(newRegs, spec)
    BY <1>1, <1>6
  <2>3. SlotsOf(newRegs, spec) \subseteq SlotsOf(regs, spec)
    BY <1>6
  <2> QED
    BY <2>1, <2>2, <2>3 DEF Holding
<1> QED
  BY <1>6, <1>7, <1>8 DEF c, newRegs

(***************************************************************************)
(* As long as not every pair makes a Match comparison and none makes a     *)
(* Mismatch, a well-formed Mismatch comparison can be armed ("This         *)
(* shouldn't fail", request_interrupt).                                    *)
(***************************************************************************)
LEMMA ArmingSucceeds ==
  ASSUME NEW regs \in [Slots -> BreakpointPair], NEW used, NEW addr, NEW kind,
         OccupancyAgrees(regs, used),
         Cardinality(SlotsOf(regs, "Match")) < NumBreakpoints,
         Holding(regs, "Mismatch") = {},
         AlignedFor(addr, kind)
  PROVE  AddResult(regs, used, addr, "Mismatch", kind) = "Ok"
<1>1. \A idx \in Slots : regs[idx].type # "Mismatch"
  BY DEF Holding, SlotsOf
<1>2. used = SlotsOf(regs, "Match")
  BY <1>1 DEF OccupancyAgrees, Enabled, SlotsOf, BreakpointPair, Specificity
<1>3. FreeSlots(regs, used) # {}
  <2>1. FreeSlots(regs, used) = {} => Cardinality(used) = NumBreakpoints
    BY FreeSlotsLeft
  <2> QED
    BY <1>2, <2>1, NumBreakpointsAssumption
<1>4. Comparison(addr, "Mismatch", kind).type = "Mismatch"
  BY DEF Comparison, BreakpointControl
<1>5. Making(regs, Comparison(addr, "Mismatch", kind)) = {}
  BY <1>1, <1>4 DEF Making
<1> QED
  BY <1>3, <1>5, AddAnswers

(***************************************************************************)
(* The comparison of an aligned address is a pair's.                       *)
(***************************************************************************)
LEMMA ComparisonIsPair ==
  ASSUME NEW addr \in Int, NEW spec \in Specificity, NEW kind
  PROVE  Comparison(addr, spec, kind) \in BreakpointPair
<1>1. Word(addr) \in Int /\ addr % 4 \in Int
  BY DEF Word
<1>2. ByteAddressSelect(addr, kind) \in SUBSET Int
  BY <1>1 DEF ByteAddressSelect
<1> QED
  BY <1>1, <1>2 DEF Comparison, BreakpointControl, BreakpointPair, Specificity

(***************************************************************************)
(* So is that of a disabled one.                                           *)
(***************************************************************************)
LEMMA DisabledIsPair == DISABLED \in BreakpointPair
  BY DEF DISABLED, BreakpointControl, BreakpointPair

-----------------------------------------------------------------------------
(***************************************************************************)
(* The table of software breakpoints and the patched code: the types, and  *)
(* that every patch in memory is one of the table's.                       *)
(***************************************************************************)

Tables == [SwSlots -> SwBreakpoint \union {NO_BREAK}]
Code == [CodeAddrs -> Instruction]

(***************************************************************************)
(* Lowest names a slot of every non-empty set of slots.                    *)
(***************************************************************************)
LEMMA LowestMember ==
  ASSUME NEW S \in SUBSET SwSlots, S # {}
  PROVE  Lowest(S) \in S
<1>1. S \subseteq Nat
  BY SwAssumption DEF SwSlots
<1>2. \E m \in S : \A other \in S : ~ (<<other, m>> \in OpToRel(<, Nat))
  BY <1>1, NatLessThanWellFounded, WFMin
<1>3. PICK m \in S : \A other \in S : ~ (<<other, m>> \in OpToRel(<, Nat))
  BY <1>2
<1>4. \A other \in S : ~ (other < m)
  BY <1>1, <1>3 DEF OpToRel
<1>5. \A other \in S : m <= other
  BY <1>1, <1>4
<1> QED
  BY <1>5 DEF Lowest

(***************************************************************************)
(* A slot found for an address of the program holds a breakpoint.          *)
(***************************************************************************)
LEMMA SlotHoldsBreakpoint ==
  ASSUME NEW breaks \in Tables, NEW addr \in CodeAddrs, NEW s \in SlotsAt(breaks, addr)
  PROVE  s \in SwSlots /\ breaks[s] \in SwBreakpoint /\ breaks[s].instr_addr = addr
  BY SwAssumption DEF Tables, SlotsAt, NO_BREAK

(***************************************************************************)
(* set_breakpoints_ignored keeps the types.                                *)
(***************************************************************************)
LEMMA IgnoredTyped ==
  ASSUME NEW breaks \in Tables, NEW mem \in Code, NEW ignored \in BOOLEAN
  PROVE  IgnoredBreaks(breaks, ignored) \in Tables /\ IgnoredMem(breaks, mem, ignored) \in Code
<1>1. \A s \in SwSlots : breaks[s] # NO_BREAK =>
        WithEnabled(breaks[s], ~ignored) \in SwBreakpoint
  BY DEF Tables, WithEnabled, SwBreakpoint
<1>2. IgnoredBreaks(breaks, ignored) \in Tables
  BY <1>1 DEF IgnoredBreaks, Tables
<1>3. ASSUME NEW a \in CodeAddrs, SlotsAt(breaks, a) # {}
      PROVE  Written(breaks[Lowest(SlotsAt(breaks, a))], ~ignored) \in Instruction
  <2>1. Lowest(SlotsAt(breaks, a)) \in SlotsAt(breaks, a)
    BY <1>3, LowestMember DEF SlotsAt
  <2>2. breaks[Lowest(SlotsAt(breaks, a))] \in SwBreakpoint
    BY <2>1, SlotHoldsBreakpoint
  <2> QED
    BY <2>2 DEF Written, SwBreakpoint, Instruction
<1>4. IgnoredMem(breaks, mem, ignored) \in Code
  BY <1>3 DEF IgnoredMem, Code
<1> QED
  BY <1>2, <1>4

(***************************************************************************)
(* register_sw_breakpoint keeps the types.                                 *)
(***************************************************************************)
LEMMA RegisterTyped ==
  ASSUME NEW breaks \in Tables, NEW mem \in Code, NEW paused \in BOOLEAN,
         NEW addr \in CodeAddrs, NEW internal \in BOOLEAN
  PROVE  /\ RegisterBreaks(breaks, paused, mem, addr, internal) \in Tables
         /\ RegisterMem(breaks, paused, mem, addr, internal) \in Code
<1>1. RegisterMem(breaks, paused, mem, addr, internal) \in Code
  BY DEF RegisterMem, Code, Instruction
<1>2. CASE RegisterResult(breaks, addr, internal) # "Ok"
  BY <1>1, <1>2 DEF RegisterBreaks
<1>3. CASE RegisterResult(breaks, addr, internal) = "Ok" /\ SlotsAt(breaks, addr) # {}
  <2> DEFINE s == Lowest(SlotsAt(breaks, addr))
  <2>1. s \in SlotsAt(breaks, addr)
    BY <1>3, LowestMember DEF SlotsAt
  <2>2. s \in SwSlots /\ breaks[s] \in SwBreakpoint
    BY <2>1, SlotHoldsBreakpoint
  <2> HIDE DEF s
  <2>3. WithFlag(breaks[s], internal, TRUE) \in SwBreakpoint
    BY <2>2 DEF WithFlag, SwBreakpoint
  <2>4. [breaks EXCEPT ![s] = WithFlag(breaks[s], internal, TRUE)] \in Tables
    BY <2>2, <2>3 DEF Tables
  <2> QED
    BY <1>1, <1>3, <2>4 DEF RegisterBreaks, s
<1>4. CASE RegisterResult(breaks, addr, internal) = "Ok" /\ SlotsAt(breaks, addr) = {}
  <2> DEFINE s == Lowest(EmptySlots(breaks))
  <2>1. EmptySlots(breaks) # {}
    BY <1>4, Zenon DEF RegisterResult
  <2>2. s \in SwSlots
    BY <2>1, LowestMember DEF EmptySlots
  <2> HIDE DEF s
  <2>3. NewBreak(mem, addr, internal, ~paused) \in SwBreakpoint
    BY DEF NewBreak, SwBreakpoint, Code
  <2>4. [breaks EXCEPT ![s] = NewBreak(mem, addr, internal, ~paused)] \in Tables
    BY <2>2, <2>3 DEF Tables
  <2> QED
    BY <1>1, <1>4, <2>4 DEF RegisterBreaks, s
<1> QED
  BY <1>2, <1>3, <1>4

(***************************************************************************)
(* remove_sw_breakpoint keeps the types.                                   *)
(***************************************************************************)
LEMMA RemoveTyped ==
  ASSUME NEW breaks \in Tables, NEW mem \in Code,
         NEW addr \in CodeAddrs, NEW internal \in BOOLEAN
  PROVE  /\ RemoveBreaks(breaks, addr, internal) \in Tables
         /\ RemoveMem(breaks, mem, addr, internal) \in Code
<1>1. ASSUME NEW s \in SwSlots
      PROVE  AfterClear(breaks, s, addr, internal) \in SwBreakpoint \union {NO_BREAK}
  <2>1. CASE breaks[s].instr_addr = addr
    <3>1. breaks[s] \in SwBreakpoint
      BY <2>1, SlotHoldsBreakpoint DEF SlotsAt
    <3>2. WithFlag(breaks[s], internal, FALSE) \in SwBreakpoint
      BY <3>1 DEF WithFlag, SwBreakpoint
    <3> QED
      BY <2>1, <3>2 DEF AfterClear
  <2>2. CASE breaks[s].instr_addr # addr
    BY <2>2 DEF AfterClear, Tables
  <2> QED
    BY <2>1, <2>2
<1>2. RemoveBreaks(breaks, addr, internal) \in Tables
  BY <1>1 DEF RemoveBreaks, Tables
<1>3. ASSUME NEW a \in CodeAddrs, SlotsAt(breaks, a) # {}
      PROVE  Written(breaks[Lowest(SlotsAt(breaks, a))], FALSE) \in Instruction
  <2>1. Lowest(SlotsAt(breaks, a)) \in SlotsAt(breaks, a)
    BY <1>3, LowestMember DEF SlotsAt
  <2>2. breaks[Lowest(SlotsAt(breaks, a))] \in SwBreakpoint
    BY <2>1, SlotHoldsBreakpoint
  <2> QED
    BY <2>2 DEF Written, SwBreakpoint
<1>4. ASSUME NEW a \in CodeAddrs,
             \E s \in Dropped(breaks, addr, internal) : breaks[s].instr_addr = a /\ breaks[s].enabled
      PROVE  SlotsAt(breaks, a) # {}
  BY <1>4 DEF Dropped, SlotsAt
<1>5. RemoveMem(breaks, mem, addr, internal) \in Code
  BY <1>3, <1>4 DEF RemoveMem, Code
<1> QED
  BY <1>2, <1>5
-----------------------------------------------------------------------------
(***************************************************************************)
(* A table over a program, text: no two slots track one address, each is   *)
(* wanted, is armed exactly when breakpoints are not paused and remembers  *)
(* the program's instruction; and memory is the program with the armed     *)
(* ones patched in.                                                        *)
(***************************************************************************)
TableOK(breaks, paused, mem, text) ==
  /\ breaks \in Tables /\ mem \in Code /\ paused \in BOOLEAN
  /\ \A s, t \in SwSlots :
       breaks[s] # NO_BREAK /\ breaks[s].instr_addr = breaks[t].instr_addr => s = t
  /\ \A s \in SwSlots : breaks[s] # NO_BREAK =>
       /\ breaks[s].user \/ breaks[s].internal
       /\ breaks[s].enabled = ~paused
       /\ breaks[s].instr_backup = text[breaks[s].instr_addr]
  /\ \A a \in CodeAddrs :
       mem[a] = IF ~paused /\ a \in Tracked(breaks) THEN "bkpt" ELSE text[a]

(***************************************************************************)
(* A slot that is None tracks nothing.                                     *)
(***************************************************************************)
LEMMA NoBreakTracksNothing == NO_BREAK.instr_addr \notin CodeAddrs
  BY SwAssumption DEF NO_BREAK

(***************************************************************************)
(* A slot that is not None tracks an address of the program.               *)
(***************************************************************************)
LEMMA SlotTracks ==
  ASSUME NEW breaks \in Tables, NEW s \in SwSlots, breaks[s] # NO_BREAK
  PROVE  /\ breaks[s] \in SwBreakpoint
         /\ breaks[s].instr_addr \in Tracked(breaks)
         /\ s \in SlotsAt(breaks, breaks[s].instr_addr)
<1>1. breaks[s] \in SwBreakpoint
  BY DEF Tables
<1> QED
  BY <1>1 DEF Tracked, SlotsAt, SwBreakpoint

(***************************************************************************)
(* A tracked address has its one slot.                                     *)
(***************************************************************************)
LEMMA SlotOfTracked ==
  ASSUME NEW breaks, NEW paused, NEW mem, NEW text, TableOK(breaks, paused, mem, text),
         NEW a \in Tracked(breaks)
  PROVE  \E t \in SwSlots :
           /\ SlotsAt(breaks, a) = {t} /\ Lowest(SlotsAt(breaks, a)) = t
           /\ breaks[t] # NO_BREAK /\ breaks[t] \in SwBreakpoint
           /\ breaks[t].instr_addr = a
<1> DEFINE t == Lowest(SlotsAt(breaks, a))
<1>1. a \in CodeAddrs /\ SlotsAt(breaks, a) # {}
  BY DEF Tracked
<1>2. t \in SlotsAt(breaks, a)
  BY <1>1, LowestMember DEF SlotsAt
<1>3. t \in SwSlots /\ breaks[t] \in SwBreakpoint /\ breaks[t].instr_addr = a
  BY <1>1, <1>2, SlotHoldsBreakpoint DEF TableOK
<1>4. breaks[t] # NO_BREAK
  BY <1>1, <1>3, NoBreakTracksNothing
<1> HIDE DEF t
<1>5. \A s \in SlotsAt(breaks, a) : s = t
  BY <1>3, <1>4 DEF SlotsAt, TableOK
<1>6. SlotsAt(breaks, a) = {t}
  BY <1>3, <1>5 DEF SlotsAt
<1> QED
  BY <1>3, <1>4, <1>6 DEF t

(***************************************************************************)
(* set_breakpoints_ignored arms or disarms every breakpoint, and nothing   *)
(* else.                                                                   *)
(***************************************************************************)
LEMMA IgnoredKeepsSlots ==
  ASSUME NEW breaks \in Tables, NEW ignored \in BOOLEAN, NEW s \in SwSlots
  PROVE  LET after == IgnoredBreaks(breaks, ignored)
         IN /\ after[s] = IF breaks[s] = NO_BREAK THEN NO_BREAK
                          ELSE WithEnabled(breaks[s], ~ignored)
            /\ after[s].instr_addr = breaks[s].instr_addr
            /\ after[s] # NO_BREAK <=> breaks[s] # NO_BREAK
<1> DEFINE after == IgnoredBreaks(breaks, ignored)
<1>1. after[s] = IF breaks[s] = NO_BREAK THEN NO_BREAK ELSE WithEnabled(breaks[s], ~ignored)
  BY DEF IgnoredBreaks
<1>2. CASE breaks[s] = NO_BREAK
  BY <1>1, <1>2
<1>3. CASE breaks[s] # NO_BREAK
  <2>1. breaks[s] \in SwBreakpoint
    BY <1>3, SlotTracks
  <2>2. after[s].instr_addr = breaks[s].instr_addr /\ breaks[s].instr_addr \in CodeAddrs
    BY <1>1, <1>3, <2>1 DEF WithEnabled, SwBreakpoint
  <2> QED
    BY <1>1, <1>3, <2>2, NoBreakTracksNothing
<1> QED
  BY <1>2, <1>3

LEMMA IgnoredTracked ==
  ASSUME NEW breaks \in Tables, NEW ignored \in BOOLEAN
  PROVE  Tracked(IgnoredBreaks(breaks, ignored)) = Tracked(breaks)
  BY IgnoredKeepsSlots DEF Tracked, SlotsAt

LEMMA IgnoredKeepsTable ==
  ASSUME NEW breaks, NEW paused, NEW mem, NEW text, TableOK(breaks, paused, mem, text),
         NEW ignored \in BOOLEAN
  PROVE  TableOK(IgnoredBreaks(breaks, ignored), ignored, IgnoredMem(breaks, mem, ignored), text)
<1> DEFINE after == IgnoredBreaks(breaks, ignored)
           code == IgnoredMem(breaks, mem, ignored)
<1>1. breaks \in Tables /\ mem \in Code /\ paused \in BOOLEAN
  BY DEF TableOK
<1>2. after \in Tables /\ code \in Code
  BY <1>1, IgnoredTyped
<1>3. \A s \in SwSlots :
        /\ after[s] = IF breaks[s] = NO_BREAK THEN NO_BREAK ELSE WithEnabled(breaks[s], ~ignored)
        /\ after[s].instr_addr = breaks[s].instr_addr
        /\ after[s] # NO_BREAK <=> breaks[s] # NO_BREAK
  BY <1>1, IgnoredKeepsSlots
<1>4. ASSUME NEW a \in CodeAddrs
      PROVE  code[a] = IF ~ignored /\ a \in Tracked(breaks) THEN "bkpt" ELSE text[a]
  <2>1. code[a] = IF \E s \in SlotsAt(breaks, a) : breaks[s].enabled = ignored
                  THEN Written(breaks[Lowest(SlotsAt(breaks, a))], ~ignored)
                  ELSE mem[a]
    BY DEF IgnoredMem
  <2>2. mem[a] = IF ~paused /\ a \in Tracked(breaks) THEN "bkpt" ELSE text[a]
    BY DEF TableOK
  <2>3. CASE a \notin Tracked(breaks)
    <3>1. SlotsAt(breaks, a) = {}
      BY <2>3 DEF Tracked
    <3> QED
      BY <2>1, <2>2, <2>3, <3>1
  <2>4. CASE a \in Tracked(breaks)
    <3>1. PICK t \in SwSlots :
            /\ SlotsAt(breaks, a) = {t} /\ Lowest(SlotsAt(breaks, a)) = t
            /\ breaks[t] # NO_BREAK /\ breaks[t] \in SwBreakpoint
            /\ breaks[t].instr_addr = a
      BY <2>4, SlotOfTracked
    <3>2. breaks[t].enabled = ~paused /\ breaks[t].instr_backup = text[a]
      BY <3>1 DEF TableOK
    <3>3. code[a] = IF (~paused) = ignored THEN Written(breaks[t], ~ignored) ELSE mem[a]
      BY <2>1, <3>1, <3>2
    <3> QED
      BY <1>1, <2>2, <2>4, <3>2, <3>3 DEF Written
  <2> QED
    BY <2>3, <2>4
<1>5. \A s, t \in SwSlots :
        after[s] # NO_BREAK /\ after[s].instr_addr = after[t].instr_addr => s = t
  BY <1>3 DEF TableOK
<1>6. ASSUME NEW s \in SwSlots, after[s] # NO_BREAK
      PROVE  /\ after[s].user \/ after[s].internal
             /\ after[s].enabled = ~ignored
             /\ after[s].instr_backup = text[after[s].instr_addr]
  <2>1. breaks[s] # NO_BREAK /\ after[s] = WithEnabled(breaks[s], ~ignored)
    BY <1>3, <1>6
  <2>2. breaks[s] \in SwBreakpoint
    BY <1>1, <2>1, SlotTracks
  <2>3. /\ breaks[s].user \/ breaks[s].internal
        /\ breaks[s].instr_backup = text[breaks[s].instr_addr]
    BY <2>1 DEF TableOK
  <2> HIDE DEF after
  <2> QED
    BY <2>1, <2>2, <2>3 DEF WithEnabled, SwBreakpoint
<1>7. Tracked(after) = Tracked(breaks)
  BY <1>1, IgnoredTracked
<1> HIDE DEF after, code
<1>8. TableOK(after, ignored, code, text)
  BY <1>2, <1>4, <1>5, <1>6, <1>7 DEF TableOK
<1> QED
  BY <1>8 DEF after, code

(***************************************************************************)
(* register_sw_breakpoint tracks its address if it answers Ok: it adds a   *)
(* flag where the address is tracked, and else fills a slot that was None. *)
(***************************************************************************)
LEMMA AnotherFlag ==
  ASSUME NEW breaks, NEW paused, NEW mem, NEW text, TableOK(breaks, paused, mem, text),
         NEW addr \in Tracked(breaks), NEW internal \in BOOLEAN,
         RegisterResult(breaks, addr, internal) = "Ok"
  PROVE  /\ TableOK(RegisterBreaks(breaks, paused, mem, addr, internal), paused,
                    RegisterMem(breaks, paused, mem, addr, internal), text)
         /\ Tracked(RegisterBreaks(breaks, paused, mem, addr, internal)) = Tracked(breaks)
<1> DEFINE after == RegisterBreaks(breaks, paused, mem, addr, internal)
<1>0. addr \in CodeAddrs /\ SlotsAt(breaks, addr) # {} /\ breaks \in Tables
  BY DEF Tracked, TableOK
<1>1. PICK t \in SwSlots :
        /\ SlotsAt(breaks, addr) = {t} /\ Lowest(SlotsAt(breaks, addr)) = t
        /\ breaks[t] # NO_BREAK /\ breaks[t] \in SwBreakpoint
        /\ breaks[t].instr_addr = addr
  BY SlotOfTracked
<1> DEFINE flagged == WithFlag(breaks[t], internal, TRUE)
<1>2. after = [breaks EXCEPT ![t] = flagged]
  BY <1>0, <1>1 DEF RegisterBreaks
<1>3. RegisterMem(breaks, paused, mem, addr, internal) = mem
  BY <1>0 DEF RegisterMem, RegisterWrites
<1>4. /\ flagged \in SwBreakpoint /\ flagged.instr_addr = addr
      /\ flagged.enabled = breaks[t].enabled
      /\ flagged.instr_backup = breaks[t].instr_backup
      /\ flagged.user \/ flagged.internal
  BY <1>1 DEF WithFlag, SwBreakpoint
<1>5. \A s \in SwSlots : after[s] = IF s = t THEN flagged ELSE breaks[s]
  BY <1>0, <1>2 DEF Tables
<1>6. after \in Tables
  BY <1>0, RegisterTyped DEF TableOK
<1> HIDE DEF after, flagged
<1>7. \A s \in SwSlots : /\ after[s].instr_addr = breaks[s].instr_addr
                         /\ after[s] # NO_BREAK => breaks[s] # NO_BREAK
  BY <1>1, <1>4, <1>5
<1>8. Tracked(after) = Tracked(breaks)
  BY <1>7 DEF Tracked, SlotsAt
<1>9. TableOK(after, paused, mem, text)
  BY <1>1, <1>4, <1>5, <1>6, <1>7, <1>8 DEF TableOK
<1> QED
  BY <1>3, <1>8, <1>9 DEF after

LEMMA NewSlot ==
  ASSUME NEW breaks, NEW paused, NEW mem, NEW text, TableOK(breaks, paused, mem, text),
         NEW addr \in CodeAddrs \ Tracked(breaks), NEW internal \in BOOLEAN,
         RegisterResult(breaks, addr, internal) = "Ok"
  PROVE  /\ TableOK(RegisterBreaks(breaks, paused, mem, addr, internal), paused,
                    RegisterMem(breaks, paused, mem, addr, internal), text)
         /\ Tracked(RegisterBreaks(breaks, paused, mem, addr, internal))
              = Tracked(breaks) \union {addr}
<1> DEFINE t == Lowest(EmptySlots(breaks))
           new == NewBreak(mem, addr, internal, ~paused)
           after == RegisterBreaks(breaks, paused, mem, addr, internal)
           code == RegisterMem(breaks, paused, mem, addr, internal)
<1>0. breaks \in Tables /\ mem \in Code /\ paused \in BOOLEAN /\ SlotsAt(breaks, addr) = {}
  BY DEF TableOK, Tracked
<1>1. EmptySlots(breaks) # {}
  BY <1>0, Zenon DEF RegisterResult
<1>2. t \in EmptySlots(breaks)
  BY <1>1, LowestMember DEF EmptySlots
<1>3. t \in SwSlots /\ breaks[t] = NO_BREAK
  BY <1>2 DEF EmptySlots
<1>4. after = [breaks EXCEPT ![t] = new]
  BY <1>0 DEF RegisterBreaks
<1>5. code = IF ~paused THEN [mem EXCEPT ![addr] = "bkpt"] ELSE mem
  BY <1>0 DEF RegisterMem, RegisterWrites
<1>6. mem[addr] = text[addr]
  BY DEF TableOK
<1>7. /\ new.instr_addr = addr /\ new # NO_BREAK
      /\ new.enabled = ~paused /\ new.instr_backup = text[addr]
      /\ new.user \/ new.internal
  <2>1. new.instr_addr = addr /\ addr # NO_BREAK.instr_addr
    BY NoBreakTracksNothing DEF NewBreak
  <2>2. new # NO_BREAK
    BY <2>1
  <2>3. new.enabled = ~paused /\ new.instr_backup = text[addr]
    BY <1>6 DEF NewBreak
  <2>4. new.user \/ new.internal
    BY DEF NewBreak
  <2> QED
    BY <2>1, <2>2, <2>3, <2>4
<1>8. after \in Tables /\ code \in Code
  BY <1>0, RegisterTyped
<1>9. \A a \in CodeAddrs : code[a] = IF ~paused /\ a = addr THEN "bkpt" ELSE mem[a]
  BY <1>0, <1>5 DEF Code
<1> HIDE DEF t, new, after, code
<1>10. \A s \in SwSlots : after[s] = IF s = t THEN new ELSE breaks[s]
  BY <1>0, <1>3, <1>4 DEF Tables
<1>11. Tracked(after) = Tracked(breaks) \union {addr}
  BY <1>3, <1>7, <1>10, NoBreakTracksNothing DEF Tracked, SlotsAt
<1>12. \A s \in SwSlots : breaks[s].instr_addr # addr
  BY <1>0 DEF SlotsAt
<1>13. TableOK(after, paused, code, text)
  <2>1. \A s, u \in SwSlots :
          after[s] # NO_BREAK /\ after[s].instr_addr = after[u].instr_addr => s = u
    BY <1>7, <1>10, <1>12 DEF TableOK
  <2>2. \A s \in SwSlots : after[s] # NO_BREAK =>
          /\ after[s].user \/ after[s].internal
          /\ after[s].enabled = ~paused
          /\ after[s].instr_backup = text[after[s].instr_addr]
    BY <1>7, <1>10 DEF TableOK
  <2>3. \A a \in CodeAddrs :
          code[a] = IF ~paused /\ a \in Tracked(after) THEN "bkpt" ELSE text[a]
    BY <1>9, <1>11 DEF TableOK
  <2> QED
    BY <1>0, <1>8, <2>1, <2>2, <2>3 DEF TableOK
<1> QED
  BY <1>11, <1>13 DEF after, code

LEMMA RegisterKeepsTable ==
  ASSUME NEW breaks, NEW paused, NEW mem, NEW text, TableOK(breaks, paused, mem, text),
         NEW addr \in CodeAddrs, NEW internal \in BOOLEAN
  PROVE  /\ TableOK(RegisterBreaks(breaks, paused, mem, addr, internal), paused,
                    RegisterMem(breaks, paused, mem, addr, internal), text)
         /\ Tracked(RegisterBreaks(breaks, paused, mem, addr, internal))
              = Tracked(breaks)
                  \union IF RegisterResult(breaks, addr, internal) = "Ok" THEN {addr} ELSE {}
<1>1. CASE RegisterResult(breaks, addr, internal) # "Ok"
  BY <1>1 DEF RegisterBreaks, RegisterMem, RegisterWrites
<1>2. CASE RegisterResult(breaks, addr, internal) = "Ok" /\ addr \in Tracked(breaks)
  <2>1. Tracked(breaks) \union {addr} = Tracked(breaks)
    BY <1>2
  <2> QED
    BY <1>2, <2>1, AnotherFlag
<1>3. CASE RegisterResult(breaks, addr, internal) = "Ok" /\ addr \notin Tracked(breaks)
  BY <1>3, NewSlot
<1> QED
  BY <1>1, <1>2, <1>3

(***************************************************************************)
(* Whatever slot remove_sw_breakpoint empties is the one that tracked its  *)
(* address.                                                                *)
(***************************************************************************)
LEMMA DroppedSlot ==
  ASSUME NEW breaks, NEW paused, NEW mem, NEW text, TableOK(breaks, paused, mem, text),
         NEW addr \in CodeAddrs, NEW internal \in BOOLEAN,
         NEW s \in Dropped(breaks, addr, internal)
  PROVE  /\ s \in SwSlots /\ breaks[s] # NO_BREAK /\ breaks[s].instr_addr = addr
         /\ SlotsAt(breaks, addr) = {s} /\ Dropped(breaks, addr, internal) = {s}
<1>1. ASSUME NEW t \in Dropped(breaks, addr, internal)
      PROVE  t \in SwSlots /\ breaks[t] # NO_BREAK /\ breaks[t].instr_addr = addr
  <2>1. t \in SwSlots /\ Unwanted(AfterClear(breaks, t, addr, internal))
    BY DEF Dropped
  <2>2. ASSUME breaks[t].instr_addr # addr PROVE FALSE
    <3>1. Unwanted(breaks[t])
      BY <2>1, <2>2 DEF AfterClear
    <3> QED
      BY <2>1, <3>1 DEF Unwanted, TableOK
  <2> QED
    BY <2>1, <2>2, NoBreakTracksNothing
<1>2. SlotsAt(breaks, addr) = {s}
  BY <1>1 DEF SlotsAt, TableOK
<1>3. \A t \in Dropped(breaks, addr, internal) : t = s
  BY <1>1, <1>2 DEF SlotsAt
<1> QED
  BY <1>1, <1>2, <1>3

(***************************************************************************)
(* remove_sw_breakpoint empties that slot and puts the program's           *)
(* instruction back, or only clears a flag.                                *)
(***************************************************************************)
LEMMA DropsSlot ==
  ASSUME NEW breaks, NEW paused, NEW mem, NEW text, TableOK(breaks, paused, mem, text),
         NEW addr \in CodeAddrs, NEW internal \in BOOLEAN,
         Dropped(breaks, addr, internal) # {}
  PROVE  /\ TableOK(RemoveBreaks(breaks, addr, internal), paused,
                    RemoveMem(breaks, mem, addr, internal), text)
         /\ Tracked(RemoveBreaks(breaks, addr, internal)) = Tracked(breaks) \ {addr}
<1> DEFINE after == RemoveBreaks(breaks, addr, internal)
           code == RemoveMem(breaks, mem, addr, internal)
<1>0. breaks \in Tables /\ mem \in Code /\ paused \in BOOLEAN
  BY DEF TableOK
<1>1. PICK t \in Dropped(breaks, addr, internal) : TRUE
  OBVIOUS
<1>2. /\ t \in SwSlots /\ breaks[t] # NO_BREAK /\ breaks[t].instr_addr = addr
      /\ SlotsAt(breaks, addr) = {t} /\ Dropped(breaks, addr, internal) = {t}
  BY DroppedSlot
<1>3. breaks[t].enabled = ~paused /\ breaks[t].instr_backup = text[addr]
  BY <1>2 DEF TableOK
<1>4. Lowest(SlotsAt(breaks, addr)) = t
  BY <1>2, LowestMember
<1>5. \A s \in SwSlots : after[s] = IF s = t THEN NO_BREAK ELSE breaks[s]
  <2>1. \A s \in SwSlots : s # t => breaks[s].instr_addr # addr
    BY <1>2 DEF SlotsAt
  <2> QED
    BY <1>2, <2>1 DEF RemoveBreaks, AfterClear
<1>6. after \in Tables /\ code \in Code
  BY <1>0, RemoveTyped
<1>7. ASSUME NEW a \in CodeAddrs
      PROVE  code[a] = IF a = addr THEN text[a] ELSE mem[a]
  <2>1. code[a] = IF \E s \in Dropped(breaks, addr, internal) :
                       breaks[s].instr_addr = a /\ breaks[s].enabled
                  THEN Written(breaks[Lowest(SlotsAt(breaks, a))], FALSE)
                  ELSE mem[a]
    BY DEF RemoveMem
  <2>2. (\E s \in Dropped(breaks, addr, internal) :
           breaks[s].instr_addr = a /\ breaks[s].enabled) <=> a = addr /\ ~paused
    BY <1>2, <1>3
  <2>3. a = addr => Written(breaks[Lowest(SlotsAt(breaks, a))], FALSE) = text[a]
    BY <1>3, <1>4 DEF Written
  <2>4. mem[a] = IF ~paused /\ a \in Tracked(breaks) THEN "bkpt" ELSE text[a]
    BY DEF TableOK
  <2> QED
    BY <2>1, <2>2, <2>3, <2>4
<1> HIDE DEF after, code
<1>8. Tracked(after) = Tracked(breaks) \ {addr}
  BY <1>2, <1>5, NoBreakTracksNothing DEF Tracked, SlotsAt
<1>9. \A s \in SwSlots : after[s] # NO_BREAK => s # t /\ after[s] = breaks[s]
  BY <1>5
<1>10. \A s \in SwSlots : breaks[s] # NO_BREAK => breaks[s].instr_addr # NO_BREAK.instr_addr
  BY <1>0, SlotTracks, NoBreakTracksNothing DEF Tracked
<1>11. \A s, u \in SwSlots :
         after[s] # NO_BREAK /\ after[s].instr_addr = after[u].instr_addr => s = u
  BY <1>5, <1>9, <1>10 DEF TableOK
<1>12. \A a \in CodeAddrs :
         code[a] = IF ~paused /\ a \in Tracked(after) THEN "bkpt" ELSE text[a]
  BY <1>7, <1>8 DEF TableOK
<1>13. TableOK(after, paused, code, text)
  BY <1>0, <1>6, <1>9, <1>11, <1>12 DEF TableOK
<1> QED
  BY <1>8, <1>13 DEF after, code

LEMMA KeepsSlots ==
  ASSUME NEW breaks, NEW paused, NEW mem, NEW text, TableOK(breaks, paused, mem, text),
         NEW addr \in CodeAddrs, NEW internal \in BOOLEAN,
         Dropped(breaks, addr, internal) = {}
  PROVE  /\ TableOK(RemoveBreaks(breaks, addr, internal), paused,
                    RemoveMem(breaks, mem, addr, internal), text)
         /\ Tracked(RemoveBreaks(breaks, addr, internal)) = Tracked(breaks)
<1> DEFINE after == RemoveBreaks(breaks, addr, internal)
<1>0. breaks \in Tables /\ mem \in Code /\ after \in Tables
  BY RemoveTyped DEF TableOK
<1>1. RemoveMem(breaks, mem, addr, internal) = mem
  <2>1. RemoveMem(breaks, mem, addr, internal) = [a \in CodeAddrs |-> mem[a]]
    BY DEF RemoveMem
  <2> QED
    BY <1>0, <2>1 DEF Code
<1>2. ASSUME NEW s \in SwSlots
      PROVE  /\ after[s].instr_addr = breaks[s].instr_addr
             /\ after[s].enabled = breaks[s].enabled
             /\ after[s].instr_backup = breaks[s].instr_backup
             /\ after[s] # NO_BREAK => breaks[s] # NO_BREAK /\ (after[s].user \/ after[s].internal)
  <2>1. after[s] = AfterClear(breaks, s, addr, internal)
    BY DEF RemoveBreaks
  <2>2. ~Unwanted(after[s])
    BY <2>1 DEF Dropped
  <2>3. CASE breaks[s].instr_addr # addr
    BY <2>1, <2>2, <2>3 DEF AfterClear, Unwanted
  <2>4. CASE breaks[s].instr_addr = addr
    <3>1. breaks[s] # NO_BREAK
      BY <2>4, NoBreakTracksNothing
    <3>2. breaks[s] \in SwBreakpoint
      BY <1>0, <3>1, SlotTracks
    <3>3. after[s] = WithFlag(breaks[s], internal, FALSE)
      BY <2>1, <2>4 DEF AfterClear
    <3> HIDE DEF after
    <3> QED
      BY <2>2, <3>1, <3>2, <3>3 DEF WithFlag, SwBreakpoint, Unwanted
  <2> QED
    BY <2>3, <2>4
<1> HIDE DEF after
<1>3. Tracked(after) = Tracked(breaks)
  BY <1>2 DEF Tracked, SlotsAt
<1>4. TableOK(after, paused, mem, text)
  BY <1>0, <1>2, <1>3 DEF TableOK
<1> QED
  BY <1>1, <1>3, <1>4 DEF after

LEMMA RemoveKeepsTable ==
  ASSUME NEW breaks, NEW paused, NEW mem, NEW text, TableOK(breaks, paused, mem, text),
         NEW addr \in CodeAddrs, NEW internal \in BOOLEAN
  PROVE  /\ TableOK(RemoveBreaks(breaks, addr, internal), paused,
                    RemoveMem(breaks, mem, addr, internal), text)
         /\ Tracked(RemoveBreaks(breaks, addr, internal))
              = Tracked(breaks) \ IF RemoveResult(breaks, addr, internal) THEN {addr} ELSE {}
<1>1. CASE Dropped(breaks, addr, internal) # {}
  BY <1>1, DropsSlot DEF RemoveResult
<1>2. CASE Dropped(breaks, addr, internal) = {}
  <2>1. Tracked(breaks) \ {} = Tracked(breaks)
    OBVIOUS
  <2> QED
    BY <1>2, <2>1, KeepsSlots DEF RemoveResult
<1> QED
  BY <1>1, <1>2
=============================================================================
