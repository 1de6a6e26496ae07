------------------------- MODULE SwBreakpointProofs -------------------------
(***************************************************************************)
(* What holds of the software breakpoints for any number of slots, any     *)
(* program and any code GDB writes: every patch in memory is one of the    *)
(* table's, and no breakpoint is missed or met by mistake.                 *)
(***************************************************************************)
EXTENDS SwBreakpoints, BreakpointLemmas

(***************************************************************************)
(* The invariant says of the table what BreakpointLemmas keeps, and what   *)
(* the processor fetches.                                                  *)
(***************************************************************************)
LEMMA InvariantOnTable ==
  SwInv <=> /\ TypeOK /\ TableOK(breaks, paused, mem, text)
            /\ UntrackedFetched /\ TrackedFetched
  BY DEF SwInv, TypeOK, TableOK, Tables, Code, OneSlotPerAddress, TableConsistent, MemoryPatched

LEMMA TrackedSlot ==
  ASSUME SwInv, NEW a \in Tracked(breaks)
  PROVE  /\ a \in CodeAddrs
         /\ Lowest(SlotsAt(breaks, a)) \in SwSlots
         /\ breaks[Lowest(SlotsAt(breaks, a))] \in SwBreakpoint
         /\ breaks[Lowest(SlotsAt(breaks, a))] # NO_BREAK
         /\ breaks[Lowest(SlotsAt(breaks, a))].instr_addr = a
         /\ SlotsAt(breaks, a) = {Lowest(SlotsAt(breaks, a))}
<1>1. TableOK(breaks, paused, mem, text)
  BY InvariantOnTable
<1> QED
  BY <1>1, SlotOfTracked DEF Tracked

(***************************************************************************)
(* The empty table, over the program as loaded, is consistent.             *)
(***************************************************************************)
LEMMA InitEstablishesSwInv == Init => SwInv
<1> SUFFICES ASSUME Init PROVE SwInv
  OBVIOUS
<1>1. TypeOK
  BY SwComponentAssumption DEF Init, TypeOK
<1>2. Tracked(breaks) = {}
  BY NoBreakTracksNothing DEF Init, Tracked, SlotsAt
<1>3. OneSlotPerAddress /\ TableConsistent
  BY DEF Init, OneSlotPerAddress, TableConsistent
<1>4. MemoryPatched /\ UntrackedFetched /\ TrackedFetched
  BY <1>2 DEF Init, MemoryPatched, UntrackedFetched, TrackedFetched
<1> QED
  BY <1>1, <1>3, <1>4 DEF SwInv

(***************************************************************************)
(* Each call keeps the table, and syncs the instructions it writes.        *)
(***************************************************************************)
LEMMA IgnorePreservesSwInv ==
  ASSUME SwInv, NEW ignored \in BOOLEAN, set_breakpoints_ignored(ignored)
  PROVE  SwInv'
<1>1. TypeOK /\ TableOK(breaks, paused, mem, text) /\ UntrackedFetched
  BY InvariantOnTable
<1>2. breaks' = IgnoredBreaks(breaks, ignored) /\ paused' = ignored /\ text' = text /\ result' = result
  BY DEF set_breakpoints_ignored
<1>3. TableOK(breaks, paused, mem, text)'
  BY <1>1, IgnoredKeepsTable DEF set_breakpoints_ignored
<1>4. Tracked(breaks') = Tracked(breaks)
  BY <1>1, <1>2, IgnoredTracked DEF TableOK
<1>5. icache' = [a \in CodeAddrs |-> IF a \in Tracked(breaks) THEN mem'[a] ELSE icache[a]]
  BY DEF set_breakpoints_ignored, sync_instruction
<1>6. TypeOK'
  BY <1>1, <1>2, <1>3, <1>5 DEF TypeOK, TableOK, Tables, Code
<1>7. UntrackedFetched'
  BY <1>1, <1>2, <1>4, <1>5 DEF UntrackedFetched
<1>8. TrackedFetched'
  BY <1>3, <1>4, <1>5 DEF TrackedFetched, TableOK, Tracked
<1> QED
  BY <1>3, <1>6, <1>7, <1>8
  DEF SwInv, TableOK, OneSlotPerAddress, TableConsistent, MemoryPatched

LEMMA RegisterPreservesSwInv ==
  ASSUME SwInv, NEW addr \in CodeAddrs, NEW internal \in BOOLEAN,
         register_sw_breakpoint(addr, internal)
  PROVE  SwInv'
<1> DEFINE writes == RegisterWrites(breaks, paused, addr, internal)
<1>1. /\ TypeOK /\ TableOK(breaks, paused, mem, text)
      /\ UntrackedFetched /\ TrackedFetched
  BY InvariantOnTable
<1>2. /\ breaks' = RegisterBreaks(breaks, paused, mem, addr, internal)
      /\ mem' = RegisterMem(breaks, paused, mem, addr, internal)
      /\ paused' = paused /\ text' = text
  BY DEF register_sw_breakpoint
<1>3. TableOK(breaks, paused, mem, text)'
  BY <1>1, <1>2, RegisterKeepsTable
<1>4. Tracked(breaks')
        = Tracked(breaks) \union IF RegisterResult(breaks, addr, internal) = "Ok" THEN {addr} ELSE {}
  BY <1>1, <1>2, RegisterKeepsTable
<1>5. result' \in {"Ok", "AlreadyExists", "NoSpace", "CannotWrite"}
  BY DEF register_sw_breakpoint, RegisterResult
<1>6. icache' = [a \in CodeAddrs |-> IF writes /\ a = addr THEN mem'[a] ELSE icache[a]]
  BY DEF register_sw_breakpoint, sync_instruction
<1>7. /\ writes => RegisterResult(breaks, addr, internal) = "Ok"
      /\ ~paused /\ addr \notin Tracked(breaks) /\ RegisterResult(breaks, addr, internal) = "Ok"
           => writes
  BY DEF RegisterWrites, Tracked
<1> HIDE DEF writes
<1>8. TypeOK'
  BY <1>1, <1>2, <1>3, <1>5, <1>6 DEF TypeOK, TableOK, Tables, Code
<1>9. UntrackedFetched'
  BY <1>1, <1>2, <1>4, <1>6, <1>7 DEF UntrackedFetched
<1>10. TrackedFetched'
  <2> SUFFICES ASSUME ~paused, NEW a \in Tracked(breaks') PROVE icache'[a] = "bkpt"
    BY <1>2 DEF TrackedFetched
  <2>1. a \in CodeAddrs /\ mem'[a] = "bkpt"
    BY <1>2, <1>3 DEF TableOK, Tracked
  <2>2. CASE a \in Tracked(breaks)
    BY <1>1, <1>6, <2>1, <2>2 DEF TrackedFetched
  <2>3. CASE a \notin Tracked(breaks)
    BY <1>4, <1>6, <1>7, <2>1, <2>3
  <2> QED
    BY <2>2, <2>3
<1> QED
  BY <1>3, <1>8, <1>9, <1>10
  DEF SwInv, TableOK, OneSlotPerAddress, TableConsistent, MemoryPatched

LEMMA RemovePreservesSwInv ==
  ASSUME SwInv, NEW addr \in CodeAddrs, NEW internal \in BOOLEAN,
         remove_sw_breakpoint(addr, internal)
  PROVE  SwInv'
<1> DEFINE drops == RemoveResult(breaks, addr, internal)
<1>1. /\ TypeOK /\ TableOK(breaks, paused, mem, text)
      /\ UntrackedFetched /\ TrackedFetched
  BY InvariantOnTable
<1>2. /\ breaks' = RemoveBreaks(breaks, addr, internal)
      /\ mem' = RemoveMem(breaks, mem, addr, internal)
      /\ paused' = paused /\ text' = text /\ result' \in {"Changed", "Unchanged"}
  BY DEF remove_sw_breakpoint
<1>3. TableOK(breaks, paused, mem, text)'
  BY <1>1, <1>2, RemoveKeepsTable
<1>4. Tracked(breaks') = Tracked(breaks) \ IF drops THEN {addr} ELSE {}
  BY <1>1, <1>2, RemoveKeepsTable
<1>5. icache' = [a \in CodeAddrs |-> IF drops /\ a = addr THEN mem'[a] ELSE icache[a]]
  BY DEF remove_sw_breakpoint, sync_instruction
<1> HIDE DEF drops
<1>6. TypeOK'
  BY <1>1, <1>2, <1>3, <1>5 DEF TypeOK, TableOK, Tables, Code
<1>7. UntrackedFetched'
  <2> SUFFICES ASSUME NEW a \in CodeAddrs \ (Tracked(breaks') \union GdbWrites)
               PROVE  icache'[a] = text[a]
    BY <1>2 DEF UntrackedFetched
  <2>1. CASE drops /\ a = addr
    BY <1>2, <1>3, <1>5, <2>1 DEF TableOK
  <2>2. CASE ~(drops /\ a = addr)
    BY <1>1, <1>4, <1>5, <2>2 DEF UntrackedFetched
  <2> QED
    BY <2>1, <2>2
<1>8. TrackedFetched'
  BY <1>1, <1>2, <1>4, <1>5 DEF TrackedFetched, Tracked
<1> QED
  BY <1>3, <1>6, <1>7, <1>8
  DEF SwInv, TableOK, OneSlotPerAddress, TableConsistent, MemoryPatched

(***************************************************************************)
(* GDB writes code only where nothing is tracked, and the cache may fetch  *)
(* a line again at any time.                                               *)
(***************************************************************************)
LEMMA WritePreservesSwInv ==
  ASSUME SwInv, NEW addr \in CodeAddrs, NEW instr \in Instruction, write_addrs(addr, instr)
  PROVE  SwInv'
<1>0. TypeOK
  BY DEF SwInv
<1>1. /\ breaks' = breaks /\ paused' = paused /\ icache' = icache /\ result' = result
      /\ mem' = [mem EXCEPT ![addr] = instr] /\ text' = [text EXCEPT ![addr] = instr]
      /\ paused /\ addr \in GdbWrites /\ addr \notin Tracked(breaks)
  BY DEF write_addrs
<1>2. TypeOK'
  BY <1>0, <1>1 DEF TypeOK
<1>3. \A a \in CodeAddrs : /\ mem'[a] = IF a = addr THEN instr ELSE mem[a]
                           /\ text'[a] = IF a = addr THEN instr ELSE text[a]
  BY <1>0, <1>1 DEF TypeOK
<1>4. OneSlotPerAddress' /\ TrackedFetched'
  BY <1>1 DEF SwInv, OneSlotPerAddress, TrackedFetched
<1>5. TableConsistent'
  <2>1. \A s \in SwSlots : breaks[s] # NO_BREAK =>
          breaks[s].instr_addr \in CodeAddrs /\ breaks[s].instr_addr # addr
    BY <1>0, <1>1, SlotTracks DEF TypeOK, Tables, Tracked
  <2> QED
    BY <1>1, <1>3, <2>1 DEF SwInv, TableConsistent
<1>6. MemoryPatched' /\ UntrackedFetched'
  BY <1>1, <1>3 DEF SwInv, MemoryPatched, UntrackedFetched
<1> QED
  BY <1>2, <1>4, <1>5, <1>6 DEF SwInv

LEMMA EvictPreservesSwInv ==
  ASSUME SwInv, NEW addr \in CodeAddrs, Evict(addr)
  PROVE  SwInv'
<1>0. TypeOK
  BY DEF SwInv
<1>1. /\ breaks' = breaks /\ paused' = paused /\ mem' = mem /\ text' = text /\ result' = result
      /\ icache' = [icache EXCEPT ![addr] = mem[addr]]
  BY DEF Evict
<1>2. TypeOK'
  BY <1>0, <1>1 DEF TypeOK
<1>3. OneSlotPerAddress' /\ TableConsistent' /\ MemoryPatched'
  BY <1>1 DEF SwInv, OneSlotPerAddress, TableConsistent, MemoryPatched
<1>4. \A a \in CodeAddrs : icache'[a] = IF a = addr THEN mem[a] ELSE icache[a]
  BY <1>0, <1>1 DEF TypeOK
<1>5. UntrackedFetched' /\ TrackedFetched'
  BY <1>1, <1>4 DEF SwInv, MemoryPatched, UntrackedFetched, TrackedFetched, Tracked
<1> QED
  BY <1>2, <1>3, <1>5 DEF SwInv

(***************************************************************************)
(* So the invariant always holds.                                          *)
(***************************************************************************)
THEOREM SwInvHolds == Spec => []SwInv
<1>1. SwInv /\ [Next]_swvars => SwInv'
  <2> SUFFICES ASSUME SwInv, [Next]_swvars PROVE SwInv'
    OBVIOUS
  <2>1. ASSUME NEW ignored \in BOOLEAN, set_breakpoints_ignored(ignored) PROVE SwInv'
    BY <2>1, IgnorePreservesSwInv
  <2>2. ASSUME NEW addr \in CodeAddrs, NEW internal \in BOOLEAN,
               register_sw_breakpoint(addr, internal)
        PROVE  SwInv'
    BY <2>2, RegisterPreservesSwInv
  <2>3. ASSUME NEW addr \in CodeAddrs, NEW internal \in BOOLEAN,
               remove_sw_breakpoint(addr, internal)
        PROVE  SwInv'
    BY <2>3, RemovePreservesSwInv
  <2>4. ASSUME NEW addr \in CodeAddrs, NEW instr \in Instruction, write_addrs(addr, instr)
        PROVE  SwInv'
    BY <2>4, WritePreservesSwInv
  <2>5. ASSUME NEW addr \in CodeAddrs, Evict(addr) PROVE SwInv'
    BY <2>5, EvictPreservesSwInv
  <2>6. CASE UNCHANGED swvars
    BY <2>6 DEF swvars, SwInv, TypeOK, OneSlotPerAddress, TableConsistent, MemoryPatched,
                UntrackedFetched, TrackedFetched
  <2> QED
    BY <2>1, <2>2, <2>3, <2>4, <2>5, <2>6 DEF Next
<1> QED
  BY <1>1, InitEstablishesSwInv, PTL DEF Spec

(***************************************************************************)
(* Every slot of the table is None or a breakpoint, every address of the   *)
(* program holds an instruction, in memory and in the cache.               *)
(***************************************************************************)
THEOREM SwTypeCorrect == Spec => []TypeOK
<1>1. SwInv => TypeOK
  BY DEF SwInv
<1> QED
  BY <1>1, SwInvHolds, PTL

(***************************************************************************)
(* Every tracked breakpoint has somebody who wants it, is armed exactly    *)
(* while breakpoints are not ignored, and its backup is the program's      *)
(* instruction (SwBreakpoint::set_enabled, register_sw_breakpoint).        *)
(***************************************************************************)
THEOREM TableStaysConsistent == Spec => []TableConsistent
<1>1. SwInv => TableConsistent
  BY DEF SwInv
<1> QED
  BY <1>1, SwInvHolds, PTL

(***************************************************************************)
(* While breakpoints are ignored GDB and the interrupt handlers see the    *)
(* program's own code (set_breakpoints_ignored).                           *)
(***************************************************************************)
THEOREM MonitorSeesProgram == Spec => []ProgramTextShown
<1>1. SwInv => ProgramTextShown
  <2> SUFFICES ASSUME SwInv, paused PROVE mem = text
    BY DEF ProgramTextShown
  <2>1. \A a \in CodeAddrs : mem[a] = text[a]
    BY DEF SwInv, MemoryPatched
  <2>2. mem \in [CodeAddrs -> Instruction] /\ text \in [CodeAddrs -> Instruction]
    BY DEF SwInv, TypeOK
  <2> QED
    BY <2>1, <2>2
<1> QED
  BY <1>1, SwInvHolds, PTL

(***************************************************************************)
(* While they are not, the processor meets every breakpoint and no stale   *)
(* one: what the calls write, they sync (cache::sync_instruction).         *)
(***************************************************************************)
THEOREM BreakpointsAreFetched == Spec => []BreakpointsTakeEffect
<1>1. SwInv => BreakpointsTakeEffect
  BY DEF SwInv, UntrackedFetched, TrackedFetched, BreakpointsTakeEffect
<1> QED
  BY <1>1, SwInvHolds, PTL

-----------------------------------------------------------------------------
WhoOf(internal) == IF internal THEN "internal" ELSE "user"

FlagsOf(bkpt) == {who \in Set!Who : Flagged(bkpt, who = "internal")}

(***************************************************************************)
(* Who wants a stop at an address is written in its one slot.              *)
(***************************************************************************)
LEMMA WantedInSlot ==
  ASSUME NEW table, NEW a, NEW t, SlotsAt(table, a) = {t}
  PROVE  WantedBy(table, a) = FlagsOf(table[t])
  BY DEF WantedBy, FlagsOf, Set!Who

LEMMA WantedByNobody ==
  ASSUME NEW table, NEW a, SlotsAt(table, a) = {}
  PROVE  WantedBy(table, a) = {}
  BY DEF WantedBy

(***************************************************************************)
(* Breakpoints are placed where the table tracks one.                      *)
(***************************************************************************)
LEMMA PlacedIsTracked ==
  ASSUME SwInv
  PROVE  Set!Placed = Tracked(breaks)
<1>1. ASSUME NEW a \in CodeAddrs, a \notin Tracked(breaks)
      PROVE  wanted[a] = {}
  BY <1>1, WantedByNobody DEF wanted, Tracked
<1>2. ASSUME NEW a \in Tracked(breaks)
      PROVE  a \in CodeAddrs /\ wanted[a] # {}
  <2> DEFINE t == Lowest(SlotsAt(breaks, a))
  <2>1. /\ a \in CodeAddrs /\ t \in SwSlots /\ breaks[t] # NO_BREAK
    BY TrackedSlot
  <2>2. SlotsAt(breaks, a) = {t}
    BY TrackedSlot
  <2> HIDE DEF t
  <2>3. breaks[t].user \/ breaks[t].internal
    BY <2>1 DEF SwInv, TableConsistent
  <2>4. Flagged(breaks[t], "user" = "internal") \/ Flagged(breaks[t], "internal" = "internal")
    BY <2>3 DEF Flagged
  <2>5. wanted[a] = FlagsOf(breaks[t])
    BY <2>1, <2>2, WantedInSlot DEF wanted
  <2> QED
    BY <2>1, <2>4, <2>5 DEF FlagsOf, Set!Who
<1> QED
  BY <1>1, <1>2 DEF Set!Placed, Tracked

(***************************************************************************)
(* There are as many of them as slots in use, so the table is full exactly *)
(* when the map is.                                                        *)
(***************************************************************************)
LEMMA SlotsLeft ==
  ASSUME SwInv
  PROVE  /\ EmptySlots(breaks) = {} => Cardinality(Tracked(breaks)) = NumSwBreakpoints
         /\ EmptySlots(breaks) # {} => Cardinality(Tracked(breaks)) < NumSwBreakpoints
<1> DEFINE inUse == SwSlots \ EmptySlots(breaks)
           f == [s \in inUse |-> breaks[s].instr_addr]
<1>0. breaks \in Tables
  BY DEF SwInv, TypeOK, Tables
<1>1. \A s \in inUse : s \in SwSlots /\ breaks[s] # NO_BREAK /\ f[s] \in Tracked(breaks)
  BY <1>0, SlotTracks DEF EmptySlots
<1>2. f \in Bijection(inUse, Tracked(breaks))
  <2>1. f \in [inUse -> Tracked(breaks)]
    BY <1>1
  <2>2. \A s, t \in inUse : f[s] = f[t] => s = t
    BY <1>1 DEF SwInv, OneSlotPerAddress
  <2>3. ASSUME NEW a \in Tracked(breaks) PROVE \E s \in inUse : f[s] = a
    <3>1. /\ Lowest(SlotsAt(breaks, a)) \in inUse
          /\ breaks[Lowest(SlotsAt(breaks, a))].instr_addr = a
      BY TrackedSlot DEF EmptySlots
    <3> QED
      BY <3>1
  <2> QED
    BY <2>1, <2>2, <2>3 DEF Bijection, Injection, Surjection, IsInjective
<1> HIDE DEF f
<1>3. ExistsBijection(inUse, Tracked(breaks))
  BY <1>2 DEF ExistsBijection
<1>4. IsFiniteSet(SwSlots) /\ Cardinality(SwSlots) = NumSwBreakpoints
  BY SwAssumption, FS_Interval DEF SwSlots
<1>5. inUse \subseteq SwSlots
  OBVIOUS
<1>6. EmptySlots(breaks) # {} <=> inUse # SwSlots
  BY DEF EmptySlots
<1> HIDE DEF inUse
<1>7. /\ IsFiniteSet(inUse)
      /\ Cardinality(inUse) <= NumSwBreakpoints
      /\ Cardinality(inUse) = NumSwBreakpoints => inUse = SwSlots
  BY <1>4, <1>5, FS_Subset, Zenon
<1>8. Cardinality(inUse) \in Nat /\ Cardinality(Tracked(breaks)) = Cardinality(inUse)
  BY <1>3, <1>7, FS_Bijection, FS_CardinalityType
<1>9. inUse = SwSlots => Cardinality(inUse) = NumSwBreakpoints
  BY <1>4
<1> QED
  BY <1>6, <1>7, <1>8, <1>9, SwAssumption

(***************************************************************************)
(* SwBreakpointSet means by Cardinality what this module does.             *)
(***************************************************************************)
LEMMA SameCardinality == \A S : Set!Cardinality(S) = Cardinality(S)
  BY Zenon DEF Set!Cardinality, Cardinality

(***************************************************************************)
(* Calls that leave every address its owners leave the map alone.          *)
(***************************************************************************)
LEMMA SameSlotsSameMap ==
  ASSUME SwInv, \A s \in SwSlots : /\ breaks'[s].instr_addr = breaks[s].instr_addr
                                   /\ breaks'[s].user = breaks[s].user
                                   /\ breaks'[s].internal = breaks[s].internal
  PROVE  wanted' = wanted
<1>1. \A a \in CodeAddrs : SlotsAt(breaks', a) = SlotsAt(breaks, a)
  BY DEF SlotsAt
<1>2. \A a \in CodeAddrs : WantedBy(breaks', a) = WantedBy(breaks, a)
  BY <1>1 DEF WantedBy, Flagged, SlotsAt
<1> QED
  BY <1>2 DEF wanted

LEMMA IgnoreRefines ==
  ASSUME SwInv, NEW ignored \in BOOLEAN, set_breakpoints_ignored(ignored)
  PROVE  Set!Next
<1>1. ASSUME NEW s \in SwSlots
      PROVE  /\ breaks'[s].instr_addr = breaks[s].instr_addr
             /\ breaks'[s].user = breaks[s].user
             /\ breaks'[s].internal = breaks[s].internal
  <2>1. breaks'[s] = IF breaks[s] = NO_BREAK THEN NO_BREAK
                     ELSE WithEnabled(breaks[s], ~ignored)
    BY DEF set_breakpoints_ignored, IgnoredBreaks
  <2>2. breaks[s] # NO_BREAK => breaks[s] \in SwBreakpoint
    BY SlotTracks DEF SwInv, TypeOK, Tables
  <2> QED
    BY <2>1, <2>2 DEF WithEnabled, SwBreakpoint
<1>2. wanted' = wanted
  BY <1>1, SameSlotsSameMap
<1>3. Set!Ignore(ignored)
  BY <1>2 DEF set_breakpoints_ignored, Set!Ignore
<1> QED
  BY <1>3 DEF Set!Next

(***************************************************************************)
(* register_sw_breakpoint answers as the map would, and places what it     *)
(* would place.                                                            *)
(***************************************************************************)
LEMMA RefusedRefines ==
  ASSUME SwInv, NEW addr \in CodeAddrs, NEW internal \in BOOLEAN,
         register_sw_breakpoint(addr, internal),
         RegisterResult(breaks, addr, internal) # "Ok"
  PROVE  Set!Register(addr, WhoOf(internal))
<1>1. breaks' = breaks /\ paused' = paused
  BY DEF register_sw_breakpoint, RegisterBreaks
<1>2. wanted' = wanted
  BY <1>1 DEF wanted
<1>3. result' = RegisterResult(breaks, addr, internal)
  BY DEF register_sw_breakpoint
<1>4. CASE addr \in ReadOnly
  <2>1. result' = "CannotWrite"
    BY <1>3, <1>4 DEF RegisterResult
  <2> QED
    BY <1>1, <1>2, <1>4, <2>1 DEF Set!Register, Set!Refuse
<1>5. CASE addr \notin ReadOnly /\ SlotsAt(breaks, addr) # {}
  <2> DEFINE t == Lowest(SlotsAt(breaks, addr))
  <2>1. addr \in Tracked(breaks)
    BY <1>5 DEF Tracked
  <2>2. SlotsAt(breaks, addr) = {t}
    BY <2>1, TrackedSlot
  <2>3. Flagged(breaks[t], internal) /\ result' = "AlreadyExists"
    BY <1>3, <1>5, Zenon DEF RegisterResult
  <2> HIDE DEF t
  <2>4. wanted[addr] = FlagsOf(breaks[t])
    <3>1. WantedBy(breaks, addr) = FlagsOf(breaks[t])
      BY <2>2, WantedInSlot
    <3> QED
      BY <3>1 DEF wanted
  <2>5. WhoOf(internal) \in wanted[addr]
    BY <2>3, <2>4 DEF WhoOf, FlagsOf, Set!Who
  <2>6. Set!Repeat(addr, WhoOf(internal))
    BY <1>2, <1>5, <2>3, <2>5 DEF Set!Repeat
  <2> QED
    BY <1>1, <2>6 DEF Set!Register
<1>6. CASE addr \notin ReadOnly /\ SlotsAt(breaks, addr) = {}
  <2>1. EmptySlots(breaks) = {} /\ result' = "NoSpace"
    BY <1>3, <1>6, Zenon DEF RegisterResult
  <2>2. addr \notin Set!Placed
    BY <1>6, PlacedIsTracked DEF Tracked
  <2>3. Cardinality(Set!Placed) = NumSwBreakpoints
    BY <2>1, SlotsLeft, PlacedIsTracked
  <2>4. Set!Overflow(addr)
    BY <1>2, <1>6, <2>1, <2>2, <2>3, SameCardinality, SwAssumption DEF Set!Overflow
  <2> QED
    BY <1>1, <2>4 DEF Set!Register
<1> QED
  BY <1>4, <1>5, <1>6

LEMMA AnotherFlagRefines ==
  ASSUME SwInv, NEW addr \in CodeAddrs, NEW internal \in BOOLEAN,
         register_sw_breakpoint(addr, internal),
         RegisterResult(breaks, addr, internal) = "Ok",
         addr \in Tracked(breaks)
  PROVE  Set!Register(addr, WhoOf(internal))
<1> DEFINE t == Lowest(SlotsAt(breaks, addr))
           flagged == WithFlag(breaks[t], internal, TRUE)
<1>1. t \in SwSlots /\ breaks[t] \in SwBreakpoint /\ breaks[t].instr_addr = addr
  BY TrackedSlot
<1>2. SlotsAt(breaks, addr) = {t}
  BY TrackedSlot
<1>3. breaks' = [breaks EXCEPT ![t] = flagged] /\ result' = "Ok" /\ paused' = paused
  BY DEF register_sw_breakpoint, RegisterBreaks, Tracked
<1>4. addr \notin ReadOnly /\ ~Flagged(breaks[t], internal)
  BY <1>2, Zenon DEF RegisterResult
<1> HIDE DEF t
<1>5. /\ flagged.instr_addr = addr
      /\ \A who \in Set!Who : Flagged(flagged, who = "internal")
                                <=> who = WhoOf(internal) \/ Flagged(breaks[t], who = "internal")
  BY <1>1 DEF WithFlag, SwBreakpoint, Flagged, WhoOf, Set!Who
<1> HIDE DEF flagged
<1>6. \A s \in SwSlots : breaks'[s] = IF s = t THEN flagged ELSE breaks[s]
  BY <1>1, <1>3 DEF SwInv, TypeOK
<1>7. \A a \in CodeAddrs : SlotsAt(breaks', a) = SlotsAt(breaks, a)
  BY <1>1, <1>5, <1>6 DEF SlotsAt
<1>8. \A a \in CodeAddrs : a # addr => WantedBy(breaks', a) = WantedBy(breaks, a)
  <2>1. \A a \in CodeAddrs : a # addr => t \notin SlotsAt(breaks, a)
    BY <1>1 DEF SlotsAt
  <2>2. \A a \in CodeAddrs : a # addr => \A s \in SlotsAt(breaks, a) : breaks'[s] = breaks[s]
    BY <1>6, <2>1 DEF SlotsAt
  <2> QED
    BY <1>7, <2>2 DEF WantedBy
<1>9. /\ wanted[addr] = FlagsOf(breaks[t])
      /\ WantedBy(breaks', addr) = FlagsOf(flagged)
  <2>1. SlotsAt(breaks', addr) = {t} /\ breaks'[t] = flagged
    BY <1>1, <1>2, <1>6, <1>7
  <2>2. WantedBy(breaks, addr) = FlagsOf(breaks[t])
    BY <1>2, WantedInSlot
  <2>3. WantedBy(breaks', addr) = FlagsOf(flagged)
    BY <2>1, WantedInSlot
  <2> QED
    BY <2>2, <2>3 DEF wanted
<1>10. WhoOf(internal) \in Set!Who /\ WhoOf(internal) \notin wanted[addr]
  BY <1>4, <1>9 DEF WhoOf, FlagsOf, Set!Who
<1>11. WantedBy(breaks', addr) = wanted[addr] \union {WhoOf(internal)}
  BY <1>5, <1>9, <1>10 DEF FlagsOf
<1>12. wanted' = [wanted EXCEPT ![addr] = @ \union {WhoOf(internal)}]
  BY <1>8, <1>11 DEF wanted
<1>13. addr \in Set!Placed
  BY PlacedIsTracked
<1>14. Set!Place(addr, WhoOf(internal))
  BY <1>3, <1>4, <1>10, <1>12, <1>13 DEF Set!Place
<1> QED
  BY <1>3, <1>14 DEF Set!Register

LEMMA NewSlotRefines ==
  ASSUME SwInv, NEW addr \in CodeAddrs, NEW internal \in BOOLEAN,
         register_sw_breakpoint(addr, internal),
         RegisterResult(breaks, addr, internal) = "Ok",
         addr \notin Tracked(breaks)
  PROVE  Set!Register(addr, WhoOf(internal))
<1> DEFINE t == Lowest(EmptySlots(breaks))
           new == NewBreak(mem, addr, internal, ~paused)
<1>1. SlotsAt(breaks, addr) = {}
  BY DEF Tracked
<1>2. addr \notin ReadOnly /\ EmptySlots(breaks) # {}
  BY <1>1, Zenon DEF RegisterResult
<1>3. t \in EmptySlots(breaks)
  BY <1>2, LowestMember DEF EmptySlots
<1>4. t \in SwSlots /\ breaks[t] = NO_BREAK
  BY <1>3 DEF EmptySlots
<1>5. breaks' = [breaks EXCEPT ![t] = new] /\ result' = "Ok" /\ paused' = paused
  BY <1>1 DEF register_sw_breakpoint, RegisterBreaks
<1>6. /\ new.instr_addr = addr
      /\ \A who \in Set!Who : Flagged(new, who = "internal") <=> who = WhoOf(internal)
  BY DEF NewBreak, Flagged, WhoOf, Set!Who
<1> HIDE DEF t, new
<1>7. \A s \in SwSlots : breaks'[s] = IF s = t THEN new ELSE breaks[s]
  BY <1>4, <1>5 DEF SwInv, TypeOK
<1>8. NO_BREAK.instr_addr \notin CodeAddrs
  BY SwAssumption DEF NO_BREAK
<1>9. \A a \in CodeAddrs : SlotsAt(breaks', a) = IF a = addr THEN {t} ELSE SlotsAt(breaks, a)
  <2>1. SlotsAt(breaks', addr) = {t}
    BY <1>1, <1>4, <1>6, <1>7 DEF SlotsAt
  <2>2. \A a \in CodeAddrs : a # addr => SlotsAt(breaks', a) = SlotsAt(breaks, a)
    BY <1>4, <1>6, <1>7, <1>8 DEF SlotsAt
  <2> QED
    BY <2>1, <2>2
<1>10. \A a \in CodeAddrs : a # addr => WantedBy(breaks', a) = WantedBy(breaks, a)
  <2>1. \A a \in CodeAddrs : a # addr => \A s \in SlotsAt(breaks, a) : breaks'[s] = breaks[s]
    BY <1>4, <1>7, <1>8 DEF SlotsAt
  <2> QED
    BY <1>9, <2>1 DEF WantedBy
<1>11. wanted[addr] = {}
  BY <1>1, WantedByNobody DEF wanted
<1>12. WantedBy(breaks', addr) = {WhoOf(internal)}
  <2>1. SlotsAt(breaks', addr) = {t} /\ breaks'[t] = new
    BY <1>4, <1>7, <1>9
  <2>2. WantedBy(breaks', addr) = FlagsOf(new)
    BY <2>1, WantedInSlot
  <2> QED
    BY <1>6, <2>2 DEF WhoOf, FlagsOf, Set!Who
<1>13. wanted' = [wanted EXCEPT ![addr] = @ \union {WhoOf(internal)}]
  BY <1>10, <1>11, <1>12 DEF wanted
<1>14. Set!Cardinality(Set!Placed) < NumSwBreakpoints
  BY <1>2, SlotsLeft, PlacedIsTracked, SameCardinality
<1>15. Set!Place(addr, WhoOf(internal))
  BY <1>2, <1>5, <1>11, <1>13, <1>14 DEF Set!Place
<1> QED
  BY <1>5, <1>15 DEF Set!Register

(***************************************************************************)
(* remove_sw_breakpoint takes its caller off the map and says whether the  *)
(* program stops there no longer.                                          *)
(***************************************************************************)
LEMMA RemoveRefines ==
  ASSUME SwInv, NEW addr \in CodeAddrs, NEW internal \in BOOLEAN,
         remove_sw_breakpoint(addr, internal)
  PROVE  Set!Remove(addr, WhoOf(internal))
<1>0. TableOK(breaks, paused, mem, text)
  BY InvariantOnTable
<1>1. /\ breaks' = RemoveBreaks(breaks, addr, internal) /\ paused' = paused
      /\ result' = IF Dropped(breaks, addr, internal) # {} THEN "Changed" ELSE "Unchanged"
  BY DEF remove_sw_breakpoint, RemoveResult
<1>2. NO_BREAK.instr_addr \notin CodeAddrs
  BY SwAssumption DEF NO_BREAK
<1>3. CASE addr \notin Tracked(breaks)
  <2>1. SlotsAt(breaks, addr) = {}
    BY <1>3 DEF Tracked
  <2>2. Dropped(breaks, addr, internal) = {}
    BY <1>0, <2>1, DroppedSlot
  <2>3. \A s \in SwSlots : breaks'[s] = breaks[s]
    BY <1>1, <2>1, <2>2 DEF RemoveBreaks, AfterClear, SlotsAt
  <2>4. wanted' = wanted
    BY <2>3, SameSlotsSameMap
  <2>5. WantedBy(breaks, addr) = {}
    BY <2>1, WantedByNobody
  <2>6. wanted[addr] = {} /\ wanted = [wanted EXCEPT ![addr] = @ \ {WhoOf(internal)}]
    BY <2>5 DEF wanted
  <2> QED
    BY <1>1, <2>2, <2>4, <2>6 DEF Set!Remove
<1>4. CASE addr \in Tracked(breaks)
  <2> DEFINE t == Lowest(SlotsAt(breaks, addr))
             cleared == WithFlag(breaks[t], internal, FALSE)
  <2>1. /\ t \in SwSlots /\ breaks[t] \in SwBreakpoint
        /\ breaks[t] # NO_BREAK /\ breaks[t].instr_addr = addr
    BY <1>4, TrackedSlot
  <2>2. SlotsAt(breaks, addr) = {t}
    BY <1>4, TrackedSlot
  <2> HIDE DEF t
  <2>3. AfterClear(breaks, t, addr, internal) = cleared
    BY <2>1 DEF AfterClear
  <2>4. /\ cleared.instr_addr = addr
        /\ \A who \in Set!Who : Flagged(cleared, who = "internal")
                                  <=> who # WhoOf(internal) /\ Flagged(breaks[t], who = "internal")
    BY <2>1 DEF WithFlag, SwBreakpoint, Flagged, WhoOf, Set!Who
  <2>5. t \in Dropped(breaks, addr, internal)
          <=> \A who \in Set!Who : ~Flagged(cleared, who = "internal")
    <3>1. cleared # NO_BREAK
      BY <1>2, <2>4
    <3>2. t \in Dropped(breaks, addr, internal) <=> ~cleared.user /\ ~cleared.internal
      BY <2>1, <2>3, <3>1 DEF Dropped, Unwanted
    <3> QED
      BY <3>2 DEF Flagged, Set!Who
  <2> HIDE DEF cleared
  <2>6. \A s \in Dropped(breaks, addr, internal) : s = t
    BY <1>0, <2>2, DroppedSlot
  <2>7. ASSUME NEW s \in SwSlots
        PROVE  breaks'[s] = IF s # t THEN breaks[s]
                            ELSE IF t \in Dropped(breaks, addr, internal) THEN NO_BREAK
                            ELSE cleared
    <3>1. s # t => breaks[s].instr_addr # addr
      BY <2>2 DEF SlotsAt
    <3> QED
      BY <1>1, <2>3, <2>6, <3>1 DEF RemoveBreaks, AfterClear
  <2>8. \A a \in CodeAddrs : a # addr => WantedBy(breaks', a) = WantedBy(breaks, a)
    <3>1. \A a \in CodeAddrs : a # addr => SlotsAt(breaks', a) = SlotsAt(breaks, a)
      BY <1>2, <2>1, <2>4, <2>7 DEF SlotsAt
    <3>2. \A a \in CodeAddrs : a # addr => \A s \in SlotsAt(breaks, a) : breaks'[s] = breaks[s]
      BY <2>1, <2>7 DEF SlotsAt
    <3> QED
      BY <3>1, <3>2 DEF WantedBy
  <2>9. WantedBy(breaks, addr) = FlagsOf(breaks[t])
    BY <2>2, WantedInSlot
  <2>10. WantedBy(breaks', addr) = FlagsOf(cleared)
    <3>1. CASE t \in Dropped(breaks, addr, internal)
      <4>1. SlotsAt(breaks', addr) = {}
        BY <1>2, <2>2, <2>7, <3>1 DEF SlotsAt
      <4>2. WantedBy(breaks', addr) = {}
        BY <4>1, WantedByNobody
      <4> QED
        BY <2>5, <3>1, <4>2 DEF FlagsOf
    <3>2. CASE t \notin Dropped(breaks, addr, internal)
      <4>1. SlotsAt(breaks', addr) = {t} /\ breaks'[t] = cleared
        BY <2>1, <2>2, <2>4, <2>7, <3>2 DEF SlotsAt
      <4> QED
        BY <4>1, WantedInSlot
    <3> QED
      BY <3>1, <3>2
  <2>11. WantedBy(breaks', addr) = WantedBy(breaks, addr) \ {WhoOf(internal)}
    BY <2>4, <2>9, <2>10 DEF FlagsOf
  <2>12. wanted' = [wanted EXCEPT ![addr] = @ \ {WhoOf(internal)}]
    BY <2>8, <2>11 DEF wanted
  <2>13. Dropped(breaks, addr, internal) # {} <=> WantedBy(breaks', addr) = {}
    BY <2>5, <2>6, <2>10 DEF FlagsOf
  <2>14. wanted[addr] # {} /\ wanted[addr] = WantedBy(breaks, addr)
    BY <1>4, PlacedIsTracked DEF Set!Placed, wanted
  <2>15. Dropped(breaks, addr, internal) # {} <=> wanted[addr] = {WhoOf(internal)}
    BY <2>11, <2>13, <2>14
  <2> QED
    BY <1>1, <2>12, <2>15 DEF Set!Remove
<1> QED
  BY <1>3, <1>4

(***************************************************************************)
(* Every step of the table is a step of the map, or none.                  *)
(***************************************************************************)
LEMMA InitRefines == Init => Set!Init
<1> SUFFICES ASSUME Init PROVE Set!Init
  OBVIOUS
<1>1. \A a \in CodeAddrs : SlotsAt(breaks, a) = {}
  BY SwAssumption DEF Init, SlotsAt, NO_BREAK
<1>2. \A a \in CodeAddrs : WantedBy(breaks, a) = {}
  BY <1>1, WantedByNobody
<1> QED
  BY <1>2 DEF Init, Set!Init, wanted

LEMMA NextRefines == SwInv /\ [Next]_swvars => [Set!Next]_(Set!absvars)
<1> SUFFICES ASSUME SwInv, [Next]_swvars PROVE [Set!Next]_(Set!absvars)
  OBVIOUS
<1>1. ASSUME NEW ignored \in BOOLEAN, set_breakpoints_ignored(ignored) PROVE Set!Next
  BY <1>1, IgnoreRefines
<1>2. \A internal \in BOOLEAN : WhoOf(internal) \in Set!Who
  BY DEF WhoOf, Set!Who
<1>3. ASSUME NEW addr \in CodeAddrs, NEW internal \in BOOLEAN,
             register_sw_breakpoint(addr, internal)
      PROVE  Set!Next
  <2>1. Set!Register(addr, WhoOf(internal))
    BY <1>3, RefusedRefines, AnotherFlagRefines, NewSlotRefines
  <2> QED
    BY <1>2, <2>1 DEF Set!Next
<1>4. ASSUME NEW addr \in CodeAddrs, NEW internal \in BOOLEAN,
             remove_sw_breakpoint(addr, internal)
      PROVE  Set!Next
  <2>1. Set!Remove(addr, WhoOf(internal))
    BY <1>4, RemoveRefines
  <2> QED
    BY <1>2, <2>1 DEF Set!Next
<1>5. ASSUME NEW addr \in CodeAddrs, NEW instr \in Instruction, write_addrs(addr, instr)
      PROVE  UNCHANGED Set!absvars
  BY <1>5 DEF write_addrs, wanted, Set!absvars
<1>6. ASSUME NEW addr \in CodeAddrs, Evict(addr) PROVE UNCHANGED Set!absvars
  BY <1>6 DEF Evict, wanted, Set!absvars
<1>7. CASE UNCHANGED swvars
  BY <1>7 DEF swvars, wanted, Set!absvars
<1> QED
  BY <1>1, <1>3, <1>4, <1>5, <1>6, <1>7 DEF Next

(***************************************************************************)
(* The table implements a bounded map from addresses to those who want a   *)
(* stop there, whichever slot each of them is in.                          *)
(***************************************************************************)
THEOREM RefinesMap == Spec => ImplementsSet
<1>1. Spec => Set!Spec
  BY InitRefines, NextRefines, SwInvHolds, PTL DEF Spec, Set!Spec
<1> QED
  BY <1>1 DEF ImplementsSet
=============================================================================
