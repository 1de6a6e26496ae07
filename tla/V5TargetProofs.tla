--------------------------- MODULE V5TargetProofs ---------------------------
(***************************************************************************)
(* What holds of V5Target for any program, any number of tasks and of      *)
(* breakpoint registers, and whatever GDB asks for: TargetInv is           *)
(* inductive.  One lemma per group of actions, in the order of V5Target.   *)
(* At the end, what holds of the session that drives it.                   *)
(***************************************************************************)
EXTENDS DebugSession, BreakpointLemmas, SequenceTheorems

(***************************************************************************)
(* What TargetInv says of the breakpoint registers, and what a change to   *)
(* them has to establish.                                                  *)
(***************************************************************************)
PairsOK(r, u) ==
  /\ r \in [Slots -> BreakpointPair]
  /\ OccupancyAgrees(r, u)
  /\ AllDistinct(r)
  /\ Cardinality(SlotsOf(r, "Match")) < NumBreakpoints

(***************************************************************************)
(* TargetInv says this of the pairs, and which Mismatch comparisons they   *)
(* make.                                                                   *)
(***************************************************************************)
LEMMA PairsOfInvariant ==
  ASSUME TargetInv
  PROVE  PairsOK(regs, used) /\ Holding(regs, "Mismatch") = Pending
  BY DEF TargetInv, TypeOK, HwTypeOK, PairsOK, OnePairReserved, MismatchPairsArePending

(***************************************************************************)
(* The number of Match pairs does not grow where none is added.            *)
(***************************************************************************)
LEMMA FewerMatches ==
  ASSUME NEW r, NEW newR, SlotsOf(newR, "Match") \subseteq SlotsOf(r, "Match"),
         Cardinality(SlotsOf(r, "Match")) < NumBreakpoints
  PROVE  Cardinality(SlotsOf(newR, "Match")) < NumBreakpoints
<1>1. IsFiniteSet(Slots)
  BY NumBreakpointsAssumption, FS_Interval DEF Slots
<1>2. IsFiniteSet(SlotsOf(r, "Match"))
  BY <1>1, FS_Subset DEF SlotsOf
<1>3. /\ IsFiniteSet(SlotsOf(newR, "Match"))
      /\ Cardinality(SlotsOf(newR, "Match")) <= Cardinality(SlotsOf(r, "Match"))
  BY <1>2, FS_Subset, Zenon
<1>4. /\ Cardinality(SlotsOf(newR, "Match")) \in Nat
      /\ Cardinality(SlotsOf(r, "Match")) \in Nat
  BY <1>2, <1>3, FS_CardinalityType
<1> QED
  BY <1>3, <1>4, NumBreakpointsAssumption

(***************************************************************************)
(* Removing a pair, and arming a Mismatch one, keep the pairs in order.    *)
(***************************************************************************)
LEMMA RemovePair ==
  ASSUME NEW r, NEW u, PairsOK(r, u), NEW addr, NEW spec \in Specificity, NEW kind
  PROVE  PairsOK(RemoveRegs(r, addr, spec, kind), RemoveUsed(r, u, addr, spec, kind))
<1>1. SlotsOf(RemoveRegs(r, addr, spec, kind), "Match") \subseteq SlotsOf(r, "Match")
  BY RemoveHolds DEF PairsOK, Specificity
<1> QED
  BY <1>1, RemoveKeeps, DisabledIsPair, FewerMatches DEF PairsOK

(***************************************************************************)
(* Arming a Mismatch pair keeps the pairs in order and adds that one       *)
(* comparison.                                                             *)
(***************************************************************************)
LEMMA ArmPair ==
  ASSUME NEW r, NEW u, PairsOK(r, u), NEW addr \in Int, NEW kind,
         AddResult(r, u, addr, "Mismatch", kind) = "Ok"
  PROVE  /\ PairsOK(AddRegs(r, u, addr, "Mismatch", kind), AddUsed(r, u, addr, "Mismatch", kind))
         /\ Holding(AddRegs(r, u, addr, "Mismatch", kind), "Mismatch")
              = Holding(r, "Mismatch") \union {Comparison(addr, "Mismatch", kind)}
<1> DEFINE newR == AddRegs(r, u, addr, "Mismatch", kind)
           newU == AddUsed(r, u, addr, "Mismatch", kind)
<1>1. "Mismatch" \in Specificity /\ "Match" \in Specificity \ {"Mismatch"}
  BY DEF Specificity
<1>2. Comparison(addr, "Mismatch", kind) \in BreakpointPair
  BY <1>1, ComparisonIsPair
<1>3. newR \in [Slots -> BreakpointPair] /\ OccupancyAgrees(newR, newU) /\ AllDistinct(newR)
  BY <1>1, <1>2, AddKeeps DEF PairsOK
<1>4. r \in [Slots -> BreakpointPair]
  BY DEF PairsOK
<1>5. Holding(newR, "Mismatch") = Holding(r, "Mismatch") \union {Comparison(addr, "Mismatch", kind)}
  BY <1>1, <1>4, AddHolds
<1>6. SlotsOf(newR, "Match") = SlotsOf(r, "Match")
  BY <1>1, <1>4, AddHolds
<1> QED
  BY <1>3, <1>5, <1>6 DEF PairsOK

-----------------------------------------------------------------------------
(***************************************************************************)
(* The registers of a task at an instruction of the program's.             *)
(***************************************************************************)
LEMMA CodeContextTyped == \A a \in CodeAddrs : CodeContext(a) \in Context
<1>1. ASSUME NEW a \in CodeAddrs PROVE CodeContext(a) \in Context
  <2>1. a \in Nat
    BY SwAssumption
  <2>2. (a \in ThumbAddrs) \in BOOLEAN
    OBVIOUS
  <2> QED
    BY <2>1, <2>2, Zenon DEF CodeContext, Context
<1> QED
  BY <1>1

(***************************************************************************)
(* The program has just been started.                                      *)
(***************************************************************************)
LEMMA InitEstablishes == Init => TargetInv
<1> SUFFICES ASSUME Init PROVE TargetInv
  OBVIOUS
<1>1. /\ regs = [idx \in Slots |-> DISABLED]
      /\ used = {}
      /\ DISABLED \in BreakpointPair
      /\ ~Enabled(DISABLED)
      /\ DISABLED.type \notin Specificity
  BY DisabledIsPair, DisabledIsNotEnabled
  DEF Init, DISABLED, BreakpointControl, Specificity
<1>2. OccupancyAgrees(regs, used) /\ AllDistinct(regs)
  BY <1>1 DEF OccupancyAgrees, AllDistinct
<1>3. SlotsOf(regs, "Match") = {} /\ SlotsOf(regs, "Mismatch") = {}
  BY <1>1 DEF SlotsOf, Specificity
<1>4. OnePairReserved
  BY <1>3, FS_EmptySet, NumBreakpointsAssumption DEF OnePairReserved
<1>5. MismatchPairsArePending
  BY <1>3 DEF Init, MismatchPairsArePending, Holding, Pending, StepPending
<1>6. NoBreaks \in Tables /\ ProgramText \in Code /\ ExitAddr \in CodeAddrs
  BY TargetAssumption DEF NoBreaks, Tables, Code
<1>7. breaks \in Tables /\ mem \in Code
  BY <1>6, RegisterTyped DEF Init
<1>8. SwTypeOK
  BY <1>7 DEF Init, SwTypeOK, Tables, Code
<1>9. HwTypeOK
  BY <1>1 DEF Init, HwTypeOK
<1>10. CpuTypeOK
  <2>1. state \in [Tasks -> Context]
    BY CodeContextTyped DEF Init
  <2>2. spsr \in [task : Tasks, thumb : BOOLEAN, irqs : BOOLEAN]
    BY DEF Init, Status
  <2>3. at \in [Tasks -> Places] /\ irqs \in [Tasks -> BOOLEAN] /\ stack \in Seq(Frame)
    BY DEF Init, Places
  <2> QED
    BY <2>1, <2>2, <2>3 DEF Init, CpuTypeOK, None
<1>11. TargetTypeOK
  BY DEF Init, TargetTypeOK, StepTypeOK, Context
<1>12. NoSlotPanic
  BY DEF Init, NoSlotPanic, None
<1>13. LockedOutsideMonitor /\ MonitorConsistent
  BY DEF Init, LockedOutsideMonitor, MonitorConsistent, InMonitor, StepPending
<1>14. SchedulerBalanced /\ StackConsistent
  <2>1. UnresumedFrames = {} /\ ~Resuming /\ ~HoldsScheduler /\ suspended = 0
    BY DEF Init, UnresumedFrames, Resuming, HoldsScheduler, StepPending
  <2>2. SchedulerBalanced
    BY <2>1, FS_EmptySet DEF SchedulerBalanced
  <2>3. StackConsistent
    BY DEF Init, StackConsistent
  <2> QED
    BY <2>2, <2>3
<1> QED
  BY <1>2, <1>4, <1>5, <1>8, <1>9, <1>10, <1>11, <1>12, <1>13, <1>14 DEF TargetInv, TypeOK

(***************************************************************************)
(* The processor's own steps leave the target and its breakpoints alone.   *)
(***************************************************************************)
Untouched == UNCHANGED <<hw, sw, target, mem>>

(***************************************************************************)
(* What TargetInv says of the target and its breakpoints alone is kept     *)
(* where they are.                                                         *)
(***************************************************************************)
LEMMA UntouchedKeeps ==
  ASSUME TargetInv, Untouched
  PROVE  /\ HwTypeOK' /\ SwTypeOK' /\ TargetTypeOK'
         /\ OccupancyAgrees(regs, used)' /\ AllDistinct(regs)'
         /\ MismatchPairsArePending' /\ OnePairReserved'
         /\ StepPending' = StepPending
<1> USE DEF Untouched, hw, sw, target
<1>1. HwTypeOK' /\ SwTypeOK' /\ TargetTypeOK'
  BY DEF TargetInv, TypeOK, HwTypeOK, SwTypeOK, TargetTypeOK, StepTypeOK
<1>2. OccupancyAgrees(regs, used)' /\ AllDistinct(regs)' /\ OnePairReserved'
  BY DEF TargetInv, OnePairReserved
<1>3. MismatchPairsArePending'
  BY DEF TargetInv, MismatchPairsArePending, Pending, StepComparison, StepPending
<1>4. StepPending' = StepPending
  BY DEF StepPending
<1> QED
  BY <1>1, <1>2, <1>3, <1>4

-----------------------------------------------------------------------------
(***************************************************************************)
(* The abort stack, and how many contexts on it are of tasks that stopped  *)
(* before they had resumed the scheduler.                                  *)
(***************************************************************************)
Unresumed(s) == {i \in 1 .. Len(s) : s[i].at = "resuming"}

LEMMA UnresumedCount ==
  ASSUME NEW s \in Seq(Frame)
  PROVE  IsFiniteSet(Unresumed(s)) /\ Cardinality(Unresumed(s)) \in Nat
<1>1. IsFiniteSet(1 .. Len(s))
  BY FS_Interval
<1>2. IsFiniteSet(Unresumed(s))
  BY <1>1, FS_Subset DEF Unresumed
<1> QED
  BY <1>2, FS_CardinalityType

\* A context is pushed.
LEMMA UnresumedPush ==
  ASSUME NEW s \in Seq(Frame), NEW f \in Frame
  PROVE  Cardinality(Unresumed(Append(s, f)))
           = Cardinality(Unresumed(s)) + (IF f.at = "resuming" THEN 1 ELSE 0)
<1>1. IsFiniteSet(Unresumed(s)) /\ Cardinality(Unresumed(s)) \in Nat
  BY UnresumedCount
<1>2. CASE f.at = "resuming"
  <2>1. Unresumed(Append(s, f)) = Unresumed(s) \union {Len(s) + 1}
    BY <1>2 DEF Unresumed
  <2>2. Len(s) + 1 \notin Unresumed(s)
    BY DEF Unresumed
  <2> QED
    BY <1>1, <1>2, <2>1, <2>2, FS_AddElement
<1>3. CASE f.at # "resuming"
  <2>1. Unresumed(Append(s, f)) = Unresumed(s)
    BY <1>3 DEF Unresumed
  <2> QED
    BY <1>1, <1>3, <2>1
<1> QED
  BY <1>2, <1>3

\* The context on top is popped.
LEMMA UnresumedPop ==
  ASSUME NEW s \in Seq(Frame), s # <<>>
  PROVE  /\ Top(s) \in Frame /\ Pop(s) \in Seq(Frame)
         /\ Cardinality(Unresumed(s))
              = Cardinality(Unresumed(Pop(s))) + (IF Top(s).at = "resuming" THEN 1 ELSE 0)
<1> DEFINE n == Len(s)
           below == Pop(s)
<1>1. n \in Nat /\ n > 0 /\ Top(s) = s[n] /\ \A i \in 1 .. n : s[i] \in Frame
  BY DEF Top
<1>2. below \in Seq(Frame) /\ Len(below) = n - 1 /\ \A i \in 1 .. n - 1 : below[i] = s[i]
  <2> DEFINE m == n - 1
  <2>1. m \in Int /\ m >= 0 /\ \A i \in 1 .. m : s[i] \in Frame
    BY <1>1
  <2> HIDE DEF m
  <2>2. /\ SubSeq(s, 1, m) \in Seq(Frame)
        /\ Len(SubSeq(s, 1, m)) = IF 1 <= m THEN m - 1 + 1 ELSE 0
        /\ \A i \in 1 .. m - 1 + 1 : SubSeq(s, 1, m)[i] = s[1 + i - 1]
    BY <2>1, SubSeqProperties, 1 \in Int
  <2>3. Len(SubSeq(s, 1, m)) = m /\ \A i \in 1 .. m : SubSeq(s, 1, m)[i] = s[i]
    BY <2>1, <2>2
  <2> QED
    BY <2>2, <2>3 DEF Pop, m
<1>3. Top(s) \in Frame
  BY <1>1
<1> HIDE DEF n, below
<1>4. Unresumed(s) = {i \in 1 .. n : s[i].at = "resuming"}
  BY DEF Unresumed, n
<1>5. Unresumed(below) = {i \in 1 .. n - 1 : s[i].at = "resuming"}
  BY <1>2 DEF Unresumed
<1>6. IsFiniteSet(Unresumed(below)) /\ Cardinality(Unresumed(below)) \in Nat
  BY <1>2, UnresumedCount
<1>7. Cardinality(Unresumed(s))
        = Cardinality(Unresumed(below)) + (IF s[n].at = "resuming" THEN 1 ELSE 0)
  <2>1. CASE s[n].at = "resuming"
    <3>1. Unresumed(s) = Unresumed(below) \union {n} /\ n \notin Unresumed(below)
      BY <1>1, <1>4, <1>5, <2>1
    <3> QED
      BY <1>6, <2>1, <3>1, FS_AddElement
  <2>2. CASE s[n].at # "resuming"
    <3>1. Unresumed(s) = Unresumed(below)
      BY <1>1, <1>4, <1>5, <2>2
    <3> QED
      BY <1>6, <2>2, <3>1
  <2> QED
    BY <2>1, <2>2
<1> QED
  BY <1>1, <1>2, <1>3, <1>7 DEF below

\* The registers of the context on top are written.
LEMMA UnresumedWrite ==
  ASSUME NEW s \in Seq(Frame), s # <<>>, NEW c \in Context,
         NEW new, new = [s EXCEPT ![Len(s)].ctx = c]
  PROVE  /\ new \in Seq(Frame) /\ new # <<>>
         /\ Unresumed(new) = Unresumed(s)
         /\ Top(new).ctx = c /\ Top(new).irqs = Top(s).irqs
<1>1. /\ Len(s) \in Nat /\ Len(s) > 0 /\ \A i \in 1 .. Len(s) : s[i] \in Frame
      /\ DOMAIN s = 1 .. Len(s)
  OBVIOUS
<1> DEFINE e == [s[Len(s)] EXCEPT !.ctx = c]
<1>2. e \in Frame /\ e.at = s[Len(s)].at /\ e.ctx = c /\ e.irqs = s[Len(s)].irqs
  BY <1>1 DEF Frame
<1> HIDE DEF e
<1>3. new = [s EXCEPT ![Len(s)] = e]
  BY DEF e
<1>4. new \in Seq(Frame) /\ Len(new) = Len(s) /\ new[Len(s)] = e /\ new # <<>>
  BY <1>1, <1>2, <1>3
<1>5. \A i \in 1 .. Len(s) : new[i].at = s[i].at
  BY <1>1, <1>2, <1>3
<1>6. Unresumed(new) = Unresumed(s)
  BY <1>4, <1>5 DEF Unresumed
<1> QED
  BY <1>2, <1>4, <1>6 DEF Top

(***************************************************************************)
(* What TargetInv says of the scheduler and the stack, with the number of  *)
(* such contexts by its name.                                              *)
(***************************************************************************)
Owed(resuming, holds) == (IF resuming THEN 1 ELSE 0) + (IF holds THEN 1 ELSE 0)

LEMMA BalanceOfInvariant ==
  ASSUME TargetInv
  PROVE  /\ task \in Tasks /\ at \in [Tasks -> Places] /\ state \in [Tasks -> Context]
         /\ irqs \in [Tasks -> BOOLEAN] /\ stack \in Seq(Frame) /\ suspended \in Nat
         /\ Cardinality(Unresumed(stack)) \in Nat
         /\ ~Ended => suspended = Cardinality(Unresumed(stack)) + Owed(Resuming, HoldsScheduler)
         /\ StackConsistent
<1>1. CpuTypeOK /\ SchedulerBalanced /\ StackConsistent
  BY DEF TargetInv, TypeOK
<1>2. stack \in Seq(Frame) /\ DOMAIN stack = 1 .. Len(stack)
  BY <1>1 DEF CpuTypeOK
<1>3. UnresumedFrames = Unresumed(stack) /\ Cardinality(Unresumed(stack)) \in Nat
  BY <1>2, UnresumedCount DEF UnresumedFrames, Unresumed
<1>4. suspended \in Nat
  BY <1>1 DEF CpuTypeOK
<1>5. ~Ended => suspended = Cardinality(Unresumed(stack)) + Owed(Resuming, HoldsScheduler)
  BY <1>1, <1>3, <1>4 DEF SchedulerBalanced, Owed
<1> QED
  BY <1>1, <1>2, <1>3, <1>4, <1>5 DEF CpuTypeOK

LEMMA BalanceIsKept ==
  ASSUME stack' \in Seq(Frame), suspended' \in Nat,
         ~Ended' => suspended' = Cardinality(Unresumed(stack')) + Owed(Resuming', HoldsScheduler')
  PROVE  SchedulerBalanced'
<1>1. UnresumedFrames' = Unresumed(stack') /\ Cardinality(Unresumed(stack')) \in Nat
  <2>1. DOMAIN stack' = 1 .. Len(stack')
    OBVIOUS
  <2> QED
    BY <2>1, UnresumedCount DEF UnresumedFrames, Unresumed
<1> QED
  BY <1>1 DEF SchedulerBalanced, Owed

(***************************************************************************)
(* A step that leaves the stack, the tasks' places and the counter alone   *)
(* keeps the balance, unless somebody new holds the scheduler.             *)
(***************************************************************************)
LEMMA SchedulerUntouched ==
  ASSUME TargetInv, UNCHANGED <<task, at, stack, suspended>>,
         ~Ended' => /\ ~Ended /\ Resuming' = Resuming /\ HoldsScheduler' = HoldsScheduler
                    /\ phase' \in {"trapped", "monitor", "returning"}
                         => phase \in {"trapped", "monitor", "returning"}
  PROVE  SchedulerBalanced' /\ StackConsistent'
<1>1. SchedulerBalanced'
  BY BalanceOfInvariant, BalanceIsKept
<1>2. StackConsistent'
  BY BalanceOfInvariant DEF StackConsistent
<1> QED
  BY <1>1, <1>2

-----------------------------------------------------------------------------
(***************************************************************************)
(* The processor's steps, and those of catch_debug_event around the        *)
(* handler, keep their variables to their types and the target as it is.   *)
(***************************************************************************)
LEMMA ProgramTyped ==
  ASSUME TargetInv, Program
  PROVE  Untouched /\ CpuTypeOK' /\ NoSlotPanic'
<1>1. Untouched
  BY DEF Program, Execute, Fault, TakeDebugEvent, OverflowStack, Restore, ResumeScheduler,
         LeaveSystemMode, ReturnFromException, Untouched
<1> SUFFICES CpuTypeOK' /\ NoSlotPanic'
  BY <1>1
<1>2. CpuTypeOK /\ NoSlotPanic /\ \A a \in CodeAddrs : CodeContext(a) \in Context
  BY CodeContextTyped DEF TargetInv, TypeOK
<1> USE DEF tasks, abort
<1>3. CASE Execute
  BY <1>2, <1>3, TargetAssumption DEF Execute, Targets, CpuTypeOK, NoSlotPanic
<1>4. CASE Fault
  BY <1>2, <1>4 DEF Fault, CpuTypeOK, NoSlotPanic
<1>5. CASE TakeDebugEvent
  <2>1. Running \in Context /\ irqs[task] \in BOOLEAN
    BY <1>2 DEF CpuTypeOK, Running
  <2> QED
    BY <1>2, <1>5, <2>1
    DEF TakeDebugEvent, DebugEvent, CpuTypeOK, NoSlotPanic, Frame, Status, Context
<1>6. CASE OverflowStack
  BY <1>2, <1>6 DEF OverflowStack, DebugEvent, CpuTypeOK, NoSlotPanic
<1>7. CASE Restore
  <2>1. stack # <<>>
    BY <1>7 DEF Restore, TargetInv, StackConsistent, Ended
  <2>2. Top(stack) \in Frame
    BY <1>2, <2>1, UnresumedPop DEF CpuTypeOK
  <2>3. Status(task, Top(stack).ctx.thumb, Top(stack).irqs)
          \in [task : Tasks, thumb : BOOLEAN, irqs : BOOLEAN]
    BY <1>2, <2>2 DEF CpuTypeOK, Status, Frame, Context
  <2>4. \A a \in ResumeCode : CodeContext(a) \in Context
    BY <1>2, TargetAssumption
  <2>5. state' \in [Tasks -> Context] /\ at' \in [Tasks -> Places]
    BY <1>2, <1>7, <2>4 DEF Restore, CpuTypeOK, Places
  <2> QED
    BY <1>2, <1>7, <2>3, <2>5 DEF Restore, CpuTypeOK, NoSlotPanic
<1>8. ASSUME NEW t \in Tasks, ResumeScheduler(t)
      PROVE  CpuTypeOK' /\ NoSlotPanic'
  <2>1. \A a \in ResumeCode : CodeContext(a) \in Context
    BY <1>2, TargetAssumption
  <2>2. suspended' \in Nat
    <3>1. Resuming /\ ~Ended
      BY <1>8 DEF ResumeScheduler, RunsNext, Resuming, Ended
    <3> QED
      BY <1>8, <3>1, BalanceOfInvariant DEF ResumeScheduler, Owed
  <2>3. state' \in [Tasks -> Context] /\ at' \in [Tasks -> Places]
    BY <1>2, <1>8, <2>1 DEF ResumeScheduler, CpuTypeOK, Places
  <2> QED
    BY <1>2, <1>8, <2>2, <2>3 DEF ResumeScheduler, CpuTypeOK, NoSlotPanic
<1>9. CASE LeaveSystemMode
  BY <1>2, <1>9 DEF LeaveSystemMode, CpuTypeOK, NoSlotPanic
<1>10. CASE ReturnFromException
  <2>1. CASE OwnContext
    <3>1. stack # <<>> /\ Top(stack) \in Frame /\ Pop(stack) \in Seq(Frame)
      BY <1>2, <2>1, UnresumedPop DEF OwnContext, CpuTypeOK
    <3>2. ReturnContext \in Context /\ Top(stack).at \in Places /\ spsr.irqs \in BOOLEAN
      BY <1>2, <3>1 DEF ReturnContext, Frame, Context, CpuTypeOK
    <3>3. state' \in [Tasks -> Context] /\ at' \in [Tasks -> Places] /\ irqs' \in [Tasks -> BOOLEAN]
      BY <1>2, <1>10, <2>1, <3>2 DEF ReturnFromException, CpuTypeOK
    <3>4. phase' = "program" /\ stack' = Pop(stack)
      BY <1>10, <2>1 DEF ReturnFromException
    <3>5. UNCHANGED <<task, spsr, moe, suspended, returned, panic>>
      BY <1>10 DEF ReturnFromException
    <3> QED
      BY <1>2, <3>1, <3>3, <3>4, <3>5 DEF CpuTypeOK, NoSlotPanic
  <2>2. CASE ~OwnContext
    <3>1. phase' = "lost" /\ UNCHANGED <<task, state, at, irqs, stack, spsr>>
      BY <1>10, <2>2 DEF ReturnFromException
    <3>2. UNCHANGED <<moe, suspended, returned, panic>>
      BY <1>10 DEF ReturnFromException
    <3> QED
      BY <1>2, <3>1, <3>2 DEF CpuTypeOK, NoSlotPanic
  <2> QED
    BY <2>1, <2>2
<1> QED
  BY <1>1, <1>3, <1>4, <1>5, <1>6, <1>7, <1>8, <1>9, <1>10 DEF Program

(***************************************************************************)
(* They keep the balance of suspensions and resumes: a task that stops on  *)
(* its way to resume the scheduler takes that with it onto the stack, and  *)
(* takes it up again when it returns.                                      *)
(***************************************************************************)
LEMMA ProgramKeepsBalance ==
  ASSUME TargetInv, Program
  PROVE  SchedulerBalanced' /\ StackConsistent'
<1> DEFINE count == Cardinality(Unresumed(stack))
<1>1. /\ task \in Tasks /\ at \in [Tasks -> Places] /\ stack \in Seq(Frame)
      /\ suspended \in Nat /\ count \in Nat
      /\ ~Ended => suspended = count + Owed(Resuming, HoldsScheduler)
      /\ StackConsistent
      /\ StepPending' = StepPending
  BY BalanceOfInvariant, ProgramTyped, UntouchedKeeps
<1>2. stack' \in Seq(Frame) /\ suspended' \in Nat
  BY ProgramTyped DEF CpuTypeOK
<1> HIDE DEF count
<1> USE DEF tasks, abort, Resuming, HoldsScheduler, Ended, StackConsistent, Owed
<1>3. CASE Execute
  <2>1. ~Ended' => phase' = "program"
    BY <1>3 DEF Execute, RunsNext
  <2> QED
    BY <1>1, <1>3, <2>1, SchedulerUntouched DEF Execute, RunsNext
<1>4. CASE Fault \/ OverflowStack
  BY <1>1, <1>4, SchedulerUntouched DEF Fault, OverflowStack
<1>5. CASE TakeDebugEvent
  <2> DEFINE f == [task |-> task, ctx |-> Running, irqs |-> irqs[task], at |-> at[task]]
  <2>1. phase = "program" /\ phase' = "trapped"
        /\ UNCHANGED <<task, at, suspended>> /\ stack' = Append(stack, f)
    BY <1>5 DEF TakeDebugEvent, DebugEvent
  <2>2. f \in Frame /\ f.at = at[task]
    BY <1>1 DEF Frame, Running, TargetInv, TypeOK, CpuTypeOK
  <2> HIDE DEF f
  <2>3. Cardinality(Unresumed(stack')) = count + (IF at[task] = "resuming" THEN 1 ELSE 0)
    BY <1>1, <2>1, <2>2, UnresumedPush DEF count
  <2>4. suspended' = Cardinality(Unresumed(stack')) + Owed(Resuming', HoldsScheduler')
    BY <1>1, <2>1, <2>3
  <2>5. stack' # <<>>
    BY <1>1, <2>1
  <2> QED
    BY <1>1, <1>2, <2>1, <2>4, <2>5, BalanceIsKept
<1>6. CASE Restore
  <2>1. phase = "returning" /\ UNCHANGED <<task, stack, suspended>>
    BY <1>6 DEF Restore
  <2>2. returned <=> ~StepPending
    BY <2>1 DEF TargetInv, MonitorConsistent
  <2>3. suspended = count + 1
    BY <1>1, <2>1
  <2>4. CASE returned
    <3>1. phase' = "program" /\ at' = [at EXCEPT ![task] = "resuming"]
      BY <1>6, <2>4 DEF Restore
    <3>2. Resuming' /\ ~HoldsScheduler'
      BY <1>1, <2>1, <2>2, <2>4, <3>1
    <3> QED
      BY <1>1, <1>2, <2>1, <2>3, <3>1, <3>2, BalanceIsKept DEF count
  <2>5. CASE ~returned
    <3>1. phase' = "leaving" /\ at' = at
      BY <1>6, <2>5 DEF Restore
    <3>2. ~Resuming' /\ HoldsScheduler'
      BY <1>1, <2>2, <2>5, <3>1
    <3> QED
      BY <1>1, <1>2, <2>1, <2>3, <3>1, <3>2, BalanceIsKept DEF count
  <2> QED
    BY <2>4, <2>5
<1>7. ASSUME NEW t \in Tasks, ResumeScheduler(t)
      PROVE  SchedulerBalanced' /\ StackConsistent'
  <2>1. /\ phase = "program" /\ phase' = "program" /\ at[task] = "resuming"
        /\ suspended' = suspended - 1 /\ task' = t /\ at' = [at EXCEPT ![task] = "resumed"]
        /\ stack' = stack
    BY <1>7 DEF ResumeScheduler, RunsNext
  <2>2. \A u \in Tasks : at'[u] # "resuming"
    BY <1>1, <2>1
  <2>3. ~Resuming' /\ HoldsScheduler' = HoldsScheduler
    BY <1>1, <1>7, <2>1, <2>2
  <2>4. suspended' = count + Owed(Resuming', HoldsScheduler')
    BY <1>1, <2>1, <2>3
  <2> QED
    BY <1>2, <2>1, <2>2, <2>4, BalanceIsKept DEF count
<1>8. CASE LeaveSystemMode
  BY <1>1, <1>8, SchedulerUntouched DEF LeaveSystemMode, RunsNext
<1>9. CASE ReturnFromException
  <2>1. CASE OwnContext
    <3>1. /\ phase = "leaving" /\ phase' = "program" /\ UNCHANGED <<task, suspended>>
          /\ at' = [at EXCEPT ![task] = Top(stack).at] /\ stack' = Pop(stack) /\ stack # <<>>
      BY <1>9, <2>1 DEF ReturnFromException, OwnContext
    <3>2. count = Cardinality(Unresumed(stack')) + (IF Top(stack).at = "resuming" THEN 1 ELSE 0)
      BY <1>1, <3>1, UnresumedPop DEF count
    <3>3. Cardinality(Unresumed(stack')) \in Nat
      BY <1>2, UnresumedCount
    <3>4. suspended' = Cardinality(Unresumed(stack')) + Owed(Resuming', HoldsScheduler')
      BY <1>1, <3>1, <3>2, <3>3
    <3> QED
      BY <1>1, <1>2, <3>1, <3>4, BalanceIsKept
  <2>2. CASE ~OwnContext
    BY <1>1, <1>2, <1>9, <2>2, BalanceIsKept DEF ReturnFromException
  <2> QED
    BY <2>1, <2>2
<1> QED
  BY <1>3, <1>4, <1>5, <1>6, <1>7, <1>8, <1>9 DEF Program

(***************************************************************************)
(* So they keep the invariant: none of them is in the monitor.             *)
(***************************************************************************)
LEMMA ProgramPreserves == TargetInv /\ Program => TargetInv'
<1> SUFFICES ASSUME TargetInv, Program PROVE TargetInv'
  OBVIOUS
<1>1. Untouched /\ CpuTypeOK' /\ NoSlotPanic'
  BY ProgramTyped
<1>2. SchedulerBalanced' /\ StackConsistent'
  BY ProgramKeepsBalance
<1>3. LockedOutsideMonitor' /\ MonitorConsistent'
  <2>1. LockedOutsideMonitor /\ MonitorConsistent
    BY DEF TargetInv
  <2>2. /\ phase' \notin {"monitor", "returning"} /\ phase \notin {"monitor", "panicked"}
        /\ locked' = locked
    BY <1>1 DEF Program, Execute, Fault, TakeDebugEvent, DebugEvent, OverflowStack, Restore,
                ResumeScheduler, LeaveSystemMode, ReturnFromException, RunsNext, Untouched, hw
  <2> QED
    BY <2>1, <2>2 DEF LockedOutsideMonitor, MonitorConsistent, InMonitor
<1> QED
  BY <1>1, <1>2, <1>3, UntouchedKeeps DEF TargetInv, TypeOK

(***************************************************************************)
(* So does a switch to another task, which finds the scheduler running.    *)
(***************************************************************************)
LEMMA SwitchPreserves ==
  ASSUME TargetInv, NEW t \in Tasks, Switch(t)
  PROVE  TargetInv'
<1>1. /\ Untouched /\ phase = "program" /\ suspended = 0 /\ task' = t
      /\ UNCHANGED <<phase, state, at, irqs, stack, spsr, moe, suspended, returned, panic>>
  BY DEF Switch, Untouched, abort
<1>2. CpuTypeOK' /\ NoSlotPanic'
  BY <1>1 DEF TargetInv, TypeOK, CpuTypeOK, NoSlotPanic, Untouched
<1>3. /\ \A u \in Tasks : at[u] # "resuming"
      /\ Cardinality(Unresumed(stack)) = 0 /\ ~HoldsScheduler /\ stack \in Seq(Frame)
  BY <1>1, BalanceOfInvariant DEF Owed, Resuming, Ended, StackConsistent
<1>4. StepPending' = StepPending
  BY <1>1, UntouchedKeeps
<1>5. ~Resuming' /\ ~HoldsScheduler' /\ ~Ended'
  BY <1>1, <1>3, <1>4 DEF Resuming, HoldsScheduler, Ended
<1>6. SchedulerBalanced'
  BY <1>1, <1>3, <1>5, BalanceIsKept DEF Owed
<1>7. StackConsistent'
  BY <1>1, <1>3 DEF StackConsistent
<1>8. LockedOutsideMonitor' /\ MonitorConsistent'
  BY <1>1, <1>4 DEF TargetInv, LockedOutsideMonitor, MonitorConsistent, InMonitor, Untouched,
                    hw, target
<1> QED
  BY <1>1, <1>2, <1>6, <1>7, <1>8, UntouchedKeeps DEF TargetInv, TypeOK

-----------------------------------------------------------------------------
(***************************************************************************)
(* finalize_single_step leaves no pair for the step, and finalize_interrupt*)
(* none for the interrupt.                                                 *)
(***************************************************************************)
LEMMA WithoutStep ==
  ASSUME TargetInv
  PROVE  /\ PairsOK(RegsWithoutStep, UsedWithoutStep)
         /\ Holding(RegsWithoutStep, "Mismatch")
              \subseteq IF interrupt_pending THEN {SentinelComparison} ELSE {}
<1>1. PairsOK(regs, used) /\ Holding(regs, "Mismatch") = Pending
  BY PairsOfInvariant
<1>2. "Mismatch" \in Specificity
  BY DEF Specificity
<1>3. CASE ~StepPending
  BY <1>1, <1>3 DEF RegsWithoutStep, UsedWithoutStep, Pending
<1>4. CASE StepPending
  <2> DEFINE addr == single_step_request.target_addr
             kind == single_step_request.kind
  <2>1. AlignedFor(addr, kind)
    BY <1>4 DEF TargetInv, TypeOK, TargetTypeOK, StepTypeOK, StepPending
  <2>2. PairsOK(RemoveRegs(regs, addr, "Mismatch", kind),
                RemoveUsed(regs, used, addr, "Mismatch", kind))
    BY <1>1, <1>2, RemovePair
  <2>3. Holding(RemoveRegs(regs, addr, "Mismatch", kind), "Mismatch")
          = Holding(regs, "Mismatch") \ {Comparison(addr, "Mismatch", kind)}
    <3>1. regs \in [Slots -> BreakpointPair]
      BY <1>1 DEF PairsOK
    <3> QED
      BY <1>2, <2>1, <3>1, RemoveHolds
  <2>4. Pending \ {StepComparison} \subseteq
          IF interrupt_pending THEN {SentinelComparison} ELSE {}
    BY <1>4 DEF Pending
  <2> QED
    BY <1>1, <1>4, <2>2, <2>3, <2>4 DEF RegsWithoutStep, UsedWithoutStep, StepComparison
<1> QED
  BY <1>3, <1>4

(***************************************************************************)
(* After finalize_interrupt there is no Mismatch pair at all.              *)
(***************************************************************************)
LEMMA WithoutInterrupt ==
  ASSUME TargetInv
  PROVE  /\ PairsOK(RegsWithoutInterrupt, UsedWithoutInterrupt)
         /\ Holding(RegsWithoutInterrupt, "Mismatch") = {}
<1>1. /\ PairsOK(RegsWithoutStep, UsedWithoutStep)
      /\ Holding(RegsWithoutStep, "Mismatch")
           \subseteq IF interrupt_pending THEN {SentinelComparison} ELSE {}
  BY WithoutStep
<1>2. CASE ~interrupt_pending
  BY <1>1, <1>2 DEF RegsWithoutInterrupt, UsedWithoutInterrupt
<1>3. CASE interrupt_pending
  <2>1. PairsOK(RegsWithoutInterrupt, UsedWithoutInterrupt)
    BY <1>1, <1>3, RemovePair DEF RegsWithoutInterrupt, UsedWithoutInterrupt, Specificity
  <2>2. Holding(RegsWithoutInterrupt, "Mismatch")
          = Holding(RegsWithoutStep, "Mismatch") \ {SentinelComparison}
    <3>1. RegsWithoutStep \in [Slots -> BreakpointPair] /\ AlignedFor(Sentinel, "Arm32")
      BY <1>1, TargetAssumption DEF PairsOK
    <3> QED
      BY <1>3, <3>1, RemoveHolds DEF RegsWithoutInterrupt, SentinelComparison, Specificity
  <2> QED
    BY <1>1, <1>3, <2>1, <2>2
<1> QED
  BY <1>2, <1>3

(***************************************************************************)
(* request_interrupt finds a pair to arm.                                  *)
(***************************************************************************)
LEMMA RequestInterruptPreserves ==
  ASSUME TargetInv, request_interrupt
  PROVE  TargetInv'
<1>1. ~interrupt_pending /\ phase \in {"program", "returning", "leaving"}
  BY DEF request_interrupt, SessionFree
<1>2. PairsOK(RegsWithoutStep, UsedWithoutStep) /\ Holding(RegsWithoutStep, "Mismatch") = {}
  BY <1>1, WithoutStep
<1>3. AddResult(RegsWithoutStep, UsedWithoutStep, Sentinel, "Mismatch", "Arm32") = "Ok"
  BY <1>2, ArmingSucceeds, TargetAssumption DEF PairsOK
<1>4. PairsOK(regs', used') /\ Holding(regs', "Mismatch") = {SentinelComparison}
  BY <1>2, <1>3, ArmPair, TargetAssumption DEF request_interrupt, SentinelComparison
<1>5. /\ interrupt_pending' = TRUE
      /\ UNCHANGED <<phase, panic, task, state, at, irqs, stack, spsr, mem, moe, suspended,
                     returned, locked, sw, exception_ctx, monitor_status, stop_reason,
                     original_hw_lock_state, single_step_request>>
  BY <1>3 DEF request_interrupt, Relock, tasks, abort
<1>6. HwTypeOK' /\ OccupancyAgrees(regs, used)' /\ AllDistinct(regs)' /\ OnePairReserved'
  BY <1>4, <1>5
  DEF PairsOK, OnePairReserved, OccupancyAgrees, TargetInv, TypeOK, HwTypeOK
<1>7. MismatchPairsArePending'
  BY <1>4, <1>5 DEF MismatchPairsArePending, Pending, SentinelComparison
<1>8. SwTypeOK' /\ CpuTypeOK' /\ TargetTypeOK' /\ NoSlotPanic'
  BY <1>5 DEF TargetInv, TypeOK, SwTypeOK, CpuTypeOK, TargetTypeOK, StepTypeOK, NoSlotPanic, sw
<1>9. LockedOutsideMonitor' /\ MonitorConsistent'
  BY <1>1, <1>5 DEF TargetInv, LockedOutsideMonitor, MonitorConsistent, InMonitor, StepPending
<1>10. SchedulerBalanced' /\ StackConsistent'
  BY <1>5, SchedulerUntouched DEF Resuming, HoldsScheduler, StepPending, Ended
<1> QED
  BY <1>6, <1>7, <1>8, <1>9, <1>10 DEF TargetInv, TypeOK

(***************************************************************************)
(* enter_breakpoint leaves nothing pending.                                *)
(***************************************************************************)
LEMMA EnterPreserves ==
  ASSUME TargetInv, enter_breakpoint
  PROVE  TargetInv'
<1>1. PairsOK(regs', used') /\ Holding(regs', "Mismatch") = {}
  BY WithoutInterrupt DEF enter_breakpoint
<1>2. HwTypeOK' /\ OccupancyAgrees(regs, used)' /\ AllDistinct(regs)' /\ OnePairReserved'
  BY <1>1 DEF PairsOK, OnePairReserved, OccupancyAgrees, HwTypeOK, enter_breakpoint
<1>3. MismatchPairsArePending'
  BY <1>1 DEF MismatchPairsArePending, Pending, StepPending, enter_breakpoint
<1>4. breaks' \in Tables /\ mem' \in Code
  BY IgnoredTyped
  DEF TargetInv, TypeOK, SwTypeOK, CpuTypeOK, Tables, Code, enter_breakpoint
<1>5. SwTypeOK'
  BY <1>4 DEF SwTypeOK, Tables, Code, enter_breakpoint
<1>6. CpuTypeOK'
  BY <1>4 DEF TargetInv, TypeOK, CpuTypeOK, Code, enter_breakpoint, SuspendedOnEntry, abort
<1>7. TargetTypeOK'
  <2>1. Running \in Context
    BY DEF TargetInv, TypeOK, CpuTypeOK, Running
  <2>2. Fixup(Running, StopReasonNow) \in Context
    BY <2>1 DEF Fixup, Context
  <2>3. StopReasonNow \in {"HardwareBreak", "TrackedSoftwareBreak", "UntrackedSoftwareBreak",
                           "Interrupt", "Other"}
    BY Zenon DEF StopReasonNow
  <2>4. locked \in BOOLEAN
    BY DEF TargetInv, TypeOK, HwTypeOK
  <2> QED
    BY <2>2, <2>3, <2>4 DEF TargetTypeOK, StepTypeOK, enter_breakpoint
<1>8. NoSlotPanic'
  BY DEF TargetInv, NoSlotPanic, enter_breakpoint
<1>9. SchedulerBalanced'
  <2>1. /\ phase = "trapped" /\ phase' = "monitor" /\ UNCHANGED <<stack, at, task>>
        /\ suspended' = IF StepPending THEN suspended ELSE suspended + 1
    BY DEF enter_breakpoint, SuspendedOnEntry, abort
  <2>2. ~Resuming /\ ~Resuming' /\ ~Ended /\ HoldsScheduler' /\ (HoldsScheduler <=> StepPending)
    BY <2>1 DEF Resuming, HoldsScheduler, Ended
  <2>3. suspended' = Cardinality(Unresumed(stack)) + 1
    BY <2>1, <2>2, BalanceOfInvariant DEF Owed
  <2>4. stack' \in Seq(Frame) /\ suspended' \in Nat
    BY <2>1, BalanceOfInvariant
  <2>5. Owed(Resuming', HoldsScheduler') = 1
    BY <2>2 DEF Owed
  <2>6. suspended' = Cardinality(Unresumed(stack')) + Owed(Resuming', HoldsScheduler')
    BY <2>1, <2>3, <2>5
  <2> QED
    BY <2>4, <2>6, BalanceIsKept, Zenon
<1>10. LockedOutsideMonitor' /\ MonitorConsistent'
  BY DEF TargetInv, LockedOutsideMonitor, MonitorConsistent, InMonitor, StepPending,
         enter_breakpoint
<1>11. StackConsistent'
  BY DEF TargetInv, StackConsistent, Ended, enter_breakpoint, abort
<1> QED
  BY <1>2, <1>3, <1>5, <1>6, <1>7, <1>8, <1>9, <1>10, <1>11 DEF TargetInv, TypeOK

(***************************************************************************)
(* What the invariant says of the types of what a request may change.      *)
(***************************************************************************)
LEMMA TypesOfInvariant ==
  ASSUME TargetInv
  PROVE  /\ breaks \in Tables /\ mem \in Code /\ breaks_paused \in BOOLEAN
         /\ exception_ctx \in Context
         /\ monitor_status \in {"Active", "Exiting", "ResumingProgram"}
  BY DEF TargetInv, TypeOK, SwTypeOK, TargetTypeOK, Tables, Code

(***************************************************************************)
(* leave_breakpoint puts the lock back and keeps the step that is pending. *)
(***************************************************************************)
LEMMA LeavePreserves ==
  ASSUME TargetInv, leave_breakpoint
  PROVE  TargetInv'
<1> USE DEF leave_breakpoint, RestoreLock, should_unpause_scheduler, target, tasks
<1>1. HwTypeOK' /\ OccupancyAgrees(regs, used)' /\ AllDistinct(regs)' /\ OnePairReserved'
  BY DEF TargetInv, TypeOK, HwTypeOK, TargetTypeOK, OnePairReserved
<1>2. MismatchPairsArePending' /\ StepPending' = StepPending
  BY DEF TargetInv, MismatchPairsArePending, Pending, StepPending, StepComparison
<1>3. breaks' \in Tables /\ mem' \in Code
  BY IgnoredTyped DEF TargetInv, TypeOK, SwTypeOK, CpuTypeOK, Tables, Code
<1>4. SwTypeOK'
  BY <1>3 DEF SwTypeOK, Tables, Code
<1>5. stack' \in Seq(Frame) /\ stack' # <<>> /\ Unresumed(stack') = Unresumed(stack)
  <2>1. stack # <<>>
    BY BalanceOfInvariant DEF StackConsistent, Ended
  <2> QED
    BY <2>1, BalanceOfInvariant, TypesOfInvariant, UnresumedWrite
<1>6. CpuTypeOK'
  BY <1>3, <1>5 DEF TargetInv, TypeOK, CpuTypeOK, Code, StepPending
<1>7. TargetTypeOK' /\ NoSlotPanic'
  BY DEF TargetInv, TypeOK, TargetTypeOK, StepTypeOK, NoSlotPanic
<1>8. LockedOutsideMonitor' /\ MonitorConsistent'
  BY <1>2 DEF TargetInv, LockedOutsideMonitor, MonitorConsistent, InMonitor
<1>9. SchedulerBalanced' /\ StackConsistent'
  <2>1. ~Ended /\ ~Resuming /\ ~Resuming' /\ HoldsScheduler /\ HoldsScheduler'
    BY DEF Ended, Resuming, HoldsScheduler
  <2>2. suspended = Cardinality(Unresumed(stack)) + 1 /\ suspended \in Nat
    BY <2>1, BalanceOfInvariant DEF Owed
  <2>3. Owed(Resuming', HoldsScheduler') = 1 /\ suspended' = suspended
    BY <2>1 DEF Owed
  <2>4. suspended' = Cardinality(Unresumed(stack')) + Owed(Resuming', HoldsScheduler')
    <3> HIDE DEF leave_breakpoint
    <3> QED
      BY <1>5, <2>2, <2>3
  <2>5. SchedulerBalanced'
    <3> HIDE DEF leave_breakpoint
    <3> QED
      BY <1>5, <2>2, <2>3, <2>4, BalanceIsKept, Zenon
  <2> QED
    BY <1>5, <2>1, <2>5, BalanceOfInvariant DEF StackConsistent
<1> QED
  BY <1>1, <1>2, <1>4, <1>6, <1>7, <1>8, <1>9 DEF TargetInv, TypeOK

-----------------------------------------------------------------------------
(***************************************************************************)
(* What GDB asks for at a stop.  A request that leaves the processor, the  *)
(* step and the interrupt alone keeps what relates those to one another.   *)
(***************************************************************************)
Request == UNCHANGED <<phase, task, state, at, irqs, stack, spsr, moe, suspended, returned,
                       panic, locked, breaks_paused, stop_reason, original_hw_lock_state,
                       single_step_request, interrupt_pending>>

(***************************************************************************)
(* Such a request keeps the invariant if it leaves the pairs in order and  *)
(* the same Mismatch comparisons in them.                                  *)
(***************************************************************************)
LEMMA RequestKeeps ==
  ASSUME TargetInv, InMonitor, Request,
         PairsOK(regs', used'), Holding(regs', "Mismatch") = Holding(regs, "Mismatch"),
         breaks' \in Tables, mem' \in Code, exception_ctx' \in Context,
         monitor_status' \in {"Active", "Exiting", "ResumingProgram"}
  PROVE  TargetInv'
<1> USE DEF Request
<1>1. HwTypeOK' /\ OccupancyAgrees(regs, used)' /\ AllDistinct(regs)' /\ OnePairReserved'
  BY DEF PairsOK, OnePairReserved, OccupancyAgrees, TargetInv, TypeOK, HwTypeOK
<1>2. MismatchPairsArePending'
  BY DEF TargetInv, MismatchPairsArePending, Pending, StepPending, StepComparison
<1>3. SwTypeOK' /\ CpuTypeOK' /\ TargetTypeOK' /\ NoSlotPanic'
  BY DEF TargetInv, TypeOK, SwTypeOK, CpuTypeOK, TargetTypeOK, StepTypeOK, NoSlotPanic,
         Tables, Code
<1>4. LockedOutsideMonitor' /\ MonitorConsistent'
  BY DEF TargetInv, LockedOutsideMonitor, MonitorConsistent, InMonitor, StepPending
<1>5. SchedulerBalanced' /\ StackConsistent'
  BY SchedulerUntouched DEF Resuming, HoldsScheduler, StepPending, Ended
<1> QED
  BY <1>1, <1>2, <1>3, <1>4, <1>5 DEF TargetInv, TypeOK

(***************************************************************************)
(* GDB's Z1 leaves the last pair free.                                     *)
(***************************************************************************)
LEMMA AddHwPreserves ==
  ASSUME TargetInv, NEW addr \in HwRequests, NEW kind \in ArmBreakpointKind,
         add_hw_breakpoint(addr, kind)
  PROVE  TargetInv'
<1>1. PairsOK(regs, used)
  BY PairsOfInvariant
<1>2. regs \in [Slots -> BreakpointPair] /\ OccupancyAgrees(regs, used) /\ AllDistinct(regs)
  BY <1>1 DEF PairsOK
<1>3. "Match" \in Specificity /\ "Mismatch" \in Specificity \ {"Match"}
  BY DEF Specificity
<1>4. addr \in Int
  BY TargetAssumption
<1>5. CASE AddResult(regs, used, addr, "Match", kind) # "Ok"
  BY <1>1, <1>5, AddRefused, TypesOfInvariant, RequestKeeps
  DEF add_hw_breakpoint, Request, cpu, tasks, abort, sw, target
<1>6. CASE AddResult(regs, used, addr, "Match", kind) = "Ok"
  <2>1. /\ regs' \in [Slots -> BreakpointPair]
        /\ OccupancyAgrees(regs', used')
        /\ AllDistinct(regs')
    BY <1>2, <1>3, <1>4, AddKeeps, ComparisonIsPair DEF add_hw_breakpoint
  <2>2. Holding(regs', "Mismatch") = Holding(regs, "Mismatch")
    <3>1. regs' = AddRegs(regs, used, addr, "Match", kind)
      BY DEF add_hw_breakpoint
    <3>2. Holding(AddRegs(regs, used, addr, "Match", kind), "Mismatch") = Holding(regs, "Mismatch")
      BY <1>2, <1>3, <1>6, AddHolds
    <3> QED
      BY <3>1, <3>2
  <2>3. PICK free \in Slots : SlotsOf(regs', "Match") = SlotsOf(regs, "Match") \union {free}
    BY <1>2, <1>3, <1>6, AddHolds DEF add_hw_breakpoint
  <2>4. Cardinality(SlotsOf(regs', "Match")) < NumBreakpoints
    <3>1. SlotsOf(regs, "Match") \in SUBSET used
      BY <1>2 DEF SlotsOf, OccupancyAgrees, Enabled
    <3>2. IsFiniteSet(used) /\ Cardinality(used) \in Nat /\ NumBreakpoints - Cardinality(used) > 1
      BY <1>2, FreeSlotsLeft DEF add_hw_breakpoint, BreakpointsAvailable
    <3>3. /\ IsFiniteSet(SlotsOf(regs, "Match"))
          /\ Cardinality(SlotsOf(regs, "Match")) <= Cardinality(used)
      BY <3>1, <3>2, FS_Subset, Zenon
    <3>4. Cardinality(SlotsOf(regs, "Match")) \in Nat
      BY <3>3, FS_CardinalityType
    <3>5. Cardinality(SlotsOf(regs', "Match")) <= Cardinality(SlotsOf(regs, "Match")) + 1
      BY <2>3, <3>3, <3>4, FS_AddElement
    <3>6. Cardinality(SlotsOf(regs', "Match")) \in Nat
      BY <2>3, <3>3, FS_AddElement, FS_CardinalityType
    <3> QED
      BY <3>2, <3>3, <3>4, <3>5, <3>6, NumBreakpointsAssumption
  <2> QED
    BY <2>1, <2>2, <2>4, TypesOfInvariant, RequestKeeps
    DEF PairsOK, add_hw_breakpoint, Request, cpu, tasks, abort, sw, target
<1> QED
  BY <1>5, <1>6

(***************************************************************************)
(* GDB's z1.                                                               *)
(***************************************************************************)
LEMMA RemoveHwPreserves ==
  ASSUME TargetInv, NEW addr \in HwRequests, NEW kind \in ArmBreakpointKind,
         remove_hw_breakpoint(addr, kind)
  PROVE  TargetInv'
<1>1. PairsOK(regs, used) /\ regs \in [Slots -> BreakpointPair]
  BY PairsOfInvariant DEF PairsOK
<1>2. "Match" \in Specificity /\ "Mismatch" \in Specificity \ {"Match"}
  BY DEF Specificity
<1>3. PairsOK(regs', used')
  BY <1>1, <1>2, RemovePair DEF remove_hw_breakpoint
<1>4. Holding(regs', "Mismatch") = Holding(regs, "Mismatch")
  BY <1>1, <1>2, RemoveHolds DEF remove_hw_breakpoint
<1> QED
  BY <1>3, <1>4, TypesOfInvariant, RequestKeeps
  DEF remove_hw_breakpoint, Request, cpu, tasks, abort, sw, target

(***************************************************************************)
(* GDB's Z0 and z0, and the handler of vexSystemExitRequest.               *)
(***************************************************************************)
LEMMA SwPreserves ==
  ASSUME TargetInv, NEW addr \in SwRequests,
         add_sw_breakpoint(addr) \/ remove_user_breakpoint(addr)
  PROVE  TargetInv'
<1>1. addr \in CodeAddrs
  BY TargetAssumption
<1>2. breaks' \in Tables /\ mem' \in Code
  BY <1>1, TypesOfInvariant, RegisterTyped, RemoveTyped
  DEF add_sw_breakpoint, remove_user_breakpoint, remove_sw_breakpoint
<1> QED
  BY <1>2, PairsOfInvariant, TypesOfInvariant, RequestKeeps
  DEF add_sw_breakpoint, remove_user_breakpoint, remove_sw_breakpoint, Request, tasks, abort, hw, target

(***************************************************************************)
(* The handler of vexSystemExitRequest removes its own breakpoint.         *)
(***************************************************************************)
LEMMA BeforeExitPreserves ==
  ASSUME TargetInv, NEW exiting \in BOOLEAN, before_exit(exiting)
  PROVE  TargetInv'
<1>1. breaks' \in Tables /\ mem' \in Code
  BY TypesOfInvariant, RemoveTyped, TargetAssumption DEF before_exit, remove_sw_breakpoint
<1> QED
  BY <1>1, PairsOfInvariant, TypesOfInvariant, RequestKeeps
  DEF before_exit, remove_sw_breakpoint, Request, tasks, abort, hw

(***************************************************************************)
(* GDB's G and c.                                                          *)
(***************************************************************************)
LEMMA WriteRegistersPreserves ==
  ASSUME TargetInv, NEW c \in WrittenContexts, write_registers(c)
  PROVE  TargetInv'
<1>1. c \in Context
  BY TargetAssumption
<1> QED
  BY <1>1, PairsOfInvariant, TypesOfInvariant, RequestKeeps
  DEF write_registers, Request, cpu, tasks, abort, hw, sw

(***************************************************************************)
(* GDB's c changes only what the monitor is to do.                         *)
(***************************************************************************)
LEMMA ResumePreserves ==
  ASSUME TargetInv, resume
  PROVE  TargetInv'
  BY PairsOfInvariant, TypesOfInvariant, RequestKeeps DEF resume, Request, cpu, tasks, abort, hw, sw

(***************************************************************************)
(* GDB's s arms a pair and finds one, unless the PC is no instruction's.   *)
(***************************************************************************)
LEMMA StepPreserves ==
  ASSUME TargetInv, NEW t \in Tasks, step(t)
  PROVE  TargetInv'
<1> DEFINE pc == exception_ctx.pc
           result == AddResult(regs, used, pc, "Mismatch", StepKind)
<1>1. /\ InMonitor /\ phase = "monitor"
      /\ UNCHANGED <<task, state, at, irqs, stack, spsr, mem, moe, suspended, returned, locked,
                     sw, exception_ctx, stop_reason, original_hw_lock_state, interrupt_pending>>
  BY DEF step, InMonitor, tasks, abort
<1>2. ~StepPending /\ ~interrupt_pending /\ Pending = {}
  BY <1>1 DEF TargetInv, MonitorConsistent, Pending
<1>3. PairsOK(regs, used) /\ Holding(regs, "Mismatch") = {}
  BY <1>2, PairsOfInvariant
<1>4. pc \in Int /\ pc \in Nat
  BY DEF TargetInv, TypeOK, TargetTypeOK, Context
<1>5. CASE t = task /\ result = "Ok"
  <2>1. /\ regs' = AddRegs(regs, used, pc, "Mismatch", StepKind)
        /\ used' = AddUsed(regs, used, pc, "Mismatch", StepKind)
        /\ single_step_request' = StepRequest(pc, StepKind)
        /\ monitor_status' = "ResumingProgram"
        /\ UNCHANGED <<phase, panic>>
    BY <1>5 DEF step, request_single_step
  <2>2. PairsOK(regs', used') /\ Holding(regs', "Mismatch") = {Comparison(pc, "Mismatch", StepKind)}
    BY <1>3, <1>4, <1>5, <2>1, ArmPair
  <2>3. AlignedFor(pc, StepKind)
    BY <1>5, AddOk
  <2>4. StepKind \in {"Thumb16", "Arm32"}
    BY DEF StepKind
  <2>5. /\ single_step_request'.target_addr = pc
        /\ single_step_request'.kind = StepKind
        /\ StepTypeOK'
    BY <1>4, <2>1, <2>3, <2>4 DEF StepRequest, StepTypeOK
  <2>6. StepPending'
    BY <2>4, <2>5 DEF StepPending, NoStep, StepRequest, None
  <2>7. HwTypeOK' /\ OccupancyAgrees(regs, used)' /\ AllDistinct(regs)' /\ OnePairReserved'
    BY <1>1, <2>2 DEF PairsOK, OnePairReserved, OccupancyAgrees, TargetInv, TypeOK, HwTypeOK
  <2>8. MismatchPairsArePending'
    BY <1>1, <1>2, <2>2, <2>5, <2>6 DEF MismatchPairsArePending, Pending, StepComparison
  <2>9. SwTypeOK' /\ CpuTypeOK' /\ TargetTypeOK' /\ NoSlotPanic'
    BY <1>1, <2>1, <2>5
    DEF TargetInv, TypeOK, SwTypeOK, CpuTypeOK, TargetTypeOK, NoSlotPanic, sw
  <2>10. LockedOutsideMonitor' /\ MonitorConsistent'
    BY <1>1, <1>2, <2>1 DEF TargetInv, LockedOutsideMonitor, MonitorConsistent, InMonitor
  <2>11. SchedulerBalanced' /\ StackConsistent'
    BY <1>1, <2>1, SchedulerUntouched DEF Resuming, HoldsScheduler, Ended
  <2> QED
    BY <2>7, <2>8, <2>9, <2>10, <2>11 DEF TargetInv, TypeOK
<1>6. CASE t # task \/ result # "Ok"
  <2>1. /\ phase' = "panicked"
        /\ UNCHANGED <<regs, used, single_step_request, monitor_status>>
    BY <1>6 DEF step, request_single_step
  <2>2. panic' \in {"OtherTask", "NotAlignedCorrectly"}
    <3>1. CASE t # task
      BY <3>1 DEF step
    <3>2. CASE t = task /\ result # "Ok"
      <4>1. ~AlignedFor(pc, StepKind)
        BY <1>3, <3>2, ArmingSucceeds DEF PairsOK
      <4>2. result = "NotAlignedCorrectly"
        BY <4>1, <3>2, AddAnswers
      <4> QED
        BY <3>2, <4>2 DEF step, request_single_step
    <3> QED
      BY <1>6, <3>1, <3>2
  <2>3. HwTypeOK' /\ OccupancyAgrees(regs, used)' /\ AllDistinct(regs)' /\ OnePairReserved'
    BY <1>1, <2>1 DEF TargetInv, TypeOK, HwTypeOK, OnePairReserved
  <2>4. MismatchPairsArePending'
    BY <1>1, <2>1 DEF TargetInv, MismatchPairsArePending, Pending, StepPending, StepComparison
  <2>5. SwTypeOK' /\ CpuTypeOK' /\ TargetTypeOK' /\ NoSlotPanic'
    BY <1>1, <2>1, <2>2
    DEF TargetInv, TypeOK, SwTypeOK, CpuTypeOK, TargetTypeOK, StepTypeOK, NoSlotPanic, sw
  <2>6. LockedOutsideMonitor' /\ MonitorConsistent'
    BY <2>1 DEF LockedOutsideMonitor, MonitorConsistent, InMonitor
  <2>7. SchedulerBalanced' /\ StackConsistent'
    BY <2>1 DEF SchedulerBalanced, StackConsistent, Ended
  <2> QED
    BY <2>3, <2>4, <2>5, <2>6, <2>7 DEF TargetInv, TypeOK
<1> QED
  BY <1>5, <1>6

-----------------------------------------------------------------------------
(***************************************************************************)
(* Every step of the target keeps the invariant.                           *)
(***************************************************************************)
LEMMA NextPreserves == TargetInv /\ [Next]_vars => TargetInv'
<1> SUFFICES ASSUME TargetInv, [Next]_vars PROVE TargetInv'
  OBVIOUS
<1>1. CASE Program
  BY <1>1, ProgramPreserves
<1>2. CASE \E t \in Tasks : Switch(t)
  BY <1>2, SwitchPreserves
<1>3. CASE request_interrupt
  BY <1>3, RequestInterruptPreserves
<1>4. CASE enter_breakpoint
  BY <1>4, EnterPreserves
<1>5. CASE Requests
  <2>1. ASSUME NEW addr \in HwRequests, NEW kind \in ArmBreakpointKind,
               add_hw_breakpoint(addr, kind) \/ remove_hw_breakpoint(addr, kind)
        PROVE  TargetInv'
    BY <2>1, AddHwPreserves, RemoveHwPreserves
  <2>2. ASSUME NEW addr \in SwRequests, add_sw_breakpoint(addr) \/ remove_user_breakpoint(addr)
        PROVE  TargetInv'
    BY <2>2, SwPreserves
  <2>3. ASSUME NEW c \in WrittenContexts, write_registers(c) PROVE TargetInv'
    BY <2>3, WriteRegistersPreserves
  <2>4. ASSUME NEW exiting \in BOOLEAN, before_exit(exiting) PROVE TargetInv'
    BY <2>4, BeforeExitPreserves
  <2>5. ASSUME NEW t \in Tasks, step(t) PROVE TargetInv'
    BY <2>5, StepPreserves
  <2> QED
    BY <1>5, <2>1, <2>2, <2>3, <2>4, <2>5, ResumePreserves DEF Requests
<1>6. CASE leave_breakpoint
  BY <1>6, LeavePreserves
<1>7. CASE UNCHANGED vars
  <2>1. /\ Untouched
        /\ UNCHANGED <<phase, task, state, at, irqs, stack, spsr, moe, suspended, returned, panic>>
    BY <1>7 DEF vars, cpu, tasks, abort, Untouched
  <2>2. CpuTypeOK' /\ NoSlotPanic'
    BY <2>1 DEF TargetInv, TypeOK, CpuTypeOK, NoSlotPanic, Untouched
  <2>3. LockedOutsideMonitor' /\ MonitorConsistent'
    BY <2>1, UntouchedKeeps
    DEF TargetInv, LockedOutsideMonitor, MonitorConsistent, InMonitor, Untouched, hw, target
  <2>4. SchedulerBalanced' /\ StackConsistent'
    BY <2>1, UntouchedKeeps, SchedulerUntouched DEF Resuming, HoldsScheduler, Ended
  <2> QED
    BY <2>1, <2>2, <2>3, <2>4, UntouchedKeeps DEF TargetInv, TypeOK
<1> QED
  BY <1>1, <1>2, <1>3, <1>4, <1>5, <1>6, <1>7 DEF Next, Stopped

(***************************************************************************)
(* TargetInv holds in every state the target can reach.                    *)
(***************************************************************************)
THEOREM TargetInvHolds == Spec => []TargetInv
  BY InitEstablishes, NextPreserves, PTL DEF Spec

(***************************************************************************)
(* Every variable of the target keeps to its type: the counter of the      *)
(* scheduler's suspensions never goes below zero, and no step is pending   *)
(* at an address its pair could not have been armed for.                   *)
(***************************************************************************)
THEOREM TypeCorrect == Spec => []TypeOK
<1>1. TargetInv => TypeOK
  BY DEF TargetInv
<1> QED
  BY <1>1, TargetInvHolds, PTL

(***************************************************************************)
(* The Mismatch pairs are exactly those of the step or the interrupt that  *)
(* is pending (request_interrupt, finalize_single_step,                    *)
(* finalize_interrupt), with any number of breakpoint registers.           *)
(***************************************************************************)
THEOREM MismatchPairsAreExact == Spec => []MismatchPairsArePending
<1>1. TargetInv => MismatchPairsArePending
  BY DEF TargetInv
<1> QED
  BY <1>1, TargetInvHolds, PTL

(***************************************************************************)
(* add_hw_breakpoint's reserve: a pair is always left for the debugger.    *)
(***************************************************************************)
THEOREM PairStaysReserved == Spec => []OnePairReserved
<1>1. TargetInv => OnePairReserved
  BY DEF TargetInv
<1> QED
  BY <1>1, TargetInvHolds, PTL

(***************************************************************************)
(* Neither request_interrupt nor request_single_step panics for want of a  *)
(* pair, or because the pair it arms is armed already.                     *)
(***************************************************************************)
THEOREM ArmingNeverPanics == Spec => []NoSlotPanic
<1>1. TargetInv => NoSlotPanic
  BY DEF TargetInv
<1> QED
  BY <1>1, TargetInvHolds, PTL

(***************************************************************************)
(* The scheduler's suspensions balance (enter_breakpoint,                  *)
(* leave_breakpoint and catch_debug_event).                                *)
(***************************************************************************)
THEOREM SchedulerStaysBalanced == Spec => []SchedulerBalanced
<1>1. TargetInv => SchedulerBalanced
  BY DEF TargetInv
<1> QED
  BY <1>1, TargetInvHolds, PTL

(***************************************************************************)
(* The breakpoint registers are unlocked in the monitor and nowhere else   *)
(* (enter_breakpoint, leave_breakpoint).                                   *)
(***************************************************************************)
THEOREM LockedElsewhere == Spec => []LockedOutsideMonitor
<1>1. TargetInv => LockedOutsideMonitor
  BY DEF TargetInv
<1> QED
  BY <1>1, TargetInvHolds, PTL

-----------------------------------------------------------------------------
(***************************************************************************)
(* The scheduler switches to no other task while a step is pending: it is  *)
(* suspended then.                                                         *)
(***************************************************************************)
THEOREM StepsStayOnTask == Spec => StepStaysOnTask
<1>1. TargetInv /\ [Next]_vars => [StepPending => task' = task]_vars
  <2> SUFFICES ASSUME TargetInv, [Next]_vars, StepPending PROVE task' = task
    OBVIOUS
  <2>1. phase = "program" => suspended >= 1 /\ (Resuming => suspended >= 2)
    BY BalanceOfInvariant DEF Owed, HoldsScheduler, Ended
  <2>2. ASSUME NEW t \in Tasks, Switch(t) \/ ResumeScheduler(t) PROVE task' = task
    BY <2>1, <2>2, BalanceOfInvariant DEF Switch, ResumeScheduler, RunsNext, Resuming
  <2>3. CASE Program
    BY <2>2, <2>3 DEF Program, Execute, Fault, TakeDebugEvent, OverflowStack, Restore,
                      LeaveSystemMode, ReturnFromException, tasks
  <2>4. CASE request_interrupt \/ enter_breakpoint \/ leave_breakpoint
    BY <2>4 DEF request_interrupt, enter_breakpoint, leave_breakpoint, tasks
  <2>5. CASE Requests
    BY <2>5 DEF Requests, add_hw_breakpoint, remove_hw_breakpoint, add_sw_breakpoint,
                remove_user_breakpoint, remove_sw_breakpoint, write_registers, before_exit,
                resume, step, cpu, tasks
  <2>6. CASE UNCHANGED vars
    BY <2>6 DEF vars, cpu, tasks
  <2> QED
    BY <2>2, <2>3, <2>4, <2>5, <2>6 DEF Next, Stopped
<1> QED
  BY <1>1, TargetInvHolds, PTL DEF Spec, StepStaysOnTask

(***************************************************************************)
(* The pair of a pending interrupt fires on every instruction there is.    *)
(***************************************************************************)
LEMMA SentinelFires ==
  ASSUME TargetInv, interrupt_pending, NEW pc \in CodeAddrs
  PROVE  AnyFires(regs, pc)
<1>1. Holding(regs, "Mismatch") = {SentinelComparison}
  BY DEF TargetInv, MismatchPairsArePending, Pending
<1>2. PICK idx \in Slots : regs[idx] = SentinelComparison
  BY <1>1 DEF Holding, SlotsOf
<1>3. /\ SentinelComparison.type = "Mismatch"
      /\ SentinelComparison.word = Word(Sentinel)
  BY DEF SentinelComparison, Comparison, BreakpointControl
<1>4. Word(Sentinel) = Sentinel /\ Word(pc) # Sentinel
  BY TargetAssumption DEF Word, AlignedFor
<1>5. Fires(regs[idx], pc)
  BY <1>2, <1>3, <1>4 DEF Fires, Covers
<1> QED
  BY <1>5 DEF AnyFires

(***************************************************************************)
(* Only the processor executes an instruction, the program's or one of     *)
(* xTaskResumeAll, and only where no breakpoint stops it: GDB's requests   *)
(* are made in the monitor, and the overlay returns from Abort mode.       *)
(***************************************************************************)
LEMMA ExecutesRunsNext ==
  ASSUME [Next]_vars, Executes
  PROVE  RunsNext
<1>1. phase = "program" /\ (state' # state \/ at' # at \/ phase' \in {"exited", "leaving"})
  BY DEF Executes
<1> USE DEF tasks
<1>2. CASE Program
  BY <1>1, <1>2 DEF Program, Execute, Fault, TakeDebugEvent, OverflowStack, Restore,
                    ResumeScheduler, LeaveSystemMode, ReturnFromException
<1>3. CASE \E t \in Tasks : Switch(t)
  BY <1>1, <1>3 DEF Switch
<1>4. CASE request_interrupt
  BY <1>1, <1>4 DEF request_interrupt
<1>5. CASE enter_breakpoint \/ leave_breakpoint
  BY <1>1, <1>5 DEF enter_breakpoint, leave_breakpoint
<1>6. CASE Requests
  <2>1. InMonitor
    BY <1>6 DEF Requests, add_hw_breakpoint, remove_hw_breakpoint, add_sw_breakpoint,
                remove_user_breakpoint, write_registers, before_exit, resume, step
  <2> QED
    BY <1>1, <2>1 DEF InMonitor
<1>7. CASE UNCHANGED vars
  BY <1>1, <1>7 DEF vars, cpu
<1> QED
  BY <1>2, <1>3, <1>4, <1>5, <1>6, <1>7 DEF Next, Stopped

(***************************************************************************)
(* While an interrupt is pending nothing is executed, at whatever address  *)
(* and in whatever state the interrupt caught the program or the overlay.  *)
(***************************************************************************)
THEOREM InterruptsStopAtOnce == Spec => InterruptStopsAtOnce
<1>1. TargetInv /\ [Next]_vars => [Executes => ~interrupt_pending]_vars
  <2> SUFFICES ASSUME TargetInv, [Next]_vars, Executes, interrupt_pending PROVE FALSE
    OBVIOUS
  <2>1. RunsNext
    BY ExecutesRunsNext
  <2>2. Running.pc \in CodeAddrs => BreakpointFires
    BY SentinelFires DEF BreakpointFires
  <2> QED
    BY <2>1, <2>2 DEF RunsNext, IsCode
<1> QED
  BY <1>1, TargetInvHolds, PTL DEF Spec, InterruptStopsAtOnce

-----------------------------------------------------------------------------
(***************************************************************************)
(* The software breakpoints: whatever the target does to them is one call  *)
(* on the table, for an address of the program, and keeps every patch in   *)
(* memory one of the table's.                                              *)
(***************************************************************************)
TablePatched == TableOK(breaks, breaks_paused, mem, ProgramText)

LEMMA InitPatched == Init => TablePatched
<1> SUFFICES ASSUME Init PROVE TablePatched
  OBVIOUS
<1>1. /\ \A s \in SwSlots : NoBreaks[s] = NO_BREAK
      /\ NoBreaks \in Tables /\ ProgramText \in Code /\ ExitAddr \in CodeAddrs
  BY TargetAssumption DEF NoBreaks, Tables, Code
<1>2. Tracked(NoBreaks) = {}
  BY <1>1, NoBreakTracksNothing DEF Tracked, SlotsAt
<1>3. TableOK(NoBreaks, FALSE, ProgramText, ProgramText)
  BY <1>1, <1>2 DEF TableOK
<1> QED
  BY <1>1, <1>3, RegisterKeepsTable DEF Init, TablePatched

LEMMA NextPatches == TablePatched /\ [Next]_vars => TablePatched'
<1> SUFFICES ASSUME TablePatched, [Next]_vars PROVE TablePatched'
  OBVIOUS
<1> USE DEF TablePatched
<1>1. CASE UNCHANGED <<breaks, breaks_paused, mem>>
  BY <1>1
<1>2. CASE enter_breakpoint
  BY <1>2, IgnoredKeepsTable DEF enter_breakpoint
<1>3. CASE leave_breakpoint
  BY <1>3, IgnoredKeepsTable DEF leave_breakpoint
<1>4. ASSUME NEW addr \in SwRequests, add_sw_breakpoint(addr) PROVE TablePatched'
  <2>1. addr \in CodeAddrs
    BY TargetAssumption
  <2> QED
    BY <1>4, <2>1, RegisterKeepsTable DEF add_sw_breakpoint
<1>5. ASSUME NEW addr \in CodeAddrs, NEW internal \in BOOLEAN,
             remove_sw_breakpoint(addr, internal)
      PROVE  TablePatched'
  BY <1>5, RemoveKeepsTable DEF remove_sw_breakpoint
<1>6. CASE Requests
  <2>1. ASSUME NEW addr \in SwRequests, remove_user_breakpoint(addr) PROVE TablePatched'
    BY <1>5, <2>1, TargetAssumption DEF remove_user_breakpoint
  <2>2. ASSUME NEW exiting \in BOOLEAN, before_exit(exiting) PROVE TablePatched'
    BY <1>5, <2>2, TargetAssumption DEF before_exit
  <2>3. ASSUME NEW addr \in HwRequests, NEW kind \in ArmBreakpointKind,
               add_hw_breakpoint(addr, kind) \/ remove_hw_breakpoint(addr, kind)
        PROVE  TablePatched'
    BY <1>1, <2>3 DEF add_hw_breakpoint, remove_hw_breakpoint, cpu, sw
  <2>4. ASSUME NEW c \in WrittenContexts, write_registers(c) PROVE TablePatched'
    BY <1>1, <2>4 DEF write_registers, cpu, sw
  <2>5. CASE resume
    BY <1>1, <2>5 DEF resume, cpu, sw
  <2>6. ASSUME NEW t \in Tasks, step(t) PROVE TablePatched'
    BY <1>1, <2>6 DEF step, sw
  <2> QED
    BY <1>4, <1>6, <2>1, <2>2, <2>3, <2>4, <2>5, <2>6 DEF Requests
<1>7. CASE Program \/ request_interrupt \/ UNCHANGED vars \/ \E t \in Tasks : Switch(t)
  BY <1>1, <1>7 DEF Program, Execute, Fault, TakeDebugEvent, OverflowStack, Restore,
                    ResumeScheduler, LeaveSystemMode, ReturnFromException,
                    request_interrupt, Switch, vars, cpu, sw
<1> QED
  BY <1>2, <1>3, <1>6, <1>7 DEF Next, Stopped

(***************************************************************************)
(* In the monitor memory is the program's own; outside it every tracked    *)
(* breakpoint is armed and nothing else has changed                        *)
(* (enter_breakpoint, leave_breakpoint, GDB's Z0 and z0, and the exit      *)
(* handler), for any program and any table.                                *)
(***************************************************************************)
THEOREM BreakpointsStayArmed == Spec => []BreakpointsArmed
<1>1. TablePatched => BreakpointsArmed
  <2> SUFFICES ASSUME TablePatched PROVE BreakpointsArmed
    OBVIOUS
  <2>1. \A a \in CodeAddrs : a \in Tracked(breaks) <=> SlotsAt(breaks, a) # {}
    BY DEF Tracked
  <2>2. \A a \in CodeAddrs : mem[a] = IF ~breaks_paused /\ SlotsAt(breaks, a) # {}
                                     THEN "bkpt" ELSE ProgramText[a]
    BY <2>1 DEF TablePatched, TableOK
  <2>3. mem = [a \in CodeAddrs |-> mem[a]]
    BY DEF TablePatched, TableOK, Code
  <2> QED
    BY <2>2, <2>3 DEF BreakpointsArmed
<1> QED
  BY <1>1, InitPatched, NextPatches, PTL DEF Spec

(***************************************************************************)
(* What a bkpt has stopped is at it.                                       *)
(***************************************************************************)
TrappedAtBkpt ==
  phase = "trapped" /\ moe = "BkptInstr" => IsCode(Running) /\ mem[Running.pc] = "bkpt"

LEMMA NextTraps == TrappedAtBkpt /\ [Next]_vars => TrappedAtBkpt'
<1> SUFFICES ASSUME [Next]_vars, TrappedAtBkpt, phase' = "trapped", moe' = "BkptInstr"
             PROVE  IsCode(Running)' /\ (mem[Running.pc] = "bkpt")'
  BY DEF TrappedAtBkpt
<1> USE DEF tasks
<1>1. CASE TakeDebugEvent
  <2>1. IsCode(Running) /\ mem[Running.pc] = "bkpt" /\ UNCHANGED <<task, state, mem>>
    BY <1>1 DEF TakeDebugEvent, DebugEvent
  <2> QED
    BY <2>1 DEF Running, IsCode
<1>2. CASE UNCHANGED vars
  <2>1. UNCHANGED <<phase, moe, task, state, mem>>
    BY <1>2 DEF vars, cpu
  <2> QED
    BY <2>1 DEF TrappedAtBkpt, Running, IsCode
<1>3. CASE Program /\ ~TakeDebugEvent
  BY <1>3 DEF Program, Execute, RunsNext, Fault, OverflowStack, Restore, ResumeScheduler,
              LeaveSystemMode, ReturnFromException
<1>4. CASE (\E t \in Tasks : Switch(t)) \/ request_interrupt
  BY <1>4 DEF Switch, request_interrupt, SessionFree
<1>5. CASE enter_breakpoint \/ leave_breakpoint
  BY <1>5 DEF enter_breakpoint, leave_breakpoint
<1>6. CASE Requests
  BY <1>6 DEF Requests, add_hw_breakpoint, remove_hw_breakpoint, add_sw_breakpoint,
              remove_user_breakpoint, write_registers, before_exit, resume, step,
              request_single_step, InMonitor, cpu
<1> QED
  BY <1>1, <1>2, <1>3, <1>4, <1>5, <1>6 DEF Next, Stopped

(***************************************************************************)
(* The debugger skips no instruction of the program: it takes no           *)
(* breakpoint of its own for a bkpt of the program's (classify_stop,       *)
(* fixup_manual_bkpt), whatever has been set and removed before.           *)
(***************************************************************************)
THEOREM SkipsNothingElse == Spec => SkipsOnlyOwnBkpt
<1>1. BreakpointsArmed /\ TrappedAtBkpt /\ [Next]_vars
        => [phase = "trapped" /\ phase' = "monitor" /\ exception_ctx' # Running
              => ProgramText[Running.pc] = "bkpt"]_vars
  <2> SUFFICES ASSUME BreakpointsArmed, TrappedAtBkpt, [Next]_vars,
                      phase = "trapped", phase' = "monitor", exception_ctx' # Running
               PROVE  ProgramText[Running.pc] = "bkpt"
    OBVIOUS
  <2>1. enter_breakpoint
    BY DEF Next, Stopped, Program, Execute, RunsNext, Fault, TakeDebugEvent, DebugEvent,
           OverflowStack, Restore, ResumeScheduler, LeaveSystemMode, ReturnFromException,
           Switch, request_interrupt, SessionFree, leave_breakpoint, Requests,
           add_hw_breakpoint, remove_hw_breakpoint, add_sw_breakpoint, remove_user_breakpoint,
           write_registers, before_exit, resume, step, InMonitor, vars, cpu
  <2>2. StopReasonNow = "UntrackedSoftwareBreak"
    BY <2>1 DEF enter_breakpoint, Fixup
  <2>3. moe = "BkptInstr" /\ SlotsAt(breaks, Running.pc) = {}
    BY <2>2 DEF StopReasonNow
  <2>4. Running.pc \in CodeAddrs /\ mem[Running.pc] = "bkpt"
    BY <2>3 DEF TrappedAtBkpt, IsCode
  <2> QED
    BY <2>3, <2>4 DEF BreakpointsArmed
<1>2. Init => TrappedAtBkpt
  BY DEF Init, TrappedAtBkpt
<1> QED
  BY <1>1, <1>2, NextTraps, BreakpointsStayArmed, PTL DEF Spec, SkipsOnlyOwnBkpt

-----------------------------------------------------------------------------
(***************************************************************************)
(* What a pending step covers is kept by every step: only GDB's s makes    *)
(* one pending, at the context the program is stopped with, and while one  *)
(* is pending only the program's own execution changes that context.       *)
(***************************************************************************)
LEMMA InitCovers == Init => StepCoversNoThumb
  BY DEF Init, StepCoversNoThumb, StepPending

(***************************************************************************)
(* Where an instruction is executed, the program is at one.                *)
(***************************************************************************)
LEMMA ExecuteCovers ==
  ASSUME StepCoversNoThumb, RunsNext, single_step_request' = single_step_request
  PROVE  StepCoversNoThumb'
<1> SUFFICES ASSUME StepPending, single_step_request.kind = "Arm32",
                    single_step_request.target_addr \notin CodeAddrs \ ThumbAddrs
             PROVE  FALSE
  BY DEF StepCoversNoThumb, StepPending
<1>1. phase = "program" /\ IsCode(Running)
  BY DEF RunsNext
<1>2. Running = [pc |-> single_step_request.target_addr, thumb |-> FALSE]
  BY <1>1 DEF StepCoversNoThumb, StoppedContext, Ended
<1>3. Running.pc \in CodeAddrs /\ Running.thumb = (Running.pc \in ThumbAddrs)
  BY <1>1 DEF IsCode, CodeContext
<1>4. Running.pc = single_step_request.target_addr /\ Running.thumb = FALSE
  BY <1>2
<1> QED
  BY <1>3, <1>4

(***************************************************************************)
(* Where neither the step nor the context changes, nothing changes.        *)
(***************************************************************************)
LEMMA ContextCovers ==
  ASSUME StepCoversNoThumb,
         ~Ended' => ~Ended /\ UNCHANGED <<single_step_request, StoppedContext>>
  PROVE  StepCoversNoThumb'
  BY DEF StepCoversNoThumb, StepPending

LEMMA StepCovers ==
  ASSUME TargetInv, StepCoversNoThumb, NEW t \in Tasks, step(t)
  PROVE  StepCoversNoThumb'
<1>1. InMonitor /\ phase = "monitor" /\ ~StepPending /\ UNCHANGED exception_ctx
  BY DEF step, InMonitor, TargetInv, MonitorConsistent
<1>2. CASE single_step_request' = single_step_request
  BY <1>1, <1>2 DEF StepCoversNoThumb, StepPending
<1>3. CASE single_step_request' # single_step_request
  <2>1. /\ single_step_request' = StepRequest(exception_ctx.pc, StepKind)
        /\ phase' = "monitor"
    BY <1>1, <1>3 DEF step, request_single_step
  <2>2. /\ single_step_request'.target_addr = exception_ctx.pc
        /\ single_step_request'.kind = StepKind
    BY <2>1 DEF StepRequest
  <2>3. exception_ctx \in Context
    BY DEF TargetInv, TypeOK, TargetTypeOK
  <2>4. ASSUME StepKind = "Arm32"
        PROVE  StoppedContext' = [pc |-> exception_ctx.pc, thumb |-> FALSE]
    <3>1. exception_ctx.thumb = FALSE
      BY <2>3, <2>4 DEF StepKind, Context
    <3>2. exception_ctx = [pc |-> exception_ctx.pc, thumb |-> exception_ctx.thumb]
      BY <2>3 DEF Context
    <3> QED
      BY <1>1, <2>1, <3>1, <3>2 DEF StoppedContext
  <2> QED
    BY <2>2, <2>4 DEF StepCoversNoThumb
<1> QED
  BY <1>2, <1>3

(***************************************************************************)
(* On the way back into the program the context is on the stack, and then  *)
(* partly in SPSR_abt.                                                     *)
(***************************************************************************)
LEMMA ProgramCovers ==
  ASSUME TargetInv, StepCoversNoThumb, Program
  PROVE  StepCoversNoThumb'
<1>1. Untouched /\ single_step_request' = single_step_request /\ StepPending' = StepPending
  BY ProgramTyped, UntouchedKeeps DEF Untouched, target
<1>2. task \in Tasks /\ state \in [Tasks -> Context] /\ stack \in Seq(Frame)
  BY BalanceOfInvariant
<1> USE DEF tasks, abort
<1>3. CASE Execute \/ LeaveSystemMode \/ \E t \in Tasks : ResumeScheduler(t)
  BY <1>1, <1>3, ExecuteCovers DEF Execute, LeaveSystemMode, ResumeScheduler
<1>4. CASE Fault \/ OverflowStack
  BY <1>4, ContextCovers DEF Fault, OverflowStack, Ended
<1>5. CASE TakeDebugEvent
  <2>1. phase = "program" /\ phase' = "trapped" /\ UNCHANGED <<task, state>>
    BY <1>5 DEF TakeDebugEvent, DebugEvent
  <2> QED
    BY <1>1, <2>1, ContextCovers DEF StoppedContext, Running, Ended
<1>6. CASE Restore
  <2>1. phase = "returning" /\ stack' = stack /\ spsr'.thumb = Top(stack).ctx.thumb
    BY <1>6 DEF Restore, Status
  <2>2. CASE returned
    <3>1. ~StepPending'
      BY <1>1, <2>1, <2>2 DEF TargetInv, MonitorConsistent
    <3> QED
      BY <3>1 DEF StepCoversNoThumb
  <2>3. CASE ~returned
    <3>1. phase' = "leaving"
      BY <1>6, <2>3 DEF Restore
    <3>2. Top(stack).ctx \in Context
      <4>1. stack # <<>>
        BY <2>1, BalanceOfInvariant DEF StackConsistent, Ended
      <4> QED
        BY <1>2, <4>1, UnresumedPop DEF Frame
    <3>3. StoppedContext = Top(stack).ctx
      BY <2>1 DEF StoppedContext
    <3>4. StoppedContext' = [pc |-> Top(stack).ctx.pc, thumb |-> Top(stack).ctx.thumb]
      BY <2>1, <3>1 DEF StoppedContext, ReturnContext
    <3>5. StoppedContext' = StoppedContext
      BY <3>2, <3>3, <3>4 DEF Context
    <3> QED
      BY <1>1, <2>1, <3>5, ContextCovers DEF Ended
  <2> QED
    BY <2>2, <2>3
<1>7. CASE ReturnFromException
  <2>1. CASE OwnContext
    <3>1. /\ phase = "leaving" /\ phase' = "program" /\ task' = task
          /\ state' = [state EXCEPT ![task] = ReturnContext]
      BY <1>7, <2>1 DEF ReturnFromException
    <3>2. StoppedContext = ReturnContext /\ StoppedContext' = ReturnContext
      BY <1>2, <3>1 DEF StoppedContext, Running
    <3> QED
      BY <1>1, <3>1, <3>2, ContextCovers DEF Ended
  <2>2. CASE ~OwnContext
    BY <1>7, <2>2, ContextCovers DEF ReturnFromException, Ended
  <2> QED
    BY <2>1, <2>2
<1> QED
  BY <1>3, <1>4, <1>5, <1>6, <1>7 DEF Program

LEMMA NextCovers == TargetInv /\ StepCoversNoThumb /\ [Next]_vars => StepCoversNoThumb'
<1> SUFFICES ASSUME TargetInv, StepCoversNoThumb, [Next]_vars PROVE StepCoversNoThumb'
  OBVIOUS
<1>1. CASE Program
  BY <1>1, ProgramCovers
<1>2. ASSUME NEW t \in Tasks, Switch(t) PROVE StepCoversNoThumb'
  <2>1. ~StepPending
    BY <1>2, BalanceOfInvariant DEF Switch, Owed, HoldsScheduler, Ended
  <2>2. single_step_request' = single_step_request
    BY <1>2 DEF Switch, target
  <2> QED
    BY <2>1, <2>2 DEF StepCoversNoThumb, StepPending
<1>3. CASE request_interrupt
  <2>1. /\ UNCHANGED <<task, state, stack, spsr, single_step_request>>
        /\ phase \in {"program", "returning", "leaving"} /\ (phase' = phase \/ phase' = "panicked")
    BY <1>3 DEF request_interrupt, SessionFree, tasks, abort
  <2> QED
    BY <2>1, ContextCovers DEF StoppedContext, ReturnContext, Running, Ended
<1>4. CASE enter_breakpoint
  <2>1. ~StepPending'
    BY <1>4 DEF enter_breakpoint, StepPending
  <2> QED
    BY <2>1 DEF StepCoversNoThumb
<1>5. CASE leave_breakpoint
  <2>1. /\ phase = "monitor" /\ phase' = "returning"
        /\ stack' = [stack EXCEPT ![Len(stack)].ctx = exception_ctx]
        /\ UNCHANGED single_step_request
    BY <1>5 DEF leave_breakpoint, target
  <2>2. stack \in Seq(Frame) /\ stack # <<>> /\ exception_ctx \in Context
    BY <2>1, BalanceOfInvariant, TypesOfInvariant DEF StackConsistent, Ended
  <2>3. Top(stack').ctx = exception_ctx
    <3>1. PICK new : new = [stack EXCEPT ![Len(stack)].ctx = exception_ctx]
      OBVIOUS
    <3>2. \A w \in Seq(Frame), c \in Context :
            w # <<>> /\ new = [w EXCEPT ![Len(w)].ctx = c] => Top(new).ctx = c
      BY UnresumedWrite
    <3>3. Top(new).ctx = exception_ctx
      BY <2>2, <3>1, <3>2
    <3> QED
      BY <2>1, <3>1, <3>3
  <2> QED
    BY <2>1, <2>3, ContextCovers DEF StoppedContext, Ended
<1>6. CASE Requests
  <2>1. ASSUME InMonitor, single_step_request' = single_step_request
        PROVE  StepCoversNoThumb'
    BY <2>1 DEF InMonitor, StepCoversNoThumb, StepPending, TargetInv, MonitorConsistent
  <2>2. ASSUME NEW addr \in HwRequests, NEW kind \in ArmBreakpointKind,
               add_hw_breakpoint(addr, kind) \/ remove_hw_breakpoint(addr, kind)
        PROVE  StepCoversNoThumb'
    BY <2>1, <2>2 DEF add_hw_breakpoint, remove_hw_breakpoint, target
  <2>3. ASSUME NEW addr \in SwRequests, add_sw_breakpoint(addr) \/ remove_user_breakpoint(addr)
        PROVE  StepCoversNoThumb'
    BY <2>1, <2>3 DEF add_sw_breakpoint, remove_user_breakpoint, target
  <2>4. ASSUME NEW c \in WrittenContexts, write_registers(c) PROVE StepCoversNoThumb'
    BY <2>1, <2>4 DEF write_registers
  <2>5. ASSUME NEW exiting \in BOOLEAN, before_exit(exiting) PROVE StepCoversNoThumb'
    BY <2>1, <2>5 DEF before_exit
  <2>6. CASE resume
    BY <2>1, <2>6 DEF resume
  <2> QED
    BY <1>6, <2>2, <2>3, <2>4, <2>5, <2>6, StepCovers DEF Requests
<1>7. CASE UNCHANGED vars
  <2>1. UNCHANGED <<phase, task, state, stack, spsr, exception_ctx, single_step_request>>
    BY <1>7 DEF vars, cpu, tasks, abort, target
  <2> QED
    BY <2>1, ContextCovers DEF StoppedContext, ReturnContext, Running, Ended
<1> QED
  BY <1>1, <1>2, <1>3, <1>4, <1>5, <1>6, <1>7 DEF Next, Stopped

(***************************************************************************)
(* An address is its word and its place in it.                             *)
(***************************************************************************)
LEMMA WordAndPlace ==
  ASSUME NEW a \in Nat, NEW b \in Nat, Word(a) = Word(b), a % 4 = b % 4
  PROVE  a = b
  BY DEF Word

(***************************************************************************)
(* The only instruction that the pair of a pending step lets through is    *)
(* the one the step was asked for at: a Thumb step's pair covers the two   *)
(* bytes of its target, an ARM step's a word, in which there is no other.  *)
(***************************************************************************)
LEMMA OnlyTargetPasses ==
  ASSUME TargetInv, StepCoversNoThumb, phase = "program", StepPending, ~interrupt_pending,
         IsCode(Running), ~BreakpointFires
  PROVE  Running.pc = single_step_request.target_addr
<1> DEFINE pc == Running.pc
           t == single_step_request.target_addr
           kind == single_step_request.kind
<1>1. Holding(regs, "Mismatch") = {StepComparison}
  BY DEF TargetInv, MismatchPairsArePending, Pending
<1>2. PICK idx \in Slots : regs[idx] = StepComparison
  BY <1>1 DEF Holding, SlotsOf
<1>3. /\ StepComparison.type = "Mismatch"
      /\ StepComparison.word = Word(t)
      /\ StepComparison.bas = ByteAddressSelect(t, kind)
  BY DEF StepComparison, Comparison, BreakpointControl
<1>4. Word(t) = Word(pc) /\ (pc % 4) \in ByteAddressSelect(t, kind)
  BY <1>2, <1>3 DEF BreakpointFires, AnyFires, Fires, Covers
<1>5. t \in Nat /\ kind \in {"Thumb16", "Arm32"} /\ AlignedFor(t, kind)
  BY DEF TargetInv, TypeOK, TargetTypeOK, StepTypeOK, StepPending
<1>6. pc \in CodeAddrs /\ Running.thumb = (pc \in ThumbAddrs)
  BY DEF IsCode, CodeContext
<1>7. pc \in Nat /\ AlignedFor(pc, IF pc \in ThumbAddrs THEN "Thumb16" ELSE "Arm32")
  BY <1>6, SwAssumption, TargetAssumption
<1>8. pc % 2 = 0
  BY <1>7 DEF AlignedFor
<1>9. CASE kind = "Thumb16"
  <2>1. t % 2 = 0 /\ (pc % 4 = t % 4 \/ pc % 4 = (t % 4) + 1)
    BY <1>4, <1>5, <1>9 DEF AlignedFor, ByteAddressSelect
  <2>2. pc % 4 \in {0, 2} /\ t % 4 \in {0, 2}
    BY <1>5, <1>7, <1>8, <2>1
  <2>3. pc % 4 = t % 4
    BY <2>1, <2>2
  <2> QED
    BY <1>4, <1>5, <1>7, <2>3, WordAndPlace, Zenon
<1>10. CASE kind = "Arm32"
  <2>1. t % 4 = 0
    BY <1>5, <1>10 DEF AlignedFor
  <2>2. ASSUME pc \notin ThumbAddrs PROVE pc = t
    <3>1. pc % 4 = 0
      BY <1>7, <2>2 DEF AlignedFor
    <3> QED
      BY <1>4, <1>5, <1>7, <2>1, <3>1, WordAndPlace, Zenon
  <2>3. CASE t \in CodeAddrs \ ThumbAddrs
    <3>1. pc \notin ThumbAddrs
      BY <1>4, <2>3, TargetAssumption
    <3> QED
      BY <2>2, <3>1
  <2>4. CASE StoppedContext = [pc |-> t, thumb |-> FALSE]
    BY <2>4 DEF StoppedContext
  <2> QED
    BY <1>10, <2>3, <2>4 DEF StepCoversNoThumb, Ended
<1> QED
  BY <1>5, <1>9, <1>10


(***************************************************************************)
(* While a single step is pending no instruction but the one stepped over  *)
(* is executed (request_single_step), whatever the program's code and      *)
(* whatever GDB has written to the registers before.                       *)
(***************************************************************************)
THEOREM StepsExecuteOneInstruction == Spec => StepExecutesOneInstruction
<1>1. TargetInv /\ StepCoversNoThumb /\ [Next]_vars
        => [Executes /\ StepPending => Running.pc = single_step_request.target_addr]_vars
  <2> SUFFICES ASSUME TargetInv, StepCoversNoThumb, [Next]_vars, Executes, StepPending
               PROVE  Running.pc = single_step_request.target_addr
    OBVIOUS
  <2>1. RunsNext
    BY ExecutesRunsNext
  <2>2. phase = "program" /\ IsCode(Running) /\ ~BreakpointFires
    BY <2>1 DEF RunsNext
  <2>3. ~interrupt_pending
    BY <2>2, SentinelFires DEF BreakpointFires, IsCode
  <2> QED
    BY <2>2, <2>3, OnlyTargetPasses
<1> QED
  BY <1>1, TargetInvHolds, InitCovers, NextCovers, PTL DEF Spec, StepExecutesOneInstruction

-----------------------------------------------------------------------------
(***************************************************************************)
(* The session, for any program, any requests and any number of unread     *)
(* packets: it and GDB never disagree on whether the program is stopped.   *)
(***************************************************************************)

(***************************************************************************)
(* The packets, told apart by their commands.                              *)
(***************************************************************************)
LEMMA PacketKinds ==
  /\ \A p \in Questions : p.cmd \in {"Z1", "z1", "Z0", "z0", "G"}
  /\ \A p \in Resumes : p.cmd \in {"c", "s"}
  /\ CtrlC.cmd = "CtrlC" /\ Hello.cmd = "?" /\ Detach.cmd = "D"
  BY DEF Questions, Resumes, Packet, CtrlC, Hello, Detach, Continue, Step

(***************************************************************************)
(* What a question asks is in the sets requests are taken from.            *)
(***************************************************************************)
LEMMA QuestionArguments ==
  ASSUME NEW p \in Packets
  PROVE  /\ p.cmd \in {"Z1", "z1"} => p.arg[1] \in HwRequests /\ p.arg[2] \in ArmBreakpointKind
         /\ p.cmd \in {"Z0", "z0"} => p.arg[1] \in SwRequests
         /\ p.cmd = "G" => p.arg[1] \in WrittenContexts
<1>1. CASE p \in Questions
  BY <1>1 DEF Questions, Packet
<1>2. CASE p \notin Questions
  BY <1>2, PacketKinds DEF Packets
<1> QED
  BY <1>1, <1>2

(***************************************************************************)
(* Every step of the session is a step of the target, or none of its own.  *)
(***************************************************************************)
LEMMA StopIsOfTarget == HandleStop => [Next]_vars
<1> SUFFICES ASSUME HandleStop PROVE [Next]_vars
  OBVIOUS
<1>1. before_exit(HasClient) \/ UNCHANGED vars
  BY DEF HandleStop, HandleInternal
<1>2. before_exit(HasClient) => before_exit(TRUE) \/ before_exit(FALSE)
  BY DEF before_exit
<1> QED
  BY <1>1, <1>2 DEF Next, Requests

LEMMA TickIsOfTarget == SessionTypeOK /\ Tick => [Next]_vars
<1> SUFFICES ASSUME SessionTypeOK, Tick PROVE [Next]_vars
  OBVIOUS
<1>1. CASE TickQuestion
  <2> DEFINE p == Head(rx)
  <2>1. rx \in Seq(Packets) /\ rx # <<>>
    BY <1>1 DEF SessionTypeOK, TickQuestion
  <2>2. p \in Packets
    BY <2>1, HeadTailProperties
  <2>3. \/ UNCHANGED vars
        \/ p.cmd = "Z1" /\ add_hw_breakpoint(p.arg[1], p.arg[2])
        \/ p.cmd = "z1" /\ remove_hw_breakpoint(p.arg[1], p.arg[2])
        \/ p.cmd = "Z0" /\ add_sw_breakpoint(p.arg[1])
        \/ p.cmd = "z0" /\ remove_user_breakpoint(p.arg[1])
        \/ p.cmd = "G" /\ write_registers(p.arg[1])
    BY <1>1 DEF TickQuestion
  <2> HIDE DEF p
  <2>4. Requests \/ UNCHANGED vars
    BY <2>2, <2>3, QuestionArguments DEF Requests
  <2> QED
    BY <2>4 DEF Next
<1>2. CASE TickResume
  BY <1>2 DEF TickResume, Next, Requests
<1>3. CASE TickControl \/ TickCtrlC
  BY <1>3 DEF TickControl, TickCtrlC
<1>4. CASE TickReportStop \/ TickDisconnected
  BY <1>4 DEF TickReportStop, TickDisconnected, Next, Requests
<1> QED
  BY <1>1, <1>2, <1>3, <1>4 DEF Tick

LEMMA StepIsOfTarget == SessionTypeOK /\ [SessionNext]_sessionVars => [Next]_vars
<1> SUFFICES ASSUME SessionTypeOK, [SessionNext]_sessionVars PROVE [Next]_vars
  OBVIOUS
<1>1. CASE RunProgram
  BY <1>1 DEF RunProgram, Next
<1>2. CASE HandlerEnters
  BY <1>2 DEF HandlerEnters, Next
<1>3. CASE HandleStop
  BY <1>3, StopIsOfTarget
<1>4. CASE Tick
  BY <1>4, TickIsOfTarget
<1>5. CASE HandlerLeaves
  BY <1>5 DEF HandlerLeaves, Next
<1>6. CASE Poll
  BY <1>6 DEF Poll, Next
<1>7. CASE Gdb
  BY <1>7 DEF Gdb, Connect, Ask, Resume, Interrupt, Leave, Killed
<1>8. CASE Receive
  BY <1>8 DEF Receive
<1>9. CASE UNCHANGED sessionVars
  BY <1>9 DEF sessionVars
<1> QED
  BY <1>1, <1>2, <1>3, <1>4, <1>5, <1>6, <1>7, <1>8, <1>9 DEF SessionNext

-----------------------------------------------------------------------------
(***************************************************************************)
(* What the line carries once a packet has been put on it, once its first  *)
(* has been read, and once all up to one of them have been thrown away.    *)
(***************************************************************************)
LEMMA CarriesMore ==
  ASSUME NEW s, NEW S, NEW T, S \subseteq T, Carries(s, S)
  PROVE  Carries(s, T)
  BY DEF Carries

LEMMA CarriesNothing ==
  ASSUME NEW s, NEW S
  PROVE  Carries(s, {}) <=> \A i \in DOMAIN s : s[i] = CtrlC
  BY DEF Carries

LEMMA AfterAppend ==
  ASSUME NEW s \in Seq(Packets), NEW p \in Packets, NEW S
  PROVE  /\ Append(s, p) \in Seq(Packets)
         /\ Carries(s, S) /\ p = CtrlC => Carries(Append(s, p), S)
         /\ Carries(s, {}) /\ p \in S => Carries(Append(s, p), S)
         /\ ~Carries(s, {}) \/ p # CtrlC => ~Carries(Append(s, p), {})
<1> DEFINE new == Append(s, p)
<1>1. /\ new \in Seq(Packets) /\ Len(new) = Len(s) + 1
      /\ \A i \in 1 .. Len(s) : new[i] = s[i]
      /\ new[Len(s) + 1] = p
  BY AppendProperties
<1>2. /\ Len(s) \in Nat /\ DOMAIN s = 1 .. Len(s)
      /\ DOMAIN new = 1 .. Len(s) + 1
  BY <1>1, LenProperties
<1> HIDE DEF new
<1>3. \A i \in DOMAIN new : \/ i \in DOMAIN s /\ new[i] = s[i]
                            \/ i = Len(s) + 1 /\ new[i] = p
  BY <1>1, <1>2
<1>4. DOMAIN s \subseteq DOMAIN new /\ Len(s) + 1 \in DOMAIN new
  BY <1>2
<1>5. ASSUME Carries(s, S), p = CtrlC PROVE Carries(new, S)
  BY <1>3, <1>5 DEF Carries
<1>6. ASSUME Carries(s, {}), p \in S PROVE Carries(new, S)
  BY <1>3, <1>6, CarriesNothing DEF Carries
<1>7. ASSUME ~Carries(s, {}) \/ p # CtrlC PROVE ~Carries(new, {})
  BY <1>1, <1>2, <1>4, <1>7, CarriesNothing
<1> QED
  BY <1>1, <1>5, <1>6, <1>7 DEF new

LEMMA AfterTail ==
  ASSUME NEW s \in Seq(Packets), s # <<>>, NEW S, Carries(s, S)
  PROVE  /\ Head(s) \in Packets
         /\ Tail(s) \in Seq(Packets)
         /\ Carries(Tail(s), S)
         /\ Head(s) # CtrlC => Head(s) \in S /\ Carries(Tail(s), {})
         /\ Head(s) = CtrlC /\ ~Carries(s, {}) => ~Carries(Tail(s), {})
<1> DEFINE new == Tail(s)
<1>1. /\ Head(s) \in Packets /\ new \in Seq(Packets) /\ Len(new) = Len(s) - 1
      /\ \A i \in 1 .. Len(new) : new[i] = s[i + 1]
  BY HeadTailProperties
<1>2. /\ Len(s) \in Nat \ {0} /\ DOMAIN s = 1 .. Len(s)
      /\ DOMAIN new = 1 .. Len(s) - 1
      /\ Head(s) = s[1]
  BY <1>1, LenProperties, EmptySeq
<1> HIDE DEF new
<1>3. \A i \in DOMAIN new : i + 1 \in DOMAIN s /\ new[i] = s[i + 1] /\ i \in Nat /\ i >= 1
  BY <1>1, <1>2
<1>4. 1 \in DOMAIN s
  BY <1>2
<1>5. Carries(new, S)
  BY <1>3 DEF Carries
<1>6. ASSUME Head(s) # CtrlC PROVE Head(s) \in S /\ Carries(new, {})
  <2>1. Head(s) \in S
    BY <1>2, <1>4, <1>6 DEF Carries
  <2>2. \A i \in DOMAIN new : new[i] = CtrlC
    BY <1>2, <1>3, <1>4, <1>6 DEF Carries
  <2> QED
    BY <2>1, <2>2, CarriesNothing
<1>7. ASSUME Head(s) = CtrlC, ~Carries(s, {}) PROVE ~Carries(new, {})
  <2>1. PICK i \in DOMAIN s : s[i] # CtrlC
    BY <1>7, CarriesNothing
  <2>2. i - 1 \in DOMAIN new /\ new[i - 1] = s[i]
    BY <1>1, <1>2, <1>7, <2>1
  <2> QED
    BY <2>1, <2>2, CarriesNothing
<1> QED
  BY <1>1, <1>5, <1>6, <1>7 DEF new

LEMMA AfterSubSeq ==
  ASSUME NEW s \in Seq(Packets), NEW k \in DOMAIN s, NEW S, Carries(s, S)
  PROVE  /\ SubSeq(s, k + 1, Len(s)) \in Seq(Packets)
         /\ Carries(SubSeq(s, k + 1, Len(s)), S)
<1> DEFINE new == SubSeq(s, k + 1, Len(s))
<1>1. Len(s) \in Nat /\ DOMAIN s = 1 .. Len(s) /\ k \in 1 .. Len(s)
  BY LenProperties
<1>2. \A i \in k + 1 .. Len(s) : s[i] \in Packets
  BY <1>1, ElementOfSeq
<1>3. /\ new \in Seq(Packets)
      /\ Len(new) = IF k + 1 <= Len(s) THEN Len(s) - (k + 1) + 1 ELSE 0
      /\ \A i \in 1 .. Len(s) - (k + 1) + 1 : new[i] = s[k + 1 + i - 1]
  BY <1>1, <1>2, SubSeqProperties
<1> HIDE DEF new
<1>4. \A i \in DOMAIN new : k + i \in DOMAIN s /\ new[i] = s[k + i] /\ i \in Nat
  <2>1. Len(new) = Len(s) - k /\ DOMAIN new = 1 .. Len(new)
    BY <1>1, <1>3, LenProperties
  <2> SUFFICES ASSUME NEW i \in 1 .. Len(s) - k
               PROVE  k + i \in DOMAIN s /\ new[i] = s[k + i]
    BY <2>1
  <2>2. k + 1 + i - 1 = k + i /\ i \in 1 .. Len(s) - (k + 1) + 1
    BY <1>1
  <2>3. new[i] = s[k + 1 + i - 1]
    BY <1>3, <2>2
  <2>4. k + i \in DOMAIN s
    BY <1>1
  <2> QED
    BY <2>2, <2>3, <2>4, Zenon
<1>5. Carries(new, S)
  BY <1>1, <1>4 DEF Carries
<1> QED
  BY <1>3, <1>5 DEF new

LEMMA EmptyLine == <<>> \in Seq(Packets) /\ \A S : Carries(<<>>, S)
  BY DEF Carries

(***************************************************************************)
(* The replies GDB has not read, once one is added and once one is read.   *)
(***************************************************************************)
Replies == {"answer", "stop", "exited"}

LEMMA AfterReply ==
  ASSUME NEW s \in Seq(Replies), NEW r \in Replies
  PROVE  /\ Append(s, r) \in Seq(Replies)
         /\ NoAnswer(s) /\ r # "answer" => NoAnswer(Append(s, r))
         /\ NoAnswer(s) /\ r = "answer" => EndsInAnswer(Append(s, r))
         /\ s = <<>> => Append(s, r) = <<r>>
<1> DEFINE new == Append(s, r)
<1>1. /\ new \in Seq(Replies) /\ Len(new) = Len(s) + 1 /\ new # <<>>
      /\ \A i \in 1 .. Len(s) : new[i] = s[i]
      /\ new[Len(s) + 1] = r
  BY AppendProperties
<1>2. /\ Len(s) \in Nat /\ DOMAIN s = 1 .. Len(s)
      /\ DOMAIN new = 1 .. Len(s) + 1
  BY <1>1, LenProperties
<1>3. s = <<>> => new = <<r>>
  OBVIOUS
<1> HIDE DEF new
<1>4. \A i \in DOMAIN new : \/ i \in DOMAIN s /\ new[i] = s[i] /\ i # Len(new)
                            \/ i = Len(new) /\ new[i] = r
  BY <1>1, <1>2
<1>5. NoAnswer(s) /\ r # "answer" => NoAnswer(new)
  BY <1>4 DEF NoAnswer
<1>6. NoAnswer(s) /\ r = "answer" => EndsInAnswer(new)
  BY <1>1, <1>4 DEF NoAnswer, EndsInAnswer
<1> QED
  BY <1>1, <1>3, <1>5, <1>6 DEF new

LEMMA AfterReceipt ==
  ASSUME NEW s \in Seq(Replies), s # <<>>
  PROVE  /\ Head(s) \in Replies /\ Tail(s) \in Seq(Replies)
         /\ NoAnswer(s) => Head(s) # "answer" /\ NoAnswer(Tail(s))
         /\ EndsInAnswer(s) => IF Head(s) = "answer" THEN Tail(s) = <<>>
                                                     ELSE EndsInAnswer(Tail(s))
         /\ \A r : s = <<r>> => Head(s) = r
<1> DEFINE new == Tail(s)
<1>1. /\ Head(s) \in Replies /\ new \in Seq(Replies) /\ Len(new) = Len(s) - 1
      /\ \A i \in 1 .. Len(new) : new[i] = s[i + 1]
  BY HeadTailProperties
<1>2. /\ Len(s) \in Nat \ {0} /\ DOMAIN s = 1 .. Len(s)
      /\ DOMAIN new = 1 .. Len(s) - 1
      /\ Head(s) = s[1]
  BY <1>1, LenProperties, EmptySeq
<1>3. \A r : s = <<r>> => Head(s) = r
  OBVIOUS
<1> HIDE DEF new
<1>4. \A i \in DOMAIN new : i + 1 \in DOMAIN s /\ new[i] = s[i + 1]
  BY <1>1, <1>2
<1>5. 1 \in DOMAIN s
  BY <1>2
<1>6. NoAnswer(s) => Head(s) # "answer" /\ NoAnswer(new)
  BY <1>2, <1>4, <1>5 DEF NoAnswer
<1>7. ASSUME EndsInAnswer(s), Head(s) = "answer" PROVE new = <<>>
  <2>1. Len(s) = 1
    BY <1>2, <1>5, <1>7 DEF EndsInAnswer
  <2> QED
    BY <1>1, <2>1, EmptySeq
<1>8. ASSUME EndsInAnswer(s), Head(s) # "answer" PROVE EndsInAnswer(new)
  <2>1. Len(s) # 1
    BY <1>2, <1>5, <1>8 DEF EndsInAnswer
  <2>2. new # <<>>
    BY <1>1, <1>2, <2>1, EmptySeq
  <2>3. \A i \in DOMAIN new : new[i] = "answer" <=> i = Len(new)
    BY <1>1, <1>2, <1>4, <1>8 DEF EndsInAnswer
  <2> QED
    BY <2>2, <2>3 DEF EndsInAnswer
<1> QED
  BY <1>1, <1>3, <1>6, <1>7, <1>8 DEF new

-----------------------------------------------------------------------------
(***************************************************************************)
(* At first nobody is on the line.                                         *)
(***************************************************************************)
LEMMA SessionInitEstablishes == SessionInit => SessionInv
<1> SUFFICES ASSUME SessionInit PROVE SessionInv
  OBVIOUS
<1>1. SessionTypeOK
  BY DEF SessionInit, SessionTypeOK
<1>2. LineAgrees
  BY EmptyLine DEF SessionInit, LineAgrees, GdbAbsent
<1> QED
  BY <1>1, <1>2 DEF SessionInv

(***************************************************************************)
(* While the program or an abort has the processor there is no prompt, and *)
(* the line and the stage stay what they are.                              *)
(***************************************************************************)
LEMMA AwayFromPrompt ==
  ASSUME SessionInv, ~AtPrompt, UNCHANGED <<rx, tx, client>>,
         phase' # "panicked" => phase # "panicked",
         stage' = stage \/ (stage = "Uninitialized" /\ stage' = "Idle"),
         doing' \in {"nothing", "handle_stop", "run_debug_console", "resume"}
  PROVE  SessionInv'
<1>1. SessionTypeOK'
  BY DEF SessionInv, SessionTypeOK
<1>2. LineAgrees'
  BY DEF SessionInv, LineAgrees, GdbReady, GdbAwaitsAnswer, GdbAwaitsStop, GdbAbsent
<1> QED
  BY <1>1, <1>2 DEF SessionInv

LEMMA HandlerPreserves ==
  ASSUME SessionInv, RunProgram \/ HandlerEnters \/ HandleStop \/ HandlerLeaves
  PROVE  SessionInv'
<1>1. CASE RunProgram
  <2>1. phase # "monitor" /\ phase # "panicked"
    BY <1>1 DEF RunProgram, Program, Execute, RunsNext, Fault, TakeDebugEvent, DebugEvent,
                OverflowStack, Restore, ResumeScheduler, LeaveSystemMode, ReturnFromException,
                Switch
  <2> QED
    BY <1>1, <2>1, AwayFromPrompt
    DEF RunProgram, session, link, AtPrompt, InMonitor, SessionInv, SessionTypeOK
<1>2. CASE HandlerEnters
  BY <1>2, AwayFromPrompt DEF HandlerEnters, enter_breakpoint, link, AtPrompt, InMonitor
<1>3. CASE HandleStop
  <2>1. phase' = phase
    BY <1>3 DEF HandleStop, HandleInternal, before_exit, vars, cpu
  <2>2. doing' \in {"run_debug_console", "resume"} /\ UNCHANGED <<rx, tx, client>>
    BY <1>3 DEF HandleStop, link
  <2>3. stage' = stage \/ (stage = "Uninitialized" /\ stage' = "Idle")
    BY <1>3 DEF HandleStop, StageOnEntry
  <2> QED
    BY <1>3, <2>1, <2>2, <2>3, AwayFromPrompt DEF HandleStop, AtPrompt
<1>4. CASE HandlerLeaves
  BY <1>4, AwayFromPrompt DEF HandlerLeaves, leave_breakpoint, link, AtPrompt, InMonitor
<1> QED
  BY <1>1, <1>2, <1>3, <1>4

(***************************************************************************)
(* A question is answered, once, and leaves the prompt as it was.          *)
(***************************************************************************)
LEMMA QuestionPreserves ==
  ASSUME SessionInv, TickQuestion
  PROVE  SessionInv'
<1> DEFINE p == Head(rx)
<1>1. /\ Ticking /\ stage = "Idle" /\ rx # <<>>
      /\ rx' = Tail(rx) /\ tx' = Append(tx, "answer")
      /\ stage' = stage /\ doing' = doing /\ client' = client
  BY DEF TickQuestion, session
<1>2. phase' = phase /\ monitor_status' = monitor_status
  BY DEF TickQuestion, add_hw_breakpoint, remove_hw_breakpoint, add_sw_breakpoint,
         remove_user_breakpoint, write_registers, vars, cpu, target
<1>3. AtPrompt /\ AtPrompt' /\ phase # "panicked"
  BY <1>1, <1>2 DEF Ticking, AtPrompt, InMonitor
<1>4. rx \in Seq(Packets) /\ tx \in Seq(Replies)
  BY DEF SessionInv, SessionTypeOK, Replies
<1>5. p # CtrlC /\ p # Detach /\ p \notin Resumes
  BY PacketKinds DEF TickQuestion
<1>6. rx' \in Seq(Packets) /\ tx' \in Seq(Replies) /\ tx' # <<>>
  BY <1>1, <1>4, AfterReply, HeadTailProperties, AppendProperties DEF Replies
<1>7. SessionTypeOK'
  BY <1>1, <1>6 DEF SessionInv, SessionTypeOK, Replies
<1>8. \A S : Carries(rx, S) => p \in S /\ Carries(rx', {})
  BY <1>1, <1>4, <1>5, AfterTail
<1> HIDE DEF p
<1>9. NoAnswer(tx) => EndsInAnswer(tx')
  BY <1>1, <1>4, AfterReply DEF Replies
<1>10. NoAnswer(<<>>)
  BY DEF NoAnswer
<1>11. client # "ready"
  BY <1>3, <1>8 DEF SessionInv, LineAgrees, GdbReady
<1>12. client = "answer" => GdbAwaitsAnswer'
  BY <1>1, <1>3, <1>8, <1>9, <1>10 DEF SessionInv, LineAgrees, GdbAwaitsAnswer
<1>13. client # "stop"
  BY <1>3, <1>5, <1>8 DEF SessionInv, LineAgrees, GdbAwaitsStop
<1>14. client = "absent" => GdbAbsent'
  <2>1. client = "absent" => Carries(rx', {})
    BY <1>3, <1>8 DEF SessionInv, LineAgrees, GdbAbsent
  <2> QED
    BY <2>1, CarriesMore DEF GdbAbsent
<1>15. LineAgrees'
  BY <1>1, <1>11, <1>12, <1>13, <1>14 DEF LineAgrees
<1> QED
  BY <1>7, <1>15 DEF SessionInv

(***************************************************************************)
(* The program is resumed only for a GDB that then waits for it to stop.   *)
(***************************************************************************)
LEMMA TickResumePreserves ==
  ASSUME SessionInv, TickResume
  PROVE  SessionInv'
<1> DEFINE p == Head(rx)
<1>1. /\ Ticking /\ stage = "Idle" /\ rx # <<>>
      /\ rx' = Tail(rx) /\ stage' = "Running" /\ UNCHANGED <<doing, tx, client>>
  BY DEF TickResume
<1>2. AtPrompt /\ phase # "panicked"
  BY <1>1 DEF Ticking, AtPrompt, InMonitor
<1>3. rx \in Seq(Packets)
  BY DEF SessionInv, SessionTypeOK
<1>4. p \in Resumes
  BY DEF TickResume, Resumes
<1>5. p # CtrlC /\ p # Detach /\ p # Hello /\ p \notin Questions
  BY <1>4, PacketKinds
<1>6. rx' \in Seq(Packets)
  BY <1>1, <1>3, HeadTailProperties
<1>7. SessionTypeOK'
  BY <1>1, <1>6 DEF SessionInv, SessionTypeOK
<1>8. \A S : Carries(rx, S) => p \in S /\ Carries(rx', {})
  BY <1>1, <1>3, <1>5, AfterTail
<1> HIDE DEF p
<1>9. client # "ready" /\ client # "answer" /\ client # "absent"
  BY <1>2, <1>5, <1>8
  DEF SessionInv, LineAgrees, GdbReady, GdbAwaitsAnswer, GdbAbsent
<1>10. client = "stop" => GdbAwaitsStop'
  BY <1>1, <1>2, <1>8 DEF SessionInv, LineAgrees, GdbAwaitsStop
<1>11. LineAgrees'
  BY <1>1, <1>9, <1>10 DEF LineAgrees
<1> QED
  BY <1>7, <1>11 DEF SessionInv

(***************************************************************************)
(* Ctrl-C at the prompt changes nothing; a detach ends the session.        *)
(***************************************************************************)
LEMMA TickControlPreserves ==
  ASSUME SessionInv, TickControl
  PROVE  SessionInv'
<1> DEFINE p == Head(rx)
<1>1. /\ Ticking /\ stage = "Idle" /\ rx # <<>>
      /\ rx' = Tail(rx) /\ UNCHANGED <<phase, monitor_status, doing, tx, client>>
      /\ \/ p = CtrlC /\ stage' = "CtrlCInterrupt"
         \/ p = Detach /\ stage' = "Disconnected"
  BY DEF TickControl, vars, cpu, target
<1>2. AtPrompt /\ phase # "panicked"
  BY <1>1 DEF Ticking, AtPrompt, InMonitor
<1>3. rx \in Seq(Packets)
  BY DEF SessionInv, SessionTypeOK
<1>4. \A S : Carries(rx, S) =>
        /\ Carries(rx', S)
        /\ p = CtrlC /\ ~Carries(rx, {}) => ~Carries(rx', {})
        /\ p # CtrlC => p \in S /\ Carries(rx', {})
  BY <1>1, <1>3, AfterTail
<1>5. SessionTypeOK'
  <2>1. rx' \in Seq(Packets)
    BY <1>1, <1>3, HeadTailProperties
  <2> QED
    BY <1>1, <2>1 DEF SessionInv, SessionTypeOK
<1>6. CASE p = CtrlC
  <2>1. AtPrompt' /\ stage' # "Running"
    BY <1>1, <1>2, <1>6, PacketKinds DEF AtPrompt, InMonitor
  <2> HIDE DEF p
  <2>2. client = "ready" => GdbReady'
    BY <1>1, <1>2, <1>4, <2>1 DEF SessionInv, LineAgrees, GdbReady
  <2>3. client = "answer" => GdbAwaitsAnswer'
    BY <1>1, <1>2, <1>4, <2>1 DEF SessionInv, LineAgrees, GdbAwaitsAnswer
  <2>4. client = "stop" => GdbAwaitsStop'
    BY <1>1, <1>2, <1>4, <1>6, <2>1 DEF SessionInv, LineAgrees, GdbAwaitsStop
  <2>5. client = "absent" => GdbAbsent'
    BY <1>1, <1>2, <1>4, <2>1 DEF SessionInv, LineAgrees, GdbAbsent
  <2>6. LineAgrees'
    BY <1>1, <2>2, <2>3, <2>4, <2>5 DEF LineAgrees
  <2> QED
    BY <1>5, <2>6 DEF SessionInv
<1>7. CASE p = Detach
  <2>1. p # CtrlC /\ p # Hello /\ p \notin Questions /\ p \notin Resumes
    BY <1>7, PacketKinds
  <2> HIDE DEF p
  <2>2. client \notin {"ready", "answer", "stop"}
    BY <1>1, <1>2, <1>4, <2>1
    DEF SessionInv, LineAgrees, GdbReady, GdbAwaitsAnswer, GdbAwaitsStop
  <2>3. client = "absent" => GdbAbsent'
    <3>1. client = "absent" => Carries(rx', {})
      BY <1>2, <1>4, <2>1 DEF SessionInv, LineAgrees, GdbAbsent
    <3> QED
      BY <3>1, CarriesMore DEF GdbAbsent
  <2>4. LineAgrees'
    BY <1>1, <2>2, <2>3 DEF LineAgrees
  <2> QED
    BY <1>5, <2>4 DEF SessionInv
<1> QED
  BY <1>1, <1>6, <1>7

(***************************************************************************)
(* What is reported is a stop, at the prompt, or an exit, after which the  *)
(* session is over.                                                        *)
(***************************************************************************)
LEMMA ReportPreserves ==
  ASSUME SessionInv, TickReportStop
  PROVE  SessionInv'
<1>1. /\ Ticking /\ stage = "Running" /\ UNCHANGED <<phase, doing, rx, client>>
      /\ \/ /\ stage' = "Disconnected" /\ tx' = Append(tx, "exited")
         \/ /\ UNCHANGED monitor_status
            /\ stage' = "Idle" /\ tx' = Append(tx, "stop")
  BY DEF TickReportStop, resume, vars, cpu, target
<1>2. ~AtPrompt /\ phase # "panicked"
  BY <1>1 DEF Ticking, AtPrompt, InMonitor
<1>3. tx \in Seq(Replies)
  BY DEF SessionInv, SessionTypeOK, Replies
<1>4. /\ tx' \in Seq(Replies)
      /\ NoAnswer(tx) => NoAnswer(tx')
  BY <1>1, <1>3, AfterReply DEF Replies
<1>5. SessionTypeOK'
  BY <1>1, <1>4 DEF SessionInv, SessionTypeOK, Replies
<1>6. client # "ready"
  BY <1>2 DEF SessionInv, LineAgrees, GdbReady
<1>7. client = "answer" => GdbAwaitsAnswer'
  BY <1>1, <1>2, <1>4 DEF SessionInv, LineAgrees, GdbAwaitsAnswer
<1>8. client = "stop" => GdbAwaitsStop'
  <2> SUFFICES ASSUME client = "stop" PROVE GdbAwaitsStop'
    OBVIOUS
  <2>1. Carries(rx, {}) /\ tx = <<>>
    BY <1>1, <1>2 DEF SessionInv, LineAgrees, GdbAwaitsStop
  <2>2. CASE stage' = "Disconnected" /\ tx' = Append(tx, "exited")
    <3>1. tx' = <<"exited">>
      BY <1>3, <2>1, <2>2, AfterReply DEF Replies
    <3> QED
      BY <1>1, <2>1, <2>2, <3>1 DEF GdbAwaitsStop
  <2>3. CASE UNCHANGED monitor_status /\ stage' = "Idle" /\ tx' = Append(tx, "stop")
    <3>1. tx' = <<"stop">>
      BY <1>3, <2>1, <2>3, AfterReply DEF Replies
    <3>2. AtPrompt'
      BY <1>1, <2>3 DEF Ticking, AtPrompt, InMonitor
    <3> QED
      BY <1>1, <2>1, <2>3, <3>1, <3>2 DEF GdbAwaitsStop
  <2> QED
    BY <1>1, <2>2, <2>3
<1>9. client = "absent" => GdbAbsent'
  BY <1>1, <1>2 DEF SessionInv, LineAgrees, GdbAbsent
<1>10. LineAgrees'
  BY <1>1, <1>6, <1>7, <1>8, <1>9 DEF LineAgrees
<1> QED
  BY <1>5, <1>10 DEF SessionInv

(***************************************************************************)
(* The console goes back to Idle from a Ctrl-C and from a session that has *)
(* ended.                                                                  *)
(***************************************************************************)
LEMMA BackToIdlePreserves ==
  ASSUME SessionInv, TickCtrlC \/ TickDisconnected
  PROVE  SessionInv'
<1>1. Ticking /\ stage' = "Idle" /\ UNCHANGED <<phase, doing, rx, tx, client>>
  BY DEF TickCtrlC, TickDisconnected, resume, vars, cpu, link
<1>2. SessionTypeOK'
  BY <1>1 DEF SessionInv, SessionTypeOK
<1>3. AtPrompt => AtPrompt'
  BY <1>1 DEF TickCtrlC, TickDisconnected, AtPrompt, InMonitor, vars, target
<1>4. stage # "Running"
  BY DEF TickCtrlC, TickDisconnected
<1>5. LineAgrees'
  BY <1>1, <1>3, <1>4
  DEF SessionInv, LineAgrees, GdbReady, GdbAwaitsAnswer, GdbAwaitsStop, GdbAbsent
<1> QED
  BY <1>2, <1>5 DEF SessionInv

(***************************************************************************)
(* poll reads while the program runs, when there is nothing but Ctrl-C and *)
(* a greeting on the line.                                                 *)
(***************************************************************************)
LEMMA PollReadsNoQuestion ==
  ASSUME SessionInv, PollReads
  PROVE  /\ phase # "panicked" /\ ~AtPrompt
         /\ Carries(rx, {Hello})
         /\ client = "stop" => Carries(rx, {}) /\ tx = <<>>
         /\ client = "answer" => NoAnswer(tx)
         /\ client # "ready"
<1>1. phase # "panicked" /\ ~AtPrompt /\ stage = "Running"
  BY DEF PollReads, SessionFree, AtPrompt, InMonitor
<1>2. client \in {"absent", "answer", "stop", "ready"}
  BY DEF SessionInv, SessionTypeOK
<1>3. client = "stop" => Carries(rx, {}) /\ tx = <<>>
  BY <1>1 DEF SessionInv, LineAgrees, GdbAwaitsStop
<1>4. /\ client = "answer" => Carries(rx, {Hello}) /\ NoAnswer(tx)
      /\ client = "absent" => Carries(rx, {Hello})
      /\ client # "ready"
  BY <1>1 DEF SessionInv, LineAgrees, GdbReady, GdbAwaitsAnswer, GdbAbsent
<1>5. Carries(rx, {Hello})
  BY <1>2, <1>3, <1>4, CarriesMore
<1> QED
  BY <1>1, <1>3, <1>4, <1>5

LEMMA PollPreserves ==
  ASSUME SessionInv, Poll
  PROVE  SessionInv'
<1>1. PollReads /\ stage = "Running" /\ UNCHANGED <<stage, doing, tx, client>>
  BY DEF Poll, PollReads, session
<1>2. rx \in Seq(Packets)
  BY DEF SessionInv, SessionTypeOK
<1>3. ASSUME NEW S, Carries(rx, S) PROVE rx' \in Seq(Packets) /\ Carries(rx', S)
  <2>1. CASE Interrupts = {}
    BY <2>1, EmptyLine DEF Poll
  <2>2. CASE Interrupts # {}
    <3>1. Interrupts \subseteq DOMAIN rx /\ DOMAIN rx \subseteq Nat
      BY <1>2, LenProperties DEF Interrupts
    <3>2. FirstOf(Interrupts) \in DOMAIN rx
      BY <2>2, <3>1, FirstOfMember
    <3> QED
      BY <1>2, <1>3, <2>2, <3>2, AfterSubSeq DEF Poll
  <2> QED
    BY <2>1, <2>2
<1>4. rx' \in Seq(Packets) /\ Carries(rx', {Hello})
  BY <1>1, <1>3, PollReadsNoQuestion
<1>5. SessionTypeOK'
  BY <1>1, <1>4 DEF SessionInv, SessionTypeOK
<1>6. client = "stop" => GdbAwaitsStop'
  BY <1>1, <1>3, PollReadsNoQuestion DEF GdbAwaitsStop
<1>7. client = "answer" => GdbAwaitsAnswer'
  BY <1>1, <1>4, PollReadsNoQuestion DEF GdbAwaitsAnswer
<1>8. LineAgrees'
  BY <1>1, <1>4, <1>6, <1>7, PollReadsNoQuestion DEF LineAgrees, GdbAbsent
<1> QED
  BY <1>5, <1>8 DEF SessionInv

(***************************************************************************)
(* GDB sends what fits what it waits for.                                  *)
(***************************************************************************)
LEMMA GdbPreserves ==
  ASSUME SessionInv, Gdb
  PROVE  SessionInv'
<1>1. /\ rx \in Seq(Packets) /\ tx \in Seq({"answer", "stop", "exited"})
      /\ client \in {"absent", "answer", "stop", "ready"}
  BY DEF SessionInv, SessionTypeOK
<1>2. UNCHANGED <<phase, monitor_status, stage, doing>> /\ AtPrompt' = AtPrompt
  BY DEF Gdb, Connect, Ask, Resume, Interrupt, Leave, Killed, vars, cpu, target, session,
         AtPrompt, InMonitor
<1>3. ASSUME rx' \in Seq(Packets), tx' \in Seq({"answer", "stop", "exited"}),
             client' \in {"absent", "answer", "stop", "ready"}
      PROVE  SessionTypeOK'
  BY <1>2, <1>3 DEF SessionInv, SessionTypeOK
<1>4. CASE Connect
  <2>1. rx = <<>> /\ rx' = Append(rx, Hello) /\ tx' = <<>> /\ client' = "answer"
    BY <1>4 DEF Connect, Send
  <2>2. Hello \in Packets
    BY DEF Packets
  <2>3. rx' \in Seq(Packets) /\ Carries(rx', {Hello})
    BY <1>1, <2>1, <2>2, AfterAppend, EmptyLine
  <2>4. NoAnswer(tx')
    BY <2>1 DEF NoAnswer
  <2>5. SessionTypeOK' /\ LineAgrees'
    BY <1>3, <2>1, <2>3, <2>4 DEF LineAgrees, GdbAwaitsAnswer
  <2> QED
    BY <2>5 DEF SessionInv
<1>5. ASSUME client = "ready", phase # "panicked"
      PROVE  AtPrompt /\ Carries(rx, {}) /\ tx = <<>>
  BY <1>5 DEF SessionInv, LineAgrees, GdbReady
<1>6. CASE Ask
  <2>1. PICK p \in Questions : rx' = Append(rx, p)
    BY <1>6 DEF Ask, Send
  <2>2. client = "ready" /\ client' = "answer" /\ tx' = tx
    BY <1>6 DEF Ask
  <2>3. p \in Packets /\ p # CtrlC
    BY PacketKinds DEF Packets
  <2>4. rx' \in Seq(Packets) /\ (phase # "panicked" => Carries(rx', Questions))
    BY <1>1, <1>5, <2>1, <2>2, <2>3, AfterAppend
  <2>5. SessionTypeOK' /\ LineAgrees'
    BY <1>1, <1>2, <1>3, <1>5, <2>2, <2>4 DEF LineAgrees, GdbAwaitsAnswer
  <2> QED
    BY <2>5 DEF SessionInv
<1>7. CASE Resume
  <2>1. PICK p \in Resumes : rx' = Append(rx, p)
    BY <1>7 DEF Resume, Resumes, Send
  <2>2. client = "ready" /\ client' = "stop" /\ tx' = tx
    BY <1>7 DEF Resume
  <2>3. p \in Packets /\ p # CtrlC
    BY PacketKinds DEF Packets
  <2>4. /\ rx' \in Seq(Packets)
        /\ phase # "panicked" => Carries(rx', Resumes) /\ ~Carries(rx', {})
    BY <1>1, <1>5, <2>1, <2>2, <2>3, AfterAppend
  <2>5. SessionTypeOK' /\ LineAgrees'
    BY <1>1, <1>2, <1>3, <1>5, <2>2, <2>4 DEF LineAgrees, GdbAwaitsStop
  <2> QED
    BY <2>5 DEF SessionInv
<1>8. CASE Interrupt
  <2>1. client = "stop" /\ client' = "stop" /\ tx' = tx /\ rx' = Append(rx, CtrlC)
    BY <1>8 DEF Interrupt, Send
  <2>2. CtrlC \in Packets
    BY DEF Packets
  <2>3. /\ rx' \in Seq(Packets)
        /\ \A S : Carries(rx, S) => Carries(rx', S)
        /\ ~Carries(rx, {}) => ~Carries(rx', {})
    BY <1>1, <2>1, <2>2, AfterAppend
  <2>4. SessionTypeOK' /\ LineAgrees'
    BY <1>1, <1>2, <1>3, <2>1, <2>3 DEF SessionInv, LineAgrees, GdbAwaitsStop
  <2> QED
    BY <2>4 DEF SessionInv
<1>9. CASE Leave
  <2>1. client = "ready" /\ client' = "absent" /\ tx' = tx /\ rx' = Append(rx, Detach)
    BY <1>9 DEF Leave, Send
  <2>2. Detach \in Packets
    BY DEF Packets
  <2>3. rx' \in Seq(Packets) /\ (phase # "panicked" => Carries(rx', {Detach}))
    BY <1>1, <1>5, <2>1, <2>2, AfterAppend
  <2>4. SessionTypeOK' /\ LineAgrees'
    BY <1>1, <1>2, <1>3, <1>5, <2>1, <2>3 DEF LineAgrees, GdbAbsent
  <2> QED
    BY <2>4 DEF SessionInv
<1>10. CASE Killed
  <2>1. client' = "absent" /\ tx' = tx /\ rx' = rx /\ rx = <<>>
    BY <1>10 DEF Killed
  <2>2. SessionTypeOK' /\ LineAgrees'
    BY <1>1, <1>3, <2>1, EmptyLine DEF LineAgrees, GdbAbsent
  <2> QED
    BY <2>2 DEF SessionInv
<1> QED
  BY <1>4, <1>6, <1>7, <1>8, <1>9, <1>10 DEF Gdb

(***************************************************************************)
(* GDB believes what it reads, if it is what it waits for.                 *)
(***************************************************************************)
LEMMA ReceivePreserves ==
  ASSUME SessionInv, Receive
  PROVE  SessionInv'
<1>1. /\ tx # <<>> /\ tx' = Tail(tx)
      /\ client' = CASE Head(tx) = client -> "ready"
                     [] Head(tx) = "exited" -> "absent"
                     [] OTHER -> client
      /\ UNCHANGED <<phase, monitor_status, stage, doing, rx>> /\ AtPrompt' = AtPrompt
  BY DEF Receive, vars, cpu, target, session, AtPrompt, InMonitor
<1>2. /\ tx \in Seq(Replies)
      /\ client \in {"absent", "answer", "stop", "ready"}
  BY DEF SessionInv, SessionTypeOK, Replies
<1>3. /\ Head(tx) \in Replies /\ tx' \in Seq(Replies)
      /\ NoAnswer(tx) => Head(tx) # "answer" /\ NoAnswer(tx')
      /\ EndsInAnswer(tx) => IF Head(tx) = "answer" THEN tx' = <<>> ELSE EndsInAnswer(tx')
      /\ \A r : tx = <<r>> => Head(tx) = r
  BY <1>1, <1>2, AfterReceipt
<1>4. \A r : tx = <<r>> => tx' = <<>>
  BY <1>1
<1>5. SessionTypeOK'
  <2>1. client' \in {"absent", "answer", "stop", "ready"}
    BY <1>1, <1>2
  <2> QED
    BY <1>1, <1>3, <2>1 DEF SessionInv, SessionTypeOK, Replies
<1>6. ASSUME phase # "panicked"
      PROVE  LineAgrees'
  <2>1. CASE client = "ready"
    BY <1>1, <1>6, <2>1 DEF SessionInv, LineAgrees, GdbReady
  <2>2. CASE client = "answer"
    <3>1. GdbAwaitsAnswer /\ client' = CASE Head(tx) = "answer" -> "ready"
                                         [] Head(tx) = "exited" -> "absent"
                                         [] OTHER -> "answer"
      BY <1>1, <1>6, <2>2 DEF SessionInv, LineAgrees
    <3>2. CASE Carries(rx, {Hello}) /\ NoAnswer(tx)
      BY <1>1, <1>3, <3>1, <3>2 DEF LineAgrees, GdbAwaitsAnswer, GdbAbsent, Replies
    <3>3. CASE AtPrompt /\ Carries(rx, {}) /\ EndsInAnswer(tx)
      <4>1. Carries(rx, {Hello})
        BY <3>3, CarriesMore
      <4>2. CASE Head(tx) = "answer"
        BY <1>1, <1>3, <3>1, <3>3, <4>2 DEF LineAgrees, GdbReady
      <4>3. CASE Head(tx) = "exited"
        BY <1>1, <3>1, <4>1, <4>3 DEF LineAgrees, GdbAbsent
      <4>4. CASE Head(tx) = "stop"
        BY <1>1, <1>3, <3>1, <3>3, <4>4 DEF LineAgrees, GdbAwaitsAnswer
      <4> QED
        BY <1>3, <4>2, <4>3, <4>4 DEF Replies
    <3> QED
      BY <1>1, <3>1, <3>2, <3>3 DEF GdbAwaitsAnswer
  <2>3. CASE client = "stop"
    <3>1. GdbAwaitsStop
      BY <1>6, <2>3 DEF SessionInv, LineAgrees
    <3>2. CASE AtPrompt /\ Carries(rx, {}) /\ tx = <<"stop">>
      <4>1. Head(tx) = "stop" /\ tx' = <<>>
        BY <1>3, <1>4, <3>2
      <4>2. client' = "ready"
        BY <1>1, <2>3, <4>1
      <4> QED
        BY <1>1, <3>2, <4>1, <4>2 DEF LineAgrees, GdbReady
    <3>3. CASE stage # "Running" /\ Carries(rx, {}) /\ tx = <<"exited">>
      <4>1. Head(tx) = "exited"
        BY <1>3, <3>3
      <4>2. client' = "absent"
        BY <1>1, <2>3, <4>1
      <4>3. Carries(rx, {Hello})
        BY <3>3, CarriesMore
      <4> QED
        BY <1>1, <4>2, <4>3 DEF LineAgrees, GdbAbsent
    <3> QED
      BY <1>1, <3>1, <3>2, <3>3 DEF GdbAwaitsStop
  <2>4. CASE client = "absent"
    <3>1. GdbAbsent /\ client' = "absent"
      BY <1>1, <1>3, <1>6, <2>4 DEF SessionInv, LineAgrees, Replies
    <3> QED
      BY <1>1, <3>1 DEF LineAgrees, GdbAbsent
  <2> QED
    BY <1>2, <2>1, <2>2, <2>3, <2>4
<1>7. LineAgrees'
  BY <1>1, <1>6 DEF LineAgrees
<1> QED
  BY <1>5, <1>7 DEF SessionInv

-----------------------------------------------------------------------------
(***************************************************************************)
(* The session's types, and the agreement of the line with what GDB waits  *)
(* for, hold in every state.                                               *)
(***************************************************************************)
THEOREM SessionInvHolds == SessionSpec => []SessionInv
<1>1. SessionInv /\ [SessionNext]_sessionVars => SessionInv'
  <2> SUFFICES ASSUME SessionInv, [SessionNext]_sessionVars PROVE SessionInv'
    OBVIOUS
  <2>1. CASE RunProgram \/ HandlerEnters \/ HandleStop \/ HandlerLeaves
    BY <2>1, HandlerPreserves
  <2>2. CASE Tick
    BY <2>2, QuestionPreserves, TickResumePreserves, TickControlPreserves, ReportPreserves,
       BackToIdlePreserves DEF Tick
  <2>3. CASE Poll
    BY <2>3, PollPreserves
  <2>4. CASE Gdb
    BY <2>4, GdbPreserves
  <2>5. CASE Receive
    BY <2>5, ReceivePreserves
  <2>6. CASE UNCHANGED sessionVars
    <3>1. UNCHANGED <<phase, monitor_status, stage, doing, rx, tx, client>>
      BY <2>6 DEF sessionVars, vars, cpu, target, session, link
    <3>2. AtPrompt' = AtPrompt
      BY <3>1 DEF AtPrompt, InMonitor
    <3> QED
      BY <3>1, <3>2 DEF SessionInv, SessionTypeOK, LineAgrees, GdbReady, GdbAwaitsAnswer,
                        GdbAwaitsStop, GdbAbsent
  <2> QED
    BY <2>1, <2>2, <2>3, <2>4, <2>5, <2>6 DEF SessionNext
<1> QED
  BY <1>1, SessionInitEstablishes, PTL DEF SessionSpec

(***************************************************************************)
(* The session's actions are composed of the target's, so that its         *)
(* behaviours are among the target's.                                      *)
(***************************************************************************)
LEMMA SessionSteps == SessionSpec => Spec
<1>1. SessionInit => Init
  BY DEF SessionInit
<1>2. SessionInv /\ [SessionNext]_sessionVars => [Next]_vars
  BY StepIsOfTarget DEF SessionInv
<1> QED
  BY <1>1, <1>2, SessionInvHolds, PTL DEF SessionSpec, Spec

(***************************************************************************)
(* What has been proved of the target holds of it when the session drives  *)
(* it: here, that a Ctrl-C or a step sent at any moment finds a pair to    *)
(* arm.                                                                    *)
(***************************************************************************)
THEOREM SessionNeverRunsOutOfPairs == SessionSpec => []TargetInv
  BY SessionSteps, TargetInvHolds, PTL

(***************************************************************************)
(* And that no instruction of the program is skipped at a stop             *)
(* (classify_stop, fixup_manual_bkpt), whatever breakpoints GDB and the    *)
(* exit handler set and remove.                                            *)
(***************************************************************************)
THEOREM SessionSkipsNothing == SessionSpec => SkipsOnlyOwnBkpt
  BY SessionSteps, SkipsNothingElse, PTL

(***************************************************************************)
(* When GDB shows its prompt, the program is stopped in the console        *)
(* (run_debug_console), unless the debugger has panicked.                  *)
(***************************************************************************)
THEOREM PromptMeansStopped == SessionSpec => []ReadyMeansStopped
<1>1. SessionInv => ReadyMeansStopped
  BY DEF SessionInv, LineAgrees, GdbReady, AtPrompt, ReadyMeansStopped
<1> QED
  BY <1>1, SessionInvHolds, PTL

(***************************************************************************)
(* poll never throws away a question, a resume or a detach                 *)
(* (Debugger::poll).                                                       *)
(***************************************************************************)
THEOREM PollsLoseNothing == SessionSpec => []PollDiscardsNoQuestion
<1>1. SessionInv => PollDiscardsNoQuestion
  <2> SUFFICES ASSUME SessionInv, PollReads, NEW i \in DOMAIN rx
               PROVE  rx[i] \in {CtrlC, Hello}
    BY DEF PollDiscardsNoQuestion
  <2>1. Carries(rx, {Hello})
    BY PollReadsNoQuestion
  <2> QED
    BY <2>1 DEF Carries
<1> QED
  BY <1>1, SessionInvHolds, PTL
=============================================================================
