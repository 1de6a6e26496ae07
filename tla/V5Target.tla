------------------------------ MODULE V5Target ------------------------------
(***************************************************************************)
(* The debug target: the processor running the program, the exception      *)
(* path into and out of the debugger, and V5Target, which on every stop    *)
(* pauses breakpoints and the scheduler, decides why the program stopped   *)
(* and undoes what made it stop (src/src/gdb_target/mod.rs, resume.rs,     *)
(* breakpoint/; src/src/exceptions/overlay.s), in the build for FreeRTOS.  *)
(*                                                                         *)
(* All tasks share one abort stack and one SPSR_abt, and the scheduler is  *)
(* resumed in System mode, where debug events are taken, with the context  *)
(* to return to still on that stack.                                       *)
(*                                                                         *)
(* Who asks for what at a stop is left open here: GDB's requests come in   *)
(* any order.  DebugSession adds the session that hands them on.           *)
(***************************************************************************)
EXTENDS HwBreakpointOps, SwBreakpointOps, Sequences

CONSTANTS
  Tasks,            \* the program's tasks
  ThumbAddrs,       \* the Thumb instructions among CodeAddrs
  ProgramText,      \* the program's instruction at each address
  ExitAddr,         \* vexSystemExitRequest
  ResumeCode,       \* xTaskResumeAll, and the overlay's code around its call
  MaxFrames,        \* bound: contexts the abort stack has room for
  Sentinel,         \* ASYNC_HALT_SENTINEL, where no instruction is
  HwRequests,       \* the addresses GDB asks hardware breakpoints for
  SwRequests,       \* the addresses GDB asks software breakpoints for
  WrittenContexts   \* the register contents GDB writes

None == "None"

\* Some(SingleStepRequest), and None.
StepRequest(addr, kind) == [target_addr |-> addr, kind |-> kind]

NoStep == StepRequest(0, None)

\* What of DebugEventContext decides anything: the PC and the T bit.
Context == [pc : Nat, thumb : BOOLEAN]

CodeContext(addr) == [pc |-> addr, thumb |-> addr \in ThumbAddrs]

IsCode(c) == c.pc \in CodeAddrs /\ c = CodeContext(c.pc)

ASSUME TargetAssumption ==
  /\ Tasks # {}
  /\ ThumbAddrs \subseteq CodeAddrs
  /\ \A a \in CodeAddrs : AlignedFor(a, IF a \in ThumbAddrs THEN "Thumb16" ELSE "Arm32")
  /\ ProgramText \in [CodeAddrs -> Instruction]
  /\ ExitAddr \in CodeAddrs \ ReadOnly
  /\ ProgramText[ExitAddr] # "bkpt"
  /\ ResumeCode \subseteq CodeAddrs \ {ExitAddr}
  /\ ResumeCode # {}
  /\ MaxFrames \in Nat \ {0}
  /\ Sentinel \in Nat /\ AlignedFor(Sentinel, "Arm32")
  /\ HwRequests \subseteq Nat
  /\ SwRequests \subseteq CodeAddrs
  /\ WrittenContexts \subseteq Context
  /\ \A c \in WrittenContexts : Word(c.pc) # Sentinel
  /\ \A a \in CodeAddrs : Word(a) # Sentinel
  \* an ARM instruction takes up the whole of its word
  /\ \A a \in CodeAddrs \ ThumbAddrs, b \in ThumbAddrs : Word(a) # Word(b)

VARIABLES
  \* the processor and the program
  phase,            \* who has the processor (see TypeOK)
  task,             \* the current task
  state,            \* the registers of each task
  at,               \* where each task is, or was when it stopped (see Places)
  irqs,             \* of each task: interrupts are enabled
  stack,            \* the abort stack
  spsr,             \* SPSR_abt, and the task it was of
  mem,              \* the program's code in memory, kept in sync with the fetches
  moe,              \* DBGDSCR.MOE, why the last debug event was taken
  suspended,        \* how often the scheduler has been suspended
  returned,         \* what handle_debug_event returned: resume the scheduler
  panic,            \* the error the debugger panicked on, if it did
  \* V5Target
  exception_ctx, monitor_status, stop_reason, breaks_paused, breaks,
  original_hw_lock_state, single_step_request, interrupt_pending,
  \* its HwBreakpointManager
  regs, used, locked

tasks == <<task, state, at, irqs>>
abort == <<stack, spsr>>
cpu == <<phase, tasks, abort, mem, moe, suspended, returned, panic>>
hw  == <<regs, used, locked>>
sw  == <<breaks_paused, breaks>>
target == <<exception_ctx, monitor_status, stop_reason,
            original_hw_lock_state, single_step_request, interrupt_pending>>
vars == <<cpu, hw, sw, target>>

\* In System mode a task is in the program, or in the overlay, before or after
\* xTaskResumeAll has resumed the scheduler.
Places == {"program", "resuming", "resumed"}

\* What catch_debug_event pushes, with the place of the task.
Frame == [task : Tasks, ctx : Context, irqs : BOOLEAN, at : Places]

Status(t, thumb, enabled) == [task |-> t, thumb |-> thumb, irqs |-> enabled]

Top(s) == s[Len(s)]
Pop(s) == SubSeq(s, 1, Len(s) - 1)

(***************************************************************************)
(* The program has just been started and initialize has run: the handler   *)
(* for vexSystemExitRequest is registered, and nothing else.               *)
(***************************************************************************)
NoBreaks == [s \in SwSlots |-> NO_BREAK]

Init ==
  /\ phase = "program"
  /\ task \in Tasks
  /\ state \in [Tasks -> {CodeContext(a) : a \in CodeAddrs \ {ExitAddr}}]
  /\ mem = RegisterMem(NoBreaks, FALSE, ProgramText, ExitAddr, TRUE)
  /\ at = [t \in Tasks |-> "program"]
  /\ irqs = [t \in Tasks |-> TRUE]
  /\ stack = <<>>
  /\ spsr = Status(task, FALSE, TRUE)
  /\ moe = None
  /\ suspended = 0
  /\ returned = TRUE
  /\ panic = None
  /\ exception_ctx = [pc |-> 0, thumb |-> FALSE]
  /\ monitor_status = "ResumingProgram"
  /\ stop_reason = "Other"
  /\ breaks_paused = FALSE
  /\ breaks = RegisterBreaks(NoBreaks, FALSE, ProgramText, ExitAddr, TRUE)
  /\ original_hw_lock_state = FALSE
  /\ single_step_request = NoStep
  /\ interrupt_pending = FALSE
  /\ regs = [idx \in Slots |-> DISABLED]
  /\ used = {}
  /\ locked = TRUE

-----------------------------------------------------------------------------
(***************************************************************************)
(* The processor (external).  An instruction is executed only if no        *)
(* breakpoint pair fires on it and it is not a bkpt.                       *)
(***************************************************************************)
Running == state[task]

BreakpointFires == AnyFires(regs, Running.pc)

RunsNext ==
  /\ phase = "program"
  /\ ~BreakpointFires
  /\ IsCode(Running)
  /\ mem[Running.pc] # "bkpt"

\* xTaskResumeAll runs from its call to its return, unless GDB moves the PC.
Targets ==
  IF at[task] # "program" /\ Running.pc \in ResumeCode THEN ResumeCode ELSE CodeAddrs

Execute ==
  /\ RunsNext
  /\ IF Running.pc = ExitAddr
     THEN phase' = "exited" /\ UNCHANGED state
     ELSE /\ \E a \in Targets : state' = [state EXCEPT ![task] = CodeContext(a)]
          /\ UNCHANGED phase
  /\ UNCHANGED <<task, at, irqs, abort, mem, moe, suspended, returned, panic, hw, sw, target>>

\* A PC where the program has no code: an exception that is not the debugger's.
Fault ==
  /\ phase = "program"
  /\ ~BreakpointFires
  /\ ~IsCode(Running)
  /\ phase' = "faulted"
  /\ UNCHANGED <<tasks, abort, mem, moe, suspended, returned, panic, hw, sw, target>>

\* The scheduler preempts the current task, or the task gives the processor up.
Switch(t) ==
  /\ phase = "program"
  /\ suspended = 0
  /\ irqs[task] \/ at[task] = "program"
  /\ t # task
  /\ task' = t
  /\ UNCHANGED <<phase, state, at, irqs, abort, mem, moe, suspended, returned, panic,
                 hw, sw, target>>

DebugEvent ==
  /\ phase = "program"
  /\ \/ BreakpointFires /\ moe' = "Breakpoint"
     \/ /\ ~BreakpointFires
        /\ IsCode(Running)
        /\ mem[Running.pc] = "bkpt"
        /\ moe' = "BkptInstr"

\* An abort, which masks interrupts, and catch_debug_event up to its call.
TakeDebugEvent ==
  /\ DebugEvent
  /\ Len(stack) < MaxFrames
  /\ phase' = "trapped"
  /\ stack' = Append(stack, [task |-> task, ctx |-> Running, irqs |-> irqs[task], at |-> at[task]])
  /\ spsr' = Status(task, Running.thumb, irqs[task])
  /\ irqs' = [irqs EXCEPT ![task] = FALSE]
  /\ UNCHANGED <<task, state, at, mem, suspended, returned, panic, hw, sw, target>>

\* What happens then is not modelled.
OverflowStack ==
  /\ DebugEvent
  /\ Len(stack) = MaxFrames
  /\ phase' = "overflowed"
  /\ UNCHANGED <<tasks, abort, mem, suspended, returned, panic, hw, sw, target>>

(***************************************************************************)
(* catch_debug_event, after the handler has returned.                      *)
(***************************************************************************)
\* cpsid i and SPSR_abt; then into System mode to resume the scheduler, or not.
Restore ==
  /\ phase = "returning"
  /\ irqs' = [irqs EXCEPT ![task] = FALSE]
  /\ spsr' = Status(task, Top(stack).ctx.thumb, Top(stack).irqs)
  /\ IF returned
     THEN /\ phase' = "program"
          /\ at' = [at EXCEPT ![task] = "resuming"]
          /\ \E a \in ResumeCode : state' = [state EXCEPT ![task] = CodeContext(a)]
     ELSE phase' = "leaving" /\ UNCHANGED <<at, state>>
  /\ UNCHANGED <<task, stack, mem, moe, suspended, returned, panic, hw, sw, target>>

\* xTaskResumeAll's instruction that resumes the scheduler (external), which may
\* give the processor away at once.
ResumeScheduler(t) ==
  /\ RunsNext
  /\ at[task] = "resuming" /\ Running.pc \in ResumeCode
  /\ suspended' = suspended - 1
  /\ suspended' > 0 => t = task
  /\ task' = t
  /\ at' = [at EXCEPT ![task] = "resumed"]
  /\ \E a \in ResumeCode : state' = [state EXCEPT ![task] = CodeContext(a)]
  /\ UNCHANGED <<phase, irqs, abort, mem, moe, returned, panic, hw, sw, target>>

\* cps #0b10111, back into Abort mode.
LeaveSystemMode ==
  /\ RunsNext
  /\ at[task] = "resumed" /\ Running.pc \in ResumeCode
  /\ phase' = "leaving"
  /\ UNCHANGED <<tasks, abort, mem, moe, suspended, returned, panic, hw, sw, target>>

\* ldm sp!, {r0-r12, pc}^: the registers come from the stack, the status from
\* SPSR_abt.  What a task does that got another's is not modelled.
OwnContext == stack # <<>> /\ Top(stack).task = task /\ spsr.task = task

ReturnContext == [pc |-> Top(stack).ctx.pc, thumb |-> spsr.thumb]

ReturnFromException ==
  /\ phase = "leaving"
  /\ IF OwnContext
     THEN /\ phase' = "program"
          /\ state' = [state EXCEPT ![task] = ReturnContext]
          /\ at' = [at EXCEPT ![task] = Top(stack).at]
          /\ irqs' = [irqs EXCEPT ![task] = spsr.irqs]
          /\ stack' = Pop(stack)
     ELSE phase' = "lost" /\ UNCHANGED <<state, at, irqs, stack>>
  /\ UNCHANGED <<task, spsr, mem, moe, suspended, returned, panic, hw, sw, target>>

-----------------------------------------------------------------------------
(***************************************************************************)
(* V5Target::request_interrupt, called by Debugger::poll in an interrupt.  *)
(* poll gives up unless it gets the session's lock, which the handler      *)
(* holds until it returns.                                                 *)
(***************************************************************************)
StepPending == single_step_request # NoStep

\* Faulty variant: the single step's pair is left in place.
RegsWithStep == regs

\* The registers and the table once a pending single step's pair is removed.
RegsWithoutStep ==
  IF StepPending
  THEN RemoveRegs(regs, single_step_request.target_addr, "Mismatch", single_step_request.kind)
  ELSE regs

UsedWithoutStep ==
  IF StepPending
  THEN RemoveUsed(regs, used, single_step_request.target_addr, "Mismatch",
                  single_step_request.kind)
  ELSE used

SessionFree == phase \in {"program", "returning", "leaving"}

\* Faulty variant: the registers are left unlocked.
LeaveOpen(was_locked) == locked' = FALSE

Relock(was_locked) == locked' = was_locked

request_interrupt ==
  /\ irqs[task]
  /\ SessionFree
  /\ ~interrupt_pending
  /\ LET result == AddResult(RegsWithoutStep, UsedWithoutStep, Sentinel, "Mismatch", "Arm32")
     IN IF result = "Ok"
        THEN interrupt_pending' = TRUE /\ UNCHANGED <<phase, panic>>
        ELSE phase' = "panicked" /\ panic' = result /\ UNCHANGED interrupt_pending
  /\ regs' = AddRegs(RegsWithoutStep, UsedWithoutStep, Sentinel, "Mismatch", "Arm32")
  /\ used' = AddUsed(RegsWithoutStep, UsedWithoutStep, Sentinel, "Mismatch", "Arm32")
  /\ Relock(locked)
  /\ UNCHANGED <<tasks, abort, mem, moe, suspended, returned, sw, exception_ctx,
                 monitor_status, stop_reason, original_hw_lock_state, single_step_request>>

-----------------------------------------------------------------------------
(***************************************************************************)
(* V5Target::enter_breakpoint.                                             *)
(***************************************************************************)
\* Faulty variant: the interrupt is finalized before the stop is classified.
StopReasonLate ==
  CASE moe = "Breakpoint" -> "HardwareBreak"
    [] moe = "BkptInstr" /\ SlotsAt(breaks, Running.pc) # {} -> "TrackedSoftwareBreak"
    [] moe = "BkptInstr" /\ SlotsAt(breaks, Running.pc) = {} -> "UntrackedSoftwareBreak"
    [] OTHER -> "Other"

\* Faulty variant: only the user's own breakpoints are looked for.
StopReasonForUser ==
  CASE moe = "Breakpoint" /\ interrupt_pending -> "Interrupt"
    [] moe = "Breakpoint" /\ ~interrupt_pending -> "HardwareBreak"
    [] moe = "BkptInstr" /\ (\E s \in SlotsAt(breaks, Running.pc) : breaks[s].user)
         -> "TrackedSoftwareBreak"
    [] OTHER -> "UntrackedSoftwareBreak"

\* classify_stop
StopReasonNow ==
  CASE moe = "Breakpoint" /\ interrupt_pending -> "Interrupt"
    [] moe = "Breakpoint" /\ ~interrupt_pending -> "HardwareBreak"
    [] moe = "BkptInstr" /\ SlotsAt(breaks, Running.pc) # {} -> "TrackedSoftwareBreak"
    [] moe = "BkptInstr" /\ SlotsAt(breaks, Running.pc) = {} -> "UntrackedSoftwareBreak"
    [] OTHER -> "Other"

\* fixup_manual_bkpt: a bkpt of the program's own has been executed.
Fixup(c, reason) ==
  IF reason = "UntrackedSoftwareBreak"
  THEN [c EXCEPT !.pc = @ + (IF c.thumb THEN 2 ELSE 4)]
  ELSE c

\* Faulty variant: the interrupt is forgotten and its pair stays.
RegsWithInterrupt == RegsWithoutStep

\* finalize_interrupt, after finalize_single_step
RegsWithoutInterrupt ==
  IF interrupt_pending
  THEN RemoveRegs(RegsWithoutStep, Sentinel, "Mismatch", "Arm32")
  ELSE RegsWithoutStep

UsedWithoutInterrupt ==
  IF interrupt_pending
  THEN RemoveUsed(RegsWithoutStep, UsedWithoutStep, Sentinel, "Mismatch", "Arm32")
  ELSE UsedWithoutStep

\* Faulty variant: the scheduler is suspended at every stop.
AlwaysSuspended == suspended + 1

\* A single step has left the scheduler suspended.
SuspendedOnEntry == IF StepPending THEN suspended ELSE suspended + 1

enter_breakpoint ==
  /\ phase = "trapped"
  /\ phase' = "monitor"
  /\ breaks_paused' = TRUE
  /\ breaks' = IgnoredBreaks(breaks, TRUE)
  /\ mem' = IgnoredMem(breaks, mem, TRUE)
  /\ suspended' = SuspendedOnEntry
  /\ irqs' = [irqs EXCEPT ![task] = TRUE]
  /\ original_hw_lock_state' = locked
  /\ locked' = FALSE
  /\ monitor_status' = "Active"
  /\ stop_reason' = StopReasonNow
  /\ exception_ctx' = Fixup(Running, StopReasonNow)
  /\ regs' = RegsWithoutInterrupt
  /\ used' = UsedWithoutInterrupt
  /\ single_step_request' = NoStep
  /\ interrupt_pending' = FALSE
  /\ UNCHANGED <<task, state, at, abort, moe, returned, panic>>

(***************************************************************************)
(* V5Target::leave_breakpoint, and the session's lock is let go.  It is    *)
(* called once the monitor is told to resume the program, or at once after *)
(* a tracked breakpoint nobody is to be told of (handle_stop).             *)
(***************************************************************************)
\* Faulty variant: single steps run with the scheduler on.
AlwaysUnpauses == TRUE

should_unpause_scheduler == ~StepPending

RestoreLock == locked' = original_hw_lock_state

leave_breakpoint ==
  /\ phase = "monitor"
  /\ \/ monitor_status = "ResumingProgram"
     \/ stop_reason = "TrackedSoftwareBreak"
  /\ phase' = "returning"
  /\ stack' = [stack EXCEPT ![Len(stack)].ctx = exception_ctx]
  /\ returned' = should_unpause_scheduler
  /\ RestoreLock
  /\ breaks_paused' = FALSE
  /\ breaks' = IgnoredBreaks(breaks, FALSE)
  /\ mem' = IgnoredMem(breaks, mem, FALSE)
  /\ UNCHANGED <<tasks, spsr, moe, suspended, panic, regs, used, target>>

-----------------------------------------------------------------------------
(***************************************************************************)
(* What the session asks of the target at a stop.                          *)
(***************************************************************************)
InMonitor == phase = "monitor" /\ monitor_status # "ResumingProgram"

\* Faulty variant: every pair is given away.
add_hw_breakpoint_unreserved(addr, kind) ==
  /\ InMonitor
  /\ regs' = AddRegs(regs, used, addr, "Match", kind)
  /\ used' = AddUsed(regs, used, addr, "Match", kind)
  /\ UNCHANGED <<cpu, locked, sw, target>>

\* GDB's Z1: the last free pair is kept for single steps and interrupts.
add_hw_breakpoint(addr, kind) ==
  /\ InMonitor
  /\ BreakpointsAvailable(used) > 1
  /\ regs' = AddRegs(regs, used, addr, "Match", kind)
  /\ used' = AddUsed(regs, used, addr, "Match", kind)
  /\ UNCHANGED <<cpu, locked, sw, target>>

\* GDB's z1
remove_hw_breakpoint(addr, kind) ==
  /\ InMonitor
  /\ regs' = RemoveRegs(regs, addr, "Match", kind)
  /\ used' = RemoveUsed(regs, used, addr, "Match", kind)
  /\ UNCHANGED <<cpu, locked, sw, target>>

\* GDB's Z0: register_sw_breakpoint for the user.
add_sw_breakpoint(addr) ==
  /\ InMonitor
  /\ breaks' = RegisterBreaks(breaks, breaks_paused, mem, addr, FALSE)
  /\ mem' = RegisterMem(breaks, breaks_paused, mem, addr, FALSE)
  /\ UNCHANGED <<phase, tasks, abort, moe, suspended, returned, panic,
                 breaks_paused, hw, target>>

\* GDB's z0, and the exit handler's own removal.
remove_sw_breakpoint(addr, internal) ==
  /\ breaks' = RemoveBreaks(breaks, addr, internal)
  /\ mem' = RemoveMem(breaks, mem, addr, internal)
  /\ UNCHANGED breaks_paused

remove_user_breakpoint(addr) ==
  /\ InMonitor
  /\ remove_sw_breakpoint(addr, FALSE)
  /\ UNCHANGED <<phase, tasks, abort, moe, suspended, returned, panic, hw, target>>

\* GDB's G: any of the registers.
write_registers(c) ==
  /\ InMonitor
  /\ exception_ctx' = c
  /\ UNCHANGED <<cpu, hw, sw, monitor_status, stop_reason, original_hw_lock_state,
                 single_step_request, interrupt_pending>>

\* handle_internal_breakpoint at vexSystemExitRequest; exiting: a client is told.
before_exit(exiting) ==
  /\ InMonitor
  /\ stop_reason = "TrackedSoftwareBreak"
  /\ exception_ctx.pc = ExitAddr
  /\ remove_sw_breakpoint(ExitAddr, TRUE)
  /\ monitor_status' = IF exiting THEN "Exiting" ELSE monitor_status
  /\ UNCHANGED <<phase, tasks, abort, moe, suspended, returned, panic, hw,
                 exception_ctx, stop_reason, original_hw_lock_state,
                 single_step_request, interrupt_pending>>

\* GDB's c, and the end of an exit.
resume ==
  /\ InMonitor
  /\ monitor_status' = "ResumingProgram"
  /\ UNCHANGED <<cpu, hw, sw, exception_ctx, stop_reason, original_hw_lock_state,
                 single_step_request, interrupt_pending>>

\* Faulty variant: the T bit is not looked at.
StepKindArm == "Arm32"

\* request_single_step: the pair that fires everywhere but at the PC.
StepKind == IF exception_ctx.thumb THEN "Thumb16" ELSE "Arm32"

request_single_step ==
  LET result == AddResult(regs, used, exception_ctx.pc, "Mismatch", StepKind)
  IN IF result = "Ok"
     THEN /\ regs' = AddRegs(regs, used, exception_ctx.pc, "Mismatch", StepKind)
          /\ used' = AddUsed(regs, used, exception_ctx.pc, "Mismatch", StepKind)
          /\ single_step_request' = StepRequest(exception_ctx.pc, StepKind)
          /\ monitor_status' = "ResumingProgram"
          /\ UNCHANGED <<phase, panic>>
     ELSE /\ phase' = "panicked"
          /\ panic' = result
          /\ UNCHANGED <<regs, used, single_step_request, monitor_status>>

\* GDB's s, or vCont;s:t where there are tasks: set_resume_action_step, resume.
step(t) ==
  /\ InMonitor
  /\ IF t = task
     THEN request_single_step
     ELSE /\ phase' = "panicked"
          /\ panic' = "OtherTask"
          /\ UNCHANGED <<regs, used, single_step_request, monitor_status>>
  /\ UNCHANGED <<tasks, abort, mem, moe, suspended, returned, locked, sw,
                 exception_ctx, stop_reason, original_hw_lock_state, interrupt_pending>>

-----------------------------------------------------------------------------
\* The program has exited, has crashed or has taken the debugger with it.
Ended == phase \in {"exited", "faulted", "panicked", "overflowed", "lost"}

Stopped == Ended /\ UNCHANGED vars

Program ==
  \/ Execute \/ Fault
  \/ TakeDebugEvent \/ OverflowStack
  \/ Restore
  \/ \E t \in Tasks : ResumeScheduler(t)
  \/ LeaveSystemMode \/ ReturnFromException

Requests ==
  \/ \E addr \in HwRequests, kind \in ArmBreakpointKind :
       add_hw_breakpoint(addr, kind) \/ remove_hw_breakpoint(addr, kind)
  \/ \E addr \in SwRequests : add_sw_breakpoint(addr) \/ remove_user_breakpoint(addr)
  \/ \E c \in WrittenContexts : write_registers(c)
  \/ \E exiting \in BOOLEAN : before_exit(exiting)
  \/ resume
  \/ \E t \in Tasks : step(t)

Next ==
  \/ Program
  \/ \E t \in Tasks : Switch(t)
  \/ request_interrupt
  \/ enter_breakpoint
  \/ Requests
  \/ leave_breakpoint
  \/ Stopped

Spec == Init /\ [][Next]_vars

(***************************************************************************)
(* The program may branch to itself forever, as request_interrupt's doc    *)
(* has it do; where its next instruction traps, faults or exits, it does,  *)
(* an abort runs its handler, and xTaskResumeAll resumes the scheduler.    *)
(* Nothing obliges GDB to ask for anything.                                *)
(***************************************************************************)
Advance == Program /\ phase' # phase

SchedulerResumes == \E t \in Tasks : ResumeScheduler(t)

Fairness == WF_vars(Advance) /\ WF_vars(SchedulerResumes) /\ WF_vars(enter_breakpoint)

FairSpec == Spec /\ Fairness

-----------------------------------------------------------------------------
(***************************************************************************)
(* Type invariant.  phase: the processor is in System mode ("program"), a  *)
(* debug event has been taken ("trapped"), the handler holds the session   *)
(* ("monitor"), it has returned with interrupts still enabled              *)
(* ("returning"), the exception return is next ("leaving"), or the system  *)
(* has ended, the last two ways by what the model says nothing more of: no *)
(* room for a context, or another task's context.                          *)
(***************************************************************************)
StepTypeOK ==
  \/ single_step_request = NoStep
  \/ /\ single_step_request \in [target_addr : Nat, kind : {"Thumb16", "Arm32"}]
     /\ AlignedFor(single_step_request.target_addr, single_step_request.kind)

HwTypeOK ==
  /\ regs \in [Slots -> BreakpointPair]
  /\ used \subseteq Slots
  /\ locked \in BOOLEAN

SwTypeOK ==
  /\ breaks \in [SwSlots -> SwBreakpoint \union {NO_BREAK}]
  /\ breaks_paused \in BOOLEAN
  /\ mem \in [CodeAddrs -> Instruction]

CpuTypeOK ==
  /\ phase \in {"program", "trapped", "monitor", "returning", "leaving",
                "exited", "faulted", "panicked", "overflowed", "lost"}
  /\ task \in Tasks
  /\ state \in [Tasks -> Context]
  /\ at \in [Tasks -> Places]
  /\ irqs \in [Tasks -> BOOLEAN]
  /\ stack \in Seq(Frame)
  /\ spsr \in [task : Tasks, thumb : BOOLEAN, irqs : BOOLEAN]
  /\ moe \in {None, "Breakpoint", "BkptInstr"}
  /\ suspended \in Nat
  /\ returned \in BOOLEAN
  /\ panic \in {None, "NoSpace", "AlreadyExists", "NotAlignedCorrectly", "OtherTask"}

TargetTypeOK ==
  /\ exception_ctx \in Context
  /\ monitor_status \in {"Active", "Exiting", "ResumingProgram"}
  /\ stop_reason \in {"HardwareBreak", "TrackedSoftwareBreak", "UntrackedSoftwareBreak",
                      "Interrupt", "Other"}
  /\ original_hw_lock_state \in BOOLEAN
  /\ StepTypeOK
  /\ interrupt_pending \in BOOLEAN

TypeOK == HwTypeOK /\ SwTypeOK /\ CpuTypeOK /\ TargetTypeOK

(***************************************************************************)
(* The Mismatch pairs in the register file are those of what is pending: a *)
(* Ctrl-C takes the pair of a single step over, and a stop leaves neither  *)
(* (request_interrupt, finalize_single_step, finalize_interrupt).  A pair  *)
(* left behind would stop the program at every instruction.                *)
(***************************************************************************)
StepComparison ==
  Comparison(single_step_request.target_addr, "Mismatch", single_step_request.kind)

SentinelComparison == Comparison(Sentinel, "Mismatch", "Arm32")

Pending ==
  IF interrupt_pending THEN {SentinelComparison}
  ELSE IF StepPending THEN {StepComparison} ELSE {}

MismatchPairsArePending == Holding(regs, "Mismatch") = Pending

(***************************************************************************)
(* One pair is always left for a single step or an interrupt, however many *)
(* hardware breakpoints GDB has set (add_hw_breakpoint's reserve).         *)
(***************************************************************************)
OnePairReserved == Cardinality(SlotsOf(regs, "Match")) < NumBreakpoints

(***************************************************************************)
(* So arming one finds a pair, and finds it unarmed ("This shouldn't fail  *)
(* because we ... ensure there's enough available breakpoint slots",       *)
(* request_interrupt): neither a Ctrl-C nor a step panics for it.          *)
(***************************************************************************)
NoSlotPanic == panic \notin {"NoSpace", "AlreadyExists"}

(***************************************************************************)
(* The scheduler's suspensions and resumes cancel out: it is suspended for *)
(* the stop or the step that is under way, and once more for every context *)
(* whose task stopped on its way to resume it (enter_breakpoint,           *)
(* leave_breakpoint, overlay.s:157-173).  So it is suspended as long as    *)
(* the debugger has the program, and runs once everybody is back in it.    *)
(***************************************************************************)
UnresumedFrames == {i \in DOMAIN stack : stack[i].at = "resuming"}

Resuming == phase = "program" /\ at[task] = "resuming"

HoldsScheduler == StepPending \/ phase \in {"monitor", "returning"}

SchedulerBalanced ==
  ~Ended => suspended = Cardinality(UnresumedFrames)
                          + (IF Resuming THEN 1 ELSE 0) + (IF HoldsScheduler THEN 1 ELSE 0)

(***************************************************************************)
(* The breakpoint registers are unlocked in the monitor, where every       *)
(* change to them is asserted to find them so, and are locked again        *)
(* whenever the program runs, as setup left them.                          *)
(***************************************************************************)
LockedOutsideMonitor ==
  phase \notin {"panicked"} => (locked <=> phase # "monitor")

(***************************************************************************)
(* In the monitor memory is the program's own; outside it every tracked    *)
(* breakpoint is armed and nothing else has changed.                       *)
(***************************************************************************)
BreakpointsArmed ==
  mem = [a \in CodeAddrs |->
           IF ~breaks_paused /\ SlotsAt(breaks, a) # {} THEN "bkpt" ELSE ProgramText[a]]

\* The program executes an instruction, or the overlay one in System mode.
Executes ==
  phase = "program" /\ (state' # state \/ at' # at \/ phase' \in {"exited", "leaving"})

(***************************************************************************)
(* The debugger skips no instruction of the program: it moves the PC on    *)
(* only from a bkpt that is the program's own, never from one of its own   *)
(* breakpoints, whoever set and removed which before (classify_stop,       *)
(* fixup_manual_bkpt).                                                     *)
(***************************************************************************)
SkipsOnlyOwnBkpt ==
  [][phase = "trapped" /\ phase' = "monitor" /\ exception_ctx' # Running
       => ProgramText[Running.pc] = "bkpt"]_vars

(***************************************************************************)
(* While a single step is pending no instruction but the one stepped over  *)
(* is executed (request_single_step).                                      *)
(***************************************************************************)
StepExecutesOneInstruction ==
  [][Executes /\ StepPending => Running.pc = single_step_request.target_addr]_vars

(***************************************************************************)
(* Nor does any other task get to run: the scheduler stays suspended from  *)
(* the stop before the step to the one after it                            *)
(* (should_unpause_scheduler).                                             *)
(***************************************************************************)
StepStaysOnTask == [][StepPending => task' = task]_vars

(***************************************************************************)
(* While an interrupt is pending no instruction at all is executed,        *)
(* wherever the interrupt caught the program (request_interrupt).          *)
(***************************************************************************)
InterruptStopsAtOnce == [][Executes => ~interrupt_pending]_vars

(***************************************************************************)
(* Once an interrupt is armed the program stops, and says it was           *)
(* interrupted, whatever it is doing and whatever else stops it            *)
(* (request_interrupt, classify_stop), if the abort stack has room.        *)
(***************************************************************************)
InterruptIsReported ==
  interrupt_pending ~> \/ phase = "monitor" /\ stop_reason = "Interrupt"
                       \/ phase = "overflowed"

(***************************************************************************)
(* With these, the safety invariants above are inductive: the occupancy    *)
(* table is exact and no comparison is made twice; in the monitor the lock *)
(* to go back to is the one found, no interrupt is pending, and no step    *)
(* until one is asked for; what handle_debug_event returned is about the   *)
(* step that is pending; the context it was given is there; and no task    *)
(* but the current one is about to resume the scheduler.                   *)
(***************************************************************************)
MonitorConsistent ==
  /\ phase = "monitor" => original_hw_lock_state /\ ~interrupt_pending
  /\ InMonitor => ~StepPending
  /\ phase = "returning" => (returned <=> ~StepPending)

StackConsistent ==
  ~Ended =>
    /\ phase \in {"trapped", "monitor", "returning"} => stack # <<>>
    /\ \A t \in Tasks \ {task} : at[t] # "resuming"

TargetInv ==
  /\ TypeOK
  /\ OccupancyAgrees(regs, used)
  /\ AllDistinct(regs)
  /\ MismatchPairsArePending
  /\ OnePairReserved
  /\ NoSlotPanic
  /\ SchedulerBalanced
  /\ LockedOutsideMonitor
  /\ MonitorConsistent
  /\ StackConsistent

(***************************************************************************)
(* A pending step of an ARM instruction, whose comparison covers a whole   *)
(* word, covers no Thumb code: its target is an ARM instruction, or GDB    *)
(* has written a PC and a T bit no instruction is at, and the program has  *)
(* not moved from there.                                                   *)
(***************************************************************************)
StoppedContext ==
  CASE phase = "monitor" -> exception_ctx
    [] phase = "returning" -> Top(stack).ctx
    [] phase = "leaving" -> ReturnContext
    [] OTHER -> Running

StepCoversNoThumb ==
  ~Ended /\ StepPending /\ single_step_request.kind = "Arm32" =>
    \/ single_step_request.target_addr \in CodeAddrs \ ThumbAddrs
    \/ StoppedContext = [pc |-> single_step_request.target_addr, thumb |-> FALSE]
=============================================================================
