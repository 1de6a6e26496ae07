---------------------------- MODULE AbortOverlay ----------------------------
(***************************************************************************)
(* The way of a debug event through the processor under FreeRTOS: the      *)
(* vectors laid over the system's (src/src/exceptions/overlay.s), the      *)
(* handler they call with the session locked (src/src/debugger/mod.rs,     *)
(* src/src/gdb_target/mod.rs) and the poll in every interrupt              *)
(* (src/src/exceptions/mod.rs).                                            *)
(*                                                                         *)
(* The processor has one abort stack and one SPSR_abt for all tasks.  What *)
(* the handler decides and what GDB asks for are any here: V5Target and    *)
(* DebugSession say which.  A context is the task it was taken from, where *)
(* that task was, and its program status.  Breakpoints are in code that    *)
(* tasks run, none is in the code of interrupts or of the debugger.        *)
(***************************************************************************)
EXTENDS Integers, Sequences

CONSTANTS
  Tasks,
  MainTask,         \* the task that installs the debugger
  Flags,            \* the program status that instructions change
  BreakInResume,    \* whether a breakpoint may be in xTaskResumeAll
  MaxFrames,        \* bound: contexts on the abort stack
  ClockPeriod,      \* the milliseconds' range: 2^32
  PollInterval      \* IRQ_POLL_INTERVAL_MS: 10

ASSUME OverlayAssumption ==
  /\ MainTask \in Tasks
  /\ Flags # {}
  /\ BreakInResume \in BOOLEAN
  /\ MaxFrames \in Nat
  /\ {ClockPeriod, PollInterval} \subseteq Nat
  /\ 0 < PollInterval /\ PollInterval < ClockPeriod

VARIABLES
  boot,               \* how far the debugger's installation is
  running,            \* the task that has the processor
  at,                 \* where each task is
  cpsr,               \* the program status of each task
  unpause,            \* r0: what the handler returned to catch_debug_event
  stack,              \* the abort stack
  spsr,               \* SPSR_abt
  suspended,          \* how often the scheduler has been suspended
  session,            \* who has locked the session: a task or "free"
  attached,           \* whether the session is Running, so that poll reads
  single_step_request,
  interrupt_pending,
  now,                \* vexSystemTimeGet
  LAST_POLL_TIME_MS,
  \* history
  todo,               \* the contexts that each task has to return to
  asked,              \* where a single step was asked for
  disturbed,          \* a debug event was taken inside xTaskResumeAll
  since               \* the milliseconds since the last poll, up to ClockPeriod

processor == <<running, at, cpsr, unpause, stack, spsr, suspended>>
target == <<single_step_request, interrupt_pending>>
clock == <<now, LAST_POLL_TIME_MS, since>>
history == <<todo, asked, disturbed>>
vars == <<boot, processor, session, attached, target, clock, history>>

Status == [flags : Flags, masked : BOOLEAN]

\* Where debug events are taken: in System mode.  In Abort mode the processor
\* takes none of the hardware's, and software breakpoints are paused.
SystemMode == {"program", "resuming", "resumed"}
AbortMode == {"trapped", "handler", "left", "returning", "lost"}

Context == [task : Tasks, at : SystemMode, cpsr : Status]

NoStep == [task |-> MainTask, at |-> "program", depth |-> 0]

Top(s) == s[Len(s)]
Pop(s) == SubSeq(s, 1, Len(s) - 1)

Init ==
  /\ boot = "none"
  /\ running \in Tasks
  /\ at = [t \in Tasks |-> "program"]
  /\ cpsr \in [Tasks -> {s \in Status : ~s.masked}]
  /\ unpause = [t \in Tasks |-> FALSE]
  /\ stack = <<>>
  /\ spsr \in Status
  /\ suspended = 0
  /\ session = "free"
  /\ attached = FALSE
  /\ single_step_request = FALSE
  /\ interrupt_pending = FALSE
  /\ now \in 0 .. ClockPeriod - 1
  /\ LAST_POLL_TIME_MS = 0
  /\ todo = [t \in Tasks |-> <<>>]
  /\ asked = NoStep
  /\ disturbed = FALSE
  /\ since = now

MoveTo(t, place) == at' = [at EXCEPT ![t] = place]

\* The CPSR's I bit: cpsid i and cpsie i.
SetMasked(t, masked) == cpsr' = [cpsr EXCEPT ![t].masked = masked]

\* A Mismatch pair fires on the next instruction in System mode.
Firing == single_step_request \/ interrupt_pending

-----------------------------------------------------------------------------
(* Installation: install_by_ref puts the vectors in place and then calls   *)
(* initialize, which holds the session.                                    *)

Installs == running = MainTask /\ at[MainTask] = "program"

install_vectors ==
  /\ boot = "none" /\ Installs
  /\ boot' = "vectors"
  /\ UNCHANGED <<processor, session, attached, target, clock, history>>

BeginInitialize ==
  /\ boot = "vectors" /\ Installs
  /\ session = "free"
  /\ boot' = "initialize"
  /\ session' = MainTask
  /\ UNCHANGED <<processor, attached, target, clock, history>>

EndInitialize ==
  /\ boot = "initialize" /\ Installs
  /\ boot' = "done"
  /\ session' = "free"
  /\ UNCHANGED <<processor, attached, target, clock, history>>

-----------------------------------------------------------------------------
(* The program and the scheduler.                                          *)

\* Instructions change the flags.
Compute ==
  /\ at[running] = "program" /\ ~Firing
  /\ \E f \in Flags : cpsr' = [cpsr EXCEPT ![running].flags = f]
  /\ UNCHANGED <<boot, running, at, unpause, stack, spsr, suspended, session,
                 attached, target, clock, history>>

\* A task is preempted by an interrupt, or gives up the processor itself.
Switch(t) ==
  /\ suspended = 0
  /\ ~cpsr[running].masked \/ at[running] = "program"
  /\ running' = t
  /\ UNCHANGED <<boot, at, cpsr, unpause, stack, spsr, suspended, session,
                 attached, target, clock, history>>

-----------------------------------------------------------------------------
(* Debug events.                                                           *)

\* The vectors' prefetch_abort_handler or data_abort_handler, and
\* catch_debug_event up to its call.
TakeDebugEvent ==
  LET here == [task |-> running, at |-> at[running], cpsr |-> cpsr[running]]
  IN  /\ boot \in {"vectors", "initialize", "done"}
      /\ ~(boot = "initialize" /\ running = MainTask)
      /\ at[running] \in SystemMode
      /\ at[running] = "program" \/ Firing \/ BreakInResume
      /\ Len(stack) < MaxFrames
      /\ MoveTo(running, "trapped")
      /\ SetMasked(running, TRUE)
      /\ spsr' = cpsr[running]
      /\ stack' = Append(stack, here)
      /\ todo' = [todo EXCEPT ![running] = Append(@, here)]
      /\ disturbed' = (disturbed \/ \E t \in Tasks : at[t] \in {"resuming", "resumed"})
  /\ UNCHANGED <<boot, running, unpause, suspended, session, attached, target,
                 clock, asked>>

\* Faulty variant: the scheduler is suspended at every stop.
AlwaysSuspend == suspended' = suspended + 1

\* A single step has left the scheduler suspended.
suspend_preemption ==
  suspended' = IF single_step_request THEN suspended ELSE suspended + 1

\* handle_debug_event: the session is locked, or the task spins on it; then
\* enter_breakpoint, which enables interrupts.
enter_breakpoint ==
  /\ at[running] = "trapped"
  /\ session = "free"
  /\ session' = running
  /\ suspend_preemption
  /\ SetMasked(running, FALSE)
  /\ single_step_request' = FALSE
  /\ interrupt_pending' = FALSE
  /\ MoveTo(running, "handler")
  /\ UNCHANGED <<boot, running, unpause, stack, spsr, attached, clock, history>>

\* leave_breakpoint and the end of handle_debug_event: GDB may have written
\* the flags and asked for a step, or be gone.
leave_breakpoint(flags, step, gdb) ==
  LET written == [Top(stack) EXCEPT !.cpsr.flags = flags]
  IN  /\ at[running] = "handler"
      /\ step => gdb
      /\ stack' = [stack EXCEPT ![Len(stack)] = written]
      /\ todo' = [todo EXCEPT ![running] = Append(Pop(@), written)]
      /\ single_step_request' = step
      /\ asked' = IF step
                  THEN [task |-> running, at |-> written.at, depth |-> Len(todo[running]) - 1]
                  ELSE NoStep
      /\ unpause' = [unpause EXCEPT ![running] = ~step]
      /\ attached' = gdb
      /\ session' = "free"
      /\ MoveTo(running, "left")
      /\ UNCHANGED <<boot, running, cpsr, spsr, suspended, interrupt_pending, clock, disturbed>>

\* Faulty variant: the scheduler is resumed whatever the handler returned.
AlwaysResume(t) == "resuming"

\* cmp r0, #0: into System mode to resume the scheduler, or past that.
AfterHandler(t) == IF unpause[t] THEN "resuming" ELSE "returning"

\* Faulty variant: interrupts stay as the handler left them.
KeepInterrupts(t) == cpsr' = cpsr

MaskInterrupts(t) == SetMasked(t, TRUE)

\* Faulty variant: SPSR_abt is not loaded.
KeepSpsr == spsr' = spsr

\* pop {r1}; msr spsr, r1.
RestoreSpsr == spsr' = Top(stack).cpsr

\* catch_debug_event after its call, up to the scheduler.
Restore ==
  /\ at[running] = "left"
  /\ MaskInterrupts(running)
  /\ RestoreSpsr
  /\ MoveTo(running, AfterHandler(running))
  /\ UNCHANGED <<boot, running, unpause, stack, suspended, session, attached,
                 target, clock, history>>

\* The scheduler may give the processor away before it returns.
xTaskResumeAll(t) ==
  /\ at[running] = "resuming" /\ ~Firing
  /\ suspended' = suspended - 1
  /\ suspended' > 0 => t = running
  /\ running' = t
  /\ MoveTo(running, "resumed")
  /\ UNCHANGED <<boot, cpsr, unpause, stack, spsr, session, attached, target,
                 clock, history>>

\* cps #0b10111: back to Abort mode.
LeaveSystemMode ==
  /\ at[running] = "resumed" /\ ~Firing
  /\ MoveTo(running, "returning")
  /\ UNCHANGED <<boot, running, cpsr, unpause, stack, spsr, suspended, session,
                 attached, target, clock, history>>

\* ldm sp!, {r0-r12, pc}^: the registers, r0 with them, from the stack and the
\* status from SPSR_abt.  A task that got another's is lost, and what it does then is not
\* modelled.
OwnContext == Top(stack) = Top(todo[running]) /\ spsr = Top(todo[running]).cpsr

ReturnFromException ==
  /\ at[running] = "returning"
  /\ stack' = Pop(stack)
  /\ todo' = [todo EXCEPT ![running] = Pop(@)]
  /\ unpause' = [unpause EXCEPT ![running] = FALSE]
  /\ \/ /\ OwnContext
        /\ cpsr' = [cpsr EXCEPT ![running] = spsr]
        /\ MoveTo(running, Top(stack).at)
     \/ /\ ~OwnContext
        /\ MoveTo(running, "lost")
        /\ UNCHANGED cpsr
  /\ UNCHANGED <<boot, running, spsr, suspended, session, attached, target, clock,
                 asked, disturbed>>

-----------------------------------------------------------------------------
(* Interrupts.                                                             *)

Tick ==
  /\ now' = IF now = ClockPeriod - 1 THEN 0 ELSE now + 1
  /\ since' = IF since = ClockPeriod THEN since ELSE since + 1
  /\ UNCHANGED <<boot, processor, session, attached, target, LAST_POLL_TIME_MS, history>>

\* now.wrapping_sub(last)
Elapsed == IF now >= LAST_POLL_TIME_MS
           THEN now - LAST_POLL_TIME_MS
           ELSE now - LAST_POLL_TIME_MS + ClockPeriod

\* Faulty variant: the clock is compared as if it never wrapped around.
DueWithoutWrap == now >= LAST_POLL_TIME_MS + PollInterval

Due == Elapsed >= PollInterval

\* request_interrupt takes over the pair of a step, whose request stays.
poll ==
  \/ /\ session = "free" /\ attached
     /\ interrupt_pending' = TRUE
  \/ UNCHANGED interrupt_pending

\* v5gdb_irq_handler; an interrupt that comes too early does nothing.
irq_poll ==
  /\ boot # "none" /\ ~cpsr[running].masked
  /\ Due
  /\ LAST_POLL_TIME_MS' = now
  /\ since' = 0
  /\ poll
  /\ UNCHANGED <<boot, processor, session, attached, single_step_request, now, history>>

-----------------------------------------------------------------------------

Next ==
  \/ install_vectors \/ BeginInitialize \/ EndInitialize
  \/ Compute
  \/ \E t \in Tasks : Switch(t) \/ xTaskResumeAll(t)
  \/ TakeDebugEvent \/ enter_breakpoint
  \/ \E flags \in Flags, step, gdb \in BOOLEAN : leave_breakpoint(flags, step, gdb)
  \/ Restore \/ LeaveSystemMode \/ ReturnFromException
  \/ Tick \/ irq_poll

Spec == Init /\ [][Next]_vars

-----------------------------------------------------------------------------
(* Properties.                                                             *)

TypeOK ==
  /\ boot \in {"none", "vectors", "initialize", "done"}
  /\ running \in Tasks
  /\ at \in [Tasks -> SystemMode \union AbortMode]
  /\ cpsr \in [Tasks -> Status]
  /\ unpause \in [Tasks -> BOOLEAN]
  /\ stack \in Seq(Context)
  /\ spsr \in Status
  /\ suspended \in Nat
  /\ session \in Tasks \union {"free"}
  /\ {attached, single_step_request, interrupt_pending, disturbed} \subseteq BOOLEAN
  /\ {now, LAST_POLL_TIME_MS} \subseteq 0 .. ClockPeriod - 1
  /\ todo \in [Tasks -> Seq(Context)]
  /\ asked \in [task : Tasks, at : SystemMode, depth : Nat]
  /\ since \in 0 .. ClockPeriod

\* Between a debug event and the resume of the scheduler nobody else gets the
\* processor: at no moment two tasks use the abort stack's registers, and the
\* handler finds the session locked only by initialize (overlay.s:128-130,
\* gdb_target/mod.rs:157-166).
OneInAbortMode ==
  /\ \A t \in Tasks \ {running} : at[t] \in {"program", "resumed"}
  /\ at[running] = "trapped" /\ session # "free" => boot = "initialize"

\* The suspensions and resumes of all tasks, steps and nested events cancel
\* out: the handler runs with the scheduler suspended, and with everybody back
\* in the program it runs (gdb_target/mod.rs:161, :200, overlay.s:169).
SchedulerBalanced ==
  /\ at[running] \in {"handler", "left", "resuming"} => suspended > 0
  /\ (\A t \in Tasks : at[t] = "program") /\ ~single_step_request => suspended = 0

\* If no debug event is taken inside xTaskResumeAll, every task goes on with
\* its own registers and its own status, as GDB left them (overlay.s:128-194).
ReturnsOwnContext == (\E t \in Tasks : at[t] = "lost") => disturbed

\* A step fires in the task and at the level of the program or of the overlay
\* where it was asked for, never in the overlay before its return: that would
\* be "firing the single step inside of the abort handler itself"
\* (overlay.s:164-168).
StepsFireWhereAsked ==
  [][TakeDebugEvent /\ single_step_request =>
       asked = [task |-> running, at |-> at[running], depth |-> Len(todo[running])]]_vars

\* The interrupt polls if PollInterval has passed since the last poll, and only
\* then, also across a wraparound (exceptions/mod.rs:162-165).
PollsKeepPace == since < ClockPeriod => (Due <=> since >= PollInterval)

\* "so that we restore the rest of the saved registers from the task.  This is
\* also necessary so that the current SPSR is the one we popped into"
\* (overlay.s:179-180).
ReturnsWithPoppedStatus == [][ReturnFromException => OwnContext]_vars
=============================================================================
