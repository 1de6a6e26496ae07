---------------------------- MODULE DebugSession ----------------------------
(***************************************************************************)
(* V5Debugger and DebugSession (src/src/debugger/mod.rs): the handler of a *)
(* debug event, which holds the session while it asks GDB what to do, the  *)
(* stages of the GDB session, the poll for Ctrl-C from interrupts while    *)
(* the program runs, and the exit of the program; with GDB at the other    *)
(* end of the serial link.  What the session asks of the target are the    *)
(* actions of V5Target.                                                    *)
(***************************************************************************)
EXTENDS V5Target

CONSTANT MaxRx      \* bound: unread packets from GDB

ASSUME SessionAssumption == MaxRx \in Nat \ {0}

VARIABLES
  stage,            \* SessionStage, and the state of GdbStubStateMachine
  doing,            \* what handle_debug_event is doing
  rx,               \* packets and Ctrl-C bytes GDB has sent that are not read yet
  tx,               \* replies GDB has not read yet
  client            \* what GDB is waiting for

session == <<stage, doing>>
link == <<rx, tx, client>>
sessionVars == <<vars, session, link>>

(***************************************************************************)
(* A packet of GDB's: a command and its argument, or the byte 0x03.        *)
(***************************************************************************)
Packet(cmd, arg) == [cmd |-> cmd, arg |-> arg]

CtrlC  == Packet("CtrlC", <<>>)
Hello  == Packet("?", <<>>)
Detach == Packet("D", <<>>)
Continue == Packet("c", <<>>)
Step(t) == Packet("s", <<t>>)

Questions ==
       {Packet(cmd, <<a, k>>) : cmd \in {"Z1", "z1"}, a \in HwRequests, k \in ArmBreakpointKind}
  \union {Packet(cmd, <<a>>) : cmd \in {"Z0", "z0"}, a \in SwRequests}
  \union {Packet("G", <<c>>) : c \in WrittenContexts}

SessionInit ==
  /\ Init
  /\ stage = "Uninitialized"
  /\ doing = "nothing"
  /\ rx = <<>>
  /\ tx = <<>>
  /\ client = "absent"

-----------------------------------------------------------------------------
(***************************************************************************)
(* The program and the processor, and the handler's first and last calls.  *)
(***************************************************************************)
RunProgram ==
  /\ Program \/ \E t \in Tasks : Switch(t)
  /\ UNCHANGED <<session, link>>

HandlerEnters ==
  /\ enter_breakpoint
  /\ doing' = "handle_stop"
  /\ UNCHANGED <<stage, link>>

HandlerLeaves ==
  /\ \/ doing = "run_debug_console" /\ monitor_status = "ResumingProgram"
     \/ doing = "resume"
  /\ leave_breakpoint
  /\ doing' = "nothing"
  /\ UNCHANGED <<stage, link>>

(***************************************************************************)
(* DebugSession::handle_stop.  A tracked breakpoint's flags are read       *)
(* before its handler runs.                                                *)
(***************************************************************************)
HasClient == stage \notin {"Uninitialized", "Disconnected"}

StoppedAt == breaks[Lowest(SlotsAt(breaks, exception_ctx.pc))]

StopIsTracked == stop_reason = "TrackedSoftwareBreak"

AtExit == StopIsTracked /\ StoppedAt.internal /\ exception_ctx.pc = ExitAddr

EntersMonitor ==
  \/ ~StopIsTracked
  \/ StoppedAt.user
  \/ AtExit /\ HasClient

\* run_debug_console starts with run_state_machine if the session has not yet.
StageOnEntry == IF stage = "Uninitialized" THEN "Idle" ELSE stage

\* Faulty variant: the breakpoint on vexSystemExitRequest is not removed.
HandleExitOnly ==
  /\ monitor_status' = IF AtExit /\ HasClient THEN "Exiting" ELSE monitor_status
  /\ UNCHANGED <<cpu, hw, sw, exception_ctx, stop_reason, original_hw_lock_state,
                 single_step_request, interrupt_pending>>

HandleInternal == IF AtExit THEN before_exit(HasClient) ELSE UNCHANGED vars

HandleStop ==
  /\ doing = "handle_stop"
  /\ HandleInternal
  /\ IF EntersMonitor
     THEN doing' = "run_debug_console" /\ stage' = StageOnEntry
     ELSE doing' = "resume" /\ UNCHANGED stage
  /\ UNCHANGED link

-----------------------------------------------------------------------------
(***************************************************************************)
(* DebugSession::tick_state_machine, once around the console's loop.       *)
(***************************************************************************)
Ticking == doing = "run_debug_console" /\ InMonitor

\* Idle, incoming_data: a question is put to the target and answered.
TickQuestion ==
  /\ Ticking /\ stage = "Idle" /\ rx # <<>>
  /\ LET p == Head(rx) IN
       \/ /\ p.cmd = "Z1"
          /\ IF BreakpointsAvailable(used) <= 1
             THEN UNCHANGED vars
             ELSE add_hw_breakpoint(p.arg[1], p.arg[2])
       \/ p.cmd = "z1" /\ remove_hw_breakpoint(p.arg[1], p.arg[2])
       \/ p.cmd = "Z0" /\ add_sw_breakpoint(p.arg[1])
       \/ p.cmd = "z0" /\ remove_user_breakpoint(p.arg[1])
       \/ p.cmd = "G" /\ write_registers(p.arg[1])
       \/ p = Hello /\ UNCHANGED vars
  /\ rx' = Tail(rx)
  /\ tx' = Append(tx, "answer")
  /\ UNCHANGED <<session, client>>

\* Idle, incoming_data: the program is resumed, and no answer is due yet.
TickResume ==
  /\ Ticking /\ stage = "Idle" /\ rx # <<>>
  /\ \/ Head(rx) = Continue /\ resume
     \/ \E t \in Tasks : Head(rx) = Step(t) /\ step(t)
  /\ stage' = "Running"
  /\ rx' = Tail(rx)
  /\ UNCHANGED <<doing, tx, client>>

\* Idle, incoming_data: Ctrl-C while the program is stopped, or a detach.
TickControl ==
  /\ Ticking /\ stage = "Idle" /\ rx # <<>>
  /\ \/ Head(rx) = CtrlC /\ stage' = "CtrlCInterrupt"
     \/ Head(rx) = Detach /\ stage' = "Disconnected"
  /\ rx' = Tail(rx)
  /\ UNCHANGED <<vars, doing, tx, client>>

\* Faulty variant: the monitor is left whatever was reported.
TickReportAndResume ==
  /\ Ticking /\ stage = "Running"
  /\ resume
  /\ IF monitor_status = "Exiting"
     THEN stage' = "Disconnected" /\ tx' = Append(tx, "exited")
     ELSE stage' = "Idle" /\ tx' = Append(tx, "stop")
  /\ UNCHANGED <<doing, rx, client>>

\* Running: the stop, or the exit, is reported.
TickReportStop ==
  /\ Ticking /\ stage = "Running"
  /\ IF monitor_status = "Exiting"
     THEN resume /\ stage' = "Disconnected" /\ tx' = Append(tx, "exited")
     ELSE UNCHANGED vars /\ stage' = "Idle" /\ tx' = Append(tx, "stop")
  /\ UNCHANGED <<doing, rx, client>>

\* CtrlCInterrupt: interrupt_handled without a stop reason goes back to Idle.
TickCtrlC ==
  /\ Ticking /\ stage = "CtrlCInterrupt"
  /\ stage' = "Idle"
  /\ UNCHANGED <<vars, doing, link>>

\* Disconnected: return_to_idle, for the next client.
TickDisconnected ==
  /\ Ticking /\ stage = "Disconnected"
  /\ IF monitor_status = "Exiting" THEN resume ELSE UNCHANGED vars
  /\ stage' = "Idle"
  /\ UNCHANGED <<doing, link>>

Tick == TickQuestion \/ TickResume \/ TickControl \/ TickReportStop
        \/ TickCtrlC \/ TickDisconnected

-----------------------------------------------------------------------------
(***************************************************************************)
(* Debugger::poll, from an interrupt.  It reads only if the session is     *)
(* free and GDB is waiting for the program, and then throws away what it   *)
(* reads up to the first Ctrl-C.                                           *)
(***************************************************************************)
Interrupts == {i \in DOMAIN rx : rx[i] = CtrlC}

\* Faulty variant: the wrong state is looked for.
PollReadsIdle == irqs[task] /\ SessionFree /\ stage = "Idle" /\ rx # <<>>

\* Faulty variant: bytes are read whoever has the session.
PollReadsAlways == irqs[task] /\ rx # <<>>

PollReads == irqs[task] /\ SessionFree /\ stage = "Running" /\ rx # <<>>

Poll ==
  /\ PollReads
  /\ IF Interrupts = {}
     THEN rx' = <<>> /\ UNCHANGED vars
     ELSE /\ rx' = SubSeq(rx, FirstOf(Interrupts) + 1, Len(rx))
          /\ IF interrupt_pending THEN UNCHANGED vars ELSE request_interrupt
  /\ UNCHANGED <<session, tx, client>>

-----------------------------------------------------------------------------
(***************************************************************************)
(* GDB (external).  It asks one question at a time, and while the program  *)
(* runs sends nothing but Ctrl-C.  It ignores a reply it is not waiting    *)
(* for.  It may be killed, without a word, when nothing is on the line,    *)
(* and another may be started.                                             *)
(***************************************************************************)
Send(p) == Len(rx) < MaxRx /\ rx' = Append(rx, p)

Connect ==
  /\ client = "absent"
  /\ rx = <<>>
  /\ Send(Hello)
  /\ tx' = <<>>
  /\ client' = "answer"
  /\ UNCHANGED <<vars, session>>

Ask ==
  /\ client = "ready"
  /\ \E p \in Questions : Send(p)
  /\ client' = "answer"
  /\ UNCHANGED <<vars, session, tx>>

Resume ==
  /\ client = "ready"
  /\ \E p \in {Continue} \union {Step(t) : t \in Tasks} : Send(p)
  /\ client' = "stop"
  /\ UNCHANGED <<vars, session, tx>>

Interrupt ==
  /\ client = "stop"
  /\ Send(CtrlC)
  /\ UNCHANGED <<vars, session, tx, client>>

Leave ==
  /\ client = "ready"
  /\ Send(Detach)
  /\ client' = "absent"
  /\ UNCHANGED <<vars, session, tx>>

Receive ==
  /\ tx # <<>>
  /\ tx' = Tail(tx)
  /\ client' = CASE Head(tx) = client -> "ready"
                 [] Head(tx) = "exited" -> "absent"
                 [] OTHER -> client
  /\ UNCHANGED <<vars, session, rx>>

Killed ==
  /\ client # "absent"
  /\ rx = <<>>
  /\ tx = <<>>
  /\ client' = "absent"
  /\ UNCHANGED <<vars, session, rx, tx>>

Gdb == Connect \/ Ask \/ Resume \/ Interrupt \/ Leave \/ Killed

SessionNext ==
  \/ RunProgram
  \/ HandlerEnters
  \/ HandleStop
  \/ Tick
  \/ HandlerLeaves
  \/ Poll
  \/ Gdb
  \/ Receive
  \/ Stopped /\ UNCHANGED sessionVars

SessionSpec == SessionInit /\ [][SessionNext]_sessionVars

(***************************************************************************)
(* The program may branch to itself forever; where its next instruction    *)
(* traps, faults or exits, it does, and xTaskResumeAll returns.  The       *)
(* handler and the console's loop run, an interrupt comes at least every   *)
(* few milliseconds and polls, and GDB reads what it is sent.  Nothing     *)
(* obliges GDB to send.                                                    *)
(***************************************************************************)
SessionFairness ==
  /\ WF_sessionVars(RunProgram /\ phase' # phase)
  /\ WF_sessionVars(SchedulerResumes /\ UNCHANGED <<session, link>>)
  /\ WF_sessionVars(HandlerEnters \/ HandleStop \/ Tick \/ HandlerLeaves)
  /\ WF_sessionVars(Poll)
  /\ WF_sessionVars(Receive)

FairSessionSpec == SessionSpec /\ SessionFairness

-----------------------------------------------------------------------------
(***************************************************************************)
(* When GDB believes the program stopped, it is: the handler is in its     *)
(* console, reading what GDB sends (TickReportStop, Poll and HandlerLeaves *)
(* against each other).                                                    *)
(***************************************************************************)
ReadyMeansStopped ==
  client = "ready" =>
    \/ doing = "run_debug_console" /\ InMonitor /\ stage \in {"Idle", "CtrlCInterrupt"}
    \/ phase = "panicked"

(***************************************************************************)
(* What GDB asks is never thrown away: all that poll can find on the line  *)
(* is Ctrl-C, and the greeting of a GDB that connects while the program    *)
(* runs for an earlier one.                                                *)
(***************************************************************************)
PollDiscardsNoQuestion ==
  PollReads => \A i \in DOMAIN rx : rx[i] \in {CtrlC, Hello}

(***************************************************************************)
(* What makes these two inductive: what is on the line fits what GDB waits *)
(* for.  Carries(s, S): nothing but Ctrl-C, and at most one packet of S.   *)
(***************************************************************************)
Resumes == {Continue} \union {Step(t) : t \in Tasks}

Packets == Questions \union Resumes \union {CtrlC, Hello, Detach}

SessionTypeOK ==
  /\ stage \in {"Uninitialized", "Idle", "Running", "CtrlCInterrupt", "Disconnected"}
  /\ doing \in {"nothing", "handle_stop", "run_debug_console", "resume"}
  /\ rx \in Seq(Packets)
  /\ tx \in Seq({"answer", "stop", "exited"})
  /\ client \in {"absent", "answer", "stop", "ready"}

Carries(s, S) ==
  \A i, j \in DOMAIN s : s[i] # CtrlC /\ s[j] # CtrlC => i = j /\ s[i] \in S

NoAnswer(s) == \A i \in DOMAIN s : s[i] # "answer"

EndsInAnswer(s) == s # <<>> /\ \A i \in DOMAIN s : s[i] = "answer" <=> i = Len(s)

AtPrompt == doing = "run_debug_console" /\ InMonitor /\ stage \in {"Idle", "CtrlCInterrupt"}

GdbReady == AtPrompt /\ Carries(rx, {}) /\ tx = <<>>

\* A greeting may be read, or thrown away, at any time; a question only at a stop.
GdbAwaitsAnswer ==
  \/ Carries(rx, {Hello}) /\ NoAnswer(tx)
  \/ AtPrompt /\ Carries(rx, Questions) /\ tx = <<>>
  \/ AtPrompt /\ Carries(rx, {}) /\ EndsInAnswer(tx)

GdbAwaitsStop ==
  \/ AtPrompt /\ Carries(rx, Resumes) /\ ~Carries(rx, {}) /\ tx = <<>>
  \/ stage = "Running" /\ Carries(rx, {}) /\ tx = <<>>
  \/ AtPrompt /\ Carries(rx, {}) /\ tx = <<"stop">>
  \/ stage # "Running" /\ Carries(rx, {}) /\ tx = <<"exited">>

GdbAbsent ==
  \/ Carries(rx, {Hello})
  \/ AtPrompt /\ Carries(rx, {Detach})

LineAgrees ==
  phase # "panicked" =>
    /\ client = "ready" => GdbReady
    /\ client = "answer" => GdbAwaitsAnswer
    /\ client = "stop" => GdbAwaitsStop
    /\ client = "absent" => GdbAbsent

SessionInv == SessionTypeOK /\ LineAgrees

\* GDB waits for the program to stop, and Ctrl-C is the last thing it sent.
CtrlCSent == client = "stop" /\ rx # <<>> /\ rx[Len(rx)] = CtrlC

\* No interrupt polls while the task runs with interrupts masked, out of
\* xTaskResumeAll: a debug event in there has left its status in SPSR_abt and the
\* task has returned with it, or GDB has moved the PC from there.
RunsMasked ==
  phase = "program" /\ ~irqs[task] /\ (at[task] = "program" \/ Running.pc \notin ResumeCode)

(***************************************************************************)
(* Ctrl-C is answered: when it has been sent GDB gets its prompt back, or  *)
(* is told the program has exited, or the system has ended, or a stop      *)
(* inside xTaskResumeAll has cost the program its interrupts.  (A program  *)
(* diverted from an exit that was reported exits unreported the next time: *)
(* the handler's breakpoint is gone.)  A Ctrl-C still unread when GDB      *)
(* resumes the program once more was answered by the stop before.          *)
(***************************************************************************)
CtrlCIsAnswered == CtrlCSent ~> (client # "stop" \/ Ended \/ RunsMasked)

\* The user has asked for a stop at vexSystemExitRequest, or on the way there from
\* the handler.
UserStopsAtExit ==
  \E a \in {ExitAddr} \union ResumeCode :
    \/ \E s \in SlotsAt(breaks, a) : breaks[s].user
    \/ \E idx \in Slots : Fires(regs[idx], a)

(***************************************************************************)
(* A program whose exit GDB is told of does exit, unless GDB wants it to   *)
(* stop at vexSystemExitRequest itself (handle_internal_breakpoint).       *)
(***************************************************************************)
ExitHappens ==
  (monitor_status = "Exiting" /\ ~UserStopsAtExit) ~> phase = "exited"

(***************************************************************************)
(* "once GDB realizes we are exiting, it will disconnect and allow us to   *)
(* return back to calling vexSystemExitRequest"                            *)
(* (src/src/debugger/mod.rs:275): once the exit has been reported, which   *)
(* leaves the session disconnected, nothing stops the program again.       *)
(***************************************************************************)
ExitIsUndisturbed == stage = "Disconnected" => phase # "trapped"
=============================================================================
