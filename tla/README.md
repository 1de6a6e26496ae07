# A verification of v5gdb

v5gdb is a debugger that lives inside the program it debugs: a library on a VEX
V5 brain (one Cortex-A9 core) that catches the processor's debug exceptions,
talks to GDB over the serial port while the program is stopped, and patches
breakpoints into the program while it runs. This directory holds TLA+
specifications of its core, the TLC runs that check them on small instances and
proofs, checked by TLAPS, of what holds for every instance.

Paths below are relative to the repository; `src/src/...` in `PROJECT.json` is
the repository's own `src/` directory.

## The system

| component | source | state | operations |
|---|---|---|---|
| Hardware breakpoint manager | `gdb_target/breakpoint/hardware.rs` | breakpoint register pairs, `used_breakpoints`, the software lock of the register file | `setup`, `reset`, `set_locked`, `add_breakpoint_at`, `remove_breakpoint_at`, `breakpoints_available` |
| Software breakpoint table | `gdb_target/breakpoint/software.rs`, `mod.rs`, `cpu/cache.rs` | `breaks`, `breaks_paused`, the patched memory, the instruction cache | `register_sw_breakpoint`, `remove_sw_breakpoint`, `set_breakpoints_ignored` |
| Debug target | `gdb_target/mod.rs`, `resume.rs` | the stopped program's context, why it stopped, the pending single step and interrupt | `enter_breakpoint`, `leave_breakpoint`, `request_single_step`, `request_interrupt`, GDB's requests |
| Debug session | `debugger/mod.rs` | the session's stage, the state machine of `gdbstub`, the serial link | `handle_debug_event`, `handle_stop`, `run_debug_console`, `poll` |
| Exception overlay | `exceptions/overlay.s`, `exceptions/mod.rs` | abort stack, SPSR_abt, the interrupt mask, `LAST_POLL_TIME_MS` | abort and IRQ handlers, `catch_debug_event`, `irq_poll`, `install_vectors` |
| Scheduler integration | `sys/` | FreeRTOS's tasks and their saved contexts | `suspend_preemption`, task lookup, register access |
| Memory access | `gdb_target/memory.rs`, `mod.rs`, `cpu/vmsa.rs` | the system's two translation tables, read only | `read_addrs`, `write_addrs`, `test_access`, `lookup_l1` |
| Serial multiplexing | `transport/`, `sdk/mod.rs` | the packet being packed, the output ring | `write_all`, `flush_serial`, `read`, `try_read`, the replaced functions of the SDK |
| Host tool | `cli/src/bin/v5gdb.rs` | the chunk read from the port, the COBS decoder | `serve_device_serial`, `handle_packet` |
| Competition, motors, monitor commands | `sdk/`, `gdb_target/monitor.rs` | an atomic word, switches | text commands |

How they interact. A breakpoint raises an abort, which masks interrupts;
`catch_debug_event` saves the context and calls the handler, which takes the
session's lock and keeps it until it returns. `enter_breakpoint` pauses the
software breakpoints, suspends the scheduler, *enables interrupts again* (the
serial port needs them) and undoes what made the program stop. The session then
decides whether anybody is to be told, and if so runs the GDB state machine,
whose requests change the target, until the monitor is told to resume. The
target is left, interrupts are masked, the scheduler resumed, and the exception
returns. While the program runs, every IRQ may call `poll`, which looks for
Ctrl-C on the serial stream, if it gets the session's lock, and then arms a
hardware breakpoint that fires on every instruction.

What is hard here: a Ctrl-C may come at any point of the program, of a single
step or of the way back from the debugger; one register pair has to serve steps
and interrupts while GDB takes the others; state is saved at the entry of one
stop and used at the exit of it or at the entry of the next (the lock, the
step, the scheduler); breakpoints are paused, shared between two owners and
removed while armed; the cache does not follow memory by itself; and GDB and
the program must not disagree on whether it is stopped. All tasks share one
abort stack, which is in use while the scheduler is resumed. The serial ring
holds fewer bytes than a packet may need, and the host reads them in any
pieces. `PROJECT.json` lists these hazards, each at its line, with the
properties that cover it.

## The modules

```
HwBreakpointOps   SwBreakpointOps        operators on the two breakpoint tables
   |        \        /        |
HwBreakpoints \    /   SwBreakpoints     each table as a component of its own
   |           \  /           |
HwBreakpointSet V5Target  SwBreakpointSet   what each promises; the target
                   |
              DebugSession               the session, and GDB

AbortOverlay                             the exception path by itself: the order
                                         of the overlay's instructions, the poll
SerialLink -- Cobs                       the port under the session, and the
                                         host tool at its other end
MemoryAccess                             the memory requests' walk of the
                                         translation tables
FreeRtosTasks -- TaskRegisters           the tasks' saved registers, and what
                                         thread access promises of them
```

* **HwBreakpointOps** has the register pairs and the occupancy table as values,
  and `add_breakpoint_at`, `remove_breakpoint_at` and `split_addr` as operators
  on them. A pair is what it compares: its type, the word and the bytes of the
  word. What a disabled pair still holds is forgotten, since the code never
  reads it again. `Fires` is the processor's side.
* **HwBreakpoints** is the manager under every sequence of calls. A call on a
  locked register file panics by assertion, so it is not taken.
  **HwBreakpointSet** is the abstract specification: a bounded set of
  comparisons with the answers a caller may rely on.
* **SwBreakpointOps** has the table `breaks` and the code in memory. Code is
  one instruction per address, `bkpt` or something else; each address is in one
  instruction set, so that one `bkpt` stands for both encodings and the backup
  of a 16-bit or a 32-bit instruction is one value. `set_enabled` writes only
  when the state changes, as the code does.
* **SwBreakpoints** adds the instruction cache and GDB's writes of code.
  `Evict` is the cache dropping a line on its own. GDB takes its own
  breakpoints out at a stop before it writes, so `write_addrs` writes where
  none is tracked. **SwBreakpointSet** is the abstract specification: who wants
  a stop at which address.
* **V5Target** composes both tables with the processor, the program, the
  scheduler, the way of a debug event into the handler and back, and the
  target's own state, in the build for FreeRTOS. `phase` says who has the
  processor: the program in System mode, the abort that was taken (`trapped`),
  the handler (`monitor`), `catch_debug_event` after the handler with interrupts
  still enabled (`returning`), and its exception return (`leaving`). The
  scheduler is resumed in System mode, by instructions the processor executes
  like the program's: `at` says that a task is `resuming` or has `resumed` it,
  `ResumeCode` where these instructions are, and pairs and patches stop the task
  there too, with its context still on `stack` and its status in `spsr`. A
  context is its PC and its T bit. The program is any: it branches wherever its
  code is. GDB's requests come in any order here. An abort stack without room
  (`overflowed`) and a return with another task's context (`lost`) end a
  behaviour: what the program does then is not said.
* **DebugSession** adds `handle_stop`, the handler of `vexSystemExitRequest`,
  the loop of `run_debug_console` with the states of `gdbstub`'s machine as
  `stage`, `poll`, and GDB: it greets, asks one question at a time, resumes,
  sends Ctrl-C while it waits for the program, detaches, or dies. Its actions
  are conjunctions with those of V5Target. `Uninitialized` and the machine's
  states are one variable because `Active` adds nothing to the machine's state.
* **FreeRtosTasks** is thread access: the registers of the current task in the
  exception's context, those of the others in the contexts the kernel pushed on
  their stacks. It stands beside V5Target, which knows no registers but the PC
  and the T bit: here the memory of the stacks is words, a context is one word
  per register in the order of `SavedTaskContextFPU`, and `set_sp`,
  `saved_context` and the writes of contexts do to it what the code does, each
  panic included. Between stops the program computes, pushes and pops, and
  FreeRTOS switches, creates, deletes and reclaims tasks. **TaskRegisters** is
  the abstract specification: one register file per thread ID, with no memory,
  no contexts and no regard for who has the processor; it says exactly when a
  request may be refused, and when the debugger may panic.
* **AbortOverlay** is the way of a debug event through the processor: the
  vectors, `catch_debug_event` instruction by instruction where the order
  matters (the mask, SPSR_abt, the stack, the mode), the handler as its effect
  on the session's lock, the scheduler and the pending step, `xTaskResumeAll`
  in System mode, and the exception return. V5Target has this path with the
  pairs and patches that fire on it; here anything may fire, the session's lock
  and the vectors are added, and what a step or an interrupt is promised is
  stated of the levels of nesting. `at` is where each task is; a
  context is the task it was taken from, where that task was, and its status.
  What GDB asks for is any: V5Target and DebugSession say which. Installation
  and the rate limit of `irq_poll` with its clock are here too. A task that
  returned with another's registers is `lost`, and nothing more is said of it.
* **Cobs** is the encoding of `mux.rs` and of the `cobs` crate the host uses,
  which is not in the repository and is modelled from how it is used. A full
  block has `MaxRun` bytes (254 in the code).
* **SerialLink** has a writer for the program and one for the debugger, each in
  the loop of `mux::write_all` around that of `serial::write_all`, the ring,
  `flush_serial`, the reads of the monitor and of the poll, the redirection of
  the SDK's four functions at the first stop, and the host's loop with the
  decoder. DebugSession takes the link for a reliable one of whole packets;
  this module is why it may.
* **MemoryAccess** is one memory request: the choice of the table, the lookup
  in physical memory, the permissions, the walk of `test_access` from section
  to section, and the copy. What the system has mapped (`tt0`, `tt1`) is a
  variable beside the descriptors, so that the properties are about the former
  and the code reads the latter.
* **MC...** modules give the runs their program, addresses and data.
* **BreakpointLemmas** states what the operators preserve;
  **HwBreakpointProofs, SwBreakpointProofs, V5TargetProofs** (the target and
  the session on it), **AbortOverlayProofs, MemoryAccessProofs,
  FreeRtosTasksProofs** and **SerialLinkProofs** hold the theorems.

Definitions marked *Faulty variant* are what a plausible bug would make of the
definition after them. No specification uses them; they are there to see the
properties fail.

## The runs

| run | instance | states | result |
|---|---|---|---|
| MCHwBreakpoints | 3 pairs; addresses 0, 2, 4, 5 with all kinds | 9,988 | passes |
| MCSwBreakpoints | 2 slots; 3 writable addresses and a read-only one | 38,772 | passes |
| MCV5Target | 2 pairs, 2 slots, 2 tasks, 2 contexts on the abort stack; ARM and Thumb code | 1,601,550 | passes |
| MCDebugSession | 2 pairs, 2 slots, 1 task, 2 contexts, 2 unread packets | 1,060,076 | passes |
| MCFreeRtosTasks | 3 control blocks, room to list 2; contexts of 4 words | 1,076,826 | passes |
| MCAbortOverlay | 2 tasks, 3 contexts on the abort stack, a clock of 4 ms | 1,663,232 | passes |
| MCSerialLink | blocks of 4 bytes, a ring of 6 | 424,574 | passes |
| MCMemoryAccess | 4 sections of 2 bytes, the border of the tables in two places | 684,990 | passes |
| SwCacheSync | as MCSwBreakpoints | | violation of a doc |
| SessionExit | as MCDebugSession | | violation: a bug |
| FreeRtosWrite | as MCFreeRtosTasks | | violation: a bug |
| OverlayReturn | as MCAbortOverlay | | violation: a bug |

What the passing runs show, in a sentence each: the register manager is a
bounded set of comparisons; the software table a bounded map from addresses to
owners, and what the processor fetches is what it says; the target leaves
nothing armed, never runs out of pairs, keeps the scheduler's suspensions and
resumes in balance over events nested in its own return, and stops when it is
told to; the session never disagrees with GDB on whether the program is stopped,
never takes a breakpoint of the debugger's for a `bkpt` of the program's, and
answers every Ctrl-C unless a stop inside `xTaskResumeAll` has cost the program
its interrupts; every thread is one register file; the handler has the processor
to itself on the one abort stack; the two serial streams come apart as they
went in; a memory request touches exactly what it may.

Why the bounds are enough to be of use:

* *Register pairs.* With three, a free pair can lie before, between and after
  used ones. In V5Target, two are one for GDB and the reserve: every request
  beyond the first meets the reserve.
* *Addresses.* 0 and 2 share a word with the ARM breakpoint at 0, so that
  comparisons overlap without being equal; 5 is misaligned for everything.
  In V5Target the Thumb instructions at 8 and 10 share a word, which is where a
  step armed with the wrong kind skips one; 8 takes a hardware breakpoint, and
  0, which is `xTaskResumeAll`'s and the program's, a software breakpoint, so
  that a task stops on its way to resume the scheduler as well.
  MCDebugSession has a `bkpt` of the program's own instead of Thumb code.
* *Slots.* Two slots for three writable addresses make the table overflow.
* *Tasks.* Two are enough for a step to lose its task.
* *MaxRx.* Two unread packets hold a question and the Ctrl-C that races it.
* *Contexts.* Those GDB writes in MCV5Target are a PC no
  instruction of the current set can be at, with which the panic of
  `request_single_step` happens in the run, and the ARM set where Thumb code is,
  with which a step is armed over two Thumb instructions at once; in
  MCDebugSession it writes an instruction to go on from.
* *MaxFrames.* In V5Target two contexts are a stop and one nested in its
  return; the third overflows, and InterruptIsReported says so.

* *Saved contexts.* With one word of stack to spare, the stack pointer has two
  places, and a context written at one overlaps the context or the live word at
  the other. Words 0 and 1 tell a flag from none. Three control blocks are a
  running task and two others, one of them disturbed if the wrong one is
  written; a third task created in the block of a deleted one meets an ID that
  is no longer valid. With room for two the list overflows, by a deleted task
  as well. `MaxComputed = 1` and `MaxWritten = 2`: a task pushes or enters a
  critical section, then GDB writes twice, at one stop or at two.
  What MCWrittenRegs and MCWrittenWords write differs from what is there.

* *The abort stack.* Three contexts are two tasks' and one of a debug event
  nested in the first one's return. `MaxFrames` is a guard of `TakeDebugEvent`
  and not of the code: a breakpoint inside `xTaskResumeAll` itself nests
  without end, since every return from it meets it again. Without breakpoints
  there (`BreakInResume`) a Ctrl-C or a step still fires there; the run has
  both. The clock has 4 values and polls are 2 apart, so that it wraps within
  two polls.
* *The link.* With blocks of 4 bytes and a ring of 6, the debugger's data fills
  a block and ends with it, needs two packets, or has a zero; a frame is longer
  than the room that is left; and the host's reads cut frames at every byte.
* *Memory.* Four sections of two bytes: a range covers up to three of them,
  begins in the middle of one, ends at the border of one, of the tables or of
  memory. N is 0 (one table) or 1; the tables lie before and behind each other
  and the base registers' attribute bits are set or not. One request is made in
  each behaviour: nothing is kept from one to the next.

`CHECK_DEADLOCK` is on but for FreeRtosTasks, where a panic is the end;
SerialLink, which has said everything after `MaxWrites` calls, with the host
idle; and MemoryAccess, which is done after its request. In V5Target and
DebugSession the program may exit, fault, or panic in the debugger; `Stopped`
is the step it makes then.

### Fairness

V5Target: if the program's next instruction traps, faults or exits, it is
executed in the end, an abort runs its handler (`WF(Advance)`,
`WF(enter_breakpoint)`), and `xTaskResumeAll`, which is finite code with
interrupts masked, gets to resume the scheduler (`WF(SchedulerResumes)`). The program may branch to itself for ever, which is
what Ctrl-C is for, and GDB is obliged to nothing. DebugSession: the handler
and the console's loop run, since nothing preempts them but interrupts that
return; polls come, since the system timer interrupts every few milliseconds
and `irq_poll` lets one through every 10 ms; and GDB reads what it is sent. No
poll comes while the program runs with interrupts masked for good, which it
does once an event inside `xTaskResumeAll` has left its status in SPSR_abt (see
OverlayReturn) or GDB has moved the PC away from there: `RunsMasked`, and
`CtrlCIsAnswered` leaves it out by name.
SerialLink: the writer that has the processor goes on packing and writing, as
its loops do, and the host's loop reads and parses what it read; nobody is
obliged to write, to stop or to resume. The packing and parsing steps are
stated there by what they do to `buf` and `incoming`, which no other step
shortens: they get shorter.

### What the violations show

* **SessionExit.** With a breakpoint of the user's at `vexSystemExitRequest`,
  GDB is told the program exited, and leaving the monitor arms that breakpoint
  again: the program is trapped once more instead of exiting, although
  "once GDB realizes we are exiting, it will disconnect and allow us to return
  back to calling vexSystemExitRequest" (`src/debugger/mod.rs:275`).
* **FreeRtosWrite.** GDB writes all registers of a switched-out task, with
  another stack pointer. `write_registers` moves the stack pointer and looks
  for the FPU flag where nothing has been written yet; where that word is 0 the
  debugger panics with the context lost, although `saved_context` "panics if
  the task doesn't have a saved FPU context" (`src/sys/freertos/api.rs:118`)
  and this one has. `write_single_register` takes the context along. Apart from
  this and from values of the wrong width, ImplementsTaskRegisters shows that
  no request panics.
* **SwCacheSync.** `write_addrs` does not sync the caches, which
  `src/cpu/cache.rs:3` demands of operations that change instructions.
* **OverlayReturn.** `catch_debug_event` loads SPSR_abt and leaves the rest of
  the context on the abort stack, then calls `xTaskResumeAll` in System mode,
  where debug events are taken and which may yield. A task that stops meanwhile
  pushes on the same stack and overwrites SPSR_abt; so does the stopped task
  itself when a poll got its Ctrl-C in between the handler's return and
  `cpsid i`. The interrupted return then pops another task's registers, or
  returns with the status of the event inside: interrupts masked, the wrong
  instruction set. The comment at `src/exceptions/overlay.s:179` says the
  SPSR is "the one we popped". `ReturnsOwnContext` shows that this is the only
  way to it: without an event inside `xTaskResumeAll` every context goes back
  to its task.

Disagreements too small for a run of their own: `remove_sw_breakpoint` says it
returns "whether any changes were made", and answers `false` where it cleared
one of two flags; `handle_debug_event` says interrupts are disabled again when
it returns (`src/src/exceptions/mod.rs:134`), and they are not until the
overlay's `cpsid i`; `memory.rs:10`
says how many bytes "were possible to read", and the saturation of the range
keeps byte 0xFFFF_FFFF out of reach (`InReach`); after an invalid COBS frame
the host tool forgets what it fed the decoder in earlier chunks, so that fewer
bytes are shown than came.

## The proofs

The theorems hold for every value of the constants that satisfies the named
assumptions (`NumBreakpointsAssumption`, `AddressesAssumption`, `SwAssumption`,
`SwComponentAssumption`, `TargetAssumption`, `OverlayAssumption`,
`MemoryAssumption`, `SessionAssumption`, `TasksAssumption`, `CobsAssumption`,
`LinkAssumption`): any number of registers, slots, tasks and sections, any
program, any mapping, any layout of a task's context, any requests, any ring,
any length of a COBS block and any bytes written.

**HwBreakpointProofs.** `HwInv` is inductive as it stands: type correctness
needs the occupancy table to say which pair is free, and the absence of
duplicates needs the scan to have looked at every enabled pair. From it,
`RefinesSet`: each call maps to the same call of the set. The one step that
needs work is the cardinality of the set: the pairs in use and the comparisons
made are in bijection because no comparison is made twice, so "no free pair" is
"the set is full".

**V5TargetProofs.** `TargetInv` adds to the safety invariants what makes them
inductive together:

* that no free pair is enabled and no comparison is made twice, without which
  removing a step's pair might leave a copy of it, or arming one might fail;
* `MonitorConsistent`: in the monitor no interrupt is pending, no step until
  one is asked for, and the lock to go back to is closed; and what the handler
  returned is about the step that is pending. Without the last the scheduler's
  balance is lost at `Restore`;
* `StackConsistent`: from a trap to `Restore` the stopped context is on the
  stack, and no task but the current one is about to resume the scheduler.

`SchedulerBalanced` counts. A debug event inside `xTaskResumeAll` suspends the
scheduler a second time and pushes a task that has still to resume it; so the
number of suspensions is that of the contexts on the stack that were `resuming`,
one more if the current task is, and one more for the stop or the step under
way. The lemmas on `Unresumed` say how a push, a pop and GDB's write of the
stopped context change that count; `ProgramKeepsBalance` is the processor's
side. Which task's context is on top does not matter to it: a return that would
take another's ends the behaviour as `lost`.

That the reserve holds is the count behind `NoSlotPanic`: fewer Match pairs
than pairs, and no Mismatch pair once the step's is removed, leave one free.
One lemma per action, and `NextPreserves` puts them together. `StepsStayOnTask`
and `InterruptsStopAtOnce` follow from the invariant: the scheduler cannot
switch while it is suspended, and the sentinel's pair fires on every
instruction because no instruction is in its word.

`StepsExecuteOneInstruction` needs one more invariant, `StepCoversNoThumb`. The
pair of an ARM step lets a whole word through, so that Thumb code in it would
run without a stop. The step was asked for where the T bit was clear: there is
an ARM instruction, which takes up its word (the last assumption of
`TargetAssumption`), or there is none and GDB wrote the registers, and the
program stays there until it faults or stops.

`BreakpointsStayArmed` needs none of this: that every patch in memory is one of
the table's (`TableOK` in BreakpointLemmas) is kept by each of the three
calls on the table, and the target changes it by these calls alone.
`SkipsNothingElse` follows: a `bkpt` that stopped the program is in memory
(`TrappedAtBkpt`), so that it is the table's, and classified as tracked, or the
program's own.

**SwBreakpointProofs.** `SwInv` is that same `TableOK`, with what the processor
fetches: where nothing is tracked the cache has the program's instruction,
except where GDB wrote (`UntrackedFetched`), and where something is tracked and
breakpoints are not paused it has `bkpt` (`TrackedFetched`). Both are needed
while breakpoints are paused too: the first because a removal syncs only the
address it restored. `RefinesMap` maps each call to one of SwBreakpointSet; "no
slot is empty" is "the map is full" because slots in use and tracked addresses
are in bijection.

**The session** is the last part of V5TargetProofs. By its definition every
step of the session is one of V5Target's or leaves the target alone
(the lemma `SessionSteps`), so that V5Target's theorems hold of it:
`SessionNeverRunsOutOfPairs`, `SessionSkipsNothing`. `SessionInv` adds what is on the serial line,
case by case of what GDB waits for: no byte but Ctrl-C and at most one packet,
of the kind that fits. From it `PromptMeansStopped` and `PollsLoseNothing`: the
poll finds no question to throw away because GDB asks only at a prompt, and the
prompt is taken back before the program runs.

**AbortOverlayProofs.** `OverlayInv` counts: who is between a debug event and
the resume of the scheduler has the processor, and the number of suspensions is
that of the events that have not been resumed, plus the step's. The abort stack
is the running task's `todo` as long as no event came inside `xTaskResumeAll`,
which gives `ContextsReturn`; what the clock has advanced since the last poll
gives `PollsKeepTheirPace` for any period and any interval below it.

**MemoryAccessProofs.** `AccessInv` is the loop invariant of `test_access`: all
bytes of the range below `check_addr` may be accessed, and where the walk ended
early, the one at `range_end` may not. The lookup reads the descriptor the
system mapped because the tables are aligned to their size.

**FreeRtosTasksProofs.** The layout is arithmetic on places: every field of a
context has its word and no two share one (`LayoutFacts`, `FieldPlaces`), the
stacks have no word in common (`StacksDisjoint`), so that what is written below
one task's stack pointer is read back as written and disturbs neither another
stack nor what lies above (`WholeWritten`, `WholeFieldWritten`).
`SavedContextsAreWhole` is not inductive alone. `TasksInv` adds that IDs are not
shared, without which the stack pointer GDB means for one task could go to
another; that the current task's stack pointer leaves room for its context,
which the next switch writes; that the critical nesting in every context is one
the processor had; and that no reply is pending while the program runs and none
but a panic's ends the stop. `StacksAreKept` follows step by step.
`RefinesTaskRegisters` maps each ID to what its task sees (`View`): a switch
changes no view although it changes where two of them are, a request changes the
view of one task, and a deleted task's ID leads nowhere.

**SerialLinkProofs.** First the operators. `Encode`, `Whole` and `Decode` are
recursive functions on the positions of a sequence, and to use their equations
one must know that a solution exists: what they make of a position they make
from later ones, so that it does by downward induction over a set of positions
(`DownwardInduction`, from the library's theorem that < is well-founded on the
naturals, which takes no operator as a parameter). `DecodeEncode` then goes block by block: the
block an encoding begins with is read back, and what is left is the encoding of
the rest. `FirstPacket` and the `Push...` lemmas say what the decoder makes of a
stream that begins with a packet, and of one that does not have a whole one yet.

Three invariants stand on that:

* `InputInv`: what was typed is numbered, and what the debugger read and what
  waits are consecutive up to the last; while nobody has redirected the input
  the program may take bytes, afterwards it may not.
* `BytesInv`: types, with two facts the steps need. A packet has its zero at
  its end and nowhere else (what is left of a packet still ends so), and what
  the decoder was fed in earlier chunks has no zero after another byte
  (`Quiet`). Without the second the decoder could find a packet in bytes it
  had already looked at.
* `StreamsInv`, for `StreamsAreKeptApart`. A stream *carries* a body for each
  writer when it is packets, one after the other, and a writer's body is the
  payloads of its packets joined (`Carries` is the least relation that holds of
  the empty stream and is kept by putting a packet in front). `Accounted` says
  that what the host was fed, what is in its port, what is in the ring and the
  rest of the packet of which a part is in the ring, in this order, carry a
  body `rest`; and that what came out at the host, `rest`, the packet that is
  made but not begun, and the buffer, joined, are what was written. At most one
  writer has a packet partly in the ring. With it goes `MonitorInv`: while the
  program runs the debugger holds nothing back, because it flushes before it
  returns. `Carries` quantifies over all relations, which no model checker can
  enumerate: TLC checks the property and not this invariant.

Only model-checked: the four liveness properties (`InterruptIsReported`,
`CtrlCIsAnswered`, `ExitHappens`, `EverythingArrives`), because fairness is
beyond the prover. Every other property of a passing run is a theorem.
Only proved: `BreakpointsArmed`, which MCSwBreakpoints checks of the table alone
(`TableConsistent`, `ProgramTextShown`,
`BreakpointsTakeEffect`).

## Not modelled

* Breakpoints in code that runs from interrupts or that the debugger itself
  calls, and the spinning on the session's lock they would cause. With the lock
  held by `initialize`, which runs with the scheduler on, another task that
  stops does spin for ever: `OneInAbortMode` allows exactly this.
* `session()`, which lends the session's guard to the user's code.
* A new GDB that connects while the program runs: its greeting is read by the
  poll and thrown away until something stops the program; no doc promises
  otherwise.
* Task names, the bare system without FreeRTOS, where there is no scheduler to
  suspend or resume, tasks without an FPU context (any access to one
  panics, as documented), stack pointers outside the task's stack ("We trust
  that GDB will not corrupt system state"), and the lock on the task array,
  which nothing contends for.
* In SerialLink: all tasks of the program are one writer; a push that the
  encoder refuses is taken to leave it unchanged; the decoder's buffer is large
  enough; channels but the USB port pass through. Bytes written before the
  first stop have no frame, and a stop in the middle of a frame of the
  program's puts the monitor's first frame inside it: the host loses both. The
  code does not guard against either, and `clean` excludes them by name.
* In MemoryAccess: domains are Clients, TTBCR disables no walk, no write
  changes a descriptor, and pages are refused as in the code. GDB's writes over
  a tracked breakpoint are not modelled; SwBreakpoints has its writes of code
  elsewhere.
* In AbortOverlay and V5Target: aborts that are no debug events, which fall through to the
  program's own handlers; that `xTaskResumeAll` keeps interrupts masked where
  they were is taken from its use.
* The competition override, one atomic word the replaced function reads; the
  motors' stop, sent once per stop; the monitor's text commands; and the
  definitions of processor registers, which have no behaviour of their own.
* Watchpoints (never armed), halting debug events (the mode is off).
* The C interface, the host tool's device I/O, the build tasks and the
  examples: glue and I/O.

## Plan

1. The installation as a module of its own, before the exception overlay.
2. Code that runs from interrupts, with breakpoints in it.
