--------------------------- MODULE FreeRtosTasks ---------------------------
(***************************************************************************)
(* The registers of the program's tasks under FreeRTOS, as GDB reads and   *)
(* writes them at a stop: those of the current task in the context the     *)
(* exception saved, those of every other task in the context that the      *)
(* kernel pushed on that task's stack when it was switched out             *)
(* (src/src/gdb_target/thread.rs, single_register_access.rs,               *)
(* src/src/sys/freertos/).                                                 *)
(*                                                                         *)
(* A register of the context is one word here, whatever its width; every   *)
(* task has a context with FPU registers, the only layout the code has.    *)
(***************************************************************************)
EXTENDS Integers, FiniteSets, SequencesExt

CONSTANTS
  Handles,          \* the task control blocks, 1 to their number
  StackWords,       \* the length of each task's stack
  FpuRegs,          \* the registers of FPUContext, in its order
  BaseRegs,         \* the registers of BaseContext, in its order
  WideRegisters,    \* those of eight bytes
  Words,            \* what a word of memory may hold
  WrittenRegs,      \* what GDB writes into all registers but SP at once
  WrittenWords,     \* what GDB writes into a single one, and what tasks compute
  TaskArrayLength,  \* the length of scan_tasks' TASK_ARRAY
  MaxTaskNumber,    \* bound: how many tasks are ever created
  MaxComputed,      \* bound: how often a task changes its registers
  MaxWritten        \* bound: how often GDB asks to change some

\* SavedTaskContextFPU, from its lowest address.
Layout == <<"ulPortTaskHasFPUContext">> \o FpuRegs \o <<"ulCriticalNesting">> \o BaseRegs

SIZE_OF_CONTEXT == Len(Layout)

Fields == ToSet(Layout)

Offset == [f \in Fields |-> (CHOOSE i \in DOMAIN Layout : Layout[i] = f) - 1]

SavedRegisters == ToSet(FpuRegs) \union ToSet(BaseRegs)

Registers == SavedRegisters \union {"sp"}

ASSUME TasksAssumption ==
  /\ IsFiniteSet(Handles) /\ Handles = 1 .. Cardinality(Handles)
  /\ Cardinality(Handles) >= 2
  /\ {FpuRegs, BaseRegs} \subseteq Seq(STRING)
  /\ IsInjective(Layout) /\ "sp" \notin Fields
  /\ WideRegisters \subseteq ToSet(FpuRegs)
  /\ StackWords \in Nat /\ StackWords >= SIZE_OF_CONTEXT
  /\ {0, 1} \subseteq Words /\ Words \subseteq Nat
  /\ WrittenRegs \subseteq [SavedRegisters -> Words] /\ WrittenWords \subseteq Words
  /\ TaskArrayLength \in Nat
  /\ MaxTaskNumber \in Nat /\ MaxTaskNumber >= 2
  /\ MaxComputed \in Nat /\ MaxWritten \in Nat

VARIABLES
  \* the program and FreeRTOS
  phase,            \* "program" runs, is "stopped", or the debugger "panicked"
  pxCurrentTCB,     \* the current task
  xTaskNumber,      \* each task's number, its ID for GDB; 0: no such task
  deleted,          \* the tasks whose memory is yet to be reclaimed
  uxTaskNumber,     \* the last number given
  stack_ptr,        \* the first word of each task's control block
  mem,              \* the memory of the stacks
  ulCriticalNesting,\* of the current task
  \* V5Target
  exception_ctx,    \* the current task's registers; the processor's, while it runs
  answer,           \* GDB's request and the reply, until GDB has it
  changes           \* how often registers have been computed and written

rtos == <<pxCurrentTCB, xTaskNumber, deleted, uxTaskNumber, ulCriticalNesting>>
regs == <<stack_ptr, mem, exception_ctx>>
vars == <<phase, rtos, regs, answer, changes>>

Base(h) == (h - 1) * StackWords
Top(h)  == h * StackWords

Address == 0 .. Cardinality(Handles) * StackWords - 1

\* Where a task's stack pointer may be if its context is to fit below it.
StackPointers(h) == Base(h) + SIZE_OF_CONTEXT .. Top(h)

RegisterFile == [sp : Nat, regs : [SavedRegisters -> Words]]

Existing == {h \in Handles : xTaskNumber[h] # 0}
Live     == Existing \ deleted
Saved    == Live \ {pxCurrentTCB}

-----------------------------------------------------------------------------
(***************************************************************************)
(* Saved contexts.                                                         *)
(***************************************************************************)
\* Faulty variant: the logical stack pointer is stored as a register.
NewContextWithSp(file, nesting) ==
  [f \in Fields |->
     CASE f = "ulPortTaskHasFPUContext" -> 1
       [] f = "ulCriticalNesting" -> nesting
       [] OTHER -> file.sp]

\* SavedTaskContextFPU::new
NewContext(file, nesting) ==
  [f \in Fields |->
     CASE f = "ulPortTaskHasFPUContext" -> 1
       [] f = "ulCriticalNesting" -> nesting
       [] OTHER -> file.regs[f]]

\* ptr.write(ctx), and ptr.read()
WriteContext(m, ptr, ctx) ==
  [a \in DOMAIN m |-> IF a \in ptr .. ptr + SIZE_OF_CONTEXT - 1
                      THEN ctx[Layout[a - ptr + 1]] ELSE m[a]]

ReadContext(m, ptr) == [f \in Fields |-> m[ptr + Offset[f]]]

\* TaskStatus_t::sp
Sp(h) == stack_ptr[h] + SIZE_OF_CONTEXT

\* TaskStatus_t::saved_context, which panics otherwise
HasFpuContext(ptr) == mem[ptr + Offset["ulPortTaskHasFPUContext"]] # 0

SavedFile(h) ==
  [sp |-> Sp(h), regs |-> [r \in SavedRegisters |-> ReadContext(mem, stack_ptr[h])[r]]]

-----------------------------------------------------------------------------
(***************************************************************************)
(* Init: two tasks were created and one of them is running.                *)
(***************************************************************************)
NewFile(h) == [sp |-> Top(h), regs |-> [r \in SavedRegisters |-> 0]]

NewStackPtr(h) == Top(h) - SIZE_OF_CONTEXT

NoAnswer == [request |-> [op |-> "none"], reply |-> [status |-> "none"]]

Init ==
  /\ phase = "program"
  /\ pxCurrentTCB = 1
  /\ xTaskNumber = [h \in Handles |-> IF h <= 2 THEN h ELSE 0]
  /\ deleted = {}
  /\ uxTaskNumber = 2
  /\ stack_ptr = [h \in Handles |-> NewStackPtr(h)]
  /\ mem = WriteContext([a \in Address |-> 0], NewStackPtr(2), NewContext(NewFile(2), 0))
  /\ ulCriticalNesting = 0
  /\ exception_ctx = NewFile(1)
  /\ answer = NoAnswer
  /\ changes = [computed |-> 0, written |-> 0]

-----------------------------------------------------------------------------
(***************************************************************************)
(* The program and FreeRTOS (external).                                    *)
(***************************************************************************)
Running == phase = "program"

Computes ==
  /\ changes.computed < MaxComputed
  /\ changes' = [changes EXCEPT !.computed = @ + 1]

Compute(r, w) ==
  /\ Running /\ Computes
  /\ exception_ctx' = [exception_ctx EXCEPT !.regs[r] = w]
  /\ UNCHANGED <<phase, rtos, stack_ptr, mem, answer>>

Push(w) ==
  /\ Running /\ Computes
  /\ LET sp == exception_ctx.sp - 1 IN
     /\ sp \in StackPointers(pxCurrentTCB)
     /\ exception_ctx' = [exception_ctx EXCEPT !.sp = sp]
     /\ mem' = [mem EXCEPT ![sp] = w]
  /\ UNCHANGED <<phase, rtos, stack_ptr, answer>>

Pop ==
  /\ Running /\ Computes
  /\ exception_ctx.sp < Top(pxCurrentTCB)
  /\ exception_ctx' = [exception_ctx EXCEPT !.sp = @ + 1]
  /\ UNCHANGED <<phase, rtos, stack_ptr, mem, answer>>

EnterOrExitCritical ==
  /\ Running /\ Computes
  /\ ulCriticalNesting' = 1 - ulCriticalNesting
  /\ UNCHANGED <<phase, pxCurrentTCB, xTaskNumber, deleted, uxTaskNumber, regs, answer>>

\* portSAVE_CONTEXT, vTaskSwitchContext and portRESTORE_CONTEXT
SwitchTo(h) ==
  LET ptr == exception_ctx.sp - SIZE_OF_CONTEXT
      ctx == ReadContext(mem, stack_ptr[h])
  IN
  /\ stack_ptr' = [stack_ptr EXCEPT ![pxCurrentTCB] = ptr]
  /\ mem' = WriteContext(mem, ptr, NewContext(exception_ctx, ulCriticalNesting))
  /\ pxCurrentTCB' = h
  /\ exception_ctx' = SavedFile(h)
  /\ ulCriticalNesting' = ctx["ulCriticalNesting"]

SwitchContext(h) ==
  /\ Running
  /\ h \in Saved
  /\ SwitchTo(h)
  /\ UNCHANGED <<phase, xTaskNumber, deleted, uxTaskNumber, answer, changes>>

CreateTask(h) ==
  /\ Running
  /\ xTaskNumber[h] = 0
  /\ uxTaskNumber < MaxTaskNumber
  /\ uxTaskNumber' = uxTaskNumber + 1
  /\ xTaskNumber' = [xTaskNumber EXCEPT ![h] = uxTaskNumber']
  /\ stack_ptr' = [stack_ptr EXCEPT ![h] = NewStackPtr(h)]
  /\ mem' = WriteContext(mem, NewStackPtr(h), NewContext(NewFile(h), 0))
  /\ UNCHANGED <<phase, pxCurrentTCB, deleted, ulCriticalNesting, exception_ctx, answer, changes>>

DeleteTask(h) ==
  /\ Running
  /\ h \in Saved
  /\ deleted' = deleted \union {h}
  /\ UNCHANGED <<phase, pxCurrentTCB, xTaskNumber, uxTaskNumber, ulCriticalNesting, regs, answer, changes>>

\* A task that deletes itself is switched out once more.
DeleteSelf(h) ==
  /\ Running
  /\ h \in Saved
  /\ deleted' = deleted \union {pxCurrentTCB}
  /\ SwitchTo(h)
  /\ UNCHANGED <<phase, xTaskNumber, uxTaskNumber, answer, changes>>

\* The idle task frees the memory of a deleted task, which is filled anew
\* before another task has it.
CleanUp(h) ==
  /\ Running
  /\ h \in deleted
  /\ deleted' = deleted \ {h}
  /\ xTaskNumber' = [xTaskNumber EXCEPT ![h] = 0]
  /\ stack_ptr' = [stack_ptr EXCEPT ![h] = NewStackPtr(h)]
  /\ mem' = [a \in Address |-> IF a \in Base(h) .. Top(h) - 1 THEN 0 ELSE mem[a]]
  /\ UNCHANGED <<phase, pxCurrentTCB, uxTaskNumber, ulCriticalNesting, exception_ctx, answer, changes>>

-----------------------------------------------------------------------------
(***************************************************************************)
(* The debug event and its end.  Preemption is suspended in between, so    *)
(* that no action of FreeRTOS is enabled (see V5Target, which counts the   *)
(* suspensions).                                                           *)
(***************************************************************************)
Stop ==
  /\ Running
  /\ phase' = "stopped"
  /\ UNCHANGED <<rtos, regs, answer, changes>>

Resume ==
  /\ phase = "stopped"
  /\ answer = NoAnswer
  /\ phase' = "program"
  /\ UNCHANGED <<rtos, regs, answer, changes>>

-----------------------------------------------------------------------------
(***************************************************************************)
(* FreeRtosSystem's view of the tasks.                                     *)
(***************************************************************************)
eCurrentState(h) ==
  CASE h = pxCurrentTCB -> "RUNNING"
    [] h \in deleted    -> "DELETED"
    [] OTHER            -> "SAVED"      \* ready, blocked or suspended

\* uxTaskGetSystemState fills no array that is too short.
scan_tasks == IF Cardinality(Existing) > TaskArrayLength THEN {} ELSE Existing

current_thread == xTaskNumber[pxCurrentTCB]

all_threads == {xTaskNumber[h] : h \in {i \in scan_tasks : eCurrentState(i) # "DELETED"}}

thread_exists(tid) ==
  \E h \in scan_tasks : xTaskNumber[h] = tid /\ eCurrentState(h) # "DELETED"

\* lookup_saved_task, up to its assertion
Found(tid) == {h \in scan_tasks : xTaskNumber[h] = tid /\ eCurrentState(h) # "DELETED"}

NoSuchTid(tid) == tid # current_thread /\ Found(tid) = {}

\* The task that System's operations work on.
SavedTask(tid, h) == tid # current_thread /\ h \in Found(tid)

\* Neither lookup_saved_task nor saved_context panics.
Accessible(h) == eCurrentState(h) # "RUNNING" /\ HasFpuContext(stack_ptr[h])

-----------------------------------------------------------------------------
(***************************************************************************)
(* GDB's requests.  Each is answered before GDB makes the next, and a      *)
(* panic is the end.                                                       *)
(***************************************************************************)
Status(s) == [status |-> s]
Value(v)  == [status |-> "Ok", value |-> v]

OrPanic(holds, reply) == IF holds THEN reply ELSE Status("panic")

Reply(req, reply) ==
  /\ phase = "stopped"
  /\ answer = NoAnswer
  /\ answer' = [request |-> req, reply |-> reply]
  /\ phase' = IF reply.status = "panic" THEN "panicked" ELSE phase
  /\ UNCHANGED rtos

Deliver ==
  /\ phase = "stopped"
  /\ answer # NoAnswer
  /\ answer' = NoAnswer
  /\ UNCHANGED <<phase, rtos, regs, changes>>

list_active_threads ==
  /\ Reply([op |-> "list"], Value(all_threads))
  /\ UNCHANGED <<regs, changes>>

is_thread_alive(tid) ==
  /\ Reply([op |-> "is alive", tid |-> tid], Value(thread_exists(tid)))
  /\ UNCHANGED <<regs, changes>>

\* What a whole register file is to GDB.
Flat(file) == [r \in Registers |-> IF r = "sp" THEN file.sp ELSE file.regs[r]]

read_registers(tid) ==
  LET req == [op |-> "read", tid |-> tid] IN
  /\ \/ tid = current_thread /\ Reply(req, Value(Flat(exception_ctx)))
     \/ NoSuchTid(tid) /\ Reply(req, Status("EINVAL"))
     \/ \E h \in Handles :
          SavedTask(tid, h) /\ Reply(req, OrPanic(Accessible(h), Value(Flat(SavedFile(h)))))
  /\ UNCHANGED <<regs, changes>>

read_register(tid, id) ==
  LET req == [op |-> "read one", tid |-> tid, reg |-> id] IN
  /\ \/ tid = current_thread /\ Reply(req, Value(Flat(exception_ctx)[id]))
     \/ NoSuchTid(tid) /\ Reply(req, Status("EINVAL"))
     \/ \E h \in Handles :
          SavedTask(tid, h) /\ Reply(req, OrPanic(Accessible(h), Value(Flat(SavedFile(h))[id])))
  /\ UNCHANGED <<regs, changes>>

\* TaskStatus_t::set_sp, up to the copy
SetSp(h, sp) == stack_ptr' = [stack_ptr EXCEPT ![h] = sp - SIZE_OF_CONTEXT]

\* Faulty variant: the critical nesting is that of the current task.
WriteSavedNesting(h, file, req) ==
  LET ptr     == file.sp - SIZE_OF_CONTEXT
      written == Accessible(h) /\ HasFpuContext(ptr)
  IN
  /\ IF Accessible(h) THEN SetSp(h, file.sp) ELSE UNCHANGED stack_ptr
  /\ mem' = IF written THEN WriteContext(mem, ptr, NewContext(file, ulCriticalNesting)) ELSE mem
  /\ Reply(req, OrPanic(written, Status("Ok")))
  /\ UNCHANGED exception_ctx

\* FreeRtosSystem::write_registers: the stack pointer goes first, and then
\* the FPU flag is looked for in what is at the new place.
WriteSaved(h, file, req) ==
  LET ptr     == file.sp - SIZE_OF_CONTEXT
      nesting == ReadContext(mem, stack_ptr[h])["ulCriticalNesting"]
      written == Accessible(h) /\ HasFpuContext(ptr)
  IN
  /\ IF Accessible(h) THEN SetSp(h, file.sp) ELSE UNCHANGED stack_ptr
  /\ mem' = IF written THEN WriteContext(mem, ptr, NewContext(file, nesting)) ELSE mem
  /\ Reply(req, OrPanic(written, Status("Ok")))
  /\ UNCHANGED exception_ctx

write_registers(tid, file) ==
  LET req == [op |-> "write", tid |-> tid, file |-> Flat(file)] IN
  \/ /\ tid = current_thread
     /\ exception_ctx' = file
     /\ Reply(req, Status("Ok"))
     /\ UNCHANGED <<stack_ptr, mem>>
  \/ NoSuchTid(tid) /\ Reply(req, Status("EINVAL")) /\ UNCHANGED regs
  \/ \E h \in Handles : SavedTask(tid, h) /\ WriteSaved(h, file, req)

\* SavedRegister::from_le_bytes
SavedRegisterBytes == {4, 8}

\* What unwrap_u32 and unwrap_u64 expect.
BytesOf(id) == IF id \in WideRegisters THEN 8 ELSE 4

\* SingleRegisterAccess<()>::write_register
WriteCurrentRegister(id, value, req) ==
  /\ UNCHANGED <<stack_ptr, mem>>
  /\ \/ /\ value.bytes = BytesOf(id)
        /\ exception_ctx' = IF id = "sp" THEN [exception_ctx EXCEPT !.sp = value.val]
                                         ELSE [exception_ctx EXCEPT !.regs[id] = value.val]
        /\ Reply(req, Status("Ok"))
     \/ /\ value.bytes # BytesOf(id)
        /\ Reply(req, Status("NonFatal"))
        /\ UNCHANGED exception_ctx

\* Faulty variant: a new stack pointer leaves the context behind.
WriteSavedRegisterUncopied(h, id, value, req) ==
  LET written == Accessible(h) /\ value.bytes = BytesOf(id) IN
  /\ Reply(req, OrPanic(written, Status("Ok")))
  /\ UNCHANGED exception_ctx
  /\ \/ ~written /\ UNCHANGED <<stack_ptr, mem>>
     \/ /\ written /\ id = "sp"
        /\ SetSp(h, value.val)
        /\ UNCHANGED mem
     \/ /\ written /\ id # "sp"
        /\ mem' = [mem EXCEPT ![stack_ptr[h] + Offset[id]] = value.val]
        /\ UNCHANGED stack_ptr

\* Faulty variant: the context is moved to the logical stack pointer.
WriteSavedRegisterAtSp(h, id, value, req) ==
  LET written == Accessible(h) /\ value.bytes = BytesOf(id)
      ctx     == ReadContext(mem, stack_ptr[h])
  IN
  /\ Reply(req, OrPanic(written, Status("Ok")))
  /\ UNCHANGED exception_ctx
  /\ \/ ~written /\ UNCHANGED <<stack_ptr, mem>>
     \/ /\ written /\ id = "sp"
        /\ SetSp(h, value.val)
        /\ mem' = WriteContext(mem, value.val, ctx)
     \/ /\ written /\ id # "sp"
        /\ mem' = [mem EXCEPT ![stack_ptr[h] + Offset[id]] = value.val]
        /\ UNCHANGED stack_ptr

\* FreeRtosSystem::write_single_register.  A new stack pointer takes the
\* context along.
WriteSavedRegister(h, id, value, req) ==
  LET written == Accessible(h) /\ value.bytes = BytesOf(id)
      ctx     == ReadContext(mem, stack_ptr[h])
  IN
  /\ Reply(req, OrPanic(written, Status("Ok")))
  /\ UNCHANGED exception_ctx
  /\ \/ ~written /\ UNCHANGED <<stack_ptr, mem>>
     \/ /\ written /\ id = "sp"
        /\ SetSp(h, value.val)
        /\ mem' = WriteContext(mem, value.val - SIZE_OF_CONTEXT, ctx)
     \/ /\ written /\ id # "sp"
        /\ mem' = [mem EXCEPT ![stack_ptr[h] + Offset[id]] = value.val]
        /\ UNCHANGED stack_ptr

write_register(tid, id, value) ==
  LET req == [op |-> "write one", tid |-> tid, reg |-> id, value |-> value] IN
  \/ tid = current_thread /\ WriteCurrentRegister(id, value, req)
  \/ /\ tid # current_thread
     /\ value.bytes \notin SavedRegisterBytes
     /\ Reply(req, Status("NonFatal"))
     /\ UNCHANGED regs
  \/ /\ value.bytes \in SavedRegisterBytes
     /\ \/ NoSuchTid(tid) /\ Reply(req, Status("EINVAL")) /\ UNCHANGED regs
        \/ \E h \in Handles : SavedTask(tid, h) /\ WriteSavedRegister(h, id, value, req)

-----------------------------------------------------------------------------
(***************************************************************************)
(* GDB asks for threads that are or were, or for one that is to come, and  *)
(* puts no stack pointer outside the stack of its task ("We trust that GDB *)
(* will not corrupt system state", thread.rs:51).                          *)
(***************************************************************************)
Tids == 1 .. MaxTaskNumber

FitsStack(tid, sp) ==
  \E h \in Handles :
    /\ sp \in StackPointers(h)
    /\ h = pxCurrentTCB \/ xTaskNumber[h] = tid
    /\ \A i \in Existing : xTaskNumber[i] = tid => h = i

StackAddress == UNION {StackPointers(h) : h \in Handles}

Files == [sp : StackAddress, regs : WrittenRegs]

RegisterValues(id) ==
  [bytes : {BytesOf(id)}, val : IF id = "sp" THEN StackAddress ELSE WrittenWords]
    \union [bytes : {2, 4, 8} \ {BytesOf(id)}, val : {0}]

\* A write that changed nothing is not counted.
CountWrite ==
  changes' = IF answer'.reply.status = "Ok" THEN [changes EXCEPT !.written = @ + 1]
                                            ELSE changes

Program ==
  \/ \E r \in SavedRegisters, w \in WrittenWords : Compute(r, w)
  \/ \E w \in WrittenWords : Push(w)
  \/ Pop
  \/ EnterOrExitCritical
  \/ \E h \in Handles :
       SwitchContext(h) \/ CreateTask(h) \/ DeleteTask(h) \/ DeleteSelf(h) \/ CleanUp(h)

Request ==
  \/ list_active_threads
  \/ \E tid \in Tids :
       \/ is_thread_alive(tid)
       \/ read_registers(tid)
       \/ \E file \in Files :
            /\ changes.written < MaxWritten
            /\ FitsStack(tid, file.sp)
            /\ write_registers(tid, file)
            /\ CountWrite
       \/ \E id \in Registers :
            \/ read_register(tid, id)
            \/ \E value \in RegisterValues(id) :
                 /\ changes.written < MaxWritten
                 /\ id = "sp" /\ value.val # 0 => FitsStack(tid, value.val)
                 /\ write_register(tid, id, value)
                 /\ CountWrite

Next == Program \/ Stop \/ Request \/ Deliver \/ Resume

Spec == Init /\ [][Next]_vars

-----------------------------------------------------------------------------
(* The types. *)
TypeOK ==
  /\ phase \in {"program", "stopped", "panicked"}
  /\ pxCurrentTCB \in Live
  /\ xTaskNumber \in [Handles -> 0 .. MaxTaskNumber]
  /\ deleted \subseteq Existing
  /\ uxTaskNumber \in 0 .. MaxTaskNumber
  /\ stack_ptr \in [Handles -> Address]
  /\ mem \in [Address -> Words]
  /\ ulCriticalNesting \in Words
  /\ exception_ctx \in RegisterFile

(* Wherever GDB has put a saved task's stack pointer, the scheduler finds  *)
(* a whole context there: inside the task's own stack and with the flag    *)
(* that says that the FPU registers are in it.                             *)
SavedContextsAreWhole ==
  phase # "panicked" =>
    \A h \in Saved : Sp(h) \in StackPointers(h) /\ HasFpuContext(stack_ptr[h])

(* With these, the invariants above are inductive: an ID is one task's,    *)
(* for the critical nesting to be 0 or 1 it is so where it is saved, the   *)
(* current task's stack pointer leaves room for its context, and GDB is    *)
(* told nothing while the program runs and waits for no reply but a panic  *)
(* for good.                                                               *)
IdsAreUnique ==
  \A h \in Existing :
    /\ xTaskNumber[h] <= uxTaskNumber
    /\ \A i \in Existing : xTaskNumber[i] = xTaskNumber[h] => i = h

NestingsAreFlags ==
  /\ ulCriticalNesting \in {0, 1}
  /\ phase # "panicked" =>
       \A h \in Saved : ReadContext(mem, stack_ptr[h])["ulCriticalNesting"] \in {0, 1}

CurrentFitsStack == exception_ctx.sp \in StackPointers(pxCurrentTCB)

AnswersAgree ==
  /\ phase = "program" => answer = NoAnswer
  /\ phase = "stopped" => answer.reply.status # "panic"

TasksInv ==
  /\ TypeOK
  /\ SavedContextsAreWhole
  /\ IdsAreUnique
  /\ NestingsAreFlags
  /\ CurrentFitsStack
  /\ AnswersAgree

(* GDB's requests on registers change no word of what a task has on its    *)
(* stack, above the stack pointer it is left with: a context that is       *)
(* written or moved lies below it.                                         *)
LiveStack(h) ==
  (IF h = pxCurrentTCB THEN exception_ctx.sp ELSE Sp(h)) .. Top(h) - 1

KeepsStacks ==
  [][phase = "stopped" => \A h \in Live : \A a \in LiveStack(h)' : mem'[a] = mem[a]]_vars

(* "Panics if the task doesn't have a saved FPU context" (api.rs:118): it  *)
(* is the one reason to panic that saved_context has.  Every task has such *)
(* a context here, so what is left is a value of the wrong width.          *)
PanicsOnWidthAlone ==
  phase = "panicked" =>
    /\ answer.request.op = "write one"
    /\ answer.request.value.bytes # BytesOf(answer.request.reg)

(* Each thread has one register file, whether the kernel keeps it on a     *)
(* stack or the exception does: reads return it, writes change the         *)
(* register meant of the thread meant and keep its critical nesting, task  *)
(* switches keep it, and an ID of a deleted task reaches no other task.    *)
View(h) ==
  LET file    == IF h = pxCurrentTCB THEN exception_ctx ELSE SavedFile(h)
      nesting == IF h = pxCurrentTCB THEN ulCriticalNesting
                 ELSE ReadContext(mem, stack_ptr[h])["ulCriticalNesting"]
  IN  [r \in Registers \union {"ulCriticalNesting"} |->
         IF r = "ulCriticalNesting" THEN nesting ELSE Flat(file)[r]]

Threads ==
  [t \in {xTaskNumber[h] : h \in Live} |-> View(CHOOSE h \in Live : xTaskNumber[h] = t)]

Abstract == INSTANCE TaskRegisters WITH
  threads <- Threads,
  current <- xTaskNumber[pxCurrentTCB],
  last    <- uxTaskNumber,
  crowded <- Cardinality(Existing) > TaskArrayLength,
  stopped <- phase # "program"

ImplementsTaskRegisters == Abstract!Spec
=============================================================================
