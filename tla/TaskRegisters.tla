--------------------------- MODULE TaskRegisters ---------------------------
(***************************************************************************)
(* What the thread access of V5Target promises GDB, with no contexts in    *)
(* memory in it: every thread has a register file of its own, which only   *)
(* the thread changes while the program runs, and only GDB while it is     *)
(* stopped.  Which thread has the processor makes no difference to GDB,    *)
(* and giving it to another one changes no thread's registers.             *)
(***************************************************************************)
EXTENDS Naturals

CONSTANTS
  Registers,        \* the names of the registers GDB reads and writes
  WideRegisters     \* those of eight bytes

VARIABLES
  threads,          \* the registers of each thread, by thread ID
  current,          \* the ID of the thread that has the processor
  last,             \* the last ID given to a thread
  crowded,          \* there are more tasks than the debugger can list
  stopped,          \* the program is
  answer            \* the request being answered, with the reply to it

absvars == <<threads, current, last, crowded, stopped, answer>>

Live == DOMAIN threads

NoAnswer == [request |-> [op |-> "none"], reply |-> [status |-> "none"]]

OnlyChanges(t) == Live' = Live /\ \A u \in Live \ {t} : threads'[u] = threads[u]

Init == ~stopped /\ current \in Live /\ answer = NoAnswer

-----------------------------------------------------------------------------
(***************************************************************************)
(* The program runs: the current thread changes its registers, another one *)
(* gets the processor, threads are created, with IDs never used before,    *)
(* deleted and cleaned up.                                                 *)
(***************************************************************************)
Compute == OnlyChanges(current) /\ UNCHANGED <<current, last, crowded>>

Switch == current' \in Live /\ UNCHANGED <<threads, last, crowded>>

Create ==
  /\ last' = last + 1
  /\ Live' = Live \union {last'}
  /\ \A u \in Live : threads'[u] = threads[u]
  /\ UNCHANGED current

Delete ==
  /\ Live' \subseteq Live
  /\ \A u \in Live' : threads'[u] = threads[u]
  /\ current' \in Live'
  /\ current \in Live' => current' = current
  /\ UNCHANGED <<last, crowded>>

CleanUp == UNCHANGED <<threads, current, last>>

Program ==
  /\ ~stopped
  /\ Compute \/ Switch \/ Create \/ Delete \/ CleanUp
  /\ UNCHANGED <<stopped, answer>>

StopOrResume ==
  /\ answer = NoAnswer
  /\ stopped' = ~stopped
  /\ UNCHANGED <<threads, current, last, crowded, answer>>

-----------------------------------------------------------------------------
(***************************************************************************)
(* The requests.  A thread without the processor is out of reach while     *)
(* there are too many tasks, and then no thread is listed.  A panic may    *)
(* have disturbed the thread that was to be written, and no other.         *)
(***************************************************************************)
InReach(t) == t = current \/ (t \in Live /\ ~crowded)

Fits(r, value) == value.bytes = IF r \in WideRegisters THEN 8 ELSE 4

Refused(t, reply) == ~InReach(t) /\ reply.status = "EINVAL" /\ UNCHANGED threads

Ok(t, reply) == InReach(t) /\ reply.status = "Ok"

Panic(t, reply) == InReach(t) /\ t # current /\ reply.status = "panic" /\ OnlyChanges(t)

Read(req, reply) ==
  \/ Refused(req.tid, reply)
  \/ /\ Ok(req.tid, reply)
     /\ reply.value = [r \in Registers |-> threads[req.tid][r]]
     /\ UNCHANGED threads

ReadOne(req, reply) ==
  \/ Refused(req.tid, reply)
  \/ /\ Ok(req.tid, reply)
     /\ reply.value = threads[req.tid][req.reg]
     /\ UNCHANGED threads

Write(req, reply) ==
  \/ Refused(req.tid, reply)
  \/ /\ Ok(req.tid, reply)
     /\ threads' = [threads EXCEPT ![req.tid] =
                      [r \in DOMAIN @ |-> IF r \in Registers THEN req.file[r] ELSE @[r]]]
  \/ /\ Panic(req.tid, reply)
     /\ req.file["sp"] # threads[req.tid]["sp"]

WriteOne(req, reply) ==
  \/ Refused(req.tid, reply)
  \/ /\ ~Fits(req.reg, req.value)
     /\ reply.status = "NonFatal"
     /\ UNCHANGED threads
  \/ /\ Ok(req.tid, reply)
     /\ Fits(req.reg, req.value)
     /\ threads' = [threads EXCEPT ![req.tid][req.reg] = req.value.val]
  \/ /\ Panic(req.tid, reply)
     /\ ~Fits(req.reg, req.value)
     /\ UNCHANGED threads

List(reply) == reply.value = (IF crowded THEN {} ELSE Live) /\ UNCHANGED threads

IsAlive(req, reply) == reply.value = (req.tid \in Live /\ ~crowded) /\ UNCHANGED threads

Serve(req, reply) ==
  \/ req.op = "read" /\ Read(req, reply)
  \/ req.op = "read one" /\ ReadOne(req, reply)
  \/ req.op = "write" /\ Write(req, reply)
  \/ req.op = "write one" /\ WriteOne(req, reply)
  \/ req.op = "list" /\ List(reply)
  \/ req.op = "is alive" /\ IsAlive(req, reply)

Request ==
  /\ stopped /\ answer = NoAnswer
  /\ Serve(answer'.request, answer'.reply)
  /\ UNCHANGED <<current, last, crowded, stopped>>

\* GDB has the reply, which it does not get from a debugger that panicked.
Deliver ==
  /\ answer # NoAnswer /\ answer.reply.status # "panic"
  /\ answer' = NoAnswer
  /\ UNCHANGED <<threads, current, last, crowded, stopped>>

Next == Program \/ StopOrResume \/ Request \/ Deliver

Spec == Init /\ [][Next]_absvars
=============================================================================
