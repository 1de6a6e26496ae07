------------------------- MODULE AbortOverlayProofs -------------------------
(***************************************************************************)
(* What holds of the way of a debug event for any number of tasks and any  *)
(* depth of the abort stack: the safety properties of AbortOverlay.        *)
(***************************************************************************)
EXTENDS AbortOverlay, FiniteSetTheorems, SequenceTheorems, TLAPS

-----------------------------------------------------------------------------
(* Sequences as stacks.                                                    *)

\* How many elements of the sequence are in S.
Indices(seq, S) == {i \in 1 .. Len(seq) : seq[i] \in S}
Count(seq, S) == Cardinality(Indices(seq, S))

\* What a push does.
LEMMA PushFacts ==
  ASSUME NEW E, NEW seq \in Seq(E), NEW e \in E
  PROVE  /\ Append(seq, e) \in Seq(E)
         /\ Len(Append(seq, e)) = Len(seq) + 1
         /\ Top(Append(seq, e)) = e
         /\ \A i \in 1 .. Len(seq) : Append(seq, e)[i] = seq[i]
         /\ Append(seq, e) # <<>>
BY DEF Top

\* What a pop does.
LEMMA PopFacts ==
  ASSUME NEW E, NEW seq \in Seq(E), seq # <<>>
  PROVE  /\ Pop(seq) \in Seq(E)
         /\ Len(Pop(seq)) = Len(seq) - 1
         /\ Len(seq) > 0
         /\ Top(seq) \in E
         /\ \A i \in 1 .. Len(seq) - 1 : Pop(seq)[i] = seq[i]
<1>1. Len(seq) \in Nat /\ Len(seq) > 0
  OBVIOUS
<1>2. \A i \in 1 .. Len(seq) : seq[i] \in E
  OBVIOUS
<1>3. \A i \in 1 .. Len(seq) - 1 : seq[i] \in E
  BY <1>1, <1>2
<1> DEFINE n == Len(seq) - 1
<1>4. n \in Int /\ n >= 0
  BY <1>1
<1>5. \A i \in 1 .. n : seq[i] \in E
  BY <1>3
<1> HIDE DEF n
<1>6. /\ SubSeq(seq, 1, n) \in Seq(E)
      /\ Len(SubSeq(seq, 1, n)) = IF 1 <= n THEN n - 1 + 1 ELSE 0
      /\ \A i \in 1 .. n - 1 + 1 : SubSeq(seq, 1, n)[i] = seq[1 + i - 1]
  BY <1>4, <1>5, SubSeqProperties, 1 \in Int
<1>7. /\ Len(SubSeq(seq, 1, n)) = n
      /\ \A i \in 1 .. n : SubSeq(seq, 1, n)[i] = seq[i]
  BY <1>4, <1>6
<1> QED
  BY <1>1, <1>2, <1>6, <1>7 DEF Top, Pop, n

\* What an exchange of the top does.
LEMMA SetTopFacts ==
  ASSUME NEW E, NEW seq \in Seq(E), seq # <<>>, NEW e \in E
  PROVE  LET new == [seq EXCEPT ![Len(seq)] = e]
         IN  /\ new \in Seq(E)
             /\ Len(new) = Len(seq)
             /\ Top(new) = e
             /\ \A i \in 1 .. Len(seq) - 1 : new[i] = seq[i]
             /\ new # <<>>
BY DEF Top

LEMMA EmptyMeansNoElements ==
  ASSUME NEW E, NEW seq \in Seq(E)
  PROVE  seq = <<>> <=> Len(seq) = 0
OBVIOUS

LEMMA CountType ==
  ASSUME NEW E, NEW seq \in Seq(E), NEW S
  PROVE  /\ IsFiniteSet(Indices(seq, S))
         /\ Count(seq, S) \in Nat
         /\ Count(seq, S) = 0 => \A i \in 1 .. Len(seq) : seq[i] \notin S
<1>1. IsFiniteSet(1 .. Len(seq))
  BY FS_Interval
<1>2. IsFiniteSet(Indices(seq, S))
  BY <1>1, FS_Subset DEF Indices
<1>3. Count(seq, S) \in Nat
  BY <1>2, FS_CardinalityType DEF Count
<1>4. Count(seq, S) = 0 => Indices(seq, S) = {}
  BY <1>2, FS_EmptySet DEF Count
<1> QED
  BY <1>2, <1>3, <1>4 DEF Indices

LEMMA CountEmpty ==
  ASSUME NEW S PROVE Count(<<>>, S) = 0
<1>1. Indices(<<>>, S) = {}
  BY DEF Indices
<1> QED
  BY <1>1, FS_EmptySet DEF Count

LEMMA CountPush ==
  ASSUME NEW E, NEW seq \in Seq(E), NEW e \in E, NEW S
  PROVE  Count(Append(seq, e), S) = Count(seq, S) + (IF e \in S THEN 1 ELSE 0)
<1>1. IsFiniteSet(Indices(seq, S)) /\ Count(seq, S) \in Nat
  BY CountType
<1>2. CASE e \in S
  <2>1. Indices(Append(seq, e), S) = Indices(seq, S) \union {Len(seq) + 1}
    BY <1>2 DEF Indices
  <2>2. Len(seq) + 1 \notin Indices(seq, S)
    BY DEF Indices
  <2> QED
    BY <1>1, <1>2, <2>1, <2>2, FS_AddElement DEF Count
<1>3. CASE e \notin S
  <2>1. Indices(Append(seq, e), S) = Indices(seq, S)
    BY <1>3 DEF Indices
  <2> QED
    BY <1>1, <1>3, <2>1 DEF Count
<1> QED
  BY <1>2, <1>3

LEMMA CountPop ==
  ASSUME NEW E, NEW seq \in Seq(E), seq # <<>>, NEW S
  PROVE  Count(seq, S) = Count(Pop(seq), S) + (IF Top(seq) \in S THEN 1 ELSE 0)
<1> DEFINE n == Len(seq)
           below == Pop(seq)
<1>1. /\ below \in Seq(E) /\ n \in Nat /\ n > 0 /\ Len(below) = n - 1
      /\ \A i \in 1 .. n - 1 : below[i] = seq[i]
  BY PopFacts
<1>2. Indices(below, S) = {i \in 1 .. n - 1 : seq[i] \in S}
  BY <1>1 DEF Indices
<1>3. IsFiniteSet(Indices(below, S)) /\ Count(below, S) \in Nat
  BY <1>1, CountType
<1>4. Top(seq) = seq[n]
  BY DEF Top
<1> HIDE DEF n, below
<1>5. Indices(seq, S) = {i \in 1 .. n : seq[i] \in S}
  BY DEF Indices, n
<1>6. CASE seq[n] \in S
  <2>1. Indices(seq, S) = Indices(below, S) \union {n} /\ n \notin Indices(below, S)
    BY <1>1, <1>2, <1>5, <1>6
  <2> QED
    BY <1>3, <1>4, <1>6, <2>1, FS_AddElement DEF Count, below
<1>7. CASE seq[n] \notin S
  <2>1. Indices(seq, S) = Indices(below, S)
    BY <1>1, <1>2, <1>5, <1>7
  <2> QED
    BY <1>3, <1>4, <1>7, <2>1 DEF Count, below
<1> QED
  BY <1>6, <1>7

LEMMA CountSetTop ==
  ASSUME NEW E, NEW seq \in Seq(E), seq # <<>>, NEW e \in E, NEW S,
         e \in S <=> Top(seq) \in S
  PROVE  Count([seq EXCEPT ![Len(seq)] = e], S) = Count(seq, S)
<1>1. Indices([seq EXCEPT ![Len(seq)] = e], S) = Indices(seq, S)
  BY DEF Indices, Top
<1> QED
  BY <1>1 DEF Count

-----------------------------------------------------------------------------
(* The inductive invariant.                                                *)

Lost == at[running] = "lost"

Resuming == {c \in Context : c.at = "resuming"}
Of(t) == {c \in Context : c.task = t}

\* Nobody is switched out between a debug event and xTaskResumeAll, and where
\* interrupts have to be masked they are.
OthersWait == \A t \in Tasks \ {running} : at[t] \in {"program", "resumed"}
Masked ==
  \A t \in Tasks :
    /\ at[t] \in {"trapped", "resuming", "resumed", "returning", "lost"} => cpsr[t].masked
    /\ \A i \in 1 .. Len(todo[t]) :
         todo[t][i].at \in {"resuming", "resumed"} => todo[t][i].cpsr.masked

SessionHeld == session # "free" => boot = "initialize" \/ at[running] = "handler"

\* The contexts a task has to return to: the program's at the bottom, the
\* overlay's above it.
LevelsNested ==
  \A t \in Tasks :
    /\ at[t] # "lost" => (at[t] = "program" <=> todo[t] = <<>>)
    /\ \A i \in 1 .. Len(todo[t]) :
         todo[t][i].task = t /\ (todo[t][i].at = "program" <=> i = 1)

\* The stack holds them all, if nobody has been lost, and from the event to
\* the scheduler's resume, or with a step to the return, the top is the
\* running task's.
StackComplete == ~Lost => \A t \in Tasks : Count(stack, Of(t)) = Len(todo[t])
TopIsOwn ==
  \/ at[running] \in {"trapped", "handler", "left"}
  \/ at[running] = "returning" /\ single_step_request
  => Top(stack) = Top(todo[running])

\* Every suspension is held by a context that was taken at xTaskResumeAll, by
\* the task in the handler, or by a step.
Holding == IF at[running] \in {"handler", "left", "resuming"} THEN 1 ELSE 0
StepHolding == IF single_step_request /\ at[running] # "left" THEN 1 ELSE 0
SuspensionsHeld == ~Lost => suspended = Count(stack, Resuming) + Holding + StepHolding

\* A step is pending where it was asked for, or on the way there.
StepPending ==
  /\ at[running] = "handler" => ~single_step_request
  /\ at[running] = "left" => (single_step_request <=> ~unpause[running])
  /\ single_step_request /\ at[running] \in SystemMode =>
       asked = [task |-> running, at |-> at[running], depth |-> Len(todo[running])]
  /\ single_step_request /\ at[running] \in {"left", "returning"} =>
       asked = [task |-> running, at |-> Top(todo[running]).at,
                depth |-> Len(todo[running]) - 1]

\* Undisturbed, one task at most is on its way, and SPSR_abt is its own.
OneOnItsWay ==
  ~disturbed =>
    \A t \in Tasks : at[t] # "program" =>
      /\ Len(stack) = 1 /\ todo[t] = stack
      /\ \A u \in Tasks \ {t} : at[u] = "program"
      /\ at[t] \in {"resuming", "resumed", "returning"} => spsr = stack[1].cpsr
      /\ at[t] # "lost"

ClockAgrees == since < ClockPeriod => Elapsed = since

OverlayInv ==
  /\ TypeOK
  /\ OthersWait
  /\ Masked
  /\ SessionHeld
  /\ LevelsNested
  /\ StackComplete
  /\ TopIsOwn
  /\ SuspensionsHeld
  /\ StepPending
  /\ OneOnItsWay
  /\ ClockAgrees

\* The initial state.
LEMMA InitEstablishesOverlayInv == Init => OverlayInv
<1> SUFFICES ASSUME Init PROVE OverlayInv
  OBVIOUS
<1> USE OverlayAssumption
<1>1. TypeOK
  <2>1. /\ boot \in {"none", "vectors", "initialize", "done"} /\ running \in Tasks
        /\ at \in [Tasks -> SystemMode \union AbortMode]
        /\ unpause \in [Tasks -> BOOLEAN]
        /\ cpsr \in [Tasks -> Status] /\ spsr \in Status
    BY DEF Init, SystemMode
  <2>2. /\ suspended \in Nat /\ session \in Tasks \union {"free"}
        /\ {attached, single_step_request, interrupt_pending, disturbed} \subseteq BOOLEAN
    BY DEF Init
  <2>3. stack \in Seq(Context) /\ todo \in [Tasks -> Seq(Context)]
    BY DEF Init
  <2>4. asked \in [task : Tasks, at : SystemMode, depth : Nat]
    BY DEF Init, NoStep, SystemMode
  <2>5. {now, LAST_POLL_TIME_MS} \subseteq 0 .. ClockPeriod - 1 /\ since \in 0 .. ClockPeriod
    BY DEF Init
  <2> QED
    BY <2>1, <2>2, <2>3, <2>4, <2>5 DEF TypeOK
<1>2. OthersWait /\ SessionHeld /\ TopIsOwn /\ StepPending /\ OneOnItsWay
  BY DEF Init, OthersWait, SessionHeld, TopIsOwn, StepPending, OneOnItsWay
<1>3. Masked /\ LevelsNested
  BY DEF Init, Masked, LevelsNested
<1>4. StackComplete /\ SuspensionsHeld
  BY CountEmpty DEF Init, StackComplete, SuspensionsHeld, Holding, StepHolding
<1>5. ClockAgrees
  BY DEF Init, ClockAgrees, Elapsed
<1> QED
  BY <1>1, <1>2, <1>3, <1>4, <1>5 DEF OverlayInv

\* The steps of the installation.
LEMMA InstallationPreserves ==
  ASSUME OverlayInv, install_vectors \/ BeginInitialize \/ EndInitialize
  PROVE  OverlayInv'
<1> USE OverlayAssumption DEF OverlayInv
<1>1. UNCHANGED <<processor, attached, target, clock, history>>
  BY DEF install_vectors, BeginInitialize, EndInitialize
<1> USE <1>1 DEF processor, target, clock, history
<1>2. TypeOK'
  BY DEF TypeOK, install_vectors, BeginInitialize, EndInitialize
<1>3. SessionHeld'
  BY DEF SessionHeld, install_vectors, BeginInitialize, EndInitialize, Installs
<1>4. OthersWait' /\ Masked' /\ ClockAgrees'
  BY DEF OthersWait, Masked, ClockAgrees, Elapsed
<1>5. LevelsNested' /\ StackComplete' /\ TopIsOwn'
  BY DEF LevelsNested, StackComplete, TopIsOwn, Lost, Top, Count, Indices
<1>6. SuspensionsHeld' /\ StepPending' /\ OneOnItsWay'
  BY DEF SuspensionsHeld, Holding, StepHolding, StepPending, OneOnItsWay, Lost, Top, Count,
         Indices
<1> QED
  BY <1>2, <1>3, <1>4, <1>5, <1>6

\* An instruction of the program.
LEMMA ComputePreserves ==
  ASSUME OverlayInv, Compute
  PROVE  OverlayInv'
<1> USE DEF OverlayInv
<1>1. UNCHANGED <<boot, running, at, unpause, stack, spsr, suspended, session,
                  attached, target, clock, history>>
  BY DEF Compute
<1> USE <1>1 DEF target, clock, history
<1>2. PICK f \in Flags : cpsr' = [cpsr EXCEPT ![running].flags = f]
  BY DEF Compute
<1>3. TypeOK'
  BY <1>2 DEF TypeOK, Status
<1>4. \A t \in Tasks : cpsr'[t].masked = cpsr[t].masked
  BY <1>2 DEF TypeOK, Status
<1>5. Masked'
  BY <1>4 DEF Masked
<1>6. OthersWait' /\ SessionHeld' /\ ClockAgrees'
  BY DEF OthersWait, SessionHeld, ClockAgrees, Elapsed
<1>7. LevelsNested' /\ StackComplete' /\ TopIsOwn'
  BY DEF LevelsNested, StackComplete, TopIsOwn, Lost, Top, Count, Indices
<1>8. SuspensionsHeld' /\ StepPending' /\ OneOnItsWay'
  BY DEF SuspensionsHeld, Holding, StepHolding, StepPending, OneOnItsWay, Lost, Top, Count,
         Indices
<1> QED
  BY <1>3, <1>5, <1>6, <1>7, <1>8

\* The clock, and an interrupt that polls.
LEMMA InterruptsPreserve ==
  ASSUME OverlayInv, Tick \/ irq_poll
  PROVE  OverlayInv'
<1> USE OverlayAssumption DEF OverlayInv
<1>1. UNCHANGED <<boot, processor, session, attached, single_step_request, history>>
  BY DEF Tick, irq_poll, target
<1> USE <1>1 DEF processor, history
<1>2. TypeOK'
  <2>1. {now, LAST_POLL_TIME_MS} \subseteq 0 .. ClockPeriod - 1 /\ since \in 0 .. ClockPeriod
    BY DEF TypeOK
  <2>2. /\ {now', LAST_POLL_TIME_MS'} \subseteq 0 .. ClockPeriod - 1
        /\ since' \in 0 .. ClockPeriod
    BY <2>1 DEF Tick, irq_poll
  <2>3. interrupt_pending' \in BOOLEAN
    BY DEF TypeOK, Tick, irq_poll, poll, target
  <2> QED
    BY <2>2, <2>3 DEF TypeOK
<1>3. ClockAgrees'
  <2>1. {now, LAST_POLL_TIME_MS} \subseteq 0 .. ClockPeriod - 1 /\ since \in 0 .. ClockPeriod
    BY DEF TypeOK
  <2>2. CASE Tick
    BY <2>1, <2>2 DEF Tick, ClockAgrees, Elapsed
  <2>3. CASE irq_poll
    BY <2>1, <2>3 DEF irq_poll, ClockAgrees, Elapsed
  <2> QED
    BY <2>2, <2>3
<1>4. OthersWait' /\ Masked' /\ SessionHeld'
  BY DEF OthersWait, Masked, SessionHeld
<1>5. LevelsNested' /\ StackComplete' /\ TopIsOwn'
  BY DEF LevelsNested, StackComplete, TopIsOwn, Lost, Top, Count, Indices
<1>6. SuspensionsHeld' /\ StepPending' /\ OneOnItsWay'
  BY DEF SuspensionsHeld, Holding, StepHolding, StepPending, OneOnItsWay, Lost, Top, Count,
         Indices
<1> QED
  BY <1>2, <1>3, <1>4, <1>5, <1>6

\* With everybody in the program the abort stack is empty.
LEMMA EmptyStack ==
  ASSUME OverlayInv, \A t \in Tasks : at[t] = "program"
  PROVE  stack = <<>>
<1> USE DEF OverlayInv
<1>1. running \in Tasks /\ stack \in Seq(Context)
  BY DEF TypeOK
<1>2. ~Lost
  BY <1>1 DEF Lost
<1>3. \A t \in Tasks : todo[t] = <<>>
  BY DEF LevelsNested
<1>4. \A t \in Tasks : Count(stack, Of(t)) = 0
  BY <1>2, <1>3 DEF StackComplete
<1>5. SUFFICES ASSUME Len(stack) > 0 PROVE FALSE
  BY <1>1
<1>6. 1 \in 1 .. Len(stack) /\ stack[1] \in Context
  BY <1>1, <1>5
<1>7. stack[1].task \in Tasks /\ stack[1] \in Of(stack[1].task)
  BY <1>6 DEF Context, Of
<1> QED
  BY <1>1, <1>4, <1>6, <1>7, CountType

\* A task that is on its way has its context on the stack.
LEMMA StackNotEmpty ==
  ASSUME OverlayInv, at[running] # "program", ~Lost
  PROVE  /\ running \in Tasks /\ stack \in Seq(Context) /\ stack # <<>>
         /\ todo[running] \in Seq(Context) /\ todo[running] # <<>>
<1> USE DEF OverlayInv
<1>1. running \in Tasks /\ stack \in Seq(Context) /\ todo[running] \in Seq(Context)
  BY DEF TypeOK
<1>2. todo[running] # <<>>
  BY <1>1 DEF LevelsNested, Lost
<1>3. Count(stack, Of(running)) > 0
  BY <1>1, <1>2 DEF StackComplete
<1> QED
  BY <1>1, <1>2, <1>3, CountEmpty

\* Another task gets the processor.
LEMMA SwitchPreserves ==
  ASSUME OverlayInv, NEW t \in Tasks, Switch(t)
  PROVE  OverlayInv'
<1> USE DEF OverlayInv
<1>1. /\ UNCHANGED <<boot, at, cpsr, unpause, stack, spsr, suspended, session,
                     attached, target, clock, history>>
      /\ running' = t
      /\ suspended = 0
      /\ ~cpsr[running].masked \/ at[running] = "program"
  BY DEF Switch
<1> USE <1>1 DEF target, clock, history
<1>2. /\ running \in Tasks /\ at[running] \in SystemMode \union AbortMode
      /\ Count(stack, Resuming) \in Nat
  BY CountType DEF TypeOK
<1>3. at[running] = "program" /\ ~single_step_request
  BY <1>2 DEF Masked, SuspensionsHeld, Lost, Holding, StepHolding, SystemMode, AbortMode
<1>4. \A u \in Tasks : at[u] \in {"program", "resumed"}
  BY <1>3 DEF OthersWait
<1>5. TypeOK' /\ OthersWait' /\ Masked' /\ SessionHeld' /\ ClockAgrees'
  BY <1>3, <1>4 DEF TypeOK, OthersWait, Masked, SessionHeld, ClockAgrees, Elapsed
<1>6. LevelsNested' /\ StackComplete' /\ TopIsOwn'
  BY <1>2, <1>4 DEF LevelsNested, StackComplete, TopIsOwn, Lost, Count, Indices
<1>7. SuspensionsHeld' /\ StepPending' /\ OneOnItsWay'
  BY <1>2, <1>3, <1>4
  DEF SuspensionsHeld, Holding, StepHolding, StepPending, OneOnItsWay, Lost, Count, Indices
<1> QED
  BY <1>5, <1>6, <1>7

\* A debug event puts the context on the stack.
LEMMA TakeDebugEventPreserves ==
  ASSUME OverlayInv, TakeDebugEvent
  PROVE  OverlayInv'
<1> USE DEF OverlayInv
<1> DEFINE here == [task |-> running, at |-> at[running], cpsr |-> cpsr[running]]
<1>1. /\ UNCHANGED <<boot, running, unpause, suspended, session, attached, target, clock, asked>>
      /\ at[running] \in SystemMode
      /\ at' = [at EXCEPT ![running] = "trapped"]
      /\ cpsr' = [cpsr EXCEPT ![running].masked = TRUE]
      /\ spsr' = cpsr[running]
      /\ stack' = Append(stack, here)
      /\ todo' = [todo EXCEPT ![running] = Append(todo[running], here)]
      /\ disturbed' = (disturbed \/ \E t \in Tasks : at[t] \in {"resuming", "resumed"})
  BY DEF TakeDebugEvent, MoveTo, SetMasked
<1> USE <1>1 DEF target, clock
<1>2. /\ running \in Tasks /\ cpsr[running] \in Status
      /\ stack \in Seq(Context) /\ todo[running] \in Seq(Context)
  BY DEF TypeOK
<1>3. here \in Context
  BY <1>2 DEF Context
<1>4. /\ here.task = running /\ here.at = at[running] /\ here.cpsr = cpsr[running]
      /\ here \in Of(running) /\ (here \in Resuming <=> at[running] = "resuming")
      /\ \A t \in Tasks : here \in Of(t) <=> t = running
  BY <1>3 DEF Of, Resuming
<1> HIDE DEF here
<1>5. /\ stack' \in Seq(Context) /\ Top(stack') = here
      /\ todo'[running] = Append(todo[running], here) /\ Top(todo'[running]) = here
      /\ todo'[running] \in Seq(Context) /\ todo'[running] # <<>>
      /\ Len(todo'[running]) = Len(todo[running]) + 1
      /\ \A i \in 1 .. Len(todo[running]) : todo'[running][i] = todo[running][i]
      /\ \A t \in Tasks \ {running} : todo'[t] = todo[t] /\ at'[t] = at[t] /\ cpsr'[t] = cpsr[t]
      /\ at'[running] = "trapped" /\ cpsr'[running].masked
  <2>1. stack' \in Seq(Context) /\ Top(stack') = here
    BY <1>2, <1>3, PushFacts
  <2>2. todo'[running] = Append(todo[running], here)
    BY <1>2 DEF TypeOK
  <2>3. /\ Top(todo'[running]) = here
        /\ todo'[running] \in Seq(Context) /\ todo'[running] # <<>>
        /\ Len(todo'[running]) = Len(todo[running]) + 1
        /\ \A i \in 1 .. Len(todo[running]) : todo'[running][i] = todo[running][i]
    BY <1>2, <1>3, <2>2, PushFacts
  <2>4. /\ \A t \in Tasks \ {running} : todo'[t] = todo[t] /\ at'[t] = at[t] /\ cpsr'[t] = cpsr[t]
        /\ at'[running] = "trapped" /\ cpsr'[running].masked
    BY <1>2 DEF TypeOK, Status
  <2> QED
    BY <2>1, <2>2, <2>3, <2>4
<1>6. TypeOK'
  <2>1. /\ at' \in [Tasks -> SystemMode \union AbortMode]
        /\ cpsr' \in [Tasks -> Status] /\ spsr' \in Status
        /\ disturbed' \in BOOLEAN
    BY <1>2 DEF TypeOK, AbortMode, Status
  <2>2. todo' \in [Tasks -> Seq(Context)]
    BY <1>5 DEF TypeOK
  <2> QED
    BY <1>5, <2>1, <2>2 DEF TypeOK
<1>7. OthersWait' /\ SessionHeld' /\ ClockAgrees'
  BY <1>2, <1>5 DEF OthersWait, SessionHeld, ClockAgrees, Elapsed, SystemMode
<1>8. todo'[running][Len(todo[running]) + 1] = here /\ Len(todo[running]) \in Nat
  BY <1>2, <1>5 DEF Top
<1>9. Masked'
  <2>1. here.at \in {"resuming", "resumed"} => here.cpsr.masked
    BY <1>2, <1>4 DEF Masked
  <2>2. ASSUME NEW i \in 1 .. Len(todo'[running]),
               todo'[running][i].at \in {"resuming", "resumed"}
        PROVE  todo'[running][i].cpsr.masked
    <3>1. CASE i = Len(todo[running]) + 1
      BY <1>8, <2>1, <2>2, <3>1
    <3>2. CASE i # Len(todo[running]) + 1
      <4>1. i \in 1 .. Len(todo[running])
        BY <1>5, <1>8, <3>2
      <4> QED
        BY <1>2, <1>5, <2>2, <4>1 DEF Masked
    <3> QED
      BY <3>1, <3>2
  <2> QED
    BY <1>5, <2>2 DEF Masked
<1>10. LevelsNested'
  <2>1. at[running] = "program" <=> Len(todo[running]) = 0
    BY <1>2 DEF LevelsNested, SystemMode
  <2>2. ASSUME NEW i \in 1 .. Len(todo'[running])
        PROVE  /\ todo'[running][i].task = running
               /\ todo'[running][i].at = "program" <=> i = 1
    <3>1. CASE i = Len(todo[running]) + 1
      BY <1>4, <1>8, <2>1, <3>1
    <3>2. CASE i # Len(todo[running]) + 1
      <4>1. i \in 1 .. Len(todo[running])
        BY <1>5, <1>8, <3>2
      <4> QED
        BY <1>2, <1>5, <4>1 DEF LevelsNested
    <3> QED
      BY <3>1, <3>2
  <2> QED
    BY <1>5, <2>2 DEF LevelsNested
<1>11. StackComplete'
  <2>1. ~Lost
    BY DEF Lost, SystemMode
  <2>2. ASSUME NEW t \in Tasks
        PROVE  Count(stack', Of(t)) = Len(todo'[t])
    <3>1. Count(stack', Of(t)) = Count(stack, Of(t)) + (IF t = running THEN 1 ELSE 0)
      BY <1>2, <1>3, <1>4, CountPush
    <3>2. Count(stack, Of(t)) = Len(todo[t]) /\ Len(todo[t]) \in Nat
      BY <2>1 DEF StackComplete, TypeOK
    <3>3. Len(todo'[t]) = Len(todo[t]) + (IF t = running THEN 1 ELSE 0)
      <4>1. CASE t = running
        BY <1>5, <4>1
      <4>2. CASE t # running
        BY <1>5, <3>2, <4>2
      <4> QED
        BY <4>1, <4>2
    <3> QED
      BY <3>1, <3>2, <3>3
  <2> QED
    BY <2>2 DEF StackComplete
<1>12. SuspensionsHeld'
  <2>1. Count(stack', Resuming) = Count(stack, Resuming) + Holding
    <3>1. Holding = IF at[running] = "resuming" THEN 1 ELSE 0
      BY DEF Holding, SystemMode
    <3> QED
      BY <1>2, <1>3, <1>4, <3>1, CountPush
  <2>2. Holding' = 0 /\ StepHolding' = StepHolding /\ ~Lost
    BY <1>5 DEF Holding, StepHolding, Lost, SystemMode
  <2>3. Count(stack, Resuming) \in Nat /\ Holding \in Nat /\ StepHolding \in Nat
    BY <1>2, CountType DEF Holding, StepHolding
  <2> QED
    BY <2>1, <2>2, <2>3 DEF SuspensionsHeld
<1>13. TopIsOwn' /\ StepPending'
  BY <1>5 DEF TopIsOwn, StepPending, Top, SystemMode
<1>14. OneOnItsWay'
  <2> SUFFICES ASSUME ~disturbed' PROVE OneOnItsWay'
    BY DEF OneOnItsWay
  <2>1. \A t \in Tasks : at[t] = "program"
    BY <1>2 DEF OthersWait, SystemMode
  <2>2. stack = <<>> /\ todo[running] = <<>>
    BY <1>2, <2>1, EmptyStack DEF LevelsNested
  <2>3. stack' = <<here>> /\ todo'[running] = <<here>>
    BY <1>5, <2>2
  <2> QED
    BY <1>5, <2>1, <2>3 DEF OneOnItsWay
<1> QED
  BY <1>6, <1>7, <1>9, <1>10, <1>11, <1>12, <1>13, <1>14

\* The handler begins: it suspends the scheduler, or takes over a step's
\* suspension.
LEMMA EnterPreserves ==
  ASSUME OverlayInv, enter_breakpoint
  PROVE  OverlayInv'
<1> USE DEF OverlayInv
<1>1. /\ UNCHANGED <<boot, running, unpause, stack, spsr, attached, clock, history>>
      /\ at[running] = "trapped"
      /\ session' = running
      /\ suspended' = IF single_step_request THEN suspended ELSE suspended + 1
      /\ cpsr' = [cpsr EXCEPT ![running].masked = FALSE]
      /\ single_step_request' = FALSE /\ interrupt_pending' = FALSE
      /\ at' = [at EXCEPT ![running] = "handler"]
  BY DEF enter_breakpoint, suspend_preemption, SetMasked, MoveTo
<1> USE <1>1 DEF clock, history
<1>2. /\ running \in Tasks /\ Count(stack, Resuming) \in Nat /\ suspended \in Nat
      /\ at'[running] = "handler"
      /\ \A t \in Tasks \ {running} : at'[t] = at[t] /\ cpsr'[t] = cpsr[t]
  BY CountType DEF TypeOK
<1>3. TypeOK'
  <2>1. at' \in [Tasks -> SystemMode \union AbortMode] /\ cpsr' \in [Tasks -> Status]
    BY <1>2 DEF TypeOK, AbortMode, Status
  <2>2. suspended' \in Nat /\ session' \in Tasks \union {"free"}
    BY <1>2
  <2> QED
    BY <2>1, <2>2 DEF TypeOK
<1>4. OthersWait' /\ Masked' /\ SessionHeld' /\ ClockAgrees' /\ StepPending'
  BY <1>2 DEF OthersWait, Masked, SessionHeld, ClockAgrees, Elapsed, StepPending, SystemMode
<1>5. LevelsNested' /\ StackComplete' /\ TopIsOwn'
  BY <1>2 DEF LevelsNested, StackComplete, TopIsOwn, Lost, Top, Count, Indices
<1>6. SuspensionsHeld'
  <2>1. suspended = Count(stack, Resuming) + (IF single_step_request THEN 1 ELSE 0)
    BY <1>2 DEF SuspensionsHeld, Lost, Holding, StepHolding
  <2>2. suspended' = Count(stack, Resuming) + 1
    BY <1>2, <2>1
  <2>3. Holding' = 1 /\ StepHolding' = 0
    BY <1>2 DEF Holding, StepHolding
  <2> QED
    BY <1>2, <2>2, <2>3 DEF SuspensionsHeld
<1>7. OneOnItsWay'
  BY <1>2 DEF OneOnItsWay
<1> QED
  BY <1>3, <1>4, <1>5, <1>6, <1>7

\* The handler's end: the context that GDB has changed is the same task's and
\* returns to the same place.
LEMMA LeavePreserves ==
  ASSUME OverlayInv, NEW flags \in Flags, NEW step \in BOOLEAN, NEW gdb \in BOOLEAN,
         leave_breakpoint(flags, step, gdb)
  PROVE  OverlayInv'
<1> USE DEF OverlayInv
<1> DEFINE written == [Top(stack) EXCEPT !.cpsr.flags = flags]
<1>1. /\ UNCHANGED <<boot, running, cpsr, spsr, suspended, interrupt_pending, clock, disturbed>>
      /\ at[running] = "handler"
      /\ stack' = [stack EXCEPT ![Len(stack)] = written]
      /\ todo' = [todo EXCEPT ![running] = Append(Pop(todo[running]), written)]
      /\ single_step_request' = step
      /\ asked' = IF step
                  THEN [task |-> running, at |-> written.at, depth |-> Len(todo[running]) - 1]
                  ELSE NoStep
      /\ unpause' = [unpause EXCEPT ![running] = ~step]
      /\ attached' = gdb
      /\ session' = "free"
      /\ at' = [at EXCEPT ![running] = "left"]
  BY DEF leave_breakpoint, MoveTo
<1> USE <1>1 DEF clock
<1>2. /\ running \in Tasks /\ stack \in Seq(Context) /\ stack # <<>> /\ ~Lost
      /\ todo[running] \in Seq(Context) /\ todo[running] # <<>>
  BY StackNotEmpty DEF Lost
<1>3. /\ Top(stack) \in Context /\ Top(stack) = Top(todo[running])
      /\ Len(todo[running]) > 0 /\ Len(todo[running]) \in Nat
  BY <1>2, PopFacts DEF TopIsOwn
<1>4. /\ written \in Context /\ written.task = Top(stack).task /\ written.at = Top(stack).at
      /\ written.cpsr.masked = Top(stack).cpsr.masked
  BY <1>3 DEF Context, Status
<1> HIDE DEF written
<1>5. stack' \in Seq(Context) /\ Top(stack') = written /\ Len(stack') = Len(stack)
  <2>1. stack' = [stack EXCEPT ![Len(stack)] = written]
    OBVIOUS
  <2> HIDE <1>1
  <2> DEFINE new == [stack EXCEPT ![Len(stack)] = written]
  <2>2. new \in Seq(Context) /\ Len(new) = Len(stack) /\ Top(new) = written
    BY <1>2, <1>4, SetTopFacts
  <2> HIDE DEF new
  <2> QED
    BY <2>1, <2>2 DEF new
<1>6. /\ todo'[running] \in Seq(Context) /\ Top(todo'[running]) = written
      /\ Len(todo'[running]) = Len(todo[running])
      /\ \A i \in 1 .. Len(todo[running]) - 1 : todo'[running][i] = todo[running][i]
  <2>1. todo'[running] = Append(Pop(todo[running]), written)
    BY <1>2 DEF TypeOK
  <2>2. /\ Pop(todo[running]) \in Seq(Context)
        /\ Len(Pop(todo[running])) = Len(todo[running]) - 1
        /\ \A i \in 1 .. Len(todo[running]) - 1 : Pop(todo[running])[i] = todo[running][i]
    BY <1>2, PopFacts
  <2> HIDE <1>1
  <2> QED
    BY <1>3, <1>4, <2>1, <2>2, PushFacts
<1>7. todo'[running][Len(todo[running])] = written
  BY <1>6 DEF Top
<1>8. /\ \A t \in Tasks \ {running} : todo'[t] = todo[t] /\ at'[t] = at[t]
      /\ at'[running] = "left" /\ unpause'[running] = ~step
  BY <1>2 DEF TypeOK
<1>9. TypeOK'
  <2>1. /\ at' \in [Tasks -> SystemMode \union AbortMode]
        /\ unpause' \in [Tasks -> BOOLEAN]
        /\ session' \in Tasks \union {"free"}
        /\ attached' \in BOOLEAN /\ single_step_request' \in BOOLEAN
    BY <1>2 DEF TypeOK, AbortMode
  <2>2. todo' \in [Tasks -> Seq(Context)]
    BY <1>6 DEF TypeOK
  <2>3. asked' \in [task : Tasks, at : SystemMode, depth : Nat]
    BY <1>2, <1>3, <1>4, OverlayAssumption DEF NoStep, Context, SystemMode
  <2> QED
    BY <1>5, <2>1, <2>2, <2>3 DEF TypeOK
<1>10. OthersWait' /\ SessionHeld' /\ ClockAgrees'
  BY <1>8 DEF OthersWait, SessionHeld, ClockAgrees, Elapsed
<1>11. ASSUME NEW i \in 1 .. Len(todo'[running])
       PROVE  /\ todo'[running][i].task = todo[running][i].task
              /\ todo'[running][i].at = todo[running][i].at
              /\ todo'[running][i].cpsr.masked = todo[running][i].cpsr.masked
  <2>1. CASE i = Len(todo[running])
    BY <1>3, <1>4, <1>7, <2>1 DEF Top
  <2>2. CASE i # Len(todo[running])
    <3>1. i \in 1 .. Len(todo[running]) - 1
      BY <1>3, <1>6, <2>2
    <3> QED
      BY <1>6, <3>1
  <2> QED
    BY <2>1, <2>2
<1>12. Masked'
  BY <1>2, <1>6, <1>8, <1>11 DEF Masked
<1>13. LevelsNested'
  <2>1. todo[running] # <<>> /\ todo'[running] # <<>>
    BY <1>2, <1>3, <1>6
  <2> QED
    BY <1>2, <1>6, <1>8, <1>11, <2>1 DEF LevelsNested
<1>14. StackComplete'
  <2>1. ASSUME NEW t \in Tasks
        PROVE  Count(stack', Of(t)) = Len(todo'[t])
    <3>1. written \in Of(t) <=> Top(stack) \in Of(t)
      BY <1>3, <1>4 DEF Of
    <3>2. Count([stack EXCEPT ![Len(stack)] = written], Of(t)) = Count(stack, Of(t))
      <4> HIDE <1>1
      <4> QED
        BY <1>2, <1>4, <3>1, CountSetTop
    <3>3. Count(stack', Of(t)) = Count(stack, Of(t))
      BY <3>2, Zenon
    <3> QED
      BY <1>2, <1>6, <1>8, <3>3 DEF StackComplete
  <2> QED
    BY <2>1 DEF StackComplete
<1>15. SuspensionsHeld'
  <2>1. written \in Resuming <=> Top(stack) \in Resuming
    BY <1>3, <1>4 DEF Resuming
  <2>2. Count(stack', Resuming) = Count(stack, Resuming)
    <3>1. Count([stack EXCEPT ![Len(stack)] = written], Resuming) = Count(stack, Resuming)
      <4> HIDE <1>1
      <4> QED
        BY <1>2, <1>4, <2>1, CountSetTop
    <3> QED
      BY <3>1, Zenon
  <2>3. Holding' = Holding /\ StepHolding' = StepHolding
    BY <1>2, <1>8 DEF Holding, StepHolding, StepPending
  <2> QED
    BY <1>2, <2>2, <2>3 DEF SuspensionsHeld
<1>16. TopIsOwn'
  BY <1>5, <1>6 DEF TopIsOwn, Top
<1>17. StepPending'
  <2>1. at'[running] = "left" /\ (single_step_request' <=> ~unpause'[running])
    BY <1>8
  <2>2. step => asked' = [task |-> running, at |-> Top(todo'[running]).at,
                          depth |-> Len(todo'[running]) - 1]
    BY <1>6
  <2> QED
    BY <2>1, <2>2 DEF StepPending, SystemMode, Top
<1>18. OneOnItsWay'
  <2> SUFFICES ASSUME ~disturbed PROVE OneOnItsWay'
    BY DEF OneOnItsWay
  <2>1. Len(stack) = 1 /\ todo[running] = stack /\ \A u \in Tasks \ {running} : at[u] = "program"
    BY <1>2 DEF OneOnItsWay
  <2>2. stack' = <<written>> /\ todo'[running] = <<written>>
    <3>1. /\ stack' \in Seq(Context) /\ Len(stack') = 1 /\ stack'[1] = written
          /\ todo'[running] \in Seq(Context) /\ Len(todo'[running]) = 1
          /\ todo'[running][1] = written
      BY <1>5, <1>6, <1>7, <2>1 DEF Top
    <3> HIDE <1>1
    <3> QED
      BY <3>1
  <2> QED
    <3>1. Len(stack') = 1 /\ todo'[running] = stack'
      BY <2>2
    <3>2. \A u \in Tasks \ {running} : at'[u] = "program"
      BY <1>8, <2>1
    <3> QED
      BY <1>8, <3>1, <3>2 DEF OneOnItsWay
<1> QED
  BY <1>9, <1>10, <1>12, <1>13, <1>14, <1>15, <1>16, <1>17, <1>18

\* The rest of catch_debug_event: a step keeps its suspension, any other
\* resume hands it to xTaskResumeAll.
LEMMA RestorePreserves ==
  ASSUME OverlayInv, Restore
  PROVE  OverlayInv'
<1> USE DEF OverlayInv
<1> DEFINE next == IF unpause[running] THEN "resuming" ELSE "returning"
<1>1. /\ UNCHANGED <<boot, running, unpause, stack, suspended, session, attached, target,
                     clock, history>>
      /\ at[running] = "left"
      /\ cpsr' = [cpsr EXCEPT ![running].masked = TRUE]
      /\ spsr' = Top(stack).cpsr
      /\ at' = [at EXCEPT ![running] = next]
  BY DEF Restore, MaskInterrupts, SetMasked, RestoreSpsr, MoveTo, AfterHandler
<1> USE <1>1 DEF target, clock, history
<1>2. /\ running \in Tasks /\ stack \in Seq(Context) /\ stack # <<>> /\ ~Lost
      /\ Top(stack) \in Context
  BY StackNotEmpty, PopFacts DEF Lost
<1>3. /\ at'[running] = next
      /\ \A t \in Tasks \ {running} : at'[t] = at[t] /\ cpsr'[t] = cpsr[t]
      /\ cpsr'[running].masked
  BY <1>2 DEF TypeOK, Status
<1>4. single_step_request <=> ~unpause[running]
  BY DEF StepPending
<1>5. TypeOK'
  <2>1. spsr' \in Status
    BY <1>2 DEF Context
  <2>2. at' \in [Tasks -> SystemMode \union AbortMode] /\ cpsr' \in [Tasks -> Status]
    BY DEF TypeOK, SystemMode, AbortMode, Status
  <2> QED
    BY <2>1, <2>2 DEF TypeOK
<1>6. OthersWait' /\ Masked' /\ ClockAgrees'
  BY <1>2, <1>3 DEF OthersWait, Masked, ClockAgrees, Elapsed
<1>7. SessionHeld'
  BY <1>2 DEF SessionHeld
<1>8. LevelsNested' /\ StackComplete' /\ TopIsOwn'
  BY <1>2, <1>3, <1>4 DEF LevelsNested, StackComplete, TopIsOwn, Lost, Top, Count, Indices
<1>9. SuspensionsHeld'
  <2>1. Count(stack, Resuming) \in Nat
    BY <1>2, CountType
  <2>2. Holding = 1 /\ StepHolding = 0
    BY DEF Holding, StepHolding
  <2>3. Holding' + StepHolding' = 1
    BY <1>3, <1>4 DEF Holding, StepHolding
  <2>4. suspended = Count(stack, Resuming) + 1
    BY <1>2, <2>1, <2>2 DEF SuspensionsHeld
  <2>5. Holding' \in Int /\ StepHolding' \in Int
    BY DEF Holding, StepHolding
  <2> QED
    BY <2>1, <2>3, <2>4, <2>5 DEF SuspensionsHeld
<1>10. StepPending'
  BY <1>3, <1>4 DEF StepPending, SystemMode, Top
<1>11. OneOnItsWay'
  BY <1>2, <1>3 DEF OneOnItsWay, Top
<1> QED
  BY <1>5, <1>6, <1>7, <1>8, <1>9, <1>10, <1>11

\* xTaskResumeAll gives up the handler's suspension, and perhaps the
\* processor.
LEMMA ResumeAllPreserves ==
  ASSUME OverlayInv, NEW t \in Tasks, xTaskResumeAll(t)
  PROVE  OverlayInv'
<1> USE DEF OverlayInv
<1>1. /\ UNCHANGED <<boot, cpsr, unpause, stack, spsr, session, attached, target, clock, history>>
      /\ at[running] = "resuming" /\ ~single_step_request
      /\ suspended' = suspended - 1
      /\ running' = t
      /\ at' = [at EXCEPT ![running] = "resumed"]
  BY DEF xTaskResumeAll, MoveTo, Firing
<1> USE <1>1 DEF target, clock, history
<1>2. running \in Tasks /\ Count(stack, Resuming) \in Nat /\ suspended \in Nat
  BY CountType DEF TypeOK
<1>3. /\ at'[running] = "resumed"
      /\ \A u \in Tasks \ {running} : at'[u] = at[u]
      /\ \A u \in Tasks : at'[u] \in {"program", "resumed"}
  BY <1>2 DEF TypeOK, OthersWait
<1>4. suspended = Count(stack, Resuming) + 1
  BY <1>2 DEF SuspensionsHeld, Lost, Holding, StepHolding
<1>5. TypeOK'
  BY <1>2, <1>4 DEF TypeOK, SystemMode
<1>6. OthersWait' /\ Masked' /\ SessionHeld' /\ ClockAgrees'
  BY <1>2, <1>3 DEF OthersWait, Masked, SessionHeld, ClockAgrees, Elapsed
<1>7. LevelsNested' /\ StackComplete' /\ TopIsOwn'
  BY <1>2, <1>3 DEF LevelsNested, StackComplete, TopIsOwn, Lost, Count, Indices
<1>8. SuspensionsHeld'
  <2>1. Holding' = 0 /\ StepHolding' = 0
    BY <1>3 DEF Holding, StepHolding
  <2> QED
    BY <1>2, <1>4, <2>1 DEF SuspensionsHeld
<1>9. StepPending'
  BY <1>3 DEF StepPending
<1>10. OneOnItsWay'
  BY <1>2, <1>3 DEF OneOnItsWay
<1> QED
  BY <1>5, <1>6, <1>7, <1>8, <1>9, <1>10

\* Back in Abort mode.
LEMMA LeaveSystemModePreserves ==
  ASSUME OverlayInv, LeaveSystemMode
  PROVE  OverlayInv'
<1> USE DEF OverlayInv
<1>1. /\ UNCHANGED <<boot, running, cpsr, unpause, stack, spsr, suspended, session, attached,
                     target, clock, history>>
      /\ at[running] = "resumed" /\ ~single_step_request
      /\ at' = [at EXCEPT ![running] = "returning"]
  BY DEF LeaveSystemMode, MoveTo, Firing
<1> USE <1>1 DEF target, clock, history
<1>2. /\ running \in Tasks /\ at'[running] = "returning"
      /\ \A u \in Tasks \ {running} : at'[u] = at[u]
  BY DEF TypeOK
<1>3. TypeOK'
  BY <1>2 DEF TypeOK, AbortMode
<1>4. OthersWait' /\ Masked' /\ SessionHeld' /\ ClockAgrees'
  BY <1>2 DEF OthersWait, Masked, SessionHeld, ClockAgrees, Elapsed
<1>5. LevelsNested' /\ StackComplete' /\ TopIsOwn'
  BY <1>2 DEF LevelsNested, StackComplete, TopIsOwn, Lost, Count, Indices
<1>6. SuspensionsHeld' /\ StepPending' /\ OneOnItsWay'
  BY <1>2 DEF SuspensionsHeld, Holding, StepHolding, StepPending, OneOnItsWay, Lost, Count,
              Indices
<1> QED
  BY <1>3, <1>4, <1>5, <1>6

\* The return, to the context on top or to somebody else's.
LEMMA ReturnPreserves ==
  ASSUME OverlayInv, ReturnFromException
  PROVE  OverlayInv'
<1> USE DEF OverlayInv
<1> DEFINE own == Top(todo[running])
<1>1. /\ UNCHANGED <<boot, running, spsr, suspended, session, attached, target, clock, asked,
                     disturbed>>
      /\ at[running] = "returning"
      /\ stack' = Pop(stack)
      /\ todo' = [todo EXCEPT ![running] = Pop(todo[running])]
      /\ unpause' = [unpause EXCEPT ![running] = FALSE]
      /\ \/ /\ Top(stack) = own /\ spsr = own.cpsr
            /\ cpsr' = [cpsr EXCEPT ![running] = spsr]
            /\ at' = [at EXCEPT ![running] = own.at]
         \/ /\ ~(Top(stack) = own /\ spsr = own.cpsr)
            /\ at' = [at EXCEPT ![running] = "lost"]
            /\ UNCHANGED cpsr
  <2>1. OwnContext => at' = [at EXCEPT ![running] = Top(stack).at] /\ Top(stack) = own
    BY DEF ReturnFromException, MoveTo, OwnContext
  <2> QED
    BY <2>1 DEF ReturnFromException, MoveTo, OwnContext
<1> USE DEF target, clock
<1>2. /\ running \in Tasks /\ stack \in Seq(Context) /\ stack # <<>> /\ ~Lost
      /\ todo[running] \in Seq(Context) /\ todo[running] # <<>>
  BY <1>1, StackNotEmpty DEF Lost
<1>3. /\ Pop(stack) \in Seq(Context) /\ Pop(todo[running]) \in Seq(Context)
      /\ own \in Context
      /\ Len(Pop(todo[running])) = Len(todo[running]) - 1
      /\ Len(todo[running]) > 0 /\ Len(todo[running]) \in Nat
      /\ \A i \in 1 .. Len(todo[running]) - 1 : Pop(todo[running])[i] = todo[running][i]
  BY <1>2, PopFacts
<1>4. /\ todo'[running] = Pop(todo[running])
      /\ \A t \in Tasks \ {running} :
           /\ todo'[t] = todo[t] /\ at'[t] = at[t] /\ cpsr'[t] = cpsr[t]
  BY <1>1, <1>2 DEF TypeOK
<1>5. /\ own.at \in SystemMode /\ own.cpsr \in Status /\ own.task = running
      /\ own.at = "program" <=> Len(todo[running]) = 1
      /\ own.at \in {"resuming", "resumed"} => own.cpsr.masked
  <2>1. Len(todo[running]) \in 1 .. Len(todo[running]) /\ own = todo[running][Len(todo[running])]
    BY <1>3 DEF Top
  <2>2. own.at \in SystemMode /\ own.cpsr \in Status
    BY <1>3 DEF Context
  <2>3. own.task = running /\ (own.at = "program" <=> Len(todo[running]) = 1)
    <3> DEFINE top == Len(todo[running])
    <3>1. /\ todo[running][top].task = running
          /\ todo[running][top].at = "program" <=> top = 1
      <4>1. top \in 1 .. Len(todo[running])
        BY <2>1
      <4> HIDE DEF top
      <4> QED
        BY <1>2, <4>1 DEF LevelsNested
    <3> QED
      BY <2>1, <3>1
  <2>4. own.at \in {"resuming", "resumed"} => own.cpsr.masked
    BY <1>2, <2>1 DEF Masked
  <2> QED
    BY <2>2, <2>3, <2>4
<1> HIDE DEF own
<1>6. \/ /\ Top(stack) = own /\ cpsr'[running] = own.cpsr /\ at'[running] = own.at
      \/ /\ ~(Top(stack) = own /\ spsr = own.cpsr)
         /\ cpsr' = cpsr /\ at'[running] = "lost"
  BY <1>1, <1>2 DEF TypeOK
<1>7. TypeOK'
  <2>1. at' \in [Tasks -> SystemMode \union AbortMode] /\ cpsr' \in [Tasks -> Status]
    <3>1. CASE /\ spsr = own.cpsr
               /\ cpsr' = [cpsr EXCEPT ![running] = spsr]
               /\ at' = [at EXCEPT ![running] = own.at]
      BY <1>2, <1>5, <3>1 DEF TypeOK
    <3>2. CASE at' = [at EXCEPT ![running] = "lost"] /\ cpsr' = cpsr
      BY <1>2, <3>2 DEF TypeOK, AbortMode
    <3> QED
      BY <1>1, <3>1, <3>2, Zenon
  <2>2. todo' \in [Tasks -> Seq(Context)] /\ unpause' \in [Tasks -> BOOLEAN]
    BY <1>1, <1>2, <1>3 DEF TypeOK
  <2> QED
    BY <1>1, <1>3, <2>1, <2>2 DEF TypeOK
<1>8. OthersWait' /\ SessionHeld' /\ ClockAgrees'
  BY <1>1, <1>2, <1>4 DEF OthersWait, SessionHeld, ClockAgrees, Elapsed
<1>9. ASSUME NEW i \in 1 .. Len(todo'[running])
      PROVE  i \in 1 .. Len(todo[running]) /\ todo'[running][i] = todo[running][i]
  BY <1>3, <1>4
<1>10. Masked'
  <2>1. at'[running] \in {"trapped", "resuming", "resumed", "returning", "lost"}
          => cpsr'[running].masked
    BY <1>1, <1>2, <1>5, <1>6 DEF Masked, SystemMode
  <2>2. \A i \in 1 .. Len(todo'[running]) :
          todo'[running][i].at \in {"resuming", "resumed"} => todo'[running][i].cpsr.masked
    BY <1>2, <1>9 DEF Masked
  <2> QED
    BY <1>4, <2>1, <2>2 DEF Masked
<1>11. LevelsNested'
  <2>1. at'[running] # "lost" => (at'[running] = "program" <=> todo'[running] = <<>>)
    <3>1. todo'[running] = <<>> <=> Len(todo[running]) = 1
      <4>1. Pop(todo[running]) = <<>> <=> Len(Pop(todo[running])) = 0
        BY <1>3, EmptyMeansNoElements, Zenon
      <4> QED
        BY <1>3, <1>4, <4>1
    <3> QED
      BY <1>5, <1>6, <3>1
  <2>2. \A i \in 1 .. Len(todo'[running]) :
          /\ todo'[running][i].task = running
          /\ todo'[running][i].at = "program" <=> i = 1
    BY <1>2, <1>9 DEF LevelsNested
  <2> QED
    BY <1>4, <2>1, <2>2 DEF LevelsNested
<1>12. SUFFICES /\ StackComplete' /\ SuspensionsHeld'
                /\ TopIsOwn' /\ StepPending' /\ OneOnItsWay'
  BY <1>7, <1>8, <1>10, <1>11
<1>13. CASE at'[running] = "lost"
  <2>1. disturbed
    <3> SUFFICES ASSUME ~disturbed PROVE FALSE
      OBVIOUS
    <3>1. Len(stack) = 1 /\ todo[running] = stack /\ spsr = stack[1].cpsr
      BY <1>1, <1>2 DEF OneOnItsWay
    <3>2. Top(stack) = own /\ spsr = own.cpsr
      BY <3>1 DEF own, Top
    <3> QED
      BY <1>5, <1>6, <1>13, <3>2 DEF SystemMode
  <2> QED
    BY <1>1, <1>13, <2>1
    DEF StackComplete, SuspensionsHeld, TopIsOwn, StepPending, OneOnItsWay, Lost, SystemMode
<1>14. CASE at'[running] # "lost"
  <2>1. Top(stack) = own /\ at'[running] = own.at
    BY <1>6, <1>14
  <2>2. StackComplete'
    <3>1. ASSUME NEW t \in Tasks
          PROVE  Count(stack', Of(t)) = Len(todo'[t])
      <4>1. own \in Of(t) <=> t = running
        BY <1>3, <1>5 DEF Of
      <4>2. Count(stack, Of(t)) = Count(Pop(stack), Of(t)) + (IF own \in Of(t) THEN 1 ELSE 0)
        BY <1>2, <2>1, CountPop
      <4>3. Count(stack, Of(t)) = Len(todo[t]) /\ Count(Pop(stack), Of(t)) \in Nat
        BY <1>2, <1>3, CountType DEF StackComplete
      <4>4. stack' = Pop(stack) /\ Len(todo[t]) \in Nat
        BY <1>1 DEF TypeOK
      <4>5. CASE t = running
        BY <1>3, <1>4, <4>1, <4>2, <4>3, <4>4, <4>5
      <4>6. CASE t # running
        BY <1>4, <4>1, <4>2, <4>3, <4>4, <4>6
      <4> QED
        BY <4>5, <4>6
    <3> QED
      BY <3>1 DEF StackComplete
  <2>3. SuspensionsHeld'
    <3>1. own \in Resuming <=> own.at = "resuming"
      BY <1>3 DEF Resuming
    <3>2. Count(stack, Resuming) = Count(Pop(stack), Resuming) + Holding'
      <4>1. Holding' = IF own \in Resuming THEN 1 ELSE 0
        BY <1>1, <1>5, <2>1, <3>1 DEF Holding, SystemMode
      <4> QED
        BY <1>2, <2>1, <4>1, CountPop
    <3>3. Holding = 0 /\ StepHolding' = StepHolding
      BY <1>1, <1>5, <2>1 DEF Holding, StepHolding, SystemMode
    <3>4. Holding' \in Nat /\ StepHolding \in Nat /\ Count(Pop(stack), Resuming) \in Nat
      BY <1>3, CountType DEF Holding, StepHolding
    <3>5. stack' = Pop(stack) /\ suspended' = suspended
      BY <1>1
    <3> QED
      BY <1>2, <3>2, <3>3, <3>4, <3>5 DEF SuspensionsHeld
  <2>4. TopIsOwn'
    BY <1>1, <1>5, <2>1 DEF TopIsOwn, SystemMode
  <2>5. StepPending'
    <3>1. single_step_request => asked = [task |-> running, at |-> own.at,
                                          depth |-> Len(todo[running]) - 1]
      BY <1>1 DEF StepPending, own
    <3>2. at'[running] \in SystemMode
      BY <1>5, <2>1
    <3> QED
      BY <1>1, <1>3, <1>4, <2>1, <3>1, <3>2 DEF StepPending, SystemMode
  <2>6. OneOnItsWay'
    <3> SUFFICES ASSUME ~disturbed PROVE OneOnItsWay'
      BY <1>1 DEF OneOnItsWay
    <3>1. Len(stack) = 1 /\ todo[running] = stack /\ \A u \in Tasks \ {running} : at[u] = "program"
      BY <1>1, <1>2 DEF OneOnItsWay
    <3>2. \A t \in Tasks : at'[t] = "program"
      BY <1>4, <1>5, <2>1, <3>1
    <3> QED
      BY <3>2 DEF OneOnItsWay
  <2> QED
    BY <2>2, <2>3, <2>4, <2>5, <2>6
<1> QED
  BY <1>13, <1>14

\* Every step.
LEMMA NextPreservesOverlayInv ==
  ASSUME OverlayInv, [Next]_vars
  PROVE  OverlayInv'
<1>1. CASE UNCHANGED vars
  <2> USE <1>1 DEF vars, processor, target, clock, history, OverlayInv
  <2>1. TypeOK' /\ OthersWait' /\ Masked' /\ SessionHeld' /\ ClockAgrees'
    BY DEF TypeOK, OthersWait, Masked, SessionHeld, ClockAgrees, Elapsed
  <2>2. LevelsNested' /\ StackComplete' /\ TopIsOwn'
    BY DEF LevelsNested, StackComplete, TopIsOwn, Lost, Top, Count, Indices
  <2>3. SuspensionsHeld' /\ StepPending' /\ OneOnItsWay'
    BY DEF SuspensionsHeld, Holding, StepHolding, StepPending, OneOnItsWay, Lost, Top, Count,
           Indices
  <2> QED
    BY <2>1, <2>2, <2>3
<1>2. CASE install_vectors \/ BeginInitialize \/ EndInitialize
  BY <1>2, InstallationPreserves
<1>3. CASE Compute
  BY <1>3, ComputePreserves
<1>4. CASE \E t \in Tasks : Switch(t) \/ xTaskResumeAll(t)
  BY <1>4, SwitchPreserves, ResumeAllPreserves
<1>5. CASE TakeDebugEvent \/ enter_breakpoint
  BY <1>5, TakeDebugEventPreserves, EnterPreserves
<1>6. CASE \E flags \in Flags, step, gdb \in BOOLEAN : leave_breakpoint(flags, step, gdb)
  BY <1>6, LeavePreserves
<1>7. CASE Restore \/ LeaveSystemMode \/ ReturnFromException
  BY <1>7, RestorePreserves, LeaveSystemModePreserves, ReturnPreserves
<1>8. CASE Tick \/ irq_poll
  BY <1>8, InterruptsPreserve
<1> QED
  BY <1>1, <1>2, <1>3, <1>4, <1>5, <1>6, <1>7, <1>8 DEF Next

-----------------------------------------------------------------------------
(***************************************************************************)
(* The inductive invariant holds in every reachable state.                 *)
(***************************************************************************)
THEOREM OverlayInvHolds == Spec => []OverlayInv
<1> QED
  BY InitEstablishesOverlayInv, NextPreservesOverlayInv, PTL DEF Spec

(***************************************************************************)
(* Every variable keeps its type; above all, the scheduler is never        *)
(* resumed more often than it was suspended (overlay.s:169).               *)
(***************************************************************************)
THEOREM TypeCorrect == Spec => []TypeOK
<1>1. OverlayInv => TypeOK
  BY DEF OverlayInv
<1> QED
  BY <1>1, OverlayInvHolds, PTL

(***************************************************************************)
(* One task at a time is between a debug event and the scheduler's resume, *)
(* and only initialize can be in its way (overlay.s:128-130).              *)
(***************************************************************************)
THEOREM OnlyOneInAbortMode == Spec => []OneInAbortMode
<1>1. OverlayInv => OneInAbortMode
  BY DEF OverlayInv, OthersWait, SessionHeld, OneInAbortMode
<1> QED
  BY <1>1, OverlayInvHolds, PTL

(***************************************************************************)
(* The suspensions of the scheduler are balanced, over any nesting of      *)
(* debug events (suspend_preemption, overlay.s:169).                       *)
(***************************************************************************)
THEOREM SuspensionsBalance == Spec => []SchedulerBalanced
<1>1. OverlayInv => SchedulerBalanced
  <2> SUFFICES ASSUME OverlayInv PROVE SchedulerBalanced
    OBVIOUS
  <2>1. /\ running \in Tasks /\ stack \in Seq(Context) /\ suspended \in Nat
        /\ SuspensionsHeld
    BY DEF OverlayInv, TypeOK
  <2>2. Count(stack, Resuming) \in Nat
    BY <2>1, CountType
  <2>3. at[running] \in {"handler", "left", "resuming"} => suspended > 0
    BY <2>1, <2>2 DEF SuspensionsHeld, Lost, Holding, StepHolding
  <2>4. ASSUME \A t \in Tasks : at[t] = "program", ~single_step_request
        PROVE  suspended = 0
    <3>1. Count(stack, Resuming) = 0
      BY <2>4, EmptyStack, CountEmpty
    <3> QED
      BY <2>1, <2>4, <3>1 DEF SuspensionsHeld, Lost, Holding, StepHolding
  <2> QED
    BY <2>3, <2>4 DEF SchedulerBalanced
<1> QED
  BY <1>1, OverlayInvHolds, PTL

(***************************************************************************)
(* Only a debug event inside xTaskResumeAll can make a task go on with     *)
(* another's registers or status (overlay.s:128-194).                      *)
(***************************************************************************)
THEOREM ContextsReturn == Spec => []ReturnsOwnContext
<1>1. OverlayInv => ReturnsOwnContext
  BY DEF OverlayInv, OneOnItsWay, ReturnsOwnContext
<1> QED
  BY <1>1, OverlayInvHolds, PTL

(***************************************************************************)
(* The poll's interval is measured right across the clock's wraparound     *)
(* (exceptions/mod.rs:162-165).                                            *)
(***************************************************************************)
THEOREM PollsKeepTheirPace == Spec => []PollsKeepPace
<1>1. OverlayInv => PollsKeepPace
  BY DEF OverlayInv, ClockAgrees, PollsKeepPace, Due
<1> QED
  BY <1>1, OverlayInvHolds, PTL

(***************************************************************************)
(* A step fires where it was asked for and nowhere in between              *)
(* (overlay.s:164-168).                                                    *)
(***************************************************************************)
THEOREM StepsFireWhereTheyShould == Spec => StepsFireWhereAsked
<1> DEFINE Fires ==
      TakeDebugEvent /\ single_step_request =>
        asked = [task |-> running, at |-> at[running], depth |-> Len(todo[running])]
<1>1. OverlayInv => Fires
  BY DEF OverlayInv, StepPending, TakeDebugEvent
<1>2. OverlayInv /\ [Next]_vars => [Fires]_vars
  BY <1>1
<1> QED
  BY <1>2, OverlayInvHolds, PTL DEF Spec, StepsFireWhereAsked
=============================================================================
