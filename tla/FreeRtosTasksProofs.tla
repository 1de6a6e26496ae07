------------------------- MODULE FreeRtosTasksProofs -------------------------
(***************************************************************************)
(* What holds of the contexts of any number of tasks, whatever the layout  *)
(* of a context and the length of a stack: the safety properties of        *)
(* FreeRtosTasks, and that it implements TaskRegisters.                    *)
(***************************************************************************)
EXTENDS FreeRtosTasks, FiniteSetTheorems, TLAPS

-----------------------------------------------------------------------------
(***************************************************************************)
(* The layout of a context: every field has its place, and no other.       *)
(***************************************************************************)
LEMMA LayoutFacts ==
  /\ SIZE_OF_CONTEXT \in Nat /\ SIZE_OF_CONTEXT >= 2
  /\ \A f \in Fields : Offset[f] \in 0 .. SIZE_OF_CONTEXT - 1 /\ Layout[Offset[f] + 1] = f
  /\ \A k \in 0 .. SIZE_OF_CONTEXT - 1 : Layout[k + 1] \in Fields /\ Offset[Layout[k + 1]] = k
<1>1. DOMAIN Layout = 1 .. SIZE_OF_CONTEXT /\ SIZE_OF_CONTEXT \in Nat
  <2>1. /\ DOMAIN Layout = 1 .. Len(FpuRegs) + Len(BaseRegs) + 2
        /\ Len(Layout) = Len(FpuRegs) + Len(BaseRegs) + 2
        /\ Len(FpuRegs) \in Nat /\ Len(BaseRegs) \in Nat
    BY TasksAssumption DEF Layout
  <2> QED
    BY <2>1 DEF SIZE_OF_CONTEXT
<1>2. SIZE_OF_CONTEXT >= 2
  BY TasksAssumption DEF Layout, SIZE_OF_CONTEXT
<1>3. \A i, j \in DOMAIN Layout : Layout[i] = Layout[j] => i = j
  BY TasksAssumption DEF IsInjective
<1>4. ASSUME NEW f \in Fields
      PROVE  Offset[f] \in 0 .. SIZE_OF_CONTEXT - 1 /\ Layout[Offset[f] + 1] = f
  <2>1. \E i \in DOMAIN Layout : Layout[i] = f
    BY DEF Fields, ToSet
  <2> DEFINE place == CHOOSE i \in DOMAIN Layout : Layout[i] = f
  <2>2. place \in DOMAIN Layout /\ Layout[place] = f
    BY <2>1
  <2>3. Offset[f] = place - 1
    BY DEF Offset
  <2> HIDE DEF place
  <2> QED
    BY <1>1, <2>2, <2>3
<1>5. ASSUME NEW k \in 0 .. SIZE_OF_CONTEXT - 1
      PROVE  Layout[k + 1] \in Fields /\ Offset[Layout[k + 1]] = k
  <2>1. k + 1 \in DOMAIN Layout
    BY <1>1
  <2>2. Layout[k + 1] \in Fields
    BY <2>1 DEF Fields, ToSet
  <2>3. /\ Offset[Layout[k + 1]] \in 0 .. SIZE_OF_CONTEXT - 1
        /\ Layout[Offset[Layout[k + 1]] + 1] = Layout[k + 1]
    BY <1>4, <2>2
  <2> QED
    BY <1>1, <1>3, <2>1, <2>2, <2>3
<1> QED
  BY <1>1, <1>2, <1>4, <1>5

(***************************************************************************)
(* The registers of a context, its flag and its critical nesting are       *)
(* different fields.                                                       *)
(***************************************************************************)
LEMMA FieldFacts ==
  /\ SavedRegisters \subseteq Fields
  /\ "ulPortTaskHasFPUContext" \in Fields \ SavedRegisters
  /\ "ulCriticalNesting" \in Fields \ SavedRegisters
  /\ Fields = SavedRegisters \union {"ulPortTaskHasFPUContext", "ulCriticalNesting"}
  /\ "sp" \notin SavedRegisters
<1> DEFINE n == Len(FpuRegs)
           m == Len(BaseRegs)
<1>1. /\ FpuRegs \in Seq(STRING) /\ BaseRegs \in Seq(STRING) /\ n \in Nat /\ m \in Nat
      /\ DOMAIN FpuRegs = 1 .. n /\ DOMAIN BaseRegs = 1 .. m
  BY TasksAssumption
<1>2. /\ DOMAIN Layout = 1 .. n + m + 2
      /\ Layout[1] = "ulPortTaskHasFPUContext"
      /\ \A i \in 1 .. n : Layout[i + 1] = FpuRegs[i]
      /\ Layout[n + 2] = "ulCriticalNesting"
      /\ \A i \in 1 .. m : Layout[i + n + 2] = BaseRegs[i]
  BY <1>1 DEF Layout
<1>3. \A i, j \in DOMAIN Layout : Layout[i] = Layout[j] => i = j
  BY TasksAssumption DEF IsInjective
<1> HIDE DEF n, m
<1>4. ASSUME NEW r \in SavedRegisters
      PROVE  \E i \in DOMAIN Layout : Layout[i] = r /\ i # 1 /\ i # n + 2
  <2>1. CASE r \in ToSet(FpuRegs)
    <3>1. PICK i \in 1 .. n : r = FpuRegs[i]
      BY <1>1, <2>1 DEF ToSet
    <3>2. i + 1 \in DOMAIN Layout /\ Layout[i + 1] = r /\ i + 1 # 1 /\ i + 1 # n + 2
      BY <1>1, <1>2, <3>1
    <3> QED
      BY <3>2
  <2>2. CASE r \in ToSet(BaseRegs)
    <3>1. PICK i \in 1 .. m : r = BaseRegs[i]
      BY <1>1, <2>2 DEF ToSet
    <3>2. i + n + 2 \in DOMAIN Layout /\ Layout[i + n + 2] = r /\ i + n + 2 # 1 /\ i + n + 2 # n + 2
      BY <1>1, <1>2, <3>1
    <3> QED
      BY <3>2
  <2> QED
    BY <2>1, <2>2 DEF SavedRegisters
<1>5. 1 \in DOMAIN Layout /\ n + 2 \in DOMAIN Layout
  BY <1>1, <1>2
<1>6. ASSUME NEW f \in Fields
      PROVE  f \in SavedRegisters \union {"ulPortTaskHasFPUContext", "ulCriticalNesting"}
  <2>1. PICK i \in 1 .. n + m + 2 : Layout[i] = f
    BY <1>2 DEF Fields, ToSet
  <2>2. CASE i = 1 \/ i = n + 2
    BY <1>2, <2>1, <2>2
  <2>3. CASE i \in 2 .. n + 1
    <3>1. i - 1 \in 1 .. n /\ (i - 1) + 1 = i
      BY <1>1, <2>3
    <3>2. f = FpuRegs[i - 1]
      BY <1>2, <2>1, <3>1
    <3> QED
      BY <1>1, <3>1, <3>2 DEF SavedRegisters, ToSet
  <2>4. CASE i \in n + 3 .. n + m + 2
    <3>1. i - n - 2 \in 1 .. m /\ (i - n - 2) + n + 2 = i
      BY <1>1, <2>4
    <3>2. f = BaseRegs[i - n - 2]
      BY <1>2, <2>1, <3>1
    <3> QED
      BY <1>1, <3>1, <3>2 DEF SavedRegisters, ToSet
  <2> QED
    BY <1>1, <2>1, <2>2, <2>3, <2>4
<1>7. "sp" \notin Fields
  BY TasksAssumption
<1> QED
  BY <1>2, <1>3, <1>4, <1>5, <1>6, <1>7 DEF Fields, ToSet

-----------------------------------------------------------------------------
(***************************************************************************)
(* The stacks: each has its own part of memory, and a context below a      *)
(* stack pointer of the task lies inside it.                               *)
(***************************************************************************)
Stack(h) == Base(h) .. Top(h) - 1

Context(ptr) == ptr .. ptr + SIZE_OF_CONTEXT - 1

LEMMA HandleFacts ==
  ASSUME NEW h \in Handles
  PROVE  /\ h \in Nat /\ h >= 1 /\ h <= Cardinality(Handles)
         /\ Cardinality(Handles) \in Nat
<1>1. IsFiniteSet(Handles) /\ h \in 1 .. Cardinality(Handles)
  BY TasksAssumption
<1> QED
  BY <1>1, FS_CardinalityType

LEMMA StackTypes ==
  ASSUME NEW h \in Handles
  PROVE  /\ Base(h) \in Nat /\ Top(h) \in Nat /\ Top(h) = Base(h) + StackWords
         /\ Stack(h) \subseteq Address
         /\ SIZE_OF_CONTEXT \in Nat /\ StackWords \in Nat /\ StackWords >= SIZE_OF_CONTEXT
         /\ SIZE_OF_CONTEXT > 0
<1> DEFINE n == Cardinality(Handles)
<1>1. StackWords \in Nat /\ StackWords >= SIZE_OF_CONTEXT
  BY TasksAssumption
<1>2. h \in Nat /\ h >= 1 /\ h <= n /\ n \in Nat
  BY HandleFacts
<1> HIDE DEF n
<1>3. (h - 1) * StackWords \in Nat
  BY <1>1, <1>2
<1>4. h * StackWords = (h - 1) * StackWords + StackWords
  BY <1>1, <1>2
<1>5. h * StackWords <= n * StackWords /\ n * StackWords \in Nat
  <2>1. n * StackWords = h * StackWords + (n - h) * StackWords
    BY <1>1, <1>2
  <2>2. (n - h) * StackWords \in Nat
    BY <1>1, <1>2
  <2>3. h * StackWords \in Nat
    BY <1>1, <1>2
  <2> QED
    BY <2>1, <2>2, <2>3
<1>6. /\ Base(h) \in Nat /\ Top(h) = Base(h) + StackWords /\ Top(h) \in Nat
      /\ Top(h) <= n * StackWords
  BY <1>1, <1>3, <1>4, <1>5 DEF Base, Top
<1>7. Stack(h) \subseteq Address
  BY <1>5, <1>6 DEF Stack, Address, n
<1> QED
  BY <1>1, <1>6, <1>7, LayoutFacts

LEMMA StacksDisjoint ==
  ASSUME NEW h \in Handles, NEW i \in Handles, h # i
  PROVE  Stack(h) \intersect Stack(i) = {}
<1>1. ASSUME NEW a \in Handles, NEW b \in Handles, a < b
      PROVE  Top(a) <= Base(b)
  <2>1. a \in Nat /\ b \in Nat /\ StackWords \in Nat
    BY TasksAssumption, HandleFacts
  <2>2. b - 1 - a \in Nat
    BY <1>1, <2>1
  <2>3. (b - 1) * StackWords = a * StackWords + (b - 1 - a) * StackWords
    BY <2>1, <2>2
  <2>4. (b - 1 - a) * StackWords \in Nat /\ a * StackWords \in Nat
    BY <2>1, <2>2
  <2> QED
    BY <2>3, <2>4 DEF Top, Base
<1>2. h \in Nat /\ i \in Nat
  BY HandleFacts
<1>3. CASE h < i
  <2>1. Top(h) <= Base(i)
    BY <1>1, <1>3
  <2> QED
    BY <2>1, StackTypes DEF Stack
<1>4. CASE i < h
  <2>1. Top(i) <= Base(h)
    BY <1>1, <1>4
  <2> QED
    BY <2>1, StackTypes DEF Stack
<1> QED
  BY <1>2, <1>3, <1>4

LEMMA StackPointerFacts ==
  ASSUME NEW h \in Handles, NEW sp \in StackPointers(h)
  PROVE  /\ sp \in Nat /\ sp > 0 /\ sp <= Top(h)
         /\ sp - SIZE_OF_CONTEXT \in Address
         /\ Context(sp - SIZE_OF_CONTEXT) \subseteq Stack(h)
         /\ Context(sp - SIZE_OF_CONTEXT) \subseteq Address
         /\ \A a \in sp .. Top(h) - 1 :
              a \in Stack(h) /\ a \notin Context(sp - SIZE_OF_CONTEXT)
<1>1. /\ Base(h) \in Nat /\ Top(h) \in Nat /\ SIZE_OF_CONTEXT \in Nat /\ SIZE_OF_CONTEXT > 0
      /\ Stack(h) \subseteq Address
  BY StackTypes
<1>2. sp \in Nat /\ sp >= Base(h) + SIZE_OF_CONTEXT /\ sp <= Top(h)
  BY <1>1 DEF StackPointers
<1>3. Context(sp - SIZE_OF_CONTEXT) \subseteq Stack(h)
  BY <1>1, <1>2 DEF Context, Stack
<1>4. sp - SIZE_OF_CONTEXT \in Stack(h)
  BY <1>1, <1>2 DEF Stack
<1>5. \A a \in sp .. Top(h) - 1 : a \in Stack(h) /\ a \notin Context(sp - SIZE_OF_CONTEXT)
  BY <1>1, <1>2 DEF Stack, Context
<1> QED
  BY <1>1, <1>2, <1>3, <1>4, <1>5

\* A context begun anew is at the top of the stack.
LEMMA NewStackPtrFacts ==
  ASSUME NEW h \in Handles
  PROVE  Top(h) \in StackPointers(h) /\ NewStackPtr(h) \in Address
<1>1. Top(h) \in StackPointers(h)
  BY StackTypes DEF StackPointers
<1> QED
  BY <1>1, StackPointerFacts DEF NewStackPtr

\* A stack pointer belongs to one task.
LEMMA StackPointersDisjoint ==
  ASSUME NEW h \in Handles, NEW i \in Handles, NEW sp \in StackPointers(h),
         sp \in StackPointers(i)
  PROVE  h = i
<1>1. SIZE_OF_CONTEXT \in Nat /\ SIZE_OF_CONTEXT > 0 /\ sp \in Nat
  BY StackTypes, StackPointerFacts
<1>2. sp - SIZE_OF_CONTEXT \in Context(sp - SIZE_OF_CONTEXT)
  BY <1>1 DEF Context
<1>3. sp - SIZE_OF_CONTEXT \in Stack(h) /\ sp - SIZE_OF_CONTEXT \in Stack(i)
  BY <1>2, StackPointerFacts
<1> QED
  BY <1>3, StacksDisjoint

-----------------------------------------------------------------------------
(***************************************************************************)
(* Contexts in memory.                                                     *)
(***************************************************************************)
\* A context that is written is read back, and nothing else is changed.
LEMMA WriteContextFacts ==
  ASSUME NEW W, NEW m \in [Address -> W], NEW ptr \in Int, NEW ctx \in [Fields -> W],
         Context(ptr) \subseteq Address,
         NEW new, new = WriteContext(m, ptr, ctx)
  PROVE  /\ new \in [Address -> W]
         /\ ReadContext(new, ptr) = ctx
         /\ \A a \in Address \ Context(ptr) : new[a] = m[a]
<1>1. new = [a \in Address |-> IF a \in Context(ptr) THEN ctx[Layout[a - ptr + 1]] ELSE m[a]]
  BY DEF WriteContext, Context
<1>2. ASSUME NEW f \in Fields
      PROVE  new[ptr + Offset[f]] = ctx[f]
  <2>1. /\ SIZE_OF_CONTEXT \in Nat /\ Offset[f] \in 0 .. SIZE_OF_CONTEXT - 1
        /\ Layout[Offset[f] + 1] = f
    BY LayoutFacts
  <2> DEFINE k == Offset[f]
  <2> HIDE DEF k
  <2>2. k \in Int /\ ptr + k \in Context(ptr) /\ (ptr + k) - ptr + 1 = k + 1
    BY <2>1 DEF Context, k
  <2> QED
    BY <1>1, <2>1, <2>2 DEF k
<1>3. ASSUME NEW a \in Context(ptr)
      PROVE  new[a] \in W
  <2>1. a - ptr \in 0 .. SIZE_OF_CONTEXT - 1
    BY LayoutFacts DEF Context
  <2>2. Layout[a - ptr + 1] \in Fields
    BY <2>1, LayoutFacts
  <2> QED
    BY <1>1, <2>2
<1>4. ReadContext(new, ptr) = ctx
  <2>1. ctx = [f \in Fields |-> ctx[f]]
    OBVIOUS
  <2> QED
    BY <1>2, <2>1 DEF ReadContext
<1> QED
  BY <1>1, <1>3, <1>4

\* Every field has its own word.
LEMMA FieldPlaces ==
  ASSUME NEW ptr \in Int, NEW f \in Fields
  PROVE  /\ ptr + Offset[f] \in Context(ptr)
         /\ \A g \in Fields : ptr + Offset[g] = ptr + Offset[f] => g = f
<1>1. SIZE_OF_CONTEXT \in Nat
  BY LayoutFacts
<1>2. \A g \in Fields : Offset[g] \in 0 .. SIZE_OF_CONTEXT - 1 /\ Layout[Offset[g] + 1] = g
  BY LayoutFacts
<1>3. ASSUME NEW g \in Fields, ptr + Offset[g] = ptr + Offset[f]
      PROVE  g = f
  <2>1. Offset[g] \in Int /\ Offset[f] \in Int
    BY <1>1, <1>2
  <2>2. Offset[g] = Offset[f]
    BY <1>3, <2>1
  <2> QED
    BY <1>2, <2>2
<1> QED
  BY <1>1, <1>2, <1>3 DEF Context

\* What is read depends on the context's words alone.
LEMMA SameContext ==
  ASSUME NEW m, NEW new, NEW ptr \in Int, \A a \in Context(ptr) : new[a] = m[a]
  PROVE  ReadContext(new, ptr) = ReadContext(m, ptr)
<1>1. \A f \in Fields : ptr + Offset[f] \in Context(ptr)
  BY FieldPlaces
<1> QED
  BY <1>1 DEF ReadContext

\* The words of a context.
LEMMA ReadContextType ==
  ASSUME NEW W, NEW m \in [Address -> W], NEW ptr \in Int, Context(ptr) \subseteq Address
  PROVE  ReadContext(m, ptr) \in [Fields -> W]
<1>1. \A f \in Fields : ptr + Offset[f] \in Context(ptr)
  BY FieldPlaces
<1> QED
  BY <1>1 DEF ReadContext

\* The context that a register file makes has the file's registers.
LEMMA NewContextFacts ==
  ASSUME NEW file \in RegisterFile, NEW nesting \in Words,
         NEW ctx, ctx = NewContext(file, nesting)
  PROVE  /\ ctx \in [Fields -> Words]
         /\ ctx["ulPortTaskHasFPUContext"] = 1
         /\ ctx["ulCriticalNesting"] = nesting
         /\ \A r \in SavedRegisters : ctx[r] = file.regs[r]
BY FieldFacts, TasksAssumption DEF NewContext, RegisterFile

-----------------------------------------------------------------------------
(***************************************************************************)
(* A task's whole context: inside its stack, with the flag that says it    *)
(* has FPU registers and a critical nesting of 0 or 1.                     *)
(***************************************************************************)
Whole(m, ptr, h) ==
  /\ ptr + SIZE_OF_CONTEXT \in StackPointers(h)
  /\ ReadContext(m, ptr)["ulPortTaskHasFPUContext"] # 0
  /\ ReadContext(m, ptr)["ulCriticalNesting"] \in {0, 1}

\* Where a whole context is.
LEMMA WholeFacts ==
  ASSUME NEW m, NEW h \in Handles, NEW ptr \in Int, Whole(m, ptr, h)
  PROVE  /\ ptr \in Address /\ ptr + SIZE_OF_CONTEXT \in Nat
         /\ Context(ptr) \subseteq Stack(h) /\ Context(ptr) \subseteq Address
         /\ \A a \in ptr + SIZE_OF_CONTEXT .. Top(h) - 1 :
              a \in Stack(h) /\ a \notin Context(ptr)
<1> DEFINE sp == ptr + SIZE_OF_CONTEXT
<1>1. sp \in StackPointers(h) /\ sp - SIZE_OF_CONTEXT = ptr
  BY LayoutFacts DEF Whole
<1> HIDE DEF sp
<1>2. /\ sp \in Nat /\ ptr \in Address
      /\ Context(ptr) \subseteq Stack(h) /\ Context(ptr) \subseteq Address
      /\ \A a \in sp .. Top(h) - 1 : a \in Stack(h) /\ a \notin Context(ptr)
  BY <1>1, StackPointerFacts
<1> QED
  BY <1>2 DEF sp

\* A context stays as it is while its stack does.
LEMMA WholeKept ==
  ASSUME NEW m, NEW new, NEW h \in Handles, NEW ptr \in Int, Whole(m, ptr, h),
         \A a \in Stack(h) : new[a] = m[a]
  PROVE  Whole(new, ptr, h) /\ ReadContext(new, ptr) = ReadContext(m, ptr)
<1>1. ReadContext(new, ptr) = ReadContext(m, ptr)
  BY WholeFacts, SameContext
<1> QED
  BY <1>1 DEF Whole

\* Writing a context leaves the other stacks and what lies above alone.
LEMMA WholeWritten ==
  ASSUME NEW m \in [Address -> Words], NEW h \in Handles, NEW sp \in StackPointers(h),
         NEW ctx \in [Fields -> Words],
         ctx["ulPortTaskHasFPUContext"] # 0, ctx["ulCriticalNesting"] \in {0, 1},
         NEW ptr, ptr = sp - SIZE_OF_CONTEXT,
         NEW new, new = WriteContext(m, ptr, ctx)
  PROVE  /\ new \in [Address -> Words]
         /\ Whole(new, ptr, h)
         /\ ReadContext(new, ptr) = ctx
         /\ \A i \in Handles \ {h} : \A a \in Stack(i) : new[a] = m[a]
         /\ \A a \in sp .. Top(h) - 1 : new[a] = m[a]
         /\ ptr \in Address /\ ptr + SIZE_OF_CONTEXT = sp
<1>1. /\ ptr \in Address /\ ptr \in Int /\ ptr + SIZE_OF_CONTEXT = sp
      /\ Context(ptr) \subseteq Stack(h) /\ Context(ptr) \subseteq Address
      /\ \A a \in sp .. Top(h) - 1 : a \in Stack(h) /\ a \notin Context(ptr)
  BY StackPointerFacts, LayoutFacts DEF Address
<1>2. /\ new \in [Address -> Words]
      /\ ReadContext(new, ptr) = ctx
      /\ \A a \in Address \ Context(ptr) : new[a] = m[a]
  BY <1>1, WriteContextFacts
<1>4. Whole(new, ptr, h)
  BY <1>1, <1>2 DEF Whole
<1>5. ASSUME NEW i \in Handles \ {h}, NEW a \in Stack(i)
      PROVE  new[a] = m[a]
  <2>1. a \in Address /\ a \notin Stack(h)
    BY StackTypes, StacksDisjoint
  <2> QED
    BY <1>1, <1>2, <2>1
<1>6. \A a \in sp .. Top(h) - 1 : new[a] = m[a]
  BY <1>1, <1>2, StackTypes
<1> QED
  BY <1>1, <1>2, <1>4, <1>5, <1>6

\* So does writing a register into a context.
LEMMA WholeFieldWritten ==
  ASSUME NEW m \in [Address -> Words], NEW h \in Handles, NEW ptr \in Int, Whole(m, ptr, h),
         NEW id \in SavedRegisters, NEW w \in Words, NEW new,
         \A a \in Address : new[a] = IF a = ptr + Offset[id] THEN w ELSE m[a]
  PROVE  /\ Whole(new, ptr, h)
         /\ \A f \in Fields :
              ReadContext(new, ptr)[f] = IF f = id THEN w ELSE ReadContext(m, ptr)[f]
         /\ \A i \in Handles \ {h} : \A a \in Stack(i) : new[a] = m[a]
         /\ \A a \in ptr + SIZE_OF_CONTEXT .. Top(h) - 1 : new[a] = m[a]
<1>1. /\ Context(ptr) \subseteq Stack(h) /\ Context(ptr) \subseteq Address
      /\ \A a \in ptr + SIZE_OF_CONTEXT .. Top(h) - 1 : a \in Stack(h) /\ a \notin Context(ptr)
  BY WholeFacts
<1>2. id \in Fields /\ ptr + Offset[id] \in Context(ptr)
  BY FieldFacts, FieldPlaces
<1>3. ASSUME NEW f \in Fields
      PROVE  ReadContext(new, ptr)[f] = IF f = id THEN w ELSE ReadContext(m, ptr)[f]
  <2>1. ptr + Offset[f] \in Address /\ (ptr + Offset[f] = ptr + Offset[id] <=> f = id)
    BY <1>1, <1>2, FieldPlaces
  <2> QED
    BY <2>1 DEF ReadContext
<1>4. \A a \in Address \ Context(ptr) : new[a] = m[a]
  BY <1>2
<1>5. Whole(new, ptr, h)
  BY <1>3, FieldFacts DEF Whole
<1>6. ASSUME NEW i \in Handles \ {h}, NEW a \in Stack(i)
      PROVE  new[a] = m[a]
  <2>1. a \in Address /\ a \notin Stack(h)
    BY StackTypes, StacksDisjoint
  <2> QED
    BY <1>1, <1>4, <2>1
<1>7. \A a \in ptr + SIZE_OF_CONTEXT .. Top(h) - 1 : new[a] = m[a]
  BY <1>1, <1>4, StackTypes
<1> QED
  BY <1>3, <1>5, <1>6, <1>7

-----------------------------------------------------------------------------
(***************************************************************************)
(* The invariant.                                                          *)
(***************************************************************************)
LEMMA SavedAreWhole ==
  ASSUME TasksInv, phase # "panicked", NEW h \in Saved
  PROVE  /\ h \in Handles /\ h \in Live /\ h # pxCurrentTCB /\ xTaskNumber[h] # 0
         /\ stack_ptr[h] \in Int
         /\ Whole(mem, stack_ptr[h], h)
<1>1. h \in Handles /\ h \in Live /\ h # pxCurrentTCB /\ xTaskNumber[h] # 0
  BY DEF Saved, Live, Existing
<1>2. stack_ptr[h] \in Int
  BY <1>1 DEF TasksInv, TypeOK, Address
<1>3. Sp(h) \in StackPointers(h) /\ HasFpuContext(stack_ptr[h])
  BY DEF TasksInv, SavedContextsAreWhole
<1>4. ReadContext(mem, stack_ptr[h])["ulCriticalNesting"] \in {0, 1}
  BY DEF TasksInv, NestingsAreFlags
<1>5. ReadContext(mem, stack_ptr[h])["ulPortTaskHasFPUContext"]
        = mem[stack_ptr[h] + Offset["ulPortTaskHasFPUContext"]]
  BY FieldFacts DEF ReadContext
<1> QED
  BY <1>1, <1>2, <1>3, <1>4, <1>5 DEF Whole, Sp, HasFpuContext

LEMMA WholeSufficesNext ==
  ASSUME TypeOK', IdsAreUnique', CurrentFitsStack', AnswersAgree', ulCriticalNesting' \in {0, 1},
         phase' # "panicked" => \A h \in Saved' : Whole(mem', stack_ptr'[h], h)
  PROVE  TasksInv'
<1>1. ASSUME NEW h \in Saved', phase' # "panicked"
      PROVE  /\ Sp(h)' \in StackPointers(h)
             /\ mem'[stack_ptr'[h] + Offset["ulPortTaskHasFPUContext"]] # 0
             /\ ReadContext(mem', stack_ptr'[h])["ulCriticalNesting"] \in {0, 1}
  <2>1. ReadContext(mem', stack_ptr'[h])["ulPortTaskHasFPUContext"]
          = mem'[stack_ptr'[h] + Offset["ulPortTaskHasFPUContext"]]
    BY FieldFacts DEF ReadContext
  <2> QED
    BY <1>1, <2>1 DEF Whole, Sp
<1>2. SavedContextsAreWhole' /\ NestingsAreFlags'
  BY <1>1 DEF SavedContextsAreWhole, NestingsAreFlags, HasFpuContext
<1> QED
  BY <1>2 DEF TasksInv

LEMMA InitEstablishesTasksInv == Init => TasksInv
<1> SUFFICES ASSUME Init PROVE TasksInv
  OBVIOUS
<1> USE DEF Init
<1>1. 1 \in Handles /\ 2 \in Handles
  <2>1. IsFiniteSet(Handles) /\ Handles = 1 .. Cardinality(Handles) /\ Cardinality(Handles) >= 2
    BY TasksAssumption
  <2>2. Cardinality(Handles) \in Nat
    BY <2>1, FS_CardinalityType
  <2> QED
    BY <2>1, <2>2
<1>2. \A h \in Handles : h \in Nat /\ h >= 1
  BY HandleFacts
<1>3. Existing = {1, 2} /\ Live = {1, 2} /\ Saved = {2}
  BY <1>1, <1>2 DEF Existing, Live, Saved
<1>4. {0, 1} \subseteq Words /\ MaxTaskNumber \in Nat /\ MaxTaskNumber >= 2
  BY TasksAssumption
<1>5. ASSUME NEW h \in Handles
      PROVE  NewFile(h) \in RegisterFile /\ NewFile(h).sp = Top(h) /\ Top(h) \in StackPointers(h)
  BY <1>4, StackTypes, NewStackPtrFacts DEF NewFile, RegisterFile
<1>6. /\ mem \in [Address -> Words]
      /\ Whole(mem, stack_ptr[2], 2)
  <2> DEFINE zeros == [a \in Address |-> 0]
             ctx == NewContext(NewFile(2), 0)
             ptr == NewStackPtr(2)
  <2>1. zeros \in [Address -> Words]
    BY <1>4
  <2>2. /\ ctx \in [Fields -> Words]
        /\ ctx["ulPortTaskHasFPUContext"] # 0 /\ ctx["ulCriticalNesting"] \in {0, 1}
    BY <1>1, <1>4, <1>5, NewContextFacts
  <2>3. ptr = Top(2) - SIZE_OF_CONTEXT /\ Top(2) \in StackPointers(2)
    BY <1>1, <1>5 DEF NewStackPtr
  <2>4. mem = WriteContext(zeros, ptr, ctx) /\ stack_ptr[2] = ptr
    BY <1>1
  <2> HIDE DEF zeros, ctx, ptr
  <2> QED
    BY <1>1, <2>1, <2>2, <2>3, <2>4, WholeWritten
<1>7. TypeOK
  <2>1. stack_ptr \in [Handles -> Address]
    BY NewStackPtrFacts
  <2>2. xTaskNumber \in [Handles -> 0 .. MaxTaskNumber]
    BY <1>2, <1>4
  <2>3. exception_ctx \in RegisterFile
    BY <1>1, <1>5
  <2>4. /\ phase \in {"program", "stopped", "panicked"} /\ pxCurrentTCB \in Live
        /\ deleted \subseteq Existing /\ uxTaskNumber \in 0 .. MaxTaskNumber
        /\ ulCriticalNesting \in Words
    BY <1>3, <1>4
  <2> QED
    BY <1>6, <2>1, <2>2, <2>3, <2>4 DEF TypeOK
<1>8. IdsAreUnique
  BY <1>1, <1>3 DEF IdsAreUnique
<1>9. CurrentFitsStack /\ AnswersAgree
  BY <1>1, <1>5 DEF CurrentFitsStack, AnswersAgree
<1>10. Sp(2) \in StackPointers(2) /\ HasFpuContext(stack_ptr[2])
  BY <1>6, FieldFacts DEF Whole, Sp, HasFpuContext, ReadContext
<1>11. ReadContext(mem, stack_ptr[2])["ulCriticalNesting"] \in {0, 1}
  BY <1>6 DEF Whole
<1>12. SavedContextsAreWhole /\ NestingsAreFlags
  <2>1. \A h \in Saved : h = 2
    BY <1>3
  <2> QED
    BY <1>10, <1>11, <2>1 DEF SavedContextsAreWhole, NestingsAreFlags
<1> QED
  BY <1>7, <1>8, <1>9, <1>12 DEF TasksInv

-----------------------------------------------------------------------------
(***************************************************************************)
(* The steps of the program and of FreeRTOS.                               *)
(***************************************************************************)
\* What there is to know of the current task.
LEMMA CurrentFacts ==
  ASSUME TasksInv
  PROVE  /\ pxCurrentTCB \in Handles /\ pxCurrentTCB \in Live
         /\ exception_ctx \in RegisterFile
         /\ exception_ctx.sp \in StackPointers(pxCurrentTCB)
         /\ ulCriticalNesting \in Words /\ ulCriticalNesting \in {0, 1}
         /\ mem \in [Address -> Words] /\ stack_ptr \in [Handles -> Address]
BY DEF TasksInv, TypeOK, CurrentFitsStack, NestingsAreFlags, Live, Existing

\* Contexts stay whole when nothing but the current task's stack changes.
LEMMA OthersStayWhole ==
  ASSUME TasksInv, phase # "panicked", UNCHANGED <<rtos, stack_ptr>>,
         \A i \in Handles \ {pxCurrentTCB} : \A a \in Stack(i) : mem'[a] = mem[a]
  PROVE  \A h \in Saved' : Whole(mem', stack_ptr'[h], h)
<1> SUFFICES ASSUME NEW h \in Saved PROVE Whole(mem', stack_ptr[h], h)
  BY DEF rtos, Saved, Live, Existing
<1>1. /\ h \in Handles \ {pxCurrentTCB} /\ stack_ptr[h] \in Int
      /\ Whole(mem, stack_ptr[h], h)
  BY SavedAreWhole
<1> QED
  BY <1>1, WholeKept

LEMMA ComputePreserves ==
  ASSUME TasksInv, NEW r \in SavedRegisters, NEW w \in WrittenWords, Compute(r, w)
  PROVE  TasksInv'
<1>1. /\ phase = "program" /\ exception_ctx' = [exception_ctx EXCEPT !.regs[r] = w]
      /\ UNCHANGED <<phase, rtos, stack_ptr, mem, answer>>
  BY DEF Compute, Running
<1>2. w \in Words
  BY TasksAssumption
<1>3. exception_ctx' \in RegisterFile /\ exception_ctx'.sp = exception_ctx.sp
  BY <1>1, <1>2, CurrentFacts DEF RegisterFile
<1>4. \A h \in Saved' : Whole(mem', stack_ptr'[h], h)
  BY <1>1, OthersStayWhole
<1>5. TypeOK' /\ IdsAreUnique' /\ ulCriticalNesting' \in {0, 1}
  BY <1>1, <1>3, CurrentFacts DEF TasksInv, TypeOK, IdsAreUnique, rtos, Live, Existing
<1>6. CurrentFitsStack' /\ AnswersAgree'
  BY <1>1, <1>3 DEF TasksInv, CurrentFitsStack, AnswersAgree, rtos, NoAnswer
<1> QED
  BY <1>4, <1>5, <1>6, WholeSufficesNext

\* The word that a task pushes is in its own stack.
LEMMA PushFacts ==
  ASSUME TasksInv, NEW w \in WrittenWords, Push(w)
  PROVE  /\ exception_ctx' \in RegisterFile
         /\ exception_ctx'.sp \in StackPointers(pxCurrentTCB)
         /\ mem' \in [Address -> Words]
         /\ \A i \in Handles \ {pxCurrentTCB} : \A a \in Stack(i) : mem'[a] = mem[a]
<1> DEFINE sp == exception_ctx.sp - 1
<1>1. /\ sp \in StackPointers(pxCurrentTCB)
      /\ exception_ctx' = [exception_ctx EXCEPT !.sp = sp]
      /\ mem' = [mem EXCEPT ![sp] = w]
  BY DEF Push
<1>2. w \in Words
  BY TasksAssumption
<1>3. /\ pxCurrentTCB \in Handles /\ exception_ctx \in RegisterFile
      /\ exception_ctx.sp \in StackPointers(pxCurrentTCB) /\ mem \in [Address -> Words]
  BY CurrentFacts
<1>4. sp \in Nat /\ sp \in Stack(pxCurrentTCB)
  <2>1. /\ sp \in Nat /\ sp >= 0
    BY <1>1, <1>3, StackPointerFacts
  <2>2. exception_ctx.sp \in Nat /\ exception_ctx.sp <= Top(pxCurrentTCB)
    BY <1>3, StackPointerFacts
  <2>3. Base(pxCurrentTCB) \in Nat /\ Top(pxCurrentTCB) \in Nat /\ SIZE_OF_CONTEXT \in Nat
    BY <1>3, StackTypes
  <2>4. sp >= Base(pxCurrentTCB)
    BY <1>1, <2>3 DEF StackPointers
  <2> QED
    BY <2>1, <2>2, <2>3, <2>4 DEF Stack
<1> HIDE DEF sp
<1>5. exception_ctx' \in RegisterFile /\ exception_ctx'.sp = sp
  BY <1>1, <1>3, <1>4 DEF RegisterFile
<1>6. mem' \in [Address -> Words]
  BY <1>1, <1>2, <1>3
<1>7. ASSUME NEW i \in Handles \ {pxCurrentTCB}, NEW a \in Stack(i)
      PROVE  mem'[a] = mem[a]
  <2>1. a \in Address /\ a # sp
    BY <1>3, <1>4, StackTypes, StacksDisjoint
  <2> QED
    BY <1>1, <1>3, <2>1
<1> QED
  BY <1>1, <1>5, <1>6, <1>7

LEMMA PushPreserves ==
  ASSUME TasksInv, NEW w \in WrittenWords, Push(w)
  PROVE  TasksInv'
<1>1. phase = "program" /\ UNCHANGED <<phase, rtos, stack_ptr, answer>>
  BY DEF Push, Running
<1>2. /\ exception_ctx' \in RegisterFile
      /\ exception_ctx'.sp \in StackPointers(pxCurrentTCB)
      /\ mem' \in [Address -> Words]
      /\ \A i \in Handles \ {pxCurrentTCB} : \A a \in Stack(i) : mem'[a] = mem[a]
  BY PushFacts
<1>3. \A h \in Saved' : Whole(mem', stack_ptr'[h], h)
  BY <1>1, <1>2, OthersStayWhole
<1>4. TypeOK' /\ IdsAreUnique' /\ ulCriticalNesting' \in {0, 1}
  BY <1>1, <1>2, CurrentFacts DEF TasksInv, TypeOK, IdsAreUnique, rtos, Live, Existing
<1>5. CurrentFitsStack' /\ AnswersAgree'
  BY <1>1, <1>2 DEF TasksInv, CurrentFitsStack, AnswersAgree, rtos, NoAnswer
<1> QED
  BY <1>3, <1>4, <1>5, WholeSufficesNext

LEMMA PopPreserves ==
  ASSUME TasksInv, Pop
  PROVE  TasksInv'
<1>1. /\ phase = "program" /\ exception_ctx.sp < Top(pxCurrentTCB)
      /\ exception_ctx' = [exception_ctx EXCEPT !.sp = exception_ctx.sp + 1]
      /\ UNCHANGED <<phase, rtos, stack_ptr, mem, answer>>
  BY DEF Pop, Running
<1>2. /\ pxCurrentTCB \in Handles /\ exception_ctx \in RegisterFile
      /\ exception_ctx.sp \in StackPointers(pxCurrentTCB)
  BY CurrentFacts
<1>3. exception_ctx.sp + 1 \in StackPointers(pxCurrentTCB) /\ exception_ctx.sp + 1 \in Nat
  <2>1. Base(pxCurrentTCB) \in Nat /\ Top(pxCurrentTCB) \in Nat /\ SIZE_OF_CONTEXT \in Nat
    BY <1>2, StackTypes
  <2> DEFINE sp == exception_ctx.sp
  <2>2. sp \in Nat /\ sp \in Base(pxCurrentTCB) + SIZE_OF_CONTEXT .. Top(pxCurrentTCB)
        /\ sp < Top(pxCurrentTCB)
    BY <1>1, <1>2, StackPointerFacts DEF StackPointers
  <2> HIDE DEF sp
  <2>3. sp + 1 \in Base(pxCurrentTCB) + SIZE_OF_CONTEXT .. Top(pxCurrentTCB) /\ sp + 1 \in Nat
    BY <2>1, <2>2
  <2> QED
    BY <2>3 DEF StackPointers, sp
<1>4. exception_ctx' \in RegisterFile /\ exception_ctx'.sp \in StackPointers(pxCurrentTCB)
  BY <1>1, <1>2, <1>3 DEF RegisterFile
<1>5. \A h \in Saved' : Whole(mem', stack_ptr'[h], h)
  BY <1>1, OthersStayWhole
<1>6. TypeOK' /\ IdsAreUnique' /\ ulCriticalNesting' \in {0, 1}
  BY <1>1, <1>4, CurrentFacts DEF TasksInv, TypeOK, IdsAreUnique, rtos, Live, Existing
<1>7. CurrentFitsStack' /\ AnswersAgree'
  BY <1>1, <1>4 DEF TasksInv, CurrentFitsStack, AnswersAgree, rtos, NoAnswer
<1> QED
  BY <1>5, <1>6, <1>7, WholeSufficesNext

LEMMA CriticalPreserves ==
  ASSUME TasksInv, EnterOrExitCritical
  PROVE  TasksInv'
<1>1. /\ phase = "program" /\ ulCriticalNesting' = 1 - ulCriticalNesting
      /\ UNCHANGED <<phase, pxCurrentTCB, xTaskNumber, deleted, uxTaskNumber, stack_ptr, mem,
                     exception_ctx, answer>>
  BY DEF EnterOrExitCritical, Running, regs
<1>2. ulCriticalNesting' \in {0, 1} /\ ulCriticalNesting' \in Words
  BY <1>1, CurrentFacts, TasksAssumption
<1>3. \A h \in Saved' : Whole(mem', stack_ptr'[h], h)
  BY <1>1, SavedAreWhole DEF Saved, Live, Existing
<1>4. TypeOK' /\ IdsAreUnique'
  BY <1>1, <1>2 DEF TasksInv, TypeOK, IdsAreUnique, Live, Existing
<1>5. CurrentFitsStack' /\ AnswersAgree'
  BY <1>1 DEF TasksInv, CurrentFitsStack, AnswersAgree, NoAnswer
<1> QED
  BY <1>2, <1>3, <1>4, <1>5, WholeSufficesNext

\* The register file of a saved task.
LEMMA SavedFileFacts ==
  ASSUME TasksInv, phase # "panicked", NEW h \in Saved
  PROVE  /\ SavedFile(h) \in RegisterFile
         /\ SavedFile(h).sp \in StackPointers(h)
         /\ SavedFile(h).sp = stack_ptr[h] + SIZE_OF_CONTEXT
         /\ \A r \in SavedRegisters : SavedFile(h).regs[r] = ReadContext(mem, stack_ptr[h])[r]
         /\ ReadContext(mem, stack_ptr[h]) \in [Fields -> Words]
<1>1. h \in Handles /\ stack_ptr[h] \in Int /\ Whole(mem, stack_ptr[h], h)
  BY SavedAreWhole
<1>2. ReadContext(mem, stack_ptr[h]) \in [Fields -> Words]
  BY <1>1, WholeFacts, CurrentFacts, ReadContextType
<1>3. stack_ptr[h] + SIZE_OF_CONTEXT \in Nat
  BY <1>1, WholeFacts
<1> QED
  BY <1>1, <1>2, <1>3, FieldFacts DEF SavedFile, RegisterFile, Sp, Whole

\* What a context switch does: the current task's context is whole where it
\* was put, and every other context is where and what it was.
LEMMA SwitchToFacts ==
  ASSUME TasksInv, phase # "panicked", NEW h \in Saved, SwitchTo(h)
  PROVE  /\ mem' \in [Address -> Words] /\ stack_ptr' \in [Handles -> Address]
         /\ Whole(mem', stack_ptr'[pxCurrentTCB], pxCurrentTCB)
         /\ stack_ptr'[pxCurrentTCB] + SIZE_OF_CONTEXT = exception_ctx.sp
         /\ ReadContext(mem', stack_ptr'[pxCurrentTCB])
              = NewContext(exception_ctx, ulCriticalNesting)
         /\ \A i \in Saved : /\ stack_ptr'[i] = stack_ptr[i]
                            /\ Whole(mem', stack_ptr'[i], i)
                            /\ ReadContext(mem', stack_ptr'[i]) = ReadContext(mem, stack_ptr[i])
         /\ pxCurrentTCB' = h
         /\ exception_ctx' = SavedFile(h)
         /\ ulCriticalNesting' = ReadContext(mem, stack_ptr[h])["ulCriticalNesting"]
         /\ ulCriticalNesting' \in {0, 1}
<1> DEFINE cur == pxCurrentTCB
           ptr == exception_ctx.sp - SIZE_OF_CONTEXT
           ctx == NewContext(exception_ctx, ulCriticalNesting)
<1>1. /\ stack_ptr' = [stack_ptr EXCEPT ![cur] = ptr]
      /\ mem' = WriteContext(mem, ptr, ctx)
      /\ pxCurrentTCB' = h /\ exception_ctx' = SavedFile(h)
      /\ ulCriticalNesting' = ReadContext(mem, stack_ptr[h])["ulCriticalNesting"]
  BY DEF SwitchTo
<1>2. /\ cur \in Handles /\ exception_ctx.sp \in StackPointers(cur)
      /\ mem \in [Address -> Words] /\ stack_ptr \in [Handles -> Address]
  BY CurrentFacts
<1>3. /\ ctx \in [Fields -> Words]
      /\ ctx["ulPortTaskHasFPUContext"] # 0 /\ ctx["ulCriticalNesting"] \in {0, 1}
  BY CurrentFacts, NewContextFacts
<1> HIDE DEF cur, ptr, ctx
<1>4. ptr = exception_ctx.sp - SIZE_OF_CONTEXT
  BY DEF ptr
<1>5. /\ mem' \in [Address -> Words]
      /\ Whole(mem', ptr, cur)
      /\ ReadContext(mem', ptr) = ctx
      /\ \A i \in Handles \ {cur} : \A a \in Stack(i) : mem'[a] = mem[a]
      /\ ptr \in Address /\ ptr + SIZE_OF_CONTEXT = exception_ctx.sp
  BY <1>1, <1>2, <1>3, <1>4, WholeWritten
<1>6. stack_ptr' \in [Handles -> Address] /\ stack_ptr'[cur] = ptr
  BY <1>1, <1>2, <1>5
<1>7. ASSUME NEW i \in Saved
      PROVE  /\ stack_ptr'[i] = stack_ptr[i]
             /\ Whole(mem', stack_ptr'[i], i)
             /\ ReadContext(mem', stack_ptr'[i]) = ReadContext(mem, stack_ptr[i])
  <2>1. i \in Handles \ {cur} /\ stack_ptr[i] \in Int /\ Whole(mem, stack_ptr[i], i)
    BY SavedAreWhole DEF cur
  <2>2. stack_ptr'[i] = stack_ptr[i]
    BY <1>1, <1>2, <2>1
  <2> QED
    BY <1>5, <2>1, <2>2, WholeKept
<1>8. ulCriticalNesting' \in {0, 1}
  BY <1>1, SavedAreWhole DEF Whole
<1> QED
  BY <1>1, <1>5, <1>6, <1>7, <1>8 DEF cur, ctx

LEMMA SwitchContextPreserves ==
  ASSUME TasksInv, NEW h \in Handles, SwitchContext(h)
  PROVE  TasksInv'
<1>1. /\ phase = "program" /\ h \in Saved /\ SwitchTo(h)
      /\ UNCHANGED <<phase, xTaskNumber, deleted, uxTaskNumber, answer>>
  BY DEF SwitchContext, Running
<1>2. h \in Live /\ pxCurrentTCB' = h
  BY <1>1, SavedAreWhole, SwitchToFacts
<1>3. \A i \in Saved' : i \in Saved \/ i = pxCurrentTCB
  BY <1>1, <1>2 DEF Saved, Live, Existing
<1>4. \A i \in Saved' : Whole(mem', stack_ptr'[i], i)
  BY <1>1, <1>3, SwitchToFacts
<1>5. exception_ctx' \in RegisterFile /\ exception_ctx'.sp \in StackPointers(h)
  BY <1>1, SwitchToFacts, SavedFileFacts
<1>6. ulCriticalNesting' \in {0, 1} /\ ulCriticalNesting' \in Words
  BY <1>1, SwitchToFacts, TasksAssumption
<1>7. mem' \in [Address -> Words] /\ stack_ptr' \in [Handles -> Address]
  BY <1>1, SwitchToFacts
<1>8. TypeOK' /\ IdsAreUnique'
  BY <1>1, <1>2, <1>5, <1>6, <1>7 DEF TasksInv, TypeOK, IdsAreUnique, Live, Existing
<1>9. CurrentFitsStack' /\ AnswersAgree'
  BY <1>1, <1>2, <1>5 DEF TasksInv, CurrentFitsStack, AnswersAgree, NoAnswer
<1> QED
  BY <1>4, <1>6, <1>8, <1>9, WholeSufficesNext

LEMMA DeleteSelfPreserves ==
  ASSUME TasksInv, NEW h \in Handles, DeleteSelf(h)
  PROVE  TasksInv'
<1>1. /\ phase = "program" /\ h \in Saved /\ SwitchTo(h)
      /\ deleted' = deleted \union {pxCurrentTCB}
      /\ UNCHANGED <<phase, xTaskNumber, uxTaskNumber, answer>>
  BY DEF DeleteSelf, Running
<1>2. h \in Live /\ h # pxCurrentTCB /\ pxCurrentTCB' = h /\ pxCurrentTCB \in Existing
  BY <1>1, SavedAreWhole, SwitchToFacts, CurrentFacts DEF Live
<1>3. \A i \in Saved' : i \in Saved
  BY <1>1, <1>2 DEF Saved, Live, Existing
<1>4. \A i \in Saved' : Whole(mem', stack_ptr'[i], i)
  BY <1>1, <1>3, SwitchToFacts
<1>5. exception_ctx' \in RegisterFile /\ exception_ctx'.sp \in StackPointers(h)
  BY <1>1, SwitchToFacts, SavedFileFacts
<1>6. ulCriticalNesting' \in {0, 1} /\ ulCriticalNesting' \in Words
  BY <1>1, SwitchToFacts, TasksAssumption
<1>7. mem' \in [Address -> Words] /\ stack_ptr' \in [Handles -> Address]
  BY <1>1, SwitchToFacts
<1>8. TypeOK' /\ IdsAreUnique'
  BY <1>1, <1>2, <1>5, <1>6, <1>7 DEF TasksInv, TypeOK, IdsAreUnique, Live, Existing
<1>9. CurrentFitsStack' /\ AnswersAgree'
  BY <1>1, <1>2, <1>5 DEF TasksInv, CurrentFitsStack, AnswersAgree, NoAnswer
<1> QED
  BY <1>4, <1>6, <1>8, <1>9, WholeSufficesNext

\* What the memory of a task that does not exist holds makes no difference to
\* the others.
LEMMA StrangerStackKept ==
  ASSUME TasksInv, phase # "panicked", NEW h \in Handles, h \notin Saved,
         stack_ptr' = [stack_ptr EXCEPT ![h] = NewStackPtr(h)],
         \A i \in Handles \ {h} : \A a \in Stack(i) : mem'[a] = mem[a]
  PROVE  \A i \in Saved : /\ Whole(mem', stack_ptr'[i], i)
                         /\ stack_ptr'[i] = stack_ptr[i]
                         /\ ReadContext(mem', stack_ptr'[i]) = ReadContext(mem, stack_ptr[i])
<1> TAKE i \in Saved
<1>1. i \in Handles \ {h} /\ stack_ptr[i] \in Int /\ Whole(mem, stack_ptr[i], i)
  BY SavedAreWhole
<1>2. stack_ptr'[i] = stack_ptr[i]
  BY <1>1, CurrentFacts
<1> QED
  BY <1>1, <1>2, WholeKept

LEMMA CreateTaskFacts ==
  ASSUME TasksInv, NEW h \in Handles, CreateTask(h)
  PROVE  /\ mem' \in [Address -> Words] /\ stack_ptr' \in [Handles -> Address]
         /\ Whole(mem', stack_ptr'[h], h)
         /\ \A i \in Handles \ {h} : \A a \in Stack(i) : mem'[a] = mem[a]
<1> DEFINE ctx == NewContext(NewFile(h), 0)
           ptr == NewStackPtr(h)
<1>1. stack_ptr' = [stack_ptr EXCEPT ![h] = ptr] /\ mem' = WriteContext(mem, ptr, ctx)
  BY DEF CreateTask
<1>2. 0 \in Words /\ NewFile(h) \in RegisterFile
  BY StackTypes, TasksAssumption DEF NewFile, RegisterFile
<1>3. /\ ctx \in [Fields -> Words]
      /\ ctx["ulPortTaskHasFPUContext"] # 0 /\ ctx["ulCriticalNesting"] \in {0, 1}
  BY <1>2, NewContextFacts
<1>4. ptr = Top(h) - SIZE_OF_CONTEXT /\ Top(h) \in StackPointers(h) /\ ptr \in Address
  BY NewStackPtrFacts DEF NewStackPtr
<1>5. mem \in [Address -> Words] /\ stack_ptr \in [Handles -> Address]
  BY CurrentFacts
<1> HIDE DEF ctx, ptr
<1>6. /\ mem' \in [Address -> Words] /\ Whole(mem', ptr, h)
      /\ \A i \in Handles \ {h} : \A a \in Stack(i) : mem'[a] = mem[a]
  BY <1>1, <1>3, <1>4, <1>5, WholeWritten
<1> QED
  BY <1>1, <1>4, <1>5, <1>6

LEMMA CreateTaskPreserves ==
  ASSUME TasksInv, NEW h \in Handles, CreateTask(h)
  PROVE  TasksInv'
<1>1. /\ phase = "program" /\ xTaskNumber[h] = 0 /\ uxTaskNumber < MaxTaskNumber
      /\ uxTaskNumber' = uxTaskNumber + 1
      /\ xTaskNumber' = [xTaskNumber EXCEPT ![h] = uxTaskNumber + 1]
      /\ stack_ptr' = [stack_ptr EXCEPT ![h] = NewStackPtr(h)]
      /\ UNCHANGED <<phase, pxCurrentTCB, deleted, ulCriticalNesting, exception_ctx, answer>>
  BY DEF CreateTask, Running
<1>2. /\ xTaskNumber \in [Handles -> 0 .. MaxTaskNumber] /\ uxTaskNumber \in 0 .. MaxTaskNumber
      /\ MaxTaskNumber \in Nat /\ h \notin Existing /\ h \notin Saved
  BY <1>1, TasksAssumption DEF TasksInv, TypeOK, Existing, Saved, Live
<1>3. /\ Existing' = Existing \union {h} /\ \A i \in Existing : xTaskNumber'[i] = xTaskNumber[i]
      /\ xTaskNumber'[h] = uxTaskNumber + 1
  BY <1>1, <1>2 DEF Existing
<1>4. /\ Live \subseteq Live'
      /\ \A i \in Saved' : i \in Saved \/ i = h
  BY <1>1, <1>3 DEF Live, Saved
<1>5. \A i \in Saved' : Whole(mem', stack_ptr'[i], i)
  BY <1>1, <1>2, <1>4, CreateTaskFacts, StrangerStackKept
<1>6. IdsAreUnique'
  <2>1. \A i \in Existing : xTaskNumber[i] \in Nat /\ xTaskNumber[i] <= uxTaskNumber
    BY <1>2 DEF TasksInv, IdsAreUnique, Existing
  <2>2. \A i, j \in Existing : xTaskNumber[i] = xTaskNumber[j] => i = j
    BY DEF TasksInv, IdsAreUnique
  <2> QED
    BY <1>1, <1>2, <1>3, <2>1, <2>2 DEF IdsAreUnique
<1>7. TypeOK'
  <2>1. xTaskNumber' \in [Handles -> 0 .. MaxTaskNumber] /\ uxTaskNumber' \in 0 .. MaxTaskNumber
    BY <1>1, <1>2
  <2>2. pxCurrentTCB' \in Live' /\ deleted' \subseteq Existing'
    BY <1>1, <1>3, <1>4 DEF TasksInv, TypeOK
  <2> QED
    BY <1>1, <2>1, <2>2, CreateTaskFacts DEF TasksInv, TypeOK
<1>8. CurrentFitsStack' /\ AnswersAgree' /\ ulCriticalNesting' \in {0, 1}
  BY <1>1, CurrentFacts DEF TasksInv, CurrentFitsStack, AnswersAgree, NoAnswer
<1> QED
  BY <1>5, <1>6, <1>7, <1>8, WholeSufficesNext

LEMMA DeleteTaskPreserves ==
  ASSUME TasksInv, NEW h \in Handles, DeleteTask(h)
  PROVE  TasksInv'
<1>1. /\ phase = "program" /\ h \in Saved /\ deleted' = deleted \union {h}
      /\ UNCHANGED <<phase, pxCurrentTCB, xTaskNumber, uxTaskNumber, ulCriticalNesting,
                     stack_ptr, mem, exception_ctx, answer>>
  BY DEF DeleteTask, Running, regs
<1>2. h \in Live /\ h # pxCurrentTCB
  BY <1>1, SavedAreWhole
<1>3. Saved' \subseteq Saved
  BY <1>1 DEF Saved, Live, Existing
<1>4. \A i \in Saved' : Whole(mem', stack_ptr'[i], i)
  BY <1>1, <1>3, SavedAreWhole
<1>5. TypeOK' /\ IdsAreUnique'
  BY <1>1, <1>2 DEF TasksInv, TypeOK, IdsAreUnique, Live, Existing
<1>6. CurrentFitsStack' /\ AnswersAgree' /\ ulCriticalNesting' \in {0, 1}
  BY <1>1, CurrentFacts DEF TasksInv, CurrentFitsStack, AnswersAgree, NoAnswer
<1> QED
  BY <1>4, <1>5, <1>6, WholeSufficesNext

LEMMA CleanUpFacts ==
  ASSUME TasksInv, NEW h \in Handles, CleanUp(h)
  PROVE  /\ mem' \in [Address -> Words] /\ stack_ptr' \in [Handles -> Address]
         /\ \A i \in Handles \ {h} : \A a \in Stack(i) : mem'[a] = mem[a]
<1>1. /\ stack_ptr' = [stack_ptr EXCEPT ![h] = NewStackPtr(h)]
      /\ mem' = [a \in Address |-> IF a \in Stack(h) THEN 0 ELSE mem[a]]
  BY DEF CleanUp, Stack
<1>2. stack_ptr' \in [Handles -> Address]
  BY <1>1, CurrentFacts, NewStackPtrFacts
<1>3. mem' \in [Address -> Words]
  BY <1>1, CurrentFacts, TasksAssumption
<1>4. \A i \in Handles \ {h} : \A a \in Stack(i) : a \in Address /\ a \notin Stack(h)
  BY StackTypes, StacksDisjoint
<1> QED
  BY <1>1, <1>2, <1>3, <1>4

LEMMA CleanUpPreserves ==
  ASSUME TasksInv, NEW h \in Handles, CleanUp(h)
  PROVE  TasksInv'
<1>1. /\ phase = "program" /\ h \in deleted /\ deleted' = deleted \ {h}
      /\ xTaskNumber' = [xTaskNumber EXCEPT ![h] = 0]
      /\ stack_ptr' = [stack_ptr EXCEPT ![h] = NewStackPtr(h)]
      /\ UNCHANGED <<phase, pxCurrentTCB, uxTaskNumber, ulCriticalNesting, exception_ctx, answer>>
  BY DEF CleanUp, Running
<1>2. /\ xTaskNumber \in [Handles -> 0 .. MaxTaskNumber] /\ MaxTaskNumber \in Nat
      /\ h \notin Live /\ h \notin Saved /\ h # pxCurrentTCB
  BY <1>1, TasksAssumption, CurrentFacts DEF TasksInv, TypeOK, Saved, Live
<1>3. Existing' = Existing \ {h} /\ \A i \in Handles \ {h} : xTaskNumber'[i] = xTaskNumber[i]
  BY <1>1, <1>2 DEF Existing
<1>4. Live' = Live /\ Saved' = Saved
  BY <1>1, <1>2, <1>3 DEF Live, Saved
<1>5. \A i \in Saved' : Whole(mem', stack_ptr'[i], i)
  BY <1>1, <1>2, <1>4, CleanUpFacts, StrangerStackKept
<1>6. IdsAreUnique'
  BY <1>1, <1>3 DEF TasksInv, IdsAreUnique, Existing
<1>7. TypeOK'
  <2>1. xTaskNumber' \in [Handles -> 0 .. MaxTaskNumber]
    BY <1>1, <1>2
  <2>2. pxCurrentTCB' \in Live' /\ deleted' \subseteq Existing'
    BY <1>1, <1>3, <1>4 DEF TasksInv, TypeOK
  <2> QED
    BY <1>1, <2>1, <2>2, CleanUpFacts DEF TasksInv, TypeOK
<1>8. CurrentFitsStack' /\ AnswersAgree' /\ ulCriticalNesting' \in {0, 1}
  BY <1>1, CurrentFacts DEF TasksInv, CurrentFitsStack, AnswersAgree, NoAnswer
<1> QED
  BY <1>5, <1>6, <1>7, <1>8, WholeSufficesNext

-----------------------------------------------------------------------------
(***************************************************************************)
(* The requests.                                                           *)
(***************************************************************************)
\* The task that is looked up for an ID has it, and a whole context.
LEMMA SavedTaskFacts ==
  ASSUME TasksInv, phase # "panicked", NEW tid, NEW h \in Handles, SavedTask(tid, h)
  PROVE  /\ h \in Saved /\ h \in Existing /\ xTaskNumber[h] = tid
         /\ ~(Cardinality(Existing) > TaskArrayLength)
         /\ Accessible(h)
<1>1. /\ h \in scan_tasks /\ xTaskNumber[h] = tid /\ eCurrentState(h) # "DELETED"
      /\ tid # xTaskNumber[pxCurrentTCB]
  BY DEF SavedTask, Found, current_thread
<1>2. h # pxCurrentTCB /\ h \notin deleted
  BY <1>1 DEF eCurrentState
<1>3. ~(Cardinality(Existing) > TaskArrayLength) /\ h \in Existing
  BY <1>1 DEF scan_tasks
<1>4. h \in Saved
  BY <1>2, <1>3 DEF Saved, Live
<1>5. HasFpuContext(stack_ptr[h])
  BY <1>4 DEF TasksInv, SavedContextsAreWhole
<1>6. eCurrentState(h) # "RUNNING"
  BY <1>2 DEF eCurrentState
<1> QED
  BY <1>1, <1>3, <1>4, <1>5, <1>6 DEF Accessible

\* The stack pointer that GDB writes lies in the stack of the task it means.
LEMMA FitsStackFacts ==
  ASSUME NEW tid, NEW sp, FitsStack(tid, sp), NEW h \in Existing, xTaskNumber[h] = tid
  PROVE  sp \in StackPointers(h)
BY DEF FitsStack

\* A write to a saved task: it touches that task's context and stack pointer,
\* no word above the stack pointer it is left with, and no other task.
WritesOnly(h) ==
  /\ mem' \in [Address -> Words] /\ stack_ptr' \in [Handles -> Address]
  /\ \A i \in Handles \ {h} : /\ stack_ptr'[i] = stack_ptr[i]
                             /\ \A a \in Stack(i) : mem'[a] = mem[a]
  /\ \A a \in stack_ptr'[h] + SIZE_OF_CONTEXT .. Top(h) - 1 : mem'[a] = mem[a]
  /\ phase' # "panicked" => Whole(mem', stack_ptr'[h], h)
  /\ UNCHANGED <<rtos, exception_ctx>>

Answered(req) ==
  /\ phase = "stopped" /\ answer = NoAnswer
  /\ answer'.request = req
  /\ phase' = IF answer'.reply.status = "panic" THEN "panicked" ELSE "stopped"

LEMMA WriteSavedFacts ==
  ASSUME TasksInv, phase = "stopped", NEW h \in Saved, Accessible(h),
         NEW file \in Files, file.sp \in StackPointers(h), NEW req, WriteSaved(h, file, req),
         NEW nesting, nesting = ReadContext(mem, stack_ptr[h])["ulCriticalNesting"]
  PROVE  /\ WritesOnly(h) /\ Answered(req)
         /\ stack_ptr'[h] + SIZE_OF_CONTEXT = file.sp
         /\ \/ /\ answer'.reply.status = "Ok"
               /\ ReadContext(mem', stack_ptr'[h]) = NewContext(file, nesting)
            \/ /\ answer'.reply.status = "panic"
               /\ file.sp # Sp(h)
<1> DEFINE ptr == file.sp - SIZE_OF_CONTEXT
           ctx == NewContext(file, nesting)
<1>1. /\ h \in Handles /\ stack_ptr[h] \in Int /\ Whole(mem, stack_ptr[h], h)
      /\ mem \in [Address -> Words] /\ stack_ptr \in [Handles -> Address]
  BY SavedAreWhole, CurrentFacts
<1>2. /\ stack_ptr' = [stack_ptr EXCEPT ![h] = ptr]
      /\ \/ /\ HasFpuContext(ptr) /\ mem' = WriteContext(mem, ptr, ctx)
            /\ Reply(req, Status("Ok"))
         \/ /\ ~HasFpuContext(ptr) /\ mem' = mem
            /\ Reply(req, Status("panic"))
      /\ UNCHANGED exception_ctx
  BY DEF WriteSaved, SetSp, OrPanic
<1>3. nesting \in {0, 1} /\ nesting \in Words
  BY <1>1, TasksAssumption DEF Whole
<1>4. file \in RegisterFile
  BY <1>1, StackPointerFacts, TasksAssumption DEF Files, RegisterFile
<1>5. /\ ctx \in [Fields -> Words]
      /\ ctx["ulPortTaskHasFPUContext"] # 0 /\ ctx["ulCriticalNesting"] \in {0, 1}
  BY <1>3, <1>4, NewContextFacts
<1>6. ptr \in Address /\ ptr + SIZE_OF_CONTEXT = file.sp /\ file.sp \in Nat
  BY <1>1, StackPointerFacts, LayoutFacts
<1>7. ptr = file.sp - SIZE_OF_CONTEXT
  OBVIOUS
<1>8. /\ ctx = NewContext(file, nesting)
  OBVIOUS
<1> HIDE DEF ptr, ctx
<1>9. /\ stack_ptr' \in [Handles -> Address] /\ stack_ptr'[h] = ptr
      /\ \A i \in Handles \ {h} : stack_ptr'[i] = stack_ptr[i]
  BY <1>1, <1>2, <1>6
<1>10. CASE /\ HasFpuContext(ptr) /\ mem' = WriteContext(mem, ptr, ctx)
            /\ Reply(req, Status("Ok"))
  <2>1. /\ mem' \in [Address -> Words] /\ Whole(mem', ptr, h) /\ ReadContext(mem', ptr) = ctx
        /\ \A i \in Handles \ {h} : \A a \in Stack(i) : mem'[a] = mem[a]
        /\ \A a \in file.sp .. Top(h) - 1 : mem'[a] = mem[a]
    BY <1>1, <1>5, <1>7, <1>10, WholeWritten
  <2>2. Answered(req) /\ answer'.reply.status = "Ok" /\ UNCHANGED rtos
    BY <1>10 DEF Reply, Status, Answered
  <2>3. WritesOnly(h)
    BY <1>2, <1>6, <1>9, <2>1, <2>2 DEF WritesOnly
  <2> QED
    BY <1>6, <1>8, <1>9, <2>1, <2>2, <2>3
<1>11. CASE ~HasFpuContext(ptr) /\ mem' = mem /\ Reply(req, Status("panic"))
  <2>1. /\ Answered(req) /\ answer'.reply.status = "panic" /\ UNCHANGED rtos
        /\ phase' = "panicked"
    BY <1>11 DEF Reply, Status, Answered
  <2>2. WritesOnly(h)
    BY <1>1, <1>2, <1>9, <1>11, <2>1 DEF WritesOnly
  <2>3. file.sp # Sp(h)
    <3>1. HasFpuContext(stack_ptr[h])
      BY DEF Accessible
    <3>2. stack_ptr[h] # ptr
      BY <1>11, <3>1
    <3> QED
      BY <1>1, <1>6, <3>2, LayoutFacts DEF Sp, Address
  <2> QED
    BY <1>6, <1>9, <2>1, <2>2, <2>3
<1> QED
  BY <1>2, <1>10, <1>11

\* The value of a register of the context is a word, and a stack pointer is
\* inside some stack.
LEMMA RegisterValueFacts ==
  ASSUME NEW id \in Registers, NEW value \in RegisterValues(id), value.bytes = BytesOf(id)
  PROVE  /\ id # "sp" => id \in SavedRegisters /\ value.val \in Words
         /\ id = "sp" => value.val # 0
<1>1. value.val \in IF id = "sp" THEN StackAddress ELSE WrittenWords
  BY DEF RegisterValues
<1>2. CASE id = "sp"
  <2>1. PICK h \in Handles : value.val \in StackPointers(h)
    BY <1>1, <1>2 DEF StackAddress
  <2> QED
    BY <1>2, <2>1, StackPointerFacts
<1>3. CASE id # "sp"
  BY <1>1, <1>3, TasksAssumption DEF Registers
<1> QED
  BY <1>2, <1>3

LEMMA WriteSavedRegisterFacts ==
  ASSUME TasksInv, phase = "stopped", NEW h \in Saved, Accessible(h),
         NEW id \in Registers, NEW value \in RegisterValues(id),
         id = "sp" /\ value.val # 0 => value.val \in StackPointers(h),
         NEW req, WriteSavedRegister(h, id, value, req)
  PROVE  /\ WritesOnly(h) /\ Answered(req)
         /\ \/ /\ value.bytes = BytesOf(id) /\ answer'.reply.status = "Ok"
               /\ id = "sp"
               /\ stack_ptr'[h] + SIZE_OF_CONTEXT = value.val
               /\ ReadContext(mem', stack_ptr'[h]) = ReadContext(mem, stack_ptr[h])
            \/ /\ value.bytes = BytesOf(id) /\ answer'.reply.status = "Ok"
               /\ id \in SavedRegisters
               /\ stack_ptr'[h] = stack_ptr[h]
               /\ \A f \in Fields :
                    ReadContext(mem', stack_ptr'[h])[f]
                      = IF f = id THEN value.val ELSE ReadContext(mem, stack_ptr[h])[f]
            \/ /\ value.bytes # BytesOf(id) /\ answer'.reply.status = "panic"
               /\ UNCHANGED <<stack_ptr, mem>>
<1> DEFINE ptr == value.val - SIZE_OF_CONTEXT
           ctx == ReadContext(mem, stack_ptr[h])
<1>1. /\ h \in Handles /\ stack_ptr[h] \in Int /\ Whole(mem, stack_ptr[h], h)
      /\ mem \in [Address -> Words] /\ stack_ptr \in [Handles -> Address]
  BY SavedAreWhole, CurrentFacts
<1>2. /\ UNCHANGED exception_ctx
      /\ \/ /\ value.bytes # BytesOf(id) /\ Reply(req, Status("panic"))
            /\ UNCHANGED <<stack_ptr, mem>>
         \/ /\ value.bytes = BytesOf(id) /\ Reply(req, Status("Ok"))
            /\ id = "sp"
            /\ stack_ptr' = [stack_ptr EXCEPT ![h] = ptr]
            /\ mem' = WriteContext(mem, ptr, ctx)
         \/ /\ value.bytes = BytesOf(id) /\ Reply(req, Status("Ok"))
            /\ id # "sp"
            /\ mem' = [mem EXCEPT ![stack_ptr[h] + Offset[id]] = value.val]
            /\ UNCHANGED stack_ptr
  BY DEF WriteSavedRegister, SetSp, OrPanic
<1>3. /\ ctx \in [Fields -> Words]
      /\ ctx["ulPortTaskHasFPUContext"] # 0 /\ ctx["ulCriticalNesting"] \in {0, 1}
  <2>1. ctx \in [Fields -> Words]
    BY <1>1, WholeFacts, ReadContextType
  <2> QED
    BY <1>1, <2>1 DEF Whole
<1>4. ptr = value.val - SIZE_OF_CONTEXT /\ ctx = ReadContext(mem, stack_ptr[h])
  OBVIOUS
<1> HIDE DEF ptr, ctx
<1>5. CASE /\ value.bytes # BytesOf(id) /\ Reply(req, Status("panic"))
           /\ UNCHANGED <<stack_ptr, mem>>
  <2>1. /\ Answered(req) /\ answer'.reply.status = "panic" /\ UNCHANGED rtos
        /\ phase' = "panicked"
    BY <1>5 DEF Reply, Status, Answered
  <2>2. WritesOnly(h)
    BY <1>1, <1>2, <1>5, <2>1 DEF WritesOnly
  <2> QED
    BY <1>5, <2>1, <2>2
<1>6. CASE /\ value.bytes = BytesOf(id) /\ Reply(req, Status("Ok"))
           /\ id = "sp"
           /\ stack_ptr' = [stack_ptr EXCEPT ![h] = ptr]
           /\ mem' = WriteContext(mem, ptr, ctx)
  <2>1. value.val \in StackPointers(h)
    BY <1>6, RegisterValueFacts
  <2>2. /\ mem' \in [Address -> Words] /\ Whole(mem', ptr, h) /\ ReadContext(mem', ptr) = ctx
        /\ \A i \in Handles \ {h} : \A a \in Stack(i) : mem'[a] = mem[a]
        /\ \A a \in value.val .. Top(h) - 1 : mem'[a] = mem[a]
        /\ ptr \in Address /\ ptr + SIZE_OF_CONTEXT = value.val
    BY <1>1, <1>3, <1>4, <1>6, <2>1, WholeWritten
  <2>3. /\ stack_ptr' \in [Handles -> Address] /\ stack_ptr'[h] = ptr
        /\ \A i \in Handles \ {h} : stack_ptr'[i] = stack_ptr[i]
    BY <1>1, <1>6, <2>2
  <2>4. Answered(req) /\ answer'.reply.status = "Ok" /\ UNCHANGED rtos
    BY <1>6 DEF Reply, Status, Answered
  <2>5. WritesOnly(h)
    BY <1>2, <2>2, <2>3, <2>4 DEF WritesOnly
  <2> QED
    BY <1>4, <1>6, <2>2, <2>3, <2>4, <2>5
<1>7. CASE /\ value.bytes = BytesOf(id) /\ Reply(req, Status("Ok"))
           /\ id # "sp"
           /\ mem' = [mem EXCEPT ![stack_ptr[h] + Offset[id]] = value.val]
           /\ UNCHANGED stack_ptr
  <2>1. id \in SavedRegisters /\ value.val \in Words
    BY <1>7, RegisterValueFacts
  <2>2. stack_ptr[h] + Offset[id] \in Address
    <3>1. id \in Fields
      BY <2>1, FieldFacts
    <3>2. stack_ptr[h] + Offset[id] \in Context(stack_ptr[h])
      BY <1>1, <3>1, FieldPlaces
    <3>3. Context(stack_ptr[h]) \subseteq Address
      BY <1>1, WholeFacts
    <3> QED
      BY <3>2, <3>3
  <2>3. /\ mem' \in [Address -> Words]
        /\ \A a \in Address :
             mem'[a] = IF a = stack_ptr[h] + Offset[id] THEN value.val ELSE mem[a]
    BY <1>1, <1>7, <2>1, <2>2
  <2>4. /\ Whole(mem', stack_ptr[h], h)
        /\ \A f \in Fields :
             ReadContext(mem', stack_ptr[h])[f] = IF f = id THEN value.val ELSE ctx[f]
        /\ \A i \in Handles \ {h} : \A a \in Stack(i) : mem'[a] = mem[a]
        /\ \A a \in stack_ptr[h] + SIZE_OF_CONTEXT .. Top(h) - 1 : mem'[a] = mem[a]
    BY <1>1, <1>4, <2>1, <2>3, WholeFieldWritten
  <2>5. Answered(req) /\ answer'.reply.status = "Ok" /\ UNCHANGED rtos
    BY <1>7 DEF Reply, Status, Answered
  <2>6. WritesOnly(h)
    BY <1>1, <1>2, <1>7, <2>3, <2>4, <2>5 DEF WritesOnly
  <2> QED
    BY <1>4, <1>7, <2>1, <2>4, <2>5, <2>6
<1> QED
  BY <1>2, <1>5, <1>6, <1>7

\* After a write to a saved task the invariant holds again.
LEMMA WritesOnlyPreserves ==
  ASSUME TasksInv, phase = "stopped", NEW h \in Saved, WritesOnly(h), NEW req, Answered(req)
  PROVE  TasksInv'
<1>1. /\ UNCHANGED <<pxCurrentTCB, xTaskNumber, deleted, uxTaskNumber, ulCriticalNesting,
                     exception_ctx>>
      /\ mem' \in [Address -> Words] /\ stack_ptr' \in [Handles -> Address]
  BY DEF WritesOnly, rtos
<1>2. phase' \in {"stopped", "panicked"} /\ (phase' = "stopped" => answer'.reply.status # "panic")
  BY DEF Answered
<1>3. ASSUME NEW i \in Saved', phase' # "panicked"
      PROVE  Whole(mem', stack_ptr'[i], i)
  <2>1. i \in Saved /\ i \in Handles /\ stack_ptr[i] \in Int /\ Whole(mem, stack_ptr[i], i)
    BY <1>1, SavedAreWhole DEF Saved, Live, Existing
  <2>2. CASE i = h
    BY <1>3, <2>2 DEF WritesOnly
  <2>3. CASE i # h
    <3>1. stack_ptr'[i] = stack_ptr[i] /\ \A a \in Stack(i) : mem'[a] = mem[a]
      BY <2>1, <2>3 DEF WritesOnly
    <3> QED
      BY <2>1, <3>1, WholeKept
  <2> QED
    BY <2>2, <2>3
<1>4. TypeOK' /\ IdsAreUnique'
  BY <1>1, <1>2 DEF TasksInv, TypeOK, IdsAreUnique, Live, Existing
<1>5. CurrentFitsStack' /\ AnswersAgree' /\ ulCriticalNesting' \in {0, 1}
  BY <1>1, <1>2, CurrentFacts DEF TasksInv, CurrentFitsStack, AnswersAgree
<1> QED
  BY <1>3, <1>4, <1>5, WholeSufficesNext

\* Nor does anything break it that touches the current task's registers alone.
LEMMA ContextPreserves ==
  ASSUME TasksInv, phase # "panicked", UNCHANGED <<rtos, stack_ptr, mem>>,
         exception_ctx' \in RegisterFile, exception_ctx'.sp \in StackPointers(pxCurrentTCB),
         phase' \in {"program", "stopped", "panicked"}, AnswersAgree'
  PROVE  TasksInv'
<1>1. \A h \in Saved' : Whole(mem', stack_ptr'[h], h)
  BY SavedAreWhole DEF rtos, Saved, Live, Existing
<1>2. TypeOK' /\ IdsAreUnique' /\ CurrentFitsStack' /\ ulCriticalNesting' \in {0, 1}
  BY CurrentFacts DEF TasksInv, TypeOK, IdsAreUnique, CurrentFitsStack, rtos, Live, Existing
<1> QED
  BY <1>1, <1>2, WholeSufficesNext

LEMMA RegsKeptPreserves ==
  ASSUME TasksInv, phase # "panicked", UNCHANGED <<rtos, regs>>,
         phase' \in {"program", "stopped", "panicked"}, AnswersAgree'
  PROVE  TasksInv'
BY CurrentFacts, ContextPreserves DEF regs

\* What Reply does to the phase and to the answer.
LEMMA AnsweredAgrees ==
  ASSUME NEW req, Answered(req)
  PROVE  AnswersAgree' /\ phase' \in {"program", "stopped", "panicked"} /\ phase # "panicked"
BY DEF Answered, AnswersAgree

LEMMA StopPreserves ==
  ASSUME TasksInv, Stop
  PROVE  TasksInv'
<1>1. phase = "program" /\ phase' = "stopped" /\ UNCHANGED <<rtos, regs, answer>>
  BY DEF Stop, Running
<1>2. AnswersAgree'
  BY <1>1 DEF TasksInv, AnswersAgree, NoAnswer
<1> QED
  BY <1>1, <1>2, RegsKeptPreserves

LEMMA ResumePreserves ==
  ASSUME TasksInv, Resume
  PROVE  TasksInv'
<1>1. phase = "stopped" /\ phase' = "program" /\ answer = NoAnswer /\ UNCHANGED <<rtos, regs, answer>>
  BY DEF Resume
<1>2. AnswersAgree'
  BY <1>1 DEF AnswersAgree, NoAnswer
<1> QED
  BY <1>1, <1>2, RegsKeptPreserves

LEMMA DeliverPreserves ==
  ASSUME TasksInv, Deliver
  PROVE  TasksInv'
<1>1. /\ phase = "stopped" /\ phase' = "stopped" /\ answer' = NoAnswer /\ UNCHANGED <<rtos, regs>>
  BY DEF Deliver
<1>2. AnswersAgree'
  BY <1>1 DEF AnswersAgree, NoAnswer
<1> QED
  BY <1>1, <1>2, RegsKeptPreserves

\* The requests that only read.
LEMMA ReadsKeepRegs ==
  ASSUME NEW tid, NEW id,
         \/ list_active_threads \/ is_thread_alive(tid)
         \/ read_registers(tid) \/ read_register(tid, id)
  PROVE  UNCHANGED <<rtos, regs>> /\ \E req : Answered(req)
<1>1. CASE list_active_threads
  BY <1>1 DEF list_active_threads, Reply, Value, Answered
<1>2. CASE is_thread_alive(tid)
  BY <1>2 DEF is_thread_alive, Reply, Value, Answered
<1>3. CASE read_registers(tid)
  <2> DEFINE req == [op |-> "read", tid |-> tid]
  <2>1. /\ UNCHANGED regs
        /\ \/ Reply(req, Value(Flat(exception_ctx)))
           \/ Reply(req, Status("EINVAL"))
           \/ \E h \in Handles : Reply(req, OrPanic(Accessible(h), Value(Flat(SavedFile(h)))))
    BY <1>3 DEF read_registers
  <2> HIDE DEF req
  <2> QED
    BY <2>1 DEF Reply, Answered
<1>4. CASE read_register(tid, id)
  <2> DEFINE req == [op |-> "read one", tid |-> tid, reg |-> id]
  <2>1. /\ UNCHANGED regs
        /\ \/ Reply(req, Value(Flat(exception_ctx)[id]))
           \/ Reply(req, Status("EINVAL"))
           \/ \E h \in Handles : Reply(req, OrPanic(Accessible(h), Value(Flat(SavedFile(h))[id])))
    BY <1>4 DEF read_register
  <2> HIDE DEF req
  <2> QED
    BY <2>1 DEF Reply, Answered
<1> QED
  BY <1>1, <1>2, <1>3, <1>4

LEMMA ReadsPreserve ==
  ASSUME TasksInv, NEW tid, NEW id,
         \/ list_active_threads \/ is_thread_alive(tid)
         \/ read_registers(tid) \/ read_register(tid, id)
  PROVE  TasksInv'
<1>1. UNCHANGED <<rtos, regs>> /\ \E req : Answered(req)
  BY ReadsKeepRegs
<1>2. PICK req : Answered(req)
  BY <1>1
<1> QED
  BY <1>1, <1>2, AnsweredAgrees, RegsKeptPreserves

\* What a request to write all registers does.
LEMMA WriteRegistersFacts ==
  ASSUME TasksInv, NEW tid, NEW file \in Files, FitsStack(tid, file.sp),
         write_registers(tid, file),
         NEW req, req = [op |-> "write", tid |-> tid, file |-> Flat(file)]
  PROVE  /\ Answered(req)
         /\ \/ /\ tid = current_thread /\ answer'.reply = Status("Ok")
               /\ exception_ctx' = file /\ file \in RegisterFile
               /\ file.sp \in StackPointers(pxCurrentTCB)
               /\ UNCHANGED <<rtos, stack_ptr, mem>>
            \/ /\ NoSuchTid(tid) /\ answer'.reply = Status("EINVAL")
               /\ UNCHANGED <<rtos, regs>>
            \/ \E h \in Saved :
                 /\ SavedTask(tid, h) /\ Accessible(h) /\ xTaskNumber[h] = tid
                 /\ file.sp \in StackPointers(h)
                 /\ WriteSaved(h, file, req)
<1>1. /\ phase = "stopped"
      /\ \/ /\ tid = current_thread /\ exception_ctx' = file
            /\ Reply(req, Status("Ok")) /\ UNCHANGED <<stack_ptr, mem>>
         \/ /\ NoSuchTid(tid) /\ Reply(req, Status("EINVAL")) /\ UNCHANGED regs
         \/ \E h \in Handles : SavedTask(tid, h) /\ WriteSaved(h, file, req)
  BY DEF write_registers, WriteSaved, Reply
<1>2. CASE /\ tid = current_thread /\ exception_ctx' = file
           /\ Reply(req, Status("Ok")) /\ UNCHANGED <<stack_ptr, mem>>
  <2>1. pxCurrentTCB \in Existing /\ pxCurrentTCB \in Handles
    BY CurrentFacts DEF Live
  <2>2. file.sp \in StackPointers(pxCurrentTCB)
    BY <1>2, <2>1, FitsStackFacts DEF current_thread
  <2>3. file \in RegisterFile
    BY <2>1, <2>2, StackPointerFacts, TasksAssumption DEF Files, RegisterFile
  <2>4. Answered(req) /\ answer'.reply = Status("Ok") /\ UNCHANGED rtos
    BY <1>2 DEF Reply, Status, Answered
  <2> QED
    BY <1>2, <2>2, <2>3, <2>4
<1>3. CASE NoSuchTid(tid) /\ Reply(req, Status("EINVAL")) /\ UNCHANGED regs
  <2>1. Answered(req) /\ answer'.reply = Status("EINVAL") /\ UNCHANGED rtos
    BY <1>3 DEF Reply, Status, Answered
  <2> QED
    BY <1>3, <2>1
<1>4. ASSUME NEW h \in Handles, SavedTask(tid, h), WriteSaved(h, file, req)
      PROVE  /\ h \in Saved /\ Accessible(h) /\ xTaskNumber[h] = tid
             /\ file.sp \in StackPointers(h) /\ Answered(req)
  <2>1. h \in Saved /\ h \in Existing /\ Accessible(h) /\ xTaskNumber[h] = tid
    BY <1>1, <1>4, SavedTaskFacts
  <2>2. file.sp \in StackPointers(h)
    BY <2>1, FitsStackFacts
  <2>3. Answered(req)
    BY <1>1, <1>4, <2>1, <2>2, WriteSavedFacts
  <2> QED
    BY <2>1, <2>2, <2>3
<1> QED
  BY <1>1, <1>2, <1>3, <1>4

\* What a request to write one does.
LEMMA WriteRegisterFacts ==
  ASSUME TasksInv, NEW tid, NEW id \in Registers, NEW value \in RegisterValues(id),
         id = "sp" /\ value.val # 0 => FitsStack(tid, value.val),
         write_register(tid, id, value),
         NEW req, req = [op |-> "write one", tid |-> tid, reg |-> id, value |-> value]
  PROVE  /\ Answered(req)
         /\ \/ /\ tid = current_thread /\ answer'.reply = Status("Ok")
               /\ value.bytes = BytesOf(id)
               /\ exception_ctx' \in RegisterFile
               /\ exception_ctx'.sp \in StackPointers(pxCurrentTCB)
               /\ exception_ctx' = IF id = "sp" THEN [exception_ctx EXCEPT !.sp = value.val]
                                                ELSE [exception_ctx EXCEPT !.regs[id] = value.val]
               /\ UNCHANGED <<rtos, stack_ptr, mem>>
            \/ /\ answer'.reply = Status("NonFatal") /\ value.bytes # BytesOf(id)
               /\ UNCHANGED <<rtos, regs>>
            \/ /\ NoSuchTid(tid) /\ answer'.reply = Status("EINVAL")
               /\ UNCHANGED <<rtos, regs>>
            \/ \E h \in Saved :
                 /\ SavedTask(tid, h) /\ Accessible(h) /\ xTaskNumber[h] = tid
                 /\ id = "sp" /\ value.val # 0 => value.val \in StackPointers(h)
                 /\ WriteSavedRegister(h, id, value, req)
<1>1. /\ phase = "stopped"
      /\ \/ tid = current_thread /\ WriteCurrentRegister(id, value, req)
         \/ /\ value.bytes \notin SavedRegisterBytes
            /\ Reply(req, Status("NonFatal")) /\ UNCHANGED regs
         \/ NoSuchTid(tid) /\ Reply(req, Status("EINVAL")) /\ UNCHANGED regs
         \/ \E h \in Handles : SavedTask(tid, h) /\ WriteSavedRegister(h, id, value, req)
  BY DEF write_register, WriteCurrentRegister, WriteSavedRegister, Reply
<1>2. BytesOf(id) \in SavedRegisterBytes
  BY DEF BytesOf, SavedRegisterBytes
<1>3. CASE tid = current_thread /\ WriteCurrentRegister(id, value, req)
  <2>1. /\ pxCurrentTCB \in Existing /\ pxCurrentTCB \in Handles
        /\ exception_ctx \in RegisterFile /\ exception_ctx.sp \in StackPointers(pxCurrentTCB)
    BY CurrentFacts DEF Live
  <2>2. CASE value.bytes # BytesOf(id)
    <3>1. Reply(req, Status("NonFatal")) /\ UNCHANGED regs
      BY <1>3, <2>2 DEF WriteCurrentRegister, regs
    <3>2. Answered(req) /\ answer'.reply = Status("NonFatal") /\ UNCHANGED rtos
      BY <3>1 DEF Reply, Status, Answered
    <3> QED
      BY <2>2, <3>1, <3>2
  <2>3. CASE value.bytes = BytesOf(id)
    <3>1. /\ Reply(req, Status("Ok")) /\ UNCHANGED <<stack_ptr, mem>>
          /\ exception_ctx' = IF id = "sp" THEN [exception_ctx EXCEPT !.sp = value.val]
                                           ELSE [exception_ctx EXCEPT !.regs[id] = value.val]
      BY <1>3, <2>3 DEF WriteCurrentRegister
    <3>2. Answered(req) /\ answer'.reply = Status("Ok") /\ UNCHANGED rtos
      BY <3>1 DEF Reply, Status, Answered
    <3>3. exception_ctx' \in RegisterFile /\ exception_ctx'.sp \in StackPointers(pxCurrentTCB)
      <4>1. CASE id = "sp"
        <5>1. value.val \in StackPointers(pxCurrentTCB)
          BY <1>3, <2>1, <2>3, <4>1, RegisterValueFacts, FitsStackFacts DEF current_thread
        <5>2. value.val \in Nat
          BY <2>1, <5>1, StackPointerFacts
        <5> QED
          BY <2>1, <3>1, <4>1, <5>1, <5>2 DEF RegisterFile
      <4>2. CASE id # "sp"
        <5>1. id \in SavedRegisters /\ value.val \in Words
          BY <2>3, <4>2, RegisterValueFacts
        <5> QED
          BY <2>1, <3>1, <4>2, <5>1 DEF RegisterFile
      <4> QED
        BY <4>1, <4>2
    <3> QED
      BY <1>3, <2>3, <3>1, <3>2, <3>3
  <2> QED
    BY <2>2, <2>3
<1>4. CASE /\ value.bytes \notin SavedRegisterBytes
           /\ Reply(req, Status("NonFatal")) /\ UNCHANGED regs
  <2>1. Answered(req) /\ answer'.reply = Status("NonFatal") /\ UNCHANGED rtos
    BY <1>4 DEF Reply, Status, Answered
  <2> QED
    BY <1>2, <1>4, <2>1
<1>5. CASE NoSuchTid(tid) /\ Reply(req, Status("EINVAL")) /\ UNCHANGED regs
  <2>1. Answered(req) /\ answer'.reply = Status("EINVAL") /\ UNCHANGED rtos
    BY <1>5 DEF Reply, Status, Answered
  <2> QED
    BY <1>5, <2>1
<1>6. ASSUME NEW h \in Handles, SavedTask(tid, h), WriteSavedRegister(h, id, value, req)
      PROVE  /\ h \in Saved /\ Accessible(h) /\ xTaskNumber[h] = tid
             /\ id = "sp" /\ value.val # 0 => value.val \in StackPointers(h)
             /\ Answered(req)
  <2>1. h \in Saved /\ h \in Existing /\ Accessible(h) /\ xTaskNumber[h] = tid
    BY <1>1, <1>6, SavedTaskFacts
  <2>2. id = "sp" /\ value.val # 0 => value.val \in StackPointers(h)
    BY <2>1, FitsStackFacts
  <2>3. Answered(req)
    BY <1>1, <1>6, <2>1, <2>2, WriteSavedRegisterFacts
  <2> QED
    BY <2>1, <2>2, <2>3
<1> QED
  BY <1>1, <1>3, <1>4, <1>5, <1>6

LEMMA WriteRegistersPreserves ==
  ASSUME TasksInv, NEW tid, NEW file \in Files, FitsStack(tid, file.sp),
         write_registers(tid, file)
  PROVE  TasksInv'
<1> DEFINE req == [op |-> "write", tid |-> tid, file |-> Flat(file)]
<1>1. /\ Answered(req)
      /\ \/ /\ exception_ctx' \in RegisterFile
            /\ exception_ctx'.sp \in StackPointers(pxCurrentTCB)
            /\ UNCHANGED <<rtos, stack_ptr, mem>>
         \/ UNCHANGED <<rtos, regs>>
         \/ \E h \in Saved : /\ Accessible(h) /\ file.sp \in StackPointers(h)
                             /\ WriteSaved(h, file, req)
  BY WriteRegistersFacts
<1> HIDE DEF req
<1>2. phase = "stopped"
  BY <1>1 DEF Answered
<1>3. \A h \in Saved : Accessible(h) /\ file.sp \in StackPointers(h) /\ WriteSaved(h, file, req)
        => WritesOnly(h)
  BY <1>2, WriteSavedFacts
<1> QED
  BY <1>1, <1>2, <1>3, AnsweredAgrees, ContextPreserves, RegsKeptPreserves, WritesOnlyPreserves

LEMMA WriteRegisterPreserves ==
  ASSUME TasksInv, NEW tid, NEW id \in Registers, NEW value \in RegisterValues(id),
         id = "sp" /\ value.val # 0 => FitsStack(tid, value.val),
         write_register(tid, id, value)
  PROVE  TasksInv'
<1> DEFINE req == [op |-> "write one", tid |-> tid, reg |-> id, value |-> value]
<1>1. /\ Answered(req)
      /\ \/ /\ exception_ctx' \in RegisterFile
            /\ exception_ctx'.sp \in StackPointers(pxCurrentTCB)
            /\ UNCHANGED <<rtos, stack_ptr, mem>>
         \/ UNCHANGED <<rtos, regs>>
         \/ \E h \in Saved : /\ Accessible(h)
                             /\ id = "sp" /\ value.val # 0 => value.val \in StackPointers(h)
                             /\ WriteSavedRegister(h, id, value, req)
  BY WriteRegisterFacts
<1> HIDE DEF req
<1>2. phase = "stopped"
  BY <1>1 DEF Answered
<1>3. ASSUME NEW h \in Saved, Accessible(h),
             id = "sp" /\ value.val # 0 => value.val \in StackPointers(h),
             WriteSavedRegister(h, id, value, req)
      PROVE  WritesOnly(h)
  BY <1>2, <1>3, WriteSavedRegisterFacts
<1> QED
  BY <1>1, <1>2, <1>3, AnsweredAgrees, ContextPreserves, RegsKeptPreserves, WritesOnlyPreserves

-----------------------------------------------------------------------------
(***************************************************************************)
(* The safety properties.                                                  *)
(***************************************************************************)
LEMMA ProgramPreserves ==
  ASSUME TasksInv, Program
  PROVE  TasksInv'
<1>1. CASE \E r \in SavedRegisters, w \in WrittenWords : Compute(r, w)
  BY <1>1, ComputePreserves
<1>2. CASE \E w \in WrittenWords : Push(w)
  BY <1>2, PushPreserves
<1>3. CASE Pop
  BY <1>3, PopPreserves
<1>4. CASE EnterOrExitCritical
  BY <1>4, CriticalPreserves
<1>5. ASSUME NEW h \in Handles,
             SwitchContext(h) \/ CreateTask(h) \/ DeleteTask(h) \/ DeleteSelf(h) \/ CleanUp(h)
      PROVE  TasksInv'
  BY <1>5, SwitchContextPreserves, CreateTaskPreserves, DeleteTaskPreserves,
     DeleteSelfPreserves, CleanUpPreserves
<1> QED
  BY <1>1, <1>2, <1>3, <1>4, <1>5 DEF Program

LEMMA RequestPreserves ==
  ASSUME TasksInv, Request
  PROVE  TasksInv'
<1>1. CASE list_active_threads
  BY <1>1, ReadsPreserve
<1>2. ASSUME NEW tid \in Tids, is_thread_alive(tid) \/ read_registers(tid)
      PROVE  TasksInv'
  BY <1>2, ReadsPreserve
<1>3. ASSUME NEW tid \in Tids, NEW id \in Registers, read_register(tid, id)
      PROVE  TasksInv'
  BY <1>3, ReadsPreserve
<1>4. ASSUME NEW tid \in Tids, NEW file \in Files, FitsStack(tid, file.sp),
             write_registers(tid, file)
      PROVE  TasksInv'
  BY <1>4, WriteRegistersPreserves
<1>5. ASSUME NEW tid \in Tids, NEW id \in Registers, NEW value \in RegisterValues(id),
             id = "sp" /\ value.val # 0 => FitsStack(tid, value.val),
             write_register(tid, id, value)
      PROVE  TasksInv'
  BY <1>5, WriteRegisterPreserves
<1> QED
  BY <1>1, <1>2, <1>3, <1>4, <1>5 DEF Request

LEMMA NextPreservesTasksInv ==
  TasksInv /\ [Next]_vars => TasksInv'
<1> SUFFICES ASSUME TasksInv, [Next]_vars PROVE TasksInv'
  OBVIOUS
<1>1. CASE Next
  BY <1>1, ProgramPreserves, RequestPreserves, StopPreserves, ResumePreserves, DeliverPreserves
     DEF Next
<1>2. CASE UNCHANGED vars
  <2>1. UNCHANGED <<phase, rtos, stack_ptr, mem, exception_ctx, answer>>
    BY <1>2 DEF vars, regs
  <2>2. phase # "panicked" => \A h \in Saved' : Whole(mem', stack_ptr'[h], h)
    BY <2>1, SavedAreWhole DEF rtos, Saved, Live, Existing
  <2>3. /\ TypeOK' /\ IdsAreUnique' /\ CurrentFitsStack' /\ AnswersAgree'
        /\ ulCriticalNesting' \in {0, 1}
    BY <2>1, CurrentFacts
       DEF TasksInv, TypeOK, IdsAreUnique, CurrentFitsStack, AnswersAgree, NoAnswer,
           rtos, Live, Existing
  <2> QED
    BY <2>1, <2>2, <2>3, WholeSufficesNext
<1> QED
  BY <1>1, <1>2

(***************************************************************************)
(* Whatever the tasks and GDB do, IDs are not shared, the current task has *)
(* room for its context, every other one has a whole context, and GDB has  *)
(* no reply pending while the program runs.                                *)
(***************************************************************************)
THEOREM TasksInvHolds == Spec => []TasksInv
BY InitEstablishesTasksInv, NextPreservesTasksInv, PTL DEF Spec

(***************************************************************************)
(* No operation leaves the types: no stack pointer or word outside the     *)
(* tasks' memory.                                                          *)
(***************************************************************************)
THEOREM TypeCorrect == Spec => []TypeOK
<1>1. TasksInv => TypeOK
  BY DEF TasksInv
<1> QED
  BY <1>1, TasksInvHolds, PTL

(***************************************************************************)
(* The scheduler finds a whole context, inside the task's own stack and    *)
(* with the FPU flag, wherever a task was switched out, created, written   *)
(* by GDB or moved to another stack pointer.                               *)
(***************************************************************************)
THEOREM SavedContextsStayWhole == Spec => []SavedContextsAreWhole
<1>1. TasksInv => SavedContextsAreWhole
  BY DEF TasksInv
<1> QED
  BY <1>1, TasksInvHolds, PTL

\* The stacks that a write to one saved task leaves alone.
LEMMA WritesOnlyKeepsStacks ==
  ASSUME TasksInv, phase = "stopped", NEW h \in Saved, WritesOnly(h)
  PROVE  \A i \in Live : \A a \in LiveStack(i)' : mem'[a] = mem[a]
<1> SUFFICES ASSUME NEW i \in Live, NEW a \in LiveStack(i)'
             PROVE  mem'[a] = mem[a]
  OBVIOUS
<1>1. /\ i \in Handles /\ h \in Handles /\ h # pxCurrentTCB
      /\ pxCurrentTCB' = pxCurrentTCB /\ exception_ctx' = exception_ctx
  BY SavedAreWhole DEF WritesOnly, rtos, Live, Existing
<1>2. a \in (IF i = pxCurrentTCB THEN exception_ctx.sp ELSE stack_ptr'[i] + SIZE_OF_CONTEXT)
              .. Top(i) - 1
  BY <1>1 DEF LiveStack, Sp
<1>3. CASE i = h
  BY <1>1, <1>2, <1>3 DEF WritesOnly
<1>4. CASE i # h
  <2>1. stack_ptr'[i] = stack_ptr[i] /\ \A b \in Stack(i) : mem'[b] = mem[b]
    BY <1>1, <1>4 DEF WritesOnly
  <2>2. CASE i = pxCurrentTCB
    <3>1. exception_ctx.sp \in StackPointers(i)
      BY <2>2, CurrentFacts
    <3>2. a \in exception_ctx.sp .. Top(i) - 1
      BY <1>2, <2>2
    <3> QED
      BY <1>1, <2>1, <3>1, <3>2, StackPointerFacts
  <2>3. CASE i # pxCurrentTCB
    <3>1. i \in Saved
      BY <2>3 DEF Saved
    <3>2. stack_ptr[i] \in Int /\ Whole(mem, stack_ptr[i], i)
      BY <3>1, SavedAreWhole
    <3>3. a \in stack_ptr[i] + SIZE_OF_CONTEXT .. Top(i) - 1
      BY <1>2, <2>1, <2>3
    <3> QED
      BY <1>1, <2>1, <3>2, <3>3, WholeFacts
  <2> QED
    BY <2>2, <2>3
<1> QED
  BY <1>3, <1>4

LEMMA StepKeepsStacks ==
  ASSUME TasksInv, Next, phase = "stopped"
  PROVE  \A i \in Live : \A a \in LiveStack(i)' : mem'[a] = mem[a]
<1>1. ASSUME UNCHANGED mem
      PROVE  \A i \in Live : \A a \in LiveStack(i)' : mem'[a] = mem[a]
  BY <1>1
<1>2. CASE Deliver \/ Resume
  BY <1>1, <1>2 DEF Deliver, Resume, regs
<1>3. CASE list_active_threads
  BY <1>1, <1>3, ReadsKeepRegs DEF regs
<1>4. ASSUME NEW tid \in Tids, is_thread_alive(tid) \/ read_registers(tid)
      PROVE  UNCHANGED mem
  BY <1>4, ReadsKeepRegs DEF regs
<1>5. ASSUME NEW tid \in Tids, NEW id \in Registers, read_register(tid, id)
      PROVE  UNCHANGED mem
  BY <1>5, ReadsKeepRegs DEF regs
<1>6. ASSUME NEW tid \in Tids, NEW file \in Files, FitsStack(tid, file.sp),
             write_registers(tid, file)
      PROVE  UNCHANGED mem \/ \E h \in Saved : WritesOnly(h)
  <2> DEFINE req == [op |-> "write", tid |-> tid, file |-> Flat(file)]
  <2>1. \/ UNCHANGED mem
        \/ \E h \in Saved : /\ Accessible(h) /\ file.sp \in StackPointers(h)
                            /\ WriteSaved(h, file, req)
    BY <1>6, WriteRegistersFacts DEF regs
  <2> HIDE DEF req
  <2> QED
    BY <2>1, WriteSavedFacts
<1>7. ASSUME NEW tid \in Tids, NEW id \in Registers, NEW value \in RegisterValues(id),
             id = "sp" /\ value.val # 0 => FitsStack(tid, value.val),
             write_register(tid, id, value)
      PROVE  UNCHANGED mem \/ \E h \in Saved : WritesOnly(h)
  <2> DEFINE req == [op |-> "write one", tid |-> tid, reg |-> id, value |-> value]
  <2>1. \/ UNCHANGED mem
        \/ \E h \in Saved : /\ Accessible(h)
                            /\ id = "sp" /\ value.val # 0 => value.val \in StackPointers(h)
                            /\ WriteSavedRegister(h, id, value, req)
    BY <1>7, WriteRegisterFacts DEF regs
  <2> HIDE DEF req
  <2>2. ASSUME NEW h \in Saved, Accessible(h),
               id = "sp" /\ value.val # 0 => value.val \in StackPointers(h),
               WriteSavedRegister(h, id, value, req)
        PROVE  WritesOnly(h)
    BY <2>2, WriteSavedRegisterFacts
  <2> QED
    BY <2>1, <2>2
<1>8. CASE Request
  <2>1. UNCHANGED mem \/ \E h \in Saved : WritesOnly(h)
    BY <1>3, <1>4, <1>5, <1>6, <1>7, <1>8, ReadsKeepRegs DEF Request, regs
  <2> QED
    BY <1>1, <2>1, WritesOnlyKeepsStacks
<1>9. ~Program /\ ~Stop
  BY DEF Program, Stop, Running, Compute, Push, Pop, EnterOrExitCritical, SwitchContext,
         CreateTask, DeleteTask, DeleteSelf, CleanUp
<1> QED
  BY <1>2, <1>8, <1>9 DEF Next

(***************************************************************************)
(* GDB's requests leave every word alone that a task has above the stack   *)
(* pointer it is left with, be it the task written to or another.          *)
(***************************************************************************)
THEOREM StacksAreKept == Spec => KeepsStacks
<1>1. TasksInv /\ [Next]_vars =>
        [phase = "stopped" => \A h \in Live : \A a \in LiveStack(h)' : mem'[a] = mem[a]]_vars
  BY StepKeepsStacks
<1> QED
  BY <1>1, TasksInvHolds, PTL DEF Spec, KeepsStacks

-----------------------------------------------------------------------------
(***************************************************************************)
(* The refinement: every thread has one register file, wherever it is.     *)
(***************************************************************************)
\* A register file and the critical nesting that goes with it.
Seen(file, nesting) ==
  [r \in Registers \union {"ulCriticalNesting"} |->
     IF r = "ulCriticalNesting" THEN nesting ELSE Flat(file)[r]]

LEMMA SeenFacts ==
  ASSUME NEW file, NEW nesting
  PROVE  /\ DOMAIN Seen(file, nesting) = Registers \union {"ulCriticalNesting"}
         /\ \A r \in Registers : Seen(file, nesting)[r] = Flat(file)[r]
         /\ Seen(file, nesting)["ulCriticalNesting"] = nesting
         /\ Seen(file, nesting)["sp"] = file.sp
         /\ \A r \in SavedRegisters : Seen(file, nesting)[r] = file.regs[r]
         /\ Seen(file, nesting)
              = [r \in Registers \union {"ulCriticalNesting"} |-> Seen(file, nesting)[r]]
<1>1. "ulCriticalNesting" \notin Registers /\ "sp" \in Registers /\ "sp" \notin SavedRegisters
  BY FieldFacts DEF Registers
<1>2. SavedRegisters \subseteq Registers
  BY DEF Registers
<1> QED
  BY <1>1, <1>2 DEF Seen, Flat

\* Files with the same registers look the same.
LEMMA SeenSame ==
  ASSUME NEW file, NEW other, NEW nesting, file.sp = other.sp,
         \A r \in SavedRegisters : file.regs[r] = other.regs[r]
  PROVE  Seen(file, nesting) = Seen(other, nesting)
<1>1. \A r \in Registers \union {"ulCriticalNesting"} :
        Seen(file, nesting)[r] = Seen(other, nesting)[r]
  BY SeenFacts DEF Registers
<1> QED
  BY <1>1, SeenFacts

LEMMA ViewFacts ==
  ASSUME NEW h
  PROVE  View(h) = IF h = pxCurrentTCB THEN Seen(exception_ctx, ulCriticalNesting)
                   ELSE Seen(SavedFile(h), ReadContext(mem, stack_ptr[h])["ulCriticalNesting"])
BY DEF View, Seen

LEMMA ViewFactsNext ==
  ASSUME NEW h
  PROVE  View(h)' = IF h = pxCurrentTCB' THEN Seen(exception_ctx', ulCriticalNesting')
                    ELSE Seen(SavedFile(h)', ReadContext(mem', stack_ptr'[h])["ulCriticalNesting"])
BY DEF View, Seen

\* A task that is and stays switched out looks the same while its context does.
LEMMA SavedViewKept ==
  ASSUME NEW h, h # pxCurrentTCB, h # pxCurrentTCB', stack_ptr'[h] = stack_ptr[h],
         ReadContext(mem', stack_ptr'[h]) = ReadContext(mem, stack_ptr[h])
  PROVE  View(h)' = View(h)
<1>1. SavedFile(h)' = SavedFile(h)
  BY DEF SavedFile, Sp
<1> QED
  BY <1>1, ViewFacts, ViewFactsNext

LEMMA CurrentViewKept ==
  ASSUME UNCHANGED <<pxCurrentTCB, exception_ctx, ulCriticalNesting>>
  PROVE  View(pxCurrentTCB)' = View(pxCurrentTCB)
BY DEF View

ThreadsAreViews ==
  /\ Threads = [t \in {xTaskNumber[h] : h \in Live} |-> Threads[t]]
  /\ \A h \in Live : Threads[xTaskNumber[h]] = View(h)
  /\ \A h, i \in Live : xTaskNumber[h] = xTaskNumber[i] => h = i
  /\ pxCurrentTCB \in Live

LEMMA ThreadsFacts == TasksInv => ThreadsAreViews
<1> SUFFICES ASSUME TasksInv PROVE ThreadsAreViews
  OBVIOUS
<1>1. \A h, i \in Live : xTaskNumber[h] = xTaskNumber[i] => h = i
  BY DEF TasksInv, IdsAreUnique, Live
<1>2. ASSUME NEW h \in Live
      PROVE  Threads[xTaskNumber[h]] = View(h)
  <2> DEFINE found == CHOOSE i \in Live : xTaskNumber[i] = xTaskNumber[h]
  <2>1. found \in Live /\ xTaskNumber[found] = xTaskNumber[h]
    OBVIOUS
  <2>2. found = h
    BY <1>1, <2>1
  <2>3. Threads[xTaskNumber[h]] = View(found)
    BY DEF Threads
  <2> HIDE DEF found
  <2> QED
    BY <2>2, <2>3
<1>3. Threads = [t \in {xTaskNumber[h] : h \in Live} |-> Threads[t]]
  BY DEF Threads
<1> QED
  BY <1>1, <1>2, <1>3, CurrentFacts DEF ThreadsAreViews

LEMMA ThreadsFactsNext == TasksInv' => ThreadsAreViews'
BY ThreadsFacts, PTL

LEMMA ThreadsKept ==
  ASSUME TasksInv, TasksInv', Live' = Live,
         \A i \in Live : xTaskNumber'[i] = xTaskNumber[i] /\ View(i)' = View(i)
  PROVE  Threads' = Threads
<1> DEFINE ids == {xTaskNumber[h] : h \in Live}
<1>1. ThreadsAreViews /\ ThreadsAreViews'
  BY ThreadsFacts, ThreadsFactsNext
<1>2. ids = {xTaskNumber'[h] : h \in Live'}
  OBVIOUS
<1>3. \A t \in ids : Threads'[t] = Threads[t]
  BY <1>1 DEF ThreadsAreViews
<1>4. Threads = [t \in ids |-> Threads[t]]
  BY <1>1 DEF ThreadsAreViews
<1>5. Threads' = [t \in {xTaskNumber'[h] : h \in Live'} |-> Threads'[t]]
  BY <1>1 DEF ThreadsAreViews
<1> HIDE DEF ids
<1>6. Threads' = [t \in ids |-> Threads'[t]]
  BY <1>2, <1>5
<1> QED
  BY <1>3, <1>4, <1>6

\* The step changes what one task sees.
LEMMA OneThreadChanged ==
  ASSUME TasksInv, TasksInv', xTaskNumber' = xTaskNumber, Live' = Live,
         NEW h \in Live, \A i \in Live : i # h => View(i)' = View(i)
  PROVE  /\ Threads' = [Threads EXCEPT ![xTaskNumber[h]] = View(h)']
         /\ Threads[xTaskNumber[h]] = View(h)
         /\ xTaskNumber[h] \in Abstract!Live
         /\ Abstract!OnlyChanges(xTaskNumber[h])
<1>1. ThreadsAreViews /\ ThreadsAreViews'
  BY ThreadsFacts, ThreadsFactsNext
<1>2. /\ Threads' = [t \in {xTaskNumber[i] : i \in Live} |-> Threads'[t]]
      /\ Threads = [t \in {xTaskNumber[i] : i \in Live} |-> Threads[t]]
  BY <1>1 DEF ThreadsAreViews
<1>3. \A i \in Live : /\ Threads'[xTaskNumber[i]] = View(i)'
                      /\ Threads[xTaskNumber[i]] = View(i)
                      /\ xTaskNumber[i] = xTaskNumber[h] => i = h
  BY <1>1 DEF ThreadsAreViews
<1>4. /\ DOMAIN Threads = {xTaskNumber[i] : i \in Live}
      /\ DOMAIN Threads' = {xTaskNumber[i] : i \in Live}
  BY <1>2
<1>5. \A t \in {xTaskNumber[i] : i \in Live} :
        Threads'[t] = IF t = xTaskNumber[h] THEN View(h)' ELSE Threads[t]
  BY <1>3
<1>6. Threads' = [Threads EXCEPT ![xTaskNumber[h]] = View(h)']
  BY <1>2, <1>4, <1>5
<1>7. Abstract!OnlyChanges(xTaskNumber[h])
  BY <1>4, <1>5 DEF Abstract!OnlyChanges, Abstract!Live
<1> QED
  BY <1>3, <1>4, <1>6, <1>7 DEF Abstract!Live

\* The step adds threads or takes some away.
LEMMA ThreadsInCommon ==
  ASSUME TasksInv, TasksInv',
         NEW h \in Live, h \in Live', xTaskNumber'[h] = xTaskNumber[h], View(h)' = View(h)
  PROVE  Threads'[xTaskNumber[h]] = Threads[xTaskNumber[h]]
<1>1. ThreadsAreViews /\ ThreadsAreViews'
  BY ThreadsFacts, ThreadsFactsNext
<1> QED
  BY <1>1 DEF ThreadsAreViews

LEMMA AbstractLive ==
  ASSUME TasksInv
  PROVE  Abstract!Live = {xTaskNumber[h] : h \in Live}
<1>1. Threads = [t \in {xTaskNumber[h] : h \in Live} |-> Threads[t]]
  BY ThreadsFacts DEF ThreadsAreViews
<1> QED
  BY <1>1 DEF Abstract!Live

LEMMA AbstractLiveNext ==
  ASSUME TasksInv'
  PROVE  Abstract!Live' = {xTaskNumber'[h] : h \in Live'}
<1>1. Threads' = [t \in {xTaskNumber'[h] : h \in Live'} |-> Threads'[t]]
  BY ThreadsFactsNext DEF ThreadsAreViews
<1> QED
  BY <1>1 DEF Abstract!Live

\* A step by which the current task changes its own registers and stack.
LEMMA ComputeRefines ==
  ASSUME TasksInv, TasksInv', phase = "program", UNCHANGED <<phase, answer>>,
         UNCHANGED <<pxCurrentTCB, xTaskNumber, deleted, uxTaskNumber, stack_ptr>>,
         \A i \in Handles \ {pxCurrentTCB} : \A a \in Stack(i) : mem'[a] = mem[a]
  PROVE  Abstract!Program
<1>1. Live' = Live /\ Existing' = Existing /\ pxCurrentTCB \in Live
  BY CurrentFacts DEF Live, Existing
<1>2. ASSUME NEW i \in Live, i # pxCurrentTCB
      PROVE  View(i)' = View(i)
  <2>1. i \in Saved /\ i \in Handles \ {pxCurrentTCB}
    BY <1>2 DEF Saved, Live, Existing
  <2>2. stack_ptr[i] \in Int /\ Whole(mem, stack_ptr[i], i)
    BY <2>1, SavedAreWhole
  <2>3. ReadContext(mem', stack_ptr[i]) = ReadContext(mem, stack_ptr[i])
    BY <2>1, <2>2, WholeKept
  <2> QED
    BY <1>2, <2>3, SavedViewKept
<1>3. Abstract!OnlyChanges(xTaskNumber[pxCurrentTCB])
  BY <1>1, <1>2, OneThreadChanged
<1>4. Abstract!Compute
  BY <1>1, <1>3 DEF Abstract!Compute
<1> QED
  BY <1>4 DEF Abstract!Program

\* A switch changes what no task sees: the registers are saved and restored.
LEMMA SwitchKeepsViews ==
  ASSUME TasksInv, phase # "panicked", NEW h \in Saved, SwitchTo(h), NEW i \in Live
  PROVE  View(i)' = View(i)
<1>1. /\ pxCurrentTCB' = h /\ h # pxCurrentTCB
      /\ exception_ctx' = SavedFile(h)
      /\ ulCriticalNesting' = ReadContext(mem, stack_ptr[h])["ulCriticalNesting"]
  BY SwitchToFacts, SavedAreWhole
<1>2. CASE i = h
  BY <1>1, <1>2, ViewFacts, ViewFactsNext
<1>3. CASE i = pxCurrentTCB
  <2> DEFINE ctx == ReadContext(mem', stack_ptr'[i])
             file == SavedFile(i)'
  <2>1. View(i) = Seen(exception_ctx, ulCriticalNesting)
    BY <1>3, ViewFacts
  <2>2. View(i)' = Seen(file, ctx["ulCriticalNesting"])
    BY <1>1, <1>3, ViewFactsNext
  <2>3. /\ ctx = NewContext(exception_ctx, ulCriticalNesting)
        /\ stack_ptr'[i] + SIZE_OF_CONTEXT = exception_ctx.sp
    BY <1>3, SwitchToFacts
  <2>4. /\ ctx["ulCriticalNesting"] = ulCriticalNesting
        /\ \A r \in SavedRegisters : ctx[r] = exception_ctx.regs[r]
    BY <2>3, CurrentFacts, NewContextFacts
  <2>5. /\ file.sp = stack_ptr'[i] + SIZE_OF_CONTEXT
        /\ \A r \in SavedRegisters : file.regs[r] = ctx[r]
    BY DEF SavedFile, Sp
  <2> HIDE DEF ctx, file
  <2>6. Seen(file, ulCriticalNesting) = Seen(exception_ctx, ulCriticalNesting)
    BY <2>3, <2>4, <2>5, SeenSame
  <2> QED
    BY <2>1, <2>2, <2>4, <2>6
<1>4. CASE i # h /\ i # pxCurrentTCB
  <2>1. i \in Saved
    BY <1>4 DEF Saved
  <2> QED
    BY <1>1, <1>4, <2>1, SwitchToFacts, SavedViewKept
<1> QED
  BY <1>2, <1>3, <1>4

LEMMA SwitchContextRefines ==
  ASSUME TasksInv, TasksInv', NEW h \in Handles, SwitchContext(h)
  PROVE  Abstract!Program
<1>1. /\ phase = "program" /\ h \in Saved /\ SwitchTo(h)
      /\ UNCHANGED <<phase, xTaskNumber, deleted, uxTaskNumber, answer>>
  BY DEF SwitchContext, Running
<1>2. Live' = Live /\ Existing' = Existing
  BY <1>1 DEF Live, Existing
<1>3. Threads' = Threads
  BY <1>1, <1>2, SwitchKeepsViews, ThreadsKept
<1>4. xTaskNumber'[pxCurrentTCB'] \in Abstract!Live
  BY <1>1, <1>2, AbstractLive, CurrentFacts DEF TasksInv, TypeOK
<1>5. Abstract!Switch
  BY <1>1, <1>2, <1>3, <1>4 DEF Abstract!Switch
<1> QED
  BY <1>1, <1>5 DEF Abstract!Program

LEMMA CreateTaskRefines ==
  ASSUME TasksInv, TasksInv', NEW h \in Handles, CreateTask(h)
  PROVE  Abstract!Program
<1>1. /\ phase = "program" /\ xTaskNumber[h] = 0
      /\ uxTaskNumber' = uxTaskNumber + 1
      /\ xTaskNumber' = [xTaskNumber EXCEPT ![h] = uxTaskNumber + 1]
      /\ stack_ptr' = [stack_ptr EXCEPT ![h] = NewStackPtr(h)]
      /\ UNCHANGED <<phase, pxCurrentTCB, deleted, ulCriticalNesting, exception_ctx, answer>>
  BY DEF CreateTask, Running
<1>2. /\ xTaskNumber \in [Handles -> 0 .. MaxTaskNumber] /\ uxTaskNumber \in Nat
      /\ h \notin Existing /\ h \notin Live /\ h \notin Saved /\ h \notin deleted
  BY <1>1, TasksAssumption DEF TasksInv, TypeOK, Existing, Saved, Live
<1>3. \A i \in Handles \ {h} : xTaskNumber'[i] = xTaskNumber[i]
  BY <1>1, <1>2
<1>4. xTaskNumber'[h] = uxTaskNumber' /\ uxTaskNumber' # 0
  BY <1>1, <1>2
<1>5. Live' = Live \union {h}
  BY <1>1, <1>2, <1>3, <1>4 DEF Live, Existing
<1>6. Live \subseteq Handles \ {h}
  BY <1>2 DEF Live, Existing
<1>7. ASSUME NEW i \in Live
      PROVE  View(i)' = View(i)
  <2>1. CASE i = pxCurrentTCB
    BY <1>1, <2>1, CurrentViewKept
  <2>2. CASE i # pxCurrentTCB
    <3>1. i \in Saved
      BY <2>2 DEF Saved
    <3>2. /\ stack_ptr'[i] = stack_ptr[i]
          /\ ReadContext(mem', stack_ptr'[i]) = ReadContext(mem, stack_ptr[i])
      BY <1>1, <1>2, <3>1, CreateTaskFacts, StrangerStackKept
    <3> QED
      BY <1>1, <2>2, <3>2, SavedViewKept
  <2> QED
    BY <2>1, <2>2
<1>8. \A u \in Abstract!Live : Threads'[u] = Threads[u]
  <2> SUFFICES ASSUME NEW i \in Live PROVE Threads'[xTaskNumber[i]] = Threads[xTaskNumber[i]]
    BY AbstractLive
  <2> QED
    BY <1>3, <1>5, <1>6, <1>7, ThreadsInCommon
<1>9. Abstract!Live' = Abstract!Live \union {uxTaskNumber'}
  <2>1. Abstract!Live' = {xTaskNumber'[i] : i \in Live \union {h}}
    BY <1>5, AbstractLiveNext
  <2>2. Abstract!Live = {xTaskNumber[i] : i \in Live}
    BY AbstractLive
  <2> QED
    BY <1>3, <1>4, <1>6, <2>1, <2>2
<1>10. xTaskNumber'[pxCurrentTCB'] = xTaskNumber[pxCurrentTCB]
  BY <1>1, <1>3, <1>6, CurrentFacts
<1>11. Abstract!Create
  BY <1>1, <1>8, <1>9, <1>10 DEF Abstract!Create
<1> QED
  BY <1>1, <1>11 DEF Abstract!Program

\* The two ways of deleting a task.
LEMMA DeletesRefine ==
  ASSUME TasksInv, TasksInv', NEW h \in Handles, DeleteTask(h) \/ DeleteSelf(h)
  PROVE  Abstract!Program
<1>1. /\ phase = "program" /\ h \in Saved
      /\ UNCHANGED <<phase, xTaskNumber, uxTaskNumber, answer>>
  BY DEF DeleteTask, DeleteSelf, Running
<1>2. h \in Live /\ h # pxCurrentTCB /\ pxCurrentTCB \in Live
  BY <1>1, SavedAreWhole, CurrentFacts
<1>3. /\ Existing' = Existing
      /\ Live' \subseteq Live
      /\ pxCurrentTCB' \in Live'
      /\ pxCurrentTCB' = pxCurrentTCB \/ pxCurrentTCB \notin Live'
  <2>1. CASE DeleteTask(h)
    BY <1>1, <1>2, <2>1 DEF DeleteTask, Live, Existing
  <2>2. CASE DeleteSelf(h)
    BY <1>1, <1>2, <2>2 DEF DeleteSelf, SwitchTo, Live, Existing
  <2> QED
    BY <2>1, <2>2
<1>4. ASSUME NEW i \in Live
      PROVE  View(i)' = View(i)
  <2>1. CASE DeleteTask(h)
    BY <2>1 DEF DeleteTask, regs, View, SavedFile, Sp
  <2>2. CASE DeleteSelf(h)
    BY <1>1, <2>2, SwitchKeepsViews DEF DeleteSelf
  <2> QED
    BY <2>1, <2>2
<1>5. /\ Abstract!Live = {xTaskNumber[i] : i \in Live}
      /\ Abstract!Live' = {xTaskNumber[i] : i \in Live'}
  BY <1>1, AbstractLive, AbstractLiveNext
<1>6. \A u \in Abstract!Live' : Threads'[u] = Threads[u]
  BY <1>1, <1>3, <1>4, <1>5, ThreadsInCommon
<1>7. /\ Abstract!Live' \subseteq Abstract!Live
      /\ xTaskNumber'[pxCurrentTCB'] \in Abstract!Live'
  BY <1>1, <1>3, <1>5
<1>8. xTaskNumber[pxCurrentTCB] \in Abstract!Live' =>
        xTaskNumber'[pxCurrentTCB'] = xTaskNumber[pxCurrentTCB]
  <2>1. \A i, j \in Live : xTaskNumber[i] = xTaskNumber[j] => i = j
    BY ThreadsFacts DEF ThreadsAreViews
  <2> QED
    BY <1>1, <1>2, <1>3, <1>5, <2>1
<1>9. Abstract!Delete
  BY <1>1, <1>3, <1>6, <1>7, <1>8 DEF Abstract!Delete
<1> QED
  BY <1>1, <1>9 DEF Abstract!Program

LEMMA CleanUpRefines ==
  ASSUME TasksInv, TasksInv', NEW h \in Handles, CleanUp(h)
  PROVE  Abstract!Program
<1>1. /\ phase = "program" /\ h \in deleted /\ deleted' = deleted \ {h}
      /\ xTaskNumber' = [xTaskNumber EXCEPT ![h] = 0]
      /\ stack_ptr' = [stack_ptr EXCEPT ![h] = NewStackPtr(h)]
      /\ UNCHANGED <<phase, pxCurrentTCB, uxTaskNumber, ulCriticalNesting, exception_ctx, answer>>
  BY DEF CleanUp, Running
<1>2. /\ xTaskNumber \in [Handles -> 0 .. MaxTaskNumber]
      /\ h \notin Live /\ h \notin Saved /\ pxCurrentTCB \in Live
  BY <1>1, CurrentFacts DEF TasksInv, TypeOK, Saved, Live
<1>3. \A i \in Handles \ {h} : xTaskNumber'[i] = xTaskNumber[i]
  BY <1>1, <1>2
<1>4. Live' = Live
  BY <1>1, <1>2, <1>3 DEF Live, Existing
<1>5. Live \subseteq Handles \ {h}
  BY <1>2 DEF Live, Existing
<1>6. ASSUME NEW i \in Live
      PROVE  View(i)' = View(i)
  <2>1. CASE i = pxCurrentTCB
    BY <1>1, <2>1, CurrentViewKept
  <2>2. CASE i # pxCurrentTCB
    <3>1. i \in Saved
      BY <2>2 DEF Saved
    <3>2. /\ stack_ptr'[i] = stack_ptr[i]
          /\ ReadContext(mem', stack_ptr'[i]) = ReadContext(mem, stack_ptr[i])
      BY <1>1, <1>2, <3>1, CleanUpFacts, StrangerStackKept
    <3> QED
      BY <1>1, <2>2, <3>2, SavedViewKept
  <2> QED
    BY <2>1, <2>2
<1>7. Threads' = Threads
  BY <1>3, <1>4, <1>5, <1>6, ThreadsKept
<1>8. xTaskNumber'[pxCurrentTCB'] = xTaskNumber[pxCurrentTCB]
  BY <1>1, <1>2, <1>3, <1>5
<1>9. Abstract!CleanUp
  BY <1>1, <1>7, <1>8 DEF Abstract!CleanUp
<1> QED
  BY <1>1, <1>9 DEF Abstract!Program

\* Nothing of the threads changes with the registers and the scheduler's state.
LEMMA NothingChanges ==
  ASSUME TasksInv, TasksInv', UNCHANGED <<rtos, regs>>
  PROVE  /\ UNCHANGED <<Threads, xTaskNumber[pxCurrentTCB], uxTaskNumber>>
         /\ (Cardinality(Existing) > TaskArrayLength)' = (Cardinality(Existing) > TaskArrayLength)
<1>1. UNCHANGED <<pxCurrentTCB, xTaskNumber, deleted, uxTaskNumber, ulCriticalNesting,
                  stack_ptr, mem, exception_ctx>>
  BY DEF rtos, regs
<1>2. Live' = Live /\ Existing' = Existing
  BY <1>1 DEF Live, Existing
<1>3. \A i \in Live : View(i)' = View(i)
  BY <1>1 DEF View, SavedFile, Sp
<1> QED
  BY <1>1, <1>2, <1>3, ThreadsKept

LEMMA StopOrResumeRefines ==
  ASSUME TasksInv, TasksInv', Stop \/ Resume
  PROVE  Abstract!StopOrResume
<1>1. /\ UNCHANGED <<rtos, regs, answer>>
      /\ answer = NoAnswer
      /\ (phase' # "program") = ~(phase # "program")
  BY DEF Stop, Resume, Running, TasksInv, AnswersAgree
<1> QED
  BY <1>1, NothingChanges DEF Abstract!StopOrResume, Abstract!NoAnswer, NoAnswer

LEMMA DeliverRefines ==
  ASSUME TasksInv, TasksInv', Deliver
  PROVE  Abstract!Deliver
<1>1. /\ phase = "stopped" /\ answer # NoAnswer /\ answer' = NoAnswer
      /\ UNCHANGED <<phase, rtos, regs>>
  BY DEF Deliver
<1>2. answer.reply.status # "panic"
  BY <1>1 DEF TasksInv, AnswersAgree
<1> QED
  BY <1>1, <1>2, NothingChanges DEF Abstract!Deliver, Abstract!NoAnswer, NoAnswer

\* A request is refused only where GDB has no thread in reach.
LEMMA RefusedIsOutOfReach ==
  ASSUME TasksInv, NEW tid, NoSuchTid(tid)
  PROVE  ~Abstract!InReach(tid)
<1>1. tid # xTaskNumber[pxCurrentTCB] /\ Found(tid) = {}
  BY DEF NoSuchTid, current_thread
<1>2. ASSUME NEW h \in Live, xTaskNumber[h] = tid, ~(Cardinality(Existing) > TaskArrayLength)
      PROVE  FALSE
  <2>1. h \in scan_tasks /\ h \notin deleted
    BY <1>2 DEF scan_tasks, Live
  <2>2. eCurrentState(h) # "DELETED"
    BY <2>1 DEF eCurrentState
  <2> QED
    BY <1>1, <1>2, <2>1, <2>2 DEF Found
<1> QED
  BY <1>1, <1>2, AbstractLive DEF Abstract!InReach

\* The thread of a task that was found is in reach, and not the current one.
LEMMA SavedIsInReach ==
  ASSUME TasksInv, phase # "panicked", NEW tid, NEW h \in Handles, SavedTask(tid, h)
  PROVE  /\ Abstract!InReach(tid) /\ tid # xTaskNumber[pxCurrentTCB]
         /\ h \in Live /\ h # pxCurrentTCB /\ xTaskNumber[h] = tid
         /\ Threads[tid] = View(h)
<1>1. /\ h \in Saved /\ h \in Live /\ h # pxCurrentTCB /\ xTaskNumber[h] = tid
      /\ ~(Cardinality(Existing) > TaskArrayLength)
  BY SavedTaskFacts, SavedAreWhole
<1>2. tid # xTaskNumber[pxCurrentTCB]
  BY DEF SavedTask, current_thread
<1>3. Threads[tid] = View(h)
  BY <1>1, ThreadsFacts DEF ThreadsAreViews
<1> QED
  BY <1>1, <1>2, <1>3, AbstractLive DEF Abstract!InReach

LEMMA CurrentIsInReach ==
  ASSUME TasksInv
  PROVE  /\ Abstract!InReach(xTaskNumber[pxCurrentTCB])
         /\ Threads[xTaskNumber[pxCurrentTCB]] = View(pxCurrentTCB)
         /\ View(pxCurrentTCB) = Seen(exception_ctx, ulCriticalNesting)
<1>1. Threads[xTaskNumber[pxCurrentTCB]] = View(pxCurrentTCB)
  BY ThreadsFacts DEF ThreadsAreViews
<1> QED
  BY <1>1, ViewFacts DEF Abstract!InReach

\* A request is served without a change of the scheduler's state.
LEMMA ServedIsRequest ==
  ASSUME NEW req, Answered(req), UNCHANGED rtos, Abstract!Serve(req, answer'.reply)
  PROVE  Abstract!Request
<1>1. /\ phase # "program" /\ phase' # "program" /\ answer = NoAnswer /\ answer'.request = req
  BY DEF Answered
<1>2. /\ UNCHANGED <<xTaskNumber[pxCurrentTCB], uxTaskNumber>>
      /\ (Cardinality(Existing) > TaskArrayLength)' = (Cardinality(Existing) > TaskArrayLength)
  BY DEF rtos, Existing
<1> QED
  BY <1>1, <1>2 DEF Abstract!Request, Abstract!NoAnswer, NoAnswer

LEMMA ListRefines ==
  ASSUME TasksInv, TasksInv', list_active_threads
  PROVE  Abstract!Request
<1> DEFINE req == [op |-> "list"]
<1>1. /\ Answered(req) /\ answer'.reply.value = all_threads /\ UNCHANGED <<rtos, regs>>
  BY DEF list_active_threads, Reply, Value, Answered
<1>2. \A h \in Existing : eCurrentState(h) # "DELETED" <=> h \in Live
  BY CurrentFacts DEF eCurrentState, Live
<1>3. all_threads = IF Cardinality(Existing) > TaskArrayLength THEN {}
                    ELSE {xTaskNumber[h] : h \in Live}
  BY <1>2 DEF all_threads, scan_tasks, Live
<1>4. Abstract!List(answer'.reply)
  BY <1>1, <1>3, AbstractLive, NothingChanges DEF Abstract!List
<1>5. req.op = "list"
  OBVIOUS
<1> HIDE DEF req
<1>6. Abstract!Serve(req, answer'.reply)
  BY <1>4, <1>5 DEF Abstract!Serve
<1> QED
  BY <1>1, <1>6, ServedIsRequest

LEMMA IsAliveRefines ==
  ASSUME TasksInv, TasksInv', NEW tid, is_thread_alive(tid)
  PROVE  Abstract!Request
<1> DEFINE req == [op |-> "is alive", tid |-> tid]
<1>1. /\ Answered(req) /\ answer'.reply.value = thread_exists(tid) /\ UNCHANGED <<rtos, regs>>
  BY DEF is_thread_alive, Reply, Value, Answered
<1>2. \A h \in Existing : eCurrentState(h) # "DELETED" <=> h \in Live
  BY CurrentFacts DEF eCurrentState, Live
<1>3. thread_exists(tid) <=>
        tid \in {xTaskNumber[h] : h \in Live} /\ ~(Cardinality(Existing) > TaskArrayLength)
  BY <1>2 DEF thread_exists, scan_tasks, Live
<1>4. req.op = "is alive" /\ req.tid = tid
  OBVIOUS
<1> HIDE DEF req
<1>5. Abstract!IsAlive(req, answer'.reply)
  BY <1>1, <1>3, <1>4, AbstractLive, NothingChanges DEF Abstract!IsAlive, thread_exists
<1>6. Abstract!Serve(req, answer'.reply)
  BY <1>4, <1>5 DEF Abstract!Serve
<1> QED
  BY <1>1, <1>6, ServedIsRequest

LEMMA FlatIsSeen ==
  ASSUME NEW file, NEW nesting
  PROVE  Flat(file) = [r \in Registers |-> Seen(file, nesting)[r]]
BY SeenFacts DEF Flat

LEMMA ReadRegistersRefines ==
  ASSUME TasksInv, TasksInv', NEW tid, read_registers(tid)
  PROVE  Abstract!Request
<1> DEFINE req == [op |-> "read", tid |-> tid]
<1>1. /\ phase = "stopped" /\ UNCHANGED regs
      /\ \/ tid = current_thread /\ Reply(req, Value(Flat(exception_ctx)))
         \/ NoSuchTid(tid) /\ Reply(req, Status("EINVAL"))
         \/ \E h \in Handles :
              SavedTask(tid, h) /\ Reply(req, OrPanic(Accessible(h), Value(Flat(SavedFile(h)))))
  BY DEF read_registers, Reply
<1>2. req.op = "read" /\ req.tid = tid
  OBVIOUS
<1> HIDE DEF req
<1>3. Answered(req) /\ UNCHANGED <<rtos, regs>>
  BY <1>1 DEF Reply, Answered
<1> SUFFICES Abstract!Serve(req, answer'.reply)
  BY <1>3, ServedIsRequest
<1>4. Threads' = Threads
  BY <1>3, NothingChanges
<1>5. CASE tid = current_thread /\ Reply(req, Value(Flat(exception_ctx)))
  <2>1. answer'.reply.status = "Ok" /\ answer'.reply.value = Flat(exception_ctx)
    BY <1>5 DEF Reply, Value
  <2>2. Flat(exception_ctx) = [r \in Registers |-> Threads[tid][r]]
    BY <1>5, CurrentIsInReach, FlatIsSeen DEF current_thread
  <2> QED
    BY <1>2, <1>4, <1>5, <2>1, <2>2, CurrentIsInReach
       DEF current_thread, Abstract!Read, Abstract!Ok, Abstract!Serve
<1>6. CASE NoSuchTid(tid) /\ Reply(req, Status("EINVAL"))
  <2>1. answer'.reply.status = "EINVAL"
    BY <1>6 DEF Reply, Status
  <2> QED
    BY <1>2, <1>4, <1>6, <2>1, RefusedIsOutOfReach
       DEF Abstract!Read, Abstract!Refused, Abstract!Serve
<1>7. ASSUME NEW h \in Handles, SavedTask(tid, h),
             Reply(req, OrPanic(Accessible(h), Value(Flat(SavedFile(h)))))
      PROVE  Abstract!Serve(req, answer'.reply)
  <2>1. /\ Accessible(h)
        /\ Abstract!InReach(tid) /\ h # pxCurrentTCB /\ Threads[tid] = View(h)
    BY <1>1, <1>7, SavedTaskFacts, SavedIsInReach
  <2>2. answer'.reply.status = "Ok" /\ answer'.reply.value = Flat(SavedFile(h))
    BY <1>7, <2>1 DEF Reply, OrPanic, Value
  <2>3. Flat(SavedFile(h)) = [r \in Registers |-> Threads[tid][r]]
    BY <2>1, ViewFacts, FlatIsSeen
  <2> QED
    BY <1>2, <1>4, <2>1, <2>2, <2>3 DEF Abstract!Read, Abstract!Ok, Abstract!Serve
<1> QED
  BY <1>1, <1>5, <1>6, <1>7

LEMMA ReadRegisterRefines ==
  ASSUME TasksInv, TasksInv', NEW tid, NEW id \in Registers, read_register(tid, id)
  PROVE  Abstract!Request
<1> DEFINE req == [op |-> "read one", tid |-> tid, reg |-> id]
<1>1. /\ phase = "stopped" /\ UNCHANGED regs
      /\ \/ tid = current_thread /\ Reply(req, Value(Flat(exception_ctx)[id]))
         \/ NoSuchTid(tid) /\ Reply(req, Status("EINVAL"))
         \/ \E h \in Handles :
              SavedTask(tid, h) /\ Reply(req, OrPanic(Accessible(h), Value(Flat(SavedFile(h))[id])))
  BY DEF read_register, Reply
<1>2. req.op = "read one" /\ req.tid = tid /\ req.reg = id
  OBVIOUS
<1> HIDE DEF req
<1>3. Answered(req) /\ UNCHANGED <<rtos, regs>>
  BY <1>1 DEF Reply, Answered
<1> SUFFICES Abstract!Serve(req, answer'.reply)
  BY <1>3, ServedIsRequest
<1>4. Threads' = Threads
  BY <1>3, NothingChanges
<1>5. CASE tid = current_thread /\ Reply(req, Value(Flat(exception_ctx)[id]))
  <2>1. answer'.reply.status = "Ok" /\ answer'.reply.value = Flat(exception_ctx)[id]
    BY <1>5 DEF Reply, Value
  <2>2. Flat(exception_ctx)[id] = Threads[tid][id]
    BY <1>5, CurrentIsInReach, SeenFacts DEF current_thread
  <2> QED
    BY <1>2, <1>4, <1>5, <2>1, <2>2, CurrentIsInReach
       DEF current_thread, Abstract!ReadOne, Abstract!Ok, Abstract!Serve
<1>6. CASE NoSuchTid(tid) /\ Reply(req, Status("EINVAL"))
  <2>1. answer'.reply.status = "EINVAL"
    BY <1>6 DEF Reply, Status
  <2> QED
    BY <1>2, <1>4, <1>6, <2>1, RefusedIsOutOfReach
       DEF Abstract!ReadOne, Abstract!Refused, Abstract!Serve
<1>7. ASSUME NEW h \in Handles, SavedTask(tid, h),
             Reply(req, OrPanic(Accessible(h), Value(Flat(SavedFile(h))[id])))
      PROVE  Abstract!Serve(req, answer'.reply)
  <2>1. /\ Accessible(h)
        /\ Abstract!InReach(tid) /\ h # pxCurrentTCB /\ Threads[tid] = View(h)
    BY <1>1, <1>7, SavedTaskFacts, SavedIsInReach
  <2>2. answer'.reply.status = "Ok" /\ answer'.reply.value = Flat(SavedFile(h))[id]
    BY <1>7, <2>1 DEF Reply, OrPanic, Value
  <2>3. Flat(SavedFile(h))[id] = Threads[tid][id]
    BY <2>1, ViewFacts, SeenFacts
  <2> QED
    BY <1>2, <1>4, <2>1, <2>2, <2>3 DEF Abstract!ReadOne, Abstract!Ok, Abstract!Serve
<1> QED
  BY <1>1, <1>5, <1>6, <1>7

\* A write to a saved task is seen by no other.
LEMMA WritesOnlyViews ==
  ASSUME TasksInv, TasksInv', phase = "stopped", NEW h \in Saved, WritesOnly(h)
  PROVE  /\ xTaskNumber' = xTaskNumber /\ Live' = Live /\ h \in Live
         /\ View(h)' = Seen(SavedFile(h)', ReadContext(mem', stack_ptr'[h])["ulCriticalNesting"])
         /\ \A i \in Live : i # h => View(i)' = View(i)
<1>1. /\ UNCHANGED <<pxCurrentTCB, xTaskNumber, deleted, ulCriticalNesting, exception_ctx>>
      /\ h \in Live /\ h # pxCurrentTCB
  BY SavedAreWhole DEF WritesOnly, rtos
<1>2. Live' = Live
  BY <1>1 DEF Live, Existing
<1>3. View(h)' = Seen(SavedFile(h)', ReadContext(mem', stack_ptr'[h])["ulCriticalNesting"])
  BY <1>1, ViewFactsNext
<1>4. ASSUME NEW i \in Live, i # h
      PROVE  View(i)' = View(i)
  <2>1. CASE i = pxCurrentTCB
    BY <1>1, <2>1, CurrentViewKept
  <2>2. CASE i # pxCurrentTCB
    <3>1. i \in Saved
      BY <2>2 DEF Saved
    <3>2. i \in Handles /\ stack_ptr[i] \in Int /\ Whole(mem, stack_ptr[i], i)
      BY <3>1, SavedAreWhole
    <3>3. stack_ptr'[i] = stack_ptr[i] /\ \A a \in Stack(i) : mem'[a] = mem[a]
      BY <1>4, <3>2 DEF WritesOnly
    <3>4. ReadContext(mem', stack_ptr[i]) = ReadContext(mem, stack_ptr[i])
      BY <3>2, <3>3, WholeKept
    <3> QED
      BY <1>1, <2>2, <3>3, <3>4, SavedViewKept
  <2> QED
    BY <2>1, <2>2
<1> QED
  BY <1>1, <1>2, <1>3, <1>4

\* What a write of all registers, or of one, does to what is seen.
LEMMA SeenWritten ==
  ASSUME NEW file, NEW other, NEW nesting
  PROVE  Seen(file, nesting)
           = [r \in DOMAIN Seen(other, nesting) |->
                IF r \in Registers THEN Flat(file)[r] ELSE Seen(other, nesting)[r]]
<1>1. \A r \in Registers \union {"ulCriticalNesting"} :
        Seen(file, nesting)[r]
          = IF r \in Registers THEN Flat(file)[r] ELSE Seen(other, nesting)[r]
  BY SeenFacts
<1> QED
  BY <1>1, SeenFacts

LEMMA SeenWrittenOne ==
  ASSUME NEW file, NEW other, NEW nesting, NEW id \in Registers, NEW val,
         other.sp = IF id = "sp" THEN val ELSE file.sp,
         \A r \in SavedRegisters : other.regs[r] = IF r = id THEN val ELSE file.regs[r]
  PROVE  Seen(other, nesting)
           = [r \in DOMAIN Seen(file, nesting) |-> IF r = id THEN val ELSE Seen(file, nesting)[r]]
<1>1. \A r \in Registers \union {"ulCriticalNesting"} :
        Seen(other, nesting)[r] = IF r = id THEN val ELSE Seen(file, nesting)[r]
  <2>1. "ulCriticalNesting" \notin Registers /\ "sp" \notin SavedRegisters
    BY FieldFacts DEF Registers
  <2> QED
    BY <2>1, SeenFacts DEF Registers
<1> QED
  BY <1>1, SeenFacts

\* A write to the current task's registers is seen by no other task.
LEMMA ContextViews ==
  ASSUME TasksInv, TasksInv', UNCHANGED <<rtos, stack_ptr, mem>>
  PROVE  /\ xTaskNumber' = xTaskNumber /\ Live' = Live /\ pxCurrentTCB \in Live
         /\ \A i \in Live : i # pxCurrentTCB => View(i)' = View(i)
<1>1. /\ UNCHANGED <<pxCurrentTCB, xTaskNumber, deleted, ulCriticalNesting, stack_ptr, mem>>
      /\ pxCurrentTCB \in Live
  BY CurrentFacts DEF rtos
<1>2. Live' = Live
  BY <1>1 DEF Live, Existing
<1>3. \A i \in Live : i # pxCurrentTCB => View(i)' = View(i)
  BY <1>1, SavedViewKept
<1> QED
  BY <1>1, <1>2, <1>3

LEMMA ContextChanged ==
  ASSUME TasksInv, TasksInv', UNCHANGED <<rtos, stack_ptr, mem>>,
         NEW tid, tid = xTaskNumber[pxCurrentTCB]
  PROVE  Threads' = [Threads EXCEPT ![tid] = Seen(exception_ctx', ulCriticalNesting)]
<1>1. PICK h \in Live : h = pxCurrentTCB
  BY ContextViews
<1>2. /\ xTaskNumber' = xTaskNumber /\ Live' = Live /\ pxCurrentTCB' = pxCurrentTCB
      /\ \A i \in Live : i # h => View(i)' = View(i)
  BY <1>1, ContextViews DEF rtos
<1>3. Threads' = [Threads EXCEPT ![xTaskNumber[h]] = View(h)']
  BY <1>2, OneThreadChanged
<1>4. View(h)' = Seen(exception_ctx', ulCriticalNesting)
  BY <1>1, <1>2, ViewFactsNext DEF rtos
<1> QED
  BY <1>1, <1>3, <1>4

LEMMA WriteSavedRefines ==
  ASSUME TasksInv, TasksInv', phase = "stopped", NEW tid, NEW h \in Saved,
         SavedTask(tid, h), Accessible(h), xTaskNumber[h] = tid,
         NEW file \in Files, file.sp \in StackPointers(h),
         NEW req, req.op = "write", req.tid = tid, req.file = Flat(file),
         WriteSaved(h, file, req)
  PROVE  UNCHANGED rtos /\ Abstract!Write(req, answer'.reply)
<1> DEFINE nesting == ReadContext(mem, stack_ptr[h])["ulCriticalNesting"]
           ctx == ReadContext(mem', stack_ptr'[h])
<1>1. /\ WritesOnly(h)
      /\ stack_ptr'[h] + SIZE_OF_CONTEXT = file.sp
      /\ \/ answer'.reply.status = "Ok" /\ ctx = NewContext(file, nesting)
         \/ answer'.reply.status = "panic" /\ file.sp # Sp(h)
  BY WriteSavedFacts
<1>2. /\ h \in Handles /\ h # pxCurrentTCB /\ h \in Live
      /\ stack_ptr[h] \in Int /\ Whole(mem, stack_ptr[h], h)
  BY SavedAreWhole
<1>3. /\ Abstract!InReach(tid) /\ tid # xTaskNumber[pxCurrentTCB]
      /\ Threads[tid] = View(h)
  BY <1>2, SavedIsInReach
<1>4. View(h) = Seen(SavedFile(h), nesting)
  BY <1>2, ViewFacts
<1>5. /\ xTaskNumber' = xTaskNumber /\ Live' = Live
      /\ View(h)' = Seen(SavedFile(h)', ctx["ulCriticalNesting"])
      /\ \A i \in Live : i # h => View(i)' = View(i)
  BY <1>1, WritesOnlyViews
<1>6. /\ Threads' = [Threads EXCEPT ![tid] = View(h)']
      /\ Abstract!OnlyChanges(tid)
  BY <1>2, <1>5, OneThreadChanged
<1>7. CASE answer'.reply.status = "Ok" /\ ctx = NewContext(file, nesting)
  <2>1. file \in RegisterFile /\ nesting \in Words
    BY <1>2, StackPointerFacts, TasksAssumption DEF Files, RegisterFile, Whole
  <2>2. /\ ctx["ulCriticalNesting"] = nesting
        /\ \A r \in SavedRegisters : ctx[r] = file.regs[r]
    BY <1>7, <2>1, NewContextFacts
  <2>3. /\ SavedFile(h)'.sp = file.sp
        /\ \A r \in SavedRegisters : SavedFile(h)'.regs[r] = ctx[r]
    BY <1>1 DEF SavedFile, Sp
  <2>4. View(h)' = Seen(file, nesting)
    BY <1>5, <2>2, <2>3, SeenSame
  <2>5. View(h)' = [r \in DOMAIN View(h) |->
                      IF r \in Registers THEN Flat(file)[r] ELSE View(h)[r]]
    BY <1>4, <2>4, SeenWritten
  <2> QED
    BY <1>1, <1>3, <1>6, <1>7, <2>5 DEF Abstract!Write, Abstract!Ok, WritesOnly
<1>8. CASE answer'.reply.status = "panic" /\ file.sp # Sp(h)
  <2>1. Flat(file)["sp"] = file.sp
    BY DEF Flat, Registers
  <2>2. View(h)["sp"] = Sp(h)
    BY <1>4, SeenFacts DEF SavedFile
  <2> QED
    BY <1>1, <1>3, <1>6, <1>8, <2>1, <2>2 DEF Abstract!Write, Abstract!Panic, WritesOnly
<1> QED
  BY <1>1, <1>7, <1>8

LEMMA WriteRegistersRefines ==
  ASSUME TasksInv, TasksInv', NEW tid, NEW file \in Files, FitsStack(tid, file.sp),
         write_registers(tid, file)
  PROVE  Abstract!Request
<1> DEFINE req == [op |-> "write", tid |-> tid, file |-> Flat(file)]
<1>1. /\ Answered(req)
      /\ \/ /\ tid = current_thread /\ answer'.reply = Status("Ok")
            /\ exception_ctx' = file
            /\ UNCHANGED <<rtos, stack_ptr, mem>>
         \/ /\ NoSuchTid(tid) /\ answer'.reply = Status("EINVAL")
            /\ UNCHANGED <<rtos, regs>>
         \/ \E h \in Saved :
              /\ SavedTask(tid, h) /\ Accessible(h) /\ xTaskNumber[h] = tid
              /\ file.sp \in StackPointers(h)
              /\ WriteSaved(h, file, req)
  BY WriteRegistersFacts
<1>2. req.op = "write" /\ req.tid = tid /\ req.file = Flat(file)
  OBVIOUS
<1> HIDE DEF req
<1>3. phase = "stopped"
  BY <1>1 DEF Answered
<1> SUFFICES UNCHANGED rtos /\ Abstract!Write(req, answer'.reply)
  BY <1>1, <1>2, ServedIsRequest DEF Abstract!Serve
<1>4. CASE /\ tid = current_thread /\ answer'.reply = Status("Ok")
           /\ exception_ctx' = file
           /\ UNCHANGED <<rtos, stack_ptr, mem>>
  <2>1. /\ tid = xTaskNumber[pxCurrentTCB] /\ Abstract!InReach(tid)
        /\ Threads[tid] = View(pxCurrentTCB)
        /\ View(pxCurrentTCB) = Seen(exception_ctx, ulCriticalNesting)
    BY <1>4, CurrentIsInReach DEF current_thread
  <2>2. Threads' = [Threads EXCEPT ![tid] = Seen(file, ulCriticalNesting)]
    BY <1>4, <2>1, ContextChanged
  <2>3. Seen(file, ulCriticalNesting)
          = [r \in DOMAIN Threads[tid] |->
               IF r \in Registers THEN Flat(file)[r] ELSE Threads[tid][r]]
    BY <2>1, SeenWritten
  <2> QED
    BY <1>2, <1>4, <2>1, <2>2, <2>3 DEF Abstract!Write, Abstract!Ok, Status
<1>5. CASE /\ NoSuchTid(tid) /\ answer'.reply = Status("EINVAL")
           /\ UNCHANGED <<rtos, regs>>
  BY <1>2, <1>5, RefusedIsOutOfReach, NothingChanges
     DEF Abstract!Write, Abstract!Refused, Status
<1>6. ASSUME NEW h \in Saved, SavedTask(tid, h), Accessible(h), xTaskNumber[h] = tid,
             file.sp \in StackPointers(h), WriteSaved(h, file, req)
      PROVE  UNCHANGED rtos /\ Abstract!Write(req, answer'.reply)
  BY <1>2, <1>3, <1>6, WriteSavedRefines
<1> QED
  BY <1>1, <1>4, <1>5, <1>6

\* What a reply to a request to write one register has to go with.
WrittenOne(tid, id, value) ==
  \/ ~Abstract!InReach(tid) /\ answer'.reply.status = "EINVAL" /\ UNCHANGED Threads
  \/ value.bytes # BytesOf(id) /\ answer'.reply.status = "NonFatal" /\ UNCHANGED Threads
  \/ /\ Abstract!InReach(tid) /\ answer'.reply.status = "Ok"
     /\ value.bytes = BytesOf(id)
     /\ Threads' = [Threads EXCEPT ![tid][id] = value.val]
  \/ /\ Abstract!InReach(tid) /\ tid # xTaskNumber[pxCurrentTCB]
     /\ answer'.reply.status = "panic"
     /\ value.bytes # BytesOf(id) /\ UNCHANGED Threads

LEMMA WrittenOneIsServed ==
  ASSUME NEW tid, NEW id, NEW value, WrittenOne(tid, id, value), UNCHANGED rtos,
         NEW req, req = [op |-> "write one", tid |-> tid, reg |-> id, value |-> value],
         Answered(req)
  PROVE  Abstract!Request
<1>1. Abstract!WriteOne([op |-> "write one", tid |-> tid, reg |-> id, value |-> value],
                        answer'.reply)
  BY DEF WrittenOne, BytesOf, Abstract!WriteOne, Abstract!Refused, Abstract!Ok,
         Abstract!Panic, Abstract!Fits, Abstract!OnlyChanges, Abstract!Live
<1>2. Abstract!WriteOne(req, answer'.reply) /\ req.op = "write one"
  BY <1>1
<1>3. Abstract!Serve(req, answer'.reply)
  BY <1>2 DEF Abstract!Serve
<1> QED
  BY <1>3, ServedIsRequest

LEMMA WriteSavedRegisterRefines ==
  ASSUME TasksInv, TasksInv', phase = "stopped", NEW tid, NEW h \in Saved,
         SavedTask(tid, h), Accessible(h), xTaskNumber[h] = tid,
         NEW id \in Registers, NEW value \in RegisterValues(id),
         id = "sp" /\ value.val # 0 => value.val \in StackPointers(h),
         NEW req, WriteSavedRegister(h, id, value, req)
  PROVE  UNCHANGED rtos /\ WrittenOne(tid, id, value)
<1> DEFINE ctx == ReadContext(mem, stack_ptr[h])
           new == ReadContext(mem', stack_ptr'[h])
           nesting == ctx["ulCriticalNesting"]
<1>1. /\ WritesOnly(h)
      /\ \/ /\ value.bytes = BytesOf(id) /\ answer'.reply.status = "Ok"
            /\ id = "sp"
            /\ stack_ptr'[h] + SIZE_OF_CONTEXT = value.val
            /\ new = ctx
         \/ /\ value.bytes = BytesOf(id) /\ answer'.reply.status = "Ok"
            /\ id \in SavedRegisters
            /\ stack_ptr'[h] = stack_ptr[h]
            /\ \A f \in Fields : new[f] = IF f = id THEN value.val ELSE ctx[f]
         \/ /\ value.bytes # BytesOf(id) /\ answer'.reply.status = "panic"
            /\ UNCHANGED <<stack_ptr, mem>>
  BY WriteSavedRegisterFacts
<1>2. UNCHANGED rtos /\ UNCHANGED exception_ctx
  BY <1>1 DEF WritesOnly
<1>3. h \in Handles /\ h # pxCurrentTCB /\ h \in Live
  BY SavedAreWhole
<1>4. /\ Abstract!InReach(tid) /\ tid # xTaskNumber[pxCurrentTCB]
      /\ Threads[tid] = View(h)
  BY <1>3, SavedIsInReach
<1>5. View(h) = Seen(SavedFile(h), nesting)
  BY <1>3, ViewFacts
<1>6. /\ xTaskNumber' = xTaskNumber /\ Live' = Live
      /\ View(h)' = Seen(SavedFile(h)', new["ulCriticalNesting"])
      /\ \A i \in Live : i # h => View(i)' = View(i)
  BY <1>1, WritesOnlyViews
<1>7. Threads' = [Threads EXCEPT ![tid] = View(h)']
  BY <1>3, <1>6, OneThreadChanged
<1>8. /\ SavedFile(h).sp = stack_ptr[h] + SIZE_OF_CONTEXT
      /\ \A r \in SavedRegisters : SavedFile(h).regs[r] = ctx[r]
      /\ SavedFile(h)'.sp = stack_ptr'[h] + SIZE_OF_CONTEXT
      /\ \A r \in SavedRegisters : SavedFile(h)'.regs[r] = new[r]
  BY DEF SavedFile, Sp
<1>9. /\ SavedRegisters \subseteq Fields /\ "sp" \notin SavedRegisters
      /\ "ulCriticalNesting" \in Fields \ SavedRegisters
  BY FieldFacts
<1> HIDE DEF ctx, new, nesting
<1>10. ASSUME value.bytes = BytesOf(id), answer'.reply.status = "Ok",
              new["ulCriticalNesting"] = nesting,
              SavedFile(h)'.sp = IF id = "sp" THEN value.val ELSE SavedFile(h).sp,
              \A r \in SavedRegisters :
                SavedFile(h)'.regs[r] = IF r = id THEN value.val ELSE SavedFile(h).regs[r]
       PROVE  UNCHANGED rtos /\ WrittenOne(tid, id, value)
  <2>1. View(h)' = [r \in DOMAIN View(h) |-> IF r = id THEN value.val ELSE View(h)[r]]
    BY <1>5, <1>6, <1>10, SeenWrittenOne
  <2>2. Threads' = [Threads EXCEPT ![tid][id] = value.val]
    BY <1>4, <1>7, <2>1
  <2> QED
    BY <1>2, <1>4, <1>10, <2>2 DEF WrittenOne
<1>11. CASE /\ value.bytes = BytesOf(id) /\ answer'.reply.status = "Ok"
            /\ id = "sp"
            /\ stack_ptr'[h] + SIZE_OF_CONTEXT = value.val
            /\ new = ctx
  BY <1>8, <1>9, <1>10, <1>11 DEF nesting
<1>12. CASE /\ value.bytes = BytesOf(id) /\ answer'.reply.status = "Ok"
            /\ id \in SavedRegisters
            /\ stack_ptr'[h] = stack_ptr[h]
            /\ \A f \in Fields : new[f] = IF f = id THEN value.val ELSE ctx[f]
  BY <1>8, <1>9, <1>10, <1>12 DEF nesting
<1>13. CASE /\ value.bytes # BytesOf(id) /\ answer'.reply.status = "panic"
            /\ UNCHANGED <<stack_ptr, mem>>
  <2>1. Threads' = Threads
    BY <1>2, <1>13, NothingChanges DEF regs
  <2> QED
    BY <1>2, <1>4, <1>13, <2>1 DEF WrittenOne
<1> QED
  BY <1>1, <1>11, <1>12, <1>13

LEMMA WriteRegisterRefines ==
  ASSUME TasksInv, TasksInv', NEW tid, NEW id \in Registers, NEW value \in RegisterValues(id),
         id = "sp" /\ value.val # 0 => FitsStack(tid, value.val),
         write_register(tid, id, value)
  PROVE  Abstract!Request
<1> DEFINE req == [op |-> "write one", tid |-> tid, reg |-> id, value |-> value]
           was == exception_ctx
           written == IF id = "sp" THEN [exception_ctx EXCEPT !.sp = value.val]
                                   ELSE [exception_ctx EXCEPT !.regs[id] = value.val]
<1>1. /\ Answered(req)
      /\ \/ /\ tid = current_thread /\ answer'.reply = Status("Ok")
            /\ value.bytes = BytesOf(id)
            /\ exception_ctx' = written
            /\ UNCHANGED <<rtos, stack_ptr, mem>>
         \/ /\ answer'.reply = Status("NonFatal") /\ value.bytes # BytesOf(id)
            /\ UNCHANGED <<rtos, regs>>
         \/ /\ NoSuchTid(tid) /\ answer'.reply = Status("EINVAL")
            /\ UNCHANGED <<rtos, regs>>
         \/ \E h \in Saved :
              /\ SavedTask(tid, h) /\ Accessible(h) /\ xTaskNumber[h] = tid
              /\ id = "sp" /\ value.val # 0 => value.val \in StackPointers(h)
              /\ WriteSavedRegister(h, id, value, req)
  BY WriteRegisterFacts
<1>2. /\ written.sp = IF id = "sp" THEN value.val ELSE was.sp
      /\ \A r \in SavedRegisters : written.regs[r] = IF r = id THEN value.val ELSE was.regs[r]
  <2>1. exception_ctx \in RegisterFile /\ "sp" \notin SavedRegisters
    BY CurrentFacts, FieldFacts
  <2> QED
    BY <2>1 DEF RegisterFile
<1> SUFFICES UNCHANGED rtos /\ WrittenOne(tid, id, value)
  BY <1>1, WrittenOneIsServed
<1>3. was = exception_ctx
  OBVIOUS
<1> HIDE DEF req, was, written
<1>4. phase = "stopped"
  BY <1>1 DEF Answered
<1>5. CASE /\ tid = current_thread /\ answer'.reply = Status("Ok")
           /\ value.bytes = BytesOf(id)
           /\ exception_ctx' = written
           /\ UNCHANGED <<rtos, stack_ptr, mem>>
  <2>1. /\ tid = xTaskNumber[pxCurrentTCB] /\ Abstract!InReach(tid)
        /\ Threads[tid] = Seen(was, ulCriticalNesting)
    BY <1>3, <1>5, CurrentIsInReach DEF current_thread
  <2>2. Threads' = [Threads EXCEPT ![tid] = Seen(written, ulCriticalNesting)]
    BY <1>5, <2>1, ContextChanged
  <2>3. Seen(written, ulCriticalNesting)
          = [r \in DOMAIN Seen(was, ulCriticalNesting) |->
               IF r = id THEN value.val ELSE Seen(was, ulCriticalNesting)[r]]
    <3>1. "ulCriticalNesting" \notin Registers /\ "sp" \notin SavedRegisters
      BY FieldFacts DEF Registers
    <3>2. \A r \in Registers \union {"ulCriticalNesting"} :
            Seen(written, ulCriticalNesting)[r]
              = IF r = id THEN value.val ELSE Seen(was, ulCriticalNesting)[r]
      BY <1>2, <3>1, SeenFacts DEF Registers
    <3> QED
      BY <3>2, SeenFacts
  <2>4. Threads' = [Threads EXCEPT ![tid][id] = value.val]
    BY <2>1, <2>2, <2>3
  <2> QED
    BY <1>5, <2>1, <2>4 DEF WrittenOne, Status
<1>6. CASE /\ answer'.reply = Status("NonFatal") /\ value.bytes # BytesOf(id)
           /\ UNCHANGED <<rtos, regs>>
  <2>1. Threads' = Threads
    BY <1>6, NothingChanges
  <2> QED
    BY <1>6, <2>1 DEF WrittenOne, Status
<1>7. CASE /\ NoSuchTid(tid) /\ answer'.reply = Status("EINVAL")
           /\ UNCHANGED <<rtos, regs>>
  <2>1. Threads' = Threads /\ ~Abstract!InReach(tid)
    BY <1>7, RefusedIsOutOfReach, NothingChanges
  <2> QED
    BY <1>7, <2>1 DEF WrittenOne, Status
<1>8. ASSUME NEW h \in Saved, SavedTask(tid, h), Accessible(h), xTaskNumber[h] = tid,
             id = "sp" /\ value.val # 0 => value.val \in StackPointers(h),
             WriteSavedRegister(h, id, value, req)
      PROVE  UNCHANGED rtos /\ WrittenOne(tid, id, value)
  BY <1>4, <1>8, WriteSavedRegisterRefines
<1> QED
  BY <1>1, <1>5, <1>6, <1>7, <1>8

LEMMA RequestRefines ==
  ASSUME TasksInv, TasksInv', Request
  PROVE  Abstract!Request
<1>1. CASE list_active_threads
  BY <1>1, ListRefines
<1>2. ASSUME NEW tid \in Tids, is_thread_alive(tid) \/ read_registers(tid)
      PROVE  Abstract!Request
  BY <1>2, IsAliveRefines, ReadRegistersRefines
<1>3. ASSUME NEW tid \in Tids, NEW id \in Registers, read_register(tid, id)
      PROVE  Abstract!Request
  BY <1>3, ReadRegisterRefines
<1>4. ASSUME NEW tid \in Tids, NEW file \in Files, FitsStack(tid, file.sp),
             write_registers(tid, file)
      PROVE  Abstract!Request
  BY <1>4, WriteRegistersRefines
<1>5. ASSUME NEW tid \in Tids, NEW id \in Registers, NEW value \in RegisterValues(id),
             id = "sp" /\ value.val # 0 => FitsStack(tid, value.val),
             write_register(tid, id, value)
      PROVE  Abstract!Request
  BY <1>5, WriteRegisterRefines
<1> QED
  BY <1>1, <1>2, <1>3, <1>4, <1>5 DEF Request

LEMMA ProgramRefines ==
  ASSUME TasksInv, TasksInv', Program
  PROVE  Abstract!Program
<1>1. ASSUME NEW r \in SavedRegisters, NEW w \in WrittenWords, Compute(r, w)
      PROVE  Abstract!Program
  BY <1>1, ComputeRefines DEF Compute, Running, rtos
<1>2. ASSUME NEW w \in WrittenWords, Push(w)
      PROVE  Abstract!Program
  BY <1>2, PushFacts, ComputeRefines DEF Push, Running, rtos
<1>3. CASE Pop \/ EnterOrExitCritical
  BY <1>3, ComputeRefines DEF Pop, EnterOrExitCritical, Running, rtos, regs
<1>4. ASSUME NEW h \in Handles,
             SwitchContext(h) \/ CreateTask(h) \/ DeleteTask(h) \/ DeleteSelf(h) \/ CleanUp(h)
      PROVE  Abstract!Program
  BY <1>4, SwitchContextRefines, CreateTaskRefines, DeletesRefine, CleanUpRefines
<1> QED
  BY <1>1, <1>2, <1>3, <1>4 DEF Program

(***************************************************************************)
(* Thread access implements TaskRegisters: to GDB every thread has one     *)
(* register file, which reads return and writes change, whether it is in   *)
(* the exception's context or on a stack, and nothing else.                *)
(***************************************************************************)
THEOREM RefinesTaskRegisters == Spec => ImplementsTaskRegisters
<1>1. Init => Abstract!Init
  <2> SUFFICES ASSUME Init PROVE Abstract!Init
    OBVIOUS
  <2>1. TasksInv
    BY InitEstablishesTasksInv
  <2>2. xTaskNumber[pxCurrentTCB] \in Abstract!Live
    BY <2>1, AbstractLive, CurrentFacts
  <2> QED
    BY <2>2 DEF Init, Abstract!Init, Abstract!NoAnswer, NoAnswer
<1>2. TasksInv /\ TasksInv' /\ [Next]_vars => [Abstract!Next]_(Abstract!absvars)
  <2> SUFFICES ASSUME TasksInv, TasksInv', [Next]_vars
               PROVE  [Abstract!Next]_(Abstract!absvars)
    OBVIOUS
  <2>1. CASE Program
    BY <2>1, ProgramRefines DEF Abstract!Next
  <2>2. CASE Stop \/ Resume
    BY <2>2, StopOrResumeRefines DEF Abstract!Next
  <2>3. CASE Request
    BY <2>3, RequestRefines DEF Abstract!Next
  <2>4. CASE Deliver
    BY <2>4, DeliverRefines DEF Abstract!Next
  <2>5. CASE UNCHANGED vars
    <3>1. UNCHANGED <<rtos, regs, phase, answer>>
      BY <2>5 DEF vars
    <3> QED
      BY <3>1, NothingChanges DEF Abstract!absvars
  <2> QED
    BY <2>1, <2>2, <2>3, <2>4, <2>5 DEF Next
<1> QED
  BY <1>1, <1>2, TasksInvHolds, PTL DEF Spec, ImplementsTaskRegisters, Abstract!Spec

=============================================================================
