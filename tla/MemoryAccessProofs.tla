------------------------- MODULE MemoryAccessProofs -------------------------
(***************************************************************************)
(* The walk of test_access finds the longest run of accessible bytes, for  *)
(* sections of any size and any number, whatever the system has mapped and *)
(* wherever the border between its two tables is.                          *)
(***************************************************************************)
EXTENDS MemoryAccess, TLAPS

-----------------------------------------------------------------------------
(* Division.                                                               *)

LEMMA DivFacts ==
  ASSUME NEW b \in Nat \ {0}, NEW a \in Nat
  PROVE  /\ a \div b \in Nat /\ a % b \in 0 .. b - 1
         /\ a = b * (a \div b) + (a % b)
BY SMT

LEMMA MultGrows ==
  ASSUME NEW b \in Nat \ {0}, NEW k \in Nat \ {0}
  PROVE  b * k >= b
BY SMT

LEMMA MultDistributes ==
  ASSUME NEW b \in Nat \ {0}, NEW k \in Int, NEW j \in Int
  PROVE  b * (k - j) = b * k - b * j /\ b * (k + j) = b * k + b * j /\ b * k \in Int
BY SMT

(***************************************************************************)
(* Quotient and remainder are unique.                                      *)
(***************************************************************************)
LEMMA DivUnique ==
  ASSUME NEW b \in Nat \ {0}, NEW q \in Nat, NEW r \in 0 .. b - 1
  PROVE  (b * q + r) \div b = q /\ (b * q + r) % b = r
<1> DEFINE a == b * q + r
           p == a \div b
           s == a % b
<1>1. b * q \in Nat
  BY SMT
<1>2. p \in Nat /\ s \in 0 .. b - 1 /\ a = b * p + s
  <2>1. a \in Nat
    BY <1>1
  <2> HIDE DEF a
  <2> QED
    BY <2>1, DivFacts, Zenon
<1> HIDE DEF p, s
<1>3. ~ q < p
  <2> SUFFICES ASSUME q < p PROVE FALSE
    OBVIOUS
  <2>1. b * (p - q) >= b
    BY <1>2, MultGrows
  <2> QED
    BY <1>2, <2>1, MultDistributes
<1>4. ~ p < q
  <2> SUFFICES ASSUME p < q PROVE FALSE
    OBVIOUS
  <2>1. b * (q - p) >= b
    BY <1>2, MultGrows
  <2> QED
    BY <1>2, <2>1, MultDistributes
<1>5. q = p /\ r = s
  BY <1>2, <1>3, <1>4
<1> QED
  BY <1>5 DEF p, s

-----------------------------------------------------------------------------
(* Sections.                                                               *)

LEMMA Constants ==
  /\ SECTION_SIZE \in Nat \ {0} /\ NumSections \in Nat \ {0}
  /\ MaxAddr \in Nat /\ MaxAddr + 1 = SECTION_SIZE * NumSections
  /\ Addrs = 0 .. MaxAddr
<1>1. SECTION_SIZE \in Nat \ {0} /\ NumSections \in Nat \ {0}
  BY MemoryAssumption
<1>2. SECTION_SIZE * NumSections >= SECTION_SIZE /\ SECTION_SIZE * NumSections \in Int
  BY <1>1, MultGrows, MultDistributes
<1> QED
  BY <1>1, <1>2 DEF MaxAddr, Addrs

(***************************************************************************)
(* Every address is in a section.                                          *)
(***************************************************************************)
LEMMA SectionType ==
  ASSUME NEW a \in Addrs
  PROVE  Section(a) \in 0 .. NumSections - 1
<1> DEFINE q == a \div SECTION_SIZE
           r == a % SECTION_SIZE
<1>1. q \in Nat /\ r \in 0 .. SECTION_SIZE - 1 /\ a = SECTION_SIZE * q + r
  <2>1. a \in Nat /\ SECTION_SIZE \in Nat \ {0}
    BY Constants
  <2> QED
    BY <2>1, DivFacts, Zenon
<1> HIDE DEF q, r
<1>2. ~ q >= NumSections
  <2> SUFFICES ASSUME q >= NumSections PROVE FALSE
    OBVIOUS
  <2>1. SECTION_SIZE * (q - NumSections) >= 0
    <3>1. CASE q = NumSections
      BY <3>1, Constants
    <3>2. CASE q # NumSections
      <4>1. q - NumSections \in Nat \ {0}
        BY <1>1, <3>2, Constants
      <4> QED
        BY <4>1, Constants, MultGrows
    <3> QED
      BY <3>1, <3>2
  <2> QED
    BY <1>1, <2>1, Constants, MultDistributes
<1> QED
  BY <1>1, <1>2, Constants DEF Section, q

(***************************************************************************)
(* SectionStart is aligned and at most a section below.                    *)
(***************************************************************************)
LEMMA SectionStartFacts ==
  ASSUME NEW a \in Addrs
  PROVE  /\ SectionStart(a) \in Addrs /\ SectionStart(a) % SECTION_SIZE = 0
         /\ SectionStart(a) <= a /\ a < SectionStart(a) + SECTION_SIZE
<1> DEFINE q == a \div SECTION_SIZE
           r == a % SECTION_SIZE
<1>1. q \in Nat /\ r \in 0 .. SECTION_SIZE - 1 /\ a = SECTION_SIZE * q + r
  <2>1. a \in Nat /\ SECTION_SIZE \in Nat \ {0}
    BY Constants
  <2> QED
    BY <2>1, DivFacts, Zenon
<1>2. SectionStart(a) = a - r
  BY DEF SectionStart
<1> HIDE DEF q, r
<1>3. SECTION_SIZE * q \in Int
  BY <1>1, Constants, MultDistributes
<1>4. SectionStart(a) = SECTION_SIZE * q + 0
  BY <1>1, <1>2, <1>3, Constants
<1>5. SectionStart(a) % SECTION_SIZE = 0
  <2>1. 0 \in 0 .. SECTION_SIZE - 1 /\ SECTION_SIZE \in Nat \ {0}
    BY Constants
  <2> QED
    BY <1>1, <1>4, <2>1, DivUnique, Zenon
<1>6. SECTION_SIZE * q >= 0
  <2>1. CASE q = 0
    BY <2>1, Constants
  <2>2. CASE q # 0
    BY <1>1, <2>2, Constants, MultGrows
  <2> QED
    BY <2>1, <2>2
<1> DEFINE m == SECTION_SIZE * q
<1>7. m \in Nat /\ a = m + r /\ SectionStart(a) = m
  BY <1>1, <1>3, <1>4, <1>6
<1> HIDE DEF m
<1>8. SectionStart(a) \in Addrs /\ SectionStart(a) <= a /\ a < SectionStart(a) + SECTION_SIZE
  BY <1>1, <1>7, Constants
<1> QED
  BY <1>5, <1>8

LEMMA AlignedFacts ==
  ASSUME NEW c \in Addrs, c % SECTION_SIZE = 0
  PROVE  /\ c \div SECTION_SIZE \in Nat /\ c = SECTION_SIZE * (c \div SECTION_SIZE) + 0
         /\ SECTION_SIZE * (c \div SECTION_SIZE) \in Int
<1>1. c \in Nat /\ SECTION_SIZE \in Nat \ {0}
  BY Constants
<1>2. /\ c \div SECTION_SIZE \in Nat
      /\ c = SECTION_SIZE * (c \div SECTION_SIZE) + (c % SECTION_SIZE)
  BY <1>1, DivFacts, Zenon
<1>3. c = SECTION_SIZE * (c \div SECTION_SIZE) + 0
  BY <1>2
<1> DEFINE q == c \div SECTION_SIZE
<1>4. q \in Int
  BY <1>2
<1> HIDE DEF q
<1>5. SECTION_SIZE * q \in Int
  BY <1>1, <1>4, MultDistributes
<1> QED
  BY <1>2, <1>3, <1>5 DEF q

(***************************************************************************)
(* A section's bytes are those from its first on.                          *)
(***************************************************************************)
LEMMA SameSection ==
  ASSUME NEW c \in Addrs, c % SECTION_SIZE = 0, NEW a \in Addrs,
         c <= a, a < c + SECTION_SIZE
  PROVE  Section(a) = Section(c)
<1> DEFINE q == c \div SECTION_SIZE
<1>1. q \in Nat /\ c = SECTION_SIZE * q + 0 /\ SECTION_SIZE * q \in Int
  BY AlignedFacts, Zenon
<1>2. a = SECTION_SIZE * q + (a - c) /\ a - c \in 0 .. SECTION_SIZE - 1
  BY <1>1, Constants
<1> HIDE DEF q
<1>3. a \div SECTION_SIZE = q
  BY <1>1, <1>2, Constants, DivUnique
<1> QED
  BY <1>3 DEF Section, q

(***************************************************************************)
(* The next section begins a section's size later.                         *)
(***************************************************************************)
LEMMA NextAligned ==
  ASSUME NEW c \in Addrs, c % SECTION_SIZE = 0
  PROVE  (c + SECTION_SIZE) % SECTION_SIZE = 0
<1> DEFINE q == c \div SECTION_SIZE
<1>1. q \in Nat /\ c = SECTION_SIZE * q + 0
  BY AlignedFacts, Zenon
<1> HIDE DEF q
<1>2. c + SECTION_SIZE = SECTION_SIZE * (q + 1) + 0
  BY <1>1, Constants, MultDistributes
<1> QED
  BY <1>1, <1>2, Constants, DivUnique

-----------------------------------------------------------------------------
(* The translation tables.                                                 *)

\* The code finds the descriptors that the system has mapped.
TablesAgree ==
  \A a \in Addrs :
    lookup_l1(for_addr(a), a) = IF Section(a) < NumEntries(tt0_boundary)
                                THEN tt0[Section(a)] ELSE tt1[Section(a)]

LEMMA BaseWithoutAttributes ==
  ASSUME NEW size \in Nat \ {0}, NEW base \in Nat, base % size = 0, NEW attrs \in 0 .. size - 1,
         NEW ttbr, ttbr = base + attrs
  PROVE  ttbr - (ttbr % size) = base
<1> DEFINE q == base \div size
<1>1. q \in Nat /\ base = size * q + (base % size)
  BY DivFacts, Zenon
<1> HIDE DEF q
<1>2. base = size * q /\ size * q \in Int
  BY <1>1, MultDistributes
<1>3. (size * q + attrs) % size = attrs
  BY <1>1, DivUnique, Zenon
<1>4. ttbr % size = attrs
  BY <1>2, <1>3, Zenon
<1> QED
  BY <1>4

LEMMA InitTablesAgree == Init => TablesAgree
<1> SUFFICES ASSUME Init, NEW a \in Addrs
             PROVE  lookup_l1(for_addr(a), a) = IF Section(a) < NumEntries(tt0_boundary)
                                                THEN tt0[Section(a)] ELSE tt1[Section(a)]
  BY DEF TablesAgree
<1> DEFINE size0 == NumEntries(tt0_boundary)
<1>1. PICK bases \in Bases, attrs \in Attributes :
        /\ MappedAt(bases[1], bases[2])
        /\ ttbr0 = bases[1] + attrs /\ ttbr1 = bases[2] + attrs
  BY DEF Init
<1>2. /\ size0 \in 1 .. NumSections /\ attrs \in 0 .. size0 - 1
      /\ bases[1] \in Nat /\ bases[2] \in Nat
  BY MemoryAssumption DEF Init
<1>3. Section(a) \in 0 .. NumSections - 1
  BY SectionType
<1> DEFINE places0 == bases[1] .. bases[1] + size0 - 1
           places1 == bases[2] .. bases[2] + NumSections - 1
<1>4. /\ bases[1] % size0 = 0 /\ bases[2] % NumSections = 0
      /\ places0 \intersect places1 = {}
      /\ descriptors = [p \in places0 \union places1 |->
                          IF p \in places0 THEN tt0[p - bases[1]] ELSE tt1[p - bases[2]]]
  BY <1>1 DEF MappedAt
<1> HIDE DEF size0
<1>5. CASE Section(a) < size0
  <2>1. for_addr(a).ttbr = ttbr0 /\ for_addr(a).num_entries = size0
    BY <1>5 DEF for_addr, virtual_addr_uses_tt0, size0
  <2>2. base_ptr(for_addr(a)) = bases[1]
    <3>1. size0 \in Nat \ {0}
      BY <1>2, Constants
    <3>2. ttbr0 = bases[1] + attrs
      BY <1>1
    <3>3. ttbr0 - (ttbr0 % size0) = bases[1]
      <4>1. bases[1] \in Nat /\ bases[1] % size0 = 0 /\ attrs \in 0 .. size0 - 1
        BY <1>2, <1>4
      <4> QED
        BY <3>1, <3>2, <4>1, BaseWithoutAttributes, Zenon
    <3> QED
      BY <2>1, <3>3, Zenon DEF base_ptr
  <2> DEFINE p == bases[1] + Section(a)
  <2>3. p \in places0 /\ p - bases[1] = Section(a)
    BY <1>2, <1>3, <1>5
  <2> HIDE DEF p, places0, places1
  <2>4. descriptors[p] = tt0[Section(a)]
    BY <1>4, <2>3
  <2> QED
    BY <1>5, <2>2, <2>4 DEF lookup_l1, size0, p
<1>6. CASE ~(Section(a) < size0)
  <2>1. for_addr(a).ttbr = ttbr1 /\ for_addr(a).num_entries = NumSections
    BY <1>6 DEF for_addr, virtual_addr_uses_tt0, size0
  <2>2. base_ptr(for_addr(a)) = bases[2]
    <3>1. NumSections \in Nat \ {0} /\ attrs \in 0 .. NumSections - 1
      BY <1>2, Constants
    <3>2. ttbr1 = bases[2] + attrs
      BY <1>1
    <3>3. ttbr1 - (ttbr1 % NumSections) = bases[2]
      <4>1. bases[2] \in Nat /\ bases[2] % NumSections = 0
        BY <1>2, <1>4
      <4> QED
        BY <3>1, <3>2, <4>1, BaseWithoutAttributes, Zenon
    <3> QED
      BY <2>1, <3>3, Zenon DEF base_ptr
  <2> DEFINE p == bases[2] + Section(a)
  <2>3. p \in places1 /\ p - bases[2] = Section(a)
    <3>1. NumSections \in Nat
      BY Constants
    <3> QED
      BY <1>2, <1>3, <3>1
  <2> HIDE DEF p, places0, places1
  <2>4. descriptors[p] = tt1[Section(a)]
    <3>1. p \notin places0
      BY <1>4, <2>3
    <3> QED
      BY <1>4, <2>3, <3>1
  <2> QED
    BY <1>6, <2>2, <2>4 DEF lookup_l1, size0, p
<1> QED
  BY <1>5, <1>6 DEF size0

\* What the code tests is what the processor checks.
LEMMA CanAccessIsPermitted ==
  ASSUME TablesAgree, NEW a \in Addrs
  PROVE  can_access(a) <=> Permitted(a)
<1> DEFINE d == IF Section(a) < NumEntries(tt0_boundary)
                THEN tt0[Section(a)] ELSE tt1[Section(a)]
<1>1. lookup_l1(for_addr(a), a) = d
  BY DEF TablesAgree
<1> HIDE DEF d
<1>2. can_access(a) <=> /\ d.variant = "Section"
                        /\ IF request.write THEN test_write(d.ap) ELSE test_read(d.ap)
  BY <1>1 DEF can_access
<1>3. Permitted(a) <=> d.variant = "Section" /\ d.ap \in IF request.write THEN 1 .. 3
                                                         ELSE (1 .. 7) \ {4}
  BY DEF Permitted, d
<1>4. test_write(d.ap) <=> d.ap \in 1 .. 3
  BY DEF test_write
<1>5. test_read(d.ap) <=> d.ap \in (1 .. 7) \ {4}
  BY DEF test_read, test_write
<1> QED
  BY <1>2, <1>3, <1>4, <1>5

\* A section has one permission.
LEMMA PermittedBySection ==
  ASSUME NEW a \in Addrs, NEW b \in Addrs, Section(a) = Section(b)
  PROVE  Permitted(a) <=> Permitted(b)
BY DEF Permitted

-----------------------------------------------------------------------------
(* The inductive invariant.                                                *)

\* The walk is at the first byte of a section, or at the end of memory, and
\* has found everything before that accessible.
Walking ==
  phase = "test_access" =>
    /\ range_end = saturating_add(request.start, request.len)
    /\ check_addr % SECTION_SIZE = 0 \/ check_addr = MaxAddr
    /\ request.start < check_addr + SECTION_SIZE
    /\ \A a \in Addrs : request.start <= a /\ a < check_addr => Permitted(a)

Walked == phase = "copy" => LongestRun(Accessible)

Untouched == phase # "done" \/ ~request.write => mem = Contents

AccessInv ==
  /\ TypeOK
  /\ TablesAgree
  /\ Walking
  /\ Walked
  /\ Untouched
  /\ ReadsAllItCan
  /\ WritesAllOrNothing

\* There is one longest run.
LEMMA RunIsLongest ==
  ASSUME request.len \in Nat, NEW n, LongestRun(n), LongestRun(request.len)
  PROVE  n = request.len
BY DEF LongestRun

LEMMA InitEstablishesAccessInv == Init => AccessInv
<1> SUFFICES ASSUME Init PROVE AccessInv
  OBVIOUS
<1>1. TypeOK
  BY Constants, MemoryAssumption DEF Init, TypeOK
<1>2. Walking /\ Walked /\ Untouched /\ ReadsAllItCan /\ WritesAllOrNothing
  BY DEF Init, Walking, Walked, Untouched, ReadsAllItCan, WritesAllOrNothing
<1> QED
  BY <1>1, <1>2, InitTablesAgree DEF AccessInv

\* The request.
LEMMA BeginPreserves ==
  ASSUME AccessInv, NEW write \in BOOLEAN, NEW start \in Addrs, NEW len \in Nat,
         NEW data \in Seq(Int), write => len = Len(data), BeginAccess(write, start, len, data)
  PROVE  AccessInv'
<1> USE DEF AccessInv
<1>1. /\ request' = [write |-> write, start |-> start, len |-> len, data |-> data]
      /\ range_end' = saturating_add(start, len)
      /\ check_addr' = SectionStart(start)
      /\ phase = "idle" /\ phase' = "test_access"
      /\ UNCHANGED <<tables, mem, reply>>
  BY DEF BeginAccess
<1>2. /\ check_addr' \in Addrs /\ check_addr' % SECTION_SIZE = 0
      /\ check_addr' <= start /\ start < check_addr' + SECTION_SIZE
  BY <1>1, SectionStartFacts
<1>3. range_end' \in Addrs
  BY <1>1, Constants DEF saturating_add
<1>4. TypeOK'
  BY <1>1, <1>2, <1>3 DEF TypeOK
<1>5. TablesAgree'
  BY <1>1 DEF TablesAgree, tables, lookup_l1, for_addr, virtual_addr_uses_tt0, base_ptr
<1>6. Walking'
  <2>1. ASSUME NEW a \in Addrs, start <= a, a < check_addr' PROVE FALSE
    BY <1>2, <2>1, Constants
  <2>2. request'.start = start /\ request'.len = len
    BY <1>1
  <2>3. range_end' = saturating_add(request'.start, request'.len)
    BY <1>1, <2>2
  <2> QED
    BY <1>2, <2>1, <2>2, <2>3 DEF Walking, saturating_add
<1>7. Walked' /\ Untouched' /\ ReadsAllItCan' /\ WritesAllOrNothing'
  BY <1>1 DEF Walked, Untouched, ReadsAllItCan, WritesAllOrNothing
<1> QED
  BY <1>4, <1>5, <1>6, <1>7

\* A section of the walk.
LEMMA WalkPreserves ==
  ASSUME AccessInv, test_access
  PROVE  AccessInv'
<1> USE DEF AccessInv
<1>1. UNCHANGED <<tables, mem, request, reply>> /\ phase = "test_access"
  BY DEF test_access
<1> DEFINE start == request.start
           len == request.len
<1>2. /\ start \in Addrs /\ len \in Nat /\ range_end \in Addrs /\ check_addr \in Addrs
      /\ range_end = saturating_add(start, len)
      /\ check_addr % SECTION_SIZE = 0 \/ check_addr = MaxAddr
      /\ start < check_addr + SECTION_SIZE
      /\ \A a \in Addrs : start <= a /\ a < check_addr => Permitted(a)
  BY <1>1 DEF TypeOK, Walking
<1>3. TablesAgree'
  BY <1>1 DEF TablesAgree, tables, lookup_l1, for_addr, virtual_addr_uses_tt0, base_ptr
<1>4. \A a : Permitted(a)' <=> Permitted(a)
  BY <1>1 DEF Permitted, tables
<1>5. \A n : LongestRun(n)' <=> LongestRun(n)
  BY <1>1, <1>4 DEF LongestRun, InReach
<1>6. phase' \in {"test_access", "copy"} /\ Untouched' /\ ReadsAllItCan' /\ WritesAllOrNothing'
  BY <1>1 DEF test_access, Untouched, ReadsAllItCan, WritesAllOrNothing
<1> HIDE DEF start, len
<1>7. check_addr < range_end =>
        \A a \in Addrs : check_addr <= a /\ a < check_addr + SECTION_SIZE =>
          (Permitted(a) <=> can_access(check_addr))
  <2> SUFFICES ASSUME check_addr < range_end, NEW a \in Addrs,
                      check_addr <= a, a < check_addr + SECTION_SIZE
               PROVE  Permitted(a) <=> can_access(check_addr)
    OBVIOUS
  <2>1. check_addr % SECTION_SIZE = 0
    BY <1>2, Constants
  <2>2. Section(a) = Section(check_addr)
    BY <1>2, <2>1, SameSection
  <2> QED
    BY <1>2, <2>2, CanAccessIsPermitted, PermittedBySection
<1>8. CASE check_addr < range_end /\ can_access(check_addr)
  <2>1. /\ check_addr' = saturating_add(check_addr, SECTION_SIZE)
        /\ phase' = phase /\ range_end' = range_end
    BY <1>2, <1>8, Constants DEF test_access
  <2>2. check_addr' \in Addrs /\ start < check_addr' + SECTION_SIZE
    BY <1>2, <2>1, Constants DEF saturating_add
  <2>3. check_addr' % SECTION_SIZE = 0 \/ check_addr' = MaxAddr
    <3>1. check_addr % SECTION_SIZE = 0
      BY <1>2, <1>8, Constants
    <3>2. (check_addr + SECTION_SIZE) % SECTION_SIZE = 0
      BY <1>2, <3>1, NextAligned
    <3> QED
      BY <2>1, <3>2, Zenon DEF saturating_add
  <2>4. \A a \in Addrs : start <= a /\ a < check_addr' => Permitted(a)
    BY <1>2, <1>7, <1>8, <2>1, Constants DEF saturating_add
  <2>5. TypeOK'
    BY <1>1, <2>1, <2>2 DEF TypeOK
  <2>6. Walking'
    BY <1>1, <1>2, <1>4, <2>1, <2>2, <2>3, <2>4, Zenon DEF Walking, saturating_add, start, len
  <2>7. Walked'
    BY <1>1, <2>1 DEF Walked
  <2> QED
    BY <1>3, <1>6, <2>5, <2>6, <2>7
<1>9. CASE check_addr < range_end /\ ~can_access(check_addr)
  <2>1. check_addr' = check_addr /\ phase' = "copy" /\ range_end' = check_addr
    BY <1>2, <1>9, Constants DEF test_access
  <2>2. TypeOK'
    BY <1>1, <1>2, <2>1 DEF TypeOK
  <2> DEFINE n == IF check_addr < start THEN 0 ELSE check_addr - start
  <2>3. LongestRun(n)
    <3>1. n \in 0 .. len
      BY <1>2, <1>9, Constants DEF saturating_add
    <3>2. \A i \in 0 .. n - 1 : InReach(start + i)
      <4> SUFFICES ASSUME NEW i \in 0 .. n - 1 PROVE InReach(start + i)
        OBVIOUS
      <4>1. start + i \in Addrs /\ start + i < check_addr /\ start + i >= start
            /\ start + i < MaxAddr
        BY <1>2, Constants
      <4> QED
        BY <1>2, <4>1 DEF InReach
    <3>3. n < len => ~InReach(start + n)
      <4> SUFFICES ~Permitted(start + n)
        BY DEF InReach
      <4>1. /\ start + n \in Addrs /\ check_addr <= start + n
            /\ start + n < check_addr + SECTION_SIZE
        BY <1>2, Constants
      <4> QED
        BY <1>7, <1>9, <4>1
    <3> QED
      BY <3>1, <3>2, <3>3 DEF LongestRun, start, len
  <2>4. Accessible' = n
    BY <1>1, <2>1 DEF Accessible, start
  <2>5. Walked' /\ Walking'
    BY <1>5, <2>1, <2>3, <2>4 DEF Walked, Walking
  <2> QED
    BY <1>3, <1>6, <2>2, <2>5
<1>10. CASE check_addr >= range_end
  <2>1. UNCHANGED <<check_addr, range_end>> /\ phase' = "copy"
    BY <1>2, <1>10, Constants DEF test_access
  <2>2. TypeOK'
    BY <1>1, <1>2, <2>1 DEF TypeOK
  <2> DEFINE n == range_end - start
  <2>3. LongestRun(n)
    <3>1. n \in 0 .. len /\ start + n = range_end
      BY <1>2, Constants DEF saturating_add
    <3>2. \A i \in 0 .. n - 1 : InReach(start + i)
      <4> SUFFICES ASSUME NEW i \in 0 .. n - 1 PROVE InReach(start + i)
        OBVIOUS
      <4>1. start + i \in Addrs /\ start + i < check_addr /\ start + i >= start
            /\ start + i < MaxAddr
        BY <1>2, <1>10, Constants
      <4> QED
        BY <1>2, <4>1 DEF InReach
    <3>3. n < len => ~InReach(start + n)
      <4>1. n < len => start + n = MaxAddr
        BY <1>2, <3>1, Constants DEF saturating_add
      <4> QED
        BY <4>1, Constants DEF InReach
    <3> QED
      BY <3>1, <3>2, <3>3 DEF LongestRun, start, len
  <2>4. Accessible' = n
    BY <1>1, <1>2, <2>1, Constants DEF Accessible, start, saturating_add
  <2>5. Walked' /\ Walking'
    BY <1>5, <2>1, <2>3, <2>4 DEF Walked, Walking
  <2> QED
    BY <1>3, <1>6, <2>2, <2>5
<1> QED
  BY <1>2, <1>8, <1>9, <1>10, Constants

\* The copy of a read.
LEMMA ReadPreserves ==
  ASSUME AccessInv, read_addrs
  PROVE  AccessInv'
<1> USE DEF AccessInv
<1>1. /\ UNCHANGED <<tables, mem, request, range_end, check_addr>>
      /\ phase = "copy" /\ ~request.write /\ phase' = "done"
      /\ reply' = IF Accessible = 0
                  THEN [errno |-> "EFAULT", data |-> <<>>]
                  ELSE [errno |-> "ok",
                        data |-> [i \in 1 .. Accessible |-> mem[request.start + i - 1]]]
  BY DEF read_addrs
<1> DEFINE n == Accessible
<1>2. LongestRun(n)
  BY <1>1 DEF Walked
<1> HIDE DEF n
<1>3. n \in 0 .. request.len /\ n \in Nat /\ request.len \in Nat /\ request.start \in Addrs
  BY <1>2 DEF LongestRun, TypeOK
<1>4. \A i \in 1 .. n : request.start + i - 1 \in Addrs
  <2> SUFFICES ASSUME NEW i \in 1 .. n PROVE request.start + i - 1 \in Addrs
    OBVIOUS
  <2>1. i - 1 \in 0 .. n - 1 /\ request.start + i - 1 = request.start + (i - 1)
    BY <1>3, Constants
  <2>2. request.start + (i - 1) < MaxAddr
    BY <1>2, <2>1 DEF LongestRun, InReach
  <2> QED
    BY <1>3, <2>1, <2>2, Constants
<1> DEFINE bytes == [i \in 1 .. n |-> mem[request.start + i - 1]]
<1>5. bytes \in Seq(Int) /\ (n = 0 => bytes = <<>>)
  <2>1. mem \in [Addrs -> Int]
    BY DEF TypeOK
  <2>2. \A i \in 1 .. n : mem[request.start + i - 1] \in Int
    BY <1>4, <2>1
  <2> QED
    BY <1>3, <2>2
<1>6. reply' = [errno |-> IF n = 0 THEN "EFAULT" ELSE "ok", data |-> bytes]
  BY <1>1, <1>5 DEF n
<1>7. TypeOK'
  <2>1. reply' \in [errno : {"none", "ok", "EFAULT"}, data : Seq(Int)]
    BY <1>5, <1>6
  <2> HIDE DEF bytes
  <2> QED
    BY <1>1, <2>1 DEF TypeOK
<1>8. TablesAgree' /\ Walking' /\ Walked' /\ Untouched' /\ WritesAllOrNothing'
  <2>1. TablesAgree'
    BY <1>1 DEF TablesAgree, tables, lookup_l1, for_addr, virtual_addr_uses_tt0, base_ptr
  <2> QED
    BY <1>1, <2>1 DEF Walking, Walked, Untouched, WritesAllOrNothing
<1>9. ReadsAllItCan'
  <2>2. \A m : LongestRun(m)' <=> LongestRun(m)
    BY <1>1 DEF LongestRun, InReach, Permitted, tables
  <2>3. /\ n \in 0 .. request'.len
        /\ reply' = [errno |-> IF n = 0 THEN "EFAULT" ELSE "ok",
                     data |-> [i \in 1 .. n |-> mem'[request'.start + i - 1]]]
    BY <1>1, <1>3, <1>6
  <2>4. PICK m : m = n
    OBVIOUS
  <2>5. LongestRun(m)'
    BY <1>2, <2>2, <2>4
  <2>6. \E k \in 0 .. request'.len :
           /\ LongestRun(k)'
           /\ reply' = [errno |-> IF k = 0 THEN "EFAULT" ELSE "ok",
                        data |-> [i \in 1 .. k |-> mem'[request'.start + i - 1]]]
    BY <2>3, <2>4, <2>5
  <2> QED
    BY <2>6 DEF ReadsAllItCan
<1> QED
  BY <1>7, <1>8, <1>9

\* The copy of a write, or its refusal.
LEMMA WritePreserves ==
  ASSUME AccessInv, write_addrs
  PROVE  AccessInv'
<1> USE DEF AccessInv
<1>1. /\ UNCHANGED <<tables, request, range_end, check_addr>>
      /\ phase = "copy" /\ request.write /\ phase' = "done"
  BY DEF write_addrs
<1>2. LongestRun(Accessible) /\ mem = Contents
  BY <1>1 DEF Walked, Untouched
<1>3. /\ Accessible \in 0 .. request.len /\ request.len \in Nat /\ request.start \in Addrs
      /\ request.data \in Seq(Int) /\ request.len = Len(request.data) /\ mem \in [Addrs -> Int]
  BY <1>1, <1>2 DEF LongestRun, TypeOK
<1>4. AllWritable <=> Accessible = request.len
  BY <1>3 DEF AllWritable
<1>5. AllWritable <=> LongestRun(request.len)
  BY <1>2, <1>3, <1>4, RunIsLongest
<1>6. LongestRun(request.len)' <=> LongestRun(request.len)
  BY <1>1 DEF LongestRun, InReach, Permitted, tables
<1>7. TablesAgree' /\ Walking' /\ Walked' /\ Untouched' /\ ReadsAllItCan'
  <2>1. TablesAgree'
    BY <1>1 DEF TablesAgree, tables, lookup_l1, for_addr, virtual_addr_uses_tt0, base_ptr
  <2> QED
    BY <1>1, <2>1 DEF Walking, Walked, Untouched, ReadsAllItCan
<1>8. CASE AllWritable
  <2> DEFINE Written == request.start .. request.start + request.len - 1
             changed == [a \in Addrs |-> IF a \in Written
                                         THEN request.data[a - request.start + 1] ELSE mem[a]]
  <2>1. mem' = changed /\ reply' = [errno |-> "ok", data |-> <<>>]
    BY <1>3, <1>4, <1>8 DEF write_addrs
  <2>2. changed \in [Addrs -> Int]
    <3> SUFFICES ASSUME NEW a \in Addrs, a \in Written
                 PROVE  request.data[a - request.start + 1] \in Int
      BY <1>3
    <3>1. a - request.start + 1 \in 1 .. Len(request.data)
      BY <1>3, Constants
    <3> QED
      BY <1>3, <3>1
  <2>3. TypeOK'
    BY <1>1, <2>1, <2>2 DEF TypeOK
  <2>4. WritesAllOrNothing'
    <3>1. mem' = [a \in Addrs |-> IF a \in Written
                                  THEN request.data[a - request.start + 1] ELSE Contents[a]]
      BY <1>2, <2>1
    <3> QED
      BY <1>1, <1>5, <1>6, <1>8, <2>1, <3>1 DEF WritesAllOrNothing
  <2> QED
    BY <1>7, <2>3, <2>4
<1>9. CASE ~AllWritable
  <2>1. mem' = mem /\ reply' = [errno |-> "EFAULT", data |-> <<>>]
    BY <1>9 DEF write_addrs
  <2>2. TypeOK'
    BY <1>1, <2>1 DEF TypeOK
  <2>3. WritesAllOrNothing'
    BY <1>1, <1>2, <1>5, <1>6, <1>9, <2>1 DEF WritesAllOrNothing
  <2> QED
    BY <1>7, <2>2, <2>3
<1> QED
  BY <1>8, <1>9

LEMMA NextPreservesAccessInv ==
  ASSUME AccessInv, [Next]_vars
  PROVE  AccessInv'
<1>1. CASE UNCHANGED vars
  <2> USE <1>1 DEF vars, tables, AccessInv
  <2>1. TypeOK' /\ Untouched'
    BY DEF TypeOK, Untouched
  <2>2. TablesAgree'
    BY DEF TablesAgree, lookup_l1, for_addr, virtual_addr_uses_tt0, base_ptr
  <2>3. Walking' /\ Walked'
    BY DEF Walking, Walked, LongestRun, InReach, Permitted, Accessible
  <2>4. ReadsAllItCan' /\ WritesAllOrNothing'
    BY DEF ReadsAllItCan, WritesAllOrNothing, LongestRun, InReach, Permitted
  <2> QED
    BY <2>1, <2>2, <2>3, <2>4
<1>2. CASE \E start \in Addrs, len \in Lengths : BeginAccess(FALSE, start, len, <<>>)
  <2>1. PICK start \in Addrs, len \in Lengths : BeginAccess(FALSE, start, len, <<>>)
    BY <1>2
  <2>2. len \in Nat /\ <<>> \in Seq(Int)
    BY MemoryAssumption
  <2> QED
    BY <2>1, <2>2, BeginPreserves
<1>3. CASE \E start \in Addrs, data \in Data : BeginAccess(TRUE, start, Len(data), data)
  <2>1. PICK start \in Addrs, data \in Data : BeginAccess(TRUE, start, Len(data), data)
    BY <1>3
  <2>2. data \in Seq(Int) /\ Len(data) \in Nat
    BY MemoryAssumption
  <2> QED
    BY <2>1, <2>2, BeginPreserves
<1>4. CASE test_access \/ read_addrs \/ write_addrs
  BY <1>4, WalkPreserves, ReadPreserves, WritePreserves
<1> QED
  BY <1>1, <1>2, <1>3, <1>4 DEF Next

-----------------------------------------------------------------------------
(***************************************************************************)
(* The inductive invariant holds in every reachable state.                 *)
(***************************************************************************)
THEOREM AccessInvHolds == Spec => []AccessInv
<1> QED
  BY InitEstablishesAccessInv, NextPreservesAccessInv, PTL DEF Spec

(***************************************************************************)
(* A read returns exactly the bytes up to the first that would fault       *)
(* (read_memory).                                                          *)
(***************************************************************************)
THEOREM ReadsAreExact == Spec => []ReadsAllItCan
<1>1. AccessInv => ReadsAllItCan
  BY DEF AccessInv
<1> QED
  BY <1>1, AccessInvHolds, PTL

(***************************************************************************)
(* A write is done entirely or refused entirely (write_memory).            *)
(***************************************************************************)
THEOREM WritesAreAtomic == Spec => []WritesAllOrNothing
<1>1. AccessInv => WritesAllOrNothing
  BY DEF AccessInv
<1> QED
  BY <1>1, AccessInvHolds, PTL
=============================================================================
