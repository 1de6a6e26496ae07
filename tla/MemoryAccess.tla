---------------------------- MODULE MemoryAccess ----------------------------
(***************************************************************************)
(* GDB's reads and writes of memory, and the walk over the translation     *)
(* tables that says how much of a range the debugger may touch             *)
(* (src/src/gdb_target/memory.rs, src/src/cpu/vmsa.rs).                    *)
(*                                                                         *)
(* tt0 and tt1 are what the system has mapped; the processor consults tt0  *)
(* where the upper TTBCR.N bits of an address are zero and tt1 elsewhere.  *)
(* The code goes by the registers and the descriptors in physical memory.  *)
(* Physical addresses count descriptors here, and the attributes in the    *)
(* lower bits of a base register are a number below the size of a table.   *)
(* Assumed: domains are Clients, so that permissions are checked; TTBCR    *)
(* disables no walk; no write changes a descriptor.                        *)
(***************************************************************************)
EXTENDS Integers, Sequences

CONSTANTS
  SECTION_SIZE,
  NumSections,      \* 4096: addresses have 32 bits
  Boundaries,       \* the values of TTBCR.N
  Attributes,       \* the lower bits of the base registers
  Bases,            \* where tt0 and tt1 may be, as pairs
  Mappings,         \* what the system may have mapped, as pairs
  Contents,         \* what memory holds at first
  Lengths,          \* how much GDB reads
  Data              \* what GDB writes

Addrs == 0 .. SECTION_SIZE * NumSections - 1
MaxAddr == SECTION_SIZE * NumSections - 1

\* Each bit of the boundary halves the table.
NumEntries(n) == NumSections \div 2 ^ n

Descriptor == [variant : {"Invalid", "PageTable", "Section"}, ap : 0 .. 7]

ASSUME MemoryAssumption ==
  /\ {SECTION_SIZE, NumSections} \subseteq Nat \ {0}
  /\ \A n \in Boundaries : NumEntries(n) \in 1 .. NumSections
  /\ \A n \in Boundaries, a \in Attributes : a \in 0 .. NumEntries(n) - 1
  /\ Bases \subseteq Nat \X Nat
  /\ Mappings \subseteq [0 .. NumSections - 1 -> Descriptor] \X [0 .. NumSections - 1 -> Descriptor]
  /\ Contents \in [Addrs -> Int]
  /\ Lengths \subseteq Nat
  /\ Data \subseteq Seq(Int)

VARIABLES
  tt0_boundary, ttbr0, ttbr1,   \* the registers
  descriptors,                  \* physical memory, where the tables are
  tt0, tt1,                     \* what the system has mapped
  mem,                          \* the bytes at the virtual addresses
  phase,
  request,                      \* what GDB asked for
  range_end, check_addr,        \* test_access
  reply

tables == <<tt0_boundary, ttbr0, ttbr1, descriptors, tt0, tt1>>
vars == <<tables, mem, phase, request, range_end, check_addr, reply>>

\* The tables as the system has set them up, each aligned to its size.
MappedAt(base0, base1) ==
  LET size0 == NumEntries(tt0_boundary)
      places0 == base0 .. base0 + size0 - 1
      places1 == base1 .. base1 + NumSections - 1
  IN  /\ base0 % size0 = 0 /\ base1 % NumSections = 0
      /\ places0 \intersect places1 = {}
      /\ descriptors = [p \in places0 \union places1 |->
                          IF p \in places0 THEN tt0[p - base0] ELSE tt1[p - base1]]

Init ==
  /\ tt0_boundary \in Boundaries
  /\ \E mapping \in Mappings : tt0 = mapping[1] /\ tt1 = mapping[2]
  /\ \E bases \in Bases, attrs \in Attributes :
       /\ MappedAt(bases[1], bases[2])
       /\ ttbr0 = bases[1] + attrs
       /\ ttbr1 = bases[2] + attrs
  /\ mem = Contents
  /\ phase = "idle"
  /\ request = [write |-> FALSE, start |-> 0, len |-> 0, data |-> <<>>]
  /\ range_end = 0
  /\ check_addr = 0
  /\ reply = [errno |-> "none", data |-> <<>>]

-----------------------------------------------------------------------------
(* The translation tables.                                                 *)

Section(addr) == addr \div SECTION_SIZE

virtual_addr_uses_tt0(addr) == Section(addr) < NumEntries(tt0_boundary)

\* The table for an address: tt1 always has all the entries.
for_addr(addr) ==
  IF virtual_addr_uses_tt0(addr)
  THEN [ttbr |-> ttbr0, num_entries |-> NumEntries(tt0_boundary)]
  ELSE [ttbr |-> ttbr1, num_entries |-> NumSections]

\* A table is aligned to its size: the bits below are the attributes.
base_ptr(tt) == tt.ttbr - (tt.ttbr % tt.num_entries)

\* The assertions of lookup_l1 say that for_addr chose the table right.
lookup_l1(tt, addr) == descriptors[base_ptr(tt) + Section(addr)]

\* AccessPermissions; 4 is reserved and grants nothing.
test_write(ap) == ap \in {1, 2, 3}
test_read(ap) == test_write(ap) \/ ap \in {5, 6, 7}

\* Pages are not looked into.
can_access(addr) ==
  LET descriptor == lookup_l1(for_addr(addr), addr)
  IN  /\ descriptor.variant = "Section"
      /\ IF request.write THEN test_write(descriptor.ap) ELSE test_read(descriptor.ap)

-----------------------------------------------------------------------------
(* A request.                                                              *)

saturating_add(a, b) == IF a + b > MaxAddr THEN MaxAddr ELSE a + b

\* Faulty variant: the walk begins at the range's start, in a section's middle.
Unmasked(addr) == addr

\* addr & SECTION_MASK
SectionStart(addr) == addr - (addr % SECTION_SIZE)

\* read_memory and write_memory up to the loop of test_access.
BeginAccess(write, start, len, data) ==
  /\ phase = "idle"
  /\ request' = [write |-> write, start |-> start, len |-> len, data |-> data]
  /\ range_end' = saturating_add(start, len)
  /\ check_addr' = SectionStart(start)
  /\ phase' = "test_access"
  /\ UNCHANGED <<tables, mem, reply>>

test_access ==
  /\ phase = "test_access"
  /\ \/ /\ check_addr < range_end /\ can_access(check_addr)
        /\ check_addr' = saturating_add(check_addr, SECTION_SIZE)
        /\ UNCHANGED <<phase, range_end>>
     \/ /\ check_addr < range_end /\ ~can_access(check_addr)
        /\ range_end' = check_addr
        /\ phase' = "copy"
        /\ UNCHANGED check_addr
     \/ /\ check_addr >= range_end
        /\ phase' = "copy"
        /\ UNCHANGED <<range_end, check_addr>>
  /\ UNCHANGED <<tables, mem, request, reply>>

\* How many bytes of the range are accessible.
Accessible == IF range_end < request.start THEN 0 ELSE range_end - request.start

\* Faulty variant: what is writable is written, however little.
SomeWritable == Accessible > 0

AllWritable == Accessible >= request.len

read_addrs ==
  /\ phase = "copy" /\ ~request.write
  /\ reply' = IF Accessible = 0
              THEN [errno |-> "EFAULT", data |-> <<>>]
              ELSE [errno |-> "ok",
                    data |-> [i \in 1 .. Accessible |-> mem[request.start + i - 1]]]
  /\ phase' = "done"
  /\ UNCHANGED <<tables, mem, request, range_end, check_addr>>

write_addrs ==
  /\ phase = "copy" /\ request.write
  /\ \/ /\ AllWritable
        /\ mem' = [a \in Addrs |-> IF a \in request.start .. request.start + Accessible - 1
                                   THEN request.data[a - request.start + 1]
                                   ELSE mem[a]]
        /\ reply' = [errno |-> "ok", data |-> <<>>]
     \/ /\ ~AllWritable
        /\ reply' = [errno |-> "EFAULT", data |-> <<>>]
        /\ UNCHANGED mem
  /\ phase' = "done"
  /\ UNCHANGED <<tables, request, range_end, check_addr>>

-----------------------------------------------------------------------------

Next ==
  \/ \E start \in Addrs, len \in Lengths : BeginAccess(FALSE, start, len, <<>>)
  \/ \E start \in Addrs, data \in Data : BeginAccess(TRUE, start, Len(data), data)
  \/ test_access \/ read_addrs \/ write_addrs

Spec == Init /\ [][Next]_vars

-----------------------------------------------------------------------------
(* Properties.                                                             *)

TypeOK ==
  /\ phase \in {"idle", "test_access", "copy", "done"}
  /\ request \in [write : BOOLEAN, start : Addrs, len : Nat, data : Seq(Int)]
  /\ request.write => request.len = Len(request.data)
  /\ {range_end, check_addr} \subseteq Addrs
  /\ mem \in [Addrs -> Int]
  /\ reply \in [errno : {"none", "ok", "EFAULT"}, data : Seq(Int)]

\* What the processor allows the debugger at an address: the permissions are
\* those of the table the address belongs to.
Permitted(addr) ==
  LET d == IF Section(addr) < NumEntries(tt0_boundary)
           THEN tt0[Section(addr)] ELSE tt1[Section(addr)]
  IN  d.variant = "Section" /\ d.ap \in IF request.write THEN 1 .. 3 ELSE (1 .. 7) \ {4}

\* The last byte of the address space is out of the range's reach.
InReach(addr) == addr < MaxAddr /\ Permitted(addr)

\* The longest run of bytes from the start that do not fault.
LongestRun(n) ==
  /\ n \in 0 .. request.len
  /\ \A i \in 0 .. n - 1 : InReach(request.start + i)
  /\ n < request.len => ~InReach(request.start + n)

\* A read returns the bytes up to the first that would fault, over any number
\* of sections and the border of the two tables, and fails if that is the
\* first: "how many bytes can be written to or read from without faulting"
\* (memory.rs:47).
ReadsAllItCan ==
  phase = "done" /\ ~request.write =>
    \E n \in 0 .. request.len :
      /\ LongestRun(n)
      /\ reply = [errno |-> IF n = 0 THEN "EFAULT" ELSE "ok",
                  data |-> [i \in 1 .. n |-> mem[request.start + i - 1]]]

\* A write changes all of its range and nothing else, or nothing at all, and
\* GDB is told which (memory.rs:28-45, gdb_target/mod.rs:448-456).
WritesAllOrNothing ==
  phase = "done" /\ request.write =>
    LET Written == request.start .. request.start + request.len - 1
    IN  IF LongestRun(request.len)
        THEN /\ reply.errno = "ok"
             /\ mem = [a \in Addrs |-> IF a \in Written
                                       THEN request.data[a - request.start + 1]
                                       ELSE Contents[a]]
        ELSE reply.errno = "EFAULT" /\ mem = Contents
=============================================================================
