--------------------------- MODULE MCMemoryAccess ---------------------------
(***************************************************************************)
(* Four sections of two bytes, so that requests cover up to three of them  *)
(* and meet the borders of sections, of the tables and of memory.          *)
(***************************************************************************)
EXTENDS MemoryAccess

Unmapped == [variant |-> "Invalid", ap |-> 3]
ReadOnly == [variant |-> "Section", ap |-> 5]
Writable == [variant |-> "Section", ap |-> 1]
Paged == [variant |-> "PageTable", ap |-> 3]
Reserved == [variant |-> "Section", ap |-> 4]
NoAccess == [variant |-> "Section", ap |-> 0]
AllRead == [variant |-> "Section", ap |-> 7]

MCMappings ==
  [0 .. 3 -> {Unmapped, ReadOnly, Writable}] \X
    {[s \in 0 .. 3 |-> IF s = 2 THEN ReadOnly ELSE Writable],
     [s \in 0 .. 3 |-> IF s = 3 THEN Reserved ELSE AllRead],
     [s \in 0 .. 3 |-> IF s = 2 THEN Paged ELSE IF s = 3 THEN NoAccess ELSE Writable]}
MCBases == {<<0, 4>>, <<2, 4>>, <<4, 0>>}
MCContents == [a \in Addrs |-> a]
MCData == {<<>>, <<20>>, <<20, 21>>, <<20, 21, 22>>, <<20, 21, 22, 23, 24>>}
=============================================================================
