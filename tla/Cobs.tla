-------------------------------- MODULE Cobs --------------------------------
(***************************************************************************)
(* Consistent Overhead Byte Stuffing, as src/src/transport/mux.rs encodes  *)
(* and src/cli/src/bin/v5gdb.rs decodes with the crate `cobs`.  The crate  *)
(* is not part of the repository: this is how they use it.                 *)
(*                                                                         *)
(* A frame is a sequence of blocks; a block is its code, one more than its *)
(* length, and that many bytes that are not zero.  A zero of the payload   *)
(* is the end of a block that is not full.  The byte is scaled with the    *)
(* longest block: 0 to MaxRun + 1, as 0 to 255 with blocks of 254.         *)
(***************************************************************************)
EXTENDS Integers, SequencesExt

CONSTANT MaxRun     \* the length of a full block: 254

ASSUME CobsAssumption == MaxRun \in Nat \ {0}

Byte == 0 .. MaxRun + 1

FullBlock == MaxRun + 1

\* The block that begins at position i: it ends before a zero, at the end of
\* the bytes, or when it is full.
BlockAt(bytes, i) ==
  LET ends == {j \in i - 1 .. Len(bytes) :
                 j = Len(bytes) \/ j = i + MaxRun - 1 \/ bytes[j + 1] = 0}
  IN  SubSeq(bytes, i, Min(ends))

\* CobsEncoder::push of every byte, and finalize: the frame of the bytes from
\* each position on.  After a full block the next one has no zero in front of
\* it, and with no bytes left it is not there.
EncodedFrom(bytes) ==
  LET from[i \in 1 .. Len(bytes) + 1] ==
        LET block == BlockAt(bytes, i)
            next  == i + Len(block)
        IN  <<Len(block) + 1>> \o block \o
              IF next > Len(bytes) THEN <<>>
              ELSE from[IF Len(block) = MaxRun THEN next ELSE next + 1]
  IN  from

Encode(bytes) == EncodedFrom(bytes)[1]

\* Whether what begins with the code at i is blocks to the end.
WholeFrom(bytes) ==
  LET whole[i \in 1 .. Len(bytes)] ==
        LET next == i + bytes[i]
        IN  next = Len(bytes) + 1 \/ (next <= Len(bytes) /\ whole[next])
  IN  whole

\* What the bytes of such a frame, without its delimiter, decode to from the
\* code at i on: a block that is neither full nor the last stands for its zero.
DecodedFrom(bytes) ==
  LET decoded[i \in 1 .. Len(bytes)] ==
        LET next  == i + bytes[i]
            block == SubSeq(bytes, i + 1, next - 1)
            zero  == IF bytes[i] = FullBlock THEN <<>> ELSE <<0>>
        IN  IF next > Len(bytes) THEN block ELSE block \o zero \o decoded[next]
  IN  decoded

Decode(bytes) == DecodedFrom(bytes)[1]

\* CobsDecoderOwned::push up to the first byte at which it does not answer that
\* it needs more.  Zeros before a frame are skipped; a zero in place of a code
\* ends the frame, a zero elsewhere is an error.  Its buffer is as long as the
\* ring and is taken to suffice.
Push(bytes) ==
  LET starts == {i \in 1 .. Len(bytes) : bytes[i] # 0}
      start  == Min(starts)
      zeros  == {i \in 1 .. Len(bytes) : i > start /\ bytes[i] = 0}
      body   == SubSeq(bytes, start, Min(zeros) - 1)
  IN  IF starts = {} \/ zeros = {} THEN [status |-> "more"]
      ELSE IF WholeFrom(body)[1] THEN [status |-> "frame", parsed |-> Min(zeros), packet |-> Decode(body)]
      ELSE [status |-> "error"]
=============================================================================
