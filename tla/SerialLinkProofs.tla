-------------------------- MODULE SerialLinkProofs --------------------------
(***************************************************************************)
(* What holds of the serial link for any ring, any blocks and whatever is  *)
(* written and typed.                                                      *)
(***************************************************************************)
EXTENDS SerialLink, SequenceTheorems, WellFoundedInduction, TLAPS

(***************************************************************************)
(* Induction downwards over the positions of a sequence, for a set of      *)
(* positions: what COBS makes of a position it makes from later ones.      *)
(***************************************************************************)
LEMMA DownwardInduction ==
  ASSUME NEW n \in Nat, NEW S,
         \A l \in 1 .. n : (\A k \in l + 1 .. n : k \in S) => l \in S
  PROVE  \A l \in 1 .. n : l \in S
<1> DEFINE T == {k \in Nat : k < n /\ n - k \notin S}
<1>1. SUFFICES ASSUME T # {} PROVE FALSE
  <2> SUFFICES ASSUME NEW l \in 1 .. n, l \notin S PROVE FALSE
    OBVIOUS
  <2>1. n - l \in Nat /\ n - l < n /\ n - (n - l) = l
    OBVIOUS
  <2> QED
    BY <1>1, <2>1
<1>2. T \subseteq Nat
  OBVIOUS
<1>3. PICK m \in T : \A k \in T : ~(<<k, m>> \in OpToRel(<, Nat))
  BY <1>1, <1>2, NatLessThanWellFounded, WFMin
<1>4. \A k \in T : ~(k < m)
  BY <1>2, <1>3 DEF OpToRel
<1>5. m \in Nat /\ m < n /\ n - m \notin S /\ n - m \in 1 .. n
  OBVIOUS
<1>6. ASSUME NEW k \in n - m + 1 .. n PROVE k \in S
  <2>1. n - k \in Nat /\ n - k < m /\ n - k < n /\ n - (n - k) = k
    BY <1>5
  <2>2. n - k \notin T
    BY <1>4, <2>1
  <2> QED
    BY <2>1, <2>2
<1> QED
  BY <1>5, <1>6

(***************************************************************************)
(* Min and Max name members of the sets they are used on.                  *)
(***************************************************************************)
LEMMA MinMember ==
  ASSUME NEW S \in SUBSET Nat, S # {}
  PROVE  Min(S) \in S /\ \A other \in S : Min(S) <= other
<1>1. PICK m \in S : \A other \in S : ~(<<other, m>> \in OpToRel(<, Nat))
  BY NatLessThanWellFounded, WFMin
<1>2. \A other \in S : ~(other < m)
  BY <1>1 DEF OpToRel
<1>3. \A other \in S : m <= other
  BY <1>2
<1> QED
  BY <1>3 DEF Min

LEMMA MaxMember ==
  ASSUME NEW n \in Nat, NEW S \in SUBSET (0 .. n), S # {}
  PROVE  Max(S) \in S
<1> DEFINE T == {n - k : k \in S}
<1>1. T \in SUBSET Nat /\ T # {}
  <2>1. \A k \in S : n - k \in Nat
    OBVIOUS
  <2>2. T \subseteq Nat
    BY <2>1
  <2>3. T # {}
    OBVIOUS
  <2> QED
    BY <2>2, <2>3
<1>2. Min(T) \in T /\ \A other \in T : Min(T) <= other
  BY <1>1, MinMember
<1>3. PICK m \in S : Min(T) = n - m
  BY <1>2
<1>4. \A other \in S : n - m <= n - other
  BY <1>2, <1>3
<1>5. \A other \in S : m >= other
  BY <1>4
<1> QED
  BY <1>5 DEF Max

LEMMA MinOfTwo ==
  ASSUME NEW a \in Nat, NEW b \in Nat
  PROVE  Min({a, b}) = IF a <= b THEN a ELSE b
<1>1. Min({a, b}) \in {a, b} /\ \A other \in {a, b} : Min({a, b}) <= other
  BY MinMember
<1> QED
  BY <1>1

(***************************************************************************)
(* The bytes an encoding is made of.                                       *)
(***************************************************************************)
NonZero == Byte \ {0}

(***************************************************************************)
(* Sequences of bytes: how they are joined.                                *)
(***************************************************************************)
LEMMA Joining ==
  /\ <<>> \in Seq(Byte)
  /\ \A s \in Seq(Byte) : s \o <<>> = s /\ <<>> \o s = s
  /\ \A s, t \in Seq(Byte) : s \o t \in Seq(Byte)
<1>1. \A s \in Seq(Byte) : s \o <<>> = s /\ <<>> \o s = s
  BY ConcatEmptySeq
<1>2. \A s, t \in Seq(Byte) : s \o t \in Seq(Byte)
  BY ConcatProperties
<1> QED
  BY <1>1, <1>2, EmptySeq

LEMMA JoinEmpty == \A s, t \in Seq(Byte) : s \o t = <<>> => s = <<>>
  BY ConcatEqualIffEmpty

LEMMA Regroup == \A s, t, u \in Seq(Byte) : (s \o t) \o u = s \o (t \o u)
  BY ConcatAssociative

(***************************************************************************)
(* COBS.  A block is as long as it may be: it has no zero, is at most full *)
(* and ends before a zero unless it is full or nothing is left.            *)
(***************************************************************************)
LEMMA BlockFacts ==
  ASSUME NEW bytes \in Seq(Byte), NEW i \in 1 .. Len(bytes) + 1,
         NEW block, block = BlockAt(bytes, i)
  PROVE  /\ block \in Seq(NonZero)
         /\ Len(block) \in 0 .. MaxRun
         /\ i + Len(block) - 1 <= Len(bytes)
         /\ \A k \in 1 .. Len(block) : block[k] = bytes[i + k - 1]
         /\ i + Len(block) <= Len(bytes) /\ Len(block) < MaxRun => bytes[i + Len(block)] = 0
<1> DEFINE ends == {j \in i - 1 .. Len(bytes) :
                      j = Len(bytes) \/ j = i + MaxRun - 1 \/ bytes[j + 1] = 0}
           e == Min(ends)
<1>1. Len(bytes) \in Nat /\ MaxRun \in Nat \ {0} /\ \A k \in 1 .. Len(bytes) : bytes[k] \in Byte
  BY CobsAssumption
<1>2. ends \in SUBSET Nat /\ Len(bytes) \in ends
  BY <1>1
<1>3. e \in ends /\ \A other \in ends : e <= other
  BY <1>2, MinMember
<1>4. block = SubSeq(bytes, i, e)
  BY DEF BlockAt
<1> HIDE DEF e
<1>5. e \in i - 1 .. Len(bytes)
  BY <1>3
<1>6. ASSUME NEW k \in i .. e PROVE bytes[k] # 0
  <2>1. k - 1 \in i - 1 .. Len(bytes) /\ k - 1 < e /\ (k - 1) + 1 = k
    BY <1>1, <1>5
  <2>2. ~(e <= k - 1)
    BY <1>5, <2>1
  <2>3. k - 1 \notin ends
    BY <1>3, <2>2, Zenon
  <2> QED
    BY <2>1, <2>3
<1>7. e <= i + MaxRun - 1
  <2>1. CASE i + MaxRun - 1 <= Len(bytes)
    <3>1. i + MaxRun - 1 \in ends
      BY <1>1, <2>1
    <3> QED
      BY <1>3, <3>1
  <2>2. CASE i + MaxRun - 1 > Len(bytes)
    BY <1>1, <1>5, <2>2
  <2> QED
    BY <1>1, <2>1, <2>2
<1>8. e < Len(bytes) /\ e # i + MaxRun - 1 => bytes[e + 1] = 0
  BY <1>1, <1>3
<1>9. \A k \in i .. e : bytes[k] \in NonZero
  BY <1>1, <1>5, <1>6 DEF NonZero
<1> HIDE DEF ends
<1>10. /\ block \in Seq(NonZero)
       /\ Len(block) = IF i <= e THEN e - i + 1 ELSE 0
       /\ \A k \in 1 .. e - i + 1 : block[k] = bytes[i + k - 1]
  BY <1>4, <1>5, <1>9, SubSeqProperties
<1>11. Len(block) = e - i + 1
  BY <1>5, <1>10
<1>12. i + Len(block) = e + 1
  BY <1>5, <1>11
<1>13. i + Len(block) <= Len(bytes) /\ Len(block) < MaxRun => bytes[i + Len(block)] = 0
  BY <1>1, <1>5, <1>8, <1>11, <1>12
<1>14. Len(block) \in 0 .. MaxRun /\ i + Len(block) - 1 <= Len(bytes)
  BY <1>1, <1>5, <1>7, <1>11
<1> QED
  BY <1>10, <1>11, <1>13, <1>14

(***************************************************************************)
(* Encode goes by EncodedFrom's equation: it has a solution, because what  *)
(* it makes of a position it makes from later ones.                        *)
(***************************************************************************)
EncodeStep(bytes, i, from) ==
  LET block == BlockAt(bytes, i)
      next  == i + Len(block)
  IN  <<Len(block) + 1>> \o block \o
        IF next > Len(bytes) THEN <<>>
        ELSE from[IF Len(block) = MaxRun THEN next ELSE next + 1]

LEMMA EncodeStepLooksAhead ==
  ASSUME NEW bytes \in Seq(Byte), NEW i \in 1 .. Len(bytes) + 1, NEW f, NEW g,
         \A j \in i + 1 .. Len(bytes) + 1 : f[j] = g[j]
  PROVE  EncodeStep(bytes, i, f) = EncodeStep(bytes, i, g)
<1> DEFINE block == BlockAt(bytes, i)
           next  == i + Len(block)
           later == IF Len(block) = MaxRun THEN next ELSE next + 1
<1>1. Len(block) \in 0 .. MaxRun /\ Len(bytes) \in Nat /\ MaxRun \in Nat \ {0}
  BY BlockFacts, CobsAssumption
<1>2. next <= Len(bytes) => f[later] = g[later]
  <2> HIDE DEF block
  <2>1. next <= Len(bytes) => later \in i + 1 .. Len(bytes) + 1
    BY <1>1
  <2> QED
    BY <2>1
<1>3. next > Len(bytes) \/ next <= Len(bytes)
  <2> HIDE DEF block
  <2> QED
    BY <1>1
<1> QED
  BY <1>2, <1>3, Zenon DEF EncodeStep

LEMMA EncodeEquation ==
  ASSUME NEW bytes \in Seq(Byte)
  PROVE  \A i \in 1 .. Len(bytes) + 1 :
           EncodedFrom(bytes)[i] = EncodeStep(bytes, i, EncodedFrom(bytes))
<1> DEFINE n == Len(bytes)
           Solves(f, l) == \A i \in l .. n + 1 : f[i] = EncodeStep(bytes, i, f)
           S == {l \in 1 .. n + 2 : \E f : f = [j \in 1 .. n + 1 |-> f[j]] /\ Solves(f, l)}
<1>1. n \in Nat
  OBVIOUS
<1>2. ASSUME NEW l \in 1 .. n + 2, \A k \in l + 1 .. n + 2 : k \in S
      PROVE  l \in S
  <2>1. CASE l = n + 2
    <3> DEFINE f == [j \in 1 .. n + 1 |-> <<>>]
    <3>1. f = [j \in 1 .. n + 1 |-> f[j]] /\ l .. n + 1 = {}
      BY <1>1, <2>1
    <3> QED
      BY <3>1
  <2>2. CASE l # n + 2
    <3>1. l \in 1 .. n + 1 /\ l + 1 \in l + 1 .. n + 2
      BY <1>1, <2>2
    <3>2. PICK f : f = [j \in 1 .. n + 1 |-> f[j]] /\ Solves(f, l + 1)
      BY <1>2, <3>1
    <3> DEFINE first == EncodeStep(bytes, l, f)
               g == [j \in 1 .. n + 1 |-> IF j = l THEN first ELSE f[j]]
    <3>3. ASSUME NEW i \in l .. n + 1
          PROVE  EncodeStep(bytes, i, g) = EncodeStep(bytes, i, f)
      <4>1. \A j \in i + 1 .. n + 1 : f[j] = g[j]
        BY <1>1
      <4>2. i \in 1 .. n + 1
        BY <1>1
      <4> HIDE DEF g
      <4> QED
        BY <4>1, <4>2, EncodeStepLooksAhead
    <3>4. ASSUME NEW i \in l .. n + 1 PROVE g[i] = EncodeStep(bytes, i, f)
      <4>1. CASE i = l
        BY <3>1, <4>1
      <4>2. CASE i # l
        <5>1. i \in l + 1 .. n + 1 /\ g[i] = f[i]
          BY <1>1, <4>2
        <5> QED
          BY <3>2, <5>1
      <4> QED
        BY <4>1, <4>2
    <3>5. Solves(g, l)
      BY <3>3, <3>4
    <3>6. g = [j \in 1 .. n + 1 |-> g[j]]
      OBVIOUS
    <3> HIDE DEF g, Solves
    <3> QED
      BY <3>5, <3>6
  <2> QED
    BY <2>1, <2>2
<1>3. 1 \in S
  <2> HIDE DEF S
  <2>1. n + 2 \in Nat /\ 1 \in 1 .. n + 2
    BY <1>1
  <2> QED
    BY <1>2, <2>1, DownwardInduction
<1>4. PICK f : f = [j \in 1 .. n + 1 |-> f[j]] /\ Solves(f, 1)
  BY <1>3
<1>5. f = [i \in 1 .. n + 1 |-> EncodeStep(bytes, i, f)]
  BY <1>4
<1>6. EncodedFrom(bytes) = CHOOSE from : from = [i \in 1 .. n + 1 |-> EncodeStep(bytes, i, from)]
  BY Zenon DEF EncodedFrom, EncodeStep
<1>7. EncodedFrom(bytes) = [i \in 1 .. n + 1 |-> EncodeStep(bytes, i, EncodedFrom(bytes))]
  BY <1>5, <1>6
<1> QED
  BY <1>7

(***************************************************************************)
(* One block of an encoding: its code, its bytes, and the encoding of what *)
(* is left.  No byte of an encoding is zero.                               *)
(***************************************************************************)
Later(bytes, i) ==
  LET k == Len(BlockAt(bytes, i)) IN IF k = MaxRun THEN i + k ELSE i + k + 1

LEMMA EncodeUnfolds ==
  ASSUME NEW bytes \in Seq(Byte), NEW i \in 1 .. Len(bytes) + 1,
         NEW block, block = BlockAt(bytes, i)
  PROVE  /\ i + Len(block) > Len(bytes)
              => EncodedFrom(bytes)[i] = <<Len(block) + 1>> \o block \o <<>>
         /\ i + Len(block) <= Len(bytes)
              => /\ EncodedFrom(bytes)[i] = <<Len(block) + 1>> \o block
                                              \o EncodedFrom(bytes)[Later(bytes, i)]
                 /\ Later(bytes, i) \in i + 1 .. Len(bytes) + 1
<1>1. EncodedFrom(bytes)[i] = EncodeStep(bytes, i, EncodedFrom(bytes))
  BY EncodeEquation
<1>2. Len(block) \in 0 .. MaxRun /\ Len(bytes) \in Nat /\ MaxRun \in Nat \ {0}
  BY BlockFacts, CobsAssumption
<1>3. i + Len(block) > Len(bytes)
        => EncodedFrom(bytes)[i] = <<Len(block) + 1>> \o block \o <<>>
  <2>1. i + Len(block) > Len(bytes) => ~(i + Len(block) <= Len(bytes))
    BY <1>2
  <2> QED
    BY <1>1, <2>1, Zenon DEF EncodeStep
<1>4. ASSUME i + Len(block) <= Len(bytes)
      PROVE  EncodedFrom(bytes)[i]
               = <<Len(block) + 1>> \o block \o EncodedFrom(bytes)[Later(bytes, i)]
  <2>1. ~(i + Len(block) > Len(bytes))
    BY <1>2, <1>4
  <2> QED
    BY <1>1, <2>1, Zenon DEF EncodeStep, Later
<1>5. i + Len(block) <= Len(bytes) => Later(bytes, i) \in i + 1 .. Len(bytes) + 1
  BY <1>2 DEF Later
<1> QED
  BY <1>3, <1>4, <1>5

LEMMA EncodedTyped ==
  ASSUME NEW bytes \in Seq(Byte)
  PROVE  \A i \in 1 .. Len(bytes) + 1 :
           EncodedFrom(bytes)[i] \in Seq(NonZero) /\ EncodedFrom(bytes)[i] # <<>>
<1> DEFINE n == Len(bytes) + 1
           Good(i) == EncodedFrom(bytes)[i] \in Seq(NonZero) /\ EncodedFrom(bytes)[i] # <<>>
           S == {i \in 1 .. n : Good(i)}
<1>1. ASSUME NEW i \in 1 .. n, \A k \in i + 1 .. n : k \in S
      PROVE  i \in S
  <2>1. PICK block : block = BlockAt(bytes, i)
    OBVIOUS
  <2>2. /\ block \in Seq(NonZero) /\ Len(block) \in 0 .. MaxRun
        /\ Len(bytes) \in Nat /\ MaxRun \in Nat \ {0}
    BY <2>1, BlockFacts, CobsAssumption
  <2>3. Len(block) + 1 \in NonZero
    BY <2>2 DEF Byte, NonZero
  <2> DEFINE code == <<Len(block) + 1>>
  <2>4. code \in Seq(NonZero) /\ Len(code) = 1
    BY <2>3
  <2> HIDE DEF code
  <2>5. code \o block \in Seq(NonZero) /\ Len(code \o block) = Len(block) + 1
    <3>1. code \o block \in Seq(NonZero) /\ Len(code \o block) = Len(code) + Len(block)
      BY <2>2, <2>4, ConcatProperties, ZenonT(60)
    <3> QED
      BY <2>2, <2>4, <3>1
  <2>6. ASSUME NEW rest \in Seq(NonZero)
        PROVE  code \o block \o rest \in Seq(NonZero) /\ code \o block \o rest # <<>>
    <3>1. /\ code \o block \o rest \in Seq(NonZero)
          /\ Len(code \o block \o rest) = Len(code \o block) + Len(rest)
      BY <2>5, ConcatProperties, ZenonT(60)
    <3>2. Len(rest) \in Nat /\ Len(<<>>) = 0
      OBVIOUS
    <3>3. PICK head, all : head = code \o block /\ all = code \o block \o rest
      OBVIOUS
    <3>4. Len(head) = Len(block) + 1 /\ Len(all) = Len(head) + Len(rest)
      BY <2>5, <3>1, <3>3, Zenon
    <3>5. Len(all) # Len(<<>>)
      BY <2>2, <3>2, <3>4
    <3> QED
      BY <3>1, <3>3, <3>5, Zenon
  <2>7. CASE i + Len(block) > Len(bytes)
    <3>1. EncodedFrom(bytes)[i] = code \o block \o <<>>
      BY <2>1, <2>7, EncodeUnfolds DEF code
    <3>2. <<>> \in Seq(NonZero)
      OBVIOUS
    <3>3. Good(i)
      BY <2>6, <3>1, <3>2, Zenon
    <3> QED
      BY <3>3
  <2>8. CASE i + Len(block) <= Len(bytes)
    <3>1. /\ EncodedFrom(bytes)[i] = code \o block \o EncodedFrom(bytes)[Later(bytes, i)]
          /\ Later(bytes, i) \in i + 1 .. n
      BY <2>1, <2>8, EncodeUnfolds DEF code
    <3>2. EncodedFrom(bytes)[Later(bytes, i)] \in Seq(NonZero)
      BY <1>1, <3>1
    <3>3. Good(i)
      BY <2>6, <3>1, <3>2, Zenon
    <3> QED
      BY <3>3
  <2> QED
    BY <2>2, <2>7, <2>8
<1>2. n \in Nat
  OBVIOUS
<1>3. \A i \in 1 .. n : i \in S
  <2> HIDE DEF S, n
  <2> QED
    BY <1>1, <1>2, DownwardInduction
<1> QED
  BY <1>3

LEMMA EncodeTyped ==
  ASSUME NEW bytes \in Seq(Byte)
  PROVE  Encode(bytes) \in Seq(NonZero) /\ Encode(bytes) # <<>>
<1>1. 1 \in 1 .. Len(bytes) + 1
  OBVIOUS
<1> QED
  BY <1>1, EncodedTyped DEF Encode

(***************************************************************************)
(* The decoder goes from code to code.                                     *)
(***************************************************************************)
WholeStep(bytes, i, whole) ==
  LET next == i + bytes[i]
  IN  next = Len(bytes) + 1 \/ (next <= Len(bytes) /\ whole[next])

DecodeStep(bytes, i, decoded) ==
  LET next  == i + bytes[i]
      block == SubSeq(bytes, i + 1, next - 1)
      zero  == IF bytes[i] = FullBlock THEN <<>> ELSE <<0>>
  IN  IF next > Len(bytes) THEN block ELSE block \o zero \o decoded[next]

LEMMA CodesLookAhead ==
  ASSUME NEW bytes \in Seq(NonZero), NEW i \in 1 .. Len(bytes)
  PROVE  /\ bytes[i] \in Nat \ {0} /\ Len(bytes) \in Nat
         /\ i + bytes[i] <= Len(bytes) => i + bytes[i] \in i + 1 .. Len(bytes)
<1>1. bytes[i] \in NonZero /\ Len(bytes) \in Nat
  OBVIOUS
<1>2. bytes[i] \in Nat \ {0}
  BY <1>1, CobsAssumption DEF Byte, NonZero
<1> QED
  BY <1>1, <1>2

LEMMA WholeStepLooksAhead ==
  ASSUME NEW bytes \in Seq(NonZero), NEW i \in 1 .. Len(bytes), NEW f, NEW g,
         \A j \in i + 1 .. Len(bytes) : f[j] = g[j]
  PROVE  WholeStep(bytes, i, f) = WholeStep(bytes, i, g)
<1>1. i + bytes[i] <= Len(bytes) => f[i + bytes[i]] = g[i + bytes[i]]
  BY CodesLookAhead
<1> QED
  BY <1>1, Zenon DEF WholeStep

LEMMA DecodeStepLooksAhead ==
  ASSUME NEW bytes \in Seq(NonZero), NEW i \in 1 .. Len(bytes), NEW f, NEW g,
         \A j \in i + 1 .. Len(bytes) : f[j] = g[j]
  PROVE  DecodeStep(bytes, i, f) = DecodeStep(bytes, i, g)
<1>1. i + bytes[i] <= Len(bytes) => f[i + bytes[i]] = g[i + bytes[i]]
  BY CodesLookAhead
<1>2. i + bytes[i] > Len(bytes) \/ i + bytes[i] <= Len(bytes)
  BY CodesLookAhead
<1> QED
  BY <1>1, <1>2, Zenon DEF DecodeStep

LEMMA WholeEquation ==
  ASSUME NEW bytes \in Seq(NonZero)
  PROVE  \A i \in 1 .. Len(bytes) :
           WholeFrom(bytes)[i] = WholeStep(bytes, i, WholeFrom(bytes))
<1> DEFINE n == Len(bytes)
           Solves(f, l) == \A i \in l .. n : f[i] = WholeStep(bytes, i, f)
           S == {l \in 1 .. n + 1 : \E f : f = [j \in 1 .. n |-> f[j]] /\ Solves(f, l)}
<1>1. n \in Nat
  OBVIOUS
<1>2. ASSUME NEW l \in 1 .. n + 1, \A k \in l + 1 .. n + 1 : k \in S
      PROVE  l \in S
  <2>1. CASE l = n + 1
    <3> DEFINE f == [j \in 1 .. n |-> <<>>]
    <3>1. f = [j \in 1 .. n |-> f[j]] /\ l .. n = {}
      BY <1>1, <2>1
    <3> QED
      BY <3>1
  <2>2. CASE l # n + 1
    <3>1. l \in 1 .. n /\ l + 1 \in l + 1 .. n + 1
      BY <1>1, <2>2
    <3>2. PICK f : f = [j \in 1 .. n |-> f[j]] /\ Solves(f, l + 1)
      BY <1>2, <3>1
    <3> DEFINE first == WholeStep(bytes, l, f)
               g == [j \in 1 .. n |-> IF j = l THEN first ELSE f[j]]
    <3>3. ASSUME NEW i \in l .. n
          PROVE  WholeStep(bytes, i, g) = WholeStep(bytes, i, f)
      <4>1. \A j \in i + 1 .. n : f[j] = g[j]
        BY <1>1
      <4>2. i \in 1 .. n
        BY <1>1
      <4> HIDE DEF g
      <4> QED
        BY <4>1, <4>2, WholeStepLooksAhead
    <3>4. ASSUME NEW i \in l .. n PROVE g[i] = WholeStep(bytes, i, f)
      <4>1. CASE i = l
        BY <3>1, <4>1
      <4>2. CASE i # l
        <5>1. i \in l + 1 .. n /\ g[i] = f[i]
          BY <1>1, <4>2
        <5> QED
          BY <3>2, <5>1
      <4> QED
        BY <4>1, <4>2
    <3>5. Solves(g, l)
      BY <3>3, <3>4
    <3>6. g = [j \in 1 .. n |-> g[j]]
      OBVIOUS
    <3> HIDE DEF g, Solves
    <3> QED
      BY <3>5, <3>6
  <2> QED
    BY <2>1, <2>2
<1>3. 1 \in S
  <2> HIDE DEF S
  <2>1. n + 1 \in Nat /\ 1 \in 1 .. n + 1
    BY <1>1
  <2> QED
    BY <1>2, <2>1, DownwardInduction
<1>4. PICK f : f = [j \in 1 .. n |-> f[j]] /\ Solves(f, 1)
  BY <1>3
<1>5. f = [i \in 1 .. n |-> WholeStep(bytes, i, f)]
  BY <1>4
<1>6. WholeFrom(bytes) = CHOOSE whole : whole = [i \in 1 .. n |-> WholeStep(bytes, i, whole)]
  BY Zenon DEF WholeFrom, WholeStep
<1>7. WholeFrom(bytes) = [i \in 1 .. n |-> WholeStep(bytes, i, WholeFrom(bytes))]
  BY <1>5, <1>6
<1> QED
  BY <1>7

LEMMA DecodeEquation ==
  ASSUME NEW bytes \in Seq(NonZero)
  PROVE  \A i \in 1 .. Len(bytes) :
           DecodedFrom(bytes)[i] = DecodeStep(bytes, i, DecodedFrom(bytes))
<1> DEFINE n == Len(bytes)
           Solves(f, l) == \A i \in l .. n : f[i] = DecodeStep(bytes, i, f)
           S == {l \in 1 .. n + 1 : \E f : f = [j \in 1 .. n |-> f[j]] /\ Solves(f, l)}
<1>1. n \in Nat
  OBVIOUS
<1>2. ASSUME NEW l \in 1 .. n + 1, \A k \in l + 1 .. n + 1 : k \in S
      PROVE  l \in S
  <2>1. CASE l = n + 1
    <3> DEFINE f == [j \in 1 .. n |-> <<>>]
    <3>1. f = [j \in 1 .. n |-> f[j]] /\ l .. n = {}
      BY <1>1, <2>1
    <3> QED
      BY <3>1
  <2>2. CASE l # n + 1
    <3>1. l \in 1 .. n /\ l + 1 \in l + 1 .. n + 1
      BY <1>1, <2>2
    <3>2. PICK f : f = [j \in 1 .. n |-> f[j]] /\ Solves(f, l + 1)
      BY <1>2, <3>1
    <3> DEFINE first == DecodeStep(bytes, l, f)
               g == [j \in 1 .. n |-> IF j = l THEN first ELSE f[j]]
    <3>3. ASSUME NEW i \in l .. n
          PROVE  DecodeStep(bytes, i, g) = DecodeStep(bytes, i, f)
      <4>1. \A j \in i + 1 .. n : f[j] = g[j]
        BY <1>1
      <4>2. i \in 1 .. n
        BY <1>1
      <4> HIDE DEF g
      <4> QED
        BY <4>1, <4>2, DecodeStepLooksAhead
    <3>4. ASSUME NEW i \in l .. n PROVE g[i] = DecodeStep(bytes, i, f)
      <4>1. CASE i = l
        BY <3>1, <4>1
      <4>2. CASE i # l
        <5>1. i \in l + 1 .. n /\ g[i] = f[i]
          BY <1>1, <4>2
        <5> QED
          BY <3>2, <5>1
      <4> QED
        BY <4>1, <4>2
    <3>5. Solves(g, l)
      BY <3>3, <3>4
    <3>6. g = [j \in 1 .. n |-> g[j]]
      OBVIOUS
    <3> HIDE DEF g, Solves
    <3> QED
      BY <3>5, <3>6
  <2> QED
    BY <2>1, <2>2
<1>3. 1 \in S
  <2> HIDE DEF S
  <2>1. n + 1 \in Nat /\ 1 \in 1 .. n + 1
    BY <1>1
  <2> QED
    BY <1>2, <2>1, DownwardInduction
<1>4. PICK f : f = [j \in 1 .. n |-> f[j]] /\ Solves(f, 1)
  BY <1>3
<1>5. f = [i \in 1 .. n |-> DecodeStep(bytes, i, f)]
  BY <1>4
<1>6. DecodedFrom(bytes) = CHOOSE decoded : decoded = [i \in 1 .. n |-> DecodeStep(bytes, i, decoded)]
  BY Zenon DEF DecodedFrom, DecodeStep
<1>7. DecodedFrom(bytes) = [i \in 1 .. n |-> DecodeStep(bytes, i, DecodedFrom(bytes))]
  BY <1>5, <1>6
<1> QED
  BY <1>7

(***************************************************************************)
(* A block of an encoding, read by the decoder: at its code p the decoder  *)
(* finds the block's bytes, and the next code after them.                  *)
(***************************************************************************)
EndsAs(bytes, p, end) ==
  /\ p + Len(end) = Len(bytes) + 1
  /\ \A q \in 1 .. Len(end) : bytes[p + q - 1] = end[q]

ReadsBlock(bytes, p, next, block) ==
  /\ bytes[p] = Len(block) + 1
  /\ SubSeq(bytes, p + 1, next - 1) = block
  /\ next \in p + 1 .. Len(bytes) + 1

LEMMA PartsOfBlock ==
  ASSUME NEW block \in Seq(NonZero), Len(block) <= MaxRun, NEW rest \in Seq(NonZero),
         NEW all, all = <<Len(block) + 1>> \o block \o rest
  PROVE  /\ all \in Seq(NonZero) /\ Len(all) = 1 + Len(block) + Len(rest)
         /\ all[1] = Len(block) + 1
         /\ \A q \in 1 .. Len(block) : all[1 + q] = block[q]
         /\ \A q \in 1 .. Len(rest) : all[1 + Len(block) + q] = rest[q]
<1>1. Len(block) \in Nat /\ Len(rest) \in Nat /\ MaxRun \in Nat
  BY CobsAssumption
<1>2. Len(block) + 1 \in NonZero
  BY <1>1 DEF Byte, NonZero
<1> DEFINE code == <<Len(block) + 1>>
           head == code \o block
<1>3. code \in Seq(NonZero) /\ Len(code) = 1 /\ code[1] = Len(block) + 1
  BY <1>2
<1>4. all = head \o rest
  OBVIOUS
<1> HIDE DEF code
<1>5. /\ head \in Seq(NonZero) /\ Len(head) = Len(code) + Len(block)
      /\ \A q \in 1 .. Len(code) + Len(block) :
           head[q] = IF q <= Len(code) THEN code[q] ELSE block[q - Len(code)]
  BY <1>3, ConcatProperties, Zenon
<1> HIDE DEF head
<1>6. /\ all \in Seq(NonZero) /\ Len(all) = Len(head) + Len(rest)
      /\ \A q \in 1 .. Len(head) + Len(rest) :
           all[q] = IF q <= Len(head) THEN head[q] ELSE rest[q - Len(head)]
  <2>1. head \in Seq(NonZero)
    BY <1>5
  <2>2. /\ head \o rest \in Seq(NonZero) /\ Len(head \o rest) = Len(head) + Len(rest)
        /\ \A q \in 1 .. Len(head) + Len(rest) :
             (head \o rest)[q] = IF q <= Len(head) THEN head[q] ELSE rest[q - Len(head)]
    BY <2>1, ConcatProperties, Zenon
  <2> QED
    BY <1>4, <2>2, Zenon
<1>7. Len(head) = 1 + Len(block) /\ Len(all) = 1 + Len(block) + Len(rest)
  BY <1>1, <1>3, <1>5, <1>6
<1>8. all[1] = Len(block) + 1
  BY <1>1, <1>3, <1>5, <1>6, <1>7
<1>9. ASSUME NEW q \in 1 .. Len(block) PROVE all[1 + q] = block[q]
  <2>1. 1 + q \in 1 .. Len(head) /\ ~(1 + q <= Len(code)) /\ (1 + q) - Len(code) = q
    BY <1>1, <1>3, <1>7
  <2>2. head[1 + q] = block[q]
    BY <1>3, <1>5, <1>7, <2>1
  <2>3. PICK at : at = 1 + q
    OBVIOUS
  <2>4. at \in 1 .. Len(head) + Len(rest) /\ at <= Len(head)
    BY <1>1, <1>7, <2>1, <2>3
  <2>5. all[at] = head[at]
    BY <1>6, <2>4, Zenon
  <2> QED
    BY <2>2, <2>3, <2>5
<1>10. ASSUME NEW q \in 1 .. Len(rest) PROVE all[1 + Len(block) + q] = rest[q]
  <2> DEFINE at == 1 + Len(block) + q
  <2>1. at \in 1 .. Len(head) + Len(rest) /\ ~(at <= Len(head)) /\ at - Len(head) = q
    BY <1>1, <1>7
  <2> HIDE DEF at
  <2>2. all[at] = rest[q]
    BY <1>6, <2>1
  <2> QED
    BY <2>2 DEF at
<1> QED
  BY <1>6, <1>7, <1>8, <1>9, <1>10

LEMMA BlockRead ==
  ASSUME NEW e \in Seq(NonZero), NEW p \in 1 .. Len(e),
         NEW block \in Seq(NonZero), Len(block) <= MaxRun, NEW rest \in Seq(NonZero),
         NEW all, all = <<Len(block) + 1>> \o block \o rest, EndsAs(e, p, all),
         NEW next, next = p + Len(block) + 1
  PROVE  ReadsBlock(e, p, next, block) /\ EndsAs(e, next, rest)
<1>1. Len(block) \in Nat /\ Len(e) \in Nat /\ Len(rest) \in Nat /\ MaxRun \in Nat
  BY CobsAssumption
<1>2. /\ Len(all) = 1 + Len(block) + Len(rest) /\ all[1] = Len(block) + 1
      /\ \A q \in 1 .. Len(block) : all[1 + q] = block[q]
      /\ \A q \in 1 .. Len(rest) : all[1 + Len(block) + q] = rest[q]
  BY PartsOfBlock
<1>3. p + Len(all) = Len(e) + 1 /\ \A q \in 1 .. Len(all) : e[p + q - 1] = all[q]
  BY DEF EndsAs
<1>4. e[p] = Len(block) + 1
  BY <1>1, <1>2, <1>3
<1>5. next \in p + 1 .. Len(e) + 1
  BY <1>1, <1>2, <1>3
<1>6. EndsAs(e, next, rest)
  <2>1. next + Len(rest) = Len(e) + 1
    BY <1>1, <1>2, <1>3
  <2>2. ASSUME NEW q \in 1 .. Len(rest) PROVE e[next + q - 1] = rest[q]
    <3> DEFINE at == 1 + Len(block) + q
    <3>1. at \in 1 .. Len(all) /\ p + at - 1 = next + q - 1
      BY <1>1, <1>2
    <3>2. all[at] = rest[q]
      BY <1>2
    <3> HIDE DEF at
    <3>3. e[p + at - 1] = all[at]
      BY <1>3, <3>1
    <3> QED
      BY <3>1, <3>2, <3>3
  <2> QED
    BY <2>1, <2>2 DEF EndsAs
<1>7. SubSeq(e, p + 1, next - 1) = block
  <2>0. PICK part : part = SubSeq(e, p + 1, next - 1)
    OBVIOUS
  <2>1. /\ p + 1 \in Int /\ next - 1 \in Int /\ next - 1 - (p + 1) + 1 = Len(block)
        /\ p + 1 <= next - 1 <=> Len(block) # 0
        /\ \A i \in p + 1 .. next - 1 : e[i] \in NonZero
    BY <1>1, <1>5
  <2>2. /\ part \in Seq(NonZero)
        /\ Len(part) = IF p + 1 <= next - 1 THEN next - 1 - (p + 1) + 1 ELSE 0
        /\ \A i \in 1 .. next - 1 - (p + 1) + 1 : part[i] = e[p + 1 + i - 1]
    BY <2>0, <2>1, SubSeqProperties
  <2>3. Len(part) = Len(block)
    BY <1>1, <2>1, <2>2
  <2>4. ASSUME NEW i \in 1 .. Len(part) PROVE part[i] = block[i]
    <3>1. part[i] = e[p + 1 + i - 1] /\ i \in 1 .. Len(block)
      BY <2>1, <2>2, <2>3
    <3> DEFINE at == 1 + i
    <3>2. all[at] = block[i]
      BY <1>2, <3>1
    <3>3. at \in 1 .. Len(all) /\ p + at - 1 = p + 1 + i - 1
      BY <1>1, <1>2, <3>1
    <3> HIDE DEF at
    <3>4. e[p + at - 1] = all[at]
      BY <1>3, <3>3
    <3> QED
      BY <3>1, <3>2, <3>3, <3>4
  <2>5. part = block
    BY <2>2, <2>3, <2>4, SeqEqual
  <2> QED
    BY <2>0, <2>5
<1> QED
  BY <1>4, <1>5, <1>6, <1>7 DEF ReadsBlock

(***************************************************************************)
(* Decoding undoes encoding.                                               *)
(***************************************************************************)
LEMMA BlockIsPart ==
  ASSUME NEW bytes \in Seq(Byte), NEW i \in 1 .. Len(bytes) + 1,
         NEW block, block = BlockAt(bytes, i), NEW last, last = i + Len(block) - 1
  PROVE  block = SubSeq(bytes, i, last)
<1>1. /\ block \in Seq(NonZero) /\ Len(block) \in Nat /\ last <= Len(bytes) /\ Len(bytes) \in Nat
      /\ \A k \in 1 .. Len(block) : block[k] = bytes[i + k - 1]
  BY BlockFacts
<1>2. block \in Seq(Byte)
  BY <1>1, SeqMonotonic DEF NonZero
<1>3. PICK part : part = SubSeq(bytes, i, last)
  OBVIOUS
<1>4. i \in Int /\ last \in Int /\ \A k \in i .. last : bytes[k] \in Byte
  BY <1>1
<1>5. /\ part \in Seq(Byte) /\ Len(part) = (IF i <= last THEN last - i + 1 ELSE 0)
      /\ \A k \in 1 .. last - i + 1 : part[k] = bytes[i + k - 1]
  BY <1>3, <1>4, SubSeqProperties
<1>6. Len(part) = Len(block)
  BY <1>1, <1>5
<1>7. ASSUME NEW k \in 1 .. Len(part) PROVE part[k] = block[k]
  BY <1>1, <1>5, <1>6
<1>8. part = block
  BY <1>2, <1>5, <1>6, <1>7, SeqEqual
<1> QED
  BY <1>3, <1>8

LEMMA JoinBlock ==
  ASSUME NEW bytes \in Seq(Byte), NEW i \in 1 .. Len(bytes) + 1,
         NEW block, block = BlockAt(bytes, i), i + Len(block) <= Len(bytes)
  PROVE  block \o (IF Len(block) = MaxRun THEN <<>> ELSE <<0>>)
               \o SubSeq(bytes, Later(bytes, i), Len(bytes))
           = SubSeq(bytes, i, Len(bytes))
<1> DEFINE n == Len(bytes)
<1>0. PICK after : after = i + Len(block)
  OBVIOUS
<1>1. /\ Len(block) \in 0 .. MaxRun /\ n \in Nat /\ MaxRun \in Nat /\ after \in 1 .. n
      /\ i \in 1 .. n + 1 /\ i <= after
      /\ Len(block) < MaxRun => bytes[after] = 0
  BY <1>0, BlockFacts, CobsAssumption
<1>2. block = SubSeq(bytes, i, after - 1)
  <2>1. PICK last : last = i + Len(block) - 1
    OBVIOUS
  <2>2. block = SubSeq(bytes, i, last)
    BY <2>1, BlockIsPart
  <2> QED
    BY <1>0, <2>1, <2>2
<1>3. block \o SubSeq(bytes, after, n) = SubSeq(bytes, i, n)
  <2>1. after - 1 \in i - 1 .. n /\ n \in after - 1 .. n /\ after - 1 + 1 = after
    BY <1>1
  <2>2. SubSeq(bytes, i, after - 1) \o SubSeq(bytes, (after - 1) + 1, n) = SubSeq(bytes, i, n)
    BY <1>1, <2>1, ConcatAdjacentSubSeq
  <2> QED
    BY <1>2, <2>1, <2>2
<1>4. CASE Len(block) = MaxRun
  <2>1. Later(bytes, i) = after
    BY <1>0, <1>4 DEF Later
  <2>2. block \in Seq(NonZero)
    BY BlockFacts
  <2>3. block \o <<>> = block
    BY <2>2, ConcatEmptySeq
  <2> QED
    BY <1>3, <1>4, <2>1, <2>3, Zenon
<1>5. CASE Len(block) # MaxRun
  <2>1. Later(bytes, i) = after + 1
    BY <1>0, <1>5 DEF Later
  <2>2. bytes[after] = 0
    BY <1>1, <1>5
  <2>3. n \in after .. n
    BY <1>1
  <2>4. SubSeq(bytes, after, n) = <<bytes[after]>> \o SubSeq(bytes, after + 1, n)
    BY <1>1, <2>3, SubSeqRecursiveFirst
  <2> DEFINE zero == <<0>>
             rest == SubSeq(bytes, after + 1, n)
  <2>5. zero \in Seq(Byte) /\ block \in Seq(Byte) /\ rest \in Seq(Byte)
    <3>1. block \in Seq(NonZero)
      BY BlockFacts
    <3>2. block \in Seq(Byte)
      BY <3>1, SeqMonotonic DEF NonZero
    <3>3. 0 \in Byte
      BY CobsAssumption DEF Byte
    <3>4. after + 1 \in Int /\ n \in Int /\ \A k \in after + 1 .. n : bytes[k] \in Byte
      BY <1>1
    <3>5. rest \in Seq(Byte)
      BY <3>4, SubSeqProperties
    <3>6. zero \in Seq(Byte)
      BY <3>3
    <3> QED
      BY <3>2, <3>5, <3>6
  <2>6. SubSeq(bytes, after, n) = zero \o rest
    BY <2>2, <2>4
  <2> HIDE DEF zero, rest
  <2>7. (block \o zero) \o rest = block \o (zero \o rest)
    BY <2>5, Regroup, ZenonT(60)
  <2>8. block \o zero \o rest = SubSeq(bytes, i, n)
    BY <1>3, <2>6, <2>7, Zenon
  <2> QED
    BY <1>5, <2>1, <2>8, Zenon DEF zero, rest
<1> QED
  BY <1>4, <1>5

LEMMA DecodeEncoded ==
  ASSUME NEW bytes \in Seq(Byte), NEW e \in Seq(NonZero)
  PROVE  \A i \in 1 .. Len(bytes) + 1 : \A p \in 1 .. Len(e) :
           EndsAs(e, p, EncodedFrom(bytes)[i])
             => WholeFrom(e)[p] /\ DecodedFrom(e)[p] = SubSeq(bytes, i, Len(bytes))
<1> DEFINE n == Len(bytes) + 1
           Good(i) == \A p \in 1 .. Len(e) :
                        EndsAs(e, p, EncodedFrom(bytes)[i])
                          => WholeFrom(e)[p] /\ DecodedFrom(e)[p] = SubSeq(bytes, i, Len(bytes))
           S == {i \in 1 .. n : Good(i)}
<1>1. ASSUME NEW i \in 1 .. n, \A k \in i + 1 .. n : k \in S, NEW p \in 1 .. Len(e),
             EndsAs(e, p, EncodedFrom(bytes)[i])
      PROVE  WholeFrom(e)[p] /\ DecodedFrom(e)[p] = SubSeq(bytes, i, Len(bytes))
  <2>1. PICK block : block = BlockAt(bytes, i)
    OBVIOUS
  <2>2. /\ block \in Seq(NonZero) /\ Len(block) \in Nat /\ Len(block) <= MaxRun
        /\ Len(bytes) \in Nat /\ MaxRun \in Nat /\ i + Len(block) - 1 <= Len(bytes)
        /\ Len(e) \in Nat
    BY <2>1, BlockFacts, CobsAssumption
  <2>3. PICK next : next = p + Len(block) + 1
    OBVIOUS
  <2>4. /\ WholeFrom(e)[p] = WholeStep(e, p, WholeFrom(e))
        /\ DecodedFrom(e)[p] = DecodeStep(e, p, DecodedFrom(e))
    BY WholeEquation, DecodeEquation
  <2>5. ASSUME ReadsBlock(e, p, next, block)
        PROVE  /\ WholeFrom(e)[p] = (next = Len(e) + 1 \/ (next <= Len(e) /\ WholeFrom(e)[next]))
               /\ DecodedFrom(e)[p] =
                    IF next > Len(e) THEN block
                    ELSE block \o (IF e[p] = FullBlock THEN <<>> ELSE <<0>>) \o DecodedFrom(e)[next]
    <3>1. p + e[p] = next
      BY <2>2, <2>3, <2>5 DEF ReadsBlock
    <3> QED
      BY <2>4, <2>5, <3>1, Zenon DEF WholeStep, DecodeStep, ReadsBlock
  <2>6. CASE i + Len(block) > Len(bytes)
    <3>1. EncodedFrom(bytes)[i] = <<Len(block) + 1>> \o block \o <<>>
      BY <2>1, <2>6, EncodeUnfolds
    <3>2. PICK rest : rest = <<>> /\ rest \in Seq(NonZero) /\ Len(rest) = 0
      BY EmptySeq
    <3>3. PICK all : all = <<Len(block) + 1>> \o block \o rest /\ EndsAs(e, p, all)
      BY <1>1, <3>1, <3>2, Zenon
    <3>4. ReadsBlock(e, p, next, block) /\ EndsAs(e, next, rest)
      BY <2>2, <2>3, <3>2, <3>3, BlockRead
    <3>5. next = Len(e) + 1 /\ next > Len(e)
      BY <2>2, <2>3, <3>2, <3>4 DEF EndsAs
    <3>6. WholeFrom(e)[p] /\ DecodedFrom(e)[p] = block
      BY <2>5, <3>4, <3>5, Zenon
    <3>7. PICK last : last = i + Len(block) - 1
      OBVIOUS
    <3>8. block = SubSeq(bytes, i, last)
      BY <2>1, <3>7, BlockIsPart
    <3>9. last = Len(bytes)
      BY <2>2, <2>6, <3>7
    <3> QED
      BY <3>6, <3>8, <3>9
  <2>7. CASE i + Len(block) <= Len(bytes)
    <3>0. PICK later : later = Later(bytes, i)
      OBVIOUS
    <3>1. PICK rest : rest = EncodedFrom(bytes)[later]
      OBVIOUS
    <3>2. /\ EncodedFrom(bytes)[i] = <<Len(block) + 1>> \o block \o rest
          /\ later \in i + 1 .. n
      BY <2>1, <2>7, <3>0, <3>1, EncodeUnfolds
    <3>3. rest \in Seq(NonZero) /\ rest # <<>> /\ Len(rest) \in Nat \ {0}
      <4>1. later \in 1 .. Len(bytes) + 1
        BY <2>2, <3>2
      <4>2. rest \in Seq(NonZero) /\ rest # <<>>
        BY <3>1, <4>1, EncodedTyped
      <4> QED
        BY <4>2, EmptySeq
    <3>4. PICK all : all = <<Len(block) + 1>> \o block \o rest /\ EndsAs(e, p, all)
      BY <1>1, <3>2, Zenon
    <3>5. ReadsBlock(e, p, next, block) /\ EndsAs(e, next, rest)
      BY <2>2, <2>3, <3>3, <3>4, BlockRead
    <3>6. next \in 1 .. Len(e) /\ next <= Len(e) /\ ~(next > Len(e))
      BY <2>2, <2>3, <3>3, <3>5 DEF EndsAs, ReadsBlock
    <3>7. Good(later)
      BY <1>1, <3>2
    <3>8. WholeFrom(e)[next] /\ DecodedFrom(e)[next] = SubSeq(bytes, later, Len(bytes))
      BY <3>1, <3>5, <3>6, <3>7, Zenon
    <3>9. e[p] = FullBlock <=> Len(block) = MaxRun
      BY <2>2, <3>5 DEF FullBlock, ReadsBlock
    <3>10. DecodedFrom(e)[p] = block \o (IF Len(block) = MaxRun THEN <<>> ELSE <<0>>)
                                     \o SubSeq(bytes, later, Len(bytes))
      BY <2>5, <3>5, <3>6, <3>8, <3>9, Zenon
    <3>11. DecodedFrom(e)[p] = SubSeq(bytes, i, Len(bytes))
      BY <2>1, <2>7, <3>0, <3>10, JoinBlock, Zenon
    <3> QED
      BY <2>5, <3>5, <3>6, <3>8, <3>11, Zenon
  <2> QED
    BY <2>2, <2>6, <2>7
<1>2. \A i \in 1 .. n : (\A k \in i + 1 .. n : k \in S) => i \in S
  BY <1>1
<1>3. \A i \in 1 .. n : i \in S
  <2>1. n \in Nat
    OBVIOUS
  <2> HIDE DEF S, n
  <2> QED
    BY <1>2, <2>1, DownwardInduction
<1> QED
  BY <1>3

(***************************************************************************)
(* The frame of any bytes is whole blocks, and decodes to those bytes,     *)
(* with blocks of any length (mux.rs:65-84, v5gdb.rs:157-187).             *)
(***************************************************************************)
THEOREM DecodeEncode ==
  ASSUME NEW bytes \in Seq(Byte), NEW e, e = Encode(bytes)
  PROVE  WholeFrom(e)[1] /\ Decode(e) = bytes
<1>1. e \in Seq(NonZero) /\ e # <<>>
  BY EncodeTyped
<1>2. Len(e) \in Nat \ {0} /\ 1 \in 1 .. Len(e) /\ 1 \in 1 .. Len(bytes) + 1
  BY <1>1, EmptySeq
<1>3. EndsAs(e, 1, e)
  BY <1>2 DEF EndsAs
<1>4. EndsAs(e, 1, EncodedFrom(bytes)[1])
  BY <1>3 DEF Encode
<1>5. WholeFrom(e)[1] /\ DecodedFrom(e)[1] = SubSeq(bytes, 1, Len(bytes))
  BY <1>1, <1>2, <1>4, DecodeEncoded
<1>6. SubSeq(bytes, 1, Len(bytes)) = bytes
  BY SubSeqFull
<1> QED
  BY <1>5, <1>6 DEF Decode

-----------------------------------------------------------------------------
(***************************************************************************)
(* Sequences of bytes: how they are cut.                                   *)
(***************************************************************************)
LEMMA CutJoins ==
  ASSUME NEW s \in Seq(Byte), NEW n \in 0 .. Len(s)
  PROVE  SubSeq(s, 1, n) \o Without(s, n) = s
<1>1. Len(s) \in Nat
  OBVIOUS
<1>2. 1 \in 1 .. Len(s) + 1 /\ n \in 1 - 1 .. Len(s) /\ Len(s) \in n .. Len(s)
  BY <1>1
<1>3. SubSeq(s, 1, n) \o SubSeq(s, n + 1, Len(s)) = SubSeq(s, 1, Len(s))
  BY <1>2, ConcatAdjacentSubSeq
<1> QED
  BY <1>3, SubSeqFull DEF Without

LEMMA Cut ==
  ASSUME NEW s \in Seq(Byte), NEW n \in 0 .. Len(s),
         NEW first, first = SubSeq(s, 1, n), NEW rest, rest = Without(s, n)
  PROVE  /\ first \in Seq(Byte) /\ Len(first) = n
         /\ \A i \in 1 .. n : first[i] = s[i]
         /\ rest \in Seq(Byte) /\ Len(rest) = Len(s) - n
         /\ \A i \in 1 .. Len(s) - n : rest[i] = s[n + i]
<1>1. Len(s) \in Nat /\ \A i \in 1 .. Len(s) : s[i] \in Byte
  OBVIOUS
<1>2. /\ first \in Seq(Byte) /\ Len(first) = n
      /\ \A i \in 1 .. n : first[i] = s[i]
  <2>1. 1 \in Int /\ n \in Int /\ \A i \in 1 .. n : s[i] \in Byte
    BY <1>1
  <2>2. /\ first \in Seq(Byte) /\ Len(first) = (IF 1 <= n THEN n - 1 + 1 ELSE 0)
        /\ \A i \in 1 .. n - 1 + 1 : first[i] = s[1 + i - 1]
    BY <2>1, SubSeqProperties
  <2> QED
    BY <1>1, <2>2
<1>3. /\ rest \in Seq(Byte) /\ Len(rest) = Len(s) - n
      /\ \A i \in 1 .. Len(s) - n : rest[i] = s[n + i]
  <2>1. n + 1 \in Int /\ Len(s) \in Int /\ \A i \in n + 1 .. Len(s) : s[i] \in Byte
    BY <1>1
  <2>2. /\ rest \in Seq(Byte)
        /\ Len(rest) = (IF n + 1 <= Len(s) THEN Len(s) - (n + 1) + 1 ELSE 0)
        /\ \A i \in 1 .. Len(s) - (n + 1) + 1 : rest[i] = s[n + 1 + i - 1]
    BY <2>1, SubSeqProperties DEF Without
  <2> QED
    BY <1>1, <2>2
<1> QED
  BY <1>2, <1>3

LEMMA CutTyped ==
  \A s \in Seq(Byte) : \A n \in 0 .. Len(s) :
    /\ SubSeq(s, 1, n) \in Seq(Byte) /\ Len(SubSeq(s, 1, n)) = n
    /\ Without(s, n) \in Seq(Byte) /\ Len(Without(s, n)) = Len(s) - n
    /\ \A i \in 1 .. Len(s) - n : Without(s, n)[i] = s[n + i]
<1> SUFFICES ASSUME NEW s \in Seq(Byte), NEW n \in 0 .. Len(s)
             PROVE  /\ SubSeq(s, 1, n) \in Seq(Byte) /\ Len(SubSeq(s, 1, n)) = n
                    /\ Without(s, n) \in Seq(Byte) /\ Len(Without(s, n)) = Len(s) - n
                    /\ \A i \in 1 .. Len(s) - n : Without(s, n)[i] = s[n + i]
  OBVIOUS
<1>1. PICK first, rest : first = SubSeq(s, 1, n) /\ rest = Without(s, n)
  OBVIOUS
<1>2. /\ first \in Seq(Byte) /\ Len(first) = n
      /\ rest \in Seq(Byte) /\ Len(rest) = Len(s) - n
      /\ \A i \in 1 .. Len(s) - n : rest[i] = s[n + i]
  BY <1>1, Cut
<1> QED
  BY <1>1, <1>2, Zenon

\* Where two ways to cut a sequence in two cut it at the same place, the parts are equal.
LEMMA SameCut ==
  ASSUME NEW s \in Seq(Byte), NEW t \in Seq(Byte), NEW u \in Seq(Byte), NEW v \in Seq(Byte),
         s \o t = u \o v, Len(s) = Len(u)
  PROVE  s = u /\ t = v
<1>0. PICK a, b : a = s \o t /\ b = u \o v /\ a = b
  OBVIOUS
<1>1. /\ Len(a) = Len(s) + Len(t)
      /\ \A i \in 1 .. Len(s) + Len(t) : a[i] = IF i <= Len(s) THEN s[i] ELSE t[i - Len(s)]
  BY <1>0, ConcatProperties
<1>2. /\ Len(b) = Len(u) + Len(v)
      /\ \A i \in 1 .. Len(u) + Len(v) : b[i] = IF i <= Len(u) THEN u[i] ELSE v[i - Len(u)]
  BY <1>0, ConcatProperties
<1>3. Len(s) \in Nat /\ Len(t) \in Nat /\ Len(u) \in Nat /\ Len(v) \in Nat
  OBVIOUS
<1>4. Len(t) = Len(v)
  <2>1. Len(s) + Len(t) = Len(u) + Len(v)
    BY <1>0, <1>1, <1>2, Zenon
  <2> QED
    BY <1>3, <2>1
<1>5. ASSUME NEW i \in 1 .. Len(s) PROVE s[i] = u[i]
  <2>1. i \in 1 .. Len(s) + Len(t) /\ i \in 1 .. Len(u) + Len(v) /\ i <= Len(s) /\ i <= Len(u)
    BY <1>3
  <2> QED
    BY <1>0, <1>1, <1>2, <2>1, Zenon
<1>6. ASSUME NEW i \in 1 .. Len(t) PROVE t[i] = v[i]
  <2>1. PICK k : k = Len(s) + i
    OBVIOUS
  <2>2. /\ k \in 1 .. Len(s) + Len(t) /\ k \in 1 .. Len(u) + Len(v)
        /\ ~(k <= Len(s)) /\ ~(k <= Len(u)) /\ k - Len(s) = i /\ k - Len(u) = i
    BY <1>3, <1>4, <2>1
  <2>3. a[k] = t[i] /\ b[k] = v[i]
    BY <1>1, <1>2, <2>2, Zenon
  <2> QED
    BY <1>0, <2>3
<1>7. s = u
  BY <1>5, SeqEqual
<1>8. t = v
  BY <1>4, <1>6, SeqEqual
<1> QED
  BY <1>7, <1>8

(***************************************************************************)
(* What whole blocks decode to is made of bytes.                           *)
(***************************************************************************)
LEMMA DecodedTyped ==
  ASSUME NEW e \in Seq(NonZero)
  PROVE  \A p \in 1 .. Len(e) : WholeFrom(e)[p] => DecodedFrom(e)[p] \in Seq(Byte)
<1> DEFINE Good(p) == WholeFrom(e)[p] => DecodedFrom(e)[p] \in Seq(Byte)
           S == {p \in 1 .. Len(e) : Good(p)}
<1>1. ASSUME NEW p \in 1 .. Len(e), \A k \in p + 1 .. Len(e) : k \in S, WholeFrom(e)[p]
      PROVE  DecodedFrom(e)[p] \in Seq(Byte)
  <2>1. PICK next : next = p + e[p]
    OBVIOUS
  <2>2. Len(e) \in Nat /\ next \in Nat /\ (next <= Len(e) => next \in p + 1 .. Len(e))
    BY <2>1, CodesLookAhead
  <2>3. next = Len(e) + 1 \/ (next <= Len(e) /\ WholeFrom(e)[next])
    BY <1>1, <2>1, WholeEquation, Zenon DEF WholeStep
  <2> DEFINE block == SubSeq(e, p + 1, next - 1)
             zero  == IF e[p] = FullBlock THEN <<>> ELSE <<0>>
  <2>4. DecodedFrom(e)[p] = IF next > Len(e) THEN block ELSE block \o zero \o DecodedFrom(e)[next]
    BY <2>1, DecodeEquation, Zenon DEF DecodeStep
  <2>5. block \in Seq(Byte)
    <3>1. /\ p + 1 \in Int /\ next - 1 \in Int
          /\ \A i \in p + 1 .. next - 1 : e[i] \in Byte
      BY <2>2, <2>3 DEF NonZero
    <3> QED
      BY <3>1, SubSeqProperties
  <2>6. zero \in Seq(Byte)
    <3>1. 0 \in Byte
      BY CobsAssumption DEF Byte
    <3>2. <<0>> \in Seq(Byte) /\ <<>> \in Seq(Byte)
      BY <3>1
    <3> QED
      BY <3>2, Zenon
  <2> HIDE DEF block, zero
  <2>7. CASE next > Len(e)
    BY <2>4, <2>5, <2>7, Zenon
  <2>8. CASE ~(next > Len(e))
    <3>1. next \in p + 1 .. Len(e) /\ WholeFrom(e)[next]
      BY <2>2, <2>3, <2>8
    <3>2. next \in S
      BY <1>1, <3>1
    <3>3. Good(next)
      BY <3>2
    <3>4. DecodedFrom(e)[next] \in Seq(Byte)
      BY <3>1, <3>3
    <3>5. block \o zero \in Seq(Byte)
      BY <2>5, <2>6, Joining, Zenon
    <3>6. block \o zero \o DecodedFrom(e)[next] \in Seq(Byte)
      BY <3>4, <3>5, Joining, Zenon
    <3>7. DecodedFrom(e)[p] = block \o zero \o DecodedFrom(e)[next]
      BY <2>4, <2>8, Zenon
    <3> QED
      BY <3>6, <3>7, Zenon
  <2> QED
    BY <2>7, <2>8
<1>2. \A p \in 1 .. Len(e) : (\A k \in p + 1 .. Len(e) : k \in S) => p \in S
  BY <1>1
<1>3. \A p \in 1 .. Len(e) : p \in S
  <2>1. Len(e) \in Nat
    OBVIOUS
  <2> HIDE DEF S
  <2> QED
    BY <1>2, <2>1, DownwardInduction
<1> QED
  BY <1>3

(***************************************************************************)
(* A packet as it goes over the wire: its one zero is its last byte.       *)
(***************************************************************************)
Packed(channel, body) == Encode(<<channel>> \o body)

Wire(channel, body) == Append(Packed(channel, body), 0)

LEMMA Channels ==
  \A w \in Writers : ChannelOf(w) \in Byte /\ ChannelOf(w) \in NonZero /\ <<ChannelOf(w)>> \in Seq(Byte)
  BY LinkAssumption DEF Writers, ChannelOf, NonZero

LEMMA PackedTyped ==
  ASSUME NEW w \in Writers, NEW body \in Seq(Byte), NEW e, e = Packed(ChannelOf(w), body)
  PROVE  e \in Seq(NonZero) /\ e # <<>> /\ Len(e) \in Nat \ {0}
<1>1. <<ChannelOf(w)>> \o body \in Seq(Byte)
  BY Channels, Joining, Zenon
<1>2. e \in Seq(NonZero) /\ e # <<>>
  BY <1>1, EncodeTyped DEF Packed
<1> QED
  BY <1>2, EmptySeq

LEMMA WireFacts ==
  ASSUME NEW w \in Writers, NEW body \in Seq(Byte), NEW e, e = Packed(ChannelOf(w), body),
         NEW f, f = Wire(ChannelOf(w), body)
  PROVE  /\ f \in Seq(Byte) /\ f # <<>> /\ Len(f) = Len(e) + 1 /\ Len(e) \in Nat \ {0}
         /\ \A i \in 1 .. Len(e) : f[i] = e[i]
         /\ \A i \in 1 .. Len(f) : f[i] = 0 <=> i = Len(f)
<1>1. e \in Seq(NonZero) /\ Len(e) \in Nat \ {0}
  BY PackedTyped
<1>2. e \in Seq(Byte) /\ 0 \in Byte
  BY <1>1, SeqMonotonic, CobsAssumption DEF NonZero, Byte
<1>3. /\ f \in Seq(Byte) /\ f # <<>> /\ Len(f) = Len(e) + 1
      /\ \A i \in 1 .. Len(e) : f[i] = e[i]
      /\ f[Len(e) + 1] = 0
  BY <1>2, AppendProperties DEF Wire
<1>4. \A i \in 1 .. Len(e) : e[i] # 0
  BY <1>1 DEF NonZero
<1> QED
  BY <1>1, <1>3, <1>4

LEMMA OneByte ==
  ASSUME NEW c \in NonZero
  PROVE  Len(Encode(<<c>>)) = 2
<1>1. PICK bytes : bytes = <<c>>
  OBVIOUS
<1>2. bytes \in Seq(Byte) /\ Len(bytes) = 1 /\ bytes[1] # 0 /\ 1 \in 1 .. Len(bytes) + 1
  BY <1>1 DEF NonZero
<1>3. PICK block : block = BlockAt(bytes, 1)
  OBVIOUS
<1>4. /\ block \in Seq(NonZero) /\ Len(block) \in 0 .. MaxRun /\ 1 + Len(block) - 1 <= 1
      /\ 1 + Len(block) <= 1 /\ Len(block) < MaxRun => bytes[1 + Len(block)] = 0
  BY <1>2, <1>3, BlockFacts
<1>5. Len(block) = 1 /\ Len(block) <= MaxRun
  <2>1. Len(block) # 0
    <3>1. ASSUME Len(block) = 0 PROVE bytes[1] = 0
      BY <1>4, <3>1, CobsAssumption
    <3> QED
      BY <1>2, <3>1
  <2> QED
    BY <1>4, <2>1, CobsAssumption
<1>6. PICK rest : rest = <<>> /\ rest \in Seq(NonZero) /\ Len(rest) = 0
  BY EmptySeq
<1>7. EncodedFrom(bytes)[1] = <<Len(block) + 1>> \o block \o <<>>
  <2>1. 1 + Len(block) > Len(bytes)
    BY <1>2, <1>5
  <2> QED
    BY <1>2, <1>3, <2>1, EncodeUnfolds
<1>8. PICK all : all = <<Len(block) + 1>> \o block \o rest
  OBVIOUS
<1>9. Len(all) = 1 + Len(block) + Len(rest)
  <2>1. block \in Seq(NonZero) /\ Len(block) <= MaxRun
    BY <1>4, <1>5
  <2> QED
    BY <1>6, <1>8, <2>1, PartsOfBlock
<1>10. Encode(<<c>>) = all
  BY <1>1, <1>6, <1>7, <1>8, Zenon DEF Encode
<1> QED
  BY <1>5, <1>6, <1>9, <1>10

(***************************************************************************)
(* A packet fits its buffer, and takes the beginning of what is written.   *)
(***************************************************************************)
LEMMA PayloadFits ==
  ASSUME NEW w \in Writers, NEW bytes \in Seq(Byte),
         NEW payload, payload = Payload(ChannelOf(w), bytes)
  PROVE  /\ payload \in Seq(Byte) /\ Len(payload) \in 0 .. Len(bytes)
         /\ payload = SubSeq(bytes, 1, Len(payload))
         /\ Len(Packed(ChannelOf(w), payload)) <= OutBufSize - 1
<1> DEFINE fits == {n \in 0 .. Len(bytes) :
                      Len(Encode(<<ChannelOf(w)>> \o SubSeq(bytes, 1, n))) <= OutBufSize - 1}
<1>1. Len(bytes) \in Nat
  OBVIOUS
<1>2. 0 \in fits
  <2>1. SubSeq(bytes, 1, 0) = <<>>
    BY SubSeqEmpty
  <2>2. <<ChannelOf(w)>> \o <<>> = <<ChannelOf(w)>>
    BY Channels, Joining, Zenon
  <2>3. Len(Encode(<<ChannelOf(w)>>)) = 2
    BY Channels, OneByte
  <2>4. Len(Encode(<<ChannelOf(w)>> \o SubSeq(bytes, 1, 0))) = 2
    BY <2>1, <2>2, <2>3, Zenon
  <2>5. 0 \in 0 .. Len(bytes) /\ 2 <= OutBufSize - 1
    BY <1>1, LinkAssumption
  <2>6. Len(Encode(<<ChannelOf(w)>> \o SubSeq(bytes, 1, 0))) <= OutBufSize - 1
    BY <2>4, <2>5, Zenon
  <2> QED
    BY <2>5, <2>6, Zenon
<1>3. fits \in SUBSET (0 .. Len(bytes)) /\ fits # {}
  BY <1>2
<1>4. PICK n : n = Max(fits)
  OBVIOUS
<1>5. n \in fits
  <2> HIDE DEF fits
  <2> QED
    BY <1>1, <1>3, <1>4, MaxMember
<1>6. payload = SubSeq(bytes, 1, n)
  BY <1>4, Zenon DEF Payload
<1>7. n \in 0 .. Len(bytes) /\ Len(Encode(<<ChannelOf(w)>> \o SubSeq(bytes, 1, n))) <= OutBufSize - 1
  BY <1>5
<1>8. payload \in Seq(Byte) /\ Len(payload) = n
  BY <1>6, <1>7, Cut
<1> QED
  BY <1>6, <1>7, <1>8 DEF Packed

\* The ring takes no more than it has room for.
LEMMA FittingFits ==
  ASSUME NEW bytes \in Seq(Byte), ring \in Seq(Byte), Len(ring) <= OutBufSize,
         NEW written, written = Fitting(bytes)
  PROVE  /\ written \in Seq(Byte) /\ Len(written) \in 0 .. Len(bytes)
         /\ written = SubSeq(bytes, 1, Len(written))
         /\ ring \o written \in Seq(Byte) /\ Len(ring \o written) <= OutBufSize
         /\ bytes # <<>> /\ Len(ring) < OutBufSize => Len(written) > 0
<1>1. PICK room : room = OutBufSize - Len(ring)
  OBVIOUS
<1>2. room \in Nat /\ Len(bytes) \in Nat /\ Len(ring) \in Nat /\ OutBufSize \in Nat
  BY <1>1, LinkAssumption
<1>3. PICK n : n = Min({Len(bytes), room})
  OBVIOUS
<1>4. n = IF Len(bytes) <= room THEN Len(bytes) ELSE room
  BY <1>2, <1>3, MinOfTwo
<1>5. written = SubSeq(bytes, 1, n)
  BY <1>1, <1>3, Zenon DEF Fitting
<1>6. n \in 0 .. Len(bytes) /\ n <= room
  BY <1>2, <1>4
<1>7. written \in Seq(Byte) /\ Len(written) = n
  BY <1>5, <1>6, Cut
<1>8. ring \o written \in Seq(Byte) /\ Len(ring \o written) = Len(ring) + n
  BY <1>7, ConcatProperties
<1>9. bytes # <<>> /\ Len(ring) < OutBufSize => n > 0
  <2>1. bytes # <<>> => Len(bytes) > 0
    BY EmptySeq, <1>2
  <2> QED
    BY <1>1, <1>2, <1>4, <2>1
<1> QED
  BY <1>1, <1>2, <1>5, <1>6, <1>7, <1>8, <1>9

(***************************************************************************)
(* The decoder: with no zero after another byte it wants more; otherwise   *)
(* it has read from the first byte that is not zero to the zero after it.  *)
(***************************************************************************)
Quiet(bytes) == \A i, k \in 1 .. Len(bytes) : i < k /\ bytes[i] # 0 => bytes[k] # 0

Reads(bytes, start, end) ==
  /\ start \in 1 .. Len(bytes) /\ end \in start + 1 .. Len(bytes)
  /\ \A i \in 1 .. start - 1 : bytes[i] = 0
  /\ \A i \in start .. end - 1 : bytes[i] # 0
  /\ bytes[end] = 0

Verdict(body, end) ==
  IF WholeFrom(body)[1] THEN [status |-> "frame", parsed |-> end, packet |-> Decode(body)]
  ELSE [status |-> "error"]

LEMMA PushMore ==
  ASSUME NEW bytes \in Seq(Byte), Quiet(bytes)
  PROVE  Push(bytes) = [status |-> "more"]
<1> DEFINE starts == {i \in 1 .. Len(bytes) : bytes[i] # 0}
           start == Min(starts)
           zeros == {i \in 1 .. Len(bytes) : i > start /\ bytes[i] = 0}
<1>1. starts = {} \/ zeros = {}
  <2> SUFFICES ASSUME starts # {} PROVE zeros = {}
    OBVIOUS
  <2>1. starts \in SUBSET Nat
    OBVIOUS
  <2>2. start \in starts
    <3> HIDE DEF starts
    <3> QED
      BY <2>1, MinMember
  <2>3. start \in 1 .. Len(bytes) /\ bytes[start] # 0
    BY <2>2
  <2> HIDE DEF start
  <2>4. ASSUME NEW k \in zeros PROVE FALSE
    BY <2>3, <2>4 DEF Quiet
  <2> QED
    BY <2>4
<1> QED
  BY <1>1, Zenon DEF Push

LEMMA PushEnds ==
  ASSUME NEW bytes \in Seq(Byte), ~Quiet(bytes)
  PROVE  \E start, end \in Nat :
           /\ Reads(bytes, start, end)
           /\ Push(bytes) = Verdict(SubSeq(bytes, start, end - 1), end)
<1> DEFINE starts == {i \in 1 .. Len(bytes) : bytes[i] # 0}
           zeros(start) == {i \in 1 .. Len(bytes) : i > start /\ bytes[i] = 0}
<1>1. PICK i, k \in 1 .. Len(bytes) : i < k /\ bytes[i] # 0 /\ bytes[k] = 0
  BY DEF Quiet
<1>2. starts \in SUBSET Nat /\ i \in starts
  BY <1>1
<1>3. PICK start : start = Min(starts)
  OBVIOUS
<1>4. start \in starts /\ \A other \in starts : start <= other
  <2> HIDE DEF starts
  <2> QED
    BY <1>2, <1>3, MinMember
<1>5. start \in 1 .. Len(bytes) /\ bytes[start] # 0 /\ start <= i
  BY <1>2, <1>4
<1>6. zeros(start) \in SUBSET Nat /\ k \in zeros(start)
  BY <1>1, <1>5
<1>7. PICK end : end = Min(zeros(start))
  OBVIOUS
<1>8. end \in zeros(start) /\ \A other \in zeros(start) : end <= other
  <2> HIDE DEF zeros
  <2> QED
    BY <1>6, <1>7, MinMember
<1>9. end \in start + 1 .. Len(bytes) /\ bytes[end] = 0
  BY <1>5, <1>8
<1>10. ASSUME NEW j \in 1 .. start - 1 PROVE bytes[j] = 0
  <2>1. j \in 1 .. Len(bytes) /\ ~(start <= j)
    BY <1>5
  <2> QED
    BY <1>4, <2>1
<1>11. ASSUME NEW j \in start .. end - 1 PROVE bytes[j] # 0
  <2>1. j \in 1 .. Len(bytes) /\ ~(end <= j) /\ (j = start \/ j > start)
    BY <1>5, <1>9
  <2> QED
    BY <1>5, <1>8, <2>1
<1>12. Reads(bytes, start, end)
  BY <1>5, <1>9, <1>10, <1>11 DEF Reads
<1>13. ~(starts = {} \/ zeros(start) = {})
  BY <1>4, <1>8
<1>14. Push(bytes) = Verdict(SubSeq(bytes, start, end - 1), end)
  BY <1>3, <1>7, <1>13, Zenon DEF Push, Verdict
<1>15. start \in Nat /\ end \in Nat
  BY <1>5, <1>9
<1> QED
  BY <1>12, <1>14, <1>15, Zenon

\* What the decoder answers, whatever it is fed after bytes it wanted more after.
LEMMA PushAnswers ==
  ASSUME NEW fore \in Seq(Byte), Quiet(fore), NEW aft \in Seq(Byte),
         NEW bytes, bytes = fore \o aft, NEW report, report = Push(bytes)
  PROVE  /\ report.status \in {"more", "error", "frame"}
         /\ report.status = "more" => Quiet(bytes)
         /\ report.status = "frame" => /\ report.parsed - Len(fore) \in 1 .. Len(aft)
                                       /\ report.packet \in Seq(Byte)
<1>1. /\ bytes \in Seq(Byte) /\ Len(bytes) = Len(fore) + Len(aft)
      /\ \A i \in 1 .. Len(fore) : bytes[i] = fore[i]
      /\ Len(fore) \in Nat /\ Len(aft) \in Nat
  <2>1. /\ bytes \in Seq(Byte) /\ Len(bytes) = Len(fore) + Len(aft)
        /\ \A i \in 1 .. Len(fore) + Len(aft) :
             bytes[i] = IF i <= Len(fore) THEN fore[i] ELSE aft[i - Len(fore)]
    BY ConcatProperties
  <2> QED
    BY <2>1
<1>2. CASE Quiet(bytes)
  <2>1. report.status = "more"
    <3>1. Push(bytes) = [status |-> "more"]
      BY <1>1, <1>2, PushMore
    <3> QED
      BY <3>1
  <2> QED
    BY <1>2, <2>1
<1>3. CASE ~Quiet(bytes)
  <2>1. PICK start, end \in Nat :
          /\ Reads(bytes, start, end)
          /\ report = Verdict(SubSeq(bytes, start, end - 1), end)
    BY <1>1, <1>3, PushEnds
  <2>2. PICK body : body = SubSeq(bytes, start, end - 1)
    OBVIOUS
  <2>3. /\ report = Verdict(body, end)
        /\ report.status = IF WholeFrom(body)[1] THEN "frame" ELSE "error"
        /\ WholeFrom(body)[1] => report.parsed = end /\ report.packet = Decode(body)
    BY <2>1, <2>2 DEF Verdict
  <2>4. end - Len(fore) \in 1 .. Len(aft)
    <3>1. start \in 1 .. Len(bytes) /\ end \in start + 1 .. Len(bytes)
      BY <2>1 DEF Reads
    <3>2. bytes[start] # 0 /\ bytes[end] = 0
      <4>1. start \in start .. end - 1
        BY <3>1
      <4> QED
        BY <2>1, <4>1 DEF Reads
    <3>3. ASSUME end <= Len(fore) PROVE FALSE
      <4>1. start \in 1 .. Len(fore) /\ end \in 1 .. Len(fore) /\ start < end
        BY <1>1, <3>1, <3>3
      <4>2. fore[start] # 0 /\ fore[end] = 0
        BY <1>1, <3>2, <4>1
      <4> QED
        BY <4>1, <4>2 DEF Quiet
    <3> QED
      BY <1>1, <3>1, <3>3
  <2>5. WholeFrom(body)[1] => Decode(body) \in Seq(Byte)
    <3>1. \A i \in start .. end - 1 : bytes[i] \in NonZero
      BY <1>1, <2>1 DEF Reads, NonZero
    <3>2. start <= end - 1 /\ start \in Int /\ end - 1 \in Int
      BY <1>1, <2>1 DEF Reads
    <3>3. body \in Seq(NonZero) /\ Len(body) = (end - 1) - start + 1
      BY <2>2, <3>1, <3>2, SubSeqProperties
    <3>4. 1 \in 1 .. Len(body)
      BY <3>2, <3>3
    <3> QED
      BY <3>3, <3>4, DecodedTyped DEF Decode
  <2>6. report.status \in {"error", "frame"}
    BY <2>3
  <2>7. report.status = "frame" => WholeFrom(body)[1]
    BY <2>3
  <2> QED
    BY <2>3, <2>4, <2>5, <2>6, <2>7
<1> QED
  BY <1>2, <1>3

-----------------------------------------------------------------------------
(***************************************************************************)
(* Towards the brain.  The bytes are numbered as they are sent, so that    *)
(* those waiting are the last ones sent, in order; those the debugger has  *)
(* read came right before them, because it is the only reader since it     *)
(* began to read: the first stop redirects the program's own reads before  *)
(* the monitor or the poll can read anything.                              *)
(***************************************************************************)
Consecutive(bytes, last) ==
  /\ bytes \in Seq(Nat)
  /\ Len(bytes) <= last
  /\ \A i \in 1 .. Len(bytes) : bytes[i] = last - Len(bytes) + i

InputInv ==
  /\ typed \in 0 .. MaxTyped
  /\ stopped => redirected # {}
  /\ redirected # {} => "vexSerialReadChar" \in redirected
  /\ redirected = {} => received = <<>>
  /\ Consecutive(input, typed)
  /\ Consecutive(received, typed - Len(input))

LEMMA EmptyIsConsecutive == \A last \in Nat : Consecutive(<<>>, last)
  BY DEF Consecutive

LEMMA ConsecutiveAppend ==
  ASSUME NEW bytes, NEW last \in Nat, Consecutive(bytes, last)
  PROVE  /\ Consecutive(Append(bytes, last + 1), last + 1)
         /\ Len(Append(bytes, last + 1)) = Len(bytes) + 1
<1> DEFINE more == Append(bytes, last + 1)
<1>1. bytes \in Seq(Nat) /\ last + 1 \in Nat /\ Len(bytes) \in Nat
  BY DEF Consecutive
<1>2. /\ more \in Seq(Nat) /\ Len(more) = Len(bytes) + 1
      /\ \A i \in 1 .. Len(bytes) : more[i] = bytes[i]
      /\ more[Len(bytes) + 1] = last + 1
  BY <1>1, AppendProperties
<1> HIDE DEF more
<1>3. ASSUME NEW i \in 1 .. Len(more) PROVE more[i] = last + 1 - Len(more) + i
  <2>1. CASE i = Len(bytes) + 1
    BY <1>1, <1>2, <2>1
  <2>2. CASE i # Len(bytes) + 1
    <3>1. i \in 1 .. Len(bytes)
      BY <1>1, <1>2, <2>2
    <3>2. more[i] = last - Len(bytes) + i
      BY <1>2, <3>1 DEF Consecutive
    <3> QED
      BY <1>1, <1>2, <3>1, <3>2
  <2> QED
    BY <2>1, <2>2
<1> QED
  BY <1>1, <1>2, <1>3 DEF Consecutive, more

LEMMA ConsecutiveTail ==
  ASSUME NEW bytes, NEW last \in Nat, Consecutive(bytes, last), bytes # <<>>
  PROVE  /\ Consecutive(Tail(bytes), last)
         /\ Len(Tail(bytes)) = Len(bytes) - 1
         /\ Head(bytes) = last - Len(bytes) + 1
<1>1. bytes \in Seq(Nat) /\ Len(bytes) \in Nat \ {0}
  BY EmptySeq DEF Consecutive
<1>2. /\ Tail(bytes) \in Seq(Nat) /\ Len(Tail(bytes)) = Len(bytes) - 1
      /\ \A i \in 1 .. Len(Tail(bytes)) : Tail(bytes)[i] = bytes[i + 1]
  BY <1>1, HeadTailProperties
<1>3. Head(bytes) = bytes[1]
  BY <1>1
<1>4. ASSUME NEW i \in 1 .. Len(Tail(bytes))
      PROVE  Tail(bytes)[i] = last - Len(Tail(bytes)) + i
  BY <1>1, <1>2 DEF Consecutive
<1> QED
  BY <1>1, <1>2, <1>3, <1>4 DEF Consecutive

LEMMA InitInput == Init => InputInv
  BY EmptyIsConsecutive, LinkAssumption DEF Init, InputInv

(***************************************************************************)
(* The debugger reads one byte, at a stop or between them.                 *)
(***************************************************************************)
LEMMA DebuggerReadsKeeps ==
  ASSUME InputInv, DebuggerReads, redirected # {}
  PROVE  InputInv'
<1>1. /\ input # <<>> /\ input' = Tail(input)
      /\ received' = Append(received, Head(input))
      /\ UNCHANGED <<stopped, redirected, typed>>
  BY DEF DebuggerReads, brain
<1>2. typed \in Nat /\ Consecutive(input, typed) /\ Consecutive(received, typed - Len(input))
  BY LinkAssumption DEF InputInv
<1>3. /\ Consecutive(input', typed) /\ Len(input') = Len(input) - 1
      /\ Head(input) = typed - Len(input) + 1
  BY <1>1, <1>2, ConsecutiveTail
<1>4. typed - Len(input) \in Nat /\ Len(input) \in Nat
  BY <1>2 DEF Consecutive
<1>5. Consecutive(received', typed - Len(input) + 1)
  BY <1>1, <1>2, <1>3, <1>4, ConsecutiveAppend
<1>6. typed - Len(input) + 1 = typed - Len(input')
  BY <1>2, <1>3, <1>4
<1> QED
  BY <1>1, <1>3, <1>5, <1>6 DEF InputInv

LEMMA NextInput == InputInv /\ [Next]_vars => InputInv'
<1> SUFFICES ASSUME InputInv, [Next]_vars PROVE InputInv'
  OBVIOUS
<1>1. typed \in Nat /\ Len(input) \in Nat /\ typed - Len(input) \in Nat
  BY LinkAssumption DEF InputInv, Consecutive
<1>2. CASE UNCHANGED <<stopped, redirected, inward>>
  BY <1>2 DEF InputInv, inward
<1>3. CASE ForwardInput
  <2>1. /\ typed < MaxTyped /\ typed' = typed + 1 /\ input' = Append(input, typed + 1)
        /\ UNCHANGED <<stopped, redirected, received>>
    BY <1>3 DEF ForwardInput, brain
  <2>2. Consecutive(input', typed') /\ Len(input') = Len(input) + 1
    BY <1>1, <2>1, ConsecutiveAppend DEF InputInv
  <2>3. typed' - Len(input') = typed - Len(input) /\ typed' \in 0 .. MaxTyped
    BY <1>1, <2>1, <2>2, LinkAssumption
  <2> QED
    BY <2>1, <2>2, <2>3 DEF InputInv
<1>4. CASE UserReads
  <2>1. UNCHANGED <<stopped, redirected, typed, received>> /\ input # <<>>
    BY <1>4 DEF UserReads, brain
  <2>2. CASE "vexSerialReadChar" \in redirected
    BY <1>4, <2>1, <2>2 DEF UserReads, InputInv
  <2>3. CASE "vexSerialReadChar" \notin redirected
    <3>1. input' = Tail(input) /\ received = <<>>
      BY <1>4, <2>3 DEF UserReads, InputInv
    <3>2. Consecutive(input', typed) /\ Len(input') = Len(input) - 1
      BY <1>1, <2>1, <3>1, ConsecutiveTail DEF InputInv
    <3>3. typed - Len(input') \in Nat
      BY <1>1, <3>2
    <3> QED
      BY <2>1, <3>1, <3>2, <3>3, EmptyIsConsecutive DEF InputInv
  <2> QED
    BY <2>2, <2>3
<1>5. CASE read \/ try_read
  BY <1>5, DebuggerReadsKeeps DEF read, try_read, InputInv
<1>6. CASE Stop
  <2>1. "vexSerialReadChar" \in redirected' /\ UNCHANGED inward
    BY <1>6 DEF Stop, enable_auto_muxing, redirect_function
  <2>2. redirected' # {}
    BY <2>1
  <2> QED
    BY <2>1, <2>2 DEF InputInv, inward
<1>7. CASE Resume
  BY <1>7 DEF Resume, InputInv, inward
<1>8. CASE \/ \E w \in Writers : write_all(w) \/ WriteRing(w)
           \/ \E data \in UserData : write_buffer(data) \/ vexSerialWriteBuffer(data)
           \/ \E data \in DebugData : DebuggerWrites(data)
           \/ flush_serial
  <2>1. UNCHANGED <<stopped, redirected, inward>>
    BY <1>8 DEF write_all, WriteRing, write_buffer, vexSerialWriteBuffer, DebuggerWrites,
                flush_serial, brain
  <2> QED
    BY <1>2, <2>1
<1>9. CASE ReadUser \/ Parse \/ UNCHANGED vars
  <2>1. UNCHANGED <<stopped, redirected, inward>>
    BY <1>9 DEF ReadUser, Parse, handle_packet, ShowInvalid, SkipByte, AwaitMore, Continue,
                vars, brain
  <2> QED
    BY <1>2, <2>1
<1> QED
  BY <1>3, <1>4, <1>5, <1>6, <1>7, <1>8, <1>9 DEF Next, Brain

(***************************************************************************)
(* Once the session has started, the debugger is the only reader of the    *)
(* port: the bytes it has read and those still waiting are the last bytes  *)
(* sent, none missing, none twice (user::read_char, StdioTransport's read  *)
(* and try_read).                                                          *)
(***************************************************************************)
THEOREM InputStaysWhole == Spec => []InputIsWhole
<1>1. InputInv => InputIsWhole
  <2> SUFFICES ASSUME InputInv PROVE InputIsWhole
    OBVIOUS
  <2> DEFINE bytes == received \o input
  <2>1. received \in Seq(Nat) /\ input \in Seq(Nat)
    BY DEF InputInv, Consecutive
  <2>2. /\ Len(received) \in Nat /\ Len(input) \in Nat /\ typed \in Nat
        /\ bytes \in Seq(Nat) /\ Len(bytes) = Len(received) + Len(input)
        /\ \A i \in 1 .. Len(received) + Len(input) :
             bytes[i] = IF i <= Len(received) THEN received[i] ELSE input[i - Len(received)]
    BY <2>1, ConcatProperties, LinkAssumption DEF InputInv
  <2> HIDE DEF bytes
  <2>3. ASSUME NEW i \in 1 .. Len(bytes) PROVE bytes[i] = typed - Len(bytes) + i
    <3>1. CASE i <= Len(received)
      <4>1. received[i] = typed - Len(input) - Len(received) + i
        BY <2>2, <3>1 DEF InputInv, Consecutive
      <4> QED
        BY <2>2, <3>1, <4>1
    <3>2. CASE i > Len(received)
      <4>1. i - Len(received) \in 1 .. Len(input)
        BY <2>2, <3>2
      <4>2. input[i - Len(received)] = typed - Len(input) + (i - Len(received))
        BY <4>1 DEF InputInv, Consecutive
      <4> QED
        BY <2>2, <3>2, <4>2
    <3> QED
      BY <2>2, <3>1, <3>2
  <2>4. bytes = [i \in 1 .. Len(bytes) |-> typed - Len(bytes) + i]
    BY <2>2, <2>3
  <2> QED
    BY <2>4 DEF InputIsWhole, bytes
<1> QED
  BY <1>1, InitInput, NextInput, PTL DEF Spec

-----------------------------------------------------------------------------
(***************************************************************************)
(* Types.  What the decoder was fed is never a whole frame, so that what   *)
(* it reads ends in the chunk it reads it from; a packet that is not yet   *)
(* in the ring fits the ring, and ends at its only zero.                   *)
(***************************************************************************)
Ended(packet) ==
  /\ packet \in Seq(Byte) /\ Len(packet) <= OutBufSize
  /\ \A i \in 1 .. Len(packet) : packet[i] = 0 <=> i = Len(packet)

BrainBytes ==
  /\ stopped \in BOOLEAN /\ flushing \in BOOLEAN /\ partial \in BOOLEAN /\ clean \in BOOLEAN
  /\ buf \in [Writers -> Seq(Byte)] /\ wrote \in [Writers -> Seq(Byte)]
  /\ frame \in [Writers -> Seq(Byte)] /\ \A w \in Writers : Ended(frame[w])
  /\ calls \in [Writers -> Nat]

HostBytes ==
  /\ incoming \in Seq(Byte) /\ gdb \in Seq(Byte) /\ shown \in Seq(Byte)
  /\ fed \in Seq(Byte) /\ Quiet(fed)

RingBytes == ring \in Seq(Byte) /\ Len(ring) <= OutBufSize

BytesInv == BrainBytes /\ HostBytes /\ RingBytes

LEMMA InitBytes == Init => BytesInv
<1> SUFFICES ASSUME Init PROVE BytesInv
  OBVIOUS
<1>1. <<>> \in Seq(Byte) /\ Len(<<>>) = 0 /\ 0 <= OutBufSize
  BY LinkAssumption
<1>2. Ended(<<>>) /\ Quiet(<<>>)
  BY <1>1 DEF Ended, Quiet
<1>3. BrainBytes
  BY <1>1, <1>2 DEF Init, BrainBytes
<1>4. HostBytes /\ RingBytes
  BY <1>1, <1>2 DEF Init, HostBytes, RingBytes
<1> QED
  BY <1>3, <1>4 DEF BytesInv

LEMMA PackKeepsBytes ==
  ASSUME BytesInv, NEW w \in Writers, write_all(w)
  PROVE  BytesInv'
<1>1. PICK payload : payload = Payload(ChannelOf(w), buf[w])
  OBVIOUS
<1>2. PICK packet : packet = Wire(ChannelOf(w), payload)
  OBVIOUS
<1>3. PICK rest : rest = Without(buf[w], Len(payload))
  OBVIOUS
<1>4. /\ buf' = [buf EXCEPT ![w] = rest] /\ frame' = [frame EXCEPT ![w] = packet]
      /\ UNCHANGED <<stopped, flushing, ring, host, history>>
  BY <1>1, <1>2, <1>3, Zenon DEF write_all, Pack, Wire, Packed
<1>5. buf[w] \in Seq(Byte)
  BY DEF BytesInv, BrainBytes
<1>6. /\ payload \in Seq(Byte) /\ Len(payload) \in 0 .. Len(buf[w])
      /\ Len(Packed(ChannelOf(w), payload)) <= OutBufSize - 1
  BY <1>1, <1>5, PayloadFits
<1>7. rest \in Seq(Byte)
  BY <1>3, <1>5, <1>6, Cut
<1>8. Ended(packet)
  <2>1. PICK e : e = Packed(ChannelOf(w), payload)
    OBVIOUS
  <2>2. /\ packet \in Seq(Byte) /\ Len(packet) = Len(e) + 1 /\ Len(e) \in Nat
        /\ \A i \in 1 .. Len(packet) : packet[i] = 0 <=> i = Len(packet)
    BY <1>2, <1>6, <2>1, WireFacts
  <2>3. Len(packet) <= OutBufSize
    BY <1>6, <2>1, <2>2, LinkAssumption
  <2> QED
    BY <2>2, <2>3 DEF Ended
<1>9. BrainBytes'
  <2>1. packet \in Seq(Byte)
    BY <1>8 DEF Ended
  <2>2. buf' \in [Writers -> Seq(Byte)] /\ frame' \in [Writers -> Seq(Byte)]
    BY <1>4, <1>7, <2>1 DEF BytesInv, BrainBytes
  <2>3. \A v \in Writers : Ended(frame'[v])
    BY <1>4, <1>8 DEF BytesInv, BrainBytes
  <2> QED
    BY <1>4, <2>2, <2>3 DEF BytesInv, BrainBytes, history, Ended
<1> QED
  BY <1>4, <1>9 DEF BytesInv, HostBytes, RingBytes, host, Quiet

LEMMA WriteRingKeepsBytes ==
  ASSUME BytesInv, NEW w \in Writers, WriteRing(w)
  PROVE  BytesInv'
<1>1. PICK packet : packet = frame[w]
  OBVIOUS
<1>2. PICK written : written = Fitting(packet)
  OBVIOUS
<1>3. PICK rest : rest = Without(packet, Len(written))
  OBVIOUS
<1>4. /\ packet # <<>> /\ Len(ring) < OutBufSize
      /\ ring' = ring \o written /\ frame' = [frame EXCEPT ![w] = rest]
      /\ partial' = IF w = "user" THEN rest # <<>> ELSE partial
      /\ clean' = (clean /\ (w = "user" \/ ~partial))
      /\ UNCHANGED <<stopped, buf, flushing, host, wrote, calls>>
  BY <1>1, <1>2, <1>3, Zenon DEF WriteRing
<1>5. Ended(packet) /\ packet \in Seq(Byte)
  BY <1>1 DEF BytesInv, BrainBytes
<1>6. /\ Len(written) \in 0 .. Len(packet)
      /\ written = SubSeq(packet, 1, Len(written))
      /\ ring \o written \in Seq(Byte) /\ Len(ring \o written) <= OutBufSize
  BY <1>2, <1>5, FittingFits DEF BytesInv, RingBytes
<1>7. RingBytes'
  BY <1>4, <1>6 DEF RingBytes
<1>8. /\ rest \in Seq(Byte) /\ Len(rest) = Len(packet) - Len(written)
      /\ \A i \in 1 .. Len(packet) - Len(written) : rest[i] = packet[Len(written) + i]
  <2>1. PICK n \in 0 .. Len(packet) : n = Len(written)
    BY <1>6
  <2>2. rest = Without(packet, n)
    BY <1>3, <2>1
  <2>3. /\ rest \in Seq(Byte) /\ Len(rest) = Len(packet) - n
        /\ \A i \in 1 .. Len(packet) - n : rest[i] = packet[n + i]
    BY <1>5, <2>2, Cut
  <2> QED
    BY <2>1, <2>3
<1>9. Ended(rest)
  <2>1. Len(rest) <= OutBufSize
    BY <1>5, <1>6, <1>8, LinkAssumption DEF Ended
  <2>2. ASSUME NEW i \in 1 .. Len(rest) PROVE rest[i] = 0 <=> i = Len(rest)
    <3>1. PICK at : at = Len(written) + i
      OBVIOUS
    <3>2. rest[i] = packet[at]
      BY <1>8, <3>1
    <3>3. at \in 1 .. Len(packet) /\ (at = Len(packet) <=> i = Len(rest))
      BY <1>5, <1>6, <1>8, <3>1
    <3> QED
      BY <1>5, <3>2, <3>3 DEF Ended
  <2> QED
    BY <1>8, <2>1, <2>2 DEF Ended
<1>10. BrainBytes'
  <2>1. frame' \in [Writers -> Seq(Byte)]
    BY <1>4, <1>8 DEF BytesInv, BrainBytes
  <2>2. \A v \in Writers : Ended(frame'[v])
    BY <1>4, <1>9 DEF BytesInv, BrainBytes
  <2>3. partial' \in BOOLEAN /\ clean' \in BOOLEAN
    BY <1>4, Zenon DEF BytesInv, BrainBytes
  <2> QED
    BY <1>4, <2>1, <2>2, <2>3 DEF BytesInv, BrainBytes, Ended
<1> QED
  BY <1>4, <1>7, <1>10 DEF BytesInv, HostBytes, host, Quiet

\* The calls of the program and of the debugger.
LEMMA CallsKeepBytes ==
  ASSUME BytesInv,
         \/ \E data \in UserData : write_buffer(data) \/ vexSerialWriteBuffer(data)
         \/ \E data \in DebugData : DebuggerWrites(data)
  PROVE  BytesInv'
<1>1. ASSUME NEW data \in UserData \union DebugData PROVE data \in Seq(Byte)
  BY LinkAssumption
<1>2. "user" \in Writers /\ "debugger" \in Writers
  BY DEF Writers
<1>3. ASSUME NEW w \in Writers, NEW data \in Seq(Byte), Call(w),
             buf' = [buf EXCEPT ![w] = data], wrote' = [wrote EXCEPT ![w] = @ \o data],
             flushing' \in BOOLEAN, UNCHANGED <<stopped, frame, ring, host, partial, clean>>
      PROVE  BytesInv'
  <2>1. PICK more : more = wrote[w] \o data
    OBVIOUS
  <2>2. more \in Seq(Byte)
    BY <2>1, Joining, Zenon DEF BytesInv, BrainBytes
  <2>3. wrote' = [wrote EXCEPT ![w] = more]
    BY <1>3, <2>1, Zenon
  <2>4. wrote' \in [Writers -> Seq(Byte)] /\ buf' \in [Writers -> Seq(Byte)]
    BY <1>3, <2>2, <2>3 DEF BytesInv, BrainBytes
  <2>5. calls' \in [Writers -> Nat]
    BY <1>3 DEF Call, BytesInv, BrainBytes
  <2>6. BrainBytes'
    BY <1>3, <2>4, <2>5 DEF BytesInv, BrainBytes, Ended
  <2> QED
    BY <1>3, <2>6 DEF BytesInv, HostBytes, RingBytes, host, Quiet
<1>4. ASSUME NEW data \in UserData, write_buffer(data) PROVE BytesInv'
  BY <1>1, <1>2, <1>3, <1>4 DEF write_buffer, BytesInv, BrainBytes
<1>5. ASSUME NEW data \in DebugData, DebuggerWrites(data) PROVE BytesInv'
  BY <1>1, <1>2, <1>3, <1>5 DEF DebuggerWrites
<1>6. ASSUME NEW data \in UserData, vexSerialWriteBuffer(data) PROVE BytesInv'
  <2>1. PICK written : written = Fitting(data)
    OBVIOUS
  <2>2. /\ ring' = ring \o written /\ clean' = FALSE
        /\ Call("user") /\ UNCHANGED <<brain, host, wrote, partial>>
    BY <1>6, <2>1, Zenon DEF vexSerialWriteBuffer
  <2>3. ring \o written \in Seq(Byte) /\ Len(ring \o written) <= OutBufSize
    BY <1>1, <2>1, FittingFits DEF BytesInv, RingBytes
  <2>4. RingBytes'
    BY <2>2, <2>3 DEF RingBytes
  <2>5. calls' \in [Writers -> Nat]
    BY <1>2, <2>2 DEF Call, BytesInv, BrainBytes
  <2>6. BrainBytes'
    BY <2>2, <2>5 DEF BytesInv, BrainBytes, Ended, brain
  <2> QED
    BY <2>2, <2>4, <2>6 DEF BytesInv, HostBytes, host, Quiet
<1> QED
  BY <1>4, <1>5, <1>6

LEMMA ParseKeepsBytes ==
  ASSUME BytesInv, Parse
  PROVE  BytesInv'
<1>1. PICK report : report = Report
  OBVIOUS
<1>2. PICK n : n = report.parsed - Len(fed)
  OBVIOUS
<1>3. /\ fed \in Seq(Byte) /\ Quiet(fed) /\ incoming \in Seq(Byte)
      /\ gdb \in Seq(Byte) /\ shown \in Seq(Byte)
  BY DEF BytesInv, HostBytes
<1>4. /\ report.status = "more" => Quiet(fed \o incoming)
      /\ report.status = "frame" => n \in 1 .. Len(incoming) /\ report.packet \in Seq(Byte)
  BY <1>1, <1>2, <1>3, PushAnswers DEF Report
<1>5. UNCHANGED <<brain, ring, history>>
  BY DEF Parse, handle_packet, ShowInvalid, SkipByte, AwaitMore, Continue
<1>6. SUFFICES HostBytes'
  BY <1>5 DEF BytesInv, BrainBytes, RingBytes, brain, history, Ended
<1>7. ASSUME NEW m \in 1 .. Len(incoming), Continue(m),
             gdb' \in Seq(Byte), shown' \in Seq(Byte)
      PROVE  HostBytes'
  <2>1. PICK rest : rest = Without(incoming, m)
    OBVIOUS
  <2>2. m \in 0 .. Len(incoming)
    OBVIOUS
  <2>3. rest \in Seq(Byte)
    BY <1>3, <2>1, <2>2, Cut
  <2>4. fed' = <<>> /\ incoming' \in Seq(Byte)
    BY <1>7, <2>1, <2>3 DEF Continue
  <2> QED
    BY <1>7, <2>4 DEF HostBytes, Quiet
<1>8. ASSUME handle_packet PROVE HostBytes'
  <2>1. report.status = "frame" /\ report.packet # <<>> /\ Continue(n)
    BY <1>1, <1>2, <1>8, Zenon DEF handle_packet, IsValid, ParsedSize
  <2>2. PICK body : body = Tail(report.packet)
    OBVIOUS
  <2>3. body \in Seq(Byte)
    BY <1>4, <2>1, <2>2, HeadTailProperties
  <2>4. /\ shown' = shown \/ shown' = shown \o body
        /\ gdb' = gdb \/ gdb' = gdb \o body
    BY <1>1, <1>8, <2>2, Zenon DEF handle_packet
  <2>5. gdb' \in Seq(Byte) /\ shown' \in Seq(Byte)
    <3>1. gdb \o body \in Seq(Byte) /\ shown \o body \in Seq(Byte)
      BY <1>3, <2>3, Joining, Zenon
    <3> QED
      BY <1>3, <2>4, <3>1, Zenon
  <2> QED
    BY <1>4, <1>7, <2>1, <2>5
<1>9. ASSUME ShowInvalid PROVE HostBytes'
  <2>1. /\ report.status = "frame" /\ gdb' = gdb /\ Continue(n)
        /\ shown' = shown \o SubSeq(incoming, 1, n)
    BY <1>1, <1>2, <1>9, Zenon DEF ShowInvalid, ParsedSize
  <2>2. n \in 1 .. Len(incoming) /\ n \in 0 .. Len(incoming)
    BY <1>4, <2>1
  <2>3. SubSeq(incoming, 1, n) \in Seq(Byte)
    BY <1>3, <2>2, Cut
  <2>4. shown' \in Seq(Byte) /\ gdb' \in Seq(Byte)
    BY <1>3, <2>1, <2>3, Joining, Zenon
  <2> QED
    BY <1>7, <2>1, <2>2, <2>4
<1>10. ASSUME SkipByte PROVE HostBytes'
  <2>1. incoming # <<>> /\ gdb' = gdb /\ shown' = Append(shown, Head(incoming)) /\ Continue(1)
    BY <1>10 DEF SkipByte
  <2>2. Head(incoming) \in Byte /\ 1 \in 1 .. Len(incoming)
    BY <1>3, <2>1, HeadTailProperties, EmptySeq
  <2>3. shown' \in Seq(Byte)
    BY <1>3, <2>1, <2>2, AppendProperties
  <2> QED
    BY <1>3, <1>7, <2>1, <2>2, <2>3
<1>11. ASSUME AwaitMore PROVE HostBytes'
  <2>1. /\ report.status = "more" /\ fed' = fed \o incoming /\ incoming' = <<>>
        /\ UNCHANGED <<gdb, shown>>
    BY <1>1, <1>11, Zenon DEF AwaitMore, KeepRest
  <2>2. PICK kept : kept = fed \o incoming
    OBVIOUS
  <2>3. kept \in Seq(Byte) /\ Quiet(kept)
    BY <1>3, <1>4, <2>1, <2>2, Joining, Zenon
  <2>4. fed' = kept
    BY <2>1, <2>2
  <2> QED
    BY <1>3, <2>1, <2>3, <2>4, EmptySeq DEF HostBytes, Quiet
<1> QED
  BY <1>8, <1>9, <1>10, <1>11 DEF Parse

LEMMA NextBytes == BytesInv /\ [Next]_vars => BytesInv'
<1> SUFFICES ASSUME BytesInv, [Next]_vars PROVE BytesInv'
  OBVIOUS
<1>1. CASE \E w \in Writers : write_all(w) \/ WriteRing(w)
  BY <1>1, PackKeepsBytes, WriteRingKeepsBytes
<1>2. CASE \/ \E data \in UserData : write_buffer(data) \/ vexSerialWriteBuffer(data)
           \/ \E data \in DebugData : DebuggerWrites(data)
  BY <1>2, CallsKeepBytes
<1>3. CASE Parse
  BY <1>3, ParseKeepsBytes
<1>4. CASE flush_serial \/ Stop \/ Resume \/ UserReads \/ read \/ try_read \/ ForwardInput
           \/ UNCHANGED vars
  <2>1. /\ UNCHANGED <<buf, frame, ring, host, history>>
        /\ stopped' \in BOOLEAN /\ flushing' \in BOOLEAN
    BY <1>4 DEF flush_serial, Stop, Resume, UserReads, read, try_read, DebuggerReads,
                ForwardInput, vars, brain, BytesInv, BrainBytes
  <2>2. BrainBytes'
    BY <2>1 DEF BytesInv, BrainBytes, history, Ended
  <2> QED
    BY <2>1, <2>2 DEF BytesInv, HostBytes, RingBytes, host, Quiet
<1>5. CASE ReadUser
  <2>1. PICK n \in 1 .. Len(ring) : incoming' = SubSeq(ring, 1, n) /\ ring' = Without(ring, n)
    BY <1>5 DEF ReadUser
  <2>2. UNCHANGED <<brain, fed, gdb, shown, history>>
    BY <1>5 DEF ReadUser
  <2>3. ring \in Seq(Byte) /\ Len(ring) <= OutBufSize /\ n \in 0 .. Len(ring)
    BY DEF BytesInv, RingBytes
  <2>4. PICK first, rest : first = SubSeq(ring, 1, n) /\ rest = Without(ring, n)
    OBVIOUS
  <2>5. first \in Seq(Byte) /\ rest \in Seq(Byte) /\ Len(rest) = Len(ring) - n
    BY <2>3, <2>4, Cut
  <2>6. incoming' = first /\ ring' = rest /\ Len(rest) <= OutBufSize
    BY <2>1, <2>3, <2>4, <2>5, LinkAssumption
  <2>7. BrainBytes'
    BY <2>2 DEF BytesInv, BrainBytes, brain, history, Ended
  <2> QED
    BY <2>2, <2>5, <2>6, <2>7 DEF BytesInv, HostBytes, RingBytes, Quiet
<1> QED
  BY <1>1, <1>2, <1>3, <1>4, <1>5 DEF Next, Brain

LEMMA ConsecutiveInRange ==
  ASSUME NEW bytes, NEW last \in 0 .. MaxTyped, Consecutive(bytes, last)
  PROVE  bytes \in Seq(1 .. MaxTyped)
<1>1. bytes \in Seq(Nat) /\ Len(bytes) \in Nat /\ MaxTyped \in Nat
  BY LinkAssumption DEF Consecutive
<1>2. ASSUME NEW i \in 1 .. Len(bytes) PROVE bytes[i] \in 1 .. MaxTyped
  BY <1>1 DEF Consecutive
<1>3. bytes = [i \in 1 .. Len(bytes) |-> bytes[i]]
  BY <1>1
<1>4. bytes \in [1 .. Len(bytes) -> 1 .. MaxTyped]
  BY <1>2, <1>3
<1> QED
  BY <1>1, <1>4, SeqDef

(***************************************************************************)
(* Every variable has its type; the ring and every packet fit their        *)
(* buffers, and a packet ends at its only zero, for any buffer, any blocks *)
(* and any writes (mux::write_all, serial::write_all, the host's decoder). *)
(***************************************************************************)
THEOREM TypeCorrect == Spec => []TypeOK
<1>1. BytesInv /\ InputInv => TypeOK
  <2> SUFFICES ASSUME BytesInv, InputInv PROVE TypeOK
    OBVIOUS
  <2>1. {stopped, flushing, partial, clean} \subseteq BOOLEAN
    BY Zenon DEF BytesInv, BrainBytes
  <2>2. /\ buf \in [Writers -> Seq(Byte)] /\ wrote \in [Writers -> Seq(Byte)]
        /\ calls \in [Writers -> Nat]
    BY DEF BytesInv, BrainBytes
  <2>3. ASSUME NEW w \in Writers
        PROVE  /\ frame[w] \in Seq(Byte) /\ Len(frame[w]) <= OutBufSize
               /\ frame[w] # <<>> =>
                    \A i \in DOMAIN frame[w] : frame[w][i] = 0 <=> i = Len(frame[w])
    <3>1. Ended(frame[w])
      BY DEF BytesInv, BrainBytes
    <3>2. PICK packet : packet = frame[w]
      OBVIOUS
    <3>3. DOMAIN packet = 1 .. Len(packet)
      BY <3>1, <3>2, LenProperties DEF Ended
    <3> QED
      BY <3>1, <3>2, <3>3, Zenon DEF Ended
  <2>4. ring \in Seq(Byte) /\ Len(ring) <= OutBufSize
    BY DEF BytesInv, RingBytes
  <2>5. {incoming, fed, gdb, shown} \subseteq Seq(Byte)
    BY Zenon DEF BytesInv, HostBytes
  <2>6. typed \in 0 .. MaxTyped /\ typed - Len(input) \in 0 .. MaxTyped
    BY LinkAssumption DEF InputInv, Consecutive
  <2>7. {input, received} \subseteq Seq(1 .. MaxTyped)
    <3>1. input \in Seq(1 .. MaxTyped)
      BY <2>6, ConsecutiveInRange DEF InputInv
    <3>2. received \in Seq(1 .. MaxTyped)
      BY <2>6, ConsecutiveInRange DEF InputInv
    <3> QED
      BY <3>1, <3>2, Zenon
  <2> QED
    BY <2>1, <2>2, <2>3, <2>4, <2>5, <2>6, <2>7, Zenon DEF TypeOK
<1> QED
  BY <1>1, InitInput, NextInput, InitBytes, NextBytes, PTL DEF Spec


-----------------------------------------------------------------------------
(***************************************************************************)
(* Packed streams.  A stream of packets carries to each writer's reader    *)
(* the bodies of that writer's packets: the smallest relation that holds   *)
(* of the empty stream and goes on holding when a packet is put in front.  *)
(***************************************************************************)
Bodies == [Writers -> Seq(Byte)]

Nothing == [w \in Writers |-> <<>>]

Before(w, body, rest) == [v \in Writers |-> IF v = w THEN body \o rest[v] ELSE rest[v]]

After(w, body, rest) == [v \in Writers |-> IF v = w THEN rest[v] \o body ELSE rest[v]]

WireOf(w, body) == Wire(ChannelOf(w), body)

TakesPackets(R) ==
  /\ <<<<>>, Nothing>> \in R
  /\ \A w \in Writers, body \in Seq(Byte), stream \in Seq(Byte), rest \in Bodies :
       <<stream, rest>> \in R => <<WireOf(w, body) \o stream, Before(w, body, rest)>> \in R

Carries(stream, rest) ==
  \A R \in SUBSET (Seq(Byte) \X Bodies) : TakesPackets(R) => <<stream, rest>> \in R

LEMMA WireTyped == \A w \in Writers, body \in Seq(Byte) : WireOf(w, body) \in Seq(Byte)
  BY WireFacts DEF WireOf

LEMMA BodiesTyped ==
  /\ Nothing \in Bodies
  /\ \A w \in Writers, body \in Seq(Byte), rest \in Bodies :
       Before(w, body, rest) \in Bodies /\ After(w, body, rest) \in Bodies
<1>1. Nothing \in Bodies
  BY Joining DEF Nothing, Bodies
<1>2. ASSUME NEW w \in Writers, NEW body \in Seq(Byte), NEW rest \in Bodies
      PROVE  Before(w, body, rest) \in Bodies /\ After(w, body, rest) \in Bodies
  <2>1. \A v \in Writers : rest[v] \in Seq(Byte)
    BY DEF Bodies
  <2>2. \A v \in Writers : body \o rest[v] \in Seq(Byte) /\ rest[v] \o body \in Seq(Byte)
    BY <2>1, Joining, Zenon
  <2> QED
    BY <2>1, <2>2, Zenon DEF Before, After, Bodies
<1> QED
  BY <1>1, <1>2

LEMMA EmptyCarries == Carries(<<>>, Nothing)
  BY Zenon DEF Carries, TakesPackets

LEMMA PacketBefore ==
  ASSUME NEW w \in Writers, NEW body \in Seq(Byte),
         NEW stream \in Seq(Byte), NEW rest \in Bodies, Carries(stream, rest)
  PROVE  Carries(WireOf(w, body) \o stream, Before(w, body, rest))
  BY Zenon DEF Carries, TakesPackets

\* A stream that is not empty begins with a packet.
Begins(stream, rest) ==
  \/ stream = <<>> /\ rest = Nothing
  \/ \E w \in Writers, body \in Seq(Byte), more \in Seq(Byte), others \in Bodies :
       /\ Carries(more, others)
       /\ stream = WireOf(w, body) \o more /\ rest = Before(w, body, others)

LEMMA FirstPacket ==
  ASSUME NEW stream, NEW rest, Carries(stream, rest)
  PROVE  Begins(stream, rest)
<1> DEFINE R == {t \in Seq(Byte) \X Bodies : Carries(t[1], t[2]) /\ Begins(t[1], t[2])}
<1>1. <<<<>>, Nothing>> \in R
  <2>1. <<<<>>, Nothing>> \in Seq(Byte) \X Bodies
    BY Joining, BodiesTyped
  <2>2. Begins(<<>>, Nothing) /\ Carries(<<>>, Nothing)
    BY EmptyCarries DEF Begins
  <2> QED
    BY <2>1, <2>2
<1>2. ASSUME NEW w \in Writers, NEW body \in Seq(Byte),
             NEW more \in Seq(Byte), NEW others \in Bodies, <<more, others>> \in R
      PROVE  <<WireOf(w, body) \o more, Before(w, body, others)>> \in R
  <2>1. PICK s, r : s = WireOf(w, body) \o more /\ r = Before(w, body, others)
    OBVIOUS
  <2>2. s \in Seq(Byte) /\ r \in Bodies
    <3>1. WireOf(w, body) \in Seq(Byte)
      BY WireTyped
    <3> QED
      BY <2>1, <3>1, Joining, BodiesTyped, Zenon
  <2>3. Carries(more, others)
    BY <1>2
  <2>4. Carries(s, r)
    BY <2>1, <2>3, PacketBefore, Zenon
  <2>5. Begins(s, r)
    BY <2>1, <2>3, Zenon DEF Begins
  <2> QED
    BY <2>1, <2>2, <2>4, <2>5
<1>3. TakesPackets(R)
  <2> HIDE DEF R
  <2> QED
    BY <1>1, <1>2 DEF TakesPackets
<1>4. R \in SUBSET (Seq(Byte) \X Bodies)
  OBVIOUS
<1>5. <<stream, rest>> \in R
  <2> HIDE DEF R
  <2> QED
    BY <1>3, <1>4, Zenon DEF Carries
<1> QED
  BY <1>5

\* A packet may be put at the end as well.
LEMMA PacketAfter ==
  ASSUME NEW w \in Writers, NEW body \in Seq(Byte), NEW stream, NEW rest, Carries(stream, rest)
  PROVE  Carries(stream \o WireOf(w, body), After(w, body, rest))
<1>1. PICK last : last = WireOf(w, body) /\ last \in Seq(Byte)
  BY WireTyped
<1> DEFINE R == {t \in Seq(Byte) \X Bodies : Carries(t[1] \o last, After(w, body, t[2]))}
<1>2. <<<<>>, Nothing>> \in R
  <2>1. <<<<>>, Nothing>> \in Seq(Byte) \X Bodies
    BY Joining, BodiesTyped
  <2>2. <<>> \o last = last \o <<>>
    BY <1>1, Joining, Zenon
  <2>3. After(w, body, Nothing) = Before(w, body, Nothing)
    <3>1. <<>> \o body = body \o <<>>
      BY Joining, Zenon
    <3> QED
      BY <3>1, Zenon DEF After, Before, Nothing
  <2>4. Carries(last \o <<>>, Before(w, body, Nothing))
    BY <1>1, EmptyCarries, PacketBefore, BodiesTyped, Joining, Zenon
  <2>5. Carries(<<>> \o last, After(w, body, Nothing))
    BY <2>2, <2>3, <2>4, Zenon
  <2> QED
    BY <2>1, <2>5
<1>3. ASSUME NEW v \in Writers, NEW front \in Seq(Byte),
             NEW more \in Seq(Byte), NEW others \in Bodies, <<more, others>> \in R
      PROVE  <<WireOf(v, front) \o more, Before(v, front, others)>> \in R
  <2>1. Carries(more \o last, After(w, body, others))
    BY <1>3
  <2>2. PICK first : first = WireOf(v, front) /\ first \in Seq(Byte)
    BY WireTyped
  <2>3. more \o last \in Seq(Byte) /\ After(w, body, others) \in Bodies
    BY <1>1, Joining, BodiesTyped, Zenon
  <2>4. Carries(first \o (more \o last), Before(v, front, After(w, body, others)))
    BY <2>1, <2>2, <2>3, PacketBefore, Zenon
  <2>5. first \o (more \o last) = (first \o more) \o last
    BY <1>1, <2>2, Regroup, ZenonT(60)
  <2>6. Before(v, front, After(w, body, others)) = After(w, body, Before(v, front, others))
    <3>1. \A u \in Writers : front \o (others[u] \o body) = (front \o others[u]) \o body
      <4>1. \A u \in Writers : others[u] \in Seq(Byte)
        BY DEF Bodies
      <4> QED
        BY <4>1, Regroup, ZenonT(60)
    <3>2. \A u \in Writers : Before(v, front, After(w, body, others))[u]
                                = After(w, body, Before(v, front, others))[u]
      BY <3>1, Zenon DEF Before, After
    <3> QED
      BY <3>2, Zenon DEF Before, After
  <2>7. first \o more \in Seq(Byte) /\ Before(v, front, others) \in Bodies
    BY <2>2, Joining, BodiesTyped, Zenon
  <2>8. Carries((first \o more) \o last, After(w, body, Before(v, front, others)))
    BY <2>4, <2>5, <2>6, Zenon
  <2>9. PICK s, r : s = first \o more /\ r = Before(v, front, others)
    OBVIOUS
  <2>10. <<s, r>> \in R
    BY <2>7, <2>8, <2>9
  <2> QED
    BY <2>2, <2>9, <2>10
<1>4. TakesPackets(R)
  <2> HIDE DEF R
  <2> QED
    BY <1>2, <1>3 DEF TakesPackets
<1>5. R \in SUBSET (Seq(Byte) \X Bodies)
  OBVIOUS
<1>6. <<stream, rest>> \in R
  <2> HIDE DEF R
  <2> QED
    BY <1>4, <1>5, Zenon DEF Carries
<1> QED
  BY <1>1, <1>6


(***************************************************************************)
(* What the decoder answers on packets: the first of them, as soon as it   *)
(* has been fed all of it.                                                 *)
(***************************************************************************)
IsSplit(all, s, t) == all = s \o t

LEMMA WithoutFirst ==
  ASSUME NEW s \in Seq(Byte), NEW t \in Seq(Byte), NEW f \in Seq(Byte), NEW more \in Seq(Byte),
         NEW all, IsSplit(all, s, t), IsSplit(all, f, more), NEW n \in 0 .. Len(s), n = Len(f)
  PROVE  IsSplit(more, Without(s, n), t)
<1>1. PICK first, rest : first = SubSeq(s, 1, n) /\ rest = Without(s, n)
  OBVIOUS
<1>2. first \in Seq(Byte) /\ Len(first) = n /\ rest \in Seq(Byte)
  BY <1>1, CutTyped, Zenon
<1>3. first \o rest = s
  BY <1>1, CutJoins, Zenon
<1>4. \A u \in Seq(Byte) : (first \o rest) \o u = first \o (rest \o u)
  BY <1>2, Regroup, ZenonT(60)
<1>5. (first \o rest) \o t = first \o (rest \o t)
  BY <1>4, Zenon
<1>6. PICK u : u = rest \o t
  OBVIOUS
<1>7. u \in Seq(Byte)
  BY <1>2, <1>6, Joining, Zenon
<1>8. first \o u = f \o more
  BY <1>3, <1>5, <1>6, Zenon DEF IsSplit
<1>9. Len(first) = Len(f)
  BY <1>2
<1>10. u = more
  BY <1>2, <1>7, <1>8, <1>9, SameCut, Zenon
<1> QED
  BY <1>1, <1>6, <1>10 DEF IsSplit

LEMMA ReadsFirstPacket ==
  ASSUME NEW bytes \in Seq(Byte), NEW after \in Seq(Byte), ~Quiet(bytes),
         NEW w \in Writers, NEW body \in Seq(Byte), NEW more \in Seq(Byte),
         NEW all, IsSplit(all, bytes, after), IsSplit(all, WireOf(w, body), more)
  PROVE  \E n \in 1 .. Len(bytes) :
           /\ Push(bytes) = [status |-> "frame", parsed |-> n, packet |-> <<ChannelOf(w)>> \o body]
           /\ IsSplit(more, Without(bytes, n), after)
<1>1. PICK f, e : f = WireOf(w, body) /\ e = Packed(ChannelOf(w), body)
  OBVIOUS
<1>2. /\ f \in Seq(Byte) /\ Len(f) = Len(e) + 1 /\ Len(e) \in Nat \ {0}
      /\ \A i \in 1 .. Len(e) : f[i] = e[i]
      /\ \A i \in 1 .. Len(f) : f[i] = 0 <=> i = Len(f)
  BY <1>1, WireFacts DEF WireOf
<1>3. all = bytes \o after /\ all = f \o more
  BY <1>1, Zenon DEF IsSplit
<1>4. Len(bytes) \in Nat /\ Len(after) \in Nat /\ Len(more) \in Nat
  OBVIOUS
<1>5. \A i \in 1 .. Len(bytes) : i <= Len(f) => bytes[i] = f[i]
  <2>1. \A i \in 1 .. Len(bytes) + Len(after) :
          (bytes \o after)[i] = IF i <= Len(bytes) THEN bytes[i] ELSE after[i - Len(bytes)]
    BY ConcatProperties
  <2>2. \A i \in 1 .. Len(f) + Len(more) :
          (f \o more)[i] = IF i <= Len(f) THEN f[i] ELSE more[i - Len(f)]
    BY <1>2, ConcatProperties
  <2>3. ASSUME NEW i \in 1 .. Len(bytes), i <= Len(f) PROVE bytes[i] = f[i]
    <3>1. /\ i \in 1 .. Len(bytes) + Len(after) /\ i \in 1 .. Len(f) + Len(more)
          /\ i <= Len(bytes) /\ i <= Len(f)
      BY <1>2, <1>4, <2>3
    <3> QED
      BY <1>3, <2>1, <2>2, <3>1, Zenon
  <2> QED
    BY <2>3
<1>6. PICK start, end \in Nat :
        /\ Reads(bytes, start, end)
        /\ Push(bytes) = Verdict(SubSeq(bytes, start, end - 1), end)
  BY PushEnds
<1>7. start \in 1 .. Len(bytes) /\ end \in start + 1 .. Len(bytes) /\ bytes[end] = 0
  BY <1>6 DEF Reads
<1>8. start = 1
  <2>1. bytes[1] # 0
    <3>1. 1 \in 1 .. Len(bytes) /\ 1 <= Len(f) /\ 1 \in 1 .. Len(f) /\ 1 # Len(f)
      BY <1>2, <1>4, <1>7
    <3> QED
      BY <1>2, <1>5, <3>1, Zenon
  <2>2. start # 1 => 1 \in 1 .. start - 1
    BY <1>7
  <2> QED
    BY <1>6, <2>1, <2>2, Zenon DEF Reads
<1>9. end = Len(f)
  <2>1. CASE end < Len(f)
    <3>1. end \in 1 .. Len(bytes) /\ end <= Len(f) /\ end \in 1 .. Len(f) /\ end # Len(f)
      BY <1>2, <1>4, <1>7, <2>1
    <3> QED
      BY <1>2, <1>5, <1>7, <3>1, Zenon
  <2>2. CASE end > Len(f)
    <3>1. PICK n : n = Len(f)
      OBVIOUS
    <3>2. n \in 1 .. Len(bytes) /\ n <= Len(f) /\ n \in 1 .. Len(f) /\ n \in start .. end - 1
      BY <1>2, <1>4, <1>7, <1>8, <2>2, <3>1
    <3>3. bytes[n] = 0
      BY <1>2, <1>5, <3>1, <3>2, Zenon
    <3>4. bytes[n] # 0
      BY <1>6, <3>2 DEF Reads
    <3> QED
      BY <3>3, <3>4
  <2>3. Len(f) \in Nat
    BY <1>2
  <2> QED
    BY <2>1, <2>2, <2>3
<1>10. SubSeq(bytes, 1, end - 1) = e
  <2>1. PICK part : part = SubSeq(bytes, 1, end - 1)
    OBVIOUS
  <2>2. PICK n : n = end - 1
    OBVIOUS
  <2>3. n \in 0 .. Len(bytes) /\ n = Len(e)
    BY <1>2, <1>4, <1>7, <1>9, <2>2
  <2>4. part \in Seq(Byte) /\ Len(part) = n /\ \A i \in 1 .. n : part[i] = bytes[i]
    BY <2>1, <2>2, <2>3, Cut
  <2>5. e \in Seq(Byte)
    <3>1. e \in Seq(NonZero)
      BY <1>1, PackedTyped
    <3> QED
      BY <3>1, SeqMonotonic DEF NonZero
  <2>6. ASSUME NEW i \in 1 .. Len(part) PROVE part[i] = e[i]
    <3>1. i \in 1 .. Len(bytes) /\ i <= Len(f) /\ i \in 1 .. Len(e) /\ i \in 1 .. n
      BY <1>2, <2>3, <2>4
    <3> QED
      BY <1>2, <1>5, <2>4, <3>1, Zenon
  <2>7. part = e
    BY <2>3, <2>4, <2>5, <2>6, SeqEqual
  <2> QED
    BY <2>1, <2>7
<1>11. Push(bytes) = [status |-> "frame", parsed |-> end, packet |-> <<ChannelOf(w)>> \o body]
  <2>1. PICK message : message = <<ChannelOf(w)>> \o body /\ message \in Seq(Byte)
    BY Channels, Joining, Zenon
  <2>2. e = Encode(message)
    BY <1>1, <2>1 DEF Packed
  <2>3. WholeFrom(e)[1] /\ Decode(e) = message
    BY <2>1, <2>2, DecodeEncode
  <2>4. Push(bytes) = Verdict(e, end)
    BY <1>6, <1>8, <1>10, Zenon
  <2> QED
    BY <2>1, <2>3, <2>4, Zenon DEF Verdict
<1>12. end \in 1 .. Len(bytes)
  BY <1>4, <1>7
<1>13. IsSplit(more, Without(bytes, end), after)
  <2>1. IsSplit(all, bytes, after) /\ IsSplit(all, f, more)
    BY <1>3, Zenon DEF IsSplit
  <2>2. end \in 0 .. Len(bytes) /\ end = Len(f) /\ f \in Seq(Byte)
    BY <1>2, <1>9, <1>12
  <2> QED
    BY <2>1, <2>2, WithoutFirst
<1> QED
  BY <1>11, <1>12, <1>13


-----------------------------------------------------------------------------
(***************************************************************************)
(* The two streams.  While no byte is written outside a frame, what is on  *)
(* its way to the decoder, together with the rest of the packet that is    *)
(* partly in the ring, is a stream of packets.  What a writer has written  *)
(* is what its reader has, what that stream carries to it, what its packet *)
(* holds if none of it is in the ring, and what is yet to be packed.       *)
(***************************************************************************)
Out(w) == IF w = "user" THEN shown ELSE gdb

Rest(begun) == IF begun \in Writers THEN frame[begun] ELSE <<>>

OnItsWay(begun) == (fed \o incoming) \o (ring \o Rest(begun))

Holds(begun, held) ==
  \A w \in Writers : IF w = begun \/ frame[w] = <<>> THEN held[w] = <<>>
                     ELSE frame[w] = WireOf(w, held[w])

Written(rest, held) ==
  \A w \in Writers : wrote[w] = Out(w) \o (rest[w] \o (held[w] \o buf[w]))

Begun(begun) ==
  /\ begun # "none" => frame[begun] # <<>>
  /\ begun = "user" <=> partial

Accounted(begun, rest, held) ==
  /\ Begun(begun)
  /\ Carries(OnItsWay(begun), rest)
  /\ Holds(begun, held)
  /\ Written(rest, held)

Nobody == Writers \union {"none"}

\* While the program runs the debugger holds nothing back.
MonitorInv == ~stopped => buf["debugger"] = <<>> /\ frame["debugger"] = <<>>

StreamsInv ==
  clean => \E begun \in Nobody, rest \in Bodies, held \in Bodies : Accounted(begun, rest, held)

LEMMA InitStreams == Init => MonitorInv /\ StreamsInv
<1> SUFFICES ASSUME Init PROVE MonitorInv /\ StreamsInv
  OBVIOUS
<1>1. \A w \in Writers : buf[w] = <<>> /\ frame[w] = <<>> /\ wrote[w] = <<>> /\ Out(w) = <<>>
  BY DEF Init, Out
<1>2. "debugger" \in Writers /\ "none" \notin Writers
  BY DEF Writers
<1>3. MonitorInv
  BY <1>1, <1>2 DEF MonitorInv
<1>4. fed = <<>> /\ incoming = <<>> /\ ring = <<>> /\ partial = FALSE
  BY DEF Init
<1>5. <<>> \o <<>> = <<>>
  BY Joining, Zenon
<1>6. OnItsWay("none") = <<>>
  BY <1>2, <1>4, <1>5, Zenon DEF OnItsWay, Rest
<1>7. Carries(OnItsWay("none"), Nothing)
  BY <1>6, EmptyCarries, Zenon
<1>8. Holds("none", Nothing)
  BY <1>1, Zenon DEF Holds, Nothing
<1>9. Written(Nothing, Nothing)
  BY <1>1, <1>5, Zenon DEF Written, Nothing
<1>10. Begun("none")
  BY <1>4 DEF Begun
<1>11. Accounted("none", Nothing, Nothing)
  BY <1>7, <1>8, <1>9, <1>10, Zenon DEF Accounted
<1> QED
  BY <1>3, <1>11, BodiesTyped, Zenon DEF StreamsInv, Nobody

LEMMA NextMonitor == BytesInv /\ MonitorInv /\ [Next]_vars => MonitorInv'
<1> SUFFICES ASSUME BytesInv, MonitorInv, [Next]_vars PROVE MonitorInv'
  OBVIOUS
<1>0. /\ stopped \in BOOLEAN /\ buf \in [Writers -> Seq(Byte)] /\ frame \in [Writers -> Seq(Byte)]
      /\ "user" \in Writers /\ "debugger" \in Writers
  BY DEF BytesInv, BrainBytes, Writers
<1>1. ASSUME NEW w \in Writers, write_all(w) \/ WriteRing(w) PROVE MonitorInv'
  <2>1. /\ stopped = (w = "debugger") /\ stopped' = stopped
        /\ \A v \in Writers : v # w => buf'[v] = buf[v] /\ frame'[v] = frame[v]
    BY <1>0, <1>1 DEF write_all, WriteRing, Runs, Pack
  <2> QED
    BY <1>0, <2>1 DEF MonitorInv
<1>2. ASSUME NEW data, write_buffer(data) \/ vexSerialWriteBuffer(data) PROVE MonitorInv'
  <2>1. UNCHANGED <<stopped, frame>> /\ buf'["debugger"] = buf["debugger"]
    BY <1>0, <1>2 DEF write_buffer, vexSerialWriteBuffer, brain
  <2> QED
    BY <2>1 DEF MonitorInv
<1>3. ASSUME NEW data, DebuggerWrites(data) PROVE MonitorInv'
  BY <1>0, <1>3 DEF DebuggerWrites, Call, Runs, MonitorInv
<1>4. CASE Resume
  BY <1>4 DEF Resume, Waiting, MonitorInv
<1>5. CASE Stop
  BY <1>5 DEF Stop, MonitorInv
<1>6. CASE flush_serial \/ UserReads \/ read \/ try_read \/ ForwardInput \/ ReadUser \/ Parse
           \/ UNCHANGED vars
  <2>1. UNCHANGED <<stopped, buf, frame>>
    BY <1>6 DEF flush_serial, UserReads, read, try_read, DebuggerReads, ForwardInput, ReadUser,
                Parse, handle_packet, ShowInvalid, SkipByte, AwaitMore, Continue, vars, brain
  <2> QED
    BY <2>1 DEF MonitorInv
<1> QED
  BY <1>1, <1>2, <1>3, <1>4, <1>5, <1>6 DEF Next, Brain

\* A step that leaves the bytes where they are.
LEMMA StreamsStay ==
  ASSUME StreamsInv, UNCHANGED <<buf, frame, ring, host, history>>
  PROVE  StreamsInv'
<1>1. ASSUME NEW begun, NEW rest, NEW held, Accounted(begun, rest, held)
      PROVE  Accounted(begun, rest, held)'
  <2>1. Begun(begun)'
    BY <1>1 DEF Accounted, Begun, history
  <2>2. Holds(begun, held)' /\ Written(rest, held)'
    BY <1>1 DEF Accounted, Holds, Written, Out, host, history
  <2>3. OnItsWay(begun)' = OnItsWay(begun)
    BY DEF OnItsWay, Rest, host
  <2> QED
    BY <1>1, <2>1, <2>2, <2>3, Zenon DEF Accounted
<1>2. clean' = clean
  BY DEF history
<1> QED
  BY <1>1, <1>2, Zenon DEF StreamsInv


\* What write_all takes from buf goes into the writer's packet.
LEMMA PackKeepsStreams ==
  ASSUME BytesInv, StreamsInv, NEW w \in Writers, write_all(w)
  PROVE  StreamsInv'
<1>0. UNCHANGED <<ring, host, history>> /\ frame[w] = <<>>
  BY DEF write_all
<1>1. CASE ~clean
  BY <1>0, <1>1 DEF StreamsInv, history
<1>2. CASE clean
  <2>1. PICK begun \in Nobody, rest \in Bodies, held \in Bodies : Accounted(begun, rest, held)
    BY <1>2 DEF StreamsInv
  <2>2. PICK payload, packet, left : /\ payload = Payload(ChannelOf(w), buf[w])
                                     /\ packet = WireOf(w, payload)
                                     /\ left = Without(buf[w], Len(payload))
    OBVIOUS
  <2>3. buf' = [buf EXCEPT ![w] = left] /\ frame' = [frame EXCEPT ![w] = packet]
    BY <2>2, Zenon DEF write_all, Pack, WireOf, Wire, Packed
  <2>4. /\ buf \in [Writers -> Seq(Byte)] /\ frame \in [Writers -> Seq(Byte)]
        /\ buf[w] \in Seq(Byte)
    BY DEF BytesInv, BrainBytes
  <2>5. /\ payload \in Seq(Byte) /\ Len(payload) \in 0 .. Len(buf[w])
        /\ payload = SubSeq(buf[w], 1, Len(payload))
    BY <2>2, <2>4, PayloadFits
  <2>6. payload \o left = buf[w] /\ left \in Seq(Byte)
    BY <2>2, <2>4, <2>5, CutJoins, CutTyped, Zenon
  <2>7. packet # <<>>
    <3>1. packet = Wire(ChannelOf(w), payload)
      BY <2>2 DEF WireOf
    <3> QED
      BY <2>5, <3>1, WireFacts
  <2>8. begun # w
    BY <1>0, <2>1 DEF Accounted, Begun, Writers
  <2> DEFINE now == [v \in Writers |-> IF v = w THEN payload ELSE held[v]]
  <2>9. now \in Bodies
    BY <2>5 DEF Bodies
  <2>10. Begun(begun)'
    <3>1. begun # "none" => frame'[begun] = frame[begun]
      BY <2>3, <2>4, <2>8 DEF Nobody
    <3> QED
      BY <1>0, <2>1, <3>1 DEF Accounted, Begun, history
  <2>11. OnItsWay(begun)' = OnItsWay(begun)
    <3>1. Rest(begun)' = Rest(begun)
      BY <2>3, <2>4, <2>8 DEF Rest
    <3> QED
      BY <1>0, <3>1, Zenon DEF OnItsWay, host
  <2>12. Holds(begun, now)'
    <3>1. ASSUME NEW v \in Writers
          PROVE  IF v = begun \/ frame'[v] = <<>> THEN now[v] = <<>> ELSE frame'[v] = WireOf(v, now[v])
      <4>1. CASE v = w
        <5>1. frame'[v] = packet /\ now[v] = payload
          BY <2>3, <2>4, <4>1
        <5> QED
          BY <2>2, <2>7, <2>8, <4>1, <5>1, Zenon
      <4>2. CASE v # w
        <5>1. frame'[v] = frame[v] /\ now[v] = held[v]
          BY <2>3, <2>4, <4>2
        <5> QED
          BY <2>1, <5>1, Zenon DEF Accounted, Holds
      <4> QED
        BY <4>1, <4>2
    <3> HIDE DEF now
    <3> QED
      BY <3>1, Zenon DEF Holds
  <2>13. Written(rest, now)'
    <3>1. ASSUME NEW v \in Writers
          PROVE  wrote'[v] = Out(v)' \o (rest[v] \o (now[v] \o buf'[v]))
      <4>0. wrote'[v] = wrote[v] /\ Out(v)' = Out(v)
        BY <1>0 DEF history, host, Out
      <4>1. wrote[v] = Out(v) \o (rest[v] \o (held[v] \o buf[v]))
        BY <2>1 DEF Accounted, Written
      <4>2. now[v] \o buf'[v] = held[v] \o buf[v]
        <5>1. CASE v = w
          <6>1. now[v] = payload /\ buf'[v] = left
            BY <2>3, <2>4, <5>1
          <6>2. held[v] = <<>>
            BY <1>0, <2>1, <5>1 DEF Accounted, Holds
          <6>3. <<>> \o buf[w] = buf[w]
            BY <2>4, Joining, Zenon
          <6> QED
            BY <2>6, <5>1, <6>1, <6>2, <6>3, Zenon
        <5>2. CASE v # w
          <6>1. now[v] = held[v] /\ buf'[v] = buf[v]
            BY <2>3, <2>4, <5>2
          <6> QED
            BY <6>1, Zenon
        <5> QED
          BY <5>1, <5>2
      <4> HIDE DEF now
      <4> QED
        BY <4>0, <4>1, <4>2, Zenon
    <3> HIDE DEF now
    <3> QED
      BY <3>1, Zenon DEF Written
  <2>14. Accounted(begun, rest, now)'
    <3> HIDE DEF now
    <3> QED
      BY <2>1, <2>10, <2>11, <2>12, <2>13, Zenon DEF Accounted
  <2> HIDE DEF now
  <2> QED
    BY <2>1, <2>9, <2>14, Zenon DEF StreamsInv
<1> QED
  BY <1>1, <1>2

\* A call goes to buf, which is empty.
LEMMA CallKeepsStreams ==
  ASSUME BytesInv, StreamsInv, NEW w \in Writers, NEW data \in Seq(Byte), ~Waiting(w),
         buf' = [buf EXCEPT ![w] = data], wrote' = [wrote EXCEPT ![w] = @ \o data],
         UNCHANGED <<frame, ring, host, partial, clean>>
  PROVE  StreamsInv'
<1>1. CASE ~clean
  BY <1>1 DEF StreamsInv
<1>2. CASE clean
  <2>1. PICK begun \in Nobody, rest \in Bodies, held \in Bodies : Accounted(begun, rest, held)
    BY <1>2 DEF StreamsInv
  <2>2. /\ buf \in [Writers -> Seq(Byte)] /\ wrote \in [Writers -> Seq(Byte)]
        /\ buf[w] = <<>> /\ frame[w] = <<>>
    BY DEF BytesInv, BrainBytes, Waiting
  <2>3. Begun(begun)' /\ Holds(begun, held)'
    BY <2>1 DEF Accounted, Begun, Holds
  <2>4. OnItsWay(begun)' = OnItsWay(begun)
    BY DEF OnItsWay, Rest, host
  <2>5. ASSUME NEW v \in Writers
        PROVE  wrote'[v] = Out(v)' \o (rest[v] \o (held[v] \o buf'[v]))
    <3>0. Out(v)' = Out(v)
      BY DEF host, Out
    <3>1. wrote[v] = Out(v) \o (rest[v] \o (held[v] \o buf[v]))
      BY <2>1 DEF Accounted, Written
    <3>2. CASE v = w
      <4>1. wrote'[v] = wrote[v] \o data /\ buf'[v] = data
        BY <2>2, <3>2
      <4>2. PICK a, b, c : a = Out(v) /\ b = rest[v] /\ c = held[v]
        OBVIOUS
      <4>3. a \in Seq(Byte) /\ b \in Seq(Byte) /\ c = <<>>
        <5>1. a \in Seq(Byte)
          BY <4>2 DEF Out, BytesInv, HostBytes
        <5>2. b \in Seq(Byte)
          BY <4>2 DEF Bodies
        <5>3. c = <<>>
          BY <2>1, <2>2, <3>2, <4>2 DEF Accounted, Holds
        <5> QED
          BY <5>1, <5>2, <5>3
      <4>4. wrote[v] = a \o b
        <5>1. c \o buf[v] = <<>>
          BY <2>2, <3>2, <4>3, Joining, Zenon
        <5>2. b \o <<>> = b
          BY <4>3, Joining, Zenon
        <5> QED
          BY <3>1, <4>2, <5>1, <5>2, Zenon
      <4>5. (a \o b) \o data = a \o (b \o data)
        BY <4>3, Regroup, ZenonT(60)
      <4>6. c \o data = data
        BY <4>3, Joining, Zenon
      <4> QED
        BY <3>0, <4>1, <4>2, <4>4, <4>5, <4>6, Zenon
    <3>3. CASE v # w
      <4>1. wrote'[v] = wrote[v] /\ buf'[v] = buf[v]
        BY <2>2, <3>3
      <4> QED
        BY <3>0, <3>1, <4>1, Zenon
    <3> QED
      BY <3>2, <3>3
  <2>6. Written(rest, held)'
    BY <2>5, Zenon DEF Written
  <2>7. Accounted(begun, rest, held)'
    BY <2>1, <2>3, <2>4, <2>6, Zenon DEF Accounted
  <2> QED
    BY <2>1, <2>7, Zenon DEF StreamsInv
<1> QED
  BY <1>1, <1>2


\* What serial::write_all takes from a packet goes into the ring.  A packet of
\* which nothing was in the ring yet joins the stream, because no other packet is
\* partly there: the debugger's is not while the program runs, and the program's
\* is not while no byte is written inside another's frame.
LEMMA WriteRingKeepsStreams ==
  ASSUME BytesInv, MonitorInv, StreamsInv, NEW w \in Writers, WriteRing(w)
  PROVE  StreamsInv'
<1>1. PICK packet, written, left : /\ packet = frame[w] /\ written = Fitting(packet)
                                   /\ left = Without(packet, Len(written))
  OBVIOUS
<1>2. /\ Runs(w) /\ packet # <<>>
      /\ ring' = ring \o written /\ frame' = [frame EXCEPT ![w] = left]
      /\ partial' = IF w = "user" THEN left # <<>> ELSE partial
      /\ clean' = (clean /\ (w = "user" \/ ~partial))
      /\ UNCHANGED <<buf, host, wrote>>
  BY <1>1, Zenon DEF WriteRing
<1>3. /\ frame \in [Writers -> Seq(Byte)] /\ packet \in Seq(Byte) /\ partial \in BOOLEAN
      /\ ring \in Seq(Byte) /\ Len(ring) <= OutBufSize /\ stopped \in BOOLEAN
      /\ fed \in Seq(Byte) /\ incoming \in Seq(Byte)
  BY <1>1 DEF BytesInv, BrainBytes, RingBytes, HostBytes
<1>4. /\ written \in Seq(Byte) /\ Len(written) \in 0 .. Len(packet)
      /\ written = SubSeq(packet, 1, Len(written))
  BY <1>1, <1>3, FittingFits
<1>5. written \o left = packet /\ left \in Seq(Byte)
  BY <1>1, <1>3, <1>4, CutJoins, CutTyped, Zenon
<1>6. CASE ~clean'
  BY <1>6 DEF StreamsInv
<1>7. CASE clean'
  <2>1. clean /\ (w = "user" \/ ~partial)
    BY <1>2, <1>7
  <2>2. PICK begun \in Nobody, rest \in Bodies, held \in Bodies : Accounted(begun, rest, held)
    BY <2>1 DEF StreamsInv
  <2>3. PICK after : after = IF left = <<>> THEN "none" ELSE w
    OBVIOUS
  <2>4. after \in Nobody /\ "none" \notin Writers /\ "user" \in Writers
    BY <2>3 DEF Nobody, Writers
  <2>5. \A v \in Writers : frame'[v] = IF v = w THEN left ELSE frame[v]
    BY <1>2, <1>3
  <2>6. Rest(after)' = left
    BY <2>3, <2>4, <2>5, Zenon DEF Rest
  <2>7. OnItsWay(after)' = (fed \o incoming) \o (ring \o packet)
    <3>1. (ring \o written) \o left = ring \o (written \o left)
      <4>1. ring \in Seq(Byte) /\ written \in Seq(Byte) /\ left \in Seq(Byte)
        BY <1>3, <1>4, <1>5
      <4> QED
        BY <4>1, Regroup, ZenonT(60)
    <3>2. fed' = fed /\ incoming' = incoming
      BY <1>2 DEF host
    <3> QED
      BY <1>2, <1>5, <2>6, <3>1, <3>2, Zenon DEF OnItsWay
  <2>8. \A v \in Writers : Out(v)' = Out(v) /\ wrote'[v] = wrote[v] /\ buf'[v] = buf[v]
    BY <1>2 DEF Out, host
  <2>9. begun = w \/ begun = "none"
    <3>1. CASE w = "user"
      <4>1. stopped = FALSE
        BY <1>2, <1>3, <3>1 DEF Runs
      <4>2. begun # "debugger"
        BY <2>2, <4>1 DEF MonitorInv, Accounted, Begun
      <4> QED
        BY <3>1, <4>2 DEF Nobody, Writers
    <3>2. CASE w = "debugger"
      <4>1. begun # "user"
        BY <2>1, <2>2, <3>2 DEF Accounted, Begun
      <4> QED
        BY <3>2, <4>1 DEF Nobody, Writers
    <3> QED
      BY <3>1, <3>2 DEF Writers
  <2>10. Begun(after)'
    <3>1. after # "none" => frame'[after] # <<>>
      BY <2>3, <2>5, Zenon
    <3>2. after = "user" <=> partial'
      <4>1. CASE w = "user"
        BY <1>2, <2>3, <4>1
      <4>2. CASE w # "user"
        <5>1. partial' = partial /\ ~partial /\ after # "user"
          BY <1>2, <2>1, <2>3, <4>2
        <5> QED
          BY <5>1
      <4> QED
        BY <4>1, <4>2
    <3> QED
      BY <3>1, <3>2, Zenon DEF Begun
  <2>11. CASE begun = w
    <3>1. Rest(begun) = packet
      BY <1>1, <2>11, Zenon DEF Rest
    <3>2. Carries(OnItsWay(after)', rest)
      BY <2>2, <2>7, <3>1, Zenon DEF Accounted, OnItsWay
    <3>3. Holds(after, held)'
      <4>1. ASSUME NEW v \in Writers
            PROVE  IF v = after \/ frame'[v] = <<>> THEN held[v] = <<>>
                   ELSE frame'[v] = WireOf(v, held[v])
        <5>1. CASE v = w
          <6>1. held[v] = <<>>
            BY <2>2, <2>11, <5>1, Zenon DEF Accounted, Holds
          <6>2. v = after \/ frame'[v] = <<>>
            BY <2>3, <2>5, <5>1, Zenon
          <6> QED
            BY <6>1, <6>2, Zenon
        <5>2. CASE v # w
          <6>1. frame'[v] = frame[v] /\ v # begun /\ v # after
            BY <2>3, <2>4, <2>5, <2>11, <5>2, Zenon
          <6> QED
            BY <2>2, <6>1, Zenon DEF Accounted, Holds
        <5> QED
          BY <5>1, <5>2
      <4> QED
        BY <4>1, Zenon DEF Holds
    <3>4. Written(rest, held)'
      BY <2>2, <2>8, Zenon DEF Accounted, Written
    <3>5. Accounted(after, rest, held)'
      BY <2>10, <3>2, <3>3, <3>4, Zenon DEF Accounted
    <3> QED
      BY <2>2, <2>4, <3>5, Zenon DEF StreamsInv
  <2>12. CASE begun # w
    <3>1. begun = "none"
      BY <2>9, <2>12
    <3>2. packet = WireOf(w, held[w]) /\ held[w] \in Seq(Byte)
      <4>1. held[w] \in Seq(Byte)
        BY DEF Bodies
      <4>2. packet = WireOf(w, held[w])
        BY <1>1, <1>2, <2>2, <2>12, Zenon DEF Accounted, Holds
      <4> QED
        BY <4>1, <4>2
    <3> DEFINE more == After(w, held[w], rest)
               now  == [v \in Writers |-> IF v = w THEN <<>> ELSE held[v]]
    <3>3. more \in Bodies /\ now \in Bodies
      <4>1. more \in Bodies
        BY <3>2, BodiesTyped, Zenon
      <4>2. now \in Bodies
        BY Joining DEF Bodies
      <4> QED
        BY <4>1, <4>2
    <3>4. Carries(OnItsWay(after)', more)
      <4>1. OnItsWay(begun) = (fed \o incoming) \o ring
        <5>1. Rest(begun) = <<>>
          BY <2>4, <3>1, Zenon DEF Rest
        <5>2. ring \o <<>> = ring
          BY <1>3, Joining, Zenon
        <5> QED
          BY <5>1, <5>2, Zenon DEF OnItsWay
      <4>2. fed \o incoming \in Seq(Byte)
        BY <1>3, Joining, Zenon
      <4>3. ((fed \o incoming) \o ring) \o packet = (fed \o incoming) \o (ring \o packet)
        BY <1>3, <4>2, Regroup, ZenonT(60)
      <4>4. OnItsWay(after)' = OnItsWay(begun) \o WireOf(w, held[w])
        BY <2>7, <3>2, <4>1, <4>3, Zenon
      <4>5. Carries(OnItsWay(begun), rest)
        BY <2>2 DEF Accounted
      <4>6. Carries(OnItsWay(begun) \o WireOf(w, held[w]), more)
        BY <3>2, <4>5, PacketAfter, Zenon
      <4> QED
        BY <4>4, <4>6, Zenon
    <3>5. Holds(after, now)'
      <4>1. ASSUME NEW v \in Writers
            PROVE  IF v = after \/ frame'[v] = <<>> THEN now[v] = <<>>
                   ELSE frame'[v] = WireOf(v, now[v])
        <5>1. CASE v = w
          <6>1. now[v] = <<>>
            BY <5>1
          <6>2. v = after \/ frame'[v] = <<>>
            BY <2>3, <2>5, <5>1, Zenon
          <6> HIDE DEF now
          <6> QED
            BY <6>1, <6>2, Zenon
        <5>2. CASE v # w
          <6>1. frame'[v] = frame[v] /\ v # begun /\ v # after
            BY <2>3, <2>4, <2>5, <3>1, <5>2, Zenon
          <6>2. now[v] = held[v]
            BY <5>2
          <6> HIDE DEF now
          <6> QED
            BY <2>2, <6>1, <6>2, Zenon DEF Accounted, Holds
        <5> QED
          BY <5>1, <5>2
      <4> HIDE DEF now
      <4> QED
        BY <4>1, Zenon DEF Holds
    <3>6. Written(more, now)'
      <4>1. ASSUME NEW v \in Writers
            PROVE  more[v] \o (now[v] \o buf[v]) = rest[v] \o (held[v] \o buf[v])
        <5>1. PICK a, b, c : a = rest[v] /\ b = held[v] /\ c = buf[v]
          OBVIOUS
        <5>2. a \in Seq(Byte) /\ b \in Seq(Byte) /\ c \in Seq(Byte)
          BY <5>1 DEF Bodies, BytesInv, BrainBytes
        <5>3. CASE v = w
          <6>1. more[v] = a \o b /\ now[v] = <<>>
            BY <5>1, <5>3 DEF After
          <6>2. (a \o b) \o c = a \o (b \o c)
            BY <5>2, Regroup, ZenonT(60)
          <6>3. <<>> \o c = c
            BY <5>2, Joining, Zenon
          <6> HIDE DEF more, now
          <6> QED
            BY <5>1, <6>1, <6>2, <6>3, Zenon
        <5>4. CASE v # w
          <6>1. more[v] = a /\ now[v] = b
            BY <5>1, <5>4 DEF After
          <6> HIDE DEF more, now
          <6> QED
            BY <5>1, <6>1, Zenon
        <5> QED
          BY <5>3, <5>4
      <4> HIDE DEF more, now
      <4> QED
        BY <2>2, <2>8, <4>1, Zenon DEF Accounted, Written
    <3>7. Accounted(after, more, now)'
      <4> HIDE DEF more, now
      <4> QED
        BY <2>10, <3>4, <3>5, <3>6, Zenon DEF Accounted
    <3> HIDE DEF more, now
    <3> QED
      BY <2>4, <3>3, <3>7, Zenon DEF StreamsInv
  <2> QED
    BY <2>11, <2>12
<1> QED
  BY <1>6, <1>7


\* The host takes the first bytes of the ring.
LEMMA ReadUserKeepsStreams ==
  ASSUME BytesInv, StreamsInv, ReadUser
  PROVE  StreamsInv'
<1>1. PICK n \in 1 .. Len(ring) : incoming' = SubSeq(ring, 1, n) /\ ring' = Without(ring, n)
  BY DEF ReadUser
<1>2. incoming = <<>> /\ UNCHANGED <<brain, fed, gdb, shown, history>>
  BY DEF ReadUser
<1>3. /\ ring \in Seq(Byte) /\ fed \in Seq(Byte) /\ frame \in [Writers -> Seq(Byte)]
      /\ n \in 0 .. Len(ring)
  BY DEF BytesInv, BrainBytes, RingBytes, HostBytes
<1>4. incoming' \in Seq(Byte) /\ ring' \in Seq(Byte) /\ incoming' \o ring' = ring
  BY <1>1, <1>3, CutJoins, CutTyped, Zenon
<1>5. ASSUME NEW begun \in Nobody, NEW rest, NEW held, Accounted(begun, rest, held)
      PROVE  Accounted(begun, rest, held)'
  <2>1. Begun(begun)'
    BY <1>2, <1>5 DEF Accounted, Begun, brain, history
  <2>2. Holds(begun, held)' /\ Written(rest, held)'
    BY <1>2, <1>5 DEF Accounted, Holds, Written, Out, brain, history
  <2>3. OnItsWay(begun)' = OnItsWay(begun)
    <3>1. Rest(begun)' = Rest(begun) /\ fed' = fed
      BY <1>2 DEF Rest, brain
    <3>2. PICK t : t = Rest(begun) /\ t \in Seq(Byte)
      BY <1>3, Joining DEF Rest
    <3>3. fed \o incoming = fed
      BY <1>2, <1>3, Joining, Zenon
    <3>4. (incoming' \o ring') \o t = incoming' \o (ring' \o t)
      BY <1>4, <3>2, Regroup, ZenonT(60)
    <3>5. ring' \o t \in Seq(Byte)
      BY <1>4, <3>2, Joining, Zenon
    <3>6. (fed \o incoming') \o (ring' \o t) = fed \o (incoming' \o (ring' \o t))
      BY <1>3, <1>4, <3>5, Regroup, ZenonT(60)
    <3> QED
      BY <1>4, <3>1, <3>2, <3>3, <3>4, <3>6, Zenon DEF OnItsWay
  <2> QED
    BY <1>5, <2>1, <2>2, <2>3, Zenon DEF Accounted
<1>6. clean' = clean
  BY <1>2 DEF history
<1> QED
  BY <1>5, <1>6, Zenon DEF StreamsInv

\* Dropping more than the first of two parts drops from the second.
LEMMA WithoutPart ==
  ASSUME NEW s \in Seq(Byte), NEW t \in Seq(Byte), NEW k \in 0 .. Len(t),
         NEW n, n = Len(s) + k
  PROVE  Without(s \o t, n) = Without(t, k)
<1>1. PICK both : both = s \o t
  OBVIOUS
<1>2. /\ both \in Seq(Byte) /\ Len(both) = Len(s) + Len(t)
      /\ \A i \in 1 .. Len(s) + Len(t) : both[i] = IF i <= Len(s) THEN s[i] ELSE t[i - Len(s)]
      /\ Len(s) \in Nat /\ Len(t) \in Nat
  BY <1>1, ConcatProperties
<1>3. PICK a, b : a = Without(both, n) /\ b = Without(t, k)
  OBVIOUS
<1>4. n \in 0 .. Len(both) /\ both \in Seq(Byte)
  BY <1>2
<1>5. /\ a \in Seq(Byte) /\ Len(a) = Len(both) - n
      /\ \A i \in 1 .. Len(both) - n : a[i] = both[n + i]
  BY <1>3, <1>4, CutTyped, Zenon
<1>6. b \in Seq(Byte) /\ Len(b) = Len(t) - k /\ \A i \in 1 .. Len(t) - k : b[i] = t[k + i]
  BY <1>3, CutTyped, Zenon
<1>7. Len(a) = Len(b)
  <2>1. Len(both) = Len(s) + Len(t) /\ Len(s) \in Nat /\ Len(t) \in Nat
    BY <1>2, Zenon
  <2>2. Len(a) = Len(both) - n /\ Len(b) = Len(t) - k
    BY <1>5, <1>6, Zenon
  <2> QED
    BY <2>1, <2>2
<1>8. ASSUME NEW i \in 1 .. Len(a) PROVE a[i] = b[i]
  <2>1. PICK at : at = n + i
    OBVIOUS
  <2>2. /\ i \in 1 .. Len(both) - n /\ i \in 1 .. Len(t) - k
        /\ at \in 1 .. Len(s) + Len(t) /\ ~(at <= Len(s)) /\ at - Len(s) = k + i
    BY <1>2, <1>5, <1>7, <1>6, <2>1
  <2>3. a[i] = both[at] /\ b[i] = t[k + i]
    BY <1>5, <1>6, <2>1, <2>2
  <2>4. both[at] = t[at - Len(s)]
    BY <1>2, <2>2, Zenon
  <2> QED
    BY <2>2, <2>3, <2>4
<1>9. a = b
  BY <1>5, <1>6, <1>7, <1>8, SeqEqual
<1> QED
  BY <1>1, <1>3, <1>9

\* The decoder is fed more, or has read a packet, whose body goes to its reader.
LEMMA ParseKeepsStreams ==
  ASSUME BytesInv, StreamsInv, Parse
  PROVE  StreamsInv'
<1>1. UNCHANGED <<brain, ring, history>> /\ clean' = clean
  BY DEF Parse, handle_packet, ShowInvalid, SkipByte, AwaitMore, Continue, history
<1>2. /\ fed \in Seq(Byte) /\ Quiet(fed) /\ incoming \in Seq(Byte) /\ ring \in Seq(Byte)
      /\ gdb \in Seq(Byte) /\ shown \in Seq(Byte)
      /\ frame \in [Writers -> Seq(Byte)] /\ buf \in [Writers -> Seq(Byte)]
  BY DEF BytesInv, BrainBytes, HostBytes, RingBytes
<1>3. CASE ~clean
  BY <1>1, <1>3 DEF StreamsInv
<1>4. CASE clean
  <2>1. PICK begun \in Nobody, rest \in Bodies, held \in Bodies : Accounted(begun, rest, held)
    BY <1>4 DEF StreamsInv
  <2>2. PICK bytes, after : bytes = fed \o incoming /\ after = ring \o Rest(begun)
    OBVIOUS
  <2>3. bytes \in Seq(Byte) /\ after \in Seq(Byte)
    <3>1. Rest(begun) \in Seq(Byte)
      BY <1>2, Joining DEF Rest
    <3> QED
      BY <1>2, <2>2, <3>1, Joining, Zenon
  <2>4. Begun(begun)' /\ Holds(begun, held)'
    BY <1>1, <2>1 DEF Accounted, Begun, Holds, brain, history
  <2>5. ring' \o Rest(begun)' = after
    <3>1. ring' = ring /\ Rest(begun)' = Rest(begun)
      BY <1>1 DEF Rest, brain
    <3> QED
      BY <2>2, <3>1, Zenon
  <2>6. OnItsWay(begun) = bytes \o after /\ Carries(bytes \o after, rest)
    BY <2>1, <2>2, Zenon DEF OnItsWay, Accounted
  <2>7. wrote' = wrote /\ buf' = buf
    BY <1>1 DEF brain, history
  <2>8. CASE AwaitMore
    <3>1. fed' = bytes /\ incoming' = <<>> /\ UNCHANGED <<gdb, shown>>
      BY <2>2, <2>8 DEF AwaitMore, KeepRest
    <3>2. bytes \o <<>> = bytes
      BY <2>3, Joining, Zenon
    <3>3. OnItsWay(begun)' = bytes \o after
      BY <2>5, <3>1, <3>2, Zenon DEF OnItsWay
    <3>4. Written(rest, held)'
      BY <2>1, <2>7, <3>1 DEF Accounted, Written, Out
    <3>5. Accounted(begun, rest, held)'
      BY <2>4, <2>6, <3>3, <3>4, Zenon DEF Accounted
    <3> QED
      BY <2>1, <3>5, Zenon DEF StreamsInv
  <2>9. CASE handle_packet \/ ShowInvalid \/ SkipByte
    <3>1. PICK report : report = Report
      OBVIOUS
    <3>2. report = Push(bytes)
      BY <2>2, <3>1 DEF Report
    <3>3. report.status # "more"
      BY <2>9, <3>1 DEF handle_packet, ShowInvalid, SkipByte
    <3>4. ~Quiet(bytes)
      <4>1. Quiet(bytes) => Push(bytes) = [status |-> "more"]
        BY <2>3, PushMore
      <4> QED
        BY <3>2, <3>3, <4>1
    <3>0. PICK all : all = bytes \o after
      OBVIOUS
    <3>5. bytes \o after # <<>>
      <4>1. ASSUME bytes = <<>> PROVE FALSE
        BY <3>4, <4>1 DEF Quiet
      <4> QED
        BY <2>3, <4>1, JoinEmpty, Zenon
    <3>6. PICK w \in Writers, body \in Seq(Byte), more \in Seq(Byte), others \in Bodies :
            /\ Carries(more, others)
            /\ all = WireOf(w, body) \o more /\ rest = Before(w, body, others)
      <4>1. Carries(all, rest) /\ all # <<>>
        BY <2>6, <3>0, <3>5, Zenon
      <4>2. Begins(all, rest)
        BY <4>1, FirstPacket
      <4> QED
        BY <4>1, <4>2, Zenon DEF Begins
    <3>7. PICK n \in 1 .. Len(bytes) :
            /\ Push(bytes) = [status |-> "frame", parsed |-> n, packet |-> <<ChannelOf(w)>> \o body]
            /\ IsSplit(more, Without(bytes, n), after)
      <4>1. IsSplit(all, bytes, after) /\ IsSplit(all, WireOf(w, body), more)
        BY <3>0, <3>6, Zenon DEF IsSplit
      <4> QED
        BY <2>3, <3>4, <4>1, ReadsFirstPacket
    <3>8. PICK packet : packet = <<ChannelOf(w)>> \o body
      OBVIOUS
    <3>9. report.status = "frame" /\ report.parsed = n /\ report.packet = packet
      BY <3>2, <3>7, <3>8
    <3>10. packet # <<>> /\ Head(packet) = ChannelOf(w) /\ Tail(packet) = body
      BY <3>8
    <3>11. Report.status = "frame" /\ IsValid(Report.packet)
      BY <3>1, <3>9, <3>10 DEF IsValid, ChannelOf
    <3>12. handle_packet
      BY <2>9, <3>11 DEF ShowInvalid, SkipByte
    <3>13. PICK k : k = n - Len(fed)
      OBVIOUS
    <3>14. fed' = <<>> /\ incoming' = Without(incoming, k)
      <4>1. ParsedSize = k
        BY <3>1, <3>9, <3>13, Zenon DEF ParsedSize
      <4> QED
        BY <3>12, <4>1, Zenon DEF handle_packet, Continue
    <3>15. k \in 1 .. Len(incoming)
      <4>1. report.parsed - Len(fed) \in 1 .. Len(incoming)
        BY <1>2, <2>2, <3>2, <3>9, PushAnswers
      <4> QED
        BY <3>9, <3>13, <4>1
    <3>16. incoming' = Without(bytes, n)
      <4>1. k \in 0 .. Len(incoming) /\ n = Len(fed) + k
        BY <1>2, <3>13, <3>15
      <4>2. Without(fed \o incoming, n) = Without(incoming, k)
        BY <1>2, <4>1, WithoutPart
      <4> QED
        BY <2>2, <3>14, <4>2, Zenon
    <3>17. OnItsWay(begun)' = more
      <4>1. incoming' \in Seq(Byte)
        BY <2>3, <3>7, <3>16, CutTyped
      <4>2. fed' \o incoming' = incoming'
        BY <3>14, <4>1, Joining, Zenon
      <4> QED
        BY <2>5, <3>7, <3>16, <4>2, Zenon DEF OnItsWay, IsSplit
    <3>18. \A v \in Writers : Out(v)' = IF v = w THEN Out(v) \o body ELSE Out(v)
      <4>1. \/ ChannelOf(w) = UserId /\ shown' = shown \o body /\ gdb' = gdb
            \/ ChannelOf(w) = DebugId /\ gdb' = gdb \o body /\ shown' = shown
        BY <3>1, <3>9, <3>10, <3>12, Zenon DEF handle_packet
      <4>2. CASE w = "user"
        <5>1. shown' = shown \o body /\ gdb' = gdb
          BY <4>1, <4>2, LinkAssumption DEF ChannelOf
        <5> QED
          BY <4>2, <5>1, Zenon DEF Out
      <4>3. CASE w = "debugger"
        <5>1. gdb' = gdb \o body /\ shown' = shown
          BY <4>1, <4>3, LinkAssumption DEF ChannelOf
        <5>2. \A v \in Writers : v = "user" \/ v = w
          BY <4>3 DEF Writers
        <5>3. w # "user"
          BY <4>3
        <5> QED
          BY <5>1, <5>2, <5>3, Zenon DEF Out
      <4> QED
        BY <4>2, <4>3 DEF Writers
    <3>19. ASSUME NEW v \in Writers
           PROVE  wrote'[v] = Out(v)' \o (others[v] \o (held[v] \o buf'[v]))
      <4>1. PICK a, b, c : a = Out(v) /\ b = others[v] /\ c = held[v] \o buf[v]
        OBVIOUS
      <4>2. a \in Seq(Byte) /\ b \in Seq(Byte) /\ c \in Seq(Byte)
        <5>1. a \in Seq(Byte) /\ b \in Seq(Byte)
          BY <1>2, <4>1 DEF Bodies, Out
        <5>2. held[v] \in Seq(Byte) /\ buf[v] \in Seq(Byte)
          BY <1>2 DEF Bodies
        <5> QED
          BY <4>1, <5>1, <5>2, Joining, Zenon
      <4>3. wrote[v] = a \o (rest[v] \o c)
        BY <2>1, <4>1, Zenon DEF Accounted, Written
      <4>4. CASE v = w
        <5>1. rest[v] = body \o b
          BY <3>6, <4>1, <4>4, Zenon DEF Before
        <5>2. (body \o b) \o c = body \o (b \o c)
          BY <4>2, Regroup, ZenonT(60)
        <5>3. b \o c \in Seq(Byte)
          BY <4>2, Joining, Zenon
        <5>4. \A u \in Seq(Byte) : (a \o body) \o u = a \o (body \o u)
          BY <4>2, Regroup, Zenon
        <5>5. (a \o body) \o (b \o c) = a \o (body \o (b \o c))
          BY <5>3, <5>4, Zenon
        <5> QED
          BY <2>7, <3>18, <4>1, <4>3, <4>4, <5>1, <5>2, <5>5, Zenon
      <4>5. CASE v # w
        <5>1. rest[v] = b
          BY <3>6, <4>1, <4>5, Zenon DEF Before
        <5> QED
          BY <2>7, <3>18, <4>1, <4>3, <4>5, <5>1, Zenon
      <4> QED
        BY <4>4, <4>5
    <3>20. Written(others, held)'
      BY <3>19, Zenon DEF Written
    <3>21. Accounted(begun, others, held)'
      BY <2>4, <3>6, <3>17, <3>20, Zenon DEF Accounted
    <3> QED
      BY <2>1, <3>6, <3>21, Zenon DEF StreamsInv
  <2> QED
    BY <2>8, <2>9 DEF Parse
<1> QED
  BY <1>3, <1>4

LEMMA NextStreams == BytesInv /\ MonitorInv /\ StreamsInv /\ [Next]_vars => StreamsInv'
<1> SUFFICES ASSUME BytesInv, MonitorInv, StreamsInv, [Next]_vars PROVE StreamsInv'
  OBVIOUS
<1>0. "user" \in Writers /\ "debugger" \in Writers
  BY DEF Writers
<1>1. ASSUME NEW w \in Writers, write_all(w) \/ WriteRing(w) PROVE StreamsInv'
  BY <1>1, PackKeepsStreams, WriteRingKeepsStreams
<1>2. ASSUME NEW data \in UserData, write_buffer(data) PROVE StreamsInv'
  <2>1. data \in Seq(Byte)
    BY LinkAssumption
  <2> QED
    BY <1>0, <1>2, <2>1, CallKeepsStreams DEF write_buffer, Call
<1>3. ASSUME NEW data \in UserData, vexSerialWriteBuffer(data) PROVE StreamsInv'
  BY <1>3 DEF vexSerialWriteBuffer, StreamsInv
<1>4. ASSUME NEW data \in DebugData, DebuggerWrites(data) PROVE StreamsInv'
  <2>1. data \in Seq(Byte)
    BY LinkAssumption
  <2> QED
    BY <1>0, <1>4, <2>1, CallKeepsStreams DEF DebuggerWrites, Call
<1>5. CASE flush_serial \/ Stop \/ Resume \/ UserReads \/ read \/ try_read \/ ForwardInput
           \/ UNCHANGED vars
  <2>1. UNCHANGED <<buf, frame, ring, host, history>>
    BY <1>5 DEF flush_serial, Stop, Resume, UserReads, read, try_read, DebuggerReads,
                ForwardInput, vars, brain
  <2> QED
    BY <2>1, StreamsStay
<1>6. CASE ReadUser
  BY <1>6, ReadUserKeepsStreams
<1>7. CASE Parse
  BY <1>7, ParseKeepsStreams
<1> QED
  BY <1>1, <1>2, <1>3, <1>4, <1>5, <1>6, <1>7 DEF Next, Brain

(***************************************************************************)
(* GDB gets what the debugger wrote and the user what the program wrote,   *)
(* in order and nothing else, however the ring fills, the packets are      *)
(* split and the reads cut them (mux::write_all, handle_packet), as long   *)
(* as no byte is written outside a frame.                                  *)
(***************************************************************************)
THEOREM StreamsStayApart == Spec => []StreamsAreKeptApart
<1>1. BytesInv /\ StreamsInv => StreamsAreKeptApart
  <2> SUFFICES ASSUME BytesInv, StreamsInv, clean
               PROVE  IsPrefix(gdb, wrote["debugger"]) /\ IsPrefix(shown, wrote["user"])
    BY DEF StreamsAreKeptApart
  <2>1. PICK begun \in Nobody, rest \in Bodies, held \in Bodies : Accounted(begun, rest, held)
    BY DEF StreamsInv
  <2>2. ASSUME NEW w \in Writers PROVE IsPrefix(Out(w), wrote[w])
    <3>1. PICK a, b, whole : /\ a = Out(w) /\ b = rest[w] \o (held[w] \o buf[w])
                             /\ whole = wrote[w]
      OBVIOUS
    <3>2. whole = a \o b
      BY <2>1, <3>1, Zenon DEF Accounted, Written
    <3>3. a \in Seq(Byte) /\ b \in Seq(Byte)
      <4>1. a \in Seq(Byte) /\ rest[w] \in Seq(Byte) /\ held[w] \in Seq(Byte) /\ buf[w] \in Seq(Byte)
        BY <3>1 DEF Bodies, Out, BytesInv, BrainBytes, HostBytes
      <4> QED
        BY <3>1, <4>1, Joining, Zenon
    <3>4. /\ Len(whole) = Len(a) + Len(b) /\ whole \in Seq(Byte)
          /\ \A i \in 1 .. Len(a) + Len(b) : whole[i] = IF i <= Len(a) THEN a[i] ELSE b[i - Len(a)]
          /\ Len(a) \in Nat /\ Len(b) \in Nat
      BY <3>2, <3>3, ConcatProperties
    <3>5. \A i \in 1 .. Len(a) : a[i] = whole[i]
      BY <3>4
    <3>6. PICK part : part = SubSeq(whole, 1, Len(a))
      OBVIOUS
    <3>7. part \in Seq(Byte) /\ Len(part) = Len(a) /\ \A i \in 1 .. Len(a) : part[i] = whole[i]
      <4>1. PICK n : n = Len(a)
        OBVIOUS
      <4>2. n \in 0 .. Len(whole) /\ part = SubSeq(whole, 1, n)
        BY <3>4, <3>6, <4>1
      <4>3. part \in Seq(Byte) /\ Len(part) = n /\ \A i \in 1 .. n : part[i] = whole[i]
        BY <3>4, <4>2, Cut
      <4> QED
        BY <4>1, <4>3
    <3>8. \A i \in 1 .. Len(part) : part[i] = a[i]
      BY <3>5, <3>7
    <3>9. part = a
      BY <3>3, <3>7, <3>8, SeqEqual
    <3>10. SubSeq(a, 1, Len(a)) = a
      BY <3>3, SubSeqFull
    <3>11. Len(a) <= Len(whole)
      BY <3>4
    <3>12. SubSeq(a, 1, Len(a)) = SubSeq(whole, 1, Len(a))
      BY <3>6, <3>9, <3>10, Zenon
    <3> QED
      BY <3>1, <3>11, <3>12, Zenon DEF IsPrefix
  <2> QED
    BY <2>2 DEF Out, Writers
<1> QED
  BY <1>1, InitBytes, NextBytes, InitStreams, NextMonitor, NextStreams, PTL DEF Spec


=============================================================================
