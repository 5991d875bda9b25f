--------------------------- MODULE ChecksumProofs ---------------------------
(***************************************************************************)
(* Proofs about Checksum.tla: for a string of every length, at every       *)
(* address, calcCrc is the exclusive or of all bytes but the last three.   *)
(***************************************************************************)
EXTENDS Checksum, TLAPS

\* Where an exclusive or of disjoint sets of bytes is their union.
LEMMA XorDisjoint ==
  ASSUME NEW a, NEW b, a \cap b = {}
  PROVE  Xor(a, b) = a \cup b
BY DEF Xor

LEMMA InitSumInv == ChecksumAssumption /\ SumInit => SumInv
<1> SUFFICES ASSUME ChecksumAssumption, SumInit PROVE SumInv
  OBVIOUS
<1>1. SumTypes
  BY DEF ChecksumAssumption, SumInit, Start, SumTypes, Lane
<1>2. EachByteOnce /\ Progress /\ ReadsInside
  BY DEF SumInit, Start, EachByteOnce, Progress, ReadsInside, Lane
<1> QED
  BY <1>1, <1>2 DEF SumInv

\* Outside the loop over words lane 0 holds every byte.
LEMMA LaneZero ==
  ASSUME SumInv, at # "words"
  PROVE  /\ lanes[0] = 0 .. in_ptr - 1
         /\ \A j \in Lane \ {0} : lanes[j] = {}
<1>1. \A j \in Lane \ {0} : lanes[j] = {}
  BY DEF SumInv, EachByteOnce
<1>2. lanes[0] \subseteq 0 .. in_ptr - 1
  BY DEF SumInv, EachByteOnce, Lane
<1>3. ASSUME NEW b \in 0 .. in_ptr - 1 PROVE b \in lanes[0]
  <2>1. PICK j \in Lane : b \in lanes[j]
    BY DEF SumInv, EachByteOnce
  <2>2. j = 0
    BY <2>1, <1>1
  <2> QED
    BY <2>1, <2>2
<1>4. 0 .. in_ptr - 1 \subseteq lanes[0]
  BY <1>3
<1> QED
  BY <1>1, <1>2, <1>4

\* Conversely, and for the state after a step.
LEMMA OnlyLaneZero ==
  ASSUME NEW n \in Nat, NEW l \in [Lane -> SUBSET Nat],
         l[0] = 0 .. n - 1, \A j \in Lane \ {0} : l[j] = {}
  PROVE  /\ \A j \in Lane : l[j] \subseteq 0 .. n - 1
         /\ \A b \in 0 .. n - 1 : \E j \in Lane : b \in l[j]
         /\ \A i, j \in Lane : i # j => l[i] \cap l[j] = {}
<1>1. 0 \in Lane
  BY DEF Lane
<1>2. ASSUME NEW j \in Lane PROVE j = 0 \/ l[j] = {}
  BY <1>2
<1>3. \A b \in 0 .. n - 1 : \E j \in Lane : b \in l[j]
  BY <1>1
<1> QED
  BY <1>2, <1>3

\* A single byte, before or behind the words.
LEMMA ByteKeepsLanes ==
  ASSUME SumInv, Byte, at # "words"
  PROVE  /\ in_ptr' \in Nat /\ lanes' \in [Lane -> SUBSET Nat]
         /\ EachByteOnce'
<1>1. /\ in_ptr \in Nat /\ lanes \in [Lane -> SUBSET Nat]
      /\ in_ptr' = in_ptr + 1 /\ in_ptr' \in Nat /\ at' = at
  BY DEF SumInv, SumTypes, Byte
<1>2. Xor(lanes[0], {in_ptr}) = 0 .. in_ptr
  <2>1. lanes[0] = 0 .. in_ptr - 1 /\ lanes[0] \cap {in_ptr} = {}
    BY LaneZero, <1>1
  <2>2. Xor(lanes[0], {in_ptr}) = (0 .. in_ptr - 1) \cup {in_ptr}
    BY <2>1, XorDisjoint
  <2>3. \A b : b \in (0 .. in_ptr - 1) \cup {in_ptr} <=> b \in 0 .. in_ptr
    BY <1>1
  <2> QED
    BY <2>2, <2>3
<1>3. lanes' = [lanes EXCEPT ![0] = 0 .. in_ptr]
  BY <1>2 DEF Byte
<1>4. lanes'[0] = 0 .. in_ptr' - 1 /\ \A j \in Lane \ {0} : lanes'[j] = {}
  BY <1>1, <1>3, LaneZero DEF Lane
<1>5. lanes' \in [Lane -> SUBSET Nat]
  <2>1. 0 .. in_ptr \in SUBSET Nat
    BY <1>1
  <2> QED
    BY <2>1, <1>1, <1>3
<1> QED
  BY <1>1, <1>4, <1>5, OnlyLaneZero DEF EachByteOnce

\* Four bytes at a time: each lane gets one that no lane holds yet.
LEMMA WordKeepsLanes ==
  ASSUME SumInv, Word
  PROVE  /\ in_ptr' \in Nat /\ lanes' \in [Lane -> SUBSET Nat]
         /\ EachByteOnce'
<1> USE DEF SumInv, SumTypes, Lane
<1>1. ASSUME NEW j \in Lane PROVE lanes'[j] = lanes[j] \cup {in_ptr + j}
  <2>1. lanes[j] \cap {in_ptr + j} = {}
    BY DEF EachByteOnce
  <2>2. lanes'[j] = Xor(lanes[j], {in_ptr + j})
    BY DEF Word
  <2> QED
    BY <2>1, <2>2, XorDisjoint
<1>2. in_ptr' = in_ptr + 4 /\ at' = "words" /\ at = "words"
  BY DEF Word
<1>3. lanes' \in [Lane -> SUBSET Nat]
  <2>1. lanes' = [j \in Lane |-> lanes'[j]]
    BY DEF Word
  <2>2. \A j \in Lane : lanes'[j] \in SUBSET Nat
    BY <1>1
  <2> QED
    BY <2>1, <2>2
<1>4. \A j \in Lane : lanes'[j] \subseteq 0 .. in_ptr' - 1
  BY <1>1, <1>2 DEF EachByteOnce
<1>5. ASSUME NEW b \in 0 .. in_ptr' - 1 PROVE \E j \in Lane : b \in lanes'[j]
  <2>1. CASE b \in 0 .. in_ptr - 1
    BY <2>1, <1>1 DEF EachByteOnce
  <2>2. CASE b - in_ptr \in Lane
    BY <2>2, <1>1
  <2> QED
    BY <2>1, <2>2, <1>2
<1>6. ASSUME NEW i \in Lane, NEW j \in Lane, i # j PROVE lanes'[i] \cap lanes'[j] = {}
  <2>1. lanes[i] \cap lanes[j] = {} /\ lanes[i] \subseteq 0 .. in_ptr - 1 /\ lanes[j] \subseteq 0 .. in_ptr - 1
    BY <1>6 DEF EachByteOnce
  <2>2. in_ptr + i # in_ptr + j /\ in_ptr + i \notin lanes[j] /\ in_ptr + j \notin lanes[i]
    BY <2>1, <1>6
  <2> QED
    BY <2>1, <2>2, <1>1
<1> QED
  BY <1>2, <1>3, <1>4, <1>5, <1>6 DEF EachByteOnce

\* The lanes are folded into one.
LEMMA FoldKeepsLanes ==
  ASSUME SumInv, WordsEnd
  PROVE  /\ lanes' \in [Lane -> SUBSET Nat]
         /\ EachByteOnce'
<1> USE DEF SumInv, SumTypes, Lane
<1>1. Fold = lanes[0] \cup lanes[1] \cup lanes[2] \cup lanes[3]
  <2>1. \A i, j \in Lane : i # j => lanes[i] \cap lanes[j] = {}
    BY DEF EachByteOnce
  <2>2. Xor(lanes[0], lanes[1]) = lanes[0] \cup lanes[1]
    BY <2>1, XorDisjoint
  <2>3. Xor(lanes[2], lanes[3]) = lanes[2] \cup lanes[3]
    BY <2>1, XorDisjoint
  <2>4. (lanes[0] \cup lanes[1]) \cap (lanes[2] \cup lanes[3]) = {}
    BY <2>1
  <2> QED
    BY <2>2, <2>3, <2>4, XorDisjoint DEF Fold
<1>2. Fold = 0 .. in_ptr - 1
  BY <1>1 DEF EachByteOnce
<1>3. lanes' = [j \in Lane |-> IF j = 0 THEN 0 .. in_ptr - 1 ELSE {}] /\ in_ptr' = in_ptr
  BY <1>2 DEF WordsEnd, Goto
<1>4. lanes' \in [Lane -> SUBSET Nat]
  <2>1. 0 .. in_ptr - 1 \in SUBSET Nat /\ {} \in SUBSET Nat
    OBVIOUS
  <2> QED
    BY <2>1, <1>3
<1>5. lanes'[0] = 0 .. in_ptr' - 1 /\ \A j \in Lane \ {0} : lanes'[j] = {}
  BY <1>3
<1> QED
  BY <1>3, <1>4, <1>5, OnlyLaneZero DEF EachByteOnce

LEMMA NextSumInv == SumInv /\ [SumNext]_sumVars => SumInv'
<1> SUFFICES ASSUME SumInv, [SumNext]_sumVars PROVE SumInv'
  OBVIOUS
<1> USE DEF SumInv, SumTypes, Progress, ReadsInside, in_sentinel, in_sentinel4, Unaligned
<1>1. CASE HeadByte
  <2>1. Byte /\ in_ptr < in_sentinel /\ at = "head" /\ UNCHANGED <<size, align, at>>
    BY <1>1 DEF HeadByte, Byte
  <2>2. in_ptr' \in Nat /\ lanes' \in [Lane -> SUBSET Nat] /\ EachByteOnce'
    BY <2>1, ByteKeepsLanes
  <2>3. in_ptr' = in_ptr + 1
    BY <2>1 DEF Byte
  <2> QED
    BY <2>1, <2>2, <2>3
<1>2. CASE HeadEnd
  <2>1. EachByteOnce'
    BY <1>2 DEF HeadEnd, Goto, EachByteOnce
  <2> QED
    BY <1>2, <2>1 DEF HeadEnd, Goto
<1>3. CASE Word
  <2>1. in_ptr' = in_ptr + 4 /\ in_ptr < in_sentinel4 /\ at = "words" /\ UNCHANGED <<size, align, at>>
    BY <1>3 DEF Word
  <2>2. (align' + in_ptr') % 4 = (align + in_ptr) % 4
    BY <2>1
  <2> QED
    BY <1>3, <2>1, <2>2, WordKeepsLanes
<1>4. CASE WordsEnd
  BY <1>4, FoldKeepsLanes DEF WordsEnd, Goto
<1>5. CASE TailByte
  <2>1. Byte /\ in_ptr < in_sentinel /\ at = "tail" /\ UNCHANGED <<size, align, at>>
    BY <1>5 DEF TailByte, Byte
  <2>2. in_ptr' \in Nat /\ lanes' \in [Lane -> SUBSET Nat] /\ EachByteOnce'
    BY <2>1, ByteKeepsLanes
  <2>3. in_ptr' = in_ptr + 1
    BY <2>1 DEF Byte
  <2> QED
    BY <2>1, <2>2, <2>3
<1>6. CASE TailEnd
  <2>1. EachByteOnce'
    BY <1>6 DEF TailEnd, Goto, EachByteOnce
  <2> QED
    BY <1>6, <2>1 DEF TailEnd, Goto
<1>7. CASE UNCHANGED sumVars
  BY <1>7 DEF sumVars, EachByteOnce
<1> QED
  BY <1>1, <1>2, <1>3, <1>4, <1>5, <1>6, <1>7 DEF SumNext

\* calcCrc (decoder.h:73) sums every byte before the last three exactly once,
\* whatever the length and the address of the string.
THEOREM ChecksumCorrect == ChecksumAssumption /\ SumSpec => []SumsSentence
<1>1. SumInv => SumsSentence
  <2> SUFFICES ASSUME SumInv, at = "done" PROVE lanes[0] = 0 .. size - 4
    BY DEF SumsSentence
  <2>1. lanes[0] = 0 .. in_ptr - 1
    BY LaneZero
  <2>2. in_ptr \in Nat /\ size \in Nat /\ in_ptr >= size - 3 /\ (in_ptr = 0 \/ in_ptr <= size - 3)
    BY DEF SumInv, SumTypes, Progress, ReadsInside, in_sentinel
  <2> QED
    BY <2>1, <2>2
<1> QED
  BY InitSumInv, NextSumInv, <1>1, PTL DEF SumSpec

\* Its four-byte reads are aligned and it never reads any of the last three
\* bytes.
THEOREM ChecksumReadsInside == ChecksumAssumption /\ SumSpec => []ReadsInside
<1>1. SumInv => ReadsInside
  BY DEF SumInv
<1> QED
  BY InitSumInv, NextSumInv, <1>1, PTL DEF SumSpec
=============================================================================
