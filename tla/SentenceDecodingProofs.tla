---------------------- MODULE SentenceDecodingProofs ----------------------
(***************************************************************************)
(* Proofs about PayloadDecoder.tla and SentenceDecoding.tla, for payloads  *)
(* and sentences of every length: what decodeAscii stores is the message   *)
(* bit by bit, a number is the slice of the payload at its bit index, the  *)
(* fields of a message are where its layout has them, and a sentence that  *)
(* arrives as it was sent is accepted unless it was too long to be stored. *)
(***************************************************************************)
EXTENDS SentenceDecoding, TLAPS

C == INSTANCE ChecksumProofs WITH
       MaxSize <- MAX_CHARS_PER_FRAGMENT, size <- m_sentence, in_ptr <- sum_ptr

LEMMA InitIInv == Init => IInv
<1> SUFFICES ASSUME Init PROVE IInv
  OBVIOUS
<1>1. DecodeTypes
  BY DecoderAssumption DEF DecoderAssumption, Init, DecodeTypes, Cleared, Place, Content
<1>2. Pending /\ Finished
  BY <1>1 DEF Init, Pending, Finished, Cleared, Place, DecodeTypes
<1>3. BitsInOrder
  BY DEF Init, BitsInOrder, Payload, Written, Memory
<1> QED
  BY <1>1, <1>2, <1>3 DEF IInv

(***************************************************************************)
(* One round of a loop of decodeAscii.                                     *)
(***************************************************************************)

\* What a round starts from: the numbers, and where the next group belongs.
RoundState(n) ==
  /\ n \in Nat /\ n > 0 /\ n <= 4
  /\ size \in Nat /\ in_ptr \in Nat /\ out_ptr \in Nat /\ acc_bitcount \in 0 .. 63
  /\ in_ptr + n <= size /\ size <= MAX_CHARS_PER_MESSAGE /\ MAX_CHARS_PER_MESSAGE \in Nat
  /\ 6 * in_ptr = 64 * out_ptr + acc_bitcount
  /\ accumulator = [p \in Place |-> IF p < acc_bitcount THEN 64 * out_ptr + p ELSE Zero]

\* The word that is stored when the accumulator fills up.
LEMMA FullWord ==
  ASSUME NEW n, RoundState(n), 64 - acc_bitcount - 6 * n <= 0
  PROVE  Or(accumulator, Shr(Val(n), -(64 - acc_bitcount - 6 * n)))
           = [p \in Place |-> 64 * out_ptr + p]
<1> DEFINE r == 64 - acc_bitcount - 6 * n
           s == Shr(Val(n), -r)
<1>1. ASSUME NEW p \in Place, p < acc_bitcount PROVE s[p] = Zero
  <2>1. p - (-r) = p + r /\ ~(p + r >= 64 - 6 * n)
    BY <1>1 DEF RoundState, Place
  <2>2. p + r \in Place => Val(n)[p + r] = Zero
    BY <2>1 DEF Val
  <2> QED
    BY <2>1, <2>2 DEF Shr
<1>2. ASSUME NEW p \in Place, p >= acc_bitcount PROVE s[p] = 64 * out_ptr + p
  <2>1. p + r \in Place /\ p + r >= 64 - 6 * n /\ p - (-r) = p + r
    BY <1>2 DEF RoundState, Place
  <2>2. s[p] = Val(n)[p + r]
    BY <2>1 DEF Shr
  <2>3. Val(n)[p + r] = 6 * in_ptr + (p + r) - (64 - 6 * n)
    BY <2>1 DEF Val
  <2> QED
    BY <2>2, <2>3, <1>2 DEF RoundState, Place
<1>3. ASSUME NEW p \in Place
      PROVE  (IF accumulator[p] = Zero THEN s[p] ELSE IF s[p] = Zero THEN accumulator[p] ELSE Mixed)
               = 64 * out_ptr + p
  <2>1. CASE p < acc_bitcount
    <3>1. accumulator[p] = 64 * out_ptr + p
      BY <2>1 DEF RoundState
    <3>2. accumulator[p] # Zero
      BY <3>1 DEF RoundState, Place, Zero
    <3> QED
      BY <3>1, <3>2, <2>1, <1>1
  <2>2. CASE p >= acc_bitcount
    <3>1. accumulator[p] = Zero
      BY <2>2 DEF RoundState, Place
    <3> QED
      BY <3>1, <2>2, <1>2
  <2> QED
    BY <2>1, <2>2 DEF RoundState, Place
<1> QED
  BY <1>3 DEF Or

\* What does not fit is what the accumulator starts the next word with.
LEMMA OverflowBits ==
  ASSUME NEW n, RoundState(n), 64 - acc_bitcount - 6 * n <= 0
  PROVE  LET r == 64 - acc_bitcount - 6 * n
         IN  Overflow(Val(n), r)
               = [p \in Place |-> IF p < -r THEN 64 * (out_ptr + 1) + p ELSE Zero]
<1> DEFINE r == 64 - acc_bitcount - 6 * n
<1>1. CASE r < 0
  <2>1. ASSUME NEW p \in Place
        PROVE  Shl(Val(n), 64 + r)[p] = IF p < -r THEN 64 * (out_ptr + 1) + p ELSE Zero
    <3>1. CASE p < -r
      <4>1. p + (64 + r) \in Place /\ p + (64 + r) >= 64 - 6 * n
        BY <3>1, <1>1 DEF RoundState, Place
      <4>2. Shl(Val(n), 64 + r)[p] = 6 * in_ptr + (p + (64 + r)) - (64 - 6 * n)
        BY <4>1 DEF Shl, Val
      <4> QED
        BY <4>2, <3>1 DEF RoundState, Place
    <3>2. CASE ~(p < -r)
      <4>1. p + (64 + r) \notin Place
        BY <3>2 DEF RoundState, Place
      <4> QED
        BY <4>1, <3>2 DEF Shl
    <3> QED
      BY <3>1, <3>2
  <2>2. Overflow(Val(n), r) = Shl(Val(n), 64 + r)
    BY <1>1 DEF Overflow
  <2> QED
    BY <2>1, <2>2 DEF Shl
<1>2. CASE r = 0
  BY <1>2 DEF Overflow, Cleared, RoundState, Place
<1> QED
  BY <1>1, <1>2 DEF RoundState

\* A group that fits goes behind the bits already there.
LEMMA GroupFits ==
  ASSUME NEW n, RoundState(n), 64 - acc_bitcount - 6 * n > 0
  PROVE  Or(accumulator, Shl(Val(n), 64 - acc_bitcount - 6 * n))
           = [p \in Place |-> IF p < acc_bitcount + 6 * n THEN 64 * out_ptr + p ELSE Zero]
<1> DEFINE r == 64 - acc_bitcount - 6 * n
           s == Shl(Val(n), r)
<1>1. ASSUME NEW p \in Place, p < acc_bitcount PROVE s[p] = Zero
  <2>1. ~(p + r >= 64 - 6 * n)
    BY <1>1 DEF RoundState, Place
  <2>2. p + r \in Place => Val(n)[p + r] = Zero
    BY <2>1 DEF Val
  <2> QED
    BY <2>2 DEF Shl
<1>2. ASSUME NEW p \in Place, p >= acc_bitcount, p < acc_bitcount + 6 * n
      PROVE  s[p] = 64 * out_ptr + p
  <2>1. p + r \in Place /\ p + r >= 64 - 6 * n
    BY <1>2 DEF RoundState, Place
  <2>2. s[p] = 6 * in_ptr + (p + r) - (64 - 6 * n)
    BY <2>1 DEF Shl, Val
  <2> QED
    BY <2>2, <1>2 DEF RoundState, Place
<1>3. ASSUME NEW p \in Place, p >= acc_bitcount + 6 * n PROVE s[p] = Zero
  <2>1. p + r \notin Place
    BY <1>3 DEF RoundState, Place
  <2> QED
    BY <2>1 DEF Shl
<1>4. ASSUME NEW p \in Place
      PROVE  (IF accumulator[p] = Zero THEN s[p] ELSE IF s[p] = Zero THEN accumulator[p] ELSE Mixed)
               = IF p < acc_bitcount + 6 * n THEN 64 * out_ptr + p ELSE Zero
  <2>1. CASE p < acc_bitcount
    <3>1. accumulator[p] = 64 * out_ptr + p
      BY <2>1 DEF RoundState
    <3>2. accumulator[p] # Zero /\ p < acc_bitcount + 6 * n
      BY <3>1, <2>1 DEF RoundState, Place, Zero
    <3> QED
      BY <3>1, <3>2, <2>1, <1>1
  <2>2. CASE p >= acc_bitcount
    <3>1. accumulator[p] = Zero
      BY <2>2 DEF RoundState, Place
    <3>2. CASE p < acc_bitcount + 6 * n
      BY <3>1, <3>2, <2>2, <1>2
    <3>3. CASE ~(p < acc_bitcount + 6 * n)
      BY <3>1, <3>3, <1>3 DEF RoundState, Place
    <3> QED
      BY <3>2, <3>3
  <2> QED
    BY <2>1, <2>2 DEF RoundState, Place
<1> QED
  BY <1>4 DEF Or

\* A word of bits of the message is a 64-bit value.
LEMMA BitsAreContent ==
  ASSUME MAX_CHARS_PER_MESSAGE \in Nat, NEW f, NEW k \in Nat, NEW b \in 0 .. 64, k + b <= 6 * MAX_CHARS_PER_MESSAGE,
         f = [p \in Place |-> IF p < b THEN k + p ELSE Zero]
  PROVE  f \in [Place -> Content]
<1>1. ASSUME NEW p \in Place PROVE (IF p < b THEN k + p ELSE Zero) \in Content
  <2>1. CASE p < b
    <3>1. k + p \in Bit
      BY <2>1 DEF Place, Bit
    <3> QED
      BY <3>1, <2>1 DEF Content
  <2>2. CASE ~(p < b)
    BY <2>2 DEF Content
  <2> QED
    BY <2>1, <2>2
<1> QED
  BY <1>1

LEMMA PackStep ==
  ASSUME IInv, NEW n, n \in {1, 4}, pc = "decode", in_ptr + n <= size, Pack(n)
  PROVE  IInv'
<1> DEFINE r == 64 - acc_bitcount - 6 * n
<1>0. RoundState(n)
  BY DecoderAssumption DEF DecoderAssumption, IInv, DecodeTypes, Pending, RoundState, Place
<1>1. /\ in_ptr' = in_ptr + n /\ size' = size /\ pc' = "decode"
      /\ in_ptr' \in 0 .. size' /\ size' \in 0 .. MAX_CHARS_PER_MESSAGE
  BY <1>0 DEF Pack, IInv, DecodeTypes, RoundState
<1>2. CASE r <= 0
  <2>1. /\ Store(Or(accumulator, Shr(Val(n), -r)))
        /\ out_ptr' = out_ptr + 1
        /\ accumulator' = Overflow(Val(n), r)
        /\ acc_bitcount' = -r
    BY <1>2 DEF Pack, Advance, Carried
  <2>2. 64 * (out_ptr + 1) + (-r) = 6 * in_ptr' /\ -r \in Place /\ out_ptr' \in Nat
    BY <2>1, <1>0, <1>1, <1>2 DEF RoundState, Place
  <2>3. accumulator' = [p \in Place |-> IF p < -r THEN 64 * (out_ptr + 1) + p ELSE Zero]
    BY <2>1, <1>0, <1>2, OverflowBits
  <2>4. accumulator' \in [Place -> Content]
    <3>1. 64 * (out_ptr + 1) \in Nat /\ -r \in 0 .. 64 /\ 64 * (out_ptr + 1) + (-r) <= 6 * MAX_CHARS_PER_MESSAGE
      BY <2>2, <1>0, <1>1 DEF RoundState, Place
    <3> QED
      BY <3>1, <2>3, <1>0, BitsAreContent DEF RoundState
  <2>5. memory' = [b \in Memory |-> IF b - 64 * out_ptr \in Place THEN b ELSE memory[b]]
    <3>1. Or(accumulator, Shr(Val(n), -r)) = [p \in Place |-> 64 * out_ptr + p]
      BY <1>0, <1>2, FullWord
    <3>2. memory' = [b \in Memory |-> IF b - 64 * out_ptr \in Place
                       THEN [p \in Place |-> 64 * out_ptr + p][b - 64 * out_ptr] ELSE memory[b]]
      BY <2>1, <3>1 DEF Store
    <3>3. ASSUME NEW b \in Memory, b - 64 * out_ptr \in Place
          PROVE  [p \in Place |-> 64 * out_ptr + p][b - 64 * out_ptr] = b
      BY <3>3, <1>0, DecoderAssumption DEF DecoderAssumption, RoundState, Memory
    <3> QED
      BY <3>2, <3>3
  <2>6. 64 * (out_ptr + 1) <= 6 * size
    BY <2>2, <1>0, <1>1 DEF RoundState, Place
  <2>7. ASSUME NEW b \in Memory PROVE memory'[b] = Payload(b)' /\ memory'[b] \in Content
    <3>1. b \in Nat
      BY DecoderAssumption DEF DecoderAssumption, Memory
    <3>2. Written = 64 * out_ptr /\ Written' = 64 * (out_ptr + 1)
      BY <1>1, <2>1, <1>0 DEF Written, RoundState
    <3>3. memory[b] = Payload(b) /\ memory[b] \in Content
      BY DEF IInv, BitsInOrder, DecodeTypes
    <3>4. CASE b - 64 * out_ptr \in Place
      <4>1. b < 64 * (out_ptr + 1) /\ b < 6 * size /\ b \in Bit
        BY <3>4, <3>1, <2>6, <1>0 DEF Place, Bit, RoundState
      <4>2. memory'[b] = b
        BY <2>5, <3>4
      <4> QED
        BY <4>1, <4>2, <3>1, <3>2, <1>0, <1>1 DEF Payload, Content, RoundState
    <3>5. CASE b - 64 * out_ptr \notin Place
      <4>1. memory'[b] = memory[b]
        BY <2>5, <3>5
      <4>2. b < 64 * out_ptr \/ b >= 64 * (out_ptr + 1)
        BY <3>5, <3>1, <1>0 DEF Place, RoundState
      <4>3. Payload(b)' = Payload(b)
        BY <4>2, <3>1, <3>2, <1>0, <1>1 DEF Payload, RoundState
      <4> QED
        BY <4>1, <4>3, <3>3
    <3> QED
      BY <3>4, <3>5
  <2>8. memory' \in [Memory -> Content] /\ BitsInOrder'
    BY <2>5, <2>7 DEF BitsInOrder
  <2>9. DecodeTypes'
    BY <1>1, <2>1, <2>2, <2>4, <2>8 DEF DecodeTypes
  <2>10. Pending' /\ Finished'
    BY <1>1, <2>1, <2>2, <2>3 DEF Pending, Finished
  <2> QED
    BY <2>8, <2>9, <2>10 DEF IInv
<1>3. CASE r > 0
  <2>1. /\ accumulator' = Or(accumulator, Shl(Val(n), r))
        /\ acc_bitcount' = acc_bitcount + 6 * n
        /\ memory' = memory /\ out_ptr' = out_ptr
    BY <1>3, <1>0 DEF Pack, RoundState
  <2>2. /\ 64 * out_ptr + (acc_bitcount + 6 * n) = 6 * in_ptr'
        /\ acc_bitcount + 6 * n \in Place
    BY <1>0, <1>1, <1>3 DEF RoundState, Place
  <2>3. accumulator' = [p \in Place |-> IF p < acc_bitcount + 6 * n THEN 64 * out_ptr + p ELSE Zero]
    BY <2>1, <1>0, <1>3, GroupFits
  <2>4. accumulator' \in [Place -> Content]
    <3>1. /\ 64 * out_ptr \in Nat /\ acc_bitcount + 6 * n \in 0 .. 64
          /\ 64 * out_ptr + (acc_bitcount + 6 * n) <= 6 * MAX_CHARS_PER_MESSAGE
      BY <2>2, <1>0, <1>1 DEF RoundState, Place
    <3> QED
      BY <3>1, <2>3, <1>0, BitsAreContent DEF RoundState
  <2>5. DecodeTypes'
    BY <1>1, <2>1, <2>2, <2>4 DEF DecodeTypes, IInv
  <2>6. Pending' /\ Finished'
    BY <1>1, <2>1, <2>2, <2>3 DEF Pending, Finished
  <2>7. BitsInOrder'
    BY <1>1, <2>1 DEF IInv, BitsInOrder, Payload, Written
  <2> QED
    BY <2>5, <2>6, <2>7 DEF IInv
<1> QED
  BY <1>2, <1>3, <1>0 DEF RoundState

(***************************************************************************)
(* The other steps, and the invariant.                                     *)
(***************************************************************************)

LEMMA EndStep == IInv /\ DecodeEnd => IInv'
<1> SUFFICES ASSUME IInv, DecodeEnd PROVE IInv'
  OBVIOUS
<1>1. /\ size \in Nat /\ MAX_CHARS_PER_MESSAGE \in Nat /\ out_ptr \in Nat /\ acc_bitcount \in 0 .. 63
      /\ size <= MAX_CHARS_PER_MESSAGE /\ in_ptr = size
      /\ 6 * size = 64 * out_ptr + acc_bitcount
      /\ accumulator = [p \in Place |-> IF p < acc_bitcount THEN 64 * out_ptr + p ELSE Zero]
  BY DecoderAssumption DEF DecoderAssumption, IInv, DecodeTypes, Pending, DecodeEnd, Place
<1>2. /\ size' = size /\ in_ptr' = in_ptr /\ out_ptr' = out_ptr
      /\ accumulator' = accumulator /\ acc_bitcount' = acc_bitcount
      /\ pc = "decode" /\ pc' \in {"dropped", "type"} /\ Store(accumulator)
  BY DEF DecodeEnd
<1>3. Pending' /\ Finished'
  BY <1>1, <1>2 DEF Pending, Finished
<1>4. ASSUME NEW b \in Memory PROVE memory'[b] = Payload(b)' /\ memory'[b] \in Content
  <2>1. b \in Nat
    BY DecoderAssumption DEF DecoderAssumption, Memory
  <2>2. Written = 64 * out_ptr /\ Written' = 64 * (out_ptr + 1)
    BY <1>1, <1>2 DEF Written
  <2>3. memory[b] = Payload(b) /\ memory[b] \in Content
    BY DEF IInv, BitsInOrder, DecodeTypes
  <2>4. CASE b - 64 * out_ptr \in Place
    <3>1. memory'[b] = accumulator[b - 64 * out_ptr]
      BY <1>2, <2>4 DEF Store
    <3>2. memory'[b] = IF b < 6 * size THEN b ELSE Zero
      BY <3>1, <2>4, <2>1, <1>1 DEF Place
    <3>3. b < Written' /\ (b < 6 * size => b \in Bit)
      BY <2>4, <2>1, <2>2, <1>1 DEF Place, Bit
    <3>4. Payload(b)' = IF b < 6 * size THEN b ELSE Zero
      BY <3>3, <2>1, <2>2, <1>1, <1>2 DEF Payload
    <3> QED
      BY <3>2, <3>3, <3>4 DEF Content
  <2>5. CASE b - 64 * out_ptr \notin Place
    <3>1. memory'[b] = memory[b]
      BY <1>2, <2>5 DEF Store
    <3>2. b < 64 * out_ptr \/ b >= 64 * (out_ptr + 1)
      BY <2>5, <2>1, <1>1 DEF Place
    <3>3. Payload(b)' = Payload(b)
      BY <3>2, <2>1, <2>2, <1>1, <1>2 DEF Payload
    <3> QED
      BY <3>1, <3>3, <2>3
  <2> QED
    BY <2>4, <2>5
<1>5. memory' \in [Memory -> Content] /\ BitsInOrder'
  BY <1>2, <1>4 DEF Store, BitsInOrder
<1>6. DecodeTypes'
  BY <1>2, <1>5 DEF IInv, DecodeTypes
<1> QED
  BY <1>3, <1>5, <1>6 DEF IInv

\* Reading fields changes nothing decodeAscii has left.
LEMMA FieldSteps == IInv /\ (ReadType \/ ReadNumber \/ ReadString) => IInv'
<1> SUFFICES ASSUME IInv, ReadType \/ ReadNumber \/ ReadString PROVE IInv'
  OBVIOUS
<1>1. /\ UNCHANGED <<size, in_ptr, out_ptr, accumulator, acc_bitcount, memory>>
      /\ pc # "decode" /\ pc' # "decode" /\ pc' \in {"type", "fields"}
  BY DEF IInv, DecodeTypes, ReadType, ReadNumber, ReadString
<1> QED
  BY <1>1 DEF IInv, DecodeTypes, Pending, Finished, BitsInOrder, Payload, Written

LEMMA NextIInv == IInv /\ [Next]_vars => IInv'
<1> SUFFICES ASSUME IInv, [Next]_vars PROVE IInv'
  OBVIOUS
<1>0. in_ptr \in Int /\ size \in Int
  BY DecoderAssumption DEF DecoderAssumption, IInv, DecodeTypes
<1>1. CASE DecodeGroup
  <2>1. pc = "decode" /\ in_ptr + 4 <= size /\ Pack(4)
    BY <1>1, <1>0 DEF DecodeGroup
  <2> QED
    BY <2>1, PackStep
<1>2. CASE DecodeChar
  <2>1. pc = "decode" /\ in_ptr + 1 <= size /\ Pack(1)
    BY <1>2, <1>0 DEF DecodeChar
  <2> QED
    BY <2>1, PackStep
<1>3. CASE DecodeEnd
  BY <1>3, EndStep
<1>4. CASE ReadType \/ ReadNumber \/ ReadString
  BY <1>4, FieldSteps
<1>5. CASE UNCHANGED vars
  BY <1>5 DEF vars, IInv, DecodeTypes, Pending, Finished, BitsInOrder, Payload, Written
<1> QED
  BY <1>1, <1>2, <1>3, <1>4, <1>5 DEF Next

(***************************************************************************)
(* For a payload of any length and any size of m_payload, decodeAscii      *)
(* (decoder.h:282) stores the bits of the characters one after the other,  *)
(* then zeros to the end of the last word, and nothing else.               *)
(***************************************************************************)
THEOREM PayloadInOrder == Spec => []BitsInOrder
<1>1. IInv => BitsInOrder
  BY DEF IInv
<1> QED
  BY <1>1, InitIInv, NextIInv, PTL DEF Spec

(***************************************************************************)
(* The window of two or six bytes (decoder.h:372) is wide enough for every *)
(* width up to 32 bits at every bit index.                                 *)
(***************************************************************************)
LEMMA WindowIsSlice ==
  ASSUME NEW m, NEW index \in Nat, NEW n \in 1 .. 32, NEW j \in 0 .. n - 1
  PROVE  Window(m, index, n)[j] = m[index + j]
<1> DEFINE lptr == 8 * (index \div 8)
           q == index % 8
           bits == [p \in Place |-> IF p >= 16 /\ p - 16 < 8 * Bytes(n) THEN m[lptr + p - 16] ELSE Zero]
           i == j + (16 + q)
<1>1. q \in 0 .. 7 /\ index = lptr + q /\ lptr \in Nat
  OBVIOUS
<1>2. j \in Nat /\ j <= 31 /\ (n <= 9 => j <= 8)
  OBVIOUS
<1>3. i \in Place /\ i >= 16
  BY <1>1, <1>2 DEF Place
<1>4. i - 16 < 8 * Bytes(n)
  BY <1>1, <1>2 DEF Bytes
<1>5. Window(m, index, n) = Shl(bits, 16 + q)
  BY DEF Window
<1>6. j \in Place
  BY <1>2 DEF Place
<1>7. Shl(bits, 16 + q)[j] = bits[i]
  BY <1>3, <1>6 DEF Shl
<1>8. bits[i] = m[lptr + i - 16]
  BY <1>3, <1>4
<1>9. lptr + i - 16 = index + j
  BY <1>1, <1>2
<1> QED
  BY <1>5, <1>7, <1>8, <1>9

\* What a right shift by k puts at place p.
LEMMA ShrAt ==
  ASSUME NEW w, NEW k, NEW p \in Place
  PROVE  Shr(w, k)[p] = IF p - k \in Place THEN w[p - k] ELSE Zero
BY DEF Shr

LEMMA SarAt ==
  ASSUME NEW w, NEW k, NEW p \in Place
  PROVE  Sar(w, k)[p] = IF p - k \in Place THEN w[p - k] ELSE w[0]
BY DEF Sar

\* getUnsignedValue returns the n bits at its bit index, right-aligned.
THEOREM UnsignedIsSlice ==
  ASSUME NEW m, NEW index \in Nat, NEW n \in 1 .. 32, NEW p \in Place
  PROVE  getUnsignedValue(m, index, n)[p]
           = IF p >= 64 - n THEN m[index + (p - (64 - n))] ELSE Zero
<1>1. CASE p >= 64 - n
  <2>1. p - (64 - n) \in 0 .. n - 1 /\ p - (64 - n) \in Place
    BY <1>1 DEF Place
  <2>2. getUnsignedValue(m, index, n)[p] = Window(m, index, n)[p - (64 - n)]
    BY <2>1, ShrAt DEF getUnsignedValue
  <2>3. ASSUME NEW j \in 0 .. n - 1 PROVE Window(m, index, n)[j] = m[index + j]
    BY WindowIsSlice
  <2>4. Window(m, index, n)[p - (64 - n)] = m[index + (p - (64 - n))]
    BY <2>1, <2>3
  <2> QED
    BY <2>2, <2>4, <1>1
<1>2. CASE ~(p >= 64 - n)
  <2>1. p - (64 - n) \notin Place
    BY <1>2 DEF Place
  <2> QED
    BY <2>1, <1>2, ShrAt DEF getUnsignedValue
<1> QED
  BY <1>1, <1>2

\* getSignedValue returns the same bits, extended by the first of them.
THEOREM SignedIsSlice ==
  ASSUME NEW m, NEW index \in Nat, NEW n \in 1 .. 32, NEW p \in Place
  PROVE  getSignedValue(m, index, n)[p]
           = IF p >= 64 - n THEN m[index + (p - (64 - n))] ELSE m[index]
<1>1. CASE p >= 64 - n
  <2>1. p - (64 - n) \in 0 .. n - 1 /\ p - (64 - n) \in Place
    BY <1>1 DEF Place
  <2>2. getSignedValue(m, index, n)[p] = Window(m, index, n)[p - (64 - n)]
    BY <2>1, SarAt DEF getSignedValue
  <2>3. ASSUME NEW j \in 0 .. n - 1 PROVE Window(m, index, n)[j] = m[index + j]
    BY WindowIsSlice
  <2>4. Window(m, index, n)[p - (64 - n)] = m[index + (p - (64 - n))]
    BY <2>1, <2>3
  <2> QED
    BY <2>2, <2>4, <1>1
<1>2. CASE ~(p >= 64 - n)
  <2>1. p - (64 - n) \notin Place
    BY <1>2 DEF Place
  <2>2. 0 \in 0 .. n - 1 /\ index + 0 = index
    OBVIOUS
  <2>3. Window(m, index, n)[0] = m[index]
    BY <2>2, WindowIsSlice
  <2> QED
    BY <2>1, <2>3, <1>2, SarAt DEF getSignedValue
<1> QED
  BY <1>1, <1>2

(***************************************************************************)
(* The fields of a message.                                                *)
(***************************************************************************)

\* Every field begins where the one before it ends, and the last one ends
\* inside the 240 bits of a static report.
LEMMA PositionPlaces ==
  /\ Len(PositionReport) = 15
  /\ \A k \in 1 .. 15 :
       /\ PositionStart[k] \in Nat
       /\ PositionReport[k].bits \in 1 .. 30
       /\ PositionStart[k] + PositionReport[k].bits <= 168
       /\ PositionReport[k].kind \in {"unsigned", "signed"}
       /\ k < 15 => PositionStart[k + 1] = PositionStart[k] + PositionReport[k].bits
  /\ PositionStart[1] = 6
<1>1. Len(PositionReport) = 15
  BY DEF PositionReport
<1>2. ASSUME NEW k \in 1 .. 15
      PROVE  /\ PositionStart[k] \in Nat
             /\ PositionReport[k].bits \in 1 .. 30
             /\ PositionStart[k] + PositionReport[k].bits <= 168
             /\ PositionReport[k].kind \in {"unsigned", "signed"}
             /\ k < 15 => PositionStart[k + 1] = PositionStart[k] + PositionReport[k].bits
  <2>1. k \in {1, 2, 3, 4, 5} \/ k \in {6, 7, 8, 9, 10} \/ k \in {11, 12, 13, 14, 15}
    OBVIOUS
  <2>2. CASE k \in {1, 2, 3, 4, 5}
    BY <2>2 DEF PositionReport, PositionStart, Unsigned, Signed, Bool
  <2>3. CASE k \in {6, 7, 8, 9, 10}
    BY <2>3 DEF PositionReport, PositionStart, Unsigned, Signed, Bool
  <2>4. CASE k \in {11, 12, 13, 14, 15}
    BY <2>4 DEF PositionReport, PositionStart, Unsigned, Signed, Bool
  <2> QED
    BY <2>1, <2>2, <2>3, <2>4
<1>3. PositionStart[1] = 6
  BY DEF PositionStart
<1> QED
  BY <1>1, <1>2, <1>3

\* The same of a static report.  Its two strings begin at bits 70 and 112.
LEMMA StaticPlaces ==
  /\ Len(StaticReport) = 7
  /\ \A k \in 1 .. 7 :
       /\ StaticStart[k] \in Nat
       /\ StaticReport[k].bits \in Nat
       /\ StaticReport[k].kind # "string" => StaticReport[k].bits \in 1 .. 30
       /\ StaticReport[k].kind = "string" => StaticStart[k] <= 112
       /\ StaticStart[k] + StaticReport[k].bits <= 240
       /\ StaticReport[k].kind \in {"unsigned", "signed", "string"}
       /\ k < 7 => StaticStart[k + 1] = StaticStart[k] + StaticReport[k].bits
  /\ StaticStart[1] = 6
  BY DEF StaticReport, StaticStart, Unsigned, Signed, String

\* Where the next field is, whatever the layout.
LEMMA NextPlace ==
  ASSUME InLayout, pc = "fields", count < Len(layout)
  PROVE  /\ count + 1 \in 1 .. Len(layout) /\ Field = layout[count + 1]
         /\ uBitIndex = Start[count + 1]
         /\ uBitIndex \in Nat /\ Field.bits \in Nat /\ uBitIndex + Field.bits <= 240
         /\ Field.kind \in {"unsigned", "signed", "string"}
         /\ Field.kind # "string" => Field.bits \in 1 .. 30
         /\ Field.kind = "string" => uBitIndex <= 112
<1>1. CASE layout = StaticReport
  <2>1. Start = StaticStart /\ Len(layout) = 7
    BY <1>1, StaticPlaces DEF Start
  <2>2. count \in 0 .. 6
    BY <2>1 DEF InLayout
  <2>3. uBitIndex = IF count = 0 THEN 6 ELSE StaticStart[count] + StaticReport[count].bits
    BY <2>1, <1>1 DEF InLayout
  <2>4. uBitIndex = StaticStart[count + 1]
    <3>1. CASE count = 0
      BY <3>1, <2>3, StaticPlaces
    <3>2. CASE count # 0
      <4>1. count \in 1 .. 7 /\ count < 7
        BY <3>2, <2>2
      <4>2. StaticStart[count + 1] = StaticStart[count] + StaticReport[count].bits
        BY <4>1, StaticPlaces
      <4> QED
        BY <4>2, <3>2, <2>3
    <3> QED
      BY <3>1, <3>2
  <2>5. Field = StaticReport[count + 1] /\ count + 1 \in 1 .. 7
    BY <1>1, <2>2 DEF Field
  <2> QED
    BY <2>1, <2>2, <2>4, <2>5, <1>1, StaticPlaces
<1>2. CASE layout = PositionReport /\ layout # StaticReport
  <2>1. Start = PositionStart /\ Len(layout) = 15
    BY <1>2, PositionPlaces DEF Start
  <2>2. count \in 0 .. 14
    BY <2>1 DEF InLayout
  <2>3. uBitIndex = IF count = 0 THEN 6 ELSE PositionStart[count] + PositionReport[count].bits
    BY <2>1, <1>2 DEF InLayout
  <2>4. uBitIndex = PositionStart[count + 1]
    <3>1. CASE count = 0
      BY <3>1, <2>3, PositionPlaces
    <3>2. CASE count # 0
      <4>1. count \in 1 .. 15 /\ count < 15
        BY <3>2, <2>2
      <4>2. PositionStart[count + 1] = PositionStart[count] + PositionReport[count].bits
        BY <4>1, PositionPlaces
      <4> QED
        BY <4>2, <3>2, <2>3
    <3> QED
      BY <3>1, <3>2
  <2>5. Field = PositionReport[count + 1] /\ count + 1 \in 1 .. 15
    BY <1>2, <2>2 DEF Field
  <2> QED
    BY <2>1, <2>2, <2>4, <2>5, <1>2, PositionPlaces
<1>3. layout # <<>>
  <2>1. layout = <<>> => Len(layout) = 0
    OBVIOUS
  <2> QED
    BY <2>1 DEF InLayout
<1> QED
  BY <1>1, <1>2, <1>3 DEF InLayout

\* A message is inside m_payload.
LEMMA RoomForFields == MAX_PAYLOAD_SIZE \in Nat /\ MAX_PAYLOAD_SIZE >= 30
<1>1. MAX_CHARS_PER_MESSAGE \in Nat /\ MAX_CHARS_PER_MESSAGE >= 39
  BY DecoderAssumption DEF DecoderAssumption
<1>2. (6 * MAX_CHARS_PER_MESSAGE) \div 8 \in Nat /\ (6 * MAX_CHARS_PER_MESSAGE) \div 8 >= 29
  BY <1>1
<1> QED
  BY <1>2 DEF MAX_PAYLOAD_SIZE

\* A number read from a place inside a message is the field at that place.
LEMMA NumberIsField ==
  ASSUME IInv, pc # "decode",
         NEW index \in Nat, NEW n \in 1 .. 30, index + n <= 240,
         NEW f, f.bits = n
  PROVE  /\ f.kind # "signed" => IsField(getUnsignedValue(memory, index, n), f, index)
         /\ f.kind = "signed" => IsField(getSignedValue(memory, index, n), f, index)
         /\ getUnsignedValue(memory, index, n) \in [Place -> Content]
         /\ getSignedValue(memory, index, n) \in [Place -> Content]
<1>1. ASSUME NEW b \in Nat, b < 240 PROVE memory[b] = Payload(b) /\ memory[b] \in Content
  <2>1. b \in Memory
    BY <1>1, RoomForFields DEF Memory
  <2> QED
    BY <2>1 DEF IInv, DecodeTypes, BitsInOrder
<1>2. index < 240 /\ n \in 1 .. 32 /\ n \in Nat
  OBVIOUS
<1>3. ASSUME NEW p \in Place, p >= 64 - n
      PROVE  /\ index + (p - (64 - n)) = index + p - (64 - n)
             /\ memory[index + p - (64 - n)] = Payload(index + p - (64 - n))
             /\ memory[index + p - (64 - n)] \in Content
  <2>1. index + p - (64 - n) \in Nat /\ index + p - (64 - n) < 240
    BY <1>3 DEF Place
  <2> QED
    BY <2>1, <1>1 DEF Place
<1>4. ASSUME NEW p \in Place
      PROVE  getUnsignedValue(memory, index, n)[p]
               = IF p >= 64 - n THEN memory[index + (p - (64 - n))] ELSE Zero
  BY <1>2, UnsignedIsSlice
<1>5. ASSUME NEW p \in Place
      PROVE  getSignedValue(memory, index, n)[p]
               = IF p >= 64 - n THEN memory[index + (p - (64 - n))] ELSE memory[index]
  BY <1>2, SignedIsSlice
<1>6. f.kind # "signed" => IsField(getUnsignedValue(memory, index, n), f, index)
  BY <1>3, <1>4 DEF IsField
<1>7. f.kind = "signed" => IsField(getSignedValue(memory, index, n), f, index)
  BY <1>1, <1>2, <1>3, <1>5 DEF IsField
<1>8. getUnsignedValue(memory, index, n) \in [Place -> Content]
  <2>1. \A p \in Place : getUnsignedValue(memory, index, n)[p] \in Content
    BY <1>3, <1>4 DEF Content
  <2>2. getUnsignedValue(memory, index, n) = [p \in Place |-> getUnsignedValue(memory, index, n)[p]]
    BY DEF getUnsignedValue, Shr
  <2> QED
    BY <2>1, <2>2
<1>9. getSignedValue(memory, index, n) \in [Place -> Content]
  <2>1. \A p \in Place : getSignedValue(memory, index, n)[p] \in Content
    BY <1>1, <1>2, <1>3, <1>5
  <2>2. getSignedValue(memory, index, n) = [p \in Place |-> getSignedValue(memory, index, n)[p]]
    BY DEF getSignedValue, Sar
  <2> QED
    BY <2>1, <2>2
<1> QED
  BY <1>6, <1>7, <1>8, <1>9

\* What a step after decoding leaves of the payload.
LEMMA PayloadKept ==
  ASSUME pc # "decode", pc' # "decode", UNCHANGED <<size, out_ptr>>
  PROVE  \A b : Payload(b)' = Payload(b)
BY DEF Payload, Written

LEMMA InitFieldInv == Init => FieldInv
<1> SUFFICES ASSUME Init PROVE FieldInv
  OBVIOUS
<1>1. IInv
  BY InitIInv
<1>2. layout = <<>> /\ Len(layout) = 0 /\ count = 0 /\ uBitIndex = 0 /\ pc = "decode"
  BY DEF Init
<1>3. InLayout /\ FieldIsSlice
  BY <1>2 DEF InLayout, FieldIsSlice
<1>4. value \in [Place -> Content] /\ m_bitsUsed \in Uint16
  BY DEF Init, Cleared, Content, Uint16
<1> QED
  BY <1>1, <1>2, <1>3, <1>4 DEF FieldInv, TypeOK, IInv

\* Before the fields nothing has been read.
LEMMA DecodeKeepsFields ==
  ASSUME FieldInv, DecodeGroup \/ DecodeChar \/ DecodeEnd
  PROVE  FieldInv'
<1>1. IInv'
  <2>1. IInv /\ Next
    BY DEF FieldInv, Next
  <2> QED
    BY <2>1, NextIInv
<1>2. /\ pc # "fields" /\ pc' # "fields"
      /\ UNCHANGED <<layout, count, uBitIndex, value>>
      /\ m_bitsUsed' = m_bitsUsed \/ \E fill \in FillBits : m_bitsUsed' = (6 * size - fill) % 65536
  BY DEF DecodeGroup, DecodeChar, DecodeEnd, Pack
<1>3. InLayout' /\ FieldIsSlice'
  BY <1>2 DEF FieldInv, InLayout, FieldIsSlice, Start
<1>4. m_bitsUsed' \in Uint16
  <2>1. ASSUME NEW fill \in FillBits PROVE (6 * size - fill) % 65536 \in Uint16
    <3>1. 6 * size - fill \in Int
      BY DecoderAssumption DEF DecoderAssumption, FieldInv, IInv, DecodeTypes
    <3>2. \A x \in Int : x % 65536 \in Uint16
      BY DEF Uint16
    <3> QED
      BY <3>1, <3>2
  <2> QED
    BY <1>2, <2>1 DEF FieldInv, TypeOK
<1>5. TypeOK'
  <2>1. DecodeTypes'
    BY <1>1 DEF IInv
  <2>2. count' \in 0 .. Len(layout') /\ uBitIndex' \in Nat /\ value' \in [Place -> Content]
    BY <1>2 DEF FieldInv, TypeOK
  <2> QED
    BY <1>4, <2>1, <2>2 DEF TypeOK
<1> QED
  BY <1>1, <1>3, <1>5 DEF FieldInv

LEMMA ReadTypeKeepsFields ==
  ASSUME FieldInv, ReadType
  PROVE  FieldInv'
<1> DEFINE f == Unsigned(6)
<1>1. IInv'
  <2>1. IInv /\ Next
    BY DEF FieldInv, Next
  <2> QED
    BY <2>1, NextIInv
<1>2. /\ pc = "type" /\ pc' = "fields" /\ UNCHANGED <<size, out_ptr, count, m_bitsUsed>>
      /\ value' = getUnsignedValue(memory, uBitIndex, 6) /\ uBitIndex' = uBitIndex + 6
      /\ layout' \in {PositionReport, StaticReport, <<>>}
  BY DEF ReadType
<1>3. uBitIndex = 0 /\ count = 0
  BY <1>2 DEF FieldInv, InLayout
<1>4. f.bits = 6 /\ f.kind # "signed"
  BY DEF Unsigned
<1>5. IsField(value', f, 0) /\ value' \in [Place -> Content]
  <2>1. IInv /\ pc # "decode" /\ 6 \in 1 .. 30 /\ 0 \in Nat /\ 0 + 6 <= 240
    BY <1>2 DEF FieldInv
  <2> HIDE DEF f
  <2>2. f.kind # "signed" => IsField(getUnsignedValue(memory, 0, 6), f, 0)
    BY <2>1, <1>4, NumberIsField
  <2>3. getUnsignedValue(memory, 0, 6) \in [Place -> Content]
    BY <2>1, <1>4, NumberIsField
  <2> QED
    BY <2>2, <2>3, <1>2, <1>3, <1>4
<1>6. FieldIsSlice'
  <2>1. \A b : Payload(b)' = Payload(b)
    BY <1>2, PayloadKept
  <2>2. IsField(value, Unsigned(6), 0)'
    BY <1>5, <2>1 DEF IsField, Unsigned
  <2> QED
    BY <2>2, <1>2, <1>3 DEF FieldIsSlice
<1>7. InLayout' /\ count' \in 0 .. Len(layout')
  <2>1. \A l \in {PositionReport, StaticReport, <<>>} : Len(l) \in Nat
    BY PositionPlaces, StaticPlaces
  <2>2. Len(layout') \in Nat
    BY <1>2, <2>1
  <2> QED
    BY <1>2, <1>3, <2>2 DEF InLayout
<1>8. TypeOK'
  <2>1. DecodeTypes'
    BY <1>1 DEF IInv
  <2>2. m_bitsUsed' \in Uint16 /\ uBitIndex' \in Nat
    BY <1>2, <1>3 DEF FieldInv, TypeOK
  <2> QED
    BY <1>5, <1>7, <2>1, <2>2 DEF TypeOK
<1> QED
  BY <1>1, <1>6, <1>7, <1>8 DEF FieldInv

\* What the two reading steps do to the place in the layout.
LEMMA PlaceMoves ==
  ASSUME FieldInv, pc = "fields", count < Len(layout),
         UNCHANGED <<pc, layout>>, count' = count + 1, uBitIndex' = uBitIndex + Field.bits
  PROVE  /\ InLayout' /\ count' \in 0 .. Len(layout') /\ uBitIndex' \in Nat
         /\ layout'[count'] = Field /\ Start'[count'] = uBitIndex /\ count' # 0
<1>1. /\ count + 1 \in 1 .. Len(layout) /\ Field = layout[count + 1]
      /\ uBitIndex = Start[count + 1] /\ uBitIndex \in Nat /\ Field.bits \in Nat
  BY NextPlace DEF FieldInv
<1>2. Start' = Start
  BY DEF Start
<1>3. Start'[count'] = uBitIndex
  BY <1>1, <1>2
<1>4. layout'[count'] = Field
  BY <1>1
<1>5. count' \in 0 .. Len(layout') /\ count' # 0
  BY <1>1
<1>6. InLayout'
  BY <1>1, <1>3, <1>4, <1>5 DEF InLayout, FieldInv
<1>7. uBitIndex' \in Nat
  BY <1>1
<1>8. Start'[count'] = uBitIndex
  BY <1>3
<1> QED
  BY <1>4, <1>5, <1>6, <1>7, <1>8

LEMMA ReadNumberKeepsFields ==
  ASSUME FieldInv, ReadNumber
  PROVE  FieldInv'
<1>1. IInv'
  <2>1. IInv /\ Next
    BY DEF FieldInv, Next
  <2> QED
    BY <2>1, NextIInv
<1>2. /\ pc = "fields" /\ pc' = "fields" /\ count < Len(layout) /\ Field.kind # "string"
      /\ UNCHANGED <<size, out_ptr, m_bitsUsed, layout, pc, memory>>
      /\ count' = count + 1 /\ uBitIndex' = uBitIndex + Field.bits
      /\ value' = IF Field.kind = "signed"
                  THEN getSignedValue(memory, uBitIndex, Field.bits)
                  ELSE getUnsignedValue(memory, uBitIndex, Field.bits)
  BY DEF ReadNumber
<1>3. /\ uBitIndex \in Nat /\ Field.bits \in 1 .. 30 /\ uBitIndex + Field.bits <= 240
  BY <1>2, NextPlace DEF FieldInv
<1>4. IsField(value', Field, uBitIndex) /\ value' \in [Place -> Content]
  <2> DEFINE f == Field
             n == f.bits
  <2>1. IInv /\ pc # "decode" /\ n \in 1 .. 30 /\ uBitIndex \in Nat /\ uBitIndex + n <= 240
    BY <1>2, <1>3 DEF FieldInv
  <2>2. f.bits = n
    OBVIOUS
  <2>3. value' = IF f.kind = "signed" THEN getSignedValue(memory, uBitIndex, n)
                 ELSE getUnsignedValue(memory, uBitIndex, n)
    BY <1>2
  <2> HIDE DEF f, n
  <2>4. f.kind # "signed" => IsField(getUnsignedValue(memory, uBitIndex, n), f, uBitIndex)
    BY <2>1, <2>2, NumberIsField
  <2>5. f.kind = "signed" => IsField(getSignedValue(memory, uBitIndex, n), f, uBitIndex)
    BY <2>1, <2>2, NumberIsField
  <2>6. getUnsignedValue(memory, uBitIndex, n) \in [Place -> Content]
    BY <2>1, <2>2, NumberIsField
  <2>7. getSignedValue(memory, uBitIndex, n) \in [Place -> Content]
    BY <2>1, <2>2, NumberIsField
  <2>8. IsField(value', f, uBitIndex) /\ value' \in [Place -> Content]
    BY <2>3, <2>4, <2>5, <2>6, <2>7
  <2> QED
    BY <2>8 DEF f
<1>5. /\ InLayout' /\ count' \in 0 .. Len(layout') /\ uBitIndex' \in Nat
      /\ layout'[count'] = Field /\ Start'[count'] = uBitIndex /\ count' # 0
  BY <1>2, PlaceMoves
<1>6. FieldIsSlice'
  <2>1. \A b : Payload(b)' = Payload(b)
    BY <1>2, PayloadKept
  <2> DEFINE f == Field
             g == layout'[count']
             s == Start'[count']
  <2>2. IsField(value, layout[count], Start[count])' <=>
          \A p \in Place :
            value'[p] = IF p >= 64 - g.bits THEN Payload(s + p - (64 - g.bits))
                        ELSE IF g.kind = "signed" THEN Payload(s) ELSE Zero
    BY <2>1 DEF IsField
  <2>3. g = f /\ s = uBitIndex
    BY <1>5
  <2>4. \A p \in Place :
            value'[p] = IF p >= 64 - f.bits THEN Payload(uBitIndex + p - (64 - f.bits))
                        ELSE IF f.kind = "signed" THEN Payload(uBitIndex) ELSE Zero
    BY <1>4 DEF IsField
  <2> HIDE DEF f, g, s
  <2>5. IsField(value, layout[count], Start[count])'
    BY <2>2, <2>3, <2>4
  <2> QED
    BY <2>5, <1>5 DEF FieldIsSlice
<1>7. TypeOK'
  <2>1. DecodeTypes'
    BY <1>1 DEF IInv
  <2>2. m_bitsUsed' \in Uint16
    BY <1>2 DEF FieldInv, TypeOK
  <2> QED
    BY <1>4, <1>5, <2>1, <2>2 DEF TypeOK
<1> QED
  BY <1>1, <1>5, <1>6, <1>7 DEF FieldInv

\* The characters getString may read lie inside the message as well, though
\* their number comes from the bit index.
LEMMA ReadStringKeepsFields ==
  ASSUME FieldInv, ReadString
  PROVE  FieldInv'
<1>1. IInv'
  <2>1. IInv /\ Next
    BY DEF FieldInv, Next
  <2> QED
    BY <2>1, NextIInv
<1>2. /\ pc = "fields" /\ pc' = "fields" /\ count < Len(layout) /\ Field.kind = "string"
      /\ UNCHANGED <<size, out_ptr, m_bitsUsed, layout, pc, memory>>
      /\ count' = count + 1 /\ uBitIndex' = uBitIndex + Field.bits
      /\ \E n \in 0 .. MaxStringChars :
           value' = IF n = 0 THEN value ELSE getUnsignedValue(memory, uBitIndex + 6 * (n - 1), 6)
  BY DEF ReadString
<1>3. uBitIndex \in Nat /\ uBitIndex <= 112
  BY <1>2, NextPlace DEF FieldInv
<1>4. value' \in [Place -> Content]
  <2>1. PICK n \in 0 .. MaxStringChars :
          value' = IF n = 0 THEN value ELSE getUnsignedValue(memory, uBitIndex + 6 * (n - 1), 6)
    BY <1>2
  <2>2. CASE n = 0
    BY <2>1, <2>2 DEF FieldInv, TypeOK
  <2>3. CASE n # 0
    <3> DEFINE i == uBitIndex + 6 * (n - 1)
               f == Unsigned(6)
    <3>1. n \in Nat /\ n <= uBitIndex \div 6 /\ uBitIndex \div 6 <= 18
      BY <2>1, <1>3 DEF MaxStringChars
    <3>2. i \in Nat /\ i + 6 <= 240
      BY <3>1, <2>3, <1>3
    <3>3. IInv /\ pc # "decode" /\ 6 \in 1 .. 30 /\ f.bits = 6
      BY <1>2 DEF FieldInv, Unsigned
    <3>4. value' = getUnsignedValue(memory, i, 6)
      BY <2>1, <2>3
    <3> HIDE DEF i, f
    <3>5. getUnsignedValue(memory, i, 6) \in [Place -> Content]
      BY <3>2, <3>3, NumberIsField
    <3> QED
      BY <3>4, <3>5
  <2> QED
    BY <2>2, <2>3
<1>5. /\ InLayout' /\ count' \in 0 .. Len(layout') /\ uBitIndex' \in Nat
      /\ layout'[count'] = Field /\ count' # 0
  BY <1>2, PlaceMoves
<1>6. FieldIsSlice'
  BY <1>2, <1>5 DEF FieldIsSlice
<1>7. TypeOK'
  <2>1. DecodeTypes'
    BY <1>1 DEF IInv
  <2>2. m_bitsUsed' \in Uint16
    BY <1>2 DEF FieldInv, TypeOK
  <2> QED
    BY <1>4, <1>5, <2>1, <2>2 DEF TypeOK
<1> QED
  BY <1>1, <1>5, <1>6, <1>7 DEF FieldInv

LEMMA NextFieldInv == FieldInv /\ [Next]_vars => FieldInv'
<1> SUFFICES ASSUME FieldInv, [Next]_vars PROVE FieldInv'
  OBVIOUS
<1>1. CASE DecodeGroup \/ DecodeChar \/ DecodeEnd
  BY <1>1, DecodeKeepsFields
<1>2. CASE ReadType
  BY <1>2, ReadTypeKeepsFields
<1>3. CASE ReadNumber
  BY <1>3, ReadNumberKeepsFields
<1>4. CASE ReadString
  BY <1>4, ReadStringKeepsFields
<1>5. CASE UNCHANGED vars
  <2>1. IInv'
    BY NextIInv DEF FieldInv
  <2>2. InLayout' /\ TypeOK'
    BY <1>5 DEF FieldInv, vars, InLayout, Start, TypeOK, DecodeTypes
  <2>3. FieldIsSlice'
    BY <1>5 DEF FieldInv, vars, FieldIsSlice, Start, IsField, Payload, Written
  <2> QED
    BY <2>1, <2>2, <2>3 DEF FieldInv
<1> QED
  BY <1>1, <1>2, <1>3, <1>4, <1>5 DEF Next

(***************************************************************************)
(* With the constants as in the code, a message stays what it is: the      *)
(* fields that procPayloadsQueue (main.cpp:123) reads one after the other  *)
(* are the bits at the places the layout of the message type has them.     *)
(***************************************************************************)
THEOREM FieldsAreSlices == Spec => []FieldIsSlice
<1>1. FieldInv => FieldIsSlice
  BY DEF FieldInv
<1> QED
  BY <1>1, InitFieldInv, NextFieldInv, PTL DEF Spec

\* The values, the counters and the words of the decoder keep their types: in
\* particular no accessor reads outside m_payload.
THEOREM DecoderTypes == Spec => []TypeOK
<1>1. FieldInv => TypeOK
  BY DEF FieldInv
<1> QED
  BY <1>1, InitFieldInv, NextFieldInv, PTL DEF Spec

\* What the longest payload has in its last word: 24 bits for the 164 characters
\* of the code, which is just enough.
RoomForLastWord == (6 * MAX_CHARS_PER_MESSAGE) % 64 >= 24

\* decodeAscii (decoder.h:282) stores eight bytes at a time: inside m_payload while
\* the payload has fewer bits than its whole words, and no further than m_bitsUsed
\* behind it for a payload of any size that the message can have.
THEOREM StoresFit == RoomForLastWord /\ Spec => []StoresInBounds
<1> DEFINE I == RoomForLastWord /\ IInv
<1>1. RoomForLastWord /\ Init => I
  BY InitIInv
<1>2. I /\ [Next]_vars => I'
  BY NextIInv DEF RoomForLastWord
<1>3. I => StoresInBounds
  <2> SUFFICES ASSUME I PROVE StoresInBounds
    OBVIOUS
  <2>1. /\ out_ptr \in Nat /\ size \in Nat /\ MAX_CHARS_PER_MESSAGE \in Nat
        /\ size <= MAX_CHARS_PER_MESSAGE /\ in_ptr \in Nat /\ in_ptr <= size
    BY DecoderAssumption DEF DecoderAssumption, IInv, DecodeTypes
  <2>2. 64 * out_ptr <= 6 * size
    <3>1. CASE pc = "decode"
      <4>1. 6 * in_ptr = 64 * out_ptr + acc_bitcount /\ acc_bitcount \in Nat
        BY <3>1 DEF IInv, Pending, DecodeTypes, Place
      <4> QED
        BY <4>1, <2>1
    <3>2. CASE pc # "decode"
      BY <3>2 DEF IInv, Finished
    <3> QED
      BY <3>1, <3>2
  <2>3. \A n, w \in Nat : 64 * w <= n /\ n % 64 >= 24 => 8 * (w + 1) <= n \div 8 + 5
    OBVIOUS
  <2>4. 6 * MAX_CHARS_PER_MESSAGE \in Nat /\ 64 * out_ptr <= 6 * MAX_CHARS_PER_MESSAGE
    BY <2>1, <2>2
  <2>5. 8 * (out_ptr + 1) <= (6 * MAX_CHARS_PER_MESSAGE) \div 8 + 5
    BY <2>1, <2>3, <2>4 DEF RoomForLastWord
  <2>6. 8 * (out_ptr + 1) <= MAX_PAYLOAD_SIZE + 4
    BY <2>1, <2>5 DEF MAX_PAYLOAD_SIZE
  <2>7. ASSUME 6 * size < 64 * (MAX_PAYLOAD_SIZE \div 8)
        PROVE  8 * (out_ptr + 1) <= MAX_PAYLOAD_SIZE
    <3>1. \A n, w \in Nat : 64 * w < 64 * (n \div 8) => 8 * (w + 1) <= n
      OBVIOUS
    <3>2. MAX_PAYLOAD_SIZE \in Nat
      BY RoomForFields
    <3>3. 64 * out_ptr < 64 * (MAX_PAYLOAD_SIZE \div 8)
      BY <2>1, <2>2, <2>7, <3>2
    <3> QED
      BY <2>1, <3>1, <3>2, <3>3
  <2> QED
    BY <2>6, <2>7 DEF StoresInBounds
<1> QED
  BY <1>1, <1>2, <1>3, PTL DEF Spec

(***************************************************************************)
(* The way of a sentence: what is proved of the decoder holds in it.       *)
(***************************************************************************)
THEOREM SentenceImplementsDecoder == SentenceSpec => Spec
<1>1. SentenceInit => Init
  BY DEF SentenceInit
<1>2. [SentenceNext]_<<vars, checking>> => [Next]_vars
  BY DEF SentenceNext, Check, Judge, Decode
<1> QED
  BY <1>1, <1>2, PTL DEF SentenceSpec, Spec

\* While the checksum is computed it is the one of Checksum.tla, and a sentence
\* is rejected only for a checksum that does not match.
JudgeInv ==
  /\ C!SumInv
  /\ m_uSize \in Nat /\ m_sentence = append(0, SentenceSize)
  /\ verdict = "rejected" => at = "done" /\ ~Matches

LEMMA InitJudgeInv == SentenceInit => JudgeInv
<1> SUFFICES ASSUME SentenceInit PROVE JudgeInv
  OBVIOUS
<1>1. m_uSize \in Nat
  BY DecodingAssumption DEF DecodingAssumption, SentenceInit
<1>2. /\ MAX_CHARS_PER_FRAGMENT \in Nat /\ PayloadOffset \in Nat /\ Alignments \subseteq 0 .. 3
  BY DecodingAssumption DEF DecodingAssumption, Sum!ChecksumAssumption
<1>3. m_sentence = append(0, SentenceSize) /\ align \in Alignments
  BY DEF SentenceInit, Sum!Start
<1>4. m_sentence \in 0 .. MAX_CHARS_PER_FRAGMENT
  BY <1>1, <1>2, <1>3 DEF append, SentenceSize, TrailerSize
<1>5. C!ChecksumAssumption
  BY <1>2 DEF C!ChecksumAssumption
<1>6. C!SumInit
  <2>1. C!Start(m_sentence)
    BY DEF SentenceInit, Sum!Start, C!Start, Sum!Lane, C!Lane
  <2> QED
    BY <2>1, <1>4 DEF C!SumInit
<1>7. C!SumInv
  BY <1>5, <1>6, C!InitSumInv
<1> QED
  BY <1>1, <1>3, <1>7 DEF JudgeInv, SentenceInit

LEMMA SameSum == Sum!SumNext <=> C!SumNext
  BY DEF Sum!SumNext, C!SumNext, Sum!HeadByte, C!HeadByte, Sum!HeadEnd, C!HeadEnd, Sum!Word, C!Word,
         Sum!WordsEnd, C!WordsEnd, Sum!TailByte, C!TailByte, Sum!TailEnd, C!TailEnd,
         Sum!Byte, C!Byte, Sum!Goto, C!Goto, Sum!Unaligned, C!Unaligned, Sum!Xor, C!Xor,
         Sum!Fold, C!Fold, Sum!Lane, C!Lane, Sum!in_sentinel, C!in_sentinel,
         Sum!in_sentinel4, C!in_sentinel4

LEMMA NextJudgeInv == JudgeInv /\ [SentenceNext]_<<vars, checking>> => JudgeInv'
<1> SUFFICES ASSUME JudgeInv, [SentenceNext]_<<vars, checking>> PROVE JudgeInv'
  OBVIOUS
<1>1. m_uSize' = m_uSize
  BY DEF SentenceNext, Check, Judge, Decode, checking
<1>2. CASE Check
  <2>1. C!SumInv'
    BY <1>2, SameSum, C!NextSumInv DEF Check, JudgeInv
  <2>2. m_sentence' = m_sentence
    BY <1>2 DEF Check, Sum!SumNext, Sum!HeadByte, Sum!HeadEnd, Sum!Word, Sum!WordsEnd,
       Sum!TailByte, Sum!TailEnd, Sum!Byte, Sum!Goto
  <2>3. verdict = "none" /\ verdict' = verdict
    BY <1>2 DEF Check
  <2> QED
    BY <1>1, <2>1, <2>2, <2>3 DEF JudgeInv, append, SentenceSize
<1>3. CASE Judge
  <2>1. at = "done" /\ align' = 0 /\ UNCHANGED <<sound, m_sentence, sum_ptr, lanes, at>>
    BY <1>3 DEF Judge
  <2>2. C!SumInv'
    BY <2>1 DEF JudgeInv, C!SumInv, C!SumTypes, C!EachByteOnce, C!Progress, C!ReadsInside,
                C!in_sentinel, C!in_sentinel4
  <2>3. Matches' = Matches
    BY <2>1, <1>1 DEF Matches, SentenceSize
  <2>4. verdict' = "rejected" => ~Matches
    BY <1>3 DEF Judge
  <2> QED
    BY <1>1, <2>1, <2>2, <2>3, <2>4 DEF JudgeInv, append, SentenceSize
<1>4. CASE UNCHANGED checking
  <2>1. UNCHANGED <<sound, m_sentence, align, sum_ptr, lanes, at, verdict>>
    BY <1>4 DEF checking
  <2>2. C!SumInv'
    BY <2>1, C!NextSumInv DEF JudgeInv, C!sumVars
  <2> QED
    BY <1>1, <2>1, <2>2 DEF JudgeInv, append, SentenceSize, Matches
<1> QED
  BY <1>2, <1>3, <1>4 DEF SentenceNext, Decode

\* A checksum that is complete covers the stored sentence but its last three
\* characters.
LEMMA SumComplete == C!SumInv => (at = "done" => lanes[0] = 0 .. m_sentence - 4)
<1> SUFFICES ASSUME C!SumInv, at = "done" PROVE lanes[0] = 0 .. m_sentence - 4
  OBVIOUS
<1>1. lanes[0] = 0 .. sum_ptr - 1
  BY C!LaneZero
<1>2. /\ sum_ptr \in Nat /\ m_sentence \in Nat
      /\ sum_ptr >= m_sentence - 3 /\ (sum_ptr = 0 \/ sum_ptr <= m_sentence - 3)
  BY DEF C!SumInv, C!SumTypes, C!Progress, C!ReadsInside, C!in_sentinel
<1> QED
  BY <1>1, <1>2

\* What processSentence (decoder.h:254) has calcCrc sum of the stored copy of a
\* sentence is all of it but the last three characters.
THEOREM SentenceSummed == SentenceSpec => []SumsSentence
<1>1. JudgeInv => SumsSentence
  BY SumComplete DEF JudgeInv, SumsSentence, Sum!SumsSentence
<1> QED
  BY <1>1, InitJudgeInv, NextJudgeInv, PTL DEF SentenceSpec

\* And calcCrc reads no further than that copy, in aligned words.
THEOREM SentenceReadInside == SentenceSpec => []ReadsInside
<1>1. JudgeInv => ReadsInside
  BY DEF JudgeInv, C!SumInv, C!ReadsInside, C!in_sentinel, C!in_sentinel4, C!Unaligned,
         ReadsInside, Sum!ReadsInside, Sum!in_sentinel, Sum!in_sentinel4, Sum!Unaligned
<1> QED
  BY <1>1, InitJudgeInv, NextJudgeInv, PTL DEF SentenceSpec

\* A sentence that arrives as it was sent is rejected only if it is longer than
\* the copy, which has then lost the checksum (decoder.h:254).
THEOREM IntactAccepted == SentenceSpec => []SoundAccepted
<1>1. JudgeInv => SoundAccepted
  <2> SUFFICES ASSUME JudgeInv, verdict = "rejected", sound
               PROVE  SentenceSize > MAX_CHARS_PER_FRAGMENT
    BY DEF SoundAccepted
  <2>1. lanes[0] = 0 .. m_sentence - 4 /\ lanes[0] # 0 .. SentenceSize - 4
    BY SumComplete DEF JudgeInv, Matches
  <2>2. m_sentence # SentenceSize
    BY <2>1
  <2>3. MAX_CHARS_PER_FRAGMENT \in Nat /\ SentenceSize \in Nat
    BY DecodingAssumption DEF DecodingAssumption, Sum!ChecksumAssumption, JudgeInv, SentenceSize, TrailerSize
  <2>4. m_sentence = IF SentenceSize > MAX_CHARS_PER_FRAGMENT THEN MAX_CHARS_PER_FRAGMENT ELSE SentenceSize
    BY <2>3 DEF JudgeInv, append
  <2> QED
    BY <2>2, <2>4
<1> QED
  BY <1>1, InitJudgeInv, NextJudgeInv, PTL DEF SentenceSpec
=============================================================================
