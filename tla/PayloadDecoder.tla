--------------------------- MODULE PayloadDecoder --------------------------
(***************************************************************************)
(* decodeAscii, getUnsignedValue, getSignedValue and getString of          *)
(* src/ais_decoder/decoder.h, and the order in which procPayloadsQueue     *)
(* (src/ais_reader/main.cpp) reads the fields of a message: 6-bit          *)
(* characters are packed into 64-bit words, and fields are cut out again.  *)
(*                                                                         *)
(* A bit is known by its place in _msg.m_payload, not by its value: bit b  *)
(* of character c (0-based, most significant first) is 6 * c + b.  What    *)
(* holds of the places holds of every payload of that length.  A 64-bit    *)
(* value is a function on 0..63, most significant bit first.               *)
(* Mut... definitions: see the README, "Mutants".                          *)
(***************************************************************************)
EXTENDS Integers, Sequences

CONSTANTS MAX_CHARS_PER_MESSAGE,   \* longest _msg.m_payload (164 in the code)
          FillBits                 \* what the unassigned m_uFillBits may hold

ASSUME DecoderAssumption ==
  /\ MAX_CHARS_PER_MESSAGE \in Nat
  /\ MAX_CHARS_PER_MESSAGE >= 39      \* m_payload holds the fields of every layout
  /\ FillBits \subseteq 0 .. 255

\* Bytes of m_payload (124 in the code); the 4 bytes of m_bitsUsed follow it.
MAX_PAYLOAD_SIZE == (6 * MAX_CHARS_PER_MESSAGE) \div 8 + 1

VARIABLES size,           \* characters in _msg.m_payload; never changes
          in_ptr,         \* characters consumed
          out_ptr,        \* words stored
          accumulator, acc_bitcount,
          memory,         \* the bits of _payload.m_payload
          m_bitsUsed,
          layout,         \* the fields procPayloadsQueue reads after the message type
          count,          \* how many of them it has read
          uBitIndex,
          value,          \* the number read last
          pc

vars == <<size, in_ptr, out_ptr, accumulator, acc_bitcount, memory, m_bitsUsed,
          layout, count, uBitIndex, value, pc>>

Zero  == -1      \* a cleared bit
Stale == -2      \* a bit of m_payload nobody has written for this message
Mixed == -3      \* the OR of two bits of the message

Place   == 0 .. 63
Bit     == 0 .. 6 * MAX_CHARS_PER_MESSAGE - 1
Content == Bit \cup {Zero, Stale, Mixed}
Memory  == 0 .. 8 * MAX_PAYLOAD_SIZE - 1
Uint16  == 0 .. 65535
-----------------------------------------------------------------------------
(* 64-bit values.                                                          *)

Cleared == [p \in Place |-> Zero]
Shl(w, n) == [p \in Place |-> IF p + n \in Place THEN w[p + n] ELSE Zero]
Shr(w, n) == [p \in Place |-> IF p - n \in Place THEN w[p - n] ELSE Zero]
Sar(w, n) == [p \in Place |-> IF p - n \in Place THEN w[p - n] ELSE w[0]]
Or(v, w) == [p \in Place |-> IF v[p] = Zero THEN w[p]
                             ELSE IF w[p] = Zero THEN v[p] ELSE Mixed]

\* The next n characters, right-aligned.
Val(n) == [p \in Place |-> IF p >= 64 - 6 * n THEN 6 * in_ptr + p - (64 - 6 * n) ELSE Zero]
-----------------------------------------------------------------------------
(* decodeAscii.                                                            *)

\* *(uint64_t*)out_ptr = bswap64(w): the most significant bit comes first.  Bytes
\* that are stored behind m_payload fall on m_bitsUsed (StoresInBounds), which is
\* assigned after the last store.
Store(w) == memory' = [b \in Memory |->
  IF b - 64 * out_ptr \in Place THEN w[b - 64 * out_ptr] ELSE memory[b]]

MutOverflow(v, remainder) == Cleared               \* what does not fit is lost
Overflow(v, remainder) == IF remainder < 0 THEN Shl(v, 64 + remainder) ELSE Cleared

MutCarried(remainder) == remainder                 \* sign forgotten
Carried(remainder) == -remainder

MutAdvance == out_ptr + 8                          \* out_ptr taken for a word pointer
Advance == out_ptr + 1

\* One round of either loop, for n characters.
Pack(n) ==
  LET val       == Val(n)
      remainder == 64 - acc_bitcount - 6 * n
  IN  /\ IF remainder <= 0
         THEN /\ Store(Or(accumulator, Shr(val, -remainder)))
              /\ out_ptr' = Advance
              /\ accumulator' = Overflow(val, remainder)
              /\ acc_bitcount' = Carried(remainder)
         ELSE /\ accumulator' = Or(accumulator, Shl(val, remainder))
              /\ acc_bitcount' = acc_bitcount + 6 * n
              /\ UNCHANGED <<memory, out_ptr>>
      /\ in_ptr' = in_ptr + n
      /\ UNCHANGED <<size, m_bitsUsed, layout, count, uBitIndex, value, pc>>

DecodeGroup == pc = "decode" /\ in_ptr < size - 4 /\ Pack(4)

DecodeChar == pc = "decode" /\ in_ptr >= size - 4 /\ in_ptr < size /\ Pack(1)

\* The accumulator goes out as it is.  m_uFillBits is never assigned, so
\* m_bitsUsed may be anything, and at 0 processMessages drops the payload.
DecodeEnd ==
  /\ pc = "decode" /\ in_ptr >= size
  /\ Store(accumulator)
  /\ \E fill \in FillBits : m_bitsUsed' = (6 * size - fill) % 65536
  /\ pc' = IF m_bitsUsed' = 0 THEN "dropped" ELSE "type"
  /\ UNCHANGED <<size, in_ptr, out_ptr, accumulator, acc_bitcount, layout, count, uBitIndex, value>>
-----------------------------------------------------------------------------
(* Fields.                                                                 *)

MutBytes(n) == IF n > 9 THEN 4 ELSE 2              \* a word of four bytes
Bytes(n) == IF n > 9 THEN 6 ELSE 2

\* The bytes at lptr, and the shift that puts bit index at the top.
Window(m, index, n) ==
  LET lptr == 8 * (index \div 8)
      bits == [p \in Place |-> IF p >= 16 /\ p - 16 < 8 * Bytes(n) THEN m[lptr + p - 16] ELSE Zero]
  IN  Shl(bits, 16 + (index % 8))

getUnsignedValue(m, index, n) == Shr(Window(m, index, n), 64 - n)
getSignedValue(m, index, n)   == Sar(Window(m, index, n), 64 - n)

Unsigned(n) == [kind |-> "unsigned", bits |-> n]
Signed(n)   == [kind |-> "signed", bits |-> n]
String(n)   == [kind |-> "string", bits |-> n]
Bool        == Unsigned(1)

PositionReport ==   \* message types 1, 2, 3
  <<Unsigned(2), Unsigned(30), Unsigned(4), Signed(8), Unsigned(10), Bool, Signed(28),
    Signed(27), Unsigned(12), Unsigned(9), Unsigned(6), Unsigned(2), Unsigned(3), Bool,
    Unsigned(19)>>
StaticReport ==     \* message type 5
  <<Unsigned(2), Unsigned(30), Unsigned(2), Unsigned(30), String(42), String(120), Unsigned(8)>>

ReadType ==
  /\ pc = "type"
  /\ value' = getUnsignedValue(memory, uBitIndex, 6)
  /\ uBitIndex' = uBitIndex + 6
  /\ layout' \in {PositionReport, StaticReport, <<>>}
  /\ pc' = "fields"
  /\ UNCHANGED <<size, in_ptr, out_ptr, accumulator, acc_bitcount, memory, m_bitsUsed, count>>

Field == layout[count + 1]

ReadNumber ==
  /\ pc = "fields" /\ count < Len(layout) /\ Field.kind # "string"
  /\ value' = IF Field.kind = "signed"
              THEN getSignedValue(memory, uBitIndex, Field.bits)
              ELSE getUnsignedValue(memory, uBitIndex, Field.bits)
  /\ uBitIndex' = uBitIndex + Field.bits
  /\ count' = count + 1
  /\ UNCHANGED <<size, in_ptr, out_ptr, accumulator, acc_bitcount, memory, m_bitsUsed, layout, pc>>

\* getString reads characters up to an '@'; value is the last of them.  Their
\* number comes from the bit index, not from the field (README, "Findings").
MaxStringChars == IF uBitIndex \div 6 > 64 THEN 64 ELSE uBitIndex \div 6

MutReadString ==                                   \* the index stays behind the last character
  /\ pc = "fields" /\ count < Len(layout) /\ Field.kind = "string"
  /\ \E n \in 0 .. MaxStringChars : uBitIndex' = uBitIndex + 6 * n
  /\ value' = value
  /\ count' = count + 1
  /\ UNCHANGED <<size, in_ptr, out_ptr, accumulator, acc_bitcount, memory, m_bitsUsed, layout, pc>>

ReadString ==
  /\ pc = "fields" /\ count < Len(layout) /\ Field.kind = "string"
  /\ \E n \in 0 .. MaxStringChars :
       value' = IF n = 0 THEN value ELSE getUnsignedValue(memory, uBitIndex + 6 * (n - 1), 6)
  /\ uBitIndex' = uBitIndex + Field.bits
  /\ count' = count + 1
  /\ UNCHANGED <<size, in_ptr, out_ptr, accumulator, acc_bitcount, memory, m_bitsUsed, layout, pc>>

Init ==
  /\ size \in 0 .. MAX_CHARS_PER_MESSAGE
  /\ in_ptr = 0 /\ out_ptr = 0
  /\ accumulator = Cleared /\ acc_bitcount = 0
  /\ memory = [b \in Memory |-> Stale]
  /\ m_bitsUsed = 0
  /\ layout = <<>> /\ count = 0 /\ uBitIndex = 0
  /\ value = Cleared
  /\ pc = "decode"

Next == DecodeGroup \/ DecodeChar \/ DecodeEnd \/ ReadType \/ ReadNumber \/ ReadString

Spec == Init /\ [][Next]_vars
-----------------------------------------------------------------------------
DecodeTypes ==
  /\ size \in 0 .. MAX_CHARS_PER_MESSAGE /\ in_ptr \in 0 .. size
  /\ out_ptr \in Nat
  /\ accumulator \in [Place -> Content] /\ acc_bitcount \in Place
  /\ memory \in [Memory -> Content]
  /\ pc \in {"decode", "dropped", "type", "fields"}
TypeOK ==
  /\ DecodeTypes
  /\ m_bitsUsed \in Uint16
  /\ count \in 0 .. Len(layout) /\ uBitIndex \in Nat
  /\ value \in [Place -> Content]

\* Bit b of the payload: the message, then zeros to the end of the last word,
\* then whatever an earlier message left there.
Written == 64 * (out_ptr + IF pc = "decode" THEN 0 ELSE 1)
Payload(b) == IF b >= Written THEN Stale ELSE IF b < 6 * size THEN b ELSE Zero

\* De-armouring concatenates the 6-bit groups without a gap, an overlap or a
\* swap, wherever a group falls on a word boundary, and for every length.
BitsInOrder == \A b \in Memory : memory[b] = Payload(b)

\* Words are stored eight bytes at a time, the last one too.  No store leaves
\* m_payload as long as the payload's bits are fewer than those of its whole words
\* (159 characters).  Longer payloads, which only a sentence that was cut has, make
\* the code store past the end of m_payload, but never past m_bitsUsed, which follows
\* and is assigned afterwards.
StoresInBounds ==
  /\ 6 * size < 64 * (MAX_PAYLOAD_SIZE \div 8) => 8 * (out_ptr + 1) <= MAX_PAYLOAD_SIZE
  /\ 8 * (out_ptr + 1) <= MAX_PAYLOAD_SIZE + 4

\* The number read last is the field at its place in the message type's layout,
\* right-aligned and, if it is signed, extended by its first bit; strings in
\* between do not shift what follows them.  (The places are those of the AIS message
\* formats, which the code leaves to the order and the widths of its calls.)
PositionStart == <<6, 8, 38, 42, 50, 60, 61, 89, 116, 128, 137, 143, 145, 148, 149>>
StaticStart   == <<6, 8, 38, 40, 70, 112, 232>>
Start == IF layout = StaticReport THEN StaticStart ELSE PositionStart
IsField(v, f, offset) ==
  \A p \in Place :
    v[p] = IF p >= 64 - f.bits THEN Payload(offset + p - (64 - f.bits))
           ELSE IF f.kind = "signed" THEN Payload(offset) ELSE Zero
FieldIsSlice ==
  pc = "fields" =>
    IF count = 0 THEN IsField(value, Unsigned(6), 0)
    ELSE layout[count].kind # "string" => IsField(value, layout[count], Start[count])

(* What makes BitsInOrder inductive: the accumulator holds the bits between  *)
(* the last word stored and the next character (SentenceDecodingProofs).     *)
Pending ==
  pc = "decode" =>
    /\ 6 * in_ptr = 64 * out_ptr + acc_bitcount
    /\ accumulator = [p \in Place |-> IF p < acc_bitcount THEN 64 * out_ptr + p ELSE Zero]
Finished == pc # "decode" => 64 * out_ptr <= 6 * size /\ 6 * size < 64 * (out_ptr + 1)

IInv == DecodeTypes /\ Pending /\ Finished /\ BitsInOrder

(* What makes FieldIsSlice inductive: the bit index is where the field read *)
(* last ends.                                                               *)
InLayout ==
  /\ layout \in {PositionReport, StaticReport, <<>>}
  /\ count \in 0 .. Len(layout)
  /\ uBitIndex = IF pc # "fields" THEN 0
                 ELSE IF count = 0 THEN 6 ELSE Start[count] + layout[count].bits
  /\ pc # "fields" => count = 0

FieldInv == IInv /\ InLayout /\ TypeOK /\ FieldIsSlice
=============================================================================
