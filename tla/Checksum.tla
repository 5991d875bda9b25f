----------------------------- MODULE Checksum ------------------------------
(***************************************************************************)
(* calcCrc of src/ais_decoder/decoder.h: the exclusive or of the bytes of  *)
(* a sentence, except its last three ("*hh"), four bytes at a time where   *)
(* the address allows it.                                                  *)
(*                                                                         *)
(* A byte is known by its index, not by its value, and an exclusive or is  *)
(* the set of the bytes that occur in it an odd number of times.  The four *)
(* bytes of checksum4 are its lanes; checksum is lane 0.                   *)
(* Mut... definitions: see the README, "Mutants".                          *)
(***************************************************************************)
EXTENDS Integers

CONSTANTS MaxSize,      \* longest string (82 in the code)
          Alignments    \* of the string's address, modulo 4

\* Assumed by SentenceDecoding and by the theorems of ChecksumProofs.
ChecksumAssumption ==
  /\ MaxSize \in Nat
  /\ Alignments \subseteq 0 .. 3

VARIABLES size,     \* of the string; never changes
          align,    \* intptr_t(_str.data()) & 3
          in_ptr,   \* index of the next byte
          lanes,    \* checksum4
          at        \* which of the three loops runs

sumVars == <<size, align, in_ptr, lanes, at>>

Lane == 0 .. 3
Xor(a, b) == (a \ b) \cup (b \ a)

in_sentinel  == size - 3
MutIn_sentinel4 == in_sentinel
in_sentinel4 == in_sentinel - 4
-----------------------------------------------------------------------------
\* checksum ^= *in_ptr++
Byte ==
  /\ lanes' = [lanes EXCEPT ![0] = Xor(@, {in_ptr})]
  /\ in_ptr' = in_ptr + 1
  /\ UNCHANGED <<size, align, at>>

Goto(l) == at' = l /\ UNCHANGED <<size, align, in_ptr>>

Unaligned == (align + in_ptr) % 4 # 0

HeadByte == at = "head" /\ Unaligned /\ in_ptr < in_sentinel /\ Byte
HeadEnd  == at = "head" /\ ~(Unaligned /\ in_ptr < in_sentinel) /\ Goto("words") /\ UNCHANGED lanes

\* checksum4 ^= *(uint32_t*)in_ptr
Word ==
  /\ at = "words" /\ in_ptr < in_sentinel4
  /\ lanes' = [j \in Lane |-> Xor(lanes[j], {in_ptr + j})]
  /\ in_ptr' = in_ptr + 4
  /\ UNCHANGED <<size, align, at>>

MutFold == lanes[0]                                \* lanes not combined
Fold == Xor(Xor(lanes[0], lanes[1]), Xor(lanes[2], lanes[3]))

WordsEnd ==
  /\ at = "words" /\ in_ptr >= in_sentinel4
  /\ lanes' = [j \in Lane |-> IF j = 0 THEN Fold ELSE {}]
  /\ Goto("tail")

TailByte == at = "tail" /\ in_ptr < in_sentinel /\ Byte
TailEnd  == at = "tail" /\ in_ptr >= in_sentinel /\ Goto("done") /\ UNCHANGED lanes

Start(n) ==
  /\ size = n /\ align \in Alignments
  /\ in_ptr = 0 /\ lanes = [j \in Lane |-> {}]
  /\ at = "head"

SumInit == \E n \in 0 .. MaxSize : Start(n)

SumNext == HeadByte \/ HeadEnd \/ Word \/ WordsEnd \/ TailByte \/ TailEnd

SumSpec == SumInit /\ [][SumNext]_sumVars
-----------------------------------------------------------------------------
\* The checksum is the exclusive or of all bytes before the last three, each of
\* them once, for every length and alignment.
SumsSentence == at = "done" => lanes[0] = 0 .. size - 4

\* Words are read from aligned addresses, and no byte of the last three is read.
ReadsInside ==
  /\ in_ptr = 0 \/ in_ptr <= in_sentinel
  /\ at = "words" /\ in_ptr < in_sentinel4 => ~Unaligned

(* What makes these inductive: every byte before in_ptr is in one lane      *)
(* (ChecksumProofs).                                                        *)
SumTypes ==
  /\ size \in 0 .. MaxSize /\ align \in 0 .. 3 /\ in_ptr \in Nat
  /\ lanes \in [Lane -> SUBSET Nat]
  /\ at \in {"head", "words", "tail", "done"}
EachByteOnce ==
  /\ \A j \in Lane : lanes[j] \subseteq 0 .. in_ptr - 1
  /\ \A b \in 0 .. in_ptr - 1 : \E j \in Lane : b \in lanes[j]
  /\ \A i, j \in Lane : i # j => lanes[i] \cap lanes[j] = {}
  /\ at # "words" => \A j \in Lane \ {0} : lanes[j] = {}
Progress ==
  /\ at = "words" => ~Unaligned \/ in_ptr >= in_sentinel
  /\ at = "done" => in_ptr >= in_sentinel
SumInv == SumTypes /\ EachByteOnce /\ Progress /\ ReadsInside
=============================================================================
