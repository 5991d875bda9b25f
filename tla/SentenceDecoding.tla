-------------------------- MODULE SentenceDecoding -------------------------
(***************************************************************************)
(* The way of a single sentence through src/ais_decoder: readSentence      *)
(* stores it in a String of fixed capacity (strutils.h), processSentence   *)
(* compares its checksum (Checksum), and decodeAscii and the accessors     *)
(* take its payload apart (PayloadDecoder).                                *)
(* Mut... definitions: see the README, "Mutants".                          *)
(***************************************************************************)
EXTENDS PayloadDecoder

CONSTANTS MAX_CHARS_PER_FRAGMENT,   \* 82 in the code
          PayloadSizes,             \* sizes of payload that occur, as received
          PayloadOffset,            \* characters before the payload (13 in "AIVDM,1,1,,A,")
          Alignments

TrailerSize == 5        \* ",f*hh" behind the payload

VARIABLES sound,        \* was the sentence received as it was sent?
          m_uSize,      \* of the reference to the payload: as received, not cut
          m_sentence,   \* size of the stored sentence
          align, sum_ptr, lanes, at,
          verdict       \* of processSentence: "none" yet, "accepted", "rejected"

Sum == INSTANCE Checksum WITH
         MaxSize <- MAX_CHARS_PER_FRAGMENT, size <- m_sentence, in_ptr <- sum_ptr

ASSUME DecodingAssumption ==
  /\ Sum!ChecksumAssumption
  /\ PayloadOffset \in Nat /\ PayloadSizes \subseteq Nat

checking == <<sound, m_uSize, m_sentence, align, sum_ptr, lanes, at, verdict>>

SentenceSize == PayloadOffset + m_uSize + TrailerSize

MutAppend(old, n) ==                               \* room kept for a terminator
  IF old + n >= MAX_CHARS_PER_FRAGMENT THEN MAX_CHARS_PER_FRAGMENT - 1 ELSE old + n
\* String::append: what does not fit is cut off without a word.
append(old, n) == IF old + n > MAX_CHARS_PER_FRAGMENT THEN MAX_CHARS_PER_FRAGMENT ELSE old + n

\* The stored string ends with the checksum that m_uMsgCrc was read from, and
\* nothing has changed: the comparison succeeds.
Matches == sound /\ lanes[0] = 0 .. SentenceSize - 4

\* Otherwise it succeeds by chance only, one time in 256.
Judge ==
  /\ at = "done" /\ verdict = "none"
  /\ verdict' \in IF Matches THEN {"accepted"} ELSE {"accepted", "rejected"}
  /\ align' = 0                                    \* no longer of interest
  /\ UNCHANGED <<vars, sound, m_uSize, m_sentence, sum_ptr, lanes, at>>

Check ==
  /\ verdict = "none" /\ Sum!SumNext
  /\ UNCHANGED <<vars, sound, m_uSize, verdict>>

\* _msg.m_payload is taken from where the payload is in m_sentence, and m_uSize
\* characters of it: of a cut sentence that was accepted by chance the last ones
\* are whatever follows m_sentence in memory.
Decode ==
  /\ verdict = "accepted" /\ Next
  /\ UNCHANGED checking

\* String::operator=(StringRef)
Assigned(n) == IF n > MAX_CHARS_PER_MESSAGE THEN MAX_CHARS_PER_MESSAGE ELSE n

SentenceInit ==
  /\ Init
  /\ sound \in BOOLEAN
  /\ m_uSize \in PayloadSizes /\ size = Assigned(m_uSize)
  /\ Sum!Start(append(0, SentenceSize))
  /\ verdict = "none"

SentenceNext == Check \/ Judge \/ Decode

SentenceSpec == SentenceInit /\ [][SentenceNext]_<<vars, checking>>
-----------------------------------------------------------------------------
SumsSentence == Sum!SumsSentence
ReadsInside  == Sum!ReadsInside

\* A sentence that arrives as it was sent is rejected only if it is longer than
\* the 82 characters that are stored: it has then lost its checksum.
SoundAccepted == verdict = "rejected" /\ sound => SentenceSize > MAX_CHARS_PER_FRAGMENT
=============================================================================
