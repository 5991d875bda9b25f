----------------------------- MODULE Assembler -----------------------------
(***************************************************************************)
(* processSentence and processMultiLineSentence of                         *)
(* src/ais_decoder/decoder.h: the fragments of a multi-sentence message    *)
(* are collected in a table indexed by the sentence's message id, one      *)
(* fragment per call; the last one completes the message.                  *)
(*                                                                         *)
(* The table is thread_local and only procFragmentsQueue uses it, so a     *)
(* call is one step.  Of a fragment the model keeps the fields the code    *)
(* branches on, and whether its CRC is right.                              *)
(* Mut... definitions: see the README, "Mutants".                          *)
(***************************************************************************)
EXTENDS Integers, Sequences, Functions

CONSTANTS MAX_FRAGMENTS,   \* slots of a table entry (2 in the code)
          Ids,             \* message ids that occur
          Counts, Nums,    \* values of m_uFragmentCount and m_uFragmentNum
          MaxHeard         \* bound: multi-sentence fragments heard

ASSUME AssemblerAssumption ==
  /\ MAX_FRAGMENTS \in Nat \ {0}
  /\ Ids \subseteq 0 .. 255        \* a byte; left as it was when the field is empty
  /\ Counts \subseteq 0 .. 15 /\ Nums \subseteq 0 .. 15   \* single_digit_strtoi
  /\ MaxHeard \in Nat

Table == Ids \cap 0 .. 9          \* mm has ten entries, and the index is not tested

Fragment == [crcOk : BOOLEAN, count : Counts, num : Nums, id : Ids]
NoFragment == [crcOk |-> FALSE, count |-> 0, num |-> 0, id |-> 0]

VARIABLES mm,      \* the table
          msg,     \* fragments of the message the last call returned; <<>>: none
          last,    \* the fragment given to the last call
          heard    \* history: per id, the fragments offered to the table

vars == <<mm, msg, last, heard>>

MultiLineFragments ==
  [m_fragments : [0 .. MAX_FRAGMENTS - 1 -> Fragment \cup {NoFragment}],
   m_index : 0 .. MAX_FRAGMENTS,
   m_count : 0 .. 15]

NoFragments == [i \in 0 .. MAX_FRAGMENTS - 1 |-> NoFragment]
-----------------------------------------------------------------------------
MutReset(e) == e                                \* entry kept when it should restart
Reset(e) == [m_fragments |-> e.m_fragments, m_index |-> 0, m_count |-> 0]

\* A fragment that is not the next one restarts the entry; it is then stored if
\* it is number 1.
Collect(e, f) ==
  LET r == IF f.num # e.m_index + 1 THEN Reset(e) ELSE e
  IN  IF f.num = r.m_index + 1
      THEN [m_fragments |-> [r.m_fragments EXCEPT ![r.m_index] = f],
            m_count     |-> IF r.m_index = 0 THEN f.count ELSE r.m_count,
            m_index     |-> r.m_index + 1]
      ELSE r

MutIsFull(e) == e.m_index > 0                   \* count not compared
IsFull(e) == e.m_index > 0 /\ e.m_index = e.m_count

\* The message starts as a copy of the first fragment, and then every fragment,
\* the first one again included, is appended to it.
Joined(e) == <<e.m_fragments[0]>> \o [i \in 1 .. e.m_count |-> e.m_fragments[i - 1]]

Returned(e) == IF IsFull(e) THEN Joined(e) ELSE <<>>

MutFits(f) == f.count > 1                       \* limit not tested
Fits(f) == f.count > 1 /\ f.num < MAX_FRAGMENTS
-----------------------------------------------------------------------------
RejectCrc(f) ==
  /\ ~f.crcOk
  /\ msg' = <<>>
  /\ UNCHANGED mm

SingleLine(f) ==
  /\ f.crcOk /\ f.count = 1
  /\ msg' = <<f>>
  /\ UNCHANGED mm

IgnoreFragment(f) ==
  /\ f.crcOk /\ f.count # 1 /\ ~Fits(f)
  /\ msg' = <<>>
  /\ UNCHANGED mm

CollectFragment(f) ==
  /\ f.crcOk /\ Fits(f) /\ f.id \in Table
  /\ LET e == Collect(mm[f.id], f)
     IN  /\ mm' = [mm EXCEPT ![f.id] = e]
         /\ msg' = Returned(e)

BehindTable ==
  [m_fragments : {NoFragments}, m_index : 0 .. MAX_FRAGMENTS, m_count : 0 .. MAX_FRAGMENTS]

\* An id of 10 or more: the entry is memory behind the table, with any index and
\* count, and is written to.  The table itself is out of reach, as an entry is
\* stored to at m_index < MAX_FRAGMENTS only; what else lives there is not modelled.
StrayFragment(f) ==
  /\ f.crcOk /\ Fits(f) /\ f.id \notin Table
  /\ msg' \in {Returned(Collect(e, f)) : e \in BehindTable}
  /\ UNCHANGED mm

processSentence(f) ==
  RejectCrc(f) \/ SingleLine(f) \/ IgnoreFragment(f) \/ CollectFragment(f) \/ StrayFragment(f)

\* What the history keeps: valid fragments of multi-sentence messages, with a
\* number below the limit and an entry of the table.
Eligible(f) == f.crcOk /\ f.count > 1 /\ f.num < MAX_FRAGMENTS /\ f.id \in Table

Observe(f) ==
  /\ last' = f
  /\ heard' = IF Eligible(f) THEN [heard EXCEPT ![f.id] = Append(@, f)] ELSE heard

Init ==
  /\ mm = [id \in Table |-> [m_fragments |-> NoFragments, m_index |-> 0, m_count |-> 0]]
  /\ msg = <<>>
  /\ last = NoFragment
  /\ heard = [id \in Table |-> <<>>]

Next ==
  LET offered == FoldFunction(+, 0, [id \in Table |-> Len(heard[id])])
  IN  \E f \in Fragment :
        /\ Eligible(f) => offered < MaxHeard
        /\ processSentence(f)
        /\ Observe(f)

Spec == Init /\ [][Next]_vars
-----------------------------------------------------------------------------
TypeOK ==
  /\ mm \in [Table -> MultiLineFragments]
  /\ msg \in Seq(Fragment \cup {NoFragment})
  /\ last \in Fragment \cup {NoFragment}
  /\ heard \in [Table -> Seq(Fragment)]

\* Do the last n fragments of h carry the numbers 1 to n?
EndsInRun(h, n) ==
  /\ n \in 1 .. Len(h)
  /\ \A i \in 1 .. n : h[Len(h) - n + i].num = i

\* How many fragments of an unfinished or just finished message h ends in: the
\* number on its last fragment, if all those before it came, in order.
RunLength(h) ==
  IF Len(h) > 0 /\ EndsInRun(h, h[Len(h)].num) THEN h[Len(h)].num ELSE 0

Run(h) == SubSeq(h, Len(h) - RunLength(h) + 1, Len(h))

\* The table entry holds exactly the run of fragments 1, 2, ... that its id's
\* history ends in: fragments out of order, repeated or with a gap restart it,
\* and other ids, also those outside the table, single sentences and bad CRCs do
\* not disturb it.
HoldsRun(e, h) ==
  /\ e.m_index = RunLength(h)
  /\ RunLength(h) > 0 => e.m_count = Run(h)[1].count
  /\ \A i \in 1 .. RunLength(h) : e.m_fragments[i - 1] = Run(h)[i]
CollectsRun == \A id \in Table : HoldsRun(mm[id], heard[id])

\* What a message should be: a single sentence, or all fragments of a run that is
\* as long as its first fragment announces.
ExpectedMessage ==
  LET run == Run(heard[last.id])
  IN  IF last.crcOk /\ last.count = 1
      THEN <<last>>
      ELSE IF Eligible(last) /\ run # <<>> /\ run[1].count = Len(run) THEN run ELSE <<>>

\* A call returns a message when, and only when, the sentence is a single one or
\* completes a run: then all of the run is in it, in order, and nothing of another
\* message, id or earlier attempt.  (For an id outside the table nobody can say.
\* The message is not the run alone: its first fragment precedes it once more, see
\* Joined, although decoder.h:39-40 say "all sentences" and "armoured ASCII payload".)
MessageFromRun ==
  (last.id \in Table \/ ~Fits(last)) =>
    /\ Range(msg) = Range(ExpectedMessage)
    /\ SubSeq(msg, Len(msg) - Len(ExpectedMessage) + 1, Len(msg)) = ExpectedMessage

\* m_uFragmentNum counts from 1 and is compared with "<" (decoder.h:205): a
\* message is assembled from fewer than MAX_FRAGMENTS fragments, so with
\* MAX_FRAGMENTS = 2 no multi-sentence message is ever produced.
LimitIsExclusive ==
  msg # <<>> /\ last.count # 1 => last.num < MAX_FRAGMENTS /\ Len(msg) <= MAX_FRAGMENTS

\* README.md, "multi-sentence fragment decoding": part 2 of 2 right after part
\* 1 of the same id gives a message.
PartOf2(f, n) == f.crcOk /\ f.count = 2 /\ f.num = n
PairDecoded ==
  [][PartOf2(last, 1) /\ PartOf2(last', 2) /\ last.id = last'.id => msg' # <<>>]_vars
=============================================================================
