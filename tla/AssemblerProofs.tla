-------------------------- MODULE AssemblerProofs --------------------------
(***************************************************************************)
(* Proofs about Assembler.tla: for every MAX_FRAGMENTS, every set of ids,  *)
(* in the table or not, and every sequence of sentences, the table entry   *)
(* of an id is the run of fragments its history ends in, a message is made *)
(* of a whole run, and it has fewer parts than MAX_FRAGMENTS.              *)
(***************************************************************************)
EXTENDS Assembler, SequenceTheorems, TLAPS

\* The fields of a fragment are small numbers.
LEMMA FragmentFields ==
  ASSUME NEW f \in Fragment
  PROVE  /\ f.count \in 0 .. 15 /\ f.count \in Nat
         /\ f.num \in 0 .. 15 /\ f.num \in Nat
         /\ f.id \in Ids /\ f.crcOk \in BOOLEAN
<1>1. f.count \in Counts /\ f.num \in Nums /\ f.id \in Ids /\ f.crcOk \in BOOLEAN
  BY DEF Fragment
<1>2. \A x \in 0 .. 15 : x \in Nat
  OBVIOUS
<1>3. f.count \in 0 .. 15 /\ f.num \in 0 .. 15
  BY <1>1, AssemblerAssumption DEF AssemblerAssumption
<1> QED
  BY <1>1, <1>2, <1>3

\* The run of a history is its last RunLength fragments.
LEMMA RunLengthType ==
  ASSUME NEW h \in Seq(Fragment)
  PROVE  /\ RunLength(h) \in 0 .. Len(h)
         /\ RunLength(h) > 0 => EndsInRun(h, RunLength(h))
         /\ Run(h) = [i \in 1 .. RunLength(h) |-> h[Len(h) - RunLength(h) + i]]
         /\ Run(h) \in Seq(Fragment) /\ Len(Run(h)) = RunLength(h)
<1>1. Len(h) \in Nat
  OBVIOUS
<1>2. RunLength(h) \in 0 .. Len(h) /\ (RunLength(h) > 0 => EndsInRun(h, RunLength(h)))
  <2>1. CASE Len(h) > 0 /\ EndsInRun(h, h[Len(h)].num)
    <3>1. RunLength(h) = h[Len(h)].num
      BY <2>1 DEF RunLength
    <3>2. h[Len(h)].num \in 1 .. Len(h)
      BY <2>1 DEF EndsInRun
    <3> QED
      BY <3>1, <3>2, <2>1, <1>1
  <2>2. CASE ~(Len(h) > 0 /\ EndsInRun(h, h[Len(h)].num))
    BY <2>2, <1>1 DEF RunLength
  <2> QED
    BY <2>1, <2>2
<1>3. Run(h) = [i \in 1 .. RunLength(h) |-> h[Len(h) - RunLength(h) + i]]
  <2> DEFINE n == RunLength(h)
             m == Len(h) - n + 1
  <2>1. n \in Nat /\ m \in Int /\ 1 + Len(h) - m = n
    BY <1>1, <1>2
  <2>2. SubSeq(h, m, Len(h)) = [i \in 1 .. (1 + Len(h) - m) |-> h[m + i - 1]]
    BY <1>1, <2>1
  <2>3. \A i \in 1 .. n : m + i - 1 = Len(h) - n + i
    BY <1>1, <2>1
  <2> QED
    BY <2>1, <2>2, <2>3 DEF Run
<1>4. Run(h) \in Seq(Fragment) /\ Len(Run(h)) = RunLength(h)
  <2> DEFINE n == RunLength(h)
  <2>1. n \in Nat /\ \A i \in 1 .. n : Len(h) - n + i \in 1 .. Len(h)
    BY <1>1, <1>2
  <2>2. \A i \in 1 .. n : h[Len(h) - n + i] \in Fragment
    BY <2>1
  <2>3. Run(h) \in [1 .. n -> Fragment]
    BY <1>3, <2>2
  <2> QED
    BY <2>1, <2>3
<1> QED
  BY <1>2, <1>3, <1>4

\* A fragment whose number is one more than the run's length extends the run.
LEMMA RunExtended ==
  ASSUME NEW h \in Seq(Fragment), NEW f \in Fragment, f.num = RunLength(h) + 1
  PROVE  RunLength(Append(h, f)) = f.num
<1> DEFINE g == Append(h, f)
           n == RunLength(h)
<1>1. n \in 0 .. Len(h) /\ Len(h) \in Nat /\ (n > 0 => EndsInRun(h, n))
  BY RunLengthType
<1>2. Len(g) = Len(h) + 1 /\ g[Len(g)] = f /\ \A j \in 1 .. Len(h) : g[j] = h[j]
  OBVIOUS
<1>3. f.num \in 1 .. Len(g)
  BY <1>1, <1>2
<1>4. ASSUME NEW i \in 1 .. f.num
      PROVE  g[Len(g) - f.num + i].num = i
  <2>1. CASE i = f.num
    <3>1. Len(g) - f.num + i = Len(g)
      BY <2>1, <1>1, <1>2, <1>3
    <3> QED
      BY <3>1, <1>2, <2>1
  <2>2. CASE i # f.num
    <3>1. i \in 1 .. n /\ Len(g) - f.num + i = Len(h) - n + i /\ Len(h) - n + i \in 1 .. Len(h)
      BY <2>2, <1>1, <1>2, <1>3
    <3>2. g[Len(g) - f.num + i] = h[Len(h) - n + i]
      BY <3>1, <1>2
    <3>3. h[Len(h) - n + i].num = i
      BY <3>1, <1>1 DEF EndsInRun
    <3> QED
      BY <3>2, <3>3
  <2> QED
    BY <2>1, <2>2
<1>5. EndsInRun(g, f.num)
  BY <1>3, <1>4 DEF EndsInRun
<1> QED
  BY <1>1, <1>2, <1>5 DEF RunLength

\* Any other fragment leaves a run of one, if it is number 1, or none.
LEMMA RunBroken ==
  ASSUME NEW h \in Seq(Fragment), NEW f \in Fragment, f.num # RunLength(h) + 1
  PROVE  RunLength(Append(h, f)) = IF f.num = 1 THEN 1 ELSE 0
<1> DEFINE g == Append(h, f)
<1>1. Len(h) \in Nat /\ f.num \in Nat
  BY FragmentFields
<1>2. Len(g) = Len(h) + 1 /\ g[Len(g)] = f /\ \A j \in 1 .. Len(h) : g[j] = h[j]
  OBVIOUS
<1>3. CASE f.num = 1
  <2>1. EndsInRun(g, 1)
    BY <1>1, <1>2, <1>3 DEF EndsInRun
  <2> QED
    BY <1>1, <1>2, <1>3, <2>1 DEF RunLength
<1>4. CASE f.num # 1
  <2>1. SUFFICES ASSUME EndsInRun(g, f.num) PROVE FALSE
    BY <1>1, <1>2, <1>4 DEF RunLength
  <2> DEFINE k == f.num - 1
  <2>2. k \in 1 .. Len(h) /\ f.num \in 2 .. Len(g)
    BY <1>1, <1>2, <1>4, <2>1 DEF EndsInRun
  <2>3. ASSUME NEW i \in 1 .. k
        PROVE  h[Len(h) - k + i].num = i
    <3>1. i \in 1 .. f.num /\ Len(g) - f.num + i = Len(h) - k + i /\ Len(h) - k + i \in 1 .. Len(h)
      <4>1. i \in Nat /\ i >= 1 /\ i <= f.num - 1 /\ f.num - 1 <= Len(h)
        BY <1>1, <2>2
      <4>2. Len(g) - f.num + i = Len(h) - k + i
        BY <1>1, <1>2, <4>1
      <4> QED
        BY <1>1, <4>1, <4>2
    <3>2. g[Len(g) - f.num + i].num = i
      BY <2>1, <3>1 DEF EndsInRun
    <3> QED
      BY <1>2, <3>1, <3>2
  <2>4. EndsInRun(h, k)
    BY <2>2, <2>3 DEF EndsInRun
  <2>5. h[Len(h)].num = k
    <3>1. k \in 1 .. k /\ Len(h) - k + k = Len(h)
      BY <1>1, <2>2
    <3> QED
      BY <2>3, <3>1
  <2>6. RunLength(h) = k
    BY <1>1, <2>2, <2>4, <2>5 DEF RunLength
  <2> QED
    BY <1>1, <2>6
<1> QED
  BY <1>3, <1>4

-----------------------------------------------------------------------------
\* Collecting a fragment keeps the entry the run of the history, and the run
\* is then as long as the fragment's number says, or empty.
LEMMA CollectStep ==
  ASSUME NEW e \in MultiLineFragments, NEW h \in Seq(Fragment), HoldsRun(e, h),
         NEW f \in Fragment, Fits(f)
  PROVE  /\ Collect(e, f) \in MultiLineFragments
         /\ HoldsRun(Collect(e, f), Append(h, f))
         /\ Collect(e, f).m_index \in {0, f.num}
<1> DEFINE g == Append(h, f)
           n == RunLength(h)
           c == Collect(e, f)
<1>1. Len(h) \in Nat /\ n \in 0 .. Len(h) /\ f.num \in Nat /\ f.num < MAX_FRAGMENTS
      /\ f.count \in 0 .. 15 /\ MAX_FRAGMENTS \in Nat
  BY FragmentFields, RunLengthType, AssemblerAssumption DEF Fits, AssemblerAssumption
<1>2. g \in Seq(Fragment) /\ Len(g) = Len(h) + 1 /\ g[Len(g)] = f
      /\ \A j \in 1 .. Len(h) : g[j] = h[j]
  OBVIOUS
<1>3. Run(g) = [i \in 1 .. RunLength(g) |-> g[Len(g) - RunLength(g) + i]]
  BY <1>2, RunLengthType
<1>4. Run(h) = [i \in 1 .. n |-> h[Len(h) - n + i]]
  BY RunLengthType
<1>5. /\ e.m_index = n
      /\ n > 0 => e.m_count = Run(h)[1].count
      /\ \A i \in 1 .. n : e.m_fragments[i - 1] = Run(h)[i]
  BY DEF HoldsRun
<1>6. /\ e.m_fragments \in [0 .. MAX_FRAGMENTS - 1 -> Fragment \cup {NoFragment}]
      /\ e.m_index \in 0 .. MAX_FRAGMENTS /\ e.m_count \in 0 .. 15
      /\ e = [m_fragments |-> e.m_fragments, m_index |-> e.m_index, m_count |-> e.m_count]
  BY DEF MultiLineFragments
<1>10. Reset(e) = [m_fragments |-> e.m_fragments, m_index |-> 0, m_count |-> 0]
  BY <1>6 DEF Reset
<1>7. CASE f.num = n + 1
  <2>1. c = [m_fragments |-> [e.m_fragments EXCEPT ![n] = f],
             m_count     |-> IF n = 0 THEN f.count ELSE e.m_count,
             m_index     |-> n + 1]
    BY <1>5, <1>7 DEF Collect
  <2>2. RunLength(g) = n + 1
    BY <1>7, RunExtended
  <2>3. n \in 0 .. MAX_FRAGMENTS - 1
    BY <1>1, <1>7
  <2>4. c \in MultiLineFragments
    BY <1>1, <1>6, <2>1, <2>3 DEF MultiLineFragments
  <2>5. Run(g)[n + 1] = f
    BY <1>1, <1>2, <1>3, <2>2
  <2>6. \A i \in 1 .. n : Run(g)[i] = Run(h)[i]
    <3> SUFFICES ASSUME NEW i \in 1 .. n PROVE Run(g)[i] = Run(h)[i]
      OBVIOUS
    <3>1. i \in 1 .. n + 1 /\ Len(g) - (n + 1) + i = Len(h) - n + i /\ Len(h) - n + i \in 1 .. Len(h)
      BY <1>1, <1>2
    <3> QED
      BY <1>2, <1>3, <1>4, <2>2, <3>1
  <2>7. ASSUME NEW i \in 1 .. RunLength(g)
        PROVE  c.m_fragments[i - 1] = Run(g)[i]
    <3>1. CASE i = n + 1
      <4>1. i - 1 = n
        BY <1>1, <3>1
      <4>2. c.m_fragments = [e.m_fragments EXCEPT ![n] = f]
        BY <2>1
      <4>3. [e.m_fragments EXCEPT ![n] = f][n] = f
        BY <1>6, <2>3
      <4> QED
        BY <2>5, <3>1, <4>1, <4>2, <4>3
    <3>2. CASE i # n + 1
      <4>1. i \in 1 .. n /\ i - 1 # n /\ i - 1 \in 0 .. MAX_FRAGMENTS - 1
        BY <1>1, <2>2, <2>3, <3>2
      <4> QED
        BY <1>5, <1>6, <2>1, <2>6, <4>1
    <3> QED
      BY <3>1, <3>2
  <2>8. c.m_count = Run(g)[1].count
    <3>1. CASE n = 0
      BY <2>1, <2>5, <3>1
    <3>2. CASE n # 0
      <4>1. 1 \in 1 .. n /\ n > 0
        BY <1>1, <3>2
      <4> QED
        BY <1>5, <2>1, <2>6, <3>2, <4>1
    <3> QED
      BY <3>1, <3>2
  <2> QED
    BY <1>7, <2>1, <2>2, <2>4, <2>7, <2>8 DEF HoldsRun
<1>8. CASE f.num # n + 1 /\ f.num = 1
  <2>1. c = [m_fragments |-> [e.m_fragments EXCEPT ![0] = f], m_count |-> f.count, m_index |-> 1]
    BY <1>5, <1>8, <1>10 DEF Collect
  <2>2. RunLength(g) = 1
    BY <1>8, RunBroken
  <2>3. 0 \in 0 .. MAX_FRAGMENTS - 1 /\ 1 \in 0 .. MAX_FRAGMENTS
    BY <1>1, <1>8
  <2>4. c \in MultiLineFragments
    BY <1>1, <1>6, <2>1, <2>3 DEF MultiLineFragments
  <2>5. Run(g)[1] = f
    BY <1>1, <1>2, <1>3, <2>2
  <2>6. \A i \in 1 .. RunLength(g) : c.m_fragments[i - 1] = Run(g)[i]
    <3>1. c.m_fragments = [e.m_fragments EXCEPT ![0] = f]
      BY <2>1
    <3>2. [e.m_fragments EXCEPT ![0] = f][0] = f
      BY <1>6, <2>3
    <3>3. \A i \in 1 .. RunLength(g) : i = 1 /\ i - 1 = 0
      BY <2>2
    <3> QED
      BY <2>5, <3>1, <3>2, <3>3
  <2> QED
    BY <1>8, <2>1, <2>2, <2>4, <2>5, <2>6 DEF HoldsRun
<1>9. CASE f.num # n + 1 /\ f.num # 1
  <2>1. c = [m_fragments |-> e.m_fragments, m_count |-> 0, m_index |-> 0]
    BY <1>5, <1>9, <1>10 DEF Collect
  <2>2. RunLength(g) = 0
    BY <1>9, RunBroken
  <2>3. c \in MultiLineFragments
    BY <1>1, <1>6, <2>1 DEF MultiLineFragments
  <2> QED
    BY <2>1, <2>2, <2>3 DEF HoldsRun
<1> QED
  BY <1>7, <1>8, <1>9
-----------------------------------------------------------------------------
\* What holds between calls: the types, and every entry is its history's run.
IInv == TypeOK /\ CollectsRun

LEMMA InitIInv == Init => IInv
<1> SUFFICES ASSUME Init PROVE IInv
  OBVIOUS
<1>1. NoFragment \in Fragment \cup {NoFragment} /\ 0 \in 0 .. MAX_FRAGMENTS /\ 0 \in 0 .. 15
  BY AssemblerAssumption DEF AssemblerAssumption
<1>2. TypeOK
  BY <1>1 DEF Init, TypeOK, MultiLineFragments, NoFragments
<1>3. RunLength(<<>>) = 0
  BY DEF RunLength
<1>4. CollectsRun
  BY <1>3 DEF Init, CollectsRun, HoldsRun
<1> QED
  BY <1>2, <1>4 DEF IInv

\* The message a full entry gives is its run with the first fragment in front.
LEMMA JoinedIsRun ==
  ASSUME NEW e \in MultiLineFragments, NEW h \in Seq(Fragment), HoldsRun(e, h), IsFull(e)
  PROVE  /\ Joined(e) = <<Run(h)[1]>> \o Run(h)
         /\ Joined(e) \in Seq(Fragment)
         /\ Len(Joined(e)) = e.m_index + 1
<1> DEFINE n == RunLength(h)
<1>1. Len(h) \in Nat /\ n \in 1 .. Len(h) /\ e.m_index = n /\ e.m_count = n
  <2>1. Len(h) \in Nat /\ n \in 0 .. Len(h)
    BY RunLengthType
  <2>2. e.m_index = n /\ e.m_index > 0 /\ e.m_index = e.m_count
    BY DEF HoldsRun, IsFull
  <2> QED
    BY <2>1, <2>2
<1>2. Run(h) = [i \in 1 .. n |-> h[Len(h) - n + i]]
  BY RunLengthType
<1>3. Run(h) \in Seq(Fragment) /\ Len(Run(h)) = n
  BY RunLengthType
<1>6. \A i \in 1 .. n : e.m_fragments[i - 1] = Run(h)[i]
  BY DEF HoldsRun
<1>7. [i \in 1 .. n |-> e.m_fragments[i - 1]] = Run(h)
  BY <1>2, <1>6
<1>8. e.m_fragments[0] = Run(h)[1]
  <2>1. 1 \in 1 .. n /\ 1 - 1 = 0
    BY <1>1
  <2> QED
    BY <1>6, <2>1
<1>9. Joined(e) = <<Run(h)[1]>> \o Run(h)
  BY <1>1, <1>7, <1>8 DEF Joined
<1>10. Run(h)[1] \in Fragment
  BY <1>1, <1>3
<1>11. <<Run(h)[1]>> \in Seq(Fragment) /\ Len(<<Run(h)[1]>>) = 1
  BY <1>10
<1> QED
  BY <1>1, <1>3, <1>9, <1>11

\* With its first fragment in front a run still has the same fragments, and ends in
\* itself.
LEMMA RunWithFirst ==
  ASSUME NEW r \in Seq(Fragment), r # <<>>
  PROVE  LET m == <<r[1]>> \o r IN
         /\ Range(m) = Range(r)
         /\ SubSeq(m, Len(m) - Len(r) + 1, Len(m)) = r
<1> DEFINE m == <<r[1]>> \o r
<1>1. Len(r) \in Nat \ {0} /\ 1 \in 1 .. Len(r) /\ r[1] \in Fragment
  OBVIOUS
<1>2. m \in Seq(Fragment) /\ Len(m) = Len(r) + 1 /\ m[1] = r[1]
  BY <1>1
<1>3. \A i \in 1 .. Len(r) : i + 1 \in 1 .. Len(m) /\ m[i + 1] = r[i]
  BY <1>1, <1>2
<1>4. \A i \in 1 .. Len(m) : i = 1 \/ (i - 1 \in 1 .. Len(r) /\ m[i] = r[i - 1])
  BY <1>1, <1>2
<1>5. DOMAIN m = 1 .. Len(m) /\ DOMAIN r = 1 .. Len(r)
  BY <1>2
<1>6. Range(m) = Range(r)
  <2>1. ASSUME NEW i \in 1 .. Len(m) PROVE m[i] \in Range(r)
    BY <1>1, <1>2, <1>4, <1>5 DEF Range
  <2>2. ASSUME NEW i \in 1 .. Len(r) PROVE r[i] \in Range(m)
    BY <1>3, <1>5 DEF Range
  <2> QED
    BY <1>5, <2>1, <2>2 DEF Range
<1>7. SubSeq(m, 2, Len(m)) = r
  <2>1. SubSeq(m, 2, Len(m)) = [i \in 1 .. Len(r) |-> m[2 + i - 1]]
    BY <1>1, <1>2
  <2>2. \A i \in 1 .. Len(r) : m[2 + i - 1] = r[i]
    <3> SUFFICES ASSUME NEW i \in 1 .. Len(r) PROVE m[2 + i - 1] = r[i]
      OBVIOUS
    <3>1. 2 + i - 1 = i + 1
      OBVIOUS
    <3> QED
      BY <1>3, <3>1
  <2>3. r = [i \in 1 .. Len(r) |-> r[i]]
    OBVIOUS
  <2> QED
    BY <2>1, <2>2, <2>3
<1>8. Len(m) - Len(r) + 1 = 2
  BY <1>1, <1>2
<1> QED
  BY <1>6, <1>7, <1>8

\* A message that is empty or a single sentence.
LEMMA ShortMessages ==
  ASSUME NEW m, NEW f \in Fragment, m = <<>> \/ m = <<f>>
  PROVE  SubSeq(m, Len(m) - Len(m) + 1, Len(m)) = m
<1>1. <<>> \in Seq(Fragment) /\ <<f>> \in Seq(Fragment)
  OBVIOUS
<1>2. m \in Seq(Fragment)
  BY <1>1
<1>3. Len(m) \in Nat /\ Len(m) - Len(m) + 1 = 1
  BY <1>2
<1> QED
  BY <1>2, <1>3

\* Whatever an entry behind the table holds, what is returned is a sequence of
\* fragments, and no longer than the limit allows.
LEMMA StrayStep ==
  ASSUME NEW e \in BehindTable, NEW f \in Fragment, Fits(f)
  PROVE  LET m == Returned(Collect(e, f)) IN
         /\ m \in Seq(Fragment \cup {NoFragment})
         /\ m # <<>> => Len(m) <= MAX_FRAGMENTS
<1> DEFINE c == Collect(e, f)
           S == Fragment \cup {NoFragment}
<1>1. f.num \in Nat /\ f.num < MAX_FRAGMENTS /\ MAX_FRAGMENTS \in Nat /\ f.count \in Nat
  BY FragmentFields, AssemblerAssumption DEF Fits, AssemblerAssumption
<1>2. /\ e.m_fragments \in [0 .. MAX_FRAGMENTS - 1 -> S]
      /\ e.m_index \in Nat /\ e.m_count \in Nat
  BY <1>1 DEF BehindTable, NoFragments
<1>3. /\ c.m_fragments \in [0 .. MAX_FRAGMENTS - 1 -> S]
      /\ c.m_count \in Nat /\ (c.m_index = 0 \/ c.m_index = f.num)
  <2>1. CASE f.num = e.m_index + 1
    BY <1>1, <1>2, <2>1 DEF Collect
  <2>2. CASE f.num # e.m_index + 1
    BY <1>1, <1>2, <2>2 DEF Collect, Reset
  <2> QED
    BY <2>1, <2>2
<1>4. CASE IsFull(c)
  <2>1. c.m_count = f.num /\ f.num \in 1 .. MAX_FRAGMENTS - 1
    BY <1>1, <1>3, <1>4 DEF IsFull
  <2> DEFINE r == [i \in 1 .. c.m_count |-> c.m_fragments[i - 1]]
  <2>2. r \in [1 .. f.num -> S]
    BY <1>1, <1>3, <2>1
  <2>3. r \in Seq(S) /\ Len(r) = f.num
    <3> HIDE DEF r, S, c
    <3> QED
      BY <1>1, <2>2
  <2>4. <<c.m_fragments[0]>> \in Seq(S) /\ Len(<<c.m_fragments[0]>>) = 1
    <3>1. c.m_fragments[0] \in S
      BY <1>3, <2>1, <1>1
    <3> QED
      BY <3>1
  <2>5. Joined(c) \in Seq(S) /\ Len(Joined(c)) = 1 + f.num
    <3> DEFINE a == <<c.m_fragments[0]>>
    <3>1. a \in Seq(S) /\ Len(a) = 1 /\ Joined(c) = a \o r
      BY <2>4 DEF Joined
    <3>2. a \o r \in Seq(S) /\ Len(a \o r) = Len(a) + Len(r)
      BY <2>3, <3>1, ConcatProperties
    <3> QED
      BY <1>1, <2>3, <3>1, <3>2
  <2> QED
    BY <1>1, <1>4, <2>1, <2>5 DEF Returned
<1>5. CASE ~IsFull(c)
  BY <1>5 DEF Returned
<1> QED
  BY <1>4, <1>5

\* A call keeps the invariant, returns what the history calls for, and never
\* a message of MAX_FRAGMENTS parts.
LEMMA CallStep ==
  ASSUME IInv, NEW f \in Fragment, processSentence(f), Observe(f)
  PROVE  IInv' /\ MessageFromRun' /\ LimitIsExclusive'
<1> USE DEF IInv
<1>1. f.id \in Ids /\ f.crcOk \in BOOLEAN /\ f.count \in Nat /\ f.num \in Nat
  BY FragmentFields
<1>2. last' = f /\ last' \in Fragment \cup {NoFragment}
  BY DEF Observe
<1>3. CASE CollectFragment(f)
  <2> DEFINE e == Collect(mm[f.id], f)
             h == Append(heard[f.id], f)
  <2>1. mm[f.id] \in MultiLineFragments /\ heard[f.id] \in Seq(Fragment)
        /\ HoldsRun(mm[f.id], heard[f.id])
    BY <1>3 DEF CollectFragment, TypeOK, CollectsRun
  <2>2. /\ f.crcOk /\ Fits(f) /\ f.id \in Table /\ Eligible(f)
        /\ f.count # 1 /\ f.num < MAX_FRAGMENTS
    BY <1>1, <1>3 DEF CollectFragment, Fits, Eligible
  <2>3. e \in MultiLineFragments /\ HoldsRun(e, h) /\ e.m_index \in {0, f.num}
    BY <2>1, <2>2, CollectStep
  <2>4. h \in Seq(Fragment)
    BY <2>1
  <2>5. mm' = [mm EXCEPT ![f.id] = e] /\ heard' = [heard EXCEPT ![f.id] = h]
        /\ msg' = IF IsFull(e) THEN Joined(e) ELSE <<>>
    BY <1>3, <2>2 DEF CollectFragment, Observe, Returned
  <2>6. mm' \in [Table -> MultiLineFragments] /\ heard' \in [Table -> Seq(Fragment)]
    BY <2>3, <2>4, <2>5 DEF TypeOK
  <2>7. mm'[f.id] = e /\ heard'[f.id] = h
    BY <2>2, <2>5 DEF TypeOK
  <2>8. \A id \in Table \ {f.id} : mm'[id] = mm[id] /\ heard'[id] = heard[id]
    BY <2>5 DEF TypeOK
  <2>9. CollectsRun'
    BY <2>3, <2>7, <2>8 DEF CollectsRun
  <2>10. IsFull(e) =>
           /\ Joined(e) = <<Run(h)[1]>> \o Run(h)
           /\ Joined(e) \in Seq(Fragment)
           /\ Len(Joined(e)) = e.m_index + 1
    BY <2>3, <2>4, JoinedIsRun
  <2>11. msg' \in Seq(Fragment \cup {NoFragment})
    BY <2>5, <2>10
  <2>12. IsFull(e) <=> Run(h) # <<>> /\ Run(h)[1].count = Len(Run(h))
    <3>1. RunLength(h) \in Nat /\ Len(Run(h)) = RunLength(h) /\ (Run(h) # <<>> <=> RunLength(h) > 0)
      <4>1. Run(h) \in Seq(Fragment) /\ Len(Run(h)) = RunLength(h)
        BY <2>4, RunLengthType
      <4> QED
        BY <4>1
    <3> QED
      BY <2>3, <3>1 DEF HoldsRun, IsFull
  <2>13. MessageFromRun'
    <3>1. ExpectedMessage' = IF IsFull(e) THEN Run(h) ELSE <<>>
      BY <1>2, <2>2, <2>7, <2>12 DEF ExpectedMessage, Eligible
    <3>2. CASE IsFull(e)
      <4>1. Run(h) \in Seq(Fragment) /\ Run(h) # <<>>
        BY <2>4, <2>12, <3>2, RunLengthType
      <4>2. msg' = <<Run(h)[1]>> \o Run(h) /\ ExpectedMessage' = Run(h)
        BY <2>5, <2>10, <3>1, <3>2
      <4> QED
        BY <4>1, <4>2, RunWithFirst DEF MessageFromRun
    <3>3. CASE ~IsFull(e)
      <4>1. msg' = <<>> /\ ExpectedMessage' = <<>>
        BY <2>5, <3>1, <3>3
      <4> QED
        BY <4>1, ShortMessages DEF MessageFromRun
    <3> QED
      BY <3>2, <3>3
  <2>14. LimitIsExclusive'
    <3>1. e.m_index > 0 /\ MAX_FRAGMENTS \in Nat => e.m_index + 1 <= MAX_FRAGMENTS
      BY <1>1, <2>2, <2>3, AssemblerAssumption DEF AssemblerAssumption
    <3> QED
      BY <1>2, <2>2, <2>5, <2>10, <3>1, AssemblerAssumption
         DEF LimitIsExclusive, IsFull, AssemblerAssumption
  <2> QED
    BY <1>2, <2>6, <2>9, <2>11, <2>13, <2>14 DEF TypeOK
<1>4. CASE RejectCrc(f) \/ SingleLine(f) \/ IgnoreFragment(f)
  <2>1. mm' = mm /\ ~Eligible(f) /\ heard' = heard
    BY <1>4 DEF RejectCrc, SingleLine, IgnoreFragment, Observe, Eligible, Fits
  <2>2. msg' = IF f.crcOk /\ f.count = 1 THEN <<f>> ELSE <<>>
    BY <1>4 DEF RejectCrc, SingleLine, IgnoreFragment
  <2>3. msg' \in Seq(Fragment \cup {NoFragment})
    <3>1. <<>> \in Seq(Fragment \cup {NoFragment}) /\ f \in Fragment \cup {NoFragment}
      OBVIOUS
    <3>2. <<f>> \in Seq(Fragment \cup {NoFragment})
      BY <3>1
    <3> QED
      BY <2>2, <3>1, <3>2
  <2>4. TypeOK' /\ CollectsRun'
    BY <1>2, <2>1, <2>3 DEF TypeOK, CollectsRun
  <2>5. MessageFromRun'
    <3>1. ExpectedMessage' = msg'
      BY <1>1, <1>2, <2>1, <2>2 DEF ExpectedMessage, Eligible
    <3>2. msg' = <<>> \/ msg' = <<f>>
      BY <2>2
    <3> QED
      BY <3>1, <3>2, ShortMessages DEF MessageFromRun
  <2>6. LimitIsExclusive'
    BY <1>2, <2>2 DEF LimitIsExclusive
  <2> QED
    BY <2>4, <2>5, <2>6
<1>5. CASE StrayFragment(f)
  <2>1. /\ mm' = mm /\ Fits(f) /\ f.id \notin Table
        /\ ~Eligible(f) /\ heard' = heard /\ f.num < MAX_FRAGMENTS
    BY <1>5 DEF StrayFragment, Observe, Eligible, Fits
  <2>2. PICK e \in BehindTable : msg' = Returned(Collect(e, f))
    BY <1>5 DEF StrayFragment
  <2>3. msg' \in Seq(Fragment \cup {NoFragment}) /\ (msg' # <<>> => Len(msg') <= MAX_FRAGMENTS)
    BY <2>1, <2>2, StrayStep
  <2>4. TypeOK' /\ CollectsRun'
    BY <1>2, <2>1, <2>3 DEF TypeOK, CollectsRun
  <2>5. MessageFromRun'
    BY <1>2, <2>1 DEF MessageFromRun
  <2>6. LimitIsExclusive'
    BY <1>2, <2>1, <2>3 DEF LimitIsExclusive
  <2> QED
    BY <2>4, <2>5, <2>6
<1> QED
  BY <1>3, <1>4, <1>5 DEF processSentence

LEMMA NextIInv == IInv /\ [Next]_vars => IInv'
<1> SUFFICES ASSUME IInv, [Next]_vars PROVE IInv'
  OBVIOUS
<1>1. CASE Next
  BY <1>1, CallStep DEF Next
<1>2. CASE UNCHANGED vars
  BY <1>2 DEF vars, IInv, TypeOK, CollectsRun
<1> QED
  BY <1>1, <1>2

\* The types of the assembler's state, for every MAX_FRAGMENTS and whatever byte the
\* id is: a fragment is stored inside m_fragments of its entry.
THEOREM AssemblerTypes == Spec => []TypeOK
<1>1. IInv => TypeOK
  BY DEF IInv
<1> QED
  BY <1>1, InitIInv, NextIInv, PTL DEF Spec

\* Every entry of the table is the run its history ends in.
THEOREM EntriesAreRuns == Spec => []CollectsRun
<1>1. IInv => CollectsRun
  BY DEF IInv
<1> QED
  BY <1>1, InitIInv, NextIInv, PTL DEF Spec

\* A message is returned exactly when a sentence is a single one or completes a
\* run, and is made of all of that run, in order, and of nothing else.
THEOREM MessagesAreRuns == Spec => []MessageFromRun
<1>1. Init => MessageFromRun
  <2> SUFFICES ASSUME Init PROVE MessageFromRun
    OBVIOUS
  <2>1. msg = <<>> /\ ExpectedMessage = <<>>
    BY DEF Init, ExpectedMessage, NoFragment, Eligible
  <2>2. SubSeq(<<>>, Len(<<>>) - Len(<<>>) + 1, Len(<<>>)) = <<>>
    OBVIOUS
  <2> QED
    BY <2>1, <2>2 DEF MessageFromRun
<1>2. MessageFromRun /\ IInv /\ [Next]_vars => MessageFromRun'
  <2>1. IInv /\ Next => MessageFromRun'
    BY CallStep DEF Next
  <2>2. MessageFromRun /\ UNCHANGED vars => MessageFromRun'
    BY DEF vars, MessageFromRun, ExpectedMessage
  <2> QED
    BY <2>1, <2>2
<1> QED
  BY <1>1, <1>2, InitIInv, NextIInv, PTL DEF Spec

\* No message of MAX_FRAGMENTS parts or more is ever assembled.
THEOREM LimitExcluded == Spec => []LimitIsExclusive
<1>1. Init => LimitIsExclusive
  BY DEF Init, LimitIsExclusive
<1>2. LimitIsExclusive /\ IInv /\ [Next]_vars => LimitIsExclusive'
  <2>1. IInv /\ Next => LimitIsExclusive'
    BY CallStep DEF Next
  <2>2. LimitIsExclusive /\ UNCHANGED vars => LimitIsExclusive'
    BY DEF vars, LimitIsExclusive
  <2> QED
    BY <2>1, <2>2
<1> QED
  BY <1>1, <1>2, InitIInv, NextIInv, PTL DEF Spec
=============================================================================
