-------------------------- MODULE NmeaReaderProofs -------------------------
(***************************************************************************)
(* Proofs about NmeaReader.tla: wherever the end of the buffer falls, the  *)
(* reader stays at the beginning of a line or behind the header or the "!" *)
(* of one, and what it has used up of the file is what it has output.      *)
(*                                                                         *)
(* No theorem limits the file, the buffer or the chunk.  NothingDropped    *)
(* has a hypothesis, that lines end with CR LF; the configuration          *)
(* reader_lf shows that it is needed.                                      *)
(***************************************************************************)
EXTENDS NmeaReader, SequenceTheorems, WellFoundedInduction, TLAPS

\* Tokens before line k + 1, the tokens of line k, and those before its "!".
B(k) == Len(Tokens(k))
L(k) == Line[lines[k]]
LineTokens(k) == [j \in DOMAIN L(k) |-> [kind |-> L(k)[j], line |-> k]]
Lead(k) == IF lines[k] = "tagged" THEN Len(Header) ELSE 0

\* Where in line k processNmeaData may stop and start again.
Offsets(k) ==
  IF k <= Len(lines) /\ IsSentence(k) THEN {0, Lead(k), Lead(k) + 1} ELSE {0}

\* The reader is o tokens into line k.
At(k, o) ==
  /\ k \in 1 .. Len(lines) + 1 /\ o \in Offsets(k)
  /\ Used = B(k - 1) + o
  /\ o > 0 /\ lines[k] = "tagged" => Cut(k)

\* The fragments are those of the lines before k, in the order of the file.
Taken(k) ==
  /\ \A i \in DOMAIN Fragments : /\ Fragments[i].line \in 1 .. k - 1
                                 /\ IsSentence(Fragments[i].line)
  /\ \A i, j \in DOMAIN Fragments : i < j => Fragments[i].line < Fragments[j].line
  /\ LineEnd = <<"cr", "lf">> =>
       \A j \in 1 .. k - 1 : IsSentence(j) => \E i \in DOMAIN Fragments : Fragments[i].line = j
  /\ TimestampsKept

Kinds == {"hdr", "hdrEnd", "!", "talker", "payload", "*", "hi", "lo", "text", "cr", "lf"}
Token == [kind : Kinds, line : Nat]

\* The buffer is what the file holds up to pos.
Buffered ==
  /\ nmeaData \in Seq(Token) /\ Len(nmeaData) <= pos
  /\ \A i \in 1 .. Len(nmeaData) : nmeaData[i] = File[pos - Len(nmeaData) + i]

ReaderInv ==
  /\ TypeOK /\ Buffered
  /\ pc \in {"read", "finished"} => pData = 0
  /\ pc = "process" => pos \in cuts
  /\ ChunksWellFormed /\ ~ full(chunk)
  /\ \E k \in 1 .. Len(lines) + 1 : Taken(k) /\ \E o \in Offsets(k) : At(k, o)
-----------------------------------------------------------------------------
(* FlattenSeq: what the recursive function in it computes.                 *)

Flat(seqs, g) ==
  g = [i \in 1 .. Len(seqs) |-> IF i = 1 THEN seqs[i] ELSE g[i - 1] \o seqs[i]]

\* g is that function on 1 to n.
Grows(n, seqs, g) ==
  \A i \in 1 .. n : g[i] = IF i = 1 THEN seqs[i] ELSE g[i - 1] \o seqs[i]

Agree(n, g, h) == \A i \in 1 .. n : g[i] = h[i]

LEMMA LeastExists ==
  ASSUME NEW T, T \subseteq Nat, T # {}
  PROVE  \E x \in T : \A y \in T : x <= y
<1> DEFINE R == {ss \in Nat \X Nat : ss[1] < ss[2]}
<1>1. IsWellFoundedOn(R, Nat)
  BY NatLessThanWellFounded DEF OpToRel
<1>2. PICK x \in T : \A y \in T : ~(<<y, x>> \in R)
  <2> HIDE DEF R
  <2> QED
    BY <1>1, WFMin
<1>3. \A y \in T : ~(y < x)
  BY <1>2
<1> QED
  BY <1>3

LEMMA GrowsAt ==
  ASSUME NEW n \in Nat, NEW q, NEW h, Grows(n + 1, q, h), n # 0
  PROVE  h[n + 1] = h[n] \o q[n + 1]
<1>1. n + 1 \in 1 .. n + 1
  OBVIOUS
<1>2. h[n + 1] = IF n + 1 = 1 THEN q[n + 1] ELSE h[n + 1 - 1] \o q[n + 1]
  BY <1>1 DEF Grows
<1>3. n + 1 # 1 /\ n + 1 - 1 = n
  OBVIOUS
<1> QED
  BY <1>2, <1>3, Zenon

\* It exists: it grows with the sequence.
LEMMA FlatExists ==
  ASSUME NEW S, NEW q \in Seq(Seq(S)), NEW n \in 0 .. Len(q)
  PROVE  \E h \in [1 .. n -> Seq(S)] : Grows(n, q, h)
<1> DEFINE T == {m \in 0 .. Len(q) : ~ \E h \in [1 .. m -> Seq(S)] : Grows(m, q, h)}
<1>0. Len(q) \in Nat /\ \A i \in 1 .. Len(q) : q[i] \in Seq(S)
  OBVIOUS
<1>1. SUFFICES ASSUME T # {} PROVE FALSE
  OBVIOUS
<1>2. PICK m \in T : \A y \in T : m <= y
  <2>1. T \subseteq Nat
    BY <1>0
  <2> HIDE DEF T
  <2> QED
    BY <2>1, <1>1, LeastExists
<1>3. CASE m = 0
  <2> DEFINE g == [i \in 1 .. 0 |-> <<>>]
  <2>1. g \in [1 .. m -> Seq(S)] /\ Grows(m, q, g)
    BY <1>3 DEF Grows
  <2> QED
    BY <2>1
<1>4. CASE m # 0
  <2>0. m \in 0 .. Len(q)
    BY <1>2
  <2>1. m \in 1 .. Len(q) /\ m - 1 \in 0 .. Len(q) /\ ~(m <= m - 1)
    BY <1>4, <2>0, <1>0
  <2>b. m - 1 \notin T
    <3> HIDE DEF T
    <3> QED
      BY <1>2, <2>1
  <2>2. PICK h \in [1 .. m - 1 -> Seq(S)] : Grows(m - 1, q, h)
    BY <2>1, <2>b
  <2> DEFINE c == IF m = 1 THEN q[m] ELSE h[m - 1] \o q[m]
             g == [i \in 1 .. m |-> IF i = m THEN c ELSE h[i]]
  <2>3. c \in Seq(S)
    <3>1. q[m] \in Seq(S)
      BY <2>1, <1>0
    <3>2. m # 1 => h[m - 1] \in Seq(S)
      BY <2>1
    <3> QED
      BY <3>1, <3>2
  <2>4. g \in [1 .. m -> Seq(S)]
    <3> HIDE DEF c
    <3> QED
      BY <2>3, <2>1
  <2>5. Grows(m, q, g)
    <3> SUFFICES ASSUME NEW i \in 1 .. m
                 PROVE  g[i] = IF i = 1 THEN q[i] ELSE g[i - 1] \o q[i]
      BY DEF Grows
    <3>1. i # 1 => g[i - 1] = h[i - 1]
      BY <2>1
    <3>2. CASE i = m
      BY <3>1, <3>2, <2>1
    <3>3. CASE i # m
      <4>1. i \in 1 .. m - 1 /\ g[i] = h[i]
        BY <3>3, <2>1
      <4>2. h[i] = IF i = 1 THEN q[i] ELSE h[i - 1] \o q[i]
        BY <4>1, <2>2 DEF Grows
      <4> HIDE DEF g
      <4> QED
        BY <4>1, <4>2, <3>1
    <3> QED
      BY <3>2, <3>3
  <2>6. m \notin T
    <3> HIDE DEF g
    <3> QED
      BY <2>4, <2>5
  <2> QED
    BY <2>6
<1> QED
  BY <1>3, <1>4

\* And two of them agree as far as their sequences do.
LEMMA FlatAgree ==
  ASSUME NEW n \in Nat, NEW p, NEW q, NEW g, NEW h,
         Grows(n, p, g), Grows(n, q, h), Agree(n, p, q)
  PROVE  Agree(n, g, h)
<1> DEFINE T == {i \in 1 .. n : g[i] # h[i]}
<1>1. SUFFICES ASSUME T # {} PROVE FALSE
  BY DEF Agree
<1>2. PICK m \in T : \A y \in T : m <= y
  <2>1. T \subseteq Nat
    OBVIOUS
  <2> HIDE DEF T
  <2> QED
    BY <2>1, <1>1, LeastExists
<1>3. CASE m = 1
  BY <1>3 DEF Grows, Agree
<1>4. CASE m # 1
  <2>1. m - 1 \in 1 .. n /\ m - 1 \notin T
    BY <1>4, <1>2
  <2> QED
    BY <2>1, <1>4 DEF Grows, Agree
<1> QED
  BY <1>3, <1>4

LEMMA FlattenIs ==
  ASSUME NEW S, NEW q \in Seq(Seq(S)), q # <<>>
  PROVE  \E h \in [1 .. Len(q) -> Seq(S)] :
           Grows(Len(q), q, h) /\ FlattenSeq(q) = h[Len(q)]
<1>1. Len(q) \in Nat /\ Len(q) # 0 /\ Len(q) \in 0 .. Len(q) /\ Len(q) \in 1 .. Len(q)
  OBVIOUS
<1>2. PICK h \in [1 .. Len(q) -> Seq(S)] : Grows(Len(q), q, h)
  BY <1>1, FlatExists
<1>3. Flat(q, h)
  <2>1. h = [i \in 1 .. Len(q) |-> h[i]]
    OBVIOUS
  <2> QED
    BY <2>1, <1>2 DEF Flat, Grows
<1> DEFINE f == CHOOSE g : Flat(q, g)
<1>4. Flat(q, f)
  BY <1>3
<1>5. FlattenSeq(q) = f[Len(q)]
  BY <1>1 DEF FlattenSeq, Flat
<1> HIDE DEF f
<1>6. Grows(Len(q), q, f)
  BY <1>4 DEF Flat, Grows
<1>7. Agree(Len(q), q, q)
  BY DEF Agree
<1>8. Agree(Len(q), h, f)
  BY <1>1, <1>2, <1>6, <1>7, FlatAgree
<1> QED
  BY <1>1, <1>2, <1>5, <1>8 DEF Agree

LEMMA FlattenStep ==
  ASSUME NEW S, NEW q \in Seq(Seq(S)), NEW c \in Seq(S)
  PROVE  /\ FlattenSeq(<<>>) = <<>>
         /\ FlattenSeq(q) \in Seq(S)
         /\ FlattenSeq(Append(q, c)) = FlattenSeq(q) \o c
<1> DEFINE n == Len(q)
<1>0. n \in Nat /\ (q = <<>> <=> n = 0)
  OBVIOUS
<1>1. FlattenSeq(<<>>) = <<>>
  BY DEF FlattenSeq
<1>2. q # <<>> => \E g \in [1 .. n -> Seq(S)] : Grows(n, q, g) /\ FlattenSeq(q) = g[n]
  BY FlattenIs
<1> HIDE DEF n
<1>3. FlattenSeq(q) \in Seq(S)
  <2>1. CASE q = <<>>
    <3>1. <<>> \in Seq(S)
      OBVIOUS
    <3> QED
      BY <2>1, <1>1, <3>1
  <2>2. CASE q # <<>>
    <3>1. PICK g \in [1 .. n -> Seq(S)] : FlattenSeq(q) = g[n]
      BY <2>2, <1>2
    <3>2. n \in 1 .. n
      BY <2>2, <1>0
    <3>3. g[n] \in Seq(S)
      BY <3>2
    <3> QED
      BY <3>1, <3>3
  <2> QED
    BY <2>1, <2>2
<1>4. FlattenSeq(Append(q, c)) = FlattenSeq(q) \o c
  <2> DEFINE r == Append(q, c)
  <2>1. r \in Seq(Seq(S)) /\ Len(r) = n + 1 /\ r[n + 1] = c
    BY DEF n
  <2>2. Agree(n, r, q)
    BY DEF n, Agree
  <2> HIDE DEF r
  <2>3. r # <<>>
    BY <2>1, <1>0
  <2>4. PICK h \in [1 .. n + 1 -> Seq(S)] : Grows(n + 1, r, h) /\ FlattenSeq(r) = h[n + 1]
    BY <2>1, <2>3, FlattenIs
  <2>5. CASE q = <<>>
    <3>1. n = 0 /\ FlattenSeq(r) = c
      BY <2>1, <2>4, <2>5, <1>0 DEF Grows
    <3>2. FlattenSeq(q) \o c = c
      BY <2>5, <1>1
    <3> QED
      BY <3>1, <3>2 DEF r
  <2>6. CASE q # <<>>
    <3>1. PICK g \in [1 .. n -> Seq(S)] : Grows(n, q, g) /\ FlattenSeq(q) = g[n]
      BY <2>6, <1>2
    <3>2. Grows(n, r, h)
      <4>1. \A i \in 1 .. n : i \in 1 .. n + 1
        BY <1>0
      <4> QED
        BY <2>4, <4>1 DEF Grows
    <3>3. Agree(n, h, g)
      BY <1>0, <2>2, <3>1, <3>2, FlatAgree
    <3>4. n \in 1 .. n /\ n + 1 # 1 /\ n + 1 \in 1 .. n + 1 /\ n + 1 - 1 = n
      BY <1>0, <2>6
    <3>5. h[n + 1] = h[n] \o c
      <4>1. Grows(n + 1, r, h) /\ n # 0
        BY <2>4, <3>4
      <4>2. h[n + 1] = h[n] \o r[n + 1]
        BY <4>1, <1>0, GrowsAt, Zenon
      <4> QED
        BY <4>2, <2>1
    <3>6. h[n] = FlattenSeq(q)
      BY <3>1, <3>3, <3>4 DEF Agree
    <3> QED
      BY <2>4, <3>5, <3>6 DEF r
  <2> QED
    BY <2>5, <2>6
<1> QED
  BY <1>1, <1>3, <1>4
-----------------------------------------------------------------------------
(* Lines.                                                                  *)

LEMMA Joined ==
  ASSUME NEW S, NEW s \in Seq(S), NEW t \in Seq(S)
  PROVE  /\ s \o t \in Seq(S)
         /\ Len(s \o t) = Len(s) + Len(t)
         /\ \A i \in 1 .. Len(s) : (s \o t)[i] = s[i]
         /\ \A i \in 1 .. Len(t) : (s \o t)[Len(s) + i] = t[i]
OBVIOUS

LEMMA LineEndIs ==
  /\ LineEnd \in Seq(Kinds) /\ Len(LineEnd) \in 1 .. 2
  /\ \A i \in 1 .. Len(LineEnd) : LineEnd[i] = IF i = Len(LineEnd) THEN "lf" ELSE "cr"
  /\ LineEnd = <<"cr", "lf">> <=> Len(LineEnd) = 2
<1>1. LineEnd \in {<<"cr", "lf">>, <<"lf">>}
  BY ReaderAssumption
<1>2. CASE LineEnd = <<"cr", "lf">>
  BY <1>2 DEF Kinds
<1>3. CASE LineEnd = <<"lf">>
  BY <1>3 DEF Kinds
<1> QED
  BY <1>1, <1>2, <1>3

\* The tokens of a sentence with its "!".
Body == <<"!">> \o Sentence

LEMMA BodyIs ==
  /\ Body \in Seq(Kinds) /\ Len(Body) = 6
  /\ Body[1] = "!" /\ Body[2] = "talker" /\ Body[3] = "payload"
  /\ Body[4] = "*" /\ Body[5] = "hi" /\ Body[6] = "lo"
<1>1. Sentence \in Seq(Kinds) /\ Len(Sentence) = 5 /\ <<"!">> \in Seq(Kinds)
  BY DEF Sentence, Kinds
<1>2. Body \in Seq(Kinds)
  BY <1>1, Joined DEF Body
<1>5. Len(Body) = 6
  BY DEF Body, Sentence
<1>3. Body[1] = "!" /\ Body[2] = "talker" /\ Body[3] = "payload"
  BY DEF Body, Sentence
<1>4. Body[4] = "*" /\ Body[5] = "hi" /\ Body[6] = "lo"
  BY DEF Body, Sentence
<1> QED
  BY <1>2, <1>3, <1>4, <1>5

LEMMA HeaderIs ==
  /\ Header \in Seq(Kinds) /\ Len(Header) = 2
  /\ Header[1] = "hdr" /\ Header[2] = "hdrEnd"
BY DEF Header, Kinds

LEMMA TaggedFrontIs ==
  LET f == Header \o Body
  IN  /\ Len(f) = 2 + 6 /\ f[1] = "hdr" /\ f[2] = "hdrEnd"
      /\ f[2 + 1] = "!" /\ f[2 + 2] = "talker" /\ f[2 + 3] = "payload"
      /\ f[2 + 4] = "*" /\ f[2 + 5] = "hi" /\ f[2 + 6] = "lo"
<1> DEFINE f == Header \o Body
<1>1. Header \in Seq(Kinds) /\ Body \in Seq(Kinds)
  BY HeaderIs, BodyIs
<1>2. Len(f) = Len(Header) + Len(Body)
  BY <1>1
<1>3. \A i \in 1 .. Len(Header) : f[i] = Header[i]
  BY <1>1
<1>4. \A i \in 1 .. Len(Body) : f[Len(Header) + i] = Body[i]
  BY <1>1
<1> HIDE DEF f
<1>5. f[2 + 1] = Body[1] /\ f[2 + 2] = Body[2] /\ f[2 + 3] = Body[3]
  BY <1>4, HeaderIs, BodyIs
<1>6. f[2 + 4] = Body[4] /\ f[2 + 5] = Body[5] /\ f[2 + 6] = Body[6]
  BY <1>4, HeaderIs, BodyIs
<1>7. f[1] = Header[1] /\ f[2] = Header[2]
  BY <1>3, HeaderIs
<1> QED
  BY <1>2, <1>5, <1>6, <1>7, HeaderIs, BodyIs DEF f

LEMMA LongIs ==
  LET l == [i \in 1 .. BufferSize + 1 - Len(LineEnd) |-> "text"]
  IN  /\ l \in Seq(Kinds) /\ Len(l) = BufferSize + 1 - Len(LineEnd)
      /\ \A i \in 1 .. Len(l) : l[i] = "text"
<1> DEFINE n == BufferSize + 1 - Len(LineEnd)
<1>1. n \in Nat
  BY LineEndIs, ReaderAssumption
<1> HIDE DEF n
<1>2. "text" \in Kinds
  BY DEF Kinds
<1> QED
  BY <1>1, <1>2 DEF n
\* A line is what precedes its line end, and the line end.
LEMMA LineIs ==
  ASSUME NEW shape \in Shapes
  PROVE  \E f \in Seq(Kinds) :
           /\ Line[shape] = f \o LineEnd
           /\ shape = "plain" => f = Body
           /\ shape = "tagged" => f = Header \o Body
           /\ shape \notin {"plain", "tagged"} => \A i \in 1 .. Len(f) : f[i] = "text"
<1>1. shape \in {"plain", "tagged", "other", "long"}
  BY ReaderAssumption DEF Line
<1>2. CASE shape = "plain"
  <2>1. Line[shape] = Body \o LineEnd
    BY <1>2 DEF Line, Body
  <2> QED
    BY <1>2, <2>1, BodyIs
<1>3. CASE shape = "tagged"
  <2>1. Line[shape] = Header \o <<"!">> \o Sentence \o LineEnd
    BY <1>3 DEF Line
  <2>2. <<"!">> \in Seq(Kinds) /\ Sentence \in Seq(Kinds)
    BY DEF Sentence, Kinds
  <2>3. Header \o <<"!">> \o Sentence = Header \o Body
    BY <2>2, HeaderIs, ConcatAssociative DEF Body
  <2>4. Header \o Body \in Seq(Kinds)
    BY HeaderIs, BodyIs, Joined
  <2> QED
    BY <1>3, <2>1, <2>3, <2>4
<1>4. CASE shape = "other"
  <2>1. Line[shape] = <<"text">> \o LineEnd
    BY <1>4 DEF Line
  <2>2. <<"text">> \in Seq(Kinds) /\ \A i \in 1 .. Len(<<"text">>) : <<"text">>[i] = "text"
    BY DEF Kinds
  <2> QED
    BY <1>4, <2>1, <2>2
<1>5. CASE shape = "long"
  <2> DEFINE l == [i \in 1 .. BufferSize + 1 - Len(LineEnd) |-> "text"]
  <2>1. Line[shape] = l \o LineEnd
    BY <1>5 DEF Line
  <2>2. l \in Seq(Kinds) /\ \A i \in 1 .. Len(l) : l[i] = "text"
    BY LongIs
  <2> HIDE DEF l
  <2> QED
    BY <1>5, <2>1, <2>2
<1> QED
  BY <1>1, <1>2, <1>3, <1>4, <1>5

LEMMA LineParts ==
  ASSUME lines \in Seq(Shapes), NEW k \in 1 .. Len(lines)
  PROVE  /\ L(k) \in Seq(Kinds) /\ Len(L(k)) \in Nat \ {0}
         /\ \A j \in 1 .. Len(L(k)) : L(k)[j] = "lf" <=> j = Len(L(k))
         /\ ~ IsSentence(k) =>
              \A j \in 1 .. Len(L(k)) : L(k)[j] \in {"text", "cr", "lf"}
         /\ IsSentence(k) =>
              /\ Len(L(k)) = Lead(k) + 6 + Len(LineEnd)
              /\ L(k)[Lead(k) + 1] = "!"
              /\ L(k)[Lead(k) + 2] = "talker"
              /\ L(k)[Lead(k) + 3] = "payload"
              /\ \A i \in 1 .. Len(LineEnd) : L(k)[Lead(k) + 6 + i] = LineEnd[i]
         /\ lines[k] = "tagged" => L(k)[1] = "hdr" /\ L(k)[2] = "hdrEnd"
         /\ Lead(k) \in {0, 2} /\ (lines[k] = "tagged" <=> Lead(k) = 2)
<1> DEFINE e == Len(LineEnd)
<1>0. e \in 1 .. 2 /\ LineEnd \in Seq(Kinds)
  BY LineEndIs
<1>1. lines[k] \in Shapes
  OBVIOUS
<1>2. PICK f \in Seq(Kinds) :
           /\ L(k) = f \o LineEnd
           /\ lines[k] = "plain" => f = Body
           /\ lines[k] = "tagged" => f = Header \o Body
           /\ lines[k] \notin {"plain", "tagged"} => \A i \in 1 .. Len(f) : f[i] = "text"
  BY <1>1, LineIs DEF L
<1>3. /\ L(k) \in Seq(Kinds) /\ Len(L(k)) = Len(f) + e
      /\ \A i \in 1 .. Len(f) : L(k)[i] = f[i]
      /\ \A i \in 1 .. e : L(k)[Len(f) + i] = LineEnd[i]
  BY <1>0, <1>2, Joined
<1>4. Len(f) \in Nat
  OBVIOUS
<1> HIDE DEF e
<1>5. Lead(k) \in {0, 2} /\ (lines[k] = "tagged" <=> Lead(k) = 2)
  BY HeaderIs DEF Lead
<1>6. \A j \in Len(f) + 1 .. Len(L(k)) : L(k)[j] = IF j = Len(L(k)) THEN "lf" ELSE "cr"
  <2> SUFFICES ASSUME NEW j \in Len(f) + 1 .. Len(L(k))
               PROVE  L(k)[j] = IF j = Len(L(k)) THEN "lf" ELSE "cr"
    OBVIOUS
  <2> DEFINE i == j - Len(f)
  <2>1. i \in 1 .. e /\ j = Len(f) + i /\ (j = Len(L(k)) <=> i = e)
    BY <1>0, <1>3, <1>4
  <2> HIDE DEF i
  <2>2. L(k)[j] = LineEnd[i]
    BY <1>3, <2>1
  <2> QED
    BY <2>1, <2>2, LineEndIs DEF e
<1>7. CASE ~ IsSentence(k)
  <2>1. \A i \in 1 .. Len(f) : L(k)[i] = "text"
    BY <1>2, <1>3, <1>7 DEF IsSentence
  <2>2. \A j \in 1 .. Len(L(k)) : j \in 1 .. Len(f) \/ j \in Len(f) + 1 .. Len(L(k))
    BY <1>0, <1>3, <1>4
  <2>3. lines[k] # "tagged"
    BY <1>7 DEF IsSentence
  <2>4. \A j \in 1 .. Len(L(k)) : L(k)[j] = "lf" <=> j = Len(L(k))
    BY <1>0, <1>3, <1>4, <1>6, <2>1, <2>2
  <2>5. \A j \in 1 .. Len(L(k)) : L(k)[j] \in {"text", "cr", "lf"}
    BY <1>6, <2>1, <2>2
  <2> QED
    BY <1>0, <1>3, <1>4, <1>5, <1>7, <2>3, <2>4, <2>5
<1>8. CASE IsSentence(k)
  <2> DEFINE a == Lead(k)
  <2>1. /\ Len(f) = a + 6 /\ f[a + 1] = "!" /\ f[a + 2] = "talker" /\ f[a + 3] = "payload"
        /\ f[a + 4] = "*" /\ f[a + 5] = "hi" /\ f[a + 6] = "lo"
        /\ lines[k] = "tagged" => f[1] = "hdr" /\ f[2] = "hdrEnd"
    <3>1. CASE lines[k] = "plain"
      <4>1. f = Body /\ a = 0
        BY <1>2, <3>1 DEF Lead
      <4> QED
        BY <3>1, <4>1, BodyIs
    <3>2. CASE lines[k] = "tagged"
      <4>1. f = Header \o Body /\ a = 2
        BY <1>2, <3>2, HeaderIs DEF Lead
      <4> QED
        BY <4>1, TaggedFrontIs
    <3> QED
      BY <1>8, <3>1, <3>2 DEF IsSentence
  <2>2. \A i \in 1 .. Len(f) : f[i] # "lf"
    <3>1. a = 0 \/ (a = 2 /\ lines[k] = "tagged")
      BY <1>5
    <3> HIDE DEF a
    <3> QED
      BY <2>1, <3>1
  <2>3. \A j \in 1 .. Len(L(k)) : j \in 1 .. Len(f) \/ j \in Len(f) + 1 .. Len(L(k))
    BY <1>0, <1>3, <1>4
  <2>4. \A j \in 1 .. Len(L(k)) : L(k)[j] = "lf" <=> j = Len(L(k))
    <3> SUFFICES ASSUME NEW j \in 1 .. Len(L(k)) PROVE L(k)[j] = "lf" <=> j = Len(L(k))
      OBVIOUS
    <3>1. CASE j \in 1 .. Len(f)
      <4>1. j # Len(L(k))
        BY <1>0, <1>3, <1>4, <3>1
      <4>2. L(k)[j] # "lf"
        BY <1>3, <2>2, <3>1
      <4> QED
        BY <4>1, <4>2
    <3>2. CASE j \in Len(f) + 1 .. Len(L(k))
      BY <1>6, <3>2
    <3> QED
      BY <2>3, <3>1, <3>2
  <2> HIDE DEF a
  <2>5. L(k)[a + 1] = "!" /\ L(k)[a + 2] = "talker" /\ L(k)[a + 3] = "payload"
    BY <1>3, <1>5, <2>1 DEF a
  <2>6. lines[k] = "tagged" => L(k)[1] = "hdr" /\ L(k)[2] = "hdrEnd"
    BY <1>3, <1>5, <2>1 DEF a
  <2>7. /\ Len(L(k)) = a + 6 + e
        /\ \A i \in 1 .. e : L(k)[a + 6 + i] = LineEnd[i]
    BY <1>3, <2>1
  <2> QED
    BY <1>0, <1>3, <1>4, <1>5, <1>8, <2>4, <2>5, <2>6, <2>7 DEF a, e
<1> QED
  BY <1>7, <1>8-----------------------------------------------------------------------------
(* The file.                                                               *)

LEMMA LineTokensAre ==
  ASSUME lines \in Seq(Shapes), NEW k \in 1 .. Len(lines)
  PROVE  /\ LineTokens(k) \in Seq(Token) /\ Len(LineTokens(k)) = Len(L(k))
         /\ \A j \in 1 .. Len(L(k)) : LineTokens(k)[j] = [kind |-> L(k)[j], line |-> k]
<1> DEFINE n == Len(L(k))
<1>1. n \in Nat /\ DOMAIN L(k) = 1 .. n /\ \A j \in 1 .. n : L(k)[j] \in Kinds
  BY LineParts
<1>2. k \in Nat
  OBVIOUS
<1> HIDE DEF n
<1>3. LineTokens(k) = [j \in 1 .. n |-> [kind |-> L(k)[j], line |-> k]]
  BY <1>1 DEF LineTokens
<1>4. \A j \in 1 .. n : [kind |-> L(k)[j], line |-> k] \in Token
  BY <1>1, <1>2 DEF Token
<1> QED
  BY <1>1, <1>3, <1>4 DEF n

LEMMA TokensStep ==
  ASSUME lines \in Seq(Shapes), NEW k \in 1 .. Len(lines)
  PROVE  /\ Tokens(0) = <<>>
         /\ Tokens(k - 1) \in Seq(Token)
         /\ Tokens(k) = Tokens(k - 1) \o LineTokens(k)
<1> DEFINE G(m) == [i \in 1 .. m |-> LineTokens(i)]
<1>1. \A m : Tokens(m) = FlattenSeq(G(m))
  BY DEF Tokens, LineTokens, L
<1>2. \A i \in 1 .. Len(lines) : LineTokens(i) \in Seq(Token)
  BY LineTokensAre
<1>3. k \in Nat \ {0} /\ k - 1 \in Nat /\ \A i \in 1 .. k - 1 : i \in 1 .. Len(lines)
  OBVIOUS
<1>4. G(k - 1) \in Seq(Seq(Token))
  <2>1. \A i \in 1 .. k - 1 : LineTokens(i) \in Seq(Token)
    BY <1>2, <1>3
  <2> QED
    BY <1>3, <2>1
<1>5. G(k) = Append(G(k - 1), LineTokens(k))
  BY <1>3
<1>6. G(0) = <<>>
  OBVIOUS
<1>7. FlattenSeq(<<>>) = <<>>
  BY DEF FlattenSeq
<1> HIDE DEF G
<1>8. LineTokens(k) \in Seq(Token)
  BY <1>2
<1> QED
  BY <1>1, <1>4, <1>5, <1>6, <1>7, <1>8, FlattenStep

LEMMA TokensAre ==
  ASSUME lines \in Seq(Shapes), NEW k \in 1 .. Len(lines)
  PROVE  /\ Tokens(k) \in Seq(Token)
         /\ B(k) = B(k - 1) + Len(L(k)) /\ B(k - 1) \in Nat /\ B(0) = 0
         /\ \A i \in 1 .. B(k - 1) : Tokens(k)[i] = Tokens(k - 1)[i]
         /\ \A j \in 1 .. Len(L(k)) :
              Tokens(k)[B(k - 1) + j] = [kind |-> L(k)[j], line |-> k]
<1>1. Tokens(k - 1) \in Seq(Token) /\ LineTokens(k) \in Seq(Token)
  BY TokensStep, LineTokensAre
<1>2. Tokens(k) = Tokens(k - 1) \o LineTokens(k) /\ Tokens(0) = <<>>
  BY TokensStep
<1> DEFINE s == Tokens(k - 1)
           t == LineTokens(k)
<1>3. Tokens(k) \in Seq(Token)
  BY <1>1, <1>2, Joined
<1>4. /\ Len(s \o t) = Len(s) + Len(t)
      /\ \A i \in 1 .. Len(s) : (s \o t)[i] = s[i]
      /\ \A i \in 1 .. Len(t) : (s \o t)[Len(s) + i] = t[i]
  <2> HIDE DEF s, t
  <2>1. s \in Seq(Token) /\ t \in Seq(Token)
    BY <1>1 DEF s, t
  <2> QED
    BY <2>1, Joined
<1>5. Len(t) = Len(L(k)) /\ \A j \in 1 .. Len(L(k)) : t[j] = [kind |-> L(k)[j], line |-> k]
  BY LineTokensAre
<1>6. Len(s) \in Nat /\ B(0) = 0
  BY <1>1, <1>2 DEF B
<1> QED
  BY <1>2, <1>3, <1>4, <1>5, <1>6 DEF B
\* The tokens of the first k lines stay when lines are added to them.
Extends(m, k) ==
  /\ B(m) \in Nat /\ B(k) <= B(m) /\ (k < m => B(k) < B(m))
  /\ \A i \in 1 .. B(k) : Tokens(m)[i] = Tokens(k)[i]

LEMMA Extended ==
  ASSUME lines \in Seq(Shapes), NEW k \in 0 .. Len(lines), NEW m \in k .. Len(lines)
  PROVE  Extends(m, k) /\ B(k) \in Nat
<1> DEFINE n == Len(lines)
           T == {i \in k .. n : ~ Extends(i, k)}
<1>0. n \in Nat /\ k \in Nat
  OBVIOUS
<1>1. B(k) \in Nat
  <2>1. CASE k = 0
    <3>1. Tokens(0) = <<>>
      BY DEF Tokens, FlattenSeq
    <3> QED
      BY <2>1, <3>1 DEF B
  <2>2. CASE k # 0
    <3>1. k \in 1 .. n
      BY <2>2
    <3> QED
      BY <3>1, TokensAre DEF B
  <2> QED
    BY <2>1, <2>2
<1>2. SUFFICES ASSUME T # {} PROVE FALSE
  BY <1>1
<1>3. PICK i \in T : \A y \in T : i <= y
  <2>1. T \subseteq Nat
    BY <1>0
  <2> HIDE DEF T
  <2> QED
    BY <1>2, <2>1, LeastExists
<1>4. i \in k .. n /\ ~ Extends(i, k)
  OBVIOUS
<1>5. i # k
  BY <1>1, <1>4 DEF Extends
<1>6. i \in 1 .. n /\ i - 1 \in k .. n /\ ~(i <= i - 1)
  BY <1>0, <1>4, <1>5
<1>7. Extends(i - 1, k)
  BY <1>3, <1>6
<1>8. /\ B(i) = B(i - 1) + Len(L(i))
      /\ \A j \in 1 .. B(i - 1) : Tokens(i)[j] = Tokens(i - 1)[j]
  BY <1>6, TokensAre
<1>9. Len(L(i)) \in Nat \ {0}
  BY <1>6, LineParts
<1>10. \A j \in 1 .. B(k) : j \in 1 .. B(i - 1)
  BY <1>1, <1>7 DEF Extends
<1>11. B(i) \in Nat /\ B(k) < B(i)
  BY <1>1, <1>7, <1>8, <1>9 DEF Extends
<1>12. \A j \in 1 .. B(k) : Tokens(i)[j] = Tokens(k)[j]
  BY <1>7, <1>8, <1>10 DEF Extends
<1> QED
  BY <1>1, <1>4, <1>11, <1>12 DEF Extends

LEMMA FileIs ==
  ASSUME lines \in Seq(Shapes), NEW k \in 1 .. Len(lines)
  PROVE  /\ B(k - 1) \in Nat /\ B(k) = B(k - 1) + Len(L(k)) /\ B(k) <= Len(File)
         /\ \A j \in 1 .. Len(L(k)) :
              File[B(k - 1) + j] = [kind |-> L(k)[j], line |-> k]
<1> DEFINE n == Len(lines)
<1>1. k \in 0 .. n /\ n \in k .. n
  OBVIOUS
<1>2. Extends(n, k) /\ B(k) \in Nat
  BY <1>1, Extended
<1>3. /\ B(k) = B(k - 1) + Len(L(k)) /\ B(k - 1) \in Nat
      /\ \A j \in 1 .. Len(L(k)) : Tokens(k)[B(k - 1) + j] = [kind |-> L(k)[j], line |-> k]
  BY TokensAre
<1>4. Len(L(k)) \in Nat
  BY LineParts
<1>5. \A j \in 1 .. Len(L(k)) : B(k - 1) + j \in 1 .. B(k)
  BY <1>3, <1>4
<1>6. File = Tokens(n) /\ Len(File) = B(n)
  BY DEF File, B
<1>7. \A j \in 1 .. Len(L(k)) : Tokens(n)[B(k - 1) + j] = Tokens(k)[B(k - 1) + j]
  BY <1>2, <1>5 DEF Extends
<1> QED
  BY <1>2, <1>3, <1>6, <1>7 DEF Extends

LEMMA FileSeq ==
  ASSUME lines \in Seq(Shapes)
  PROVE  File \in Seq(Token) /\ Len(File) \in Nat /\ Len(File) = B(Len(lines))
<1>1. CASE Len(lines) = 0
  <2>1. File = <<>>
    BY <1>1 DEF File, Tokens, FlattenSeq
  <2>2. Len(File) = B(Len(lines))
    BY DEF File, B
  <2> QED
    BY <2>1, <2>2
<1>2. CASE Len(lines) # 0
  <2>1. Len(lines) \in 1 .. Len(lines)
    BY <1>2
  <2>2. Tokens(Len(lines)) \in Seq(Token)
    BY <2>1, TokensAre
  <2> QED
    BY <2>2 DEF File, B
<1> QED
  BY <1>1, <1>2-----------------------------------------------------------------------------
(* The buffer: index p of it is o tokens into line k.                      *)

Into(p, k, o) ==
  /\ p \in 0 .. Len(nmeaData) /\ k \in 1 .. Len(lines) /\ o \in Nat
  /\ pos - (Len(nmeaData) - p) = B(k - 1) + o

Sound == lines \in Seq(Shapes) /\ Buffered /\ pos \in 0 .. Len(File)

LEMMA KindInLine ==
  ASSUME Sound, NEW p, NEW k, NEW o, Into(p, k, o), NEW d \in Nat, o + d < Len(L(k))
  PROVE  /\ p + d < Len(nmeaData) <=> B(k - 1) + o + d < pos
         /\ p + d < Len(nmeaData) => Kind(p + d) = L(k)[o + d + 1]
         /\ p + d < Len(nmeaData) => nmeaData[p + d + 1].line = k
         /\ p + d >= Len(nmeaData) => Kind(p + d) = "none"
<1> DEFINE n == Len(nmeaData)
<1>1. /\ n \in Nat /\ p \in Nat /\ o \in Nat /\ pos \in Nat /\ n <= pos
      /\ k \in 1 .. Len(lines) /\ pos - (n - p) = B(k - 1) + o
  <2>1. Len(File) \in Nat
    BY FileSeq DEF Sound
  <2> QED
    BY <2>1 DEF Sound, Buffered, Into
<1>2. B(k - 1) \in Nat
  BY <1>1, FileIs DEF Sound
<1>3. p + d < n <=> B(k - 1) + o + d < pos
  BY <1>1, <1>2
<1>4. ASSUME p + d < n
      PROVE  nmeaData[p + d + 1] = [kind |-> L(k)[o + d + 1], line |-> k]
  <2> DEFINE i == p + d + 1
             j == o + d + 1
  <2>1. i \in 1 .. n /\ pos - n + i = B(k - 1) + j
    BY <1>1, <1>2, <1>4
  <2>2. j \in 1 .. Len(L(k))
    <3>1. Len(L(k)) \in Nat
      BY <1>1, LineParts DEF Sound
    <3> QED
      BY <1>1, <3>1
  <2> HIDE DEF i, j
  <2>3. nmeaData[i] = File[pos - n + i]
    BY <2>1 DEF Sound, Buffered
  <2>4. File[B(k - 1) + j] = [kind |-> L(k)[j], line |-> k]
    BY <1>1, <2>2, FileIs DEF Sound
  <2> QED
    BY <2>1, <2>3, <2>4 DEF i, j
<1>5. p + d < n => Kind(p + d) = L(k)[o + d + 1]
  BY <1>4 DEF Kind
<1>6. p + d >= n => Kind(p + d) = "none"
  BY <1>1 DEF Kind
<1>7. p + d < n => nmeaData[p + d + 1].line = k
  BY <1>4
<1> QED
  BY <1>3, <1>5, <1>6, <1>7
\* Does processNmeaData find a header at p?
Headed(p) == HeaderEnd(p) # p

\* The line the token at p belongs to, o tokens into line k.
LEMMA LineAt ==
  ASSUME Sound, NEW p, NEW k, NEW o, o \in Offsets(k), Into(p, k, o), p < Len(nmeaData)
  PROVE  nmeaData[p + 1].line = k
<1>1. k \in 1 .. Len(lines) /\ p \in Nat /\ o \in Nat /\ lines \in Seq(Shapes)
  BY DEF Into, Sound, Buffered
<1>2. Lead(k) \in {0, 2} /\ Len(L(k)) \in Nat \ {0} /\ Len(LineEnd) \in 1 .. 2
      /\ (IsSentence(k) => Len(L(k)) = Lead(k) + 6 + Len(LineEnd))
  BY <1>1, LineParts, LineEndIs
<1>3. o + 0 < Len(L(k))
  <2>1. CASE IsSentence(k)
    <3> DEFINE a == Lead(k)
    <3>1. o \in {0, a, a + 1}
      BY <1>1, <2>1 DEF Offsets
    <3> HIDE DEF a
    <3> QED
      BY <1>2, <2>1, <3>1 DEF a
  <2>2. CASE ~ IsSentence(k)
    BY <1>2, <2>2 DEF Offsets
  <2> QED
    BY <2>1, <2>2
<1>4. p + 0 = p /\ 0 \in Nat
  BY <1>1
<1> QED
  BY <1>3, <1>4, KindInLine

\* Where processNmeaData looks for the sentence, having started o tokens into the line.
LEMMA StartInLine ==
  ASSUME Sound, NEW p, NEW k, NEW o, o \in Offsets(k), Into(p, k, o), p < Len(nmeaData)
  PROVE  LET s  == Start(p)
             oo == o + (s - p)
         IN  /\ Into(s, k, oo) /\ oo \in Offsets(k) /\ s >= p
             /\ IsSentence(k) /\ B(k) <= pos => oo = Lead(k) + 1
             /\ Headed(p) => lines[k] = "tagged"
             /\ lines[k] = "tagged" /\ o = 0 /\ oo > 0 =>
                  Headed(p) /\ B(k - 1) + Len(Header) <= pos
<1> DEFINE n == Len(nmeaData)
           a == Lead(k)
<1>1. /\ n \in Nat /\ p \in Nat /\ o \in Nat /\ pos \in Nat /\ n <= pos /\ p < n
      /\ k \in 1 .. Len(lines) /\ pos - (n - p) = B(k - 1) + o
  <2>1. Len(File) \in Nat
    BY FileSeq DEF Sound
  <2> QED
    BY <2>1 DEF Sound, Buffered, Into
<1>2. B(k - 1) \in Nat /\ B(k) = B(k - 1) + Len(L(k))
  BY <1>1, FileIs DEF Sound
<1>3. /\ a \in {0, 2} /\ (lines[k] = "tagged" <=> a = 2)
      /\ Len(L(k)) \in Nat \ {0}
      /\ IsSentence(k) => Len(L(k)) >= a + 7
  <2>1. lines \in Seq(Shapes)
    BY DEF Sound
  <2>2. a \in {0, 2} /\ (lines[k] = "tagged" <=> a = 2)
    BY <1>1, <2>1, LineParts
  <2>3. Len(L(k)) \in Nat \ {0}
    BY <1>1, <2>1, LineParts
  <2>4. IsSentence(k) => Len(L(k)) = a + 6 + Len(LineEnd)
    BY <1>1, <2>1, LineParts
  <2>5. Len(LineEnd) \in 1 .. 2
    BY LineEndIs
  <2> HIDE DEF a
  <2>6. a \in Nat
    BY <2>2
  <2>7. a + 6 + Len(LineEnd) >= a + 7
    BY <2>5, <2>6
  <2> QED
    BY <2>2, <2>3, <2>4, <2>7
<1>4. \A d \in 0 .. 3 : o + d < Len(L(k)) =>
         Kind(p + d) = IF p + d < n THEN L(k)[o + d + 1] ELSE "none"
  <2> SUFFICES ASSUME NEW d \in 0 .. 3, o + d < Len(L(k))
               PROVE  Kind(p + d) = IF p + d < n THEN L(k)[o + d + 1] ELSE "none"
    OBVIOUS
  <2>1. d \in Nat
    OBVIOUS
  <2>2. ASSUME p + d < n PROVE Kind(p + d) = L(k)[o + d + 1]
    BY <2>1, <2>2, KindInLine
  <2>3. p + d >= n => Kind(p + d) = "none"
    BY <2>1, KindInLine
  <2> QED
    BY <1>1, <2>2, <2>3
<1>5. p + 0 = p /\ Len(Header) = 2
  BY <1>1, HeaderIs
<1>6. CASE ~ IsSentence(k)
  <2>1. o = 0 /\ a = 0
    BY <1>3, <1>6 DEF Offsets, IsSentence
  <2>2. Kind(p) \in {"text", "cr", "lf"}
    <3>1. Kind(p + 0) = L(k)[0 + 0 + 1]
      BY <1>1, <1>3, <1>4, <2>1
    <3>2. L(k)[1] \in {"text", "cr", "lf"}
      BY <1>1, <1>3, <1>6, LineParts DEF Sound
    <3> QED
      BY <1>5, <3>1, <3>2
  <2>3. HeaderEnd(p) = p
    BY <2>2 DEF HeaderEnd
  <2>4. Start(p) = p
    BY <2>2, <2>3 DEF Start, Skip
  <2>5. p - p = 0 /\ o + 0 = o
    BY <1>1
  <2> QED
    BY <1>1, <1>6, <2>1, <2>3, <2>4, <2>5 DEF Headed
<1>7. CASE IsSentence(k) /\ o = a + 1
  <2>1. Kind(p) = "talker"
    <3>1. o + 0 < Len(L(k)) /\ o + 0 + 1 = a + 2 /\ p + 0 < n /\ 0 \in 0 .. 3
      BY <1>1, <1>3, <1>7
    <3>2. Kind(p + 0) = L(k)[o + 0 + 1]
      BY <1>4, <3>1
    <3> QED
      BY <1>1, <1>5, <1>7, <3>1, <3>2, LineParts DEF Sound
  <2>2. HeaderEnd(p) = p
    BY <2>1 DEF HeaderEnd
  <2>3. Start(p) = p
    BY <2>1, <2>2 DEF Start, Skip
  <2>4. p - p = 0 /\ o + 0 = o /\ o # 0
    BY <1>1, <1>3, <1>7
  <2> QED
    BY <1>1, <1>7, <2>2, <2>3, <2>4 DEF Headed
<1>8. CASE IsSentence(k) /\ o = a
  <2>1. Kind(p) = "!"
    <3>1. o + 0 < Len(L(k)) /\ o + 0 + 1 = a + 1 /\ p + 0 < n
      BY <1>1, <1>3, <1>8
    <3>2. Kind(p + 0) = L(k)[o + 0 + 1]
      BY <1>4, <3>1
    <3>3. L(k)[a + 1] = "!"
      BY <1>1, <1>8, LineParts DEF Sound
    <3> QED
      BY <1>5, <3>1, <3>2, <3>3
  <2>2. Kind(p + 1) \in {"talker", "none"}
    <3>1. o + 1 < Len(L(k)) /\ o + 1 + 1 = a + 2
      BY <1>1, <1>3, <1>8
    <3>2. Kind(p + 1) = IF p + 1 < n THEN L(k)[o + 1 + 1] ELSE "none"
      BY <1>4, <3>1
    <3>3. L(k)[a + 2] = "talker"
      BY <1>1, <1>8, LineParts DEF Sound
    <3> QED
      BY <3>1, <3>2, <3>3
  <2>3. HeaderEnd(p) = p
    BY <2>1 DEF HeaderEnd
  <2>4. Start(p) = p + 1
    BY <2>1, <2>2, <2>3 DEF Start, Skip
  <2>5. (p + 1) - p = 1 /\ p + 1 \in 0 .. n /\ p + 1 >= p
        /\ pos - (n - (p + 1)) = B(k - 1) + (o + 1)
    BY <1>1, <1>2
  <2>6. o + 1 \in Offsets(k) /\ o + 1 = a + 1 /\ (lines[k] = "tagged" => o # 0)
    BY <1>1, <1>3, <1>8 DEF Offsets
  <2> QED
    BY <1>1, <1>8, <2>3, <2>4, <2>5, <2>6 DEF Headed, Into
<1>9. CASE IsSentence(k) /\ o = 0 /\ a = 2
  <2>1. L(k)[1] = "hdr" /\ L(k)[2] = "hdrEnd" /\ L(k)[3] = "!" /\ L(k)[4] = "talker"
        /\ lines[k] = "tagged" /\ Len(L(k)) >= 9
    <3>1. lines[k] = "tagged" /\ Len(L(k)) >= 9
      BY <1>3, <1>9
    <3>2. L(k)[2 + 1] = "!" /\ L(k)[2 + 2] = "talker"
      BY <1>1, <1>9, LineParts DEF Sound
    <3> QED
      BY <1>1, <3>1, <3>2, LineParts DEF Sound
  <2>2. /\ Kind(p) = "hdr"
        /\ Kind(p + 1) = IF p + 1 < n THEN "hdrEnd" ELSE "none"
        /\ Kind(p + 2) = IF p + 2 < n THEN "!" ELSE "none"
        /\ Kind(p + 3) = IF p + 3 < n THEN "talker" ELSE "none"
    <3>1. Kind(p + 0) = L(k)[0 + 0 + 1] /\ Kind(p + 1) = IF p + 1 < n THEN L(k)[0 + 1 + 1] ELSE "none"
      BY <1>1, <1>4, <1>9, <2>1
    <3>2. Kind(p + 2) = IF p + 2 < n THEN L(k)[0 + 2 + 1] ELSE "none"
      BY <1>1, <1>4, <1>9, <2>1
    <3>3. Kind(p + 3) = IF p + 3 < n THEN L(k)[0 + 3 + 1] ELSE "none"
      BY <1>1, <1>4, <1>9, <2>1
    <3> QED
      BY <1>5, <2>1, <3>1, <3>2, <3>3
  <2>3. Offsets(k) = {0, 2, 3}
    BY <1>1, <1>9 DEF Offsets
  <2>4. CASE p + 1 >= n
    <3>1. HeaderEnd(p) = p
      BY <1>1, <2>2, <2>4 DEF HeaderEnd
    <3>2. Start(p) = p
      BY <2>2, <3>1 DEF Start, Skip
    <3>3. p - p = 0 /\ o + 0 = 0 /\ ~(B(k) <= pos)
      BY <1>1, <1>2, <1>9, <2>1, <2>4
    <3> QED
      BY <1>1, <1>9, <2>1, <3>1, <3>2, <3>3 DEF Headed
  <2>5. CASE p + 1 < n
    <3>1. HeaderEnd(p) = p + 2 /\ p + 2 # p
      BY <1>1, <2>2, <2>5 DEF HeaderEnd
    <3>2. B(k - 1) + 2 <= pos
      BY <1>1, <1>2, <1>9, <2>5
    <3>3. CASE p + 2 >= n
      <4>1. Start(p) = p + 2
        BY <1>1, <2>2, <3>1, <3>3 DEF Start, Skip
      <4>2. (p + 2) - p = 2 /\ o + 2 = 2 /\ ~(B(k) <= pos) /\ p + 2 \in 0 .. n /\ p + 2 >= p
            /\ pos - (n - (p + 2)) = B(k - 1) + 2
        BY <1>1, <1>2, <1>9, <2>1, <2>5, <3>3
      <4> QED
        BY <1>1, <1>5, <1>9, <2>1, <2>3, <3>1, <3>2, <4>1, <4>2 DEF Headed, Into
    <3>4. CASE p + 2 < n
      <4>1. Start(p) = p + 3
        <5>1. Skip(p + 2, "!") = p + 3
          BY <1>1, <2>2, <3>4 DEF Skip
        <5>2. Skip(p + 3, "$") = p + 3
          BY <1>1, <2>2 DEF Skip
        <5> QED
          BY <3>1, <5>1, <5>2 DEF Start
      <4>2. (p + 3) - p = 3 /\ o + 3 = 3 /\ p + 3 \in 0 .. n /\ p + 3 >= p
            /\ pos - (n - (p + 3)) = B(k - 1) + 3
        BY <1>1, <1>2, <1>9, <3>4
      <4> QED
        BY <1>1, <1>5, <1>9, <2>1, <2>3, <3>1, <3>2, <4>1, <4>2 DEF Headed, Into
    <3> QED
      BY <1>1, <3>3, <3>4
  <2> QED
    BY <1>1, <2>4, <2>5
<1>10. IsSentence(k) => o = a + 1 \/ o = a \/ (o = 0 /\ a = 2)
  BY <1>3 DEF Offsets
<1> QED
  BY <1>6, <1>7, <1>8, <1>9, <1>10
LEMMA Numbers ==
  ASSUME Sound, NEW p, NEW k, NEW o, Into(p, k, o)
  PROVE  /\ Len(nmeaData) \in Nat /\ p \in Nat /\ o \in Nat /\ pos \in Nat
         /\ Len(nmeaData) <= pos /\ p <= Len(nmeaData) /\ k \in 1 .. Len(lines)
         /\ pos - (Len(nmeaData) - p) = B(k - 1) + o
         /\ B(k - 1) \in Nat /\ B(k) = B(k - 1) + Len(L(k)) /\ B(k) \in Nat
         /\ Len(L(k)) \in Nat \ {0} /\ lines \in Seq(Shapes)
<1>1. Len(File) \in Nat /\ lines \in Seq(Shapes)
  BY FileSeq DEF Sound
<1>2. k \in 1 .. Len(lines)
  BY DEF Into
<1>3. B(k - 1) \in Nat /\ B(k) = B(k - 1) + Len(L(k))
  BY <1>1, <1>2, FileIs
<1>4. Len(L(k)) \in Nat \ {0}
  BY <1>1, <1>2, LineParts
<1> QED
  BY <1>1, <1>2, <1>3, <1>4 DEF Sound, Buffered, Into

\* The first line feed from an index on ends the line that the index is in.
LEMMA LineFeedOf ==
  ASSUME Sound, NEW s, NEW k, NEW o, Into(s, k, o), o < Len(L(k))
  PROVE  /\ B(k) <= pos =>
              /\ LineFeeds(s) # {}
              /\ 1 + Min(LineFeeds(s)) \in 0 .. Len(nmeaData)
              /\ pos - (Len(nmeaData) - (1 + Min(LineFeeds(s)))) = B(k)
         /\ ~(B(k) <= pos) => LineFeeds(s) = {}
<1> DEFINE n == Len(nmeaData)
           l == Len(L(k))
           m == s + (l - 1 - o)
<1>1. /\ n \in Nat /\ s \in Nat /\ o \in Nat /\ pos \in Nat /\ n <= pos /\ s <= n
      /\ pos - (n - s) = B(k - 1) + o /\ B(k - 1) \in Nat /\ B(k) = B(k - 1) + l
      /\ l \in Nat /\ o < l
  BY Numbers
<1>2. k \in 1 .. Len(lines) /\ lines \in Seq(Shapes)
  BY Numbers
<1> HIDE DEF n, l
<1>3. m \in Nat /\ m >= s /\ (m < n <=> B(k) <= pos) /\ pos - (n - (1 + m)) = B(k)
  BY <1>1
<1>4. \A j \in s .. n - 1 : j <= m => (Kind(j) = "lf" <=> j = m)
  <2> SUFFICES ASSUME NEW j \in s .. n - 1, j <= m PROVE Kind(j) = "lf" <=> j = m
    OBVIOUS
  <2> DEFINE d == j - s
  <2>1. d \in Nat /\ o + d < l /\ s + d < n /\ s + d = j /\ o + d + 1 \in 1 .. l
        /\ (o + d + 1 = l <=> j = m)
    BY <1>1
  <2> HIDE DEF d, m
  <2>2. Kind(s + d) = L(k)[o + d + 1]
    BY <2>1, KindInLine DEF n, l
  <2>3. L(k)[o + d + 1] = "lf" <=> o + d + 1 = l
    BY <1>2, <2>1, LineParts DEF l
  <2> QED
    BY <2>1, <2>2, <2>3
<1>5. LineFeeds(s) = {j \in s .. n - 1 : Kind(j) = "lf"}
  BY DEF LineFeeds, n
<1>6. ASSUME ~(B(k) <= pos) PROVE LineFeeds(s) = {}
  <2>1. \A j \in s .. n - 1 : j <= m /\ j # m
    BY <1>1, <1>3, <1>6
  <2> QED
    BY <1>4, <1>5, <2>1
<1>7. ASSUME B(k) <= pos PROVE m \in LineFeeds(s) /\ \A j \in LineFeeds(s) : m <= j
  <2>1. m \in s .. n - 1 /\ m <= m
    BY <1>1, <1>3, <1>7
  <2>2. m \in LineFeeds(s)
    BY <1>4, <1>5, <2>1
  <2>3. \A j \in s .. n - 1 : m <= j \/ (j <= m /\ j # m)
    BY <1>1, <1>3
  <2> HIDE DEF m
  <2> QED
    BY <1>4, <1>5, <2>2, <2>3
<1>8. ASSUME B(k) <= pos PROVE Min(LineFeeds(s)) = m
  <2>1. LineFeeds(s) \subseteq Nat
    BY <1>1, <1>5
  <2> HIDE DEF m
  <2>2. \A x \in LineFeeds(s) : (\A j \in LineFeeds(s) : x <= j) => x = m
    BY <1>3, <1>7, <1>8, <2>1
  <2> QED
    BY <1>7, <1>8, <2>2 DEF Min
<1> QED
  BY <1>1, <1>3, <1>6, <1>7, <1>8 DEF n

\* What readSentence accepts is the sentence of the line, with its line end behind it.
LEMMA SentenceOf ==
  ASSUME Sound, NEW s, NEW k, NEW o, Into(s, k, o), o \in Offsets(k)
  PROVE  /\ SentenceSize(s) # 0 =>
              /\ IsSentence(k) /\ nmeaData[s + 1].line = k /\ SentenceSize(s) = 5
              /\ Skip(Skip(s + 5, "cr"), "lf") \in 0 .. Len(nmeaData)
              /\ pos - (Len(nmeaData) - Skip(Skip(s + 5, "cr"), "lf")) = B(k)
         /\ LineEnd = <<"cr", "lf">> /\ IsSentence(k) /\ o = Lead(k) + 1 /\ B(k) <= pos =>
              SentenceSize(s) # 0
<1> DEFINE n == Len(nmeaData)
           a == Lead(k)
           e == Len(LineEnd)
           l == Len(L(k))
<1>1. /\ n \in Nat /\ s \in Nat /\ o \in Nat /\ pos \in Nat /\ n <= pos /\ s <= n
      /\ pos - (n - s) = B(k - 1) + o /\ B(k - 1) \in Nat /\ B(k) = B(k - 1) + l
      /\ l \in Nat \ {0}
  BY Numbers
<1>2. k \in 1 .. Len(lines) /\ lines \in Seq(Shapes)
  BY Numbers
<1>3. a \in {0, 2} /\ (IsSentence(k) => l = a + 6 + e) /\ e \in 1 .. 2
  BY <1>2, LineParts, LineEndIs
<1>4. Len(Sentence) = 5
  BY DEF Sentence
<1> HIDE DEF n, e, l
<1>5. ASSUME SentenceSize(s) # 0
      PROVE  Kind(s) = "talker" /\ s + 6 < n /\ SentenceSize(s) = 5
  BY <1>1, <1>4, <1>5 DEF SentenceSize, n
<1>6. ASSUME SentenceSize(s) # 0
      PROVE  IsSentence(k) /\ o = a + 1
  <2>1. Kind(s) = "talker" /\ s < n
    BY <1>1, <1>5, <1>6
  <2>2. o < l => L(k)[o + 1] = "talker"
    <3>1. ASSUME o < l PROVE Kind(s + 0) = L(k)[o + 0 + 1]
      <4>1. o + 0 < l /\ s + 0 < n
        BY <1>1, <2>1, <3>1
      <4> QED
        BY <4>1, KindInLine DEF n, l
    <3>2. s + 0 = s /\ o + 0 + 1 = o + 1
      BY <1>1
    <3> QED
      BY <2>1, <3>1, <3>2
  <2>3. CASE ~ IsSentence(k)
    <3>1. o = 0 /\ 1 \in 1 .. l /\ o < l /\ o + 1 = 1
      BY <1>1, <2>3 DEF Offsets
    <3>2. L(k)[1] \in {"text", "cr", "lf"}
      BY <1>2, <2>3, <3>1, LineParts DEF l
    <3> QED
      BY <2>2, <3>1, <3>2
  <2>4. CASE IsSentence(k)
    <3>1. o < l /\ (o = a \/ o = a + 1 \/ (o = 0 /\ a = 2))
      BY <1>1, <1>3, <2>4 DEF Offsets
    <3>2. L(k)[a + 1] = "!" /\ (a = 2 => L(k)[0 + 1] = "hdr")
      BY <1>2, <2>4, LineParts
    <3> HIDE DEF a
    <3> QED
      BY <2>2, <2>4, <3>1, <3>2
  <2> QED
    BY <2>3, <2>4
<1>7. \A d \in 0 .. 6 : o + d < l =>
         Kind(s + d) = IF s + d < n THEN L(k)[o + d + 1] ELSE "none"
  <2> SUFFICES ASSUME NEW d \in 0 .. 6, o + d < Len(L(k))
               PROVE  Kind(s + d) = IF s + d < n THEN L(k)[o + d + 1] ELSE "none"
    BY DEF l
  <2>1. d \in Nat
    OBVIOUS
  <2>2. s + d < n => Kind(s + d) = L(k)[o + d + 1]
    BY <2>1, KindInLine DEF n
  <2>3. s + d >= n => Kind(s + d) = "none"
    BY <2>1, KindInLine DEF n
  <2> QED
    BY <1>1, <2>2, <2>3
<1>8. ASSUME SentenceSize(s) # 0 PROVE nmeaData[s + 1].line = k
  <2>1. s + 0 < n /\ o + 0 < l /\ s + 0 + 1 = s + 1
    BY <1>1, <1>3, <1>5, <1>6, <1>8
  <2>2. nmeaData[s + 0 + 1].line = k
    BY <2>1, KindInLine DEF n, l
  <2> QED
    BY <2>1, <2>2
<1>9. ASSUME IsSentence(k)
      PROVE  L(k)[a + 7] = (IF e = 1 THEN "lf" ELSE "cr") /\ (e = 2 => L(k)[a + 8] = "lf")
  <2>1. \A i \in 1 .. e : L(k)[a + 6 + i] = LineEnd[i]
    BY <1>2, <1>9, LineParts DEF e
  <2>2. LineEnd[1] = (IF e = 1 THEN "lf" ELSE "cr") /\ (e = 2 => LineEnd[2] = "lf")
    BY LineEndIs DEF e
  <2>3. a + 6 + 1 = a + 7 /\ a + 6 + 2 = a + 8 /\ 1 \in 1 .. e /\ (e = 2 => 2 \in 1 .. e)
    BY <1>3
  <2> HIDE DEF a
  <2> QED
    BY <2>1, <2>2, <2>3
<1>10. ASSUME SentenceSize(s) # 0
       PROVE  Skip(Skip(s + 5, "cr"), "lf") = s + 5 + e
  <2>1. /\ o + 5 < l /\ o + 5 + 1 = a + 7 /\ s + 5 < n
        /\ e = 2 => o + 6 < l /\ o + 6 + 1 = a + 8 /\ s + 6 < n
    BY <1>1, <1>3, <1>5, <1>6, <1>10
  <2>2. Kind(s + 5) = L(k)[o + 5 + 1]
    BY <1>7, <2>1
  <2>3. e = 2 => Kind(s + 6) = L(k)[o + 6 + 1]
    BY <1>7, <2>1
  <2>4. Kind(s + 5) = (IF e = 1 THEN "lf" ELSE "cr") /\ (e = 2 => Kind(s + 6) = "lf")
    BY <1>6, <1>9, <1>10, <2>1, <2>2, <2>3
  <2>5. CASE e = 1
    <3>1. Skip(s + 5, "cr") = s + 5
      BY <2>4, <2>5 DEF Skip
    <3>2. Skip(s + 5, "lf") = s + 5 + 1
      BY <2>4, <2>5 DEF Skip
    <3> QED
      BY <2>5, <3>1, <3>2
  <2>6. CASE e = 2
    <3>1. Skip(s + 5, "cr") = s + 5 + 1
      BY <2>4, <2>6 DEF Skip
    <3>2. s + 5 + 1 = s + 6 /\ s + 6 + 1 = s + 5 + 2
      BY <1>1
    <3>3. Skip(s + 6, "lf") = s + 6 + 1
      BY <2>4, <2>6 DEF Skip
    <3> QED
      BY <2>6, <3>1, <3>2, <3>3
  <2> QED
    BY <1>3, <2>5, <2>6
<1>11. ASSUME SentenceSize(s) # 0
       PROVE  s + 5 + e \in 0 .. n /\ pos - (n - (s + 5 + e)) = B(k)
  BY <1>1, <1>3, <1>5, <1>6, <1>11
<1>12. ASSUME LineEnd = <<"cr", "lf">>, IsSentence(k), o = a + 1, B(k) <= pos
       PROVE  SentenceSize(s) # 0
  <2>1. e = 2
    BY <1>12, LineEndIs DEF e
  <2>2. s + 6 < n /\ o + 1 < l /\ o + 0 < l /\ o + 0 + 1 = a + 2 /\ o + 1 + 1 = a + 3
    BY <1>1, <1>3, <1>12, <2>1
  <2>3. Kind(s + 0) = L(k)[o + 0 + 1] /\ Kind(s + 1) = L(k)[o + 1 + 1] /\ s + 0 = s
    BY <1>1, <1>7, <2>2
  <2>4. L(k)[a + 2] = "talker" /\ L(k)[a + 3] = "payload"
    BY <1>2, <1>12, LineParts
  <2>5. Kind(s) = "talker" /\ Kind(s + 1) = "payload" /\ ~(s + 2 + 4 >= n)
    BY <1>1, <2>2, <2>3, <2>4
  <2> QED
    BY <1>4, <2>5 DEF SentenceSize, n
<1>13. ASSUME SentenceSize(s) # 0 PROVE IsSentence(k) /\ SentenceSize(s) = 5
  BY <1>5, <1>6, <1>13
<1> QED
  BY <1>8, <1>10, <1>11, <1>12, <1>13 DEF n
-----------------------------------------------------------------------------
(* Fragments.                                                              *)

LEMMA FragmentsOf ==
  ASSUME NEW o \in Seq(Seq(Fragment)), NEW c \in Seq(Fragment)
  PROVE  /\ FlattenSeq(o) \o c \in Seq(Fragment)
         /\ FlattenSeq(Append(o, c)) \o <<>> = FlattenSeq(o) \o c
<1> DEFINE g == FlattenSeq(o)
<1>1. g \in Seq(Fragment) /\ FlattenSeq(Append(o, c)) = g \o c
  BY FlattenStep
<1> HIDE DEF g
<1>2. g \o c \in Seq(Fragment)
  BY <1>1
<1>3. (g \o c) \o <<>> = g \o c
  BY <1>2, ConcatEmptySeq
<1> QED
  BY <1>1, <1>2, <1>3 DEF g

LEMMA FragmentsPush ==
  ASSUME NEW o \in Seq(Seq(Fragment)), NEW c \in Seq(Fragment), NEW f \in Fragment
  PROVE  FlattenSeq(o) \o Append(c, f) = Append(FlattenSeq(o) \o c, f)
<1> DEFINE g == FlattenSeq(o)
<1>1. g \in Seq(Fragment)
  BY FlattenStep
<1> HIDE DEF g
<1>2. g \o c \in Seq(Fragment)
  BY <1>1
<1>3. Append(c, f) = c \o <<f>> /\ Append(g \o c, f) = (g \o c) \o <<f>>
  BY <1>2, AppendIsConcat
<1>4. <<f>> \in Seq(Fragment)
  OBVIOUS
<1>5. g \o Append(c, f) = Append(g \o c, f)
  BY <1>1, <1>3, <1>4, ConcatAssociative
<1> QED
  BY <1>5 DEF g

\* The file does not change, and the buffer's ends are only added to.
LEMMA Frame ==
  ASSUME lines' = lines, cuts \subseteq cuts'
  PROVE  /\ \A k : Tokens(k)' = Tokens(k) /\ B(k)' = B(k) /\ L(k)' = L(k)
         /\ \A k : Offsets(k)' = Offsets(k) /\ (IsSentence(k)' <=> IsSentence(k))
         /\ \A k : Cut(k) => Cut(k)'
         /\ File' = File
<1>1. \A k : Tokens(k)' = Tokens(k)
  BY DEF Tokens
<1>2. \A k : B(k)' = B(k) /\ L(k)' = L(k)
  BY <1>1 DEF B, L
<1>3. \A k : IsSentence(k)' <=> IsSentence(k)
  BY DEF IsSentence
<1>4. \A k : Offsets(k)' = Offsets(k)
  BY <1>3 DEF Offsets, Lead
<1>5. \A k : Cut(k) => Cut(k)'
  BY <1>1 DEF Cut
<1>6. File' = File
  BY <1>1 DEF File
<1> QED
  BY <1>1, <1>2, <1>3, <1>4, <1>5, <1>6

\* Nothing is output.
LEMMA TakenKept ==
  ASSUME lines' = lines, cuts \subseteq cuts', Fragments' = Fragments,
         Fragments \in Seq(Fragment), NEW k, Taken(k)
  PROVE  Taken(k)'
<1>1. \A j : (IsSentence(j)' <=> IsSentence(j)) /\ (Cut(j) => Cut(j)')
  BY Frame
<1>2. TimestampsKept'
  BY <1>1 DEF Taken, TimestampsKept
<1> QED
  BY <1>1, <1>2 DEF Taken

\* A line that is no sentence is skipped.
LEMMA TakenSkip ==
  ASSUME NEW k \in Nat \ {0}, Taken(k), LineEnd = <<"cr", "lf">> => ~ IsSentence(k)
  PROVE  Taken(k + 1)
<1>1. k + 1 - 1 = k /\ \A j \in 1 .. k : j \in 1 .. k - 1 \/ j = k
  OBVIOUS
<1>2. \A j \in 1 .. k - 1 : j \in 1 .. k
  OBVIOUS
<1> QED
  BY <1>1, <1>2 DEF Taken

\* The time of a fragment, as TimestampsKept wants it.
StampRight(f) ==
  /\ f.stamped => lines[f.line] = "tagged" /\ HeaderTime[f.line] # "none"
  /\ lines[f.line] = "tagged" /\ HeaderTime[f.line] = "field" /\ ~ Cut(f.line) => f.stamped

\* A sentence is output.
LEMMA TakenNext ==
  ASSUME lines' = lines, cuts \subseteq cuts', Fragments \in Seq(Fragment),
         NEW k \in Nat \ {0}, Taken(k), IsSentence(k),
         NEW f \in Fragment, Fragments' = Append(Fragments, f), f.line = k,
         f.stamped => lines[k] = "tagged" /\ HeaderTime[k] # "none",
         lines[k] = "tagged" /\ HeaderTime[k] = "field" /\ ~ Cut(k) => f.stamped
  PROVE  Taken(k + 1)'
<1> DEFINE F == Fragments
           G == Fragments'
           n == Len(F)
<1>1. /\ n \in Nat /\ DOMAIN F = 1 .. n /\ DOMAIN G = 1 .. n + 1
      /\ G[n + 1] = f /\ \A i \in 1 .. n : G[i] = F[i]
  OBVIOUS
<1>2. \A j : (IsSentence(j)' <=> IsSentence(j)) /\ (Cut(j) => Cut(j)')
  BY Frame
<1>3. /\ \A i \in 1 .. n : F[i].line \in 1 .. k - 1 /\ IsSentence(F[i].line)
      /\ \A i, j \in 1 .. n : i < j => F[i].line < F[j].line
      /\ LineEnd = <<"cr", "lf">> =>
           \A j \in 1 .. k - 1 : IsSentence(j) => \E i \in 1 .. n : F[i].line = j
      /\ \A i \in 1 .. n : StampRight(F[i])
  BY <1>1 DEF Taken, TimestampsKept, StampRight
<1> HIDE DEF F, G, n
<1>4. \A i \in 1 .. n + 1 : i \in 1 .. n \/ i = n + 1
  BY <1>1
<1>5. \A i \in 1 .. n + 1 : G[i].line \in 1 .. k /\ IsSentence(G[i].line)
  BY <1>1, <1>3, <1>4
<1>6. \A i, j \in 1 .. n + 1 : i < j => G[i].line < G[j].line
  <2> SUFFICES ASSUME NEW i \in 1 .. n + 1, NEW j \in 1 .. n + 1, i < j
               PROVE  G[i].line < G[j].line
    OBVIOUS
  <2>1. i \in 1 .. n
    BY <1>1
  <2>2. CASE j \in 1 .. n
    BY <1>1, <1>3, <2>1, <2>2
  <2>3. CASE j = n + 1
    BY <1>1, <1>3, <2>1, <2>3
  <2> QED
    BY <1>4, <2>2, <2>3
<1>7. ASSUME LineEnd = <<"cr", "lf">>, NEW j \in 1 .. k, IsSentence(j)
      PROVE  \E i \in 1 .. n + 1 : G[i].line = j
  <2>1. n + 1 \in 1 .. n + 1 /\ \A i \in 1 .. n : i \in 1 .. n + 1
    BY <1>1
  <2>2. CASE j = k
    BY <1>1, <2>1, <2>2
  <2>3. CASE j # k
    <3>1. j \in 1 .. k - 1
      BY <2>3
    <3>2. PICK i \in 1 .. n : F[i].line = j
      BY <1>3, <1>7, <3>1
    <3>3. i \in 1 .. n + 1 /\ G[i].line = j
      BY <1>1, <2>1, <3>2
    <3> QED
      BY <3>3
  <2> QED
    BY <2>2, <2>3
<1>8. \A i \in 1 .. n + 1 : StampRight(G[i])
  <2>1. StampRight(f)
    BY DEF StampRight
  <2> QED
    BY <1>1, <1>3, <1>4, <2>1
<1>9. TimestampsKept'
  BY <1>1, <1>2, <1>8 DEF TimestampsKept, StampRight, G
<1>10. k + 1 - 1 = k
  OBVIOUS
<1> QED
  BY <1>1, <1>2, <1>5, <1>6, <1>7, <1>9, <1>10 DEF Taken, G-----------------------------------------------------------------------------
(* The invariant.                                                          *)

LEMMA Placed ==
  ASSUME ReaderInv
  PROVE  /\ Sound /\ Fragments \in Seq(Fragment) /\ Len(File) \in Nat /\ Len(nmeaData) \in Nat
         /\ \E k \in 1 .. Len(lines) + 1 :
              /\ Taken(k)
              /\ \E o \in Offsets(k) : /\ At(k, o) /\ o \in Nat
                                       /\ pData < Len(nmeaData) => Into(pData, k, o)
<1>1. Sound
  BY DEF ReaderInv, Sound, TypeOK
<1>2. Fragments \in Seq(Fragment)
  BY FragmentsOf DEF ReaderInv, TypeOK, Fragments
<1>3. PICK k \in 1 .. Len(lines) + 1 : Taken(k) /\ \E o \in Offsets(k) : At(k, o)
  BY DEF ReaderInv
<1>4. PICK o \in Offsets(k) : At(k, o)
  BY <1>3
<1>5. o \in Nat
  BY HeaderIs DEF Offsets, Lead
<1>6. Len(File) \in Nat /\ Len(File) = B(Len(lines)) /\ Len(nmeaData) \in Nat
      /\ pos \in 0 .. Len(File) /\ pData \in 0 .. Len(nmeaData)
  BY <1>1, FileSeq DEF Sound, Buffered, ReaderInv, TypeOK
<1>7. ASSUME pData < Len(nmeaData) PROVE Into(pData, k, o)
  <2>1. pos - (Len(nmeaData) - pData) = B(k - 1) + o
    BY <1>4 DEF At, Used
  <2>2. k # Len(lines) + 1
    <3>1. Len(lines) \in Nat
      BY <1>1 DEF Sound
    <3>2. ASSUME k = Len(lines) + 1 PROVE FALSE
      <4>1. o = 0 /\ B(k - 1) = Len(File)
        BY <1>6, <3>1, <3>2 DEF Offsets
      <4> QED
        BY <1>6, <1>7, <2>1, <4>1
    <3> QED
      BY <3>2
  <2>3. k \in 1 .. Len(lines)
    BY <2>2
  <2> QED
    BY <1>5, <1>6, <2>1, <2>3 DEF Into
<1> QED
  BY <1>1, <1>2, <1>3, <1>4, <1>5, <1>6, <1>7

LEMMA InitHolds == Init => ReaderInv
<1> SUFFICES ASSUME Init PROVE ReaderInv
  OBVIOUS
<1>1. lines \in Seq(Shapes) /\ Len(lines) <= MaxLines
  <2>1. PICK n \in 0 .. MaxLines : lines \in [1 .. n -> Shapes]
    BY DEF Init
  <2>2. n \in Nat
    BY ReaderAssumption
  <2> QED
    BY <2>1, <2>2
<1>2. Len(File) \in Nat /\ Len(lines) \in Nat
  BY <1>1, FileSeq
<1>3. nmeaData = <<>> /\ chunk = <<>> /\ out = <<>> /\ pos = 0 /\ pData = 0 /\ cuts = {}
      /\ pc = "read" /\ feof = FALSE /\ exists \in BOOLEAN
  BY DEF Init
<1>4. <<>> \in Seq(Fragment) /\ <<>> \in Seq(Seq(Fragment)) /\ <<>> \in Seq(Token)
      /\ Len(<<>>) = 0
  OBVIOUS
<1>5. TypeOK
  <2>1. Len(nmeaData) = 0 /\ BufferSize \in Nat
    BY <1>3, <1>4, ReaderAssumption
  <2>2. chunk \in Seq(Fragment) /\ out \in Seq(Seq(Fragment))
    BY <1>3, <1>4
  <2>3. pos \in 0 .. Len(File) /\ Len(nmeaData) <= BufferSize /\ pData \in 0 .. Len(nmeaData)
    BY <1>2, <1>3, <2>1
  <2> QED
    BY <1>1, <1>3, <2>2, <2>3 DEF TypeOK
<1>6. Buffered
  BY <1>3, <1>4 DEF Buffered
<1>7. ChunksWellFormed /\ ~ full(chunk)
  BY <1>3, <1>4, ReaderAssumption DEF ChunksWellFormed, full
<1>8. Fragments = <<>>
  <2>1. FlattenSeq(<<>>) = <<>>
    BY DEF FlattenSeq
  <2>2. <<>> \o <<>> = <<>>
    BY <1>4, ConcatEmptySeq
  <2> QED
    BY <1>3, <2>1, <2>2 DEF Fragments
<1>9. Taken(1)
  <2>1. DOMAIN Fragments = {}
    BY <1>8
  <2> QED
    BY <2>1 DEF Taken, TimestampsKept
<1>10. At(1, 0) /\ 0 \in Offsets(1) /\ 1 \in 1 .. Len(lines) + 1
  <2>1. 0 \in Offsets(1) /\ 1 \in 1 .. Len(lines) + 1
    BY <1>2 DEF Offsets
  <2>2. Tokens(0) = <<>>
    BY DEF Tokens, FlattenSeq
  <2>3. B(1 - 1) = 0
    BY <2>2 DEF B
  <2> QED
    BY <1>3, <1>4, <2>1, <2>3 DEF At, Used
<1> QED
  BY <1>3, <1>5, <1>6, <1>7, <1>9, <1>10 DEF ReaderInv
LEMMA ReadHolds ==
  ASSUME ReaderInv, Read
  PROVE  ReaderInv'
<1> DEFINE room == BufferSize - Len(nmeaData)
           rest == IF exists THEN Len(File) - pos ELSE 0
           n    == IF room <= rest THEN room ELSE rest
           new  == SubSeq(File, pos + 1, pos + n)
           l    == Len(nmeaData)
<1>1. /\ Sound /\ Fragments \in Seq(Fragment) /\ Len(File) \in Nat /\ l \in Nat
      /\ File \in Seq(Token) /\ nmeaData \in Seq(Token) /\ l <= pos
  BY Placed, FileSeq DEF Sound, Buffered
<1>2. /\ pos \in 0 .. Len(File) /\ l <= BufferSize /\ BufferSize \in Nat /\ pData = 0
      /\ chunk \in Seq(Fragment) /\ out \in Seq(Seq(Fragment)) /\ exists \in BOOLEAN
      /\ cuts \subseteq 0 .. pos /\ lines \in Seq(Shapes) /\ Len(lines) <= MaxLines
  BY ReaderAssumption DEF ReaderInv, TypeOK, Read
<1>3. /\ lines' = lines /\ exists' = exists /\ chunk' = chunk /\ out' = out
      /\ pos' = pos + n /\ cuts' = cuts \cup {pos + n} /\ pData' = 0 /\ pc' = "process"
      /\ nmeaData' = nmeaData \o new /\ feof' \in BOOLEAN
  BY DEF Read
<1> HIDE DEF l
<1>4. n \in Nat /\ pos + n <= Len(File) /\ l + n <= BufferSize
  BY <1>1, <1>2 DEF l
<1> HIDE DEF n
<1>5. new \in Seq(Token) /\ Len(new) = n /\ \A i \in 1 .. n : new[i] = File[pos + i]
  BY <1>1, <1>2, <1>4
<1> HIDE DEF new
<1>6. /\ nmeaData' \in Seq(Token) /\ Len(nmeaData') = l + n
      /\ \A i \in 1 .. l : nmeaData'[i] = nmeaData[i]
      /\ \A i \in 1 .. n : nmeaData'[l + i] = new[i]
  <2>1. nmeaData \in Seq(Token) /\ new \in Seq(Token)
    BY <1>1, <1>5
  <2>2. /\ nmeaData \o new \in Seq(Token)
        /\ Len(nmeaData \o new) = l + Len(new)
        /\ \A i \in 1 .. l : (nmeaData \o new)[i] = nmeaData[i]
        /\ \A i \in 1 .. Len(new) : (nmeaData \o new)[l + i] = new[i]
    BY <2>1, Joined DEF l
  <2> QED
    BY <1>3, <1>5, <2>2
<1>7. cuts \subseteq cuts' /\ File' = File /\ Fragments' = Fragments
  <2>1. cuts \subseteq cuts'
    BY <1>3
  <2> QED
    BY <1>3, <2>1, Frame DEF Fragments
<1>8. TypeOK'
  <2>1. cuts' \subseteq 0 .. pos'
    BY <1>1, <1>2, <1>3, <1>4
  <2>2. pos' \in 0 .. Len(File') /\ Len(nmeaData') <= BufferSize /\ pData' \in 0 .. Len(nmeaData')
    BY <1>1, <1>2, <1>3, <1>4, <1>6, <1>7
  <2> QED
    BY <1>2, <1>3, <2>1, <2>2 DEF TypeOK
<1>9. Buffered'
  <2>1. Len(nmeaData') <= pos' /\ pos' - Len(nmeaData') = pos - l
    BY <1>1, <1>2, <1>3, <1>4, <1>6
  <2>2. \A i \in 1 .. l + n : nmeaData'[i] = File[pos - l + i]
    <3> SUFFICES ASSUME NEW i \in 1 .. l + n PROVE nmeaData'[i] = File[pos - l + i]
      OBVIOUS
    <3>1. CASE i \in 1 .. l
      BY <1>1, <1>6, <3>1 DEF Sound, Buffered, l
    <3>2. CASE i \notin 1 .. l
      <4>1. i - l \in 1 .. n /\ l + (i - l) = i /\ pos + (i - l) = pos - l + i
        BY <1>1, <1>2, <1>4, <3>2
      <4>2. nmeaData'[l + (i - l)] = File[pos + (i - l)]
        BY <1>5, <1>6, <4>1
      <4> QED
        BY <4>1, <4>2
    <3> QED
      BY <3>1, <3>2
  <2> QED
    BY <1>6, <1>7, <2>1, <2>2 DEF Buffered
<1>10. ChunksWellFormed' /\ ~ full(chunk)'
  BY <1>3 DEF ReaderInv, ChunksWellFormed, full
<1>11. PICK k \in 1 .. Len(lines) + 1 : Taken(k) /\ \E o \in Offsets(k) : At(k, o)
  BY Placed
<1>12. PICK o \in Offsets(k) : At(k, o)
  BY <1>11
<1>13. Taken(k)'
  BY <1>1, <1>3, <1>7, <1>11, TakenKept
<1>14. At(k, o)' /\ o \in Offsets(k)'
  <2>1. Offsets(k)' = Offsets(k) /\ B(k - 1)' = B(k - 1) /\ (Cut(k) => Cut(k)')
    BY <1>3, <1>7, Frame
  <2>2. Used' = Used
    BY <1>1, <1>2, <1>3, <1>4, <1>6 DEF Used, l
  <2> QED
    BY <1>3, <1>12, <2>1, <2>2 DEF At
<1>15. pos' \in cuts' /\ pc' = "process"
  BY <1>3
<1> QED
  BY <1>3, <1>8, <1>9, <1>10, <1>11, <1>13, <1>14, <1>15 DEF ReaderInv

LEMMA FinishHolds ==
  ASSUME ReaderInv, Finish
  PROVE  ReaderInv'
<1>1. /\ lines' = lines /\ exists' = exists /\ chunk' = chunk /\ out' = out /\ pos' = pos
      /\ cuts' = cuts /\ pData' = pData /\ nmeaData' = nmeaData /\ feof' = feof
      /\ pc = "read" /\ pc' = "finished"
  BY DEF Finish
<1>2. cuts \subseteq cuts' /\ File' = File /\ Fragments' = Fragments
  BY <1>1, Frame DEF Fragments
<1>3. TypeOK'
  BY <1>1, <1>2 DEF ReaderInv, TypeOK
<1>4. Buffered'
  BY <1>1, <1>2 DEF ReaderInv, Buffered
<1>5. ChunksWellFormed' /\ ~ full(chunk)' /\ pData' = 0
  BY <1>1 DEF ReaderInv, ChunksWellFormed, full
<1>6. PICK k \in 1 .. Len(lines) + 1 : Taken(k) /\ \E o \in Offsets(k) : At(k, o)
  BY Placed
<1>7. PICK o \in Offsets(k) : At(k, o)
  BY <1>6
<1>8. Taken(k)'
  BY <1>1, <1>2, <1>6, TakenKept, Placed
<1>9. At(k, o)' /\ o \in Offsets(k)'
  <2>1. Offsets(k)' = Offsets(k) /\ B(k - 1)' = B(k - 1) /\ (Cut(k) => Cut(k)')
    BY <1>1, <1>2, Frame
  <2> QED
    BY <1>1, <1>7, <2>1 DEF At, Used
<1> QED
  BY <1>1, <1>3, <1>4, <1>5, <1>6, <1>8, <1>9 DEF ReaderInv
\* The steps of processNmeaData leave the file and the buffer alone; what is left to
\* show of them.
LEMMA Processed ==
  ASSUME ReaderInv, UNCHANGED <<lines, exists, pos, feof, nmeaData, cuts>>,
         pData' \in 0 .. Len(nmeaData), pc' \in {"process", "return"}, pc = "process",
         chunk' \in Seq(Fragment), out' \in Seq(Seq(Fragment)),
         ~ full(chunk)', ChunksWellFormed',
         NEW k \in 1 .. Len(lines) + 1, NEW o \in Offsets(k), Taken(k)',
         pos - (Len(nmeaData) - pData') = B(k - 1) + o,
         o > 0 /\ lines[k] = "tagged" => Cut(k)
  PROVE  ReaderInv'
<1>1. cuts \subseteq cuts'
  OBVIOUS
<1>2. Offsets(k)' = Offsets(k) /\ B(k - 1)' = B(k - 1) /\ (Cut(k) => Cut(k)') /\ File' = File
  BY <1>1, Frame
<1>3. TypeOK'
  BY <1>2 DEF ReaderInv, TypeOK
<1>4. Buffered'
  BY <1>2 DEF ReaderInv, Buffered
<1>5. At(k, o)' /\ o \in Offsets(k)'
  BY <1>2 DEF At, Used
<1>6. pos' \in cuts'
  BY DEF ReaderInv
<1> QED
  BY <1>3, <1>4, <1>5, <1>6 DEF ReaderInv

LEMMA OffsetInLine ==
  ASSUME lines \in Seq(Shapes), NEW k \in 1 .. Len(lines), NEW o \in Offsets(k)
  PROVE  o < Len(L(k))
<1>1. Len(L(k)) \in Nat \ {0} /\ Lead(k) \in {0, 2}
  BY LineParts
<1>2. IsSentence(k) => Len(L(k)) = Lead(k) + 6 + Len(LineEnd)
  BY LineParts
<1>3. Len(LineEnd) \in 1 .. 2
  BY LineEndIs
<1> QED
  BY <1>1, <1>2, <1>3 DEF Offsets

LEMMA SkipLineHolds ==
  ASSUME ReaderInv, SkipLine
  PROVE  ReaderInv'
<1> DEFINE s == Start(pData)
<1>1. /\ pc = "process" /\ pData < Len(nmeaData) /\ SentenceSize(s) = 0
      /\ LineFeeds(s) # {} /\ pData' = 1 + Min(LineFeeds(s))
      /\ UNCHANGED <<lines, exists, pos, feof, nmeaData, cuts>> /\ chunk' = chunk /\ out' = out
      /\ pc' = pc
  BY DEF SkipLine
<1>2. Sound /\ Fragments \in Seq(Fragment)
  BY Placed
<1>3. PICK k \in 1 .. Len(lines) + 1 :
         Taken(k) /\ \E o \in Offsets(k) : At(k, o) /\ Into(pData, k, o)
  BY <1>1, Placed
<1>4. PICK o \in Offsets(k) : At(k, o) /\ Into(pData, k, o)
  BY <1>3
<1> DEFINE oo == o + (s - pData)
<1>5. /\ Into(s, k, oo) /\ oo \in Offsets(k)
      /\ IsSentence(k) /\ B(k) <= pos => oo = Lead(k) + 1
  BY <1>1, <1>2, <1>4, StartInLine
<1> HIDE DEF s, oo
<1>6. oo < Len(L(k))
  <2>1. k \in 1 .. Len(lines) /\ lines \in Seq(Shapes)
    BY <1>2, <1>5, Numbers
  <2> QED
    BY <1>5, <2>1, OffsetInLine
<1>7. B(k) <= pos
  BY <1>1, <1>2, <1>5, <1>6, LineFeedOf
<1>8. pData' \in 0 .. Len(nmeaData) /\ pos - (Len(nmeaData) - pData') = B(k)
  <2>1. /\ 1 + Min(LineFeeds(s)) \in 0 .. Len(nmeaData)
        /\ pos - (Len(nmeaData) - (1 + Min(LineFeeds(s)))) = B(k)
    BY <1>2, <1>5, <1>6, <1>7, LineFeedOf
  <2> QED
    BY <1>1, <2>1
<1>9. LineEnd = <<"cr", "lf">> => ~ IsSentence(k)
  BY <1>1, <1>2, <1>5, <1>7, SentenceOf
<1>10. k \in 1 .. Len(lines) /\ Len(lines) \in Nat
  BY <1>2, <1>4, Numbers DEF Sound
<1>11. Taken(k + 1)'
  <2>1. Taken(k + 1)
    BY <1>3, <1>9, <1>10, TakenSkip
  <2>2. Fragments' = Fragments
    BY <1>1 DEF Fragments
  <2>3. lines' = lines /\ cuts \subseteq cuts'
    BY <1>1
  <2> QED
    BY <1>2, <2>1, <2>2, <2>3, TakenKept
<1>12. k + 1 \in 1 .. Len(lines) + 1 /\ 0 \in Offsets(k + 1) /\ B(k + 1 - 1) + 0 = B(k)
  <2>1. k + 1 \in 1 .. Len(lines) + 1 /\ k + 1 - 1 = k
    BY <1>10
  <2>2. B(k) \in Nat
    BY <1>2, <1>4, Numbers
  <2> QED
    BY <2>1, <2>2 DEF Offsets
<1>13. chunk' \in Seq(Fragment) /\ out' \in Seq(Seq(Fragment)) /\ ~ full(chunk)' /\ ChunksWellFormed'
  BY <1>1 DEF ReaderInv, TypeOK, ChunksWellFormed, full
<1>14. pos - (Len(nmeaData) - pData') = B(k + 1 - 1) + 0
  BY <1>8, <1>12
<1> DEFINE m == k + 1
<1>15. /\ m \in 1 .. Len(lines) + 1 /\ 0 \in Offsets(m) /\ Taken(m)'
       /\ pos - (Len(nmeaData) - pData') = B(m - 1) + 0
       /\ 0 > 0 /\ lines[m] = "tagged" => Cut(m)
  BY <1>11, <1>12, <1>14
<1>16. pc = "process" /\ pc' \in {"process", "return"}
       /\ UNCHANGED <<lines, exists, pos, feof, nmeaData, cuts>>
  BY <1>1
<1> HIDE DEF m
<1> QED
  BY <1>8, <1>13, <1>15, <1>16, Processed
LEMMA BreakLineHolds ==
  ASSUME ReaderInv, BreakLine
  PROVE  ReaderInv'
<1> DEFINE s == Start(pData)
<1>1. /\ pc = "process" /\ pData < Len(nmeaData) /\ SentenceSize(s) = 0
      /\ LineFeeds(s) = {} /\ pData' = s
      /\ UNCHANGED <<lines, exists, pos, feof, nmeaData, cuts>> /\ chunk' = chunk /\ out' = out
      /\ pc' = "return"
  BY DEF BreakLine
<1>2. Sound /\ Fragments \in Seq(Fragment)
  BY Placed
<1>3. PICK k \in 1 .. Len(lines) + 1 :
         Taken(k) /\ \E o \in Offsets(k) : At(k, o) /\ Into(pData, k, o)
  BY <1>1, Placed
<1>4. PICK o \in Offsets(k) : At(k, o) /\ Into(pData, k, o)
  BY <1>3
<1> DEFINE oo == o + (s - pData)
<1>5. /\ Into(s, k, oo) /\ oo \in Offsets(k)
      /\ lines[k] = "tagged" /\ o = 0 /\ oo > 0 => B(k - 1) + Len(Header) <= pos
  BY <1>1, <1>2, <1>4, StartInLine
<1> HIDE DEF s, oo
<1>6. oo < Len(L(k))
  <2>1. k \in 1 .. Len(lines) /\ lines \in Seq(Shapes)
    BY <1>2, <1>5, Numbers
  <2> QED
    BY <1>5, <2>1, OffsetInLine
<1>7. pos < B(k)
  <2>1. ~(B(k) <= pos)
    BY <1>1, <1>2, <1>5, <1>6, LineFeedOf
  <2>2. B(k) \in Nat /\ pos \in Nat
    BY <1>2, <1>5, Numbers
  <2> QED
    BY <2>1, <2>2
<1>8. oo > 0 /\ lines[k] = "tagged" => Cut(k)
  <2>1. CASE o = 0
    <3>1. pos \in cuts
      BY <1>1 DEF ReaderInv
    <3> QED
      BY <1>5, <1>7, <2>1, <3>1 DEF Cut, B
  <2>2. CASE o # 0
    <3>1. o > 0
      BY <1>4, <2>2 DEF Into
    <3> QED
      BY <1>4, <3>1 DEF At
  <2> QED
    BY <2>1, <2>2
<1>9. Taken(k)'
  <2>1. Fragments' = Fragments /\ lines' = lines /\ cuts \subseteq cuts'
    BY <1>1 DEF Fragments
  <2> QED
    BY <1>2, <1>3, <2>1, TakenKept
<1>10. pData' \in 0 .. Len(nmeaData) /\ pos - (Len(nmeaData) - pData') = B(k - 1) + oo
  BY <1>1, <1>5 DEF Into
<1>11. chunk' \in Seq(Fragment) /\ out' \in Seq(Seq(Fragment)) /\ ~ full(chunk)' /\ ChunksWellFormed'
  BY <1>1 DEF ReaderInv, TypeOK, ChunksWellFormed, full
<1>12. pc = "process" /\ pc' \in {"process", "return"}
       /\ UNCHANGED <<lines, exists, pos, feof, nmeaData, cuts>>
  BY <1>1
<1> QED
  BY <1>3, <1>5, <1>8, <1>9, <1>10, <1>11, <1>12, Processed

\* A fragment is put in a chunk that has room; a full chunk is output.
LEMMA PushHolds ==
  ASSUME ReaderInv, NEW f \in Fragment,
         Output(f)
  PROVE  /\ chunk' \in Seq(Fragment) /\ out' \in Seq(Seq(Fragment))
         /\ ~ full(chunk)' /\ ChunksWellFormed'
         /\ Fragments' = Append(Fragments, f)
<1> DEFINE filled == Append(chunk, f)
<1>1. chunk \in Seq(Fragment) /\ out \in Seq(Seq(Fragment)) /\ ~ full(chunk)
      /\ \A i \in DOMAIN out : Len(out[i]) \in 1 .. ChunkSize
  BY DEF ReaderInv, TypeOK, ChunksWellFormed
<1>2. push_back(chunk, f) = filled
  BY <1>1 DEF push_back
<1>3. filled \in Seq(Fragment) /\ Len(filled) = Len(chunk) + 1 /\ Len(chunk) \in Nat
  BY <1>1
<1>4. Len(filled) \in 1 .. ChunkSize /\ ChunkSize \in Nat \ {0}
  BY <1>1, <1>3, ReaderAssumption DEF full
<1>5. FlattenSeq(out) \o filled = Append(Fragments, f)
  BY <1>1, FragmentsPush DEF Fragments
<1> HIDE DEF filled
<1>6. CASE full(filled)
  <2>1. out' = Append(out, filled) /\ chunk' = <<>>
    BY <1>2, <1>6 DEF Output
  <2>2. out' \in Seq(Seq(Fragment)) /\ chunk' \in Seq(Fragment)
    BY <1>1, <1>3, <2>1
  <2>3. ~ full(chunk)'
    <3>1. Len(chunk') = 0
      BY <2>1
    <3> QED
      BY <1>4, <3>1 DEF full
  <2>4. ChunksWellFormed'
    <3>1. \A i \in 1 .. Len(out) + 1 : Len(Append(out, filled)[i]) \in 1 .. ChunkSize
      BY <1>1, <1>3, <1>4
    <3>2. DOMAIN Append(out, filled) = 1 .. Len(out) + 1
      BY <1>1, <1>3
    <3> QED
      BY <2>1, <3>1, <3>2 DEF ChunksWellFormed
  <2>5. Fragments' = FlattenSeq(Append(out, filled)) \o <<>>
    BY <2>1 DEF Fragments
  <2>6. FlattenSeq(Append(out, filled)) \o <<>> = FlattenSeq(out) \o filled
    BY <1>1, <1>3, FragmentsOf
  <2> QED
    BY <1>5, <2>2, <2>3, <2>4, <2>5, <2>6
<1>7. CASE ~ full(filled)
  <2>1. out' = out /\ chunk' = filled
    BY <1>2, <1>7 DEF Output
  <2>2. ~ full(chunk)' /\ ChunksWellFormed'
    BY <1>1, <1>7, <2>1 DEF full, ChunksWellFormed
  <2>3. Fragments' = FlattenSeq(out) \o filled
    BY <2>1 DEF Fragments
  <2> QED
    BY <1>1, <1>3, <1>5, <2>1, <2>2, <2>3
<1> QED
  BY <1>6, <1>7
LEMMA ReadLineHolds ==
  ASSUME ReaderInv, ReadLine
  PROVE  ReaderInv'
<1> DEFINE s == Start(pData)
           next == Skip(Skip(s + SentenceSize(s), "cr"), "lf")
<1>1. /\ pc = "process" /\ pData < Len(nmeaData) /\ SentenceSize(s) > 0 /\ pData' = next
      /\ UNCHANGED <<lines, exists, pos, feof, nmeaData, cuts>> /\ pc' = pc
  BY DEF ReadLine
<1>2. PICK t \in Stamps(pData) : Output([line |-> nmeaData[s + 1].line, stamped |-> t])
  BY DEF ReadLine
<1> DEFINE f == [line |-> nmeaData[s + 1].line, stamped |-> t]
<1>3. Sound /\ Fragments \in Seq(Fragment)
  BY Placed
<1>4. PICK k \in 1 .. Len(lines) + 1 :
         Taken(k) /\ \E o \in Offsets(k) : At(k, o) /\ Into(pData, k, o)
  BY <1>1, Placed
<1>5. PICK o \in Offsets(k) : At(k, o) /\ Into(pData, k, o)
  BY <1>4
<1> DEFINE oo == o + (s - pData)
<1>6. /\ Into(s, k, oo) /\ oo \in Offsets(k)
      /\ IsSentence(k) /\ B(k) <= pos => oo = Lead(k) + 1
      /\ Headed(pData) => lines[k] = "tagged"
      /\ lines[k] = "tagged" /\ o = 0 /\ oo > 0 => Headed(pData)
  BY <1>1, <1>3, <1>5, StartInLine
<1>7. SentenceSize(s) # 0
  BY <1>1
<1> HIDE DEF s, oo
<1>8. /\ IsSentence(k) /\ nmeaData[s + 1].line = k /\ SentenceSize(s) = 5
      /\ Skip(Skip(s + 5, "cr"), "lf") \in 0 .. Len(nmeaData)
      /\ pos - (Len(nmeaData) - Skip(Skip(s + 5, "cr"), "lf")) = B(k)
  BY <1>3, <1>6, <1>7, SentenceOf
<1>9. pData' \in 0 .. Len(nmeaData) /\ pos - (Len(nmeaData) - pData') = B(k)
  BY <1>1, <1>8
<1>10. /\ k \in 1 .. Len(lines) /\ Len(lines) \in Nat /\ Len(nmeaData) \in Nat /\ pos \in Nat
       /\ B(k) \in Nat /\ o \in Nat
  BY <1>3, <1>5, Numbers DEF Sound
<1>11. B(k) <= pos
  BY <1>9, <1>10
<1>12. oo > 0
  <2>1. Lead(k) \in {0, 2}
    BY <1>10, <1>3, LineParts DEF Sound
  <2> QED
    BY <1>6, <1>8, <1>11, <2>1
<1>13. /\ f \in Fragment /\ f.line = k /\ f.stamped = t
       /\ t => Headed(pData) /\ HeaderTime[k] # "none"
       /\ Headed(pData) /\ HeaderTime[k] = "field" => t
  <2>1. k \in 1 .. MaxLines
    BY <1>10, ReaderAssumption DEF ReaderInv, TypeOK
  <2>2. HeaderTime[k] \in {"field", "last", "none"}
    BY <2>1, ReaderAssumption DEF TimeRead
  <2>3. nmeaData[pData + 1].line = k
    BY <1>1, <1>3, <1>5, LineAt
  <2>4. t \in BOOLEAN /\ (t => Headed(pData) /\ HeaderTime[k] # "none")
        /\ (Headed(pData) /\ HeaderTime[k] = "field" => t)
    <3>1. CASE Headed(pData)
      <4>1. t \in TimeRead[HeaderTime[k]]
        BY <1>2, <2>3, <3>1 DEF Stamps, Headed
      <4>2. TimeRead["field"] = {TRUE} /\ TimeRead["last"] = BOOLEAN /\ TimeRead["none"] = {FALSE}
        BY DEF TimeRead
      <4>3. CASE HeaderTime[k] = "field"
        <5>1. t = TRUE /\ HeaderTime[k] # "none"
          BY <4>1, <4>2, <4>3
        <5> QED
          BY <3>1, <5>1, Zenon
      <4>4. CASE HeaderTime[k] = "last"
        <5>1. t \in BOOLEAN /\ HeaderTime[k] # "none" /\ HeaderTime[k] # "field"
          BY <4>1, <4>2, <4>4
        <5> QED
          BY <3>1, <5>1, Zenon
      <4>5. CASE HeaderTime[k] = "none"
        <5>1. t = FALSE /\ HeaderTime[k] # "field"
          BY <4>1, <4>2, <4>5
        <5> QED
          BY <5>1, Zenon
      <4> QED
        BY <2>2, <4>3, <4>4, <4>5
    <3>2. CASE ~ Headed(pData)
      BY <1>2, <3>2 DEF Stamps, Headed
    <3> QED
      BY <3>1, <3>2
  <2> QED
    BY <1>8, <2>1, <2>4 DEF Fragment
<1>14. f.stamped => lines[k] = "tagged" /\ HeaderTime[k] # "none"
  BY <1>6, <1>13
<1>15. lines[k] = "tagged" /\ HeaderTime[k] = "field" /\ ~ Cut(k) => f.stamped
  <2>1. CASE o = 0
    BY <1>6, <1>12, <1>13, <2>1
  <2>2. CASE o # 0
    <3>1. o > 0
      BY <1>10, <2>2
    <3> QED
      BY <1>5, <3>1 DEF At
  <2> QED
    BY <2>1, <2>2
<1> HIDE DEF f
<1>16. /\ chunk' \in Seq(Fragment) /\ out' \in Seq(Seq(Fragment))
       /\ ~ full(chunk)' /\ ChunksWellFormed'
       /\ Fragments' = Append(Fragments, f)
  BY <1>2, <1>13, PushHolds DEF f
<1> DEFINE m == k + 1
<1>17. Taken(m)'
  <2>1. lines' = lines /\ cuts \subseteq cuts' /\ k \in Nat \ {0}
    BY <1>1, <1>10
  <2> QED
    BY <1>3, <1>4, <1>8, <1>13, <1>14, <1>15, <1>16, <2>1, TakenNext
<1>18. /\ m \in 1 .. Len(lines) + 1 /\ 0 \in Offsets(m)
       /\ pos - (Len(nmeaData) - pData') = B(m - 1) + 0
       /\ 0 > 0 /\ lines[m] = "tagged" => Cut(m)
  <2>1. m \in 1 .. Len(lines) + 1 /\ m - 1 = k /\ B(k) + 0 = B(k)
    BY <1>10
  <2> QED
    BY <1>9, <2>1 DEF Offsets
<1>19. pc = "process" /\ pc' \in {"process", "return"}
       /\ UNCHANGED <<lines, exists, pos, feof, nmeaData, cuts>>
  BY <1>1
<1> HIDE DEF m
<1> QED
  BY <1>9, <1>16, <1>17, <1>18, <1>19, Processed

LEMMA ReturnHolds ==
  ASSUME ReaderInv, Return
  PROVE  ReaderInv'
<1> DEFINE l == Len(nmeaData)
           rest == SubSeq(nmeaData, pData + 1, l)
<1>1. /\ UNCHANGED <<lines, exists, pos, feof, cuts>> /\ pData' = 0 /\ pc' = "read"
      /\ chunk' = <<>> /\ out' = (IF chunk = <<>> THEN out ELSE Append(out, chunk))
      /\ nmeaData' = Keep(pData)
  BY DEF Return
<1>2. /\ Sound /\ Fragments \in Seq(Fragment) /\ Len(File) \in Nat /\ l \in Nat
      /\ nmeaData \in Seq(Token) /\ l <= pos
      /\ \A i \in 1 .. l : nmeaData[i] = File[pos - l + i]
  BY Placed DEF Sound, Buffered
<1>3. /\ pos \in 0 .. Len(File) /\ l <= BufferSize /\ BufferSize \in Nat /\ pData \in 0 .. l
      /\ chunk \in Seq(Fragment) /\ out \in Seq(Seq(Fragment)) /\ ~ full(chunk)
      /\ \A i \in DOMAIN out : Len(out[i]) \in 1 .. ChunkSize
  BY ReaderAssumption DEF ReaderInv, TypeOK, ChunksWellFormed
<1>4. cuts \subseteq cuts' /\ File' = File
  <2>1. cuts \subseteq cuts'
    BY <1>1
  <2> QED
    BY <1>1, <2>1, Frame
<1> HIDE DEF l
<1>5. /\ nmeaData' \in Seq(Token) /\ Len(nmeaData') = l - pData
      /\ \A i \in 1 .. l - pData : nmeaData'[i] = nmeaData[pData + i]
  <2>1. CASE pData = 0
    <3>1. nmeaData' = nmeaData
      BY <1>1, <2>1 DEF Keep
    <3> QED
      BY <1>2, <2>1, <3>1 DEF l
  <2>2. CASE pData # 0
    <3>1. nmeaData' = rest
      BY <1>1, <1>3, <2>2 DEF Keep, l
    <3>2. /\ rest \in Seq(Token) /\ Len(rest) = l - pData
          /\ \A i \in 1 .. l - pData : rest[i] = nmeaData[pData + i]
      BY <1>2, <1>3 DEF l
    <3> HIDE DEF rest
    <3> QED
      BY <3>1, <3>2
  <2> QED
    BY <2>1, <2>2
<1>6. Buffered'
  <2>1. l - pData <= pos /\ \A i \in 1 .. l - pData : pData + i \in 1 .. l
        /\ pos - l + (pData + i) = pos - (l - pData) + i
    BY <1>2, <1>3
  <2>2. \A i \in 1 .. l - pData : nmeaData'[i] = File[pos - (l - pData) + i]
    BY <1>2, <1>5, <2>1
  <2> QED
    BY <1>1, <1>4, <1>5, <2>1, <2>2 DEF Buffered
<1>7. /\ chunk' \in Seq(Fragment) /\ out' \in Seq(Seq(Fragment)) /\ Fragments' = Fragments
      /\ ~ full(chunk)' /\ ChunksWellFormed'
  <2>1. ~ full(chunk)' /\ chunk' \in Seq(Fragment)
    <3>1. Len(chunk') = 0 /\ <<>> \in Seq(Fragment)
      BY <1>1
    <3> QED
      BY <1>1, <3>1, ReaderAssumption DEF full
  <2>2. CASE chunk = <<>>
    <3>1. out' = out /\ chunk' = chunk
      BY <1>1, <2>2
    <3> QED
      BY <1>3, <2>1, <3>1 DEF Fragments, ChunksWellFormed
  <2>3. CASE chunk # <<>>
    <3>1. out' = Append(out, chunk) /\ chunk' = <<>>
      BY <1>1, <2>3
    <3>2. Fragments' = Fragments
      BY <1>3, <3>1, FragmentsOf DEF Fragments
    <3>3. Len(chunk) \in 1 .. ChunkSize
      <4>1. Len(chunk) \in Nat \ {0}
        BY <1>3, <2>3
      <4> QED
        BY <1>3, <4>1, ReaderAssumption DEF full
    <3>4. ChunksWellFormed'
      <4>1. \A i \in 1 .. Len(out) + 1 : Len(Append(out, chunk)[i]) \in 1 .. ChunkSize
        BY <1>3, <3>3
      <4>2. DOMAIN Append(out, chunk) = 1 .. Len(out) + 1
        BY <1>3
      <4> QED
        BY <3>1, <4>1, <4>2 DEF ChunksWellFormed
    <3> QED
      BY <1>3, <2>1, <3>1, <3>2, <3>4
  <2> QED
    BY <2>2, <2>3
<1>8. TypeOK'
  <2>1. pos' \in 0 .. Len(File') /\ Len(nmeaData') <= BufferSize /\ pData' \in 0 .. Len(nmeaData')
    BY <1>1, <1>2, <1>3, <1>4, <1>5
  <2> QED
    BY <1>1, <1>7, <2>1 DEF ReaderInv, TypeOK
<1>9. PICK k \in 1 .. Len(lines) + 1 : Taken(k) /\ \E o \in Offsets(k) : At(k, o)
  BY Placed
<1>10. PICK o \in Offsets(k) : At(k, o)
  BY <1>9
<1>11. Taken(k)'
  BY <1>1, <1>2, <1>4, <1>7, <1>9, TakenKept
<1>12. At(k, o)' /\ o \in Offsets(k)'
  <2>1. Offsets(k)' = Offsets(k) /\ B(k - 1)' = B(k - 1) /\ (Cut(k) => Cut(k)')
    BY <1>1, <1>4, Frame
  <2>2. Used' = Used
    BY <1>1, <1>2, <1>3, <1>5 DEF Used, l
  <2> QED
    BY <1>1, <1>10, <2>1, <2>2 DEF At
<1> QED
  BY <1>1, <1>6, <1>7, <1>8, <1>9, <1>11, <1>12 DEF ReaderInv
LEMMA StutterHolds ==
  ASSUME ReaderInv, UNCHANGED vars
  PROVE  ReaderInv'
<1>1. /\ lines' = lines /\ exists' = exists /\ chunk' = chunk /\ out' = out /\ pos' = pos
      /\ cuts' = cuts /\ pData' = pData /\ nmeaData' = nmeaData /\ feof' = feof /\ pc' = pc
  BY DEF vars
<1>2. cuts \subseteq cuts' /\ File' = File /\ Fragments' = Fragments
  BY <1>1, Frame DEF Fragments
<1>3. TypeOK' /\ Buffered'
  BY <1>1, <1>2 DEF ReaderInv, TypeOK, Buffered
<1>4. ChunksWellFormed' /\ ~ full(chunk)'
  BY <1>1 DEF ReaderInv, ChunksWellFormed, full
<1>5. PICK k \in 1 .. Len(lines) + 1 : Taken(k) /\ \E o \in Offsets(k) : At(k, o)
  BY Placed
<1>6. PICK o \in Offsets(k) : At(k, o)
  BY <1>5
<1>7. Taken(k)'
  BY <1>1, <1>2, <1>5, TakenKept, Placed
<1>8. At(k, o)' /\ o \in Offsets(k)'
  <2>1. Offsets(k)' = Offsets(k) /\ B(k - 1)' = B(k - 1) /\ (Cut(k) => Cut(k)')
    BY <1>1, <1>2, Frame
  <2> QED
    BY <1>1, <1>6, <2>1 DEF At, Used
<1>9. (pc' \in {"read", "finished"} => pData' = 0) /\ (pc' = "process" => pos' \in cuts')
  BY <1>1 DEF ReaderInv
<1> QED
  BY <1>1, <1>3, <1>4, <1>5, <1>7, <1>8, <1>9 DEF ReaderInv

\* The reader is always at the beginning of a line or where the end of the buffer made it
\* stop in one, and has output the sentences before.
THEOREM ReaderInvariant == Spec => []ReaderInv
<1>1. ReaderInv /\ [Next]_vars => ReaderInv'
  BY ReadHolds, FinishHolds, ReadLineHolds, SkipLineHolds, BreakLineHolds, ReturnHolds,
     StutterHolds DEF Next
<1> QED
  BY <1>1, InitHolds, PTL DEF Spec

\* Whatever the file, the sizes and the ends of the buffer, the reader stays in its
\* buffer and reads no further than the file (processNmeaData, readFromFile).
THEOREM ReaderTypes == Spec => []TypeOK
<1>1. ReaderInv => TypeOK
  BY DEF ReaderInv
<1> QED
  BY <1>1, ReaderInvariant, PTL

\* No chunk that readFromFile puts in the queue is empty or longer than AIS_CHUNK_SIZE.
THEOREM ChunksFit == Spec => []ChunksWellFormed
<1>1. ReaderInv => ChunksWellFormed
  BY DEF ReaderInv
<1> QED
  BY <1>1, ReaderInvariant, PTL

\* A fragment has its line's timestamp unless the buffer ended inside that line or the
\* time is the last field of the header, and it never has the one of another line
\* (m_uTimestamp in readHeader).
THEOREM TimestampsRight == Spec => []TimestampsKept
<1>1. ReaderInv => TimestampsKept
  BY DEF ReaderInv, Taken
<1> QED
  BY <1>1, ReaderInvariant, PTL

LEMMA NothingIsDropped ==
  ASSUME ReaderInv, LineEnd = <<"cr", "lf">>
  PROVE  NothingDropped
<1> DEFINE n      == Len(lines)
           lineNo == [i \in DOMAIN Fragments |-> Fragments[i].line]
           usedUp == {j \in 1 .. n : IsSentence(j) /\ B(j) <= Used}
<1>1. Sound /\ n \in Nat /\ lines \in Seq(Shapes)
  BY Placed DEF Sound
<1>2. PICK k \in 1 .. n + 1 : Taken(k) /\ \E o \in Offsets(k) : At(k, o) /\ o \in Nat
  BY Placed
<1>3. PICK o \in Offsets(k) : At(k, o) /\ o \in Nat
  BY <1>2
<1>4. Used = B(k - 1) + o
  BY <1>3 DEF At
<1>5. ASSUME NEW j \in 1 .. n PROVE B(j) <= Used <=> j < k
  <2>1. CASE j < k
    <3>1. j \in 0 .. n /\ k - 1 \in j .. n
      BY <1>1, <2>1
    <3>2. B(j) <= B(k - 1) /\ B(k - 1) \in Nat /\ B(j) \in Nat
      BY <1>1, <3>1, Extended DEF Extends
    <3> QED
      BY <1>3, <1>4, <2>1, <3>2
  <2>2. CASE ~(j < k)
    <3>1. k \in 1 .. n /\ k \in 0 .. n /\ j \in k .. n
      BY <1>1, <2>2
    <3>2. B(k) <= B(j) /\ B(j) \in Nat /\ B(k) \in Nat
      BY <1>1, <3>1, Extended DEF Extends
    <3>3. B(k - 1) \in Nat /\ B(k) = B(k - 1) + Len(L(k)) /\ Len(L(k)) \in Nat \ {0}
      BY <1>1, <3>1, FileIs, LineParts
    <3>4. o < Len(L(k))
      BY <1>1, <3>1, OffsetInLine
    <3> QED
      BY <1>3, <1>4, <2>2, <3>2, <3>3, <3>4
  <2> QED
    BY <2>1, <2>2
<1>6. usedUp = {j \in 1 .. k - 1 : IsSentence(j)}
  <2>1. \A j : j \in 1 .. k - 1 <=> j \in 1 .. n /\ j < k
    BY <1>1
  <2> QED
    BY <1>5, <2>1
<1>7. /\ \A i \in DOMAIN Fragments : Fragments[i].line \in 1 .. k - 1 /\ IsSentence(Fragments[i].line)
      /\ \A i, j \in DOMAIN Fragments : i < j => Fragments[i].line < Fragments[j].line
      /\ \A j \in 1 .. k - 1 : IsSentence(j) => \E i \in DOMAIN Fragments : Fragments[i].line = j
  BY <1>2 DEF Taken
<1> HIDE DEF usedUp
<1>8. ToSet(lineNo) = usedUp
  BY <1>6, <1>7 DEF ToSet
<1>9. \A i, j \in DOMAIN lineNo : i < j => lineNo[i] < lineNo[j]
  BY <1>7
<1> QED
  BY <1>8, <1>9 DEF NothingDropped, usedUp, B

\* If lines end with CR LF, every sentence of the lines used up has been output, once
\* and in order, wherever the buffer has ended (processNmeaData, "keep dropped data").
THEOREM SentencesKept == LineEnd = <<"cr", "lf">> /\ Spec => []NothingDropped
<1> SUFFICES ASSUME LineEnd = <<"cr", "lf">> PROVE Spec => []NothingDropped
  OBVIOUS
<1>1. ReaderInv => NothingDropped
  BY NothingIsDropped
<1> QED
  BY <1>1, ReaderInvariant, PTL
=============================================================================
