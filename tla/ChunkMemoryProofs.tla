-------------------------- MODULE ChunkMemoryProofs -------------------------
(***************************************************************************)
(* Proofs about ChunkMemory.tla, for every number of chunks and every      *)
(* capacity of the queues: every chunk has one owner at a time, and keeps  *)
(* its content until it is released.                                       *)
(***************************************************************************)
EXTENDS ChunkMemory, PipelineProofs, SequenceTheorems, FiniteSetTheorems, FunctionTheorems

-----------------------------------------------------------------------------
(* The chunks of one type: P are free, S in the queue, m being filled, t   *)
(* being read.                                                             *)

Count(p) == IF p = 0 THEN 0 ELSE 1
Some(p)  == IF p = 0 THEN {} ELSE {p}

AllOnce(P, S, m, t, n) ==
  /\ Len(P) + Len(S) + Count(m) + Count(t) = n
  /\ Range(P) \cup Range(S) \cup Some(m) \cup Some(t) = 1 .. n

LEMMA PointerParts ==
  ASSUME NEW p \in Nat
  PROVE  Pointer(p) \in Seq(Address) /\ Len(Pointer(p)) = Count(p) /\ Range(Pointer(p)) = Some(p)
<1>1. CASE p = 0
  BY <1>1 DEF Pointer, Count, Some, Range
<1>2. CASE p # 0
  <2>1. Pointer(p) = <<p>> /\ p \in Address
    BY <1>2 DEF Pointer, Address
  <2>2. <<p>> \in Seq(Address) /\ Len(<<p>>) = 1 /\ Range(<<p>>) = {p}
    BY <2>1 DEF Range
  <2> QED
    BY <1>2, <2>1, <2>2 DEF Count, Some
<1> QED
  BY <1>1, <1>2

LEMMA Joined2 ==
  ASSUME NEW s \in Seq(Address), NEW t \in Seq(Address)
  PROVE  /\ s \o t \in Seq(Address) /\ Len(s \o t) = Len(s) + Len(t)
         /\ Range(s \o t) = Range(s) \cup Range(t)
<1>1. s \o t \in Seq(Address) /\ Len(s \o t) = Len(s) + Len(t)
  BY ConcatProperties
<1>2. Range(s \o t) = Range(s) \cup Range(t)
  BY RangeConcatenation
<1> QED
  BY <1>1, <1>2

\* That is what OneOwner says of their concatenation.
Whole(P, S, m, t) == P \o S \o Pointer(m) \o Pointer(t)

LEMMA AllOnceWhole ==
  ASSUME NEW P \in Seq(Address), NEW S \in Seq(Address), NEW m \in Nat, NEW t \in Nat
  PROVE  /\ Len(Whole(P, S, m, t)) = Len(P) + Len(S) + Count(m) + Count(t)
         /\ Range(Whole(P, S, m, t)) = Range(P) \cup Range(S) \cup Some(m) \cup Some(t)
<1> DEFINE A == P \o S
           B == A \o Pointer(m)
           C == B \o Pointer(t)
<1>1. /\ Pointer(m) \in Seq(Address) /\ Len(Pointer(m)) = Count(m) /\ Range(Pointer(m)) = Some(m)
      /\ Pointer(t) \in Seq(Address) /\ Len(Pointer(t)) = Count(t) /\ Range(Pointer(t)) = Some(t)
  BY PointerParts
<1>2. A \in Seq(Address) /\ Len(A) = Len(P) + Len(S) /\ Range(A) = Range(P) \cup Range(S)
  BY Joined2
<1>3. Whole(P, S, m, t) = C
  BY DEF Whole
<1> HIDE DEF A
<1>4. B \in Seq(Address) /\ Len(B) = Len(A) + Count(m) /\ Range(B) = Range(A) \cup Some(m)
  BY <1>1, <1>2, Joined2
<1> HIDE DEF B
<1>5. C \in Seq(Address) /\ Len(C) = Len(B) + Count(t) /\ Range(C) = Range(B) \cup Some(t)
  BY <1>1, <1>4, Joined2
<1> HIDE DEF C
<1> QED
  BY <1>2, <1>3, <1>4, <1>5

LEMMA HeadOfRest ==
  ASSUME NEW s \in Seq(Address), s # <<>>
  PROVE  /\ Head(s) \in Address /\ Tail(s) \in Seq(Address)
         /\ Len(Tail(s)) = Len(s) - 1 /\ Range(s) = Range(Tail(s)) \cup {Head(s)}
<1>1. /\ Head(s) \in Address /\ Tail(s) \in Seq(Address) /\ Len(Tail(s)) = Len(s) - 1
      /\ \A i \in 1 .. Len(Tail(s)) : Tail(s)[i] = s[i + 1]
      /\ Head(s) = s[1] /\ Len(s) \in Nat /\ Len(s) > 0
  BY HeadTailProperties, EmptySeq, LenProperties
<1>2. Range(s) = {s[i] : i \in 1 .. Len(s)} /\ Range(Tail(s)) = {Tail(s)[i] : i \in 1 .. Len(Tail(s))}
  BY <1>1, RangeEquality
<1>3. ASSUME NEW i \in 1 .. Len(s) PROVE s[i] \in Range(Tail(s)) \cup {Head(s)}
  <2>1. CASE i = 1
    BY <2>1, <1>1
  <2>2. CASE i # 1
    <3>1. i - 1 \in 1 .. Len(Tail(s)) /\ Tail(s)[i - 1] = s[i]
      BY <2>2, <1>1
    <3> QED
      BY <3>1, <1>2
  <2> QED
    BY <2>1, <2>2
<1>4. ASSUME NEW i \in 1 .. Len(Tail(s)) PROVE Tail(s)[i] \in Range(s)
  <2>1. i + 1 \in 1 .. Len(s) /\ Tail(s)[i] = s[i + 1]
    BY <1>1
  <2> QED
    BY <2>1, <1>2
<1>5. Head(s) \in Range(s)
  BY <1>1, <1>2
<1> QED
  BY <1>1, <1>2, <1>3, <1>4, <1>5

LEMMA LastOfRest ==
  ASSUME NEW s \in Seq(Address), s # <<>>
  PROVE  /\ Last(s) \in Address /\ Front(s) \in Seq(Address)
         /\ Len(Front(s)) = Len(s) - 1 /\ Range(s) = Range(Front(s)) \cup {Last(s)}
<1>1. Len(s) \in Nat /\ Len(s) > 0
  BY EmptySeq, LenProperties
<1>2. \A i \in 1 .. Len(s) : s[i] \in Address
  BY ElementOfSeq
<1>3. /\ Front(s) \in Seq(Address) /\ Len(Front(s)) = Len(s) - 1
      /\ \A i \in 1 .. Len(s) - 1 : Front(s)[i] = s[i]
  <2>1. \A i \in 1 .. Len(s) - 1 : s[i] \in Address
    BY <1>1, <1>2
  <2> DEFINE n == Len(s) - 1
             f == SubSeq(s, 1, n)
  <2>0. n \in Nat
    BY <1>1
  <2> HIDE DEF n
  <2>2. f \in Seq(Address) /\ Len(f) = n /\ \A i \in 1 .. n : f[i] = s[i]
    <3>1. /\ f \in Seq(Address)
          /\ Len(f) = IF 1 <= n THEN n - 1 + 1 ELSE 0
          /\ \A i \in 1 .. n - 1 + 1 : f[i] = s[1 + i - 1]
      BY <2>0, <2>1, SubSeqProperties DEF n
    <3> QED
      BY <2>0, <3>1
  <2> QED
    BY <2>2 DEF Front, n
<1>4. Last(s) \in Address /\ Last(s) = s[Len(s)]
  BY <1>1, <1>2 DEF Last
<1>5. Range(s) = {s[i] : i \in 1 .. Len(s)} /\ Range(Front(s)) = {Front(s)[i] : i \in 1 .. Len(Front(s))}
  BY <1>3, RangeEquality
<1>6. ASSUME NEW i \in 1 .. Len(s) PROVE s[i] \in Range(Front(s)) \cup {Last(s)}
  <2>1. CASE i = Len(s)
    BY <2>1, <1>4
  <2>2. CASE i # Len(s)
    <3>1. i \in 1 .. Len(Front(s)) /\ Front(s)[i] = s[i]
      BY <2>2, <1>1, <1>3
    <3> QED
      BY <3>1, <1>5
  <2> QED
    BY <2>1, <2>2
<1>7. ASSUME NEW i \in 1 .. Len(Front(s)) PROVE Front(s)[i] \in Range(s)
  <2>1. i \in 1 .. Len(s) /\ Front(s)[i] = s[i]
    BY <1>1, <1>3
  <2> QED
    BY <2>1, <1>5
<1>8. Last(s) \in Range(s)
  BY <1>1, <1>4, <1>5
<1> QED
  BY <1>3, <1>4, <1>5, <1>6, <1>7, <1>8

LEMMA AppendedTo ==
  ASSUME NEW s \in Seq(Address), NEW p \in Address
  PROVE  /\ Append(s, p) \in Seq(Address) /\ Len(Append(s, p)) = Len(s) + 1
         /\ Range(Append(s, p)) = Range(s) \cup {p}
<1>1. /\ Append(s, p) \in Seq(Address) /\ Len(Append(s, p)) = Len(s) + 1
      /\ Append(s, p) = s \o <<p>>
  BY AppendProperties, AppendIsConcat
<1>2. <<p>> \in Seq(Address) /\ Range(<<p>>) = {p}
  BY DEF Range
<1>3. Range(s \o <<p>>) = Range(s) \cup Range(<<p>>)
  BY <1>2, RangeConcatenation
<1> QED
  BY <1>1, <1>2, <1>3
-----------------------------------------------------------------------------
(* Handing a pointer on keeps every chunk in one place.                    *)

LEMMA FromPool ==
  ASSUME NEW P \in Seq(Address), NEW S \in Seq(Address), NEW t \in Nat, NEW n \in Nat,
         AllOnce(P, S, 0, t, n), P # <<>>
  PROVE  AllOnce(Front(P), S, Last(P), t, n)
<1>1. /\ Last(P) \in Address /\ Front(P) \in Seq(Address)
      /\ Len(Front(P)) = Len(P) - 1 /\ Range(P) = Range(Front(P)) \cup {Last(P)}
  BY LastOfRest
<1>2. Last(P) \in Nat /\ Count(Last(P)) = 1 /\ Some(Last(P)) = {Last(P)} /\ Count(0) = 0 /\ Some(0) = {}
  BY <1>1 DEF Address, Count, Some
<1>3. /\ Len(P) + Len(S) + Count(0) + Count(t) = n
      /\ Range(P) \cup Range(S) \cup Some(0) \cup Some(t) = 1 .. n
  BY DEF AllOnce
<1>4. Len(P) \in Nat /\ Len(S) \in Nat /\ Count(t) \in Nat
  BY LenProperties DEF Count
<1>5. Len(Front(P)) + Len(S) + Count(Last(P)) + Count(t) = n
  BY <1>1, <1>2, <1>3, <1>4
<1>6. Range(Front(P)) \cup Range(S) \cup Some(Last(P)) \cup Some(t) = 1 .. n
  BY <1>1, <1>2, <1>3
<1> QED
  BY <1>1, <1>2, <1>5, <1>6 DEF AllOnce

LEMMA FromHeap ==
  ASSUME NEW S \in Seq(Address), NEW t \in Nat, NEW n \in Nat,
         AllOnce(<<>>, S, 0, t, n)
  PROVE  AllOnce(<<>>, S, n + 1, t, n + 1)
<1>1. /\ Count(n + 1) = 1 /\ Some(n + 1) = {n + 1} /\ Count(0) = 0 /\ Some(0) = {}
      /\ <<>> \in Seq(Address) /\ n + 1 \in Nat
  BY DEF Count, Some
<1>2. /\ Len(<<>>) + Len(S) + Count(0) + Count(t) = n
      /\ Range(<<>>) \cup Range(S) \cup Some(0) \cup Some(t) = 1 .. n
  BY <1>1 DEF AllOnce
<1>3. Len(<<>>) \in Nat /\ Len(S) \in Nat /\ Count(t) \in Nat
  BY LenProperties DEF Count
<1>4. Len(<<>>) + Len(S) + Count(n + 1) + Count(t) = n + 1
  BY <1>1, <1>2, <1>3
<1>5. 1 .. n + 1 = (1 .. n) \cup {n + 1}
  OBVIOUS
<1>6. Range(<<>>) \cup Range(S) \cup Some(n + 1) \cup Some(t) = 1 .. n + 1
  BY <1>1, <1>2, <1>5
<1> QED
  BY <1>1, <1>4, <1>6 DEF AllOnce

LEMMA IntoQueue ==
  ASSUME NEW P \in Seq(Address), NEW S \in Seq(Address), NEW m \in Address, NEW t \in Nat, NEW n \in Nat,
         AllOnce(P, S, m, t, n)
  PROVE  AllOnce(P, Append(S, m), 0, t, n)
<1>1. /\ Append(S, m) \in Seq(Address) /\ Len(Append(S, m)) = Len(S) + 1
      /\ Range(Append(S, m)) = Range(S) \cup {m}
  BY AppendedTo
<1>2. m \in Nat /\ Count(m) = 1 /\ Some(m) = {m} /\ Count(0) = 0 /\ Some(0) = {} /\ 0 \in Nat
  BY DEF Address, Count, Some
<1>3. /\ Len(P) + Len(S) + Count(m) + Count(t) = n
      /\ Range(P) \cup Range(S) \cup Some(m) \cup Some(t) = 1 .. n
  BY <1>2 DEF AllOnce
<1>4. Len(P) \in Nat /\ Len(S) \in Nat /\ Count(t) \in Nat
  BY LenProperties DEF Count
<1>5. Len(P) + Len(Append(S, m)) + Count(0) + Count(t) = n
  BY <1>1, <1>2, <1>3, <1>4
<1>6. Range(P) \cup Range(Append(S, m)) \cup Some(0) \cup Some(t) = 1 .. n
  BY <1>1, <1>2, <1>3
<1> QED
  BY <1>1, <1>2, <1>5, <1>6 DEF AllOnce

LEMMA FromQueue ==
  ASSUME NEW P \in Seq(Address), NEW S \in Seq(Address), NEW m \in Nat, NEW n \in Nat,
         AllOnce(P, S, m, 0, n), S # <<>>
  PROVE  AllOnce(P, Tail(S), m, Head(S), n)
<1>1. /\ Head(S) \in Address /\ Tail(S) \in Seq(Address)
      /\ Len(Tail(S)) = Len(S) - 1 /\ Range(S) = Range(Tail(S)) \cup {Head(S)}
  BY HeadOfRest
<1>2. Head(S) \in Nat /\ Count(Head(S)) = 1 /\ Some(Head(S)) = {Head(S)} /\ Count(0) = 0 /\ Some(0) = {}
  BY <1>1 DEF Address, Count, Some
<1>3. /\ Len(P) + Len(S) + Count(m) + Count(0) = n
      /\ Range(P) \cup Range(S) \cup Some(m) \cup Some(0) = 1 .. n
  BY DEF AllOnce
<1>4. Len(P) \in Nat /\ Len(S) \in Nat /\ Count(m) \in Nat
  BY LenProperties DEF Count
<1>5. Len(P) + Len(Tail(S)) + Count(m) + Count(Head(S)) = n
  BY <1>1, <1>2, <1>3, <1>4
<1>6. Range(P) \cup Range(Tail(S)) \cup Some(m) \cup Some(Head(S)) = 1 .. n
  BY <1>1, <1>2, <1>3
<1> QED
  BY <1>1, <1>2, <1>5, <1>6 DEF AllOnce

LEMMA ReadIntoPool ==
  ASSUME NEW P \in Seq(Address), NEW S \in Seq(Address), NEW m \in Nat, NEW t \in Address, NEW n \in Nat,
         AllOnce(P, S, m, t, n)
  PROVE  AllOnce(Append(P, t), S, m, 0, n)
<1>1. /\ Append(P, t) \in Seq(Address) /\ Len(Append(P, t)) = Len(P) + 1
      /\ Range(Append(P, t)) = Range(P) \cup {t}
  BY AppendedTo
<1>2. t \in Nat /\ Count(t) = 1 /\ Some(t) = {t} /\ Count(0) = 0 /\ Some(0) = {} /\ 0 \in Nat
  BY DEF Address, Count, Some
<1>3. /\ Len(P) + Len(S) + Count(m) + Count(t) = n
      /\ Range(P) \cup Range(S) \cup Some(m) \cup Some(t) = 1 .. n
  BY <1>2 DEF AllOnce
<1>4. Len(P) \in Nat /\ Len(S) \in Nat /\ Count(m) \in Nat
  BY LenProperties DEF Count
<1>5. Len(Append(P, t)) + Len(S) + Count(m) + Count(0) = n
  BY <1>1, <1>2, <1>3, <1>4
<1>6. Range(Append(P, t)) \cup Range(S) \cup Some(m) \cup Some(0) = 1 .. n
  BY <1>1, <1>2, <1>3
<1> QED
  BY <1>1, <1>2, <1>5, <1>6 DEF AllOnce

LEMMA MadeIntoPool ==
  ASSUME NEW P \in Seq(Address), NEW S \in Seq(Address), NEW m \in Address, NEW t \in Nat, NEW n \in Nat,
         AllOnce(P, S, m, t, n)
  PROVE  AllOnce(Append(P, m), S, 0, t, n)
<1>1. /\ Append(P, m) \in Seq(Address) /\ Len(Append(P, m)) = Len(P) + 1
      /\ Range(Append(P, m)) = Range(P) \cup {m}
  BY AppendedTo
<1>2. m \in Nat /\ Count(m) = 1 /\ Some(m) = {m} /\ Count(0) = 0 /\ Some(0) = {} /\ 0 \in Nat
  BY DEF Address, Count, Some
<1>3. /\ Len(P) + Len(S) + Count(m) + Count(t) = n
      /\ Range(P) \cup Range(S) \cup Some(m) \cup Some(t) = 1 .. n
  BY <1>2 DEF AllOnce
<1>4. Len(P) \in Nat /\ Len(S) \in Nat /\ Count(t) \in Nat
  BY LenProperties DEF Count
<1>5. Len(Append(P, m)) + Len(S) + Count(0) + Count(t) = n
  BY <1>1, <1>2, <1>3, <1>4
<1>6. Range(Append(P, m)) \cup Range(S) \cup Some(0) \cup Some(t) = 1 .. n
  BY <1>1, <1>2, <1>3
<1> QED
  BY <1>1, <1>2, <1>5, <1>6 DEF AllOnce
-----------------------------------------------------------------------------
(* A chunk that is handed out is in no other place: otherwise the others   *)
(* would be fewer than the chunks there are.                               *)

LEMMA TooFew ==
  ASSUME NEW W \in Seq(Address), NEW n \in Nat, Len(W) < n
  PROVE  Range(W) # 1 .. n
<1> SUFFICES ASSUME Range(W) = 1 .. n PROVE FALSE
  OBVIOUS
<1> DEFINE k == Len(W)
<1>1. k \in Nat /\ W \in [1 .. k -> Address] /\ Range(W) = {W[i] : i \in 1 .. k}
  BY LenProperties, RangeEquality
<1>2. W \in Surjection(1 .. k, 1 .. n)
  <2>1. W \in [1 .. k -> 1 .. n] /\ \A x \in 1 .. n : \E i \in 1 .. k : W[i] = x
    BY <1>1
  <2> QED
    BY <2>1 DEF Surjection
<1>3. ExistsSurjection(1 .. k, 1 .. n)
  BY <1>2 DEF ExistsSurjection
<1>4. Cardinality(1 .. n) <= k
  BY <1>1, <1>3, FS_SurjCardinalityBound
<1>5. Cardinality(1 .. n) = n
  BY FS_Interval
<1> QED
  BY <1>1, <1>4, <1>5

LEMMA FreeIsFree ==
  ASSUME NEW P \in Seq(Address), NEW S \in Seq(Address), NEW t \in Nat, NEW n \in Nat,
         AllOnce(P, S, 0, t, n),
         NEW p, p = IF P = <<>> THEN n + 1 ELSE Last(P)
  PROVE  p \notin Range(S) /\ p # t /\ p \in 1 .. n + 1
<1>1. Range(P) \cup Range(S) \cup Some(t) = 1 .. n /\ Len(P) + Len(S) + Count(t) = n
      /\ Len(P) \in Nat /\ Len(S) \in Nat /\ Count(t) \in Nat
  BY LenProperties DEF AllOnce, Some, Count
<1>2. CASE P = <<>>
  <2>1. p = n + 1 /\ p \notin 1 .. n
    BY <1>2
  <2>2. p \notin Range(S) /\ p \notin Some(t)
    BY <1>1, <2>1
  <2> QED
    BY <2>1, <2>2 DEF Some
<1>3. CASE P # <<>>
  <2>1. /\ p \in Address /\ Front(P) \in Seq(Address)
        /\ Len(Front(P)) = Len(P) - 1 /\ Range(P) = Range(Front(P)) \cup {p}
    BY <1>3, LastOfRest
  <2>2. p \in 1 .. n
    BY <1>1, <2>1
  <2>3. ASSUME p \in Range(S) \cup Some(t) PROVE FALSE
    <3> DEFINE A == Front(P) \o S
               W == A \o Pointer(t)
    <3>1. A \in Seq(Address) /\ Len(A) = Len(P) - 1 + Len(S) /\ Range(A) = Range(Front(P)) \cup Range(S)
      BY <2>1, Joined2
    <3>2. Pointer(t) \in Seq(Address) /\ Len(Pointer(t)) = Count(t) /\ Range(Pointer(t)) = Some(t)
      BY PointerParts
    <3> HIDE DEF A
    <3>3. /\ W \in Seq(Address) /\ Len(W) = Len(P) - 1 + Len(S) + Count(t)
          /\ Range(W) = Range(Front(P)) \cup Range(S) \cup Some(t)
      BY <3>1, <3>2, Joined2
    <3> HIDE DEF W
    <3>4. Len(W) < n /\ Range(W) = 1 .. n
      BY <1>1, <2>1, <2>3, <3>3
    <3> QED
      BY <3>3, <3>4, TooFew
  <2>4. t = p => p \in Some(t)
    BY <2>1 DEF Some, Address
  <2> QED
    BY <2>2, <2>3, <2>4
<1> QED
  BY <1>2, <1>3
-----------------------------------------------------------------------------
(* Every step of the memory is a step of the pipeline or none.             *)

LEMMA MemoryStepIsPipelineStep == MemoryNext => [Next]_vars
<1> SUFFICES ASSUME MemoryNext PROVE [Next]_vars
  OBVIOUS
<1>1. CASE ReaderNew \/ ReaderDelete \/ ReaderMove \/ ReaderEnd
  BY <1>1 DEF ReaderNew, ReaderDelete, ReaderMove, ReaderEnd, Next, ReaderStep, vars
<1>2. ASSUME NEW s \in Workers, MemoryStep(s) PROVE [Next]_vars
  <2>1. CASE StageTake(s)
    BY <2>1 DEF StageTake, Next, WorkerStep
  <2>2. CASE StageNew(s)
    BY <2>2 DEF StageNew
  <2>3. CASE StageMove(s)
    BY <2>3 DEF StageMove, Next, WorkerStep
  <2>4. CASE StageDeleteMade(s)
    BY <2>4 DEF StageDeleteMade
  <2>5. CASE StageDelete(s)
    BY <2>5 DEF StageDelete, DeleteTaken
  <2>6. CASE StageLoop(s)
    BY <2>6 DEF StageLoop, Next, WorkerStep
  <2> QED
    BY <1>2, <2>1, <2>2, <2>3, <2>4, <2>5, <2>6 DEF MemoryStep
<1>3. CASE PayloadsTake
  BY <1>3 DEF PayloadsTake, Next, PayloadsStep
<1>4. CASE PayloadsLoop
  BY <1>4 DEF PayloadsLoop, Next, PayloadsStep
<1>5. CASE PayloadsDelete
  BY <1>5 DEF PayloadsDelete, DeleteTaken
<1> QED
  BY <1>1, <1>2, <1>3, <1>4, <1>5 DEF MemoryNext

\* With their memory, the threads take the steps of Pipeline and no others: what is
\* proved of Pipeline holds here too.
THEOREM MemoryImplementsPipeline == MemorySpec => Spec
<1>1. MemoryInit => Init
  BY DEF MemoryInit
<1>2. [MemoryNext]_<<vars, memory>> => [Next]_vars
  BY MemoryStepIsPipelineStep
<1> QED
  BY <1>1, <1>2, PTL DEF MemorySpec, Spec
-----------------------------------------------------------------------------
(* Which thread fills and which reads the chunks of a queue.               *)

LEMMA QueueEnds ==
  /\ Queues = {Output["reader"], Output["fragments"], Output["messages"]}
  /\ Output["reader"] = "fragmentQueue" /\ Output["fragments"] = "messageQueue"
  /\ Output["messages"] = "payloadQueue"
  /\ Input["fragments"] = "fragmentQueue" /\ Input["messages"] = "messageQueue"
  /\ Input["payloads"] = "payloadQueue"
  /\ Makers = {"reader", "fragments", "messages"}
  /\ Stages = {"fragments", "messages", "payloads"} /\ Workers = {"fragments", "messages"}
BY DEF Queues, Output, Input, Makers, Stages, Workers

LEMMA Ends ==
  /\ \A t \in Makers : Output[t] \in Queues /\ Maker(Output[t]) = t
  /\ \A s \in Stages : Input[s] \in Queues /\ Taker(Input[s]) = s
  /\ \A q \in Queues : Maker(q) \in Makers /\ Output[Maker(q)] = q
  /\ \A q \in Queues : Taker(q) \in Stages /\ Input[Taker(q)] = q
  /\ \A s \in Workers : s \in Makers /\ s \in Stages /\ Output[s] # Input[s]
<1>1. \A t \in Makers : Output[t] \in Queues /\ \A u \in Makers : Output[u] = Output[t] => u = t
  BY QueueEnds
<1>2. \A s \in Stages : Input[s] \in Queues /\ \A u \in Stages : Input[u] = Input[s] => u = s
  BY QueueEnds DEF Queues
<1>3. \A q \in Queues : (\E t \in Makers : Output[t] = q) /\ (\E s \in Stages : Input[s] = q)
  BY QueueEnds DEF Queues
<1>4. \A q \in Queues : Maker(q) \in Makers /\ Output[Maker(q)] = q
  BY <1>3 DEF Maker
<1>5. \A q \in Queues : Taker(q) \in Stages /\ Input[Taker(q)] = q
  BY <1>3 DEF Taker
<1>6. \A s \in Workers : s \in Makers /\ s \in Stages /\ Output[s] # Input[s]
  BY QueueEnds
<1> QED
  BY <1>1, <1>2, <1>4, <1>5, <1>6
-----------------------------------------------------------------------------
(* The account of one type of chunk.                                       *)

Owned(q) == AllOnce(pool[q], slots[q], made[Maker(q)], taken[Taker(q)], mallocs[q])

LEMMA OwnedBefore == MemoryInv => \A q \in Queues : Owned(q)
<1> SUFFICES ASSUME MemoryInv, NEW q \in Queues PROVE Owned(q)
  OBVIOUS
<1> DEFINE P == pool[q]
           S == slots[q]
           m == made[Maker(q)]
           t == taken[Taker(q)]
           n == mallocs[q]
<1>1. P \in Seq(Address) /\ S \in Seq(Address) /\ m \in Nat /\ t \in Nat
  BY Ends DEF MemoryInv, MemoryTypes
<1>2. Len(Whole(P, S, m, t)) = n /\ Range(Whole(P, S, m, t)) = 1 .. n
  BY DEF MemoryInv, OneOwner, Held, Whole
<1>3. Owned(q) <=> AllOnce(P, S, m, t, n)
  BY DEF Owned
<1> HIDE DEF P, S, m, t, n
<1>4. Len(Whole(P, S, m, t)) = Len(P) + Len(S) + Count(m) + Count(t)
  BY <1>1, AllOnceWhole
<1>6. Range(Whole(P, S, m, t)) = Range(P) \cup Range(S) \cup Some(m) \cup Some(t)
  BY <1>1, AllOnceWhole
<1> QED
  BY <1>2, <1>3, <1>4, <1>6 DEF AllOnce

LEMMA OwnedAfter == MemoryTypes' /\ (\A q \in Queues : Owned(q)') => OneOwner'
<1> SUFFICES ASSUME MemoryTypes', NEW q \in Queues, Owned(q)'
             PROVE  (Len(Held(q)) = mallocs[q] /\ Range(Held(q)) = 1 .. mallocs[q])'
  BY DEF OneOwner
<1> DEFINE P == pool'[q]
           S == slots'[q]
           m == made'[Maker(q)]
           t == taken'[Taker(q)]
           n == mallocs'[q]
<1>1. P \in Seq(Address) /\ S \in Seq(Address) /\ m \in Nat /\ t \in Nat
  BY Ends DEF MemoryTypes
<1>2. AllOnce(P, S, m, t, n)
  BY DEF Owned
<1>3. Held(q)' = Whole(P, S, m, t)
  BY DEF Held, Whole
<1>4. SUFFICES Len(Whole(P, S, m, t)) = n /\ Range(Whole(P, S, m, t)) = 1 .. n
  BY <1>3
<1> HIDE DEF P, S, m, t, n
<1>5. Len(Whole(P, S, m, t)) = Len(P) + Len(S) + Count(m) + Count(t)
  BY <1>1, AllOnceWhole
<1>6. Range(Whole(P, S, m, t)) = Range(P) \cup Range(S) \cup Some(m) \cup Some(t)
  BY <1>1, AllOnceWhole
<1> QED
  BY <1>2, <1>5, <1>6 DEF AllOnce

\* A step that leaves the other types of chunk alone.
SameFor(r) ==
  /\ pool'[r] = pool[r] /\ slots'[r] = slots[r] /\ mallocs'[r] = mallocs[r]
  /\ made'[Maker(r)] = made[Maker(r)] /\ taken'[Taker(r)] = taken[Taker(r)]

LEMMA OthersOwned ==
  ASSUME NEW q \in Queues, \A r \in Queues : Owned(r), Owned(q)',
         \A r \in Queues \ {q} : SameFor(r)
  PROVE  \A r \in Queues : Owned(r)'
<1> SUFFICES ASSUME NEW r \in Queues \ {q} PROVE Owned(r)'
  OBVIOUS
<1>1. Owned(r) /\ SameFor(r)
  OBVIOUS
<1> QED
  BY <1>1 DEF Owned, SameFor

\* The memory's types, without the places of the threads.
StoreTypes ==
  /\ pool \in [Queues -> Seq(Address)] /\ slots \in [Queues -> Seq(Address)]
  /\ mallocs \in [Queues -> Nat]
  /\ content \in [Queues -> [Heap -> Nat]]
  /\ taken \in [Stages -> Nat] /\ made \in [Makers -> Nat]

LEMMA HandOut ==
  ASSUME MemoryInv, IInv, NEW t \in Makers, made[t] = 0,
         findObjectPtr(Output[t]), made' = [made EXCEPT ![t] = Free(Output[t])],
         NEW v \in Nat, content' = [content EXCEPT ![Output[t]][Free(Output[t])] = v],
         UNCHANGED <<slots, taken>>
  PROVE  /\ StoreTypes' /\ (\A r \in Queues : Owned(r)') /\ MemoryBounded'
         /\ made'[t] # 0 /\ content'[Output[t]][made'[t]] = v
         /\ \A u \in Makers \ {t} : made'[u] = made[u]
         /\ \A r \in Queues : \A i \in DOMAIN slots[r] : content'[r][slots[r][i]] = content[r][slots[r][i]]
         /\ \A s \in Stages : taken[s] # 0 => content'[Input[s]][taken[s]] = content[Input[s]][taken[s]]
         /\ \A u \in Makers \ {t} : content'[Output[u]] = content[Output[u]]
<1> DEFINE q == Output[t]
           P == pool[q]
           S == slots[q]
           x == taken[Taker(q)]
           n == mallocs[q]
           p == Free(q)
<1>1. q \in Queues /\ Maker(q) = t /\ \A r \in Queues \ {q} : Maker(r) # t
  BY Ends
<1>2. P \in Seq(Address) /\ S \in Seq(Address) /\ x \in Nat /\ n \in Nat
  BY <1>1, Ends DEF MemoryInv, MemoryTypes
<1>3. AllOnce(P, S, 0, x, n)
  BY <1>1, OwnedBefore DEF Owned
<1>4. p = IF P = <<>> THEN n + 1 ELSE Last(P)
  BY DEF Free
<1>5. Len(S) <= Capacity /\ n <= Capacity + 2 /\ Capacity \in Nat
  BY <1>1, Constants DEF IInv, TypeOK, MemoryInv, Custody, MemoryBounded
<1>6. p \notin Range(S) /\ p # x /\ p \in 1 .. n + 1
  <2> HIDE DEF q, P, S, x, n, p
  <2>1. p \notin Range(S)
    BY <1>2, <1>3, <1>4, FreeIsFree
  <2>2. p # x
    BY <1>2, <1>3, <1>4, FreeIsFree
  <2>3. p \in 1 .. n + 1
    BY <1>2, <1>3, <1>4, FreeIsFree
  <2> QED
    BY <2>1, <2>2, <2>3
<1>7. p \in Heap /\ p # 0 /\ p \in Nat
  BY <1>2, <1>5, <1>6 DEF Heap
<1>8. P = <<>> => n + 1 <= Capacity + 2
  <2>1. P = <<>> => Len(P) = 0
    OBVIOUS
  <2> HIDE DEF q, P, S, x, n, p
  <2>2. Len(P) + Len(S) + Count(0) + Count(x) = n /\ Count(0) = 0 /\ Count(x) <= 1 /\ Count(x) \in Nat
    BY <1>3 DEF AllOnce, Count
  <2> QED
    BY <2>1, <2>2, <1>2, <1>5, LenProperties
<1>9. /\ pool \in [Queues -> Seq(Address)] /\ mallocs \in [Queues -> Nat] /\ made \in [Makers -> Nat]
      /\ content \in [Queues -> [Heap -> Nat]]
  BY DEF MemoryInv, MemoryTypes
<1>10. /\ pool' \in [Queues -> Seq(Address)] /\ mallocs' \in [Queues -> Nat]
       /\ mallocs'[q] <= Capacity + 2
       /\ \A r \in Queues \ {q} : pool'[r] = pool[r] /\ mallocs'[r] = mallocs[r]
       /\ AllOnce(pool'[q], S, p, x, mallocs'[q])
  <2>1. CASE P = <<>>
    <3>1. mallocs' = [mallocs EXCEPT ![q] = n + 1] /\ pool' = pool /\ p = n + 1
      BY <2>1, <1>4 DEF findObjectPtr
    <3>2. mallocs'[q] = n + 1 /\ pool'[q] = <<>>
      BY <3>1, <2>1, <1>1, <1>9
    <3>3. AllOnce(<<>>, S, n + 1, x, n + 1)
      <4>1. AllOnce(<<>>, S, 0, x, n)
        BY <1>3, <2>1
      <4> HIDE DEF q, P, S, x, n, p
      <4> QED
        BY <4>1, <1>2, FromHeap
    <3>4. AllOnce(pool'[q], S, p, x, mallocs'[q])
      BY <3>1, <3>2, <3>3
    <3> QED
      BY <3>1, <3>2, <3>4, <1>1, <1>2, <1>8, <1>9, <2>1
  <2>2. CASE P # <<>>
    <3>1. pool' = [pool EXCEPT ![q] = Front(P)] /\ mallocs' = mallocs /\ p = Last(P)
      BY <2>2, <1>4 DEF findObjectPtr
    <3>2. mallocs'[q] = n /\ pool'[q] = Front(P)
      BY <3>1, <1>1, <1>9
    <3>3. AllOnce(Front(P), S, Last(P), x, n) /\ Front(P) \in Seq(Address)
      <4> HIDE DEF q, P, S, x, n, p
      <4>1. AllOnce(Front(P), S, Last(P), x, n)
        BY <1>2, <1>3, <2>2, FromPool
      <4> QED
        BY <4>1, <1>2, <2>2, LastOfRest
    <3>4. AllOnce(pool'[q], S, p, x, mallocs'[q])
      BY <3>1, <3>2, <3>3
    <3> QED
      BY <3>1, <3>2, <3>3, <3>4, <1>1, <1>2, <1>5, <1>9
  <2> QED
    BY <2>1, <2>2
<1>11. /\ made' \in [Makers -> Nat] /\ made'[t] = p
       /\ \A u \in Makers \ {t} : made'[u] = made[u]
  <2>1. made' = [made EXCEPT ![t] = p]
    OBVIOUS
  <2> HIDE DEF p
  <2> QED
    BY <2>1, <1>7, <1>9
<1>12. /\ content' \in [Queues -> [Heap -> Nat]] /\ content'[q][p] = v
       /\ \A a \in Heap \ {p} : content'[q][a] = content[q][a]
       /\ \A r \in Queues \ {q} : content'[r] = content[r]
  <2>1. content' = [content EXCEPT ![q][p] = v]
    OBVIOUS
  <2> DEFINE f == [content[q] EXCEPT ![p] = v]
  <2>2. content' = [content EXCEPT ![q] = f]
    BY <2>1
  <2> HIDE DEF q, p
  <2>3. f \in [Heap -> Nat] /\ f[p] = v /\ \A a \in Heap \ {p} : f[a] = content[q][a]
    BY <1>1, <1>7, <1>9
  <2> HIDE DEF f
  <2>4. content \in [Queues -> [Heap -> Nat]] /\ q \in Queues /\ f \in [Heap -> Nat]
    BY <2>3, <1>1, <1>9
  <2>5. content' \in [Queues -> [Heap -> Nat]]
    BY <2>2, <2>4
  <2>6. content'[q] = f /\ \A r \in Queues \ {q} : content'[r] = content[r]
    BY <2>2, <2>4
  <2> QED
    BY <2>3, <2>5, <2>6
<1>13. StoreTypes'
  BY <1>9, <1>10, <1>11, <1>12 DEF StoreTypes, MemoryInv, MemoryTypes
<1>14. \A r \in Queues : Owned(r)'
  <2>1. Owned(q)'
    BY <1>1, <1>10, <1>11 DEF Owned
  <2>2. \A r \in Queues \ {q} : SameFor(r)
    BY <1>1, <1>10, <1>11, Ends DEF SameFor
  <2> HIDE DEF q
  <2> QED
    BY <1>1, <2>1, <2>2, OwnedBefore, OthersOwned
<1>15. MemoryBounded'
  BY <1>1, <1>10 DEF MemoryBounded, MemoryInv
<1>16. ASSUME NEW r \in Queues, NEW i \in DOMAIN slots[r]
       PROVE  content'[r][slots[r][i]] = content[r][slots[r][i]]
  <2>1. CASE r = q
    <3>1. slots[q][i] \in Range(S)
      BY <2>1, <1>16 DEF Range
    <3>2. 1 .. n \subseteq Heap
      BY <1>2, <1>5 DEF Heap
    <3>3. slots[q][i] \in Heap /\ slots[q][i] # p
      <4> HIDE DEF q, P, S, x, n, p
      <4>1. Range(S) \subseteq 1 .. n
        BY <1>3 DEF AllOnce
      <4> QED
        BY <4>1, <3>1, <3>2, <1>6
    <3> QED
      BY <2>1, <3>3, <1>12
  <2> QED
    BY <2>1, <1>12
<1>17. ASSUME NEW s \in Stages, taken[s] # 0
       PROVE  content'[Input[s]][taken[s]] = content[Input[s]][taken[s]]
  <2>1. CASE Input[s] = q
    <3>1. taken[s] = x /\ x # 0
      BY <2>1, <1>17, Ends
    <3>2. AllOnce(P, S, 0, x, n) /\ x # 0 => x \in 1 .. n
      BY DEF AllOnce, Some
    <3>3. x \in Heap /\ x # p
      BY <3>1, <3>2, <1>2, <1>3, <1>5, <1>6 DEF Heap
    <3> QED
      BY <2>1, <3>1, <3>3, <1>12
  <2> QED
    BY <2>1, <1>12, Ends
<1>18. \A u \in Makers \ {t} : content'[Output[u]] = content[Output[u]]
  BY <1>12, Ends
<1> QED
  BY <1>7, <1>11, <1>12, <1>13, <1>14, <1>15, <1>16, <1>17, <1>18

LEMMA HandOn ==
  ASSUME MemoryInv, NEW t \in Makers, made[t] # 0, Move(t),
         UNCHANGED <<pool, mallocs, content, taken>>
  PROVE  /\ StoreTypes' /\ (\A r \in Queues : Owned(r)') /\ MemoryBounded'
         /\ made'[t] = 0 /\ \A u \in Makers \ {t} : made'[u] = made[u]
         /\ slots'[Output[t]] = Append(slots[Output[t]], made[t])
         /\ \A r \in Queues \ {Output[t]} : slots'[r] = slots[r]
<1> DEFINE q == Output[t]
           P == pool[q]
           S == slots[q]
           m == made[Maker(q)]
           x == taken[Taker(q)]
           n == mallocs[q]
<1>1. /\ q \in Queues /\ Maker(q) = t
      /\ \A r \in Queues \ {q} : Maker(r) # Maker(q) /\ Taker(r) # Taker(q)
      /\ \A r \in Queues : Maker(r) \in Makers /\ Taker(r) \in Stages
  BY Ends
<1>2. P \in Seq(Address) /\ S \in Seq(Address) /\ m \in Nat /\ x \in Nat /\ n \in Nat
  BY <1>1 DEF MemoryInv, MemoryTypes
<1>3. AllOnce(P, S, m, x, n)
  BY <1>1, OwnedBefore DEF Owned
<1>4. /\ pool \in [Queues -> Seq(Address)] /\ slots \in [Queues -> Seq(Address)]
      /\ made \in [Makers -> Nat] /\ taken \in [Stages -> Nat]
  BY DEF MemoryInv, MemoryTypes
<1>5. m \in Address /\ Append(S, m) \in Seq(Address)
  BY <1>1, <1>2 DEF Address
<1>6. /\ slots' \in [Queues -> Seq(Address)] /\ slots'[q] = Append(S, m)
      /\ \A r \in Queues \ {q} : slots'[r] = slots[r]
  <2>1. slots' = [slots EXCEPT ![q] = Append(S, m)]
    BY <1>1 DEF Move
  <2> QED
    BY <2>1, <1>1, <1>4, <1>5
<1>7. /\ made' \in [Makers -> Nat] /\ made'[t] = 0
      /\ \A u \in Makers \ {t} : made'[u] = made[u]
  BY <1>4 DEF Move
<1>8. AllOnce(P, Append(S, m), 0, x, n)
  <2> HIDE DEF q, P, S, m, x, n
  <2> QED
    BY <1>2, <1>3, <1>5, IntoQueue
<1>9. StoreTypes'
  BY <1>4, <1>6, <1>7 DEF StoreTypes, MemoryInv, MemoryTypes
<1>10. Owned(q)'
  BY <1>1, <1>6, <1>7, <1>8 DEF Owned
<1>11. \A r \in Queues \ {q} : SameFor(r)
  BY <1>1, <1>6, <1>7 DEF SameFor
<1>12. \A r \in Queues : Owned(r)'
  <2> HIDE DEF q
  <2> QED
    BY <1>1, <1>10, <1>11, OwnedBefore, OthersOwned
<1>13. MemoryBounded'
  BY DEF MemoryBounded, MemoryInv
<1> QED
  BY <1>1, <1>6, <1>7, <1>9, <1>12, <1>13

LEMMA TakeOut ==
  ASSUME MemoryInv, NEW s \in Stages, taken[s] = 0, slots[Input[s]] # <<>>, Take(s),
         UNCHANGED pool
  PROVE  /\ StoreTypes' /\ (\A r \in Queues : Owned(r)') /\ MemoryBounded'
         /\ taken'[s] = Head(slots[Input[s]]) /\ taken'[s] # 0
         /\ \A u \in Stages \ {s} : taken'[u] = taken[u]
         /\ slots'[Input[s]] = Tail(slots[Input[s]])
         /\ \A r \in Queues \ {Input[s]} : slots'[r] = slots[r]
<1> DEFINE q == Input[s]
           P == pool[q]
           S == slots[q]
           m == made[Maker(q)]
           x == taken[Taker(q)]
           n == mallocs[q]
<1>1. /\ q \in Queues /\ Taker(q) = s
      /\ \A r \in Queues \ {q} : Maker(r) # Maker(q) /\ Taker(r) # Taker(q)
      /\ \A r \in Queues : Maker(r) \in Makers /\ Taker(r) \in Stages
  BY Ends
<1>2. P \in Seq(Address) /\ S \in Seq(Address) /\ m \in Nat /\ x \in Nat /\ n \in Nat
  BY <1>1 DEF MemoryInv, MemoryTypes
<1>3. AllOnce(P, S, m, x, n)
  BY <1>1, OwnedBefore DEF Owned
<1>4. /\ pool \in [Queues -> Seq(Address)] /\ slots \in [Queues -> Seq(Address)]
      /\ made \in [Makers -> Nat] /\ taken \in [Stages -> Nat]
  BY DEF MemoryInv, MemoryTypes
<1>5. Head(S) \in Address /\ Tail(S) \in Seq(Address) /\ Head(S) \in Nat /\ Head(S) # 0 /\ x = 0 /\ S # <<>>
  BY <1>1, <1>2 DEF Address
<1>6. /\ slots' \in [Queues -> Seq(Address)] /\ slots'[q] = Tail(S)
      /\ \A r \in Queues \ {q} : slots'[r] = slots[r]
  <2>1. slots' = [slots EXCEPT ![q] = Tail(S)]
    BY DEF Take
  <2> QED
    BY <2>1, <1>1, <1>4, <1>5
<1>7. /\ taken' \in [Stages -> Nat] /\ taken'[s] = Head(S)
      /\ \A u \in Stages \ {s} : taken'[u] = taken[u]
      /\ UNCHANGED <<mallocs, content, made>>
  <2>1. taken' = [taken EXCEPT ![s] = Head(S)] /\ UNCHANGED <<mallocs, content, made>>
    BY DEF Take
  <2> QED
    BY <2>1, <1>4, <1>5
<1>8. AllOnce(P, Tail(S), m, Head(S), n)
  <2>1. AllOnce(P, S, m, 0, n)
    BY <1>3, <1>5
  <2> HIDE DEF q, P, S, m, x, n
  <2> QED
    BY <2>1, <1>2, <1>5, FromQueue
<1>9. StoreTypes'
  BY <1>4, <1>6, <1>7 DEF StoreTypes, MemoryInv, MemoryTypes
<1>10. Owned(q)'
  BY <1>1, <1>6, <1>7, <1>8 DEF Owned
<1>11. \A r \in Queues \ {q} : SameFor(r)
  BY <1>1, <1>6, <1>7 DEF SameFor
<1>12. \A r \in Queues : Owned(r)'
  <2> HIDE DEF q
  <2> QED
    BY <1>1, <1>10, <1>11, OwnedBefore, OthersOwned
<1>13. MemoryBounded'
  BY <1>7 DEF MemoryBounded, MemoryInv
<1> QED
  BY <1>1, <1>5, <1>6, <1>7, <1>9, <1>12, <1>13

LEMMA PutBackRead ==
  ASSUME MemoryInv, NEW s \in Stages, taken[s] # 0, returnObjectPtr(Input[s], taken[s]),
         taken' = [taken EXCEPT ![s] = 0], UNCHANGED <<mallocs, content, slots, made>>
  PROVE  /\ StoreTypes' /\ (\A r \in Queues : Owned(r)') /\ MemoryBounded'
         /\ taken'[s] = 0 /\ \A u \in Stages \ {s} : taken'[u] = taken[u]
<1> DEFINE q == Input[s]
           P == pool[q]
           S == slots[q]
           m == made[Maker(q)]
           x == taken[Taker(q)]
           n == mallocs[q]
<1>1. /\ q \in Queues /\ Taker(q) = s
      /\ \A r \in Queues \ {q} : Maker(r) # Maker(q) /\ Taker(r) # Taker(q)
      /\ \A r \in Queues : Maker(r) \in Makers /\ Taker(r) \in Stages
  BY Ends
<1>2. P \in Seq(Address) /\ S \in Seq(Address) /\ m \in Nat /\ x \in Nat /\ n \in Nat
  BY <1>1 DEF MemoryInv, MemoryTypes
<1>3. AllOnce(P, S, m, x, n)
  BY <1>1, OwnedBefore DEF Owned
<1>4. /\ pool \in [Queues -> Seq(Address)] /\ slots \in [Queues -> Seq(Address)]
      /\ made \in [Makers -> Nat] /\ taken \in [Stages -> Nat]
  BY DEF MemoryInv, MemoryTypes
<1>5. x \in Address /\ Append(P, x) \in Seq(Address)
  BY <1>1, <1>2 DEF Address
<1>6. /\ pool' \in [Queues -> Seq(Address)] /\ pool'[q] = Append(P, x)
      /\ \A r \in Queues \ {q} : pool'[r] = pool[r]
  <2>1. pool' = [pool EXCEPT ![q] = Append(P, x)]
    BY <1>1 DEF returnObjectPtr
  <2> QED
    BY <2>1, <1>1, <1>4, <1>5
<1>7. /\ taken' \in [Stages -> Nat] /\ taken'[s] = 0
      /\ \A u \in Stages \ {s} : taken'[u] = taken[u]
  BY <1>4
<1>8. AllOnce(Append(P, x), S, m, 0, n)
  <2> HIDE DEF q, P, S, m, x, n
  <2> QED
    BY <1>2, <1>3, <1>5, ReadIntoPool
<1>9. StoreTypes'
  BY <1>4, <1>6, <1>7 DEF StoreTypes, MemoryInv, MemoryTypes
<1>10. Owned(q)'
  BY <1>1, <1>6, <1>7, <1>8 DEF Owned
<1>11. \A r \in Queues \ {q} : SameFor(r)
  BY <1>1, <1>6, <1>7 DEF SameFor
<1>12. \A r \in Queues : Owned(r)'
  <2> HIDE DEF q
  <2> QED
    BY <1>1, <1>10, <1>11, OwnedBefore, OthersOwned
<1>13. MemoryBounded'
  BY DEF MemoryBounded, MemoryInv
<1> QED
  BY <1>1, <1>6, <1>7, <1>9, <1>12, <1>13

LEMMA PutBackMade ==
  ASSUME MemoryInv, NEW t \in Makers, made[t] # 0, returnObjectPtr(Output[t], made[t]),
         made' = [made EXCEPT ![t] = 0], UNCHANGED <<mallocs, content, slots, taken>>
  PROVE  /\ StoreTypes' /\ (\A r \in Queues : Owned(r)') /\ MemoryBounded'
         /\ made'[t] = 0 /\ \A u \in Makers \ {t} : made'[u] = made[u]
<1> DEFINE q == Output[t]
           P == pool[q]
           S == slots[q]
           m == made[Maker(q)]
           x == taken[Taker(q)]
           n == mallocs[q]
<1>1. /\ q \in Queues /\ Maker(q) = t
      /\ \A r \in Queues \ {q} : Maker(r) # Maker(q) /\ Taker(r) # Taker(q)
      /\ \A r \in Queues : Maker(r) \in Makers /\ Taker(r) \in Stages
  BY Ends
<1>2. P \in Seq(Address) /\ S \in Seq(Address) /\ m \in Nat /\ x \in Nat /\ n \in Nat
  BY <1>1 DEF MemoryInv, MemoryTypes
<1>3. AllOnce(P, S, m, x, n)
  BY <1>1, OwnedBefore DEF Owned
<1>4. /\ pool \in [Queues -> Seq(Address)] /\ slots \in [Queues -> Seq(Address)]
      /\ made \in [Makers -> Nat] /\ taken \in [Stages -> Nat]
  BY DEF MemoryInv, MemoryTypes
<1>5. m \in Address /\ Append(P, m) \in Seq(Address)
  BY <1>1, <1>2 DEF Address
<1>6. /\ pool' \in [Queues -> Seq(Address)] /\ pool'[q] = Append(P, m)
      /\ \A r \in Queues \ {q} : pool'[r] = pool[r]
  <2>1. pool' = [pool EXCEPT ![q] = Append(P, m)]
    BY <1>1 DEF returnObjectPtr
  <2> QED
    BY <2>1, <1>1, <1>4, <1>5
<1>7. /\ made' \in [Makers -> Nat] /\ made'[t] = 0
      /\ \A u \in Makers \ {t} : made'[u] = made[u]
  BY <1>4
<1>8. AllOnce(Append(P, m), S, 0, x, n)
  <2> HIDE DEF q, P, S, m, x, n
  <2> QED
    BY <1>2, <1>3, <1>5, MadeIntoPool
<1>9. StoreTypes'
  BY <1>4, <1>6, <1>7 DEF StoreTypes, MemoryInv, MemoryTypes
<1>10. Owned(q)'
  BY <1>1, <1>6, <1>7, <1>8 DEF Owned
<1>11. \A r \in Queues \ {q} : SameFor(r)
  BY <1>1, <1>6, <1>7 DEF SameFor
<1>12. \A r \in Queues : Owned(r)'
  <2> HIDE DEF q
  <2> QED
    BY <1>1, <1>10, <1>11, OwnedBefore, OthersOwned
<1>13. MemoryBounded'
  BY DEF MemoryBounded, MemoryInv
<1> QED
  BY <1>1, <1>6, <1>7, <1>9, <1>12, <1>13
-----------------------------------------------------------------------------
(* MemoryInv, step by step.                                                *)

LEMMA StepMoves ==
  ASSUME MemoryInv, NEW t \in Makers \cup Stages, NEW l \in {"idle", "new", "fill", "delete"}, Step(t, l)
  PROVE  /\ step' \in [Makers \cup Stages -> {"idle", "new", "fill", "delete"}]
         /\ step'[t] = l /\ \A u \in (Makers \cup Stages) \ {t} : step'[u] = step[u]
BY DEF MemoryInv, MemoryTypes, Step

LEMMA Together ==
  ASSUME StoreTypes', step' \in [Makers \cup Stages -> {"idle", "new", "fill", "delete"}],
         \A q \in Queues : Owned(q)', MemoryBounded', Custody', ContentIntact', ReaderFills'
  PROVE  MemoryInv'
<1>1. MemoryTypes'
  BY DEF StoreTypes, MemoryTypes
<1> QED
  BY <1>1, OwnedAfter DEF MemoryInv

\* A chunk in a queue lies where its pointer says.
LEMMA SlotOfChunk ==
  ASSUME MemoryInv, IInv, NEW q \in Queues
  PROVE  /\ queue[q] \in Seq(Chunk) /\ slots[q] \in Seq(Address) /\ Len(slots[q]) = Len(queue[q])
         /\ \A i \in 1 .. Len(queue[q]) : content[q][slots[q][i]] = queue[q][i]
<1>1. queue[q] \in Seq(Chunk) /\ slots[q] \in Seq(Address) /\ Len(slots[q]) = Len(queue[q])
  BY DEF MemoryInv, MemoryTypes, Custody, IInv, TypeOK
<1>2. \A i \in DOMAIN queue[q] : content[q][slots[q][i]] = queue[q][i]
  BY DEF MemoryInv, ContentIntact
<1> QED
  BY <1>1, <1>2

\* The chunks in the queues stay where their pointers say when one is pushed or popped.
InPlace ==
  /\ \A q \in Queues : Len(slots[q]) = Len(queue[q])
  /\ \A q \in Queues : \A i \in DOMAIN queue[q] : content[q][slots[q][i]] = queue[q][i]

LEMMA PushedInPlace ==
  ASSUME MemoryInv, IInv, NEW q \in Queues, NEW p \in Address, NEW k \in Chunk, content[q][p] = k,
         push(q, k), slots'[q] = Append(slots[q], p),
         \A r \in Queues \ {q} : slots'[r] = slots[r], UNCHANGED content
  PROVE  InPlace'
<1>1. /\ queue[q] \in Seq(Chunk) /\ slots[q] \in Seq(Address) /\ Len(slots[q]) = Len(queue[q])
      /\ \A i \in 1 .. Len(queue[q]) : content[q][slots[q][i]] = queue[q][i]
  BY SlotOfChunk
<1>2. queue'[q] = Append(queue[q], k) /\ \A r \in Queues \ {q} : queue'[r] = queue[r]
  BY DEF push, IInv, TypeOK
<1>3. /\ Len(queue'[q]) = Len(queue[q]) + 1 /\ Len(slots'[q]) = Len(slots[q]) + 1
      /\ DOMAIN queue'[q] = 1 .. Len(queue[q]) + 1 /\ Len(queue[q]) \in Nat
  BY <1>1, <1>2, LenProperties
<1>4. \A r \in Queues : Len(slots'[r]) = Len(queue'[r])
  BY <1>1, <1>2, <1>3, SlotOfChunk
<1>5. ASSUME NEW i \in 1 .. Len(queue[q]) + 1 PROVE content[q][slots'[q][i]] = queue'[q][i]
  <2>1. CASE i = Len(queue[q]) + 1
    <3>1. slots'[q][i] = p /\ queue'[q][i] = k
      BY <2>1, <1>1, <1>2
    <3> QED
      BY <3>1
  <2>2. CASE i # Len(queue[q]) + 1
    <3>1. i \in 1 .. Len(queue[q])
      BY <2>2, <1>3
    <3>2. slots'[q][i] = slots[q][i] /\ queue'[q][i] = queue[q][i]
      BY <3>1, <1>1, <1>2
    <3> QED
      BY <3>1, <3>2, <1>1
  <2> QED
    BY <2>1, <2>2
<1>6. ASSUME NEW r \in Queues, NEW i \in DOMAIN queue'[r] PROVE content'[r][slots'[r][i]] = queue'[r][i]
  <2>1. CASE r = q
    BY <2>1, <1>3, <1>5
  <2>2. CASE r # q
    <3>1. queue'[r] = queue[r] /\ slots'[r] = slots[r]
      BY <2>2, <1>2
    <3>2. content[r][slots[r][i]] = queue[r][i]
      BY <3>1 DEF MemoryInv, ContentIntact
    <3> QED
      BY <3>1, <3>2
  <2> QED
    BY <2>1, <2>2
<1> QED
  BY <1>4, <1>6 DEF InPlace

LEMMA PoppedInPlace ==
  ASSUME MemoryInv, IInv, NEW q \in Queues, queue[q] # <<>>,
         pop(q), slots'[q] = Tail(slots[q]),
         \A r \in Queues \ {q} : slots'[r] = slots[r], UNCHANGED content
  PROVE  InPlace' /\ slots[q] # <<>> /\ content[q][Head(slots[q])] = Head(queue[q])
<1>1. /\ queue[q] \in Seq(Chunk) /\ slots[q] \in Seq(Address) /\ Len(slots[q]) = Len(queue[q])
      /\ \A i \in 1 .. Len(queue[q]) : content[q][slots[q][i]] = queue[q][i]
  BY SlotOfChunk
<1>2. queue'[q] = Tail(queue[q]) /\ \A r \in Queues \ {q} : queue'[r] = queue[r]
  BY DEF pop, IInv, TypeOK
<1>3. Len(queue[q]) \in Nat /\ Len(queue[q]) > 0 /\ slots[q] # <<>>
  BY <1>1, EmptySeq, LenProperties
<1>4. content[q][Head(slots[q])] = Head(queue[q])
  <2>1. Head(slots[q]) = slots[q][1] /\ Head(queue[q]) = queue[q][1]
    OBVIOUS
  <2> QED
    BY <2>1, <1>1, <1>3
<1>5. /\ Len(queue'[q]) = Len(queue[q]) - 1 /\ Len(slots'[q]) = Len(slots[q]) - 1
      /\ DOMAIN queue'[q] = 1 .. Len(queue[q]) - 1
  BY <1>1, <1>2, <1>3, HeadTailProperties, LenProperties
<1>6. \A r \in Queues : Len(slots'[r]) = Len(queue'[r])
  BY <1>1, <1>2, <1>5, SlotOfChunk
<1>7. ASSUME NEW i \in 1 .. Len(queue[q]) - 1 PROVE content[q][slots'[q][i]] = queue'[q][i]
  <2>1. slots'[q][i] = slots[q][i + 1] /\ queue'[q][i] = queue[q][i + 1]
    BY <1>1, <1>2, <1>3
  <2>2. i + 1 \in 1 .. Len(queue[q])
    BY <1>3
  <2> QED
    BY <2>1, <2>2, <1>1
<1>8. ASSUME NEW r \in Queues, NEW i \in DOMAIN queue'[r] PROVE content'[r][slots'[r][i]] = queue'[r][i]
  <2>1. CASE r = q
    BY <2>1, <1>5, <1>7
  <2>2. CASE r # q
    <3>1. queue'[r] = queue[r] /\ slots'[r] = slots[r]
      BY <2>2, <1>2
    <3>2. content[r][slots[r][i]] = queue[r][i]
      BY <3>1 DEF MemoryInv, ContentIntact
    <3> QED
      BY <3>1, <3>2
  <2> QED
    BY <2>1, <2>2
<1> QED
  BY <1>3, <1>4, <1>6, <1>8 DEF InPlace

LEMMA ReaderNewKeeps == MemoryInv /\ IInv /\ ReaderNew => MemoryInv'
<1> SUFFICES ASSUME MemoryInv, IInv, ReaderNew PROVE MemoryInv'
  OBVIOUS
<1> DEFINE t == "reader"
<1>1. t \in Makers /\ t \notin Stages /\ Output[t] = "fragmentQueue" /\ \A s \in Workers : s \in Makers \ {t} /\ s \in Stages
  BY QueueEnds
<1>2. made[t] = 0 /\ step[t] = "idle" /\ read + 1 \in Nat
  BY <1>1, Constants DEF ReaderNew, MemoryInv, Custody, IInv, TypeOK
<1>3. /\ StoreTypes' /\ (\A r \in Queues : Owned(r)') /\ MemoryBounded'
      /\ made'[t] # 0 /\ content'[Output[t]][made'[t]] = read + 1
      /\ \A u \in Makers \ {t} : made'[u] = made[u]
      /\ \A r \in Queues : \A i \in DOMAIN slots[r] : content'[r][slots[r][i]] = content[r][slots[r][i]]
      /\ \A s \in Stages : taken[s] # 0 => content'[Input[s]][taken[s]] = content[Input[s]][taken[s]]
      /\ \A u \in Makers \ {t} : content'[Output[u]] = content[Output[u]]
  BY <1>1, <1>2, HandOut DEF ReaderNew
<1>4. /\ step' \in [Makers \cup Stages -> {"idle", "new", "fill", "delete"}]
      /\ step'[t] = "fill" /\ \A u \in (Makers \cup Stages) \ {t} : step'[u] = step[u]
  BY <1>1, StepMoves DEF ReaderNew
<1>5. UNCHANGED <<queue, hold, read, slots, taken>>
  BY DEF ReaderNew, vars
<1>6. Custody'
  BY <1>1, <1>3, <1>4, <1>5, QueueEnds DEF MemoryInv, Custody
<1>7. ContentIntact'
  <2>1. ASSUME NEW q \in Queues, NEW i \in DOMAIN queue'[q] PROVE content'[q][slots'[q][i]] = queue'[q][i]
    BY <2>1, <1>3, <1>5, SlotOfChunk
  <2>2. ASSUME NEW s \in Stages, hold'[s] # 0 PROVE content'[Input[s]][taken'[s]] = hold'[s]
    <3>1. hold[s] # 0 /\ content[Input[s]][taken[s]] = hold[s]
      BY <2>2, <1>5 DEF MemoryInv, ContentIntact
    <3>2. taken[s] # 0
      BY <3>1, QueueEnds DEF MemoryInv, Custody
    <3> QED
      BY <3>1, <3>2, <1>3, <1>5
  <2>3. ASSUME NEW s \in Workers, hold'[s] # 0, step'[s] = "fill" PROVE content'[Output[s]][made'[s]] = hold'[s]
    <3>1. content[Output[s]][made[s]] = hold[s]
      BY <2>3, <1>1, <1>4, <1>5 DEF MemoryInv, ContentIntact
    <3> QED
      BY <3>1, <1>1, <1>3, <1>5
  <2> QED
    BY <2>1, <2>2, <2>3 DEF ContentIntact
<1>8. ReaderFills'
  BY <1>1, <1>3, <1>5 DEF ReaderFills
<1> QED
  BY <1>3, <1>4, <1>6, <1>7, <1>8, Together

LEMMA NotMoved == MemoryInv /\ UNCHANGED <<queue, slots, content>> => InPlace'
BY DEF MemoryInv, Custody, ContentIntact, InPlace

LEMMA ReaderDeleteKeeps == MemoryInv /\ ReaderDelete => MemoryInv'
<1> SUFFICES ASSUME MemoryInv, ReaderDelete PROVE MemoryInv'
  OBVIOUS
<1> DEFINE t == "reader"
<1>1. t \in Makers /\ t \notin Stages /\ \A s \in Workers : s \in Makers \ {t} /\ s \in Stages
  BY QueueEnds
<1>2. made[t] # 0 /\ step[t] = "fill"
  BY <1>1 DEF ReaderDelete, MemoryInv, Custody
<1>3. /\ StoreTypes' /\ (\A r \in Queues : Owned(r)') /\ MemoryBounded'
      /\ made'[t] = 0 /\ \A u \in Makers \ {t} : made'[u] = made[u]
  BY <1>1, <1>2, PutBackMade DEF ReaderDelete
<1>4. /\ step' \in [Makers \cup Stages -> {"idle", "new", "fill", "delete"}]
      /\ step'[t] = "idle" /\ \A u \in (Makers \cup Stages) \ {t} : step'[u] = step[u]
  BY <1>1, StepMoves DEF ReaderDelete
<1>5. UNCHANGED <<queue, hold, read, slots, taken, content>>
  BY DEF ReaderDelete, vars
<1>6. Custody'
  BY <1>1, <1>3, <1>4, <1>5, QueueEnds DEF MemoryInv, Custody
<1>7. ContentIntact'
  BY <1>1, <1>3, <1>4, <1>5 DEF MemoryInv, ContentIntact
<1>8. ReaderFills'
  BY <1>4 DEF ReaderFills
<1> QED
  BY <1>3, <1>4, <1>6, <1>7, <1>8, Together

LEMMA ReaderMoveKeeps == MemoryInv /\ IInv /\ ReaderMove => MemoryInv'
<1> SUFFICES ASSUME MemoryInv, IInv, ReaderMove PROVE MemoryInv'
  OBVIOUS
<1> DEFINE t == "reader"
           q == Output[t]
<1>1. t \in Makers /\ t \notin Stages /\ q = "fragmentQueue" /\ q \in Queues /\ \A s \in Workers : s \in Makers \ {t} /\ s \in Stages
  BY QueueEnds
<1>2. made[t] # 0 /\ made[t] \in Address /\ step[t] = "fill" /\ content[q][made[t]] = read + 1
  BY <1>1 DEF ReaderMove, MemoryInv, MemoryTypes, Custody, ReaderFills, Address
<1>3. read + 1 \in Chunk /\ push(q, read + 1)
  BY Constants DEF ReaderMove, ReaderPush, IInv, TypeOK, Chunk
<1>4. UNCHANGED <<hold, pool, mallocs, content, taken>> /\ Move(t)
  BY DEF ReaderMove, ReaderPush
<1>5. /\ StoreTypes' /\ (\A r \in Queues : Owned(r)') /\ MemoryBounded'
      /\ made'[t] = 0 /\ \A u \in Makers \ {t} : made'[u] = made[u]
      /\ slots'[q] = Append(slots[q], made[t])
      /\ \A r \in Queues \ {q} : slots'[r] = slots[r]
  BY <1>1, <1>2, <1>4, HandOn
<1>6. /\ step' \in [Makers \cup Stages -> {"idle", "new", "fill", "delete"}]
      /\ step'[t] = "idle" /\ \A u \in (Makers \cup Stages) \ {t} : step'[u] = step[u]
  BY <1>1, StepMoves DEF ReaderMove
<1>7. InPlace'
  <2> DEFINE m == made[t]
             k == read + 1
  <2>1. m \in Address /\ k \in Chunk /\ content[q][m] = k /\ push(q, k) /\ slots'[q] = Append(slots[q], m)
    BY <1>2, <1>3, <1>5
  <2> HIDE DEF q, m, k
  <2> QED
    BY <2>1, <1>1, <1>4, <1>5, PushedInPlace
<1>8. Custody'
  BY <1>1, <1>4, <1>5, <1>6, <1>7, QueueEnds DEF MemoryInv, Custody, InPlace
<1>9. ContentIntact'
  BY <1>1, <1>4, <1>5, <1>6, <1>7 DEF MemoryInv, ContentIntact, InPlace
<1>10. ReaderFills'
  BY <1>6 DEF ReaderFills
<1> QED
  BY <1>5, <1>6, <1>8, <1>9, <1>10, Together

\* A step that touches no memory and at most lets go of a chunk's number.
LEMMA NoMemoryStep ==
  ASSUME MemoryInv, UNCHANGED memory, UNCHANGED <<queue, read>>,
         \A s \in Stages : hold'[s] = 0 \/ hold'[s] = hold[s]
  PROVE  MemoryInv'
<1>1. UNCHANGED <<pool, mallocs, content, slots, taken, made, step>>
  BY DEF memory
<1>2. StoreTypes' /\ step' \in [Makers \cup Stages -> {"idle", "new", "fill", "delete"}]
  BY <1>1 DEF MemoryInv, MemoryTypes, StoreTypes
<1>3. \A q \in Queues : Owned(q)'
  BY <1>1, OwnedBefore DEF Owned
<1>4. Custody'
  BY <1>1, QueueEnds DEF MemoryInv, Custody
<1>5. ContentIntact'
  BY <1>1, QueueEnds DEF MemoryInv, ContentIntact
<1>6. ReaderFills' /\ MemoryBounded'
  BY <1>1 DEF MemoryInv, ReaderFills, MemoryBounded
<1> QED
  BY <1>2, <1>3, <1>4, <1>5, <1>6, Together

LEMMA TakeKeeps ==
  ASSUME MemoryInv, IInv, NEW s \in Stages, step[s] = "idle", Take(s), UNCHANGED <<pool, read>>,
         ~empty(Input[s]), pop(Input[s]), Step(s, IF s = "payloads" THEN "delete" ELSE "new"),
         hold'[s] = 0 \/ hold'[s] = Head(queue[Input[s]]),
         \A u \in Stages \ {s} : hold'[u] = hold[u]
  PROVE  MemoryInv'
<1> DEFINE q == Input[s]
           l == IF s = "payloads" THEN "delete" ELSE "new"
<1>1. q \in Queues /\ s # "reader" /\ \A u \in Stages \ {s} : Input[u] # q
  BY QueueEnds, Ends
<1>2. taken[s] = 0 /\ queue[q] # <<>> /\ pop(q)
  BY QueueEnds DEF MemoryInv, Custody, empty
<1>3. UNCHANGED <<content, mallocs, made>> /\ slots' = [slots EXCEPT ![q] = Tail(slots[q])]
  BY DEF Take
<1>4. slots \in [Queues -> Seq(Address)]
  BY DEF MemoryInv, MemoryTypes
<1>5. slots'[q] = Tail(slots[q]) /\ \A r \in Queues \ {q} : slots'[r] = slots[r]
  BY <1>1, <1>3, <1>4
<1>6. InPlace' /\ slots[q] # <<>> /\ content[q][Head(slots[q])] = Head(queue[q])
  <2> HIDE DEF q
  <2> QED
    BY <1>1, <1>2, <1>3, <1>5, PoppedInPlace
<1>7. /\ StoreTypes' /\ (\A r \in Queues : Owned(r)') /\ MemoryBounded'
      /\ taken'[s] = Head(slots[q]) /\ taken'[s] # 0
      /\ \A u \in Stages \ {s} : taken'[u] = taken[u]
  BY <1>2, <1>6, TakeOut
<1>8. /\ step' \in [Makers \cup Stages -> {"idle", "new", "fill", "delete"}]
      /\ step'[s] = l /\ \A u \in (Makers \cup Stages) \ {s} : step'[u] = step[u]
  BY StepMoves
<1>9. Custody'
  <2>1. \A r \in Queues : Len(slots'[r]) = Len(queue'[r])
    BY <1>6 DEF InPlace
  <2>2. \A t \in Makers : made'[t] # 0 <=> step'[t] = "fill"
    BY <1>3, <1>8, QueueEnds DEF MemoryInv, Custody
  <2>3. \A u \in Stages : taken'[u] # 0 <=> step'[u] # "idle"
    BY <1>7, <1>8, QueueEnds DEF MemoryInv, Custody
  <2>4. step'["reader"] \in {"idle", "fill"} /\ step'["payloads"] \in {"idle", "delete"}
    BY <1>1, <1>8, QueueEnds DEF MemoryInv, Custody
  <2>5. \A u \in Workers : hold'[u] # 0 => step'[u] \in {"new", "fill"}
    BY <1>8, QueueEnds DEF MemoryInv, Custody
  <2>6. hold'["payloads"] # 0 => step'["payloads"] = "delete"
    BY <1>8, QueueEnds DEF MemoryInv, Custody
  <2> QED
    BY <2>1, <2>2, <2>3, <2>4, <2>5, <2>6 DEF Custody
<1>10. ContentIntact'
  <2>1. \A u \in Stages : hold'[u] # 0 => content'[Input[u]][taken'[u]] = hold'[u]
    BY <1>3, <1>6, <1>7 DEF MemoryInv, ContentIntact
  <2>2. \A u \in Workers : hold'[u] # 0 /\ step'[u] = "fill" => content'[Output[u]][made'[u]] = hold'[u]
    BY <1>3, <1>8, QueueEnds DEF MemoryInv, ContentIntact
  <2> QED
    BY <2>1, <2>2, <1>6 DEF ContentIntact, InPlace
<1>11. ReaderFills'
  BY <1>1, <1>3, <1>8, QueueEnds DEF MemoryInv, ReaderFills
<1> QED
  BY <1>7, <1>8, <1>9, <1>10, <1>11, Together

LEMMA DeleteTakenKeeps ==
  ASSUME MemoryInv, NEW s \in Stages, step[s] \notin {"idle", "fill"}, hold[s] = 0,
         UNCHANGED vars, DeleteTaken(s)
  PROVE  MemoryInv'
<1>1. s # "reader"
  BY QueueEnds
<1>2. taken[s] # 0 /\ UNCHANGED <<mallocs, content, slots, made, queue, hold, read>>
  BY DEF DeleteTaken, MemoryInv, Custody, vars
<1>3. /\ StoreTypes' /\ (\A r \in Queues : Owned(r)') /\ MemoryBounded'
      /\ taken'[s] = 0 /\ \A u \in Stages \ {s} : taken'[u] = taken[u]
  BY <1>2, PutBackRead DEF DeleteTaken
<1>4. /\ step' \in [Makers \cup Stages -> {"idle", "new", "fill", "delete"}]
      /\ step'[s] = "idle" /\ \A u \in (Makers \cup Stages) \ {s} : step'[u] = step[u]
  BY StepMoves DEF DeleteTaken
<1>5. Custody'
  <2>1. \A t \in Makers : made'[t] # 0 <=> step'[t] = "fill"
    BY <1>2, <1>4, QueueEnds DEF MemoryInv, Custody
  <2>2. \A u \in Stages : taken'[u] # 0 <=> step'[u] # "idle"
    BY <1>3, <1>4, QueueEnds DEF MemoryInv, Custody
  <2>3. step'["reader"] \in {"idle", "fill"} /\ step'["payloads"] \in {"idle", "delete"}
    BY <1>1, <1>4, QueueEnds DEF MemoryInv, Custody
  <2> QED
    BY <2>1, <2>2, <2>3, <1>2, <1>4, QueueEnds DEF MemoryInv, Custody
<1>6. ContentIntact'
  BY <1>2, <1>3, <1>4, QueueEnds DEF MemoryInv, ContentIntact
<1>7. ReaderFills'
  BY <1>1, <1>2, <1>4, QueueEnds DEF MemoryInv, ReaderFills
<1> QED
  BY <1>3, <1>4, <1>5, <1>6, <1>7, Together

LEMMA StageNewKeeps ==
  ASSUME MemoryInv, IInv, NEW s \in Workers, StageNew(s)
  PROVE  MemoryInv'
<1> DEFINE v == content[Input[s]][taken[s]]
<1>1. /\ s \in Makers /\ s \in Stages /\ s # "reader" /\ s # "payloads" /\ "reader" \in Makers \ {s}
      /\ Output["reader"] = "fragmentQueue" /\ \A u \in Workers \ {s} : u \in Makers \ {s} /\ u \in Stages
  BY QueueEnds
<1>2. step[s] = "new" /\ made[s] = 0 /\ taken[s] # 0
  BY <1>1 DEF StageNew, MemoryInv, Custody
<1>3. v \in Nat
  <2>1. Owned(Input[s]) /\ Input[s] \in Queues /\ Taker(Input[s]) = s
    BY <1>1, OwnedBefore, Ends
  <2>2. taken[s] \in 1 .. mallocs[Input[s]]
    BY <2>1, <1>2 DEF Owned, AllOnce, Some
  <2>3. taken[s] \in Heap
    BY <2>1, <2>2, Constants DEF MemoryInv, MemoryTypes, MemoryBounded, Heap
  <2> QED
    BY <2>1, <2>3 DEF MemoryInv, MemoryTypes
<1>4. /\ StoreTypes' /\ (\A r \in Queues : Owned(r)') /\ MemoryBounded'
      /\ made'[s] # 0 /\ content'[Output[s]][made'[s]] = v
      /\ \A u \in Makers \ {s} : made'[u] = made[u]
      /\ \A r \in Queues : \A i \in DOMAIN slots[r] : content'[r][slots[r][i]] = content[r][slots[r][i]]
      /\ \A u \in Stages : taken[u] # 0 => content'[Input[u]][taken[u]] = content[Input[u]][taken[u]]
      /\ \A u \in Makers \ {s} : content'[Output[u]] = content[Output[u]]
  BY <1>1, <1>2, <1>3, HandOut DEF StageNew
<1>5. /\ step' \in [Makers \cup Stages -> {"idle", "new", "fill", "delete"}]
      /\ step'[s] = "fill" /\ \A u \in (Makers \cup Stages) \ {s} : step'[u] = step[u]
  BY <1>1, StepMoves DEF StageNew
<1>6. UNCHANGED <<queue, hold, read, slots, taken>>
  BY DEF StageNew, vars
<1>7. Custody'
  <2>1. \A t \in Makers : made'[t] # 0 <=> step'[t] = "fill"
    BY <1>4, <1>5, QueueEnds DEF MemoryInv, Custody
  <2>2. \A u \in Stages : taken'[u] # 0 <=> step'[u] # "idle"
    BY <1>2, <1>5, <1>6, QueueEnds DEF MemoryInv, Custody
  <2>3. step'["reader"] \in {"idle", "fill"} /\ step'["payloads"] \in {"idle", "delete"}
    BY <1>1, <1>5, QueueEnds DEF MemoryInv, Custody
  <2>4. \A u \in Workers : hold'[u] # 0 => step'[u] \in {"new", "fill"}
    BY <1>5, <1>6, QueueEnds DEF MemoryInv, Custody
  <2>5. hold'["payloads"] # 0 => step'["payloads"] = "delete"
    BY <1>1, <1>5, <1>6, QueueEnds DEF MemoryInv, Custody
  <2>6. \A r \in Queues : Len(slots'[r]) = Len(queue'[r])
    BY <1>6 DEF MemoryInv, Custody
  <2> QED
    BY <2>1, <2>2, <2>3, <2>4, <2>5, <2>6 DEF Custody
<1>8. ContentIntact'
  <2>1. ASSUME NEW q \in Queues, NEW i \in DOMAIN queue'[q] PROVE content'[q][slots'[q][i]] = queue'[q][i]
    BY <2>1, <1>4, <1>6, SlotOfChunk
  <2>2. ASSUME NEW u \in Stages, hold'[u] # 0 PROVE content'[Input[u]][taken'[u]] = hold'[u]
    <3>1. hold[u] # 0 /\ content[Input[u]][taken[u]] = hold[u]
      BY <2>2, <1>6 DEF MemoryInv, ContentIntact
    <3>2. taken[u] # 0
      BY <3>1, QueueEnds DEF MemoryInv, Custody
    <3> QED
      BY <3>1, <3>2, <1>4, <1>6
  <2>3. ASSUME NEW u \in Workers, hold'[u] # 0, step'[u] = "fill" PROVE content'[Output[u]][made'[u]] = hold'[u]
    <3>1. CASE u = s
      <4>1. hold[s] # 0
        BY <2>3, <3>1, <1>6
      <4>2. v = hold[s]
        BY <4>1, <1>1 DEF MemoryInv, ContentIntact
      <4> QED
        BY <3>1, <4>2, <1>4, <1>6
    <3>2. CASE u # s
      <4>1. content[Output[u]][made[u]] = hold[u]
        BY <2>3, <3>2, <1>1, <1>5, <1>6 DEF MemoryInv, ContentIntact
      <4> QED
        BY <3>2, <4>1, <1>1, <1>4, <1>6
    <3> QED
      BY <3>1, <3>2
  <2> QED
    BY <2>1, <2>2, <2>3 DEF ContentIntact
<1>9. ReaderFills'
  BY <1>1, <1>4, <1>5, <1>6, QueueEnds DEF MemoryInv, ReaderFills
<1> QED
  BY <1>4, <1>5, <1>7, <1>8, <1>9, Together

LEMMA StageMoveKeeps ==
  ASSUME MemoryInv, IInv, NEW s \in Workers, StageMove(s)
  PROVE  MemoryInv'
<1> DEFINE q == Output[s]
<1>1. /\ s \in Makers /\ s \in Stages /\ s # "reader" /\ s # "payloads" /\ "reader" \in Makers \ {s}
      /\ q \in Queues /\ \A u \in Workers \ {s} : u \in Makers \ {s} /\ u \in Stages
  BY QueueEnds, Ends
<1>2. made[s] # 0 /\ made[s] \in Address /\ step[s] = "fill"
  BY <1>1 DEF StageMove, MemoryInv, MemoryTypes, Custody, Address
<1>3. hold[s] # 0 /\ hold[s] \in Chunk /\ content[q][made[s]] = hold[s]
  <2>1. pc[s] = "push"
    BY DEF StageMove, StagePush
  <2>2. hold[s] # 0 /\ hold[s] \in 0 .. NumChunks
    BY <1>1, <2>1 DEF IInv, Phases, TypeOK
  <2>3. content[q][made[s]] = hold[s]
    BY <1>2, <2>2 DEF MemoryInv, ContentIntact
  <2> QED
    BY <2>2, <2>3, Constants DEF Chunk
<1>4. /\ UNCHANGED <<pool, mallocs, content, taken, read>> /\ Move(s) /\ push(q, hold[s])
      /\ hold' = [hold EXCEPT ![s] = 0] /\ hold \in [Stages -> 0 .. NumChunks]
  BY DEF StageMove, StagePush, IInv, TypeOK
<1>5. hold'[s] = 0 /\ \A u \in Stages \ {s} : hold'[u] = hold[u]
  BY <1>1, <1>4
<1>6. /\ StoreTypes' /\ (\A r \in Queues : Owned(r)') /\ MemoryBounded'
      /\ made'[s] = 0 /\ \A u \in Makers \ {s} : made'[u] = made[u]
      /\ slots'[q] = Append(slots[q], made[s])
      /\ \A r \in Queues \ {q} : slots'[r] = slots[r]
  BY <1>1, <1>2, <1>4, HandOn
<1>7. /\ step' \in [Makers \cup Stages -> {"idle", "new", "fill", "delete"}]
      /\ step'[s] = "delete" /\ \A u \in (Makers \cup Stages) \ {s} : step'[u] = step[u]
  BY <1>1, StepMoves DEF StageMove
<1>8. InPlace'
  <2> DEFINE m == made[s]
             k == hold[s]
  <2>1. m \in Address /\ k \in Chunk /\ content[q][m] = k /\ push(q, k) /\ slots'[q] = Append(slots[q], m)
    BY <1>2, <1>3, <1>4, <1>6
  <2> HIDE DEF q, m, k
  <2> QED
    BY <2>1, <1>1, <1>4, <1>6, PushedInPlace
<1>9. Custody'
  <2>1. \A t \in Makers : made'[t] # 0 <=> step'[t] = "fill"
    BY <1>6, <1>7, QueueEnds DEF MemoryInv, Custody
  <2>2. \A u \in Stages : taken'[u] # 0 <=> step'[u] # "idle"
    BY <1>2, <1>4, <1>7, QueueEnds DEF MemoryInv, Custody
  <2>3. step'["reader"] \in {"idle", "fill"} /\ step'["payloads"] \in {"idle", "delete"}
    BY <1>1, <1>7, QueueEnds DEF MemoryInv, Custody
  <2>4. \A u \in Workers : hold'[u] # 0 => step'[u] \in {"new", "fill"}
    BY <1>5, <1>7, QueueEnds DEF MemoryInv, Custody
  <2>5. hold'["payloads"] # 0 => step'["payloads"] = "delete"
    BY <1>1, <1>5, <1>7, QueueEnds DEF MemoryInv, Custody
  <2> QED
    BY <2>1, <2>2, <2>3, <2>4, <2>5, <1>8 DEF Custody, InPlace
<1>10. ContentIntact'
  <2>1. \A u \in Stages : hold'[u] # 0 => content'[Input[u]][taken'[u]] = hold'[u]
    BY <1>4, <1>5 DEF MemoryInv, ContentIntact
  <2>2. \A u \in Workers : hold'[u] # 0 /\ step'[u] = "fill" => content'[Output[u]][made'[u]] = hold'[u]
    BY <1>1, <1>4, <1>5, <1>6, <1>7 DEF MemoryInv, ContentIntact
  <2> QED
    BY <2>1, <2>2, <1>8 DEF ContentIntact, InPlace
<1>11. ReaderFills'
  BY <1>1, <1>4, <1>6, <1>7 DEF MemoryInv, ReaderFills
<1> QED
  BY <1>6, <1>7, <1>9, <1>10, <1>11, Together

LEMMA StageDeleteMadeKeeps ==
  ASSUME MemoryInv, NEW s \in Workers, StageDeleteMade(s)
  PROVE  MemoryInv'
<1>1. /\ s \in Makers /\ s \in Stages /\ s # "reader" /\ s # "payloads" /\ "reader" \in Makers \ {s}
      /\ \A u \in Workers \ {s} : u \in Makers \ {s} /\ u \in Stages
  BY QueueEnds
<1>2. made[s] # 0 /\ step[s] = "fill" /\ hold[s] = 0
  BY <1>1 DEF StageDeleteMade, MemoryInv, Custody
<1>3. /\ StoreTypes' /\ (\A r \in Queues : Owned(r)') /\ MemoryBounded'
      /\ made'[s] = 0 /\ \A u \in Makers \ {s} : made'[u] = made[u]
  BY <1>1, <1>2, PutBackMade DEF StageDeleteMade
<1>4. /\ step' \in [Makers \cup Stages -> {"idle", "new", "fill", "delete"}]
      /\ step'[s] = "delete" /\ \A u \in (Makers \cup Stages) \ {s} : step'[u] = step[u]
  BY <1>1, StepMoves DEF StageDeleteMade
<1>5. UNCHANGED <<queue, hold, read, slots, taken, content>>
  BY DEF StageDeleteMade, vars
<1>6. Custody'
  <2>1. \A t \in Makers : made'[t] # 0 <=> step'[t] = "fill"
    BY <1>3, <1>4, QueueEnds DEF MemoryInv, Custody
  <2>2. \A u \in Stages : taken'[u] # 0 <=> step'[u] # "idle"
    BY <1>2, <1>4, <1>5, QueueEnds DEF MemoryInv, Custody
  <2>3. step'["reader"] \in {"idle", "fill"} /\ step'["payloads"] \in {"idle", "delete"}
    BY <1>1, <1>4, QueueEnds DEF MemoryInv, Custody
  <2> QED
    BY <2>1, <2>2, <2>3, <1>2, <1>4, <1>5, QueueEnds DEF MemoryInv, Custody
<1>7. ContentIntact'
  <2>1. \A u \in Workers : hold'[u] # 0 /\ step'[u] = "fill" => content'[Output[u]][made'[u]] = hold'[u]
    BY <1>1, <1>2, <1>3, <1>4, <1>5 DEF MemoryInv, ContentIntact
  <2> QED
    BY <2>1, <1>5 DEF MemoryInv, ContentIntact
<1>8. ReaderFills'
  BY <1>1, <1>3, <1>4, <1>5 DEF MemoryInv, ReaderFills
<1> QED
  BY <1>3, <1>4, <1>6, <1>7, <1>8, Together

LEMMA StageTakeKeeps ==
  ASSUME MemoryInv, IInv, NEW s \in Workers, StageTake(s)
  PROVE  MemoryInv'
<1>1. s \in Stages /\ s # "payloads" /\ hold \in [Stages -> 0 .. NumChunks]
  BY QueueEnds DEF IInv, TypeOK
<1>2. /\ step[s] = "idle" /\ Take(s) /\ UNCHANGED <<pool, read>>
      /\ ~empty(Input[s]) /\ pop(Input[s]) /\ Step(s, IF s = "payloads" THEN "delete" ELSE "new")
  BY <1>1 DEF StageTake, StagePop, StageDrop
<1>3. /\ hold'[s] = 0 \/ hold'[s] = Head(queue[Input[s]])
      /\ \A u \in Stages \ {s} : hold'[u] = hold[u]
  <2>1. CASE StagePop(s)
    BY <2>1, <1>1 DEF StagePop
  <2>2. CASE StageDrop(s)
    BY <2>2, <1>1 DEF StageDrop, IInv, Phases
  <2> QED
    BY <2>1, <2>2 DEF StageTake
<1> QED
  BY <1>1, <1>2, <1>3, TakeKeeps

LEMMA MemoryStepKeeps ==
  ASSUME MemoryInv, IInv, NEW s \in Workers, MemoryStep(s)
  PROVE  MemoryInv'
<1>1. CASE StageTake(s)
  BY <1>1, StageTakeKeeps
<1>2. CASE StageNew(s)
  BY <1>2, StageNewKeeps
<1>3. CASE StageMove(s)
  BY <1>3, StageMoveKeeps
<1>4. CASE StageDeleteMade(s)
  BY <1>4, StageDeleteMadeKeeps
<1>5. CASE StageDelete(s)
  <2>1. s \in Stages /\ step[s] = "delete" /\ DeleteTaken(s) /\ UNCHANGED vars
    BY <1>5, QueueEnds DEF StageDelete, DeleteTaken
  <2>2. hold[s] = 0
    BY <2>1 DEF MemoryInv, Custody
  <2> QED
    BY <2>1, <2>2, DeleteTakenKeeps
<1>6. CASE StageLoop(s)
  <2>1. UNCHANGED memory /\ UNCHANGED <<queue, read, hold>>
    BY <1>6 DEF StageLoop, PopTimeout, CheckFinished, CheckEmpty
  <2> QED
    BY <2>1, NoMemoryStep
<1> QED
  BY <1>1, <1>2, <1>3, <1>4, <1>5, <1>6 DEF MemoryStep

LEMMA PayloadsTakeKeeps == MemoryInv /\ IInv /\ PayloadsTake => MemoryInv'
<1> SUFFICES ASSUME MemoryInv, IInv, PayloadsTake PROVE MemoryInv'
  OBVIOUS
<1> DEFINE s == "payloads"
<1>1. s \in Stages /\ hold \in [Stages -> 0 .. NumChunks] /\ Input[s] = "payloadQueue"
  BY QueueEnds DEF IInv, TypeOK
<1>2. /\ step[s] = "idle" /\ Take(s) /\ UNCHANGED <<pool, read>>
      /\ ~empty(Input[s]) /\ pop(Input[s]) /\ Step(s, IF s = "payloads" THEN "delete" ELSE "new")
  BY <1>1 DEF PayloadsTake, PayloadsPop
<1>3. /\ hold'[s] = Head(queue[Input[s]])
      /\ \A u \in Stages \ {s} : hold'[u] = hold[u]
  BY <1>1 DEF PayloadsTake, PayloadsPop
<1> QED
  BY <1>1, <1>2, <1>3, TakeKeeps

LEMMA PayloadsLoopKeeps == MemoryInv /\ IInv /\ PayloadsLoop => MemoryInv'
<1> SUFFICES ASSUME MemoryInv, IInv, PayloadsLoop PROVE MemoryInv'
  OBVIOUS
<1>1. UNCHANGED memory /\ UNCHANGED <<queue, read>>
  BY DEF PayloadsLoop, Plot, PopTimeout, CheckFinished, CheckEmpty
<1>2. hold' = hold \/ hold' = [hold EXCEPT !["payloads"] = 0]
  BY DEF PayloadsLoop, Plot, PopTimeout, CheckFinished, CheckEmpty
<1>3. \A s \in Stages : hold'[s] = 0 \/ hold'[s] = hold[s]
  BY <1>2 DEF IInv, TypeOK
<1> QED
  BY <1>1, <1>3, NoMemoryStep

LEMMA PayloadsDeleteKeeps == MemoryInv /\ IInv /\ PayloadsDelete => MemoryInv'
<1> SUFFICES ASSUME MemoryInv, IInv, PayloadsDelete PROVE MemoryInv'
  OBVIOUS
<1>1. "payloads" \in Stages /\ step["payloads"] = "delete" /\ DeleteTaken("payloads") /\ UNCHANGED vars
  BY QueueEnds DEF PayloadsDelete, DeleteTaken
<1>2. hold["payloads"] = 0
  BY DEF PayloadsDelete, IInv, Phases
<1> QED
  BY <1>1, <1>2, DeleteTakenKeeps

LEMMA ReaderEndKeeps == MemoryInv /\ ReaderEnd => MemoryInv'
BY NoMemoryStep DEF ReaderEnd, ReaderFinish

LEMMA InitMemoryInv == MemoryInit => MemoryInv
<1> SUFFICES ASSUME MemoryInit PROVE MemoryInv
  OBVIOUS
<1>1. /\ pool = [q \in Queues |-> <<>>] /\ mallocs = [q \in Queues |-> 0]
      /\ content = [q \in Queues |-> [p \in Heap |-> 0]]
      /\ slots = [q \in Queues |-> <<>>]
      /\ taken = [s \in Stages |-> 0] /\ made = [t \in Makers |-> 0]
      /\ step = [t \in Makers \cup Stages |-> "idle"]
      /\ queue = [q \in Queues |-> <<>>] /\ hold = [s \in Stages |-> 0]
  BY DEF MemoryInit, Init
<1>2. MemoryTypes
  BY <1>1 DEF MemoryTypes
<1>3. Custody
  BY <1>1, QueueEnds DEF Custody
<1>4. OneOwner
  <2>1. ASSUME NEW q \in Queues PROVE Len(Held(q)) = mallocs[q] /\ Range(Held(q)) = 1 .. mallocs[q]
    <3>1. pool[q] = <<>> /\ slots[q] = <<>> /\ mallocs[q] = 0 /\ made[Maker(q)] = 0 /\ taken[Taker(q)] = 0
      BY <1>1, Ends
    <3>2. Held(q) = <<>>
      BY <3>1 DEF Held, Pointer
    <3> QED
      BY <3>1, <3>2 DEF Range
  <2> QED
    BY <2>1 DEF OneOwner
<1>5. MemoryBounded
  BY <1>1, Constants DEF MemoryBounded
<1>6. ContentIntact /\ ReaderFills
  BY <1>1, QueueEnds DEF ContentIntact, ReaderFills
<1> QED
  BY <1>2, <1>3, <1>4, <1>5, <1>6 DEF MemoryInv

LEMMA NextMemoryInv == MemoryInv /\ IInv /\ [MemoryNext]_<<vars, memory>> => MemoryInv'
<1> SUFFICES ASSUME MemoryInv, IInv, [MemoryNext]_<<vars, memory>> PROVE MemoryInv'
  OBVIOUS
<1>1. CASE ReaderNew \/ ReaderDelete \/ ReaderMove \/ ReaderEnd
  BY <1>1, ReaderNewKeeps, ReaderDeleteKeeps, ReaderMoveKeeps, ReaderEndKeeps
<1>2. CASE \E s \in Workers : MemoryStep(s)
  BY <1>2, MemoryStepKeeps
<1>3. CASE PayloadsTake \/ PayloadsLoop \/ PayloadsDelete
  BY <1>3, PayloadsTakeKeeps, PayloadsLoopKeeps, PayloadsDeleteKeeps
<1>4. CASE UNCHANGED <<vars, memory>>
  BY <1>4, NoMemoryStep DEF vars
<1> QED
  BY <1>1, <1>2, <1>3, <1>4 DEF MemoryNext
-----------------------------------------------------------------------------
THEOREM MemoryInvariant == MemorySpec => []MemoryInv
<1>1. MemorySpec => []IInv
  BY MemoryImplementsPipeline, PipelineInvariant, PTL
<1>2. MemoryInv /\ IInv /\ [MemoryNext]_<<vars, memory>> => MemoryInv'
  BY NextMemoryInv
<1>3. MemoryInit => MemoryInv
  BY InitMemoryInv
<1> QED
  BY <1>1, <1>2, <1>3, PTL DEF MemorySpec

\* Two threads never hold the same chunk, and no chunk leaks: whatever the order in
\* which a producer and a consumer reach the pool they share (mem_pool.h), every
\* chunk taken from the heap is free, in the queue, or with one thread.
THEOREM EveryChunkHasOneOwner == MemorySpec => []OneOwner
<1>1. MemoryInv => OneOwner
  BY DEF MemoryInv
<1> QED
  BY <1>1, MemoryInvariant, PTL

\* A chunk still holds what was put into it when the next thread reads it.
THEOREM ChunksKeepTheirContent == MemorySpec => []ContentIntact
<1>1. MemoryInv => ContentIntact
  BY DEF MemoryInv
<1> QED
  BY <1>1, MemoryInvariant, PTL

\* The pools grow to Capacity + 2 chunks of a type and no further.
THEOREM QueuesBoundMemory == MemorySpec => []MemoryBounded
<1>1. MemoryInv => MemoryBounded
  BY DEF MemoryInv
<1> QED
  BY <1>1, MemoryInvariant, PTL

=============================================================================
