------------------------ MODULE BlockingQueueProofs ------------------------
(***************************************************************************)
(* BlockingQueue is correct for every ring size, counter width, number of  *)
(* threads and number of values: the type invariant, the refinement of the *)
(* bounded FIFO, and, for one producer and one consumer, the absence of    *)
(* missed wake-ups.                                                        *)
(***************************************************************************)
EXTENDS BlockingQueue, SequenceTheorems, FiniteSetTheorems, FunctionTheorems, TLAPS

(***************************************************************************)
(* Slots.  Slot is a modulus, so first the arithmetic: N consecutive       *)
(* counters have distinct slots, and a counter that wraps keeps its slot,  *)
(* because N divides CounterMod.                                           *)
(***************************************************************************)

(* A quotient and a remainder below N determine the slot. *)
LEMMA SlotUnique ==
  ASSUME NEW q \in Int, NEW r \in 0 .. N - 1
  PROVE  Slot(q * N + r) = r
BY QueueAssumption DEF Slot

(* A slot is an index of m_array. *)
LEMMA SlotRange ==
  ASSUME NEW c \in Nat
  PROVE  /\ Slot(c) \in 0 .. N - 1
         /\ \E q \in Int : c = q * N + Slot(c)
<1>1. c \div N \in Int /\ c = (c \div N) * N + Slot(c)
  BY QueueAssumption DEF Slot
<1>2. Slot(c) \in 0 .. N - 1
  BY QueueAssumption DEF Slot
<1> QED BY <1>1, <1>2

(* Slots of a counter plus an offset of at most one lap. *)
LEMMA SlotAdd ==
  ASSUME NEW c \in Nat, NEW i \in 0 .. N
  PROVE  Slot(c + i) = IF Slot(c) + i < N THEN Slot(c) + i ELSE Slot(c) + i - N
<1> DEFINE r == Slot(c)
<1>1. PICK q \in Int : r \in 0 .. N - 1 /\ c = q * N + r
  BY SlotRange
<1>2. CASE r + i < N
  <2>1. c + i = q * N + (r + i) /\ r + i \in 0 .. N - 1
    BY <1>1, <1>2, QueueAssumption
  <2> QED BY <1>1, <1>2, <2>1, SlotUnique
<1>3. CASE ~(r + i < N)
  <2>1. r + i - N \in 0 .. N - 1
    BY <1>1, <1>3, QueueAssumption
  <2>2. c + i = (q + 1) * N + (r + i - N) /\ q + 1 \in Int
    <3>1. (q + 1) * N = q * N + N /\ q * N \in Int
      BY QueueAssumption
    <3> HIDE DEF r
    <3> QED BY <1>1, <3>1, QueueAssumption
  <2>3. Slot((q + 1) * N + (r + i - N)) = r + i - N
    BY <2>1, <2>2, SlotUnique
  <2> QED BY <1>3, <2>2, <2>3
<1> QED BY <1>2, <1>3

(* The counters wrap without moving the ring: CounterMod is a whole number of laps. *)
LEMMA SlotWrap ==
  ASSUME NEW c \in Nat
  PROVE  Slot(c + CounterMod) = Slot(c)
<1> DEFINE r == Slot(c)
<1>1. PICK q \in Int : r \in 0 .. N - 1 /\ c = q * N + r
  BY SlotRange
<1>2. PICK m \in Int : CounterMod = m * N
  BY QueueAssumption
<1>3. c + CounterMod = (q + m) * N + r /\ q + m \in Int
  <2>1. (q + m) * N = q * N + m * N /\ q * N \in Int /\ m * N \in Int
    BY QueueAssumption
  <2> HIDE DEF r
  <2> QED BY <1>1, <1>2, <2>1, QueueAssumption
<1> QED BY <1>1, <1>3, SlotUnique

(* The slot after a counter is the slot of the incremented counter. *)
LEMMA SlotInc ==
  ASSUME NEW c \in Counter, NEW i \in 0 .. N
  PROVE  Inc(c) \in Counter /\ Slot(Inc(c) + i) = Slot(c + 1 + i)
<1>1. CASE c = CounterMod - 1
  <2>1. Inc(c) = 0 /\ c + 1 + i = i + CounterMod /\ i \in Nat
    BY <1>1, QueueAssumption DEF Inc, Counter
  <2> QED BY <2>1, SlotWrap, QueueAssumption DEF Counter
<1>2. CASE c # CounterMod - 1
  BY <1>2, QueueAssumption DEF Inc, Counter
<1> QED BY <1>1, <1>2

(* Where the next value goes: size slots after the front. *)
LEMMA SlotBack ==
  ASSUME NEW f \in Counter, NEW b \in Counter
  PROVE  /\ Diff(b, f) \in 0 .. CounterMod - 1
         /\ Slot(b) = Slot(f + Diff(b, f))
<1>1. CASE b >= f
  BY <1>1, QueueAssumption DEF Diff, Counter
<1>2. CASE ~(b >= f)
  <2>1. f + Diff(b, f) = b + CounterMod /\ b \in Nat
    BY <1>2, QueueAssumption DEF Diff, Counter
  <2>2. Diff(b, f) \in 0 .. CounterMod - 1
    BY <1>2, QueueAssumption DEF Diff, Counter
  <2> QED BY <2>1, <2>2, SlotWrap
<1> QED BY <1>1, <1>2

(* N consecutive counters occupy N different slots. *)
LEMMA SlotsDistinct ==
  ASSUME NEW c \in Nat, NEW i \in 0 .. N - 1, NEW j \in 0 .. N - 1, i # j
  PROVE  Slot(c + i) # Slot(c + j)
<1>1. Slot(c) \in 0 .. N - 1
  BY SlotRange
<1>2. /\ Slot(c + i) = IF Slot(c) + i < N THEN Slot(c) + i ELSE Slot(c) + i - N
      /\ Slot(c + j) = IF Slot(c) + j < N THEN Slot(c) + j ELSE Slot(c) + j - N
  <2>1. i \in 0 .. N /\ j \in 0 .. N
    BY QueueAssumption
  <2> QED BY <2>1, SlotAdd
<1> QED BY <1>1, <1>2, QueueAssumption

(* Counting one more value in, or one out, moves the distance by one. *)
LEMMA DiffStep ==
  ASSUME NEW f \in Counter, NEW b \in Counter
  PROVE  /\ Diff(b, f) < N => Diff(Inc(b), f) = Diff(b, f) + 1
         /\ Diff(b, f) > 0 => Diff(b, Inc(f)) = Diff(b, f) - 1
BY QueueAssumption DEF Diff, Inc, Counter
-----------------------------------------------------------------------------
(***************************************************************************)
(* The inductive invariant.  The type invariant alone is not inductive:    *)
(* that pop delivers a payload needs the slots between front and back to   *)
(* be occupied, and that needs the counters to be m_uSize apart.           *)
(***************************************************************************)

(* What the critical section of push does to the ring. *)
LEMMA EnqueueStep ==
  ASSUME IInv, ~full, NEW v \in Payload, Enqueue(v)
  PROVE  /\ m_array' \in [0 .. N - 1 -> Payload \cup {Null}]
         /\ m_uFront' = m_uFront /\ m_uBack' \in Counter
         /\ m_uSize' = m_uSize + 1 /\ m_uSize' \in 0 .. N
         /\ m_uSize' = Diff(m_uBack', m_uFront')
         /\ \A i \in 0 .. m_uSize - 1 :
              m_array'[Slot(m_uFront + i)] = m_array[Slot(m_uFront + i)]
         /\ m_array'[Slot(m_uFront + m_uSize)] = v
<1> DEFINE s == Slot(m_uFront + m_uSize)
<1>1. /\ m_uSize \in 0 .. N - 1 /\ m_uFront \in Counter /\ m_uBack \in Counter
      /\ m_array \in [0 .. N - 1 -> Payload \cup {Null}]
      /\ m_uSize = Diff(m_uBack, m_uFront) /\ m_uFront \in Nat
  BY QueueAssumption DEF IInv, TypeOK, full, Counter
<1>2. s = Slot(m_uBack) /\ s \in 0 .. N - 1
  <2>1. m_uBack \in Nat
    BY <1>1 DEF Counter
  <2> QED BY <1>1, <2>1, SlotBack, SlotRange
<1>3. m_array' = [m_array EXCEPT ![s] = v] /\ m_uFront' = m_uFront /\ m_uBack' = Inc(m_uBack)
  BY <1>2 DEF Enqueue
<1>4. m_uBack' \in Counter
  BY <1>1, <1>3, SlotInc, QueueAssumption
<1>5. m_uSize' = m_uSize + 1 /\ m_uSize' = Diff(m_uBack', m_uFront')
  <2>1. m_uSize < N
    BY <1>1, QueueAssumption
  <2>2. Diff(Inc(m_uBack), m_uFront) = m_uSize + 1
    BY <1>1, <2>1, DiffStep
  <2> QED BY <1>3, <2>2 DEF Enqueue
<1>6. \A i \in 0 .. m_uSize - 1 : Slot(m_uFront + i) \in 0 .. N - 1 /\ Slot(m_uFront + i) # s
  <2> TAKE i \in 0 .. m_uSize - 1
  <2>1. i \in 0 .. N - 1 /\ i # m_uSize /\ m_uFront + i \in Nat
    BY <1>1, QueueAssumption
  <2> QED BY <1>1, <2>1, SlotsDistinct, SlotRange
<1> HIDE DEF s
<1>7. m_array'[s] = v /\ m_array' \in [0 .. N - 1 -> Payload \cup {Null}]
  BY <1>1, <1>2, <1>3
<1>8. \A i \in 0 .. m_uSize - 1 :
         m_array'[Slot(m_uFront + i)] = m_array[Slot(m_uFront + i)]
  BY <1>1, <1>3, <1>6
<1>9. m_uSize' \in 0 .. N
  BY <1>1, <1>5, QueueAssumption
<1> QED BY <1>3, <1>4, <1>5, <1>7, <1>8, <1>9 DEF s

(* What the critical section of pop does to the ring. *)
LEMMA DequeueStep ==
  ASSUME IInv, ~empty, Dequeue
  PROVE  /\ m_array' \in [0 .. N - 1 -> Payload \cup {Null}]
         /\ m_uFront' \in Counter /\ m_uBack' = m_uBack
         /\ m_uSize' = m_uSize - 1 /\ m_uSize' \in 0 .. N
         /\ m_uSize' = Diff(m_uBack', m_uFront')
         /\ m_array[Slot(m_uFront)] \in Payload
         /\ \A i \in 0 .. m_uSize - 2 :
              m_array'[Slot(m_uFront' + i)] = m_array[Slot(m_uFront + (i + 1))]
<1> DEFINE s == Slot(m_uFront)
<1>1. /\ m_uSize \in 1 .. N /\ m_uFront \in Counter /\ m_uBack \in Counter
      /\ m_array \in [0 .. N - 1 -> Payload \cup {Null}]
      /\ m_uSize = Diff(m_uBack, m_uFront) /\ m_uFront \in Nat
  BY QueueAssumption DEF IInv, TypeOK, empty, Counter
<1>2. s \in 0 .. N - 1 /\ s = Slot(m_uFront + 0)
  BY <1>1, SlotRange
<1>3. m_array[s] \in Payload
  BY <1>1, <1>2 DEF IInv, Occupied
<1>4. /\ m_array' = [m_array EXCEPT ![s] = Null] /\ m_uBack' = m_uBack
      /\ m_uFront' = Inc(m_uFront)
  BY DEF Dequeue
<1>5. m_uFront' \in Counter
  BY <1>1, <1>4, SlotInc, QueueAssumption
<1>6. m_uSize' = m_uSize - 1 /\ m_uSize' = Diff(m_uBack', m_uFront')
  <2>1. Diff(m_uBack, Inc(m_uFront)) = m_uSize - 1
    BY <1>1, DiffStep
  <2> QED BY <1>4, <2>1 DEF Dequeue
<1>7. \A i \in 0 .. m_uSize - 2 :
         /\ Slot(m_uFront' + i) = Slot(m_uFront + (i + 1))
         /\ Slot(m_uFront + (i + 1)) \in 0 .. N - 1 /\ Slot(m_uFront + (i + 1)) # s
  <2> TAKE i \in 0 .. m_uSize - 2
  <2>1. /\ i \in 0 .. N /\ i + 1 \in 0 .. N - 1 /\ 0 \in 0 .. N - 1 /\ i + 1 # 0
        /\ m_uFront + (i + 1) \in Nat /\ m_uFront + 1 + i = m_uFront + (i + 1)
    BY <1>1, QueueAssumption
  <2>2. Slot(m_uFront' + i) = Slot(m_uFront + 1 + i)
    BY <1>1, <1>4, <2>1, SlotInc
  <2>3. Slot(m_uFront + (i + 1)) # Slot(m_uFront + 0)
    BY <1>1, <2>1, SlotsDistinct
  <2> QED BY <1>2, <2>1, <2>2, <2>3, SlotRange
<1> HIDE DEF s
<1>8. \A i \in 0 .. m_uSize - 2 :
         m_array'[Slot(m_uFront' + i)] = m_array[Slot(m_uFront + (i + 1))]
  BY <1>1, <1>4, <1>7
<1>9. m_array' \in [0 .. N - 1 -> Payload \cup {Null}] /\ m_uSize' \in 0 .. N
  BY <1>1, <1>2, <1>4, <1>6, QueueAssumption
<1> QED BY <1>3, <1>4, <1>5, <1>6, <1>8, <1>9 DEF s

(* The steps that only move threads between the lock and the wait set. *)
LEMMA ThreadStep ==
  ASSUME IInv, UNCHANGED <<ring, sent, delivered>>,
         pc' \in [Threads -> {"ready", "waiting", "expired", "notify"}]
  PROVE  IInv'
BY DEF IInv, TypeOK, Occupied, ring

THEOREM InitIInv == Init => IInv
<1> SUFFICES ASSUME Init PROVE IInv
  OBVIOUS
<1>1. m_uSize = 0 /\ m_uFront = 0 /\ m_uBack = 0 /\ 0 \in Counter /\ 0 \in 0 .. N
  BY QueueAssumption DEF Init, Counter
<1>2. TypeOK
  BY <1>1, QueueAssumption DEF Init, TypeOK
<1>3. m_uSize = Diff(m_uBack, m_uFront) /\ Occupied
  BY <1>1 DEF Diff, Occupied
<1> QED BY <1>2, <1>3 DEF IInv

(* A push that finds room keeps the invariant. *)
LEMMA PushIInv == ASSUME IInv, NEW p \in Producers, Push(p) PROVE IInv'
<1> DEFINE v == <<p, sent[p] + 1>>
<1>1. ~full /\ Enqueue(v) /\ v \in Payload /\ sent[p] + 1 \in 0 .. Items
  BY QueueAssumption DEF IInv, TypeOK, Push, Payload
<1> HIDE DEF v
<1>2. /\ m_array' \in [0 .. N - 1 -> Payload \cup {Null}]
      /\ m_uFront' = m_uFront /\ m_uBack' \in Counter
      /\ m_uSize' = m_uSize + 1 /\ m_uSize' \in 0 .. N
      /\ m_uSize' = Diff(m_uBack', m_uFront')
      /\ \A i \in 0 .. m_uSize - 1 :
           m_array'[Slot(m_uFront + i)] = m_array[Slot(m_uFront + i)]
      /\ m_array'[Slot(m_uFront + m_uSize)] = v
  BY <1>1, EnqueueStep
<1>3. m_uSize \in Nat
  BY QueueAssumption DEF IInv, TypeOK
<1>4. Occupied'
  <2> SUFFICES ASSUME NEW i \in 0 .. m_uSize
               PROVE  m_array'[Slot(m_uFront + i)] \in Payload
    BY <1>2, <1>3 DEF Occupied, Slot
  <2>1. CASE i = m_uSize
    BY <1>1, <1>2, <2>1
  <2>2. CASE i # m_uSize
    <3>1. i \in 0 .. m_uSize - 1
      BY <1>3, <2>2
    <3> QED BY <1>2, <3>1 DEF IInv, Occupied
  <2> QED BY <2>1, <2>2
<1>5. TypeOK'
  BY <1>1, <1>2 DEF IInv, TypeOK, Push, Goto, Threads
<1> QED BY <1>2, <1>4, <1>5 DEF IInv, Diff

(* A pop that finds a value keeps the invariant. *)
LEMMA PopIInv == ASSUME IInv, NEW c \in Consumers, Pop(c) PROVE IInv'
<1>1. ~empty /\ Dequeue
  BY DEF Pop
<1>2. /\ m_array' \in [0 .. N - 1 -> Payload \cup {Null}]
      /\ m_uFront' \in Counter /\ m_uBack' = m_uBack
      /\ m_uSize' = m_uSize - 1 /\ m_uSize' \in 0 .. N
      /\ m_uSize' = Diff(m_uBack', m_uFront')
      /\ m_array[Slot(m_uFront)] \in Payload
      /\ \A i \in 0 .. m_uSize - 2 :
           m_array'[Slot(m_uFront' + i)] = m_array[Slot(m_uFront + (i + 1))]
  BY <1>1, DequeueStep
<1>3. m_uSize \in Nat
  BY QueueAssumption DEF IInv, TypeOK
<1>4. Occupied'
  <2> SUFFICES ASSUME NEW i \in 0 .. m_uSize - 2
               PROVE  m_array'[Slot(m_uFront' + i)] \in Payload
    BY <1>2, <1>3 DEF Occupied, Slot
  <2>1. i + 1 \in 0 .. m_uSize - 1
    BY <1>3
  <2> QED BY <1>2, <2>1 DEF IInv, Occupied
<1>5. delivered' \in Seq(Payload)
  BY <1>1, <1>2, AppendProperties DEF Dequeue, IInv, TypeOK
<1>6. TypeOK'
  BY <1>2, <1>5, QueueAssumption DEF IInv, TypeOK, Pop, Goto, Threads
<1> QED BY <1>2, <1>4, <1>6 DEF IInv, Diff

(* Every step keeps the inductive invariant. *)
LEMMA NextIInv == IInv /\ [Next]_vars => IInv'
<1> SUFFICES ASSUME IInv, [Next]_vars PROVE IInv'
  OBVIOUS
<1> USE DEF Threads
<1>0. pc \in [Threads -> {"ready", "waiting", "expired", "notify"}]
  BY DEF IInv, TypeOK
<1>1. ASSUME NEW p \in Producers, PushWait(p) PROVE IInv'
  BY <1>0, <1>1, ThreadStep DEF PushWait, Goto
<1>2. ASSUME NEW p \in Producers, Push(p) PROVE IInv'
  BY <1>2, PushIInv
<1>3. ASSUME NEW c \in Consumers, PopWait(c) PROVE IInv'
  BY <1>0, <1>3, ThreadStep DEF PopWait, Goto
<1>4. ASSUME NEW c \in Consumers, PopTimeout(c) PROVE IInv'
  BY <1>0, <1>4, ThreadStep DEF PopTimeout, Goto
<1>5. ASSUME NEW c \in Consumers, Pop(c) PROVE IInv'
  BY <1>5, PopIInv
<1>6. ASSUME NEW c \in Consumers, PopFail(c) PROVE IInv'
  BY <1>0, <1>6, ThreadStep DEF PopFail, Goto
<1>7. ASSUME NEW t \in Threads, Notify(t) PROVE IInv'
  BY <1>0, <1>7, ThreadStep DEF Notify, Goto, Waiting
<1>8. ASSUME NEW t \in Threads, SpuriousWake(t) PROVE IInv'
  BY <1>0, <1>8, ThreadStep DEF SpuriousWake, Goto
<1>9. CASE UNCHANGED vars
  BY <1>0, <1>9, ThreadStep DEF vars, ring
<1> QED BY <1>1, <1>2, <1>3, <1>4, <1>5, <1>6, <1>7, <1>8, <1>9
        DEF Next, ProducerStep, ConsumerStep

(* The queue never leaves its inductive invariant. *)
THEOREM QueueInvariant == Spec => []IInv
BY InitIInv, NextIInv, PTL DEF Spec

(* Type correctness: the indices stay in the ring, the size between 0 and N,   *)
(* and only payloads are delivered (no pop returns a slot nobody filled).      *)
THEOREM TypeCorrect == Spec => []TypeOK
<1>1. IInv => TypeOK
  BY DEF IInv
<1> QED BY <1>1, QueueInvariant, PTL
-----------------------------------------------------------------------------
(***************************************************************************)
(* Refinement: the ring read from front to back is the contents of the     *)
(* FIFO; a push or pop that goes through is a Push or Pop, and every other *)
(* step leaves contents and deliveries alone.                              *)
(***************************************************************************)

ContentsAreASequence ==
  /\ Contents \in Seq(Payload) /\ Len(Contents) = m_uSize
  /\ \A i \in 1 .. m_uSize : Contents[i] = m_array[Slot(m_uFront + i - 1)]

(* The contents are a sequence of m_uSize payloads. *)
LEMMA ContentsSeq == IInv => ContentsAreASequence
<1> SUFFICES ASSUME IInv PROVE ContentsAreASequence
  OBVIOUS
<1>1. m_uSize \in Nat /\ m_uFront \in Int
  BY QueueAssumption DEF IInv, TypeOK, Counter
<1>2. \A i \in 1 .. m_uSize : m_array[Slot(m_uFront + i - 1)] \in Payload
  <2> TAKE i \in 1 .. m_uSize
  <2>1. i - 1 \in 0 .. m_uSize - 1 /\ m_uFront + i - 1 = m_uFront + (i - 1)
    BY <1>1
  <2> QED BY <2>1 DEF IInv, Occupied
<1> QED BY <1>1, <1>2 DEF Contents, ContentsAreASequence

(* The same of the state after a step. *)
LEMMA ContentsSeqNext == IInv' => ContentsAreASequence'
BY ContentsSeq, PTL

(* A push that finds room appends to the contents. *)
LEMMA PushRefines ==
  ASSUME IInv, NEW p \in Producers, Push(p)
  PROVE  Fifo!Push(<<p, sent[p] + 1>>) /\ <<p, sent[p] + 1>> \in Payload
<1> DEFINE v == <<p, sent[p] + 1>>
<1>1. ~full /\ Enqueue(v) /\ v \in Payload
  BY QueueAssumption DEF IInv, TypeOK, Push, Payload
<1> HIDE DEF v
<1>2. /\ m_uFront' = m_uFront /\ m_uSize' = m_uSize + 1
      /\ \A i \in 0 .. m_uSize - 1 :
           m_array'[Slot(m_uFront + i)] = m_array[Slot(m_uFront + i)]
      /\ m_array'[Slot(m_uFront + m_uSize)] = v
  BY <1>1, EnqueueStep
<1>3. m_uSize \in Nat /\ m_uFront \in Int /\ m_uSize < N
  BY <1>1, QueueAssumption DEF IInv, TypeOK, Counter, full
<1>4. IInv'
  BY PushIInv
<1>5. /\ Contents \in Seq(Payload) /\ Len(Contents) = m_uSize
      /\ \A i \in 1 .. m_uSize : Contents[i] = m_array[Slot(m_uFront + i - 1)]
  BY ContentsSeq DEF ContentsAreASequence
<1>6. /\ Contents' \in Seq(Payload) /\ Len(Contents') = m_uSize + 1
      /\ \A i \in 1 .. m_uSize + 1 : Contents'[i] = m_array'[Slot(m_uFront + i - 1)]
  BY <1>2, <1>4, ContentsSeqNext DEF ContentsAreASequence, Slot
<1>7. Contents' = Append(Contents, v)
  <2>1. \A i \in 1 .. m_uSize + 1 : Contents'[i] = Append(Contents, v)[i]
    <3> TAKE i \in 1 .. m_uSize + 1
    <3>1. CASE i = m_uSize + 1
      BY <1>1, <1>2, <1>3, <1>5, <1>6, <3>1
    <3>2. CASE i # m_uSize + 1
      <4>1. i \in 1 .. m_uSize /\ i - 1 \in 0 .. m_uSize - 1
            /\ m_uFront + i - 1 = m_uFront + (i - 1)
        BY <1>3, <3>2
      <4> QED BY <1>1, <1>2, <1>5, <1>6, <4>1
    <3> QED BY <3>1, <3>2
  <2> QED BY <1>1, <1>5, <1>6, <2>1, SeqEqual, AppendProperties
<1> QED BY <1>1, <1>3, <1>5, <1>7 DEF Fifo!Push, Push, v

(* A pop that finds a value takes the head of the contents. *)
LEMMA PopRefines ==
  ASSUME IInv, NEW c \in Consumers, Pop(c)
  PROVE  Fifo!Pop
<1>1. ~empty /\ Dequeue
  BY DEF Pop
<1>2. /\ m_uSize' = m_uSize - 1
      /\ \A i \in 0 .. m_uSize - 2 :
           m_array'[Slot(m_uFront' + i)] = m_array[Slot(m_uFront + (i + 1))]
  BY <1>1, DequeueStep
<1>3. IInv'
  BY PopIInv
<1>4. m_uSize \in Nat \ {0} /\ m_uFront \in Int /\ m_uFront' \in Int
  BY <1>1, <1>3, QueueAssumption DEF IInv, TypeOK, Counter, empty
<1>5. /\ Contents \in Seq(Payload) /\ Len(Contents) = m_uSize
      /\ \A i \in 1 .. m_uSize : Contents[i] = m_array[Slot(m_uFront + i - 1)]
  BY ContentsSeq DEF ContentsAreASequence
<1>6. /\ Contents' \in Seq(Payload) /\ Len(Contents') = m_uSize - 1
      /\ \A i \in 1 .. m_uSize - 1 : Contents'[i] = m_array'[Slot(m_uFront' + i - 1)]
  BY <1>2, <1>3, ContentsSeqNext DEF ContentsAreASequence, Slot
<1>7. Contents' = Tail(Contents)
  <2>1. \A i \in 1 .. m_uSize - 1 : Contents'[i] = Tail(Contents)[i]
    <3> TAKE i \in 1 .. m_uSize - 1
    <3>1. i - 1 \in 0 .. m_uSize - 2 /\ m_uFront' + i - 1 = m_uFront' + (i - 1)
      BY <1>4
    <3>2. Contents'[i] = m_array[Slot(m_uFront + (i - 1 + 1))]
      BY <1>2, <1>6, <3>1
    <3>3. i + 1 \in 1 .. m_uSize /\ m_uFront + (i + 1) - 1 = m_uFront + (i - 1 + 1)
      BY <1>4
    <3>4. Contents[i + 1] = m_array[Slot(m_uFront + (i - 1 + 1))]
      BY <1>5, <3>3
    <3> QED BY <1>4, <1>5, <3>2, <3>4, HeadTailProperties, EmptySeq
  <2> QED BY <1>4, <1>5, <1>6, <2>1, SeqEqual, HeadTailProperties, EmptySeq
<1>8. Head(Contents) = m_array[Slot(m_uFront)] /\ Contents # <<>>
  BY <1>4, <1>5
<1> QED BY <1>1, <1>7, <1>8 DEF Fifo!Pop, Dequeue

(* BlockingQueue implements the bounded FIFO, whatever the number of producers *)
(* and consumers: pop returns the pushed values in order, each once, and the   *)
(* queue never holds more than N.                                              *)
THEOREM Refinement == Spec => ImplementsFifo
<1>1. Init => Fifo!Init
  <2> SUFFICES ASSUME Init PROVE Fifo!Init
    OBVIOUS
  <2>1. IInv /\ m_uSize = 0 /\ delivered = <<>>
    BY InitIInv DEF Init
  <2>2. Contents = <<>>
    BY <2>1, ContentsSeq, EmptySeq DEF ContentsAreASequence
  <2> QED BY <2>1, <2>2 DEF Fifo!Init
<1>2. IInv /\ [Next]_vars => [Fifo!Next]_<<Contents, delivered>>
  <2> SUFFICES ASSUME IInv, [Next]_vars
               PROVE  [Fifo!Next]_<<Contents, delivered>>
    OBVIOUS
  <2>1. ASSUME NEW p \in Producers, Push(p) PROVE Fifo!Next
    BY <2>1, PushRefines DEF Fifo!Next
  <2>2. ASSUME NEW c \in Consumers, Pop(c) PROVE Fifo!Next
    BY <2>2, PopRefines DEF Fifo!Next
  <2>3. CASE UNCHANGED <<ring, sent, delivered>>
    BY <2>3 DEF ring, Contents, Slot
  <2> QED BY <2>1, <2>2, <2>3
          DEF Next, ProducerStep, ConsumerStep, PushWait, PopWait, PopTimeout, PopFail,
              Notify, SpuriousWake, vars, ring
<1> QED BY <1>1, <1>2, QueueInvariant, PTL DEF Spec, ImplementsFifo, Fifo!Spec
-----------------------------------------------------------------------------
(***************************************************************************)
(* No missed wake-up between one producer and one consumer, which is how   *)
(* the pipeline uses the queue.  It does not hold for more consumers: see  *)
(* the run queue_spmc_stuck.                                               *)
(***************************************************************************)

(* One step of the only producer or the only consumer strands neither. *)
LEMMA NoStrandedStep ==
  ASSUME NEW p, NEW c, Producers = {p}, Consumers = {c},
         TypeOK, TypeOK', NoStrandedWaiter, [Next]_vars
  PROVE  NoStrandedWaiter'
<1> USE QueueAssumption
<1>1. /\ p # c /\ Threads = {p, c} /\ Waiting \subseteq {p, c}
      /\ pc \in [{p, c} -> {"ready", "waiting", "expired", "notify"}]
      /\ m_uSize \in 0 .. N
  BY DEF Threads, TypeOK, Waiting
<1> DEFINE Fine ==
      /\ pc[p] = "waiting" /\ m_uSize < N => pc[c] = "notify"
      /\ pc[c] = "waiting" /\ m_uSize > 0 => pc[p] = "notify"
<1>2. NoStrandedWaiter <=> Fine
  BY <1>1 DEF NoStrandedWaiter, Waiting, full, empty
<1>3. ASSUME pc' \in [{p, c} -> {"ready", "waiting", "expired", "notify"}],
             m_uSize' \in Nat, Fine'
      PROVE  NoStrandedWaiter'
  BY <1>1, <1>3 DEF NoStrandedWaiter, Waiting, full, empty, Threads
<1>4. ASSUME PushWait(p) PROVE NoStrandedWaiter'
  BY <1>1, <1>2, <1>3, <1>4 DEF PushWait, Goto, ring, full
<1>5. ASSUME Push(p), m_uSize' \in Nat PROVE NoStrandedWaiter'
  BY <1>1, <1>2, <1>3, <1>5 DEF Push, Goto
<1>6. ASSUME PopWait(c) PROVE NoStrandedWaiter'
  BY <1>1, <1>2, <1>3, <1>6 DEF PopWait, Goto, ring, empty
<1>7. ASSUME PopTimeout(c) PROVE NoStrandedWaiter'
  BY <1>1, <1>2, <1>3, <1>7 DEF PopTimeout, Goto, ring
<1>8. ASSUME Pop(c), m_uSize' \in Nat PROVE NoStrandedWaiter'
  BY <1>1, <1>2, <1>3, <1>8 DEF Pop, Goto
<1>9. ASSUME PopFail(c) PROVE NoStrandedWaiter'
  BY <1>1, <1>2, <1>3, <1>9 DEF PopFail, Goto, ring, empty
<1>10. ASSUME NEW t \in {p, c}, Notify(t) PROVE NoStrandedWaiter'
  BY <1>1, <1>2, <1>3, <1>10 DEF Notify, Goto, ring, Waiting
<1>11. ASSUME NEW t \in {p, c}, SpuriousWake(t) PROVE NoStrandedWaiter'
  BY <1>1, <1>2, <1>3, <1>11 DEF SpuriousWake, Goto, ring
<1>12. CASE UNCHANGED vars
  BY <1>1, <1>2, <1>3, <1>12 DEF vars
<1>13. m_uSize' \in Nat
  BY DEF TypeOK
<1> QED BY <1>1, <1>4, <1>5, <1>6, <1>7, <1>8, <1>9, <1>10, <1>11, <1>12, <1>13
        DEF Next, ProducerStep, ConsumerStep

(* With one producer and one consumer, a thread that sleeps although it could *)
(* proceed has a notify_one coming, for every ring size and counter width.    *)
THEOREM NoMissedWakeup ==
  ASSUME NEW p, NEW c, Producers = {p}, Consumers = {c}
  PROVE  Spec => []NoStrandedWaiter
<1>1. Init => NoStrandedWaiter
  BY DEF Init, NoStrandedWaiter, Waiting
<1>2. TypeOK /\ TypeOK' /\ NoStrandedWaiter /\ [Next]_vars => NoStrandedWaiter'
  BY NoStrandedStep
<1> QED BY <1>1, <1>2, TypeCorrect, PTL DEF Spec
-----------------------------------------------------------------------------
(***************************************************************************)
(* The size is the number of occupied slots: beside Occupied this needs    *)
(* that no slot outside the stretch from front to back is occupied.        *)
(***************************************************************************)

OthersVacant ==
  \A j \in 0 .. N - 1 : m_array[j] # Null => \E i \in 0 .. m_uSize - 1 : j = Slot(m_uFront + i)

(* A push occupies the slot behind the last one. *)
LEMMA PushVacant ==
  ASSUME IInv, OthersVacant, NEW p \in Producers, Push(p) PROVE OthersVacant'
<1> DEFINE v == <<p, sent[p] + 1>>
           s == Slot(m_uFront + m_uSize)
<1>1. ~full /\ Enqueue(v) /\ v \in Payload
  BY QueueAssumption DEF IInv, TypeOK, Push, Payload
<1>2. m_uSize' = m_uSize + 1 /\ m_uFront' = m_uFront
  <2> HIDE DEF v
  <2> QED BY <1>1, EnqueueStep
<1>3. m_uSize \in Nat /\ m_array \in [0 .. N - 1 -> Payload \cup {Null}]
  BY QueueAssumption DEF IInv, TypeOK
<1>4. m_array' = [m_array EXCEPT ![s] = v]
  <2>1. m_uFront \in Counter /\ m_uBack \in Counter /\ m_uSize = Diff(m_uBack, m_uFront)
    BY DEF IInv, TypeOK
  <2>2. Slot(m_uBack) = s
    BY <2>1, SlotBack
  <2> QED BY <1>1, <2>2 DEF Enqueue
<1> HIDE DEF v, s
<1> SUFFICES ASSUME NEW j \in 0 .. N - 1, m_array'[j] # Null
             PROVE  \E i \in 0 .. m_uSize : j = Slot(m_uFront + i)
  BY <1>2, <1>3 DEF OthersVacant, Slot
<1>5. CASE j = s
  BY <1>3, <1>5 DEF s
<1>6. CASE j # s
  <2>1. m_array[j] # Null
    BY <1>3, <1>4, <1>6
  <2>2. PICK i \in 0 .. m_uSize - 1 : j = Slot(m_uFront + i)
    BY <2>1 DEF OthersVacant
  <2>3. i \in 0 .. m_uSize
    BY <1>3
  <2> QED BY <2>2, <2>3
<1> QED BY <1>5, <1>6

(* A pop vacates the first slot. *)
LEMMA PopVacant ==
  ASSUME IInv, OthersVacant, NEW c \in Consumers, Pop(c) PROVE OthersVacant'
<1> DEFINE s == Slot(m_uFront)
<1>1. ~empty /\ Dequeue
  BY DEF Pop
<1>2. m_uSize' = m_uSize - 1
  BY <1>1, DequeueStep
<1>3. /\ m_uSize \in 1 .. N /\ m_uFront \in Counter /\ m_uFront \in Nat
      /\ m_array \in [0 .. N - 1 -> Payload \cup {Null}]
  BY <1>1, QueueAssumption DEF IInv, TypeOK, empty, Counter
<1>4. m_array' = [m_array EXCEPT ![s] = Null] /\ m_uFront' = Inc(m_uFront)
  BY <1>1 DEF Dequeue
<1> HIDE DEF s
<1> SUFFICES ASSUME NEW j \in 0 .. N - 1, m_array'[j] # Null
             PROVE  \E i \in 0 .. m_uSize - 2 : j = Slot(m_uFront' + i)
  BY <1>2, <1>3 DEF OthersVacant, Slot
<1>5. j # s /\ m_array[j] # Null
  BY <1>3, <1>4
<1>6. PICK i \in 0 .. m_uSize - 1 : j = Slot(m_uFront + i)
  BY <1>5 DEF OthersVacant
<1>7. i # 0
  BY <1>3, <1>5, <1>6 DEF s
<1>8. i - 1 \in 0 .. m_uSize - 2 /\ i - 1 \in 0 .. N /\ m_uFront + 1 + (i - 1) = m_uFront + i
  BY <1>3, <1>6, <1>7, QueueAssumption
<1>9. Slot(m_uFront' + (i - 1)) = Slot(m_uFront + 1 + (i - 1))
  BY <1>3, <1>4, <1>8, SlotInc
<1> QED BY <1>6, <1>8, <1>9

LEMMA NextVacant == IInv /\ OthersVacant /\ [Next]_vars => OthersVacant'
<1> SUFFICES ASSUME IInv, OthersVacant, [Next]_vars PROVE OthersVacant'
  OBVIOUS
<1>1. ASSUME NEW p \in Producers, Push(p) PROVE OthersVacant'
  BY <1>1, PushVacant
<1>2. ASSUME NEW c \in Consumers, Pop(c) PROVE OthersVacant'
  BY <1>2, PopVacant
<1>3. CASE UNCHANGED ring
  BY <1>3 DEF ring, OthersVacant
<1>4. UNCHANGED vars => UNCHANGED ring
  BY DEF vars, ring
<1> QED
  BY <1>1, <1>2, <1>3, <1>4
  DEF Next, ProducerStep, ConsumerStep, PushWait, PopWait, PopTimeout, PopFail, Notify, SpuriousWake

(* So many slots are occupied, since different offsets have different slots. *)
LEMMA CountOccupied ==
  ASSUME IInv, OthersVacant
  PROVE  m_uSize = Cardinality({i \in 0 .. N - 1 : m_array[i] # Null})
<1> DEFINE S == {i \in 0 .. N - 1 : m_array[i] # Null}
           f == [k \in 1 .. m_uSize |-> Slot(m_uFront + (k - 1))]
<1>1. m_uSize \in 0 .. N /\ m_uFront \in Nat
  BY QueueAssumption DEF IInv, TypeOK, Counter
<1>2. ASSUME NEW k \in 1 .. m_uSize PROVE f[k] \in S
  <2>1. k - 1 \in 0 .. m_uSize - 1 /\ m_uFront + (k - 1) \in Nat
    BY <1>1
  <2>2. Slot(m_uFront + (k - 1)) \in 0 .. N - 1
    BY <2>1, SlotRange
  <2>3. m_array[Slot(m_uFront + (k - 1))] \in Payload
    BY <2>1 DEF IInv, Occupied
  <2>4. Null \notin Payload
    BY DEF Null, Payload
  <2> QED BY <2>2, <2>3, <2>4
<1>3. ASSUME NEW k \in 1 .. m_uSize, NEW l \in 1 .. m_uSize, f[k] = f[l] PROVE k = l
  <2>1. k - 1 \in 0 .. N - 1 /\ l - 1 \in 0 .. N - 1
    BY <1>1, QueueAssumption
  <2>2. Slot(m_uFront + (k - 1)) = Slot(m_uFront + (l - 1))
    BY <1>3
  <2>3. k - 1 = l - 1
    BY <1>1, <2>1, <2>2, SlotsDistinct
  <2> QED BY <2>3
<1>4. ASSUME NEW j \in S PROVE \E k \in 1 .. m_uSize : f[k] = j
  <2>1. PICK i \in 0 .. m_uSize - 1 : j = Slot(m_uFront + i)
    BY DEF OthersVacant
  <2>2. i + 1 \in 1 .. m_uSize /\ (i + 1) - 1 = i
    BY <1>1
  <2> QED BY <2>1, <2>2
<1>5. f \in Bijection(1 .. m_uSize, S)
  <2>1. f \in [1 .. m_uSize -> S]
    BY <1>2
  <2> HIDE DEF f, S
  <2> QED BY <2>1, <1>3, <1>4, Fun_IsBij
<1>6. ExistsBijection(1 .. m_uSize, S) /\ m_uSize \in Nat
  <2> HIDE DEF f, S
  <2> QED BY <1>1, <1>5 DEF ExistsBijection
<1> QED BY <1>6, FS_CountingElements

\* full() and empty() answer from the real number of occupied slots, for any
\* number of threads and also after the counters wrap (queue.h:46).
THEOREM SizeCorrect == Spec => []SizeIsDistance
<1>1. Init => OthersVacant
  BY DEF Init, OthersVacant
<1>2. IInv /\ OthersVacant => SizeIsDistance
  <2>1. IInv => m_uSize = Diff(m_uBack, m_uFront)
    BY DEF IInv
  <2> QED BY <2>1, CountOccupied DEF SizeIsDistance
<1> QED BY QueueInvariant, NextVacant, <1>1, <1>2, PTL DEF Spec
-----------------------------------------------------------------------------
(***************************************************************************)
(* Every value once, and those of one producer in order: a push puts its   *)
(* value behind all that have passed, a pop moves one from the contents to *)
(* the deliveries and leaves the whole as it was.                          *)
(***************************************************************************)

LEMMA MovedOver ==
  ASSUME NEW D \in Seq(Payload), NEW C \in Seq(Payload), C # <<>>
  PROVE  Append(D, Head(C)) \o Tail(C) = D \o C
<1>1. Head(C) \in Payload /\ Tail(C) \in Seq(Payload) /\ <<Head(C)>> \in Seq(Payload)
  BY HeadTailProperties
<1>2. Append(D, Head(C)) = D \o <<Head(C)>>
  BY <1>1, AppendIsConcat
<1>3. (D \o <<Head(C)>>) \o Tail(C) = D \o (<<Head(C)>> \o Tail(C))
  BY <1>1, ConcatAssociative
<1>4. <<Head(C)>> \o Tail(C) = C
  <2>1. Len(<<Head(C)>> \o Tail(C)) = Len(C)
    BY <1>1, ConcatProperties, HeadTailProperties
  <2>2. \A i \in 1 .. Len(C) : (<<Head(C)>> \o Tail(C))[i] = C[i]
    BY <1>1, HeadTailProperties
  <2>3. <<Head(C)>> \o Tail(C) \in Seq(Payload)
    BY <1>1, ConcatProperties
  <2> QED BY <2>1, <2>2, <2>3, SeqEqual
<1> QED BY <1>2, <1>3, <1>4

(* What has passed is a sequence, and grows by the value that is pushed. *)
LEMMA PassedSeq ==
  ASSUME IInv
  PROVE  Passed \in Seq(Payload) /\ Contents \in Seq(Payload) /\ delivered \in Seq(Payload)
<1>1. Contents \in Seq(Payload) /\ delivered \in Seq(Payload)
  BY ContentsSeq DEF ContentsAreASequence, IInv, TypeOK
<1> QED BY <1>1, ConcatProperties DEF Passed

LEMMA PushPassed ==
  ASSUME IInv, NEW p \in Producers, Push(p)
  PROVE  Passed' = Append(Passed, <<p, sent[p] + 1>>)
<1> DEFINE v == <<p, sent[p] + 1>>
           D == delivered
           C == Contents
<1>1. Contents' = Append(C, v) /\ delivered' = D /\ v \in Payload
  BY PushRefines DEF Fifo!Push
<1>2. C \in Seq(Payload) /\ D \in Seq(Payload) /\ D \o C \in Seq(Payload)
  BY PassedSeq DEF Passed
<1>3. Passed' = D \o Append(C, v)
  BY <1>1 DEF Passed
<1> HIDE DEF v, D, C
<1>4. D \o Append(C, v) = D \o (C \o <<v>>)
  BY <1>1, <1>2, AppendIsConcat
<1>5. <<v>> \in Seq(Payload)
  BY <1>1
<1>6. D \o (C \o <<v>>) = (D \o C) \o <<v>>
  <2> DEFINE u == <<v>>
  <2>1. u \in Seq(Payload)
    BY <1>5
  <2> HIDE DEF u
  <2>2. D \o (C \o u) = (D \o C) \o u
    BY <1>2, <2>1, ConcatAssociative
  <2> QED BY <2>2 DEF u
<1>7. Append(D \o C, v) = (D \o C) \o <<v>>
  <2> DEFINE W == D \o C
  <2>1. W \in Seq(Payload)
    BY <1>2
  <2> HIDE DEF W
  <2>2. Append(W, v) = W \o <<v>>
    BY <1>1, <2>1, AppendIsConcat
  <2> QED BY <2>2 DEF W
<1>8. Passed' = Append(D \o C, v)
  BY <1>3, <1>4, <1>6, <1>7
<1> QED BY <1>8 DEF D, C, v, Passed

LEMMA PopPassed ==
  ASSUME IInv, NEW c \in Consumers, Pop(c)
  PROVE  Passed' = Passed /\ sent' = sent
<1> DEFINE D == delivered
           C == Contents
<1>1. C # <<>> /\ Contents' = Tail(C) /\ delivered' = Append(D, Head(C))
  BY PopRefines DEF Fifo!Pop
<1>2. C \in Seq(Payload) /\ D \in Seq(Payload)
  BY PassedSeq
<1>3. Passed' = Append(D, Head(C)) \o Tail(C)
  BY <1>1 DEF Passed
<1> HIDE DEF D, C
<1>4. Passed' = D \o C
  BY <1>1, <1>2, <1>3, MovedOver
<1> QED BY <1>4 DEF D, C, Passed, Pop

LEMMA PushEachOnce ==
  ASSUME IInv, EachSentOnce, NEW p \in Producers, Push(p)
  PROVE  EachSentOnce'
<1> DEFINE v == <<p, sent[p] + 1>>
           W == Passed
           n == Len(W)
           V == Passed'
<1>1. /\ W \in Seq(Payload) /\ n \in Nat /\ \A i \in 1 .. n : W[i] \in Payload
      /\ sent \in [Producers -> 0 .. Items] /\ DOMAIN W = 1 .. n
  BY PassedSeq, ElementOfSeq, LenProperties DEF IInv, TypeOK
<1>2. V = Append(W, v) /\ v \in Payload
  BY PushPassed, PushRefines
<1>3. sent' = [sent EXCEPT ![p] = sent[p] + 1] /\ sent[p] \in Nat
  BY <1>1, QueueAssumption DEF Push
<1>4. /\ {W[i] : i \in 1 .. n} = {u \in Payload : u[2] <= sent[u[1]]}
      /\ \A i, j \in 1 .. n : i < j /\ W[i][1] = W[j][1] => W[i][2] < W[j][2]
  BY <1>1 DEF EachSentOnce
<1>5. /\ DOMAIN V = 1 .. n + 1 /\ V[n + 1] = v
      /\ \A i \in 1 .. n : V[i] = W[i]
  <2> HIDE DEF W, n, V, v
  <2> QED BY <1>1, <1>2, AppendProperties DEF n
<1>6. v[1] = p /\ v[2] = sent[p] + 1
  OBVIOUS
<1> HIDE DEF W, n, V, v
<1>7. {V[i] : i \in 1 .. n + 1} = {u \in Payload : u[2] <= sent'[u[1]]}
  <2>1. {V[i] : i \in 1 .. n + 1} = {W[i] : i \in 1 .. n} \cup {v}
    BY <1>1, <1>5
  <2>2. ASSUME NEW u \in Payload PROVE u[2] <= sent'[u[1]] <=> u[2] <= sent[u[1]] \/ u = v
    <3>1. u[1] \in Producers /\ u[2] \in Nat /\ u = <<u[1], u[2]>>
      BY QueueAssumption DEF Payload
    <3>2. CASE u[1] = p
      <4>1. sent'[u[1]] = sent[p] + 1 /\ sent[u[1]] = sent[p]
        BY <1>1, <1>3, <3>2
      <4>2. u = v <=> u[2] = sent[p] + 1
        BY <3>1, <3>2 DEF v
      <4> QED BY <1>3, <3>1, <4>1, <4>2
    <3>3. CASE u[1] # p
      BY <1>1, <1>3, <1>6, <3>1, <3>3
    <3> QED BY <3>2, <3>3
  <2> QED BY <1>2, <1>4, <2>1, <2>2
<1>8. ASSUME NEW i \in 1 .. n + 1, NEW j \in 1 .. n + 1, i < j, V[i][1] = V[j][1]
      PROVE  V[i][2] < V[j][2]
  <2>1. i \in 1 .. n /\ V[i] = W[i]
    BY <1>1, <1>5, <1>8
  <2>2. CASE j = n + 1
    <3>1. W[i][1] = p /\ V[j][2] = sent[p] + 1
      BY <1>5, <1>6, <1>8, <2>1, <2>2
    <3>2. W[i] \in Payload /\ W[i][2] <= sent[W[i][1]] /\ W[i][2] \in Nat
      <4>1. W[i] \in {u \in Payload : u[2] <= sent[u[1]]}
        BY <1>4, <2>1
      <4> QED BY <4>1, QueueAssumption DEF Payload
    <3> QED BY <1>3, <2>1, <3>1, <3>2
  <2>3. CASE j # n + 1
    BY <1>1, <1>4, <1>5, <1>8, <2>1, <2>3
  <2> QED BY <2>2, <2>3
<1> QED BY <1>5, <1>7, <1>8 DEF EachSentOnce, V

(* Every value pushed is in the ring or has been handed out, once, and the  *)
(* values of one producer keep their order, for any number of threads.      *)
THEOREM QueueKeepsAll == Spec => []EachSentOnce
<1>1. Init => EachSentOnce
  <2> SUFFICES ASSUME Init PROVE EachSentOnce
    OBVIOUS
  <2>1. IInv /\ m_uSize = 0 /\ delivered = <<>> /\ \A p \in Producers : sent[p] = 0
    BY InitIInv DEF Init
  <2>2. Contents = <<>>
    BY <2>1, ContentsSeq, EmptySeq DEF ContentsAreASequence
  <2>3. Passed = <<>>
    BY <2>1, <2>2 DEF Passed
  <2>4. \A v \in Payload : ~(v[2] <= sent[v[1]])
    BY <2>1 DEF Payload
  <2>5. DOMAIN Passed = {} /\ {v \in Payload : v[2] <= sent[v[1]]} = {}
    BY <2>3, <2>4
  <2>6. {Passed[i] : i \in DOMAIN Passed} = {}
    BY <2>5
  <2> QED BY <2>5, <2>6 DEF EachSentOnce
<1>2. IInv /\ EachSentOnce /\ [Next]_vars => EachSentOnce'
  <2> SUFFICES ASSUME IInv, EachSentOnce, [Next]_vars PROVE EachSentOnce'
    OBVIOUS
  <2>1. ASSUME NEW p \in Producers, Push(p) PROVE EachSentOnce'
    BY <2>1, PushEachOnce
  <2>2. ASSUME NEW c \in Consumers, Pop(c) PROVE EachSentOnce'
    BY <2>2, PopPassed DEF EachSentOnce
  <2>3. CASE UNCHANGED <<ring, sent, delivered>>
    <3>1. Passed' = Passed /\ sent' = sent
      BY <2>3 DEF ring, Passed, Contents, Slot
    <3> QED BY <3>1 DEF EachSentOnce
  <2>4. UNCHANGED vars => UNCHANGED <<ring, sent, delivered>>
    BY DEF vars, ring
  <2>5. ASSUME NEW t \in Threads, Notify(t) \/ SpuriousWake(t) PROVE UNCHANGED <<ring, sent, delivered>>
    BY <2>5 DEF Notify, SpuriousWake
  <2>6. ASSUME NEW p \in Producers, ProducerStep(p) PROVE EachSentOnce'
    BY <2>1, <2>3, <2>5, <2>6 DEF ProducerStep, PushWait, Threads
  <2>7. ASSUME NEW c \in Consumers, ConsumerStep(c) \/ PopTimeout(c) PROVE EachSentOnce'
    BY <2>2, <2>3, <2>5, <2>7 DEF ConsumerStep, PopWait, PopTimeout, PopFail, Threads
  <2> QED BY <2>3, <2>4, <2>5, <2>6, <2>7 DEF Next
<1> QED BY QueueInvariant, <1>1, <1>2, PTL DEF Spec
=============================================================================
