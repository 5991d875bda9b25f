--------------------------- MODULE BlockingQueue ---------------------------
(***************************************************************************)
(* BlockingQueue<payload_type, N> of src/ais_decoder/queue.h: a ring of N  *)
(* slots under one mutex, and one condition variable on which producers    *)
(* (queue full) and consumers (queue empty) wait together.                 *)
(*                                                                         *)
(* A critical section is one step: m_mutex admits one thread, and the only *)
(* member read without it, m_uSize, is stored once inside it.  The call of *)
(* notify_one comes after the unlock and is a step of its own.  Waiting    *)
(* releases the mutex and enters the wait set atomically, as               *)
(* std::condition_variable guarantees.                                     *)
(*                                                                         *)
(* Definitions named Mut... are one-defect variants of the definition that *)
(* follows them; no specification uses them (README, "Mutants").           *)
(***************************************************************************)
EXTENDS Integers, Sequences, FiniteSets

CONSTANTS Producers, Consumers,   \* threads calling push, threads calling pop
          N,                      \* slots in the ring
          CounterMod,             \* counters wrap at this value (2^32 in the code)
          Items                   \* bound: what each producer pushes

\* N is a power of two (static_assert), so it divides 2^32 and "& MASK" is "% N".
ASSUME QueueAssumption ==
  /\ N \in Nat \ {0}
  /\ CounterMod \in Nat
  /\ CounterMod > N
  /\ CounterMod % N = 0
  /\ Items \in Nat
  /\ Producers \cap Consumers = {}

VARIABLES m_array, m_uFront, m_uBack, m_uSize,
          pc,         \* where each thread stands in its call
          sent,       \* number of values each producer has pushed
          delivered   \* history: the values popped, in order

ring == <<m_array, m_uFront, m_uBack, m_uSize>>
vars == <<m_array, m_uFront, m_uBack, m_uSize, pc, sent, delivered>>

Threads == Producers \cup Consumers
Counter == 0 .. CounterMod - 1
Payload == Producers \X (1 .. Items)
Null    == <<>>              \* payload_type{}: a null unique_ptr
-----------------------------------------------------------------------------
(* Unsigned counters, the slot of a counter, the two wait predicates.      *)

Inc(c) == IF c = CounterMod - 1 THEN 0 ELSE c + 1

MutDiff(b, f) == IF b >= f THEN b - f ELSE 0    \* wrap-around forgotten
Diff(b, f) == IF b >= f THEN b - f ELSE b - f + CounterMod

MutSlot(c) == c % (N - 1)                       \* MASK one too small
Slot(c) == c % N

empty == m_uSize = 0

MutFull == m_uSize > N                          \* off by one
full == m_uSize >= N

Enqueue(v) ==
  /\ m_array' = [m_array EXCEPT ![Slot(m_uBack)] = v]
  /\ m_uBack' = Inc(m_uBack)
  /\ m_uSize' = Diff(m_uBack', m_uFront)
  /\ UNCHANGED m_uFront

Dequeue ==
  /\ delivered' = Append(delivered, m_array[Slot(m_uFront)])
  /\ m_array' = [m_array EXCEPT ![Slot(m_uFront)] = Null]
  /\ m_uFront' = Inc(m_uFront)
  /\ m_uSize' = Diff(m_uBack, m_uFront')
  /\ UNCHANGED m_uBack
-----------------------------------------------------------------------------
Goto(t, l) == pc' = [pc EXCEPT ![t] = l]
Waiting == {t \in Threads : pc[t] = "waiting"}

\* push: m_cv.wait(lock, !full); a woken producer tests the predicate again.
PushWait(p) ==
  /\ pc[p] = "ready" /\ sent[p] < Items
  /\ full
  /\ Goto(p, "waiting")
  /\ UNCHANGED <<ring, sent, delivered>>

Push(p) ==
  /\ pc[p] = "ready" /\ sent[p] < Items
  /\ ~full
  /\ Enqueue(<<p, sent[p] + 1>>)
  /\ sent' = [sent EXCEPT ![p] = @ + 1]
  /\ Goto(p, "notify")
  /\ UNCHANGED delivered

\* pop: m_cv.wait_for(lock, _timeout, !empty).
PopWait(c) ==
  /\ pc[c] = "ready"
  /\ empty
  /\ Goto(c, "waiting")
  /\ UNCHANGED <<ring, sent, delivered>>

\* The deadline passes: the thread leaves the wait set and asks for the mutex.
PopTimeout(c) ==
  /\ pc[c] = "waiting"
  /\ Goto(c, "expired")
  /\ UNCHANGED <<ring, sent, delivered>>

\* wait_for evaluates the predicate a last time, so an expired pop still takes
\* a value that arrived in the meantime.
Pop(c) ==
  /\ pc[c] \in {"ready", "expired"}
  /\ ~empty
  /\ Dequeue
  /\ Goto(c, "notify")
  /\ UNCHANGED sent

\* Expired and still empty: pop returns nothing and the caller's loop retries.
PopFail(c) ==
  /\ pc[c] = "expired"
  /\ empty
  /\ Goto(c, "ready")
  /\ UNCHANGED <<ring, sent, delivered>>

\* m_cv.notify_one(), after the unlock: any one waiter, of either kind.
MutNotify(t) ==                                 \* the signal is left out
  /\ pc[t] = "notify"
  /\ Goto(t, "ready")
  /\ UNCHANGED <<ring, sent, delivered>>
Notify(t) ==
  /\ pc[t] = "notify"
  /\ IF Waiting = {}
     THEN Goto(t, "ready")
     ELSE \E w \in Waiting : pc' = [pc EXCEPT ![t] = "ready", ![w] = "ready"]
  /\ UNCHANGED <<ring, sent, delivered>>

\* A condition variable may wake a waiter that nobody notified.
SpuriousWake(t) ==
  /\ pc[t] = "waiting"
  /\ Goto(t, "ready")
  /\ UNCHANGED <<ring, sent, delivered>>
-----------------------------------------------------------------------------
Init ==
  /\ m_array = [i \in 0 .. N - 1 |-> Null]
  /\ m_uFront = 0 /\ m_uBack = 0 /\ m_uSize = 0
  /\ pc = [t \in Threads |-> "ready"]
  /\ sent = [p \in Producers |-> 0]
  /\ delivered = <<>>

ProducerStep(p) == PushWait(p) \/ Push(p) \/ Notify(p)
ConsumerStep(c) == PopWait(c) \/ Pop(c) \/ PopFail(c) \/ Notify(c)

Next ==
  \/ \E p \in Producers : ProducerStep(p)
  \/ \E c \in Consumers : ConsumerStep(c) \/ PopTimeout(c)
  \/ \E t \in Threads : SpuriousWake(t)

Spec == Init /\ [][Next]_vars

\* The scheduler runs every thread that can run; nothing says a wait times out.
Scheduled ==
  /\ \A p \in Producers : WF_vars(ProducerStep(p))
  /\ \A c \in Consumers : WF_vars(ConsumerStep(c))
FairSpec == Spec /\ Scheduled

\* The same, and a wait_for that nobody notifies ends at its deadline.
TimedSpec == FairSpec /\ \A c \in Consumers : WF_vars(PopTimeout(c))
-----------------------------------------------------------------------------
(* The values between front and back, oldest first.                        *)
Contents == [i \in 1 .. m_uSize |-> m_array[Slot(m_uFront + i - 1)]]

TypeOK ==
  /\ m_array \in [0 .. N - 1 -> Payload \cup {Null}]
  /\ m_uFront \in Counter
  /\ m_uBack \in Counter
  /\ m_uSize \in 0 .. N
  /\ pc \in [Threads -> {"ready", "waiting", "expired", "notify"}]
  /\ sent \in [Producers -> 0 .. Items]
  /\ delivered \in Seq(Payload)

\* The counters and the size agree, also after the 32-bit counters wrap: what
\* full() and empty() answer is the real number of occupied slots.
SizeIsDistance ==
  /\ m_uSize = Diff(m_uBack, m_uFront)
  /\ m_uSize = Cardinality({i \in 0 .. N - 1 : m_array[i] # Null})

\* Nothing is lost, duplicated or reordered: what came out followed by what is
\* inside holds every value that has been pushed and nothing else, and those of one
\* producer in the order in which it pushed them, each once.
Passed == delivered \o Contents
EachSentOnce ==
  /\ {Passed[i] : i \in DOMAIN Passed} = {v \in Payload : v[2] <= sent[v[1]]}
  /\ \A i, j \in DOMAIN Passed : i < j /\ Passed[i][1] = Passed[j][1] => Passed[i][2] < Passed[j][2]

\* No missed wake-up: a thread that sleeps although its predicate holds has a
\* notify_one on its way.  The pipeline relies on it with one producer and one
\* consumer per queue, since the wait in push has no timeout.
NoStrandedWaiter ==
  \A t \in Waiting :
    (IF t \in Producers THEN ~full ELSE ~empty)
      => \E u \in Threads : pc[u] = "notify"

\* The slots from front to back are occupied (part of the inductive invariant).
Occupied == \A i \in 0 .. m_uSize - 1 : m_array[Slot(m_uFront + i)] \in Payload
IInv == TypeOK /\ m_uSize = Diff(m_uBack, m_uFront) /\ Occupied

\* push and pop implement the bounded FIFO of BoundedFifo.tla.
Fifo == INSTANCE BoundedFifo
          WITH Capacity <- N, Values <- Payload, contents <- Contents
ImplementsFifo == Fifo!Spec

\* Every value is pushed and popped: no push and no pop sleeps for ever.
AllDelivered == <>(Len(delivered) = Items * Cardinality(Producers))
=============================================================================
