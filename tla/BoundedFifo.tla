---------------------------- MODULE BoundedFifo ----------------------------
(***************************************************************************)
(* What a BlockingQueue (src/ais_decoder/queue.h) promises its callers: a  *)
(* buffer of at most Capacity values that come out in the order they went  *)
(* in, each of them once.  Threads, the lock, the condition variable and   *)
(* the ring of slots belong to BlockingQueue.tla, which implements this    *)
(* module.                                                                 *)
(***************************************************************************)
EXTENDS Naturals, Sequences

CONSTANTS Capacity,   \* the N of BlockingQueue<payload_type, N>
          Values      \* the payloads

VARIABLES contents,   \* the values inside, oldest first
          delivered   \* every value handed out so far, oldest first

Init == contents = <<>> /\ delivered = <<>>

Push(v) ==
  /\ Len(contents) < Capacity
  /\ contents' = Append(contents, v)
  /\ UNCHANGED delivered

Pop ==
  /\ contents # <<>>
  /\ delivered' = Append(delivered, Head(contents))
  /\ contents' = Tail(contents)

Next == Pop \/ \E v \in Values : Push(v)

Spec == Init /\ [][Next]_<<contents, delivered>>
=============================================================================
