---------------------------- MODULE ChunkMemory ----------------------------
(***************************************************************************)
(* Where the chunks of Pipeline.tla live: Chunk (chunk.h) and MemoryPool   *)
(* (mem_pool.h) of src/ais_decoder, under the threads of                   *)
(* src/ais_reader/main.cpp and the unique_ptrs of processing.h.            *)
(*                                                                         *)
(* Every step of Pipeline is taken together with what it does to memory.   *)
(* There is a pool for each type of chunk, so pools carry the name of the  *)
(* queue their chunks travel in.  An address is the ordinal of the malloc  *)
(* that gave it; what memory holds is the chunk last written there.        *)
(* statusReport has no chunk and is left out.                              *)
(* Mut... definitions: see the README, "Mutants".                          *)
(***************************************************************************)
EXTENDS Pipeline, SequencesExt

VARIABLES pool,      \* m_pool: the free chunks, a stack
          mallocs,   \* chunks taken from the heap
          content,   \* which chunk of the file the memory holds; 0: none yet
          slots,     \* the chunk pointers in the queues
          taken,     \* pointer a stage has popped; 0: null
          made,      \* pointer to the chunk a thread fills; 0: null
          step       \* where a thread stands between two of Pipeline's steps

memory  == <<pool, mallocs, content, slots, taken, made, step>>

Makers == Workers \cup {"reader"}
Address == Nat \ {0}
Heap    == 1 .. Capacity + 4    \* bound: addresses the model can tell apart

Step(t, l) == step' = [step EXCEPT ![t] = l]
-----------------------------------------------------------------------------
(* MemoryPool: a lock is held throughout either call, so each is one step. *)

Free(q) == IF pool[q] = <<>> THEN mallocs[q] + 1 ELSE Last(pool[q])

MutFindObjectPtr(q) ==                      \* pop_back forgotten
  /\ mallocs' = IF pool[q] = <<>> THEN [mallocs EXCEPT ![q] = @ + 1] ELSE mallocs
  /\ pool' = pool

\* Hand out Free(q): from the top of the stack, or else from the heap.
findObjectPtr(q) ==
  IF pool[q] = <<>>
  THEN mallocs' = [mallocs EXCEPT ![q] = @ + 1] /\ UNCHANGED pool
  ELSE pool' = [pool EXCEPT ![q] = Front(@)] /\ UNCHANGED mallocs

MutReturnObjectPtr(q, p) == pool' = pool    \* not put back
returnObjectPtr(q, p) == pool' = [pool EXCEPT ![q] = Append(@, p)]
-----------------------------------------------------------------------------
(* The reader: make_unique<Fragments>, fill, push; an empty chunk is       *)
(* released when processNmeaData returns.                                  *)

ReaderNew ==
  /\ pc["reader"] = "push" /\ step["reader"] = "idle"
  /\ LET q == Output["reader"] IN
       /\ findObjectPtr(q)
       /\ made' = [made EXCEPT !["reader"] = Free(q)]
       /\ content' = [content EXCEPT ![q][Free(q)] = read + 1]
  /\ Step("reader", "fill")
  /\ UNCHANGED <<vars, slots, taken>>

ReaderDelete ==
  /\ step["reader"] = "fill"
  /\ returnObjectPtr(Output["reader"], made["reader"])
  /\ made' = [made EXCEPT !["reader"] = 0]
  /\ Step("reader", "idle")
  /\ UNCHANGED <<vars, mallocs, content, slots, taken>>

\* push moves the pointer into the queue.
Move(t) ==
  /\ slots' = [slots EXCEPT ![Output[t]] = Append(@, made[t])]
  /\ made' = [made EXCEPT ![t] = 0]

ReaderMove ==
  /\ step["reader"] = "fill" /\ ReaderPush
  /\ Move("reader")
  /\ Step("reader", "idle")
  /\ UNCHANGED <<pool, mallocs, content, taken>>

ReaderEnd ==
  /\ step["reader"] = "idle" /\ ReaderFinish
  /\ UNCHANGED memory
-----------------------------------------------------------------------------
(* A stage: pop, make_unique, fill, push or delete, delete.                *)

Take(s) ==
  /\ taken' = [taken EXCEPT ![s] = Head(slots[Input[s]])]
  /\ slots' = [slots EXCEPT ![Input[s]] = Tail(@)]
  /\ UNCHANGED <<mallocs, content, made>>

MutStageTake(s) ==                          \* the chunk is released before it is read
  /\ step[s] = "idle" /\ (StagePop(s) \/ StageDrop(s))
  /\ Take(s)
  /\ returnObjectPtr(Input[s], Head(slots[Input[s]]))
  /\ Step(s, "new")

StageTake(s) ==
  /\ step[s] = "idle" /\ (StagePop(s) \/ StageDrop(s))
  /\ Take(s)
  /\ Step(s, "new")
  /\ UNCHANGED pool

\* The output chunk is filled from the memory of the input chunk.
StageNew(s) ==
  /\ step[s] = "new"
  /\ LET q == Output[s] IN
       /\ findObjectPtr(q)
       /\ made' = [made EXCEPT ![s] = Free(q)]
       /\ content' = [content EXCEPT ![q][Free(q)] = content[Input[s]][taken[s]]]
  /\ Step(s, "fill")
  /\ UNCHANGED <<vars, slots, taken>>

StageMove(s) ==
  /\ step[s] = "fill" /\ StagePush(s)
  /\ Move(s)
  /\ Step(s, "delete")
  /\ UNCHANGED <<pool, mallocs, content, taken>>

\* An empty output chunk is released at the end of its scope.
StageDeleteMade(s) ==
  /\ step[s] = "fill" /\ hold[s] = 0
  /\ returnObjectPtr(Output[s], made[s])
  /\ made' = [made EXCEPT ![s] = 0]
  /\ Step(s, "delete")
  /\ UNCHANGED <<vars, mallocs, content, slots, taken>>

DeleteTaken(s) ==
  /\ returnObjectPtr(Input[s], taken[s])
  /\ taken' = [taken EXCEPT ![s] = 0]
  /\ Step(s, "idle")
  /\ UNCHANGED <<vars, mallocs, content, slots, made>>

StageDelete(s) == step[s] = "delete" /\ DeleteTaken(s)

StageLoop(s) ==
  /\ step[s] = "idle"
  /\ PopTimeout(s) \/ CheckFinished(s) \/ CheckEmpty(s)
  /\ UNCHANGED memory
-----------------------------------------------------------------------------
(* procPayloadsQueue keeps its chunk until the end of the loop's body, that *)
(* is, behind the stop test.                                               *)

PayloadsTake ==
  /\ step["payloads"] = "idle" /\ PayloadsPop
  /\ Take("payloads")
  /\ Step("payloads", "delete")
  /\ UNCHANGED pool

PayloadsLoop ==
  /\ Plot \/ CheckFinished("payloads") \/ CheckEmpty("payloads")
     \/ (step["payloads"] = "idle" /\ PopTimeout("payloads"))
  /\ UNCHANGED memory

PayloadsDelete ==
  /\ step["payloads"] = "delete" /\ pc["payloads"] \in {"pop", "done"}
  /\ DeleteTaken("payloads")
-----------------------------------------------------------------------------
MemoryInit ==
  /\ Init
  /\ pool = [q \in Queues |-> <<>>] /\ mallocs = [q \in Queues |-> 0]
  /\ content = [q \in Queues |-> [p \in Heap |-> 0]]
  /\ slots = [q \in Queues |-> <<>>]
  /\ taken = [s \in Stages |-> 0] /\ made = [t \in Makers |-> 0]
  /\ step = [t \in Makers \cup Stages |-> "idle"]

MemoryStep(s) ==
  StageTake(s) \/ StageNew(s) \/ StageMove(s) \/ StageDeleteMade(s) \/ StageDelete(s) \/ StageLoop(s)

MemoryNext ==
  \/ ReaderNew \/ ReaderDelete \/ ReaderMove \/ ReaderEnd
  \/ \E s \in Workers : MemoryStep(s)
  \/ PayloadsTake \/ PayloadsLoop \/ PayloadsDelete

MemorySpec == MemoryInit /\ [][MemoryNext]_<<vars, memory>>
-----------------------------------------------------------------------------
Maker(q) == CHOOSE t \in Makers : Output[t] = q
Taker(q) == CHOOSE s \in Stages : Input[s] = q

\* All pointers to chunks of q's type.
Pointer(p) == IF p = 0 THEN <<>> ELSE <<p>>
Held(q) == pool[q] \o slots[q] \o Pointer(made[Maker(q)]) \o Pointer(taken[Taker(q)])

\* Every chunk taken from the heap is in one place: free, in a queue, or in the
\* hands of one thread.  None is handed out twice and none leaks, whatever the
\* order in which producer and consumer reach the pool they share.
OneOwner == \A q \in Queues : Len(Held(q)) = mallocs[q] /\ Range(Held(q)) = 1 .. mallocs[q]

\* A chunk still holds what was put into it when the next thread reads it: memory
\* is not recycled while it waits in a queue or is being read.
ContentIntact ==
  /\ \A q \in Queues : \A i \in DOMAIN queue[q] : content[q][slots[q][i]] = queue[q][i]
  /\ \A s \in Stages : hold[s] # 0 => content[Input[s]][taken[s]] = hold[s]
  /\ \A s \in Workers : hold[s] # 0 /\ step[s] = "fill" => content[Output[s]][made[s]] = hold[s]

\* The queues bound the memory: a full queue, one chunk being filled and one
\* being read is all there ever is of a type.
MemoryBounded == \A q \in Queues : mallocs[q] <= Capacity + 2

(* What makes them inductive: which pointers a thread holds follows from   *)
(* where it stands, a queue has a pointer for each chunk, and the reader's *)
(* chunk holds what it will push (ChunkMemoryProofs).                      *)
MemoryTypes ==
  /\ pool \in [Queues -> Seq(Address)] /\ slots \in [Queues -> Seq(Address)]
  /\ mallocs \in [Queues -> Nat]
  /\ content \in [Queues -> [Heap -> Nat]]
  /\ taken \in [Stages -> Nat] /\ made \in [Makers -> Nat]
  /\ step \in [Makers \cup Stages -> {"idle", "new", "fill", "delete"}]
Custody ==
  /\ \A q \in Queues : Len(slots[q]) = Len(queue[q])
  /\ step["reader"] \in {"idle", "fill"} /\ step["payloads"] \in {"idle", "delete"}
  /\ \A t \in Makers : made[t] # 0 <=> step[t] = "fill"
  /\ \A s \in Stages : taken[s] # 0 <=> step[s] # "idle"
  /\ \A s \in Workers : hold[s] # 0 => step[s] \in {"new", "fill"}
  /\ hold["payloads"] # 0 => step["payloads"] = "delete"
ReaderFills == step["reader"] = "fill" => content["fragmentQueue"][made["reader"]] = read + 1

MemoryInv == MemoryTypes /\ Custody /\ OneOwner /\ MemoryBounded /\ ContentIntact /\ ReaderFills
=============================================================================
