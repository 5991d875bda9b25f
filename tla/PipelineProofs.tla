--------------------------- MODULE PipelineProofs --------------------------
(***************************************************************************)
(* Proofs about Pipeline.tla, for every number of chunks, every capacity   *)
(* of the queues and every MAX_PROC_COUNT: the types, that the stop test   *)
(* of procFragmentsQueue is right, that statusReport counts no payload     *)
(* twice, that the chunks on their way stay in the order of the file and   *)
(* that none is lost.                                                      *)
(***************************************************************************)
EXTENDS Pipeline, SequenceTheorems, TLAPS

\* Names are told apart, queues are distinct, and the constants are numbers.
LEMMA Constants ==
  /\ NumChunks \in Nat /\ PerChunk \in Nat /\ PerChunk > 0
  /\ Capacity \in Nat /\ Capacity > 0
  /\ MAX_PROC_COUNT \in Nat /\ MAX_PROC_COUNT > 0
BY PipelineAssumption DEF PipelineAssumption

\* Taking the head off a queue and putting a chunk at its end keep its type.
LEMMA PopQueue ==
  ASSUME TypeOK, NEW q \in Queues, ~empty(q), pop(q)
  PROVE  /\ Head(queue[q]) \in Chunk
         /\ queue' \in [Queues -> Seq(Chunk)]
         /\ \A r \in Queues : Len(queue'[r]) <= Capacity
<1>1. queue \in [Queues -> Seq(Chunk)] /\ \A r \in Queues : Len(queue[r]) <= Capacity
  BY DEF TypeOK
<1>2. queue[q] \in Seq(Chunk) /\ queue[q] # <<>> /\ Len(queue[q]) <= Capacity
  BY <1>1 DEF empty
<1>3. Head(queue[q]) \in Chunk /\ Tail(queue[q]) \in Seq(Chunk) /\ Len(Tail(queue[q])) = Len(queue[q]) - 1
  BY <1>2
<1>4. Len(Tail(queue[q])) <= Capacity
  BY <1>2, <1>3, Constants
<1>5. queue' = [queue EXCEPT ![q] = Tail(queue[q])]
  BY DEF pop
<1> QED
  BY <1>1, <1>3, <1>4, <1>5

LEMMA PushQueue ==
  ASSUME TypeOK, NEW q \in Queues, NEW k \in Chunk, ~full(q), push(q, k)
  PROVE  /\ queue' \in [Queues -> Seq(Chunk)]
         /\ \A r \in Queues : Len(queue'[r]) <= Capacity
<1>1. queue \in [Queues -> Seq(Chunk)] /\ \A r \in Queues : Len(queue[r]) <= Capacity
  BY DEF TypeOK
<1>2. queue[q] \in Seq(Chunk) /\ Len(queue[q]) < Capacity /\ Len(queue[q]) \in Nat
  BY <1>1, Constants DEF full
<1>3. Append(queue[q], k) \in Seq(Chunk) /\ Len(Append(queue[q], k)) = Len(queue[q]) + 1
  BY <1>2
<1>4. Len(Append(queue[q], k)) <= Capacity
  BY <1>2, <1>3, Constants
<1>5. queue' = [queue EXCEPT ![q] = Append(queue[q], k)]
  BY DEF push
<1> QED
  BY <1>1, <1>3, <1>4, <1>5
-----------------------------------------------------------------------------
LEMMA InitIInv == Init => IInv
<1> SUFFICES ASSUME Init PROVE IInv
  OBVIOUS
<1>1. /\ queue \in [Queues -> Seq(Chunk)]
      /\ \A q \in Queues : Len(queue[q]) <= Capacity
  BY Constants DEF Init
<1>2. pc \in [Threads -> Location]
  BY DEF Init, Location
<1>3. TypeOK
  <2>1. read \in 0 .. NumChunks /\ hold \in [Stages -> 0 .. NumChunks]
    BY Constants DEF Init
  <2>2. iter \in [Workers -> 0 .. MAX_PROC_COUNT] /\ left \in 0 .. PerChunk
    BY Constants DEF Init
  <2>3. plotted \in Seq(Chunk) /\ imageAt \in Int
    BY DEF Init
  <2>4. fileFinished \in BOOLEAN /\ msgCount \in Nat /\ sampled \in Nat /\ reported \in Nat
    BY DEF Init
  <2> QED
    BY <1>1, <1>2, <2>1, <2>2, <2>3, <2>4 DEF TypeOK
<1>4. /\ \A s \in Workers : pc[s] = "pop" /\ hold[s] = 0 /\ iter[s] = 0
      /\ pc["payloads"] = "pop" /\ hold["payloads"] = 0
      /\ pc["fragments"] = "pop" /\ pc["reader"] = "push" /\ pc["status"] = "sample"
  BY DEF Init, Threads, Stages, Workers
<1>5. Phases /\ FinishedKnown /\ FragmentsDrained /\ SampleBehind
  BY <1>4, Constants DEF Init, Phases, FinishedKnown, FragmentsDrained, SampleBehind
<1>6. NeverOvercounts
  BY <1>4, Constants DEF Init, NeverOvercounts, Plotted
<1> QED
  BY <1>3, <1>5, <1>6 DEF IInv

\* Where the program counters are after one of them moved.
LEMMA GotoType ==
  ASSUME TypeOK, NEW t \in Threads, NEW l \in Location, Goto(t, l)
  PROVE  /\ pc' \in [Threads -> Location]
         /\ pc'[t] = l /\ \A u \in Threads \ {t} : pc'[u] = pc[u]
BY DEF TypeOK, Goto

\* The threads, one by one.
LEMMA ThreadNames ==
  /\ Threads = {"fragments", "messages", "payloads", "reader", "status"}
  /\ Workers = {"fragments", "messages"}
  /\ Stages = {"fragments", "messages", "payloads"}
  /\ Queues = {"fragmentQueue", "messageQueue", "payloadQueue"}
  /\ Input["fragments"] = "fragmentQueue" /\ Input["messages"] = "messageQueue"
  /\ Input["payloads"] = "payloadQueue" /\ Input["status"] = "payloadQueue"
  /\ Output["reader"] = "fragmentQueue" /\ Output["fragments"] = "messageQueue"
  /\ Output["messages"] = "payloadQueue"
BY DEF Threads, Stages, Workers, Queues, Input, Output

LEMMA ReaderSteps == IInv /\ ReaderStep => IInv'
<1> SUFFICES ASSUME IInv, ReaderStep PROVE IInv'
  OBVIOUS
<1> USE DEF IInv
<1>1. CASE ReaderPush
  <2>1. read + 1 \in Chunk /\ read' \in 0 .. NumChunks
    BY <1>1, Constants DEF ReaderPush, TypeOK, Chunk
  <2>2. queue' \in [Queues -> Seq(Chunk)] /\ \A r \in Queues : Len(queue'[r]) <= Capacity
    BY <1>1, <2>1, PushQueue, ThreadNames DEF ReaderPush
  <2>3. TypeOK'
    BY <1>1, <2>1, <2>2 DEF ReaderPush, TypeOK
  <2>4. ~fileFinished /\ pc["fragments"] \notin {"checkEmpty", "done"}
    BY <1>1 DEF ReaderPush, FinishedKnown
  <2> QED
    BY <1>1, <2>3, <2>4
       DEF ReaderPush, Phases, FinishedKnown, FragmentsDrained, SampleBehind,
           NeverOvercounts, Plotted
<1>2. CASE ReaderFinish
  <2>1. /\ pc' \in [Threads -> Location]
        /\ pc'["reader"] = "done" /\ \A u \in Threads \ {"reader"} : pc'[u] = pc[u]
    <3>1. "reader" \in Threads /\ "done" \in Location /\ Goto("reader", "done")
      BY <1>2, ThreadNames DEF Location, ReaderFinish
    <3> QED
      BY <3>1, GotoType
  <2>2. TypeOK'
    BY <1>2, <2>1 DEF ReaderFinish, TypeOK
  <2> QED
    BY <1>2, <2>1, <2>2, ThreadNames
       DEF ReaderFinish, Phases, FinishedKnown, FragmentsDrained, SampleBehind,
           NeverOvercounts, Plotted, empty
<1> QED
  BY <1>1, <1>2 DEF ReaderStep

-----------------------------------------------------------------------------
\* A step of processFragments or processMessages leaves the other threads alone.
LEMMA WorkerFrame ==
  ASSUME IInv, NEW s \in Workers,
         \A u \in Threads \ {s} : pc'[u] = pc[u],
         \A u \in Stages \ {s} : hold'[u] = hold[u],
         \A u \in Workers \ {s} : iter'[u] = iter[u],
         hold'[s] # 0 <=> pc'[s] = "push",
         pc'[s] \in {"pop", "push"} => iter'[s] < MAX_PROC_COUNT,
         UNCHANGED <<fileFinished, read, left, plotted, msgCount, sampled, reported>>,
         s = "fragments" /\ pc'[s] \in {"checkEmpty", "done"} => fileFinished,
         s = "fragments" /\ pc'[s] = "done" => queue'["fragmentQueue"] = <<>>,
         s = "messages" => queue'["fragmentQueue"] = queue["fragmentQueue"]
  PROVE  Phases' /\ FinishedKnown' /\ FragmentsDrained' /\ SampleBehind' /\ NeverOvercounts'
<1> USE DEF IInv
<1>1. /\ pc'["payloads"] = pc["payloads"] /\ hold'["payloads"] = hold["payloads"]
      /\ pc'["reader"] = pc["reader"] /\ pc'["status"] = pc["status"]
  BY ThreadNames
<1>2. Phases'
  BY <1>1, ThreadNames DEF Phases
<1>3. SampleBehind' /\ NeverOvercounts'
  BY <1>1 DEF SampleBehind, NeverOvercounts, Plotted
<1>4. CASE s = "fragments"
  BY <1>1, <1>2, <1>3, <1>4 DEF FinishedKnown, FragmentsDrained, empty
<1>5. CASE s = "messages"
  <2>1. pc'["fragments"] = pc["fragments"] /\ hold'["fragments"] = hold["fragments"]
    BY <1>5, ThreadNames
  <2> QED
    BY <1>1, <1>2, <1>3, <1>5, <2>1 DEF FinishedKnown, FragmentsDrained, empty
<1> QED
  BY <1>4, <1>5, ThreadNames

\* One round of the loop done: the counter goes up, or the loop is left.
LEMMA IterationStep ==
  ASSUME TypeOK, NEW s \in Workers, NextIteration(s), iter[s] < MAX_PROC_COUNT
  PROVE  /\ iter' \in [Workers -> 0 .. MAX_PROC_COUNT]
         /\ \A u \in Workers \ {s} : iter'[u] = iter[u]
         /\ pc' \in [Threads -> Location]
         /\ \A u \in Threads \ {s} : pc'[u] = pc[u]
         /\ pc'[s] \in {"pop", "checkFinished"}
         /\ pc'[s] = "pop" => iter'[s] < MAX_PROC_COUNT
<1>1. iter \in [Workers -> 0 .. MAX_PROC_COUNT] /\ pc \in [Threads -> Location]
  BY DEF TypeOK
<1>2. iter[s] \in Nat /\ iter[s] + 1 \in 0 .. MAX_PROC_COUNT
  BY <1>1, Constants
<1>3. iter' = [iter EXCEPT ![s] = iter[s] + 1]
  BY DEF NextIteration
<1>4. s \in Threads /\ "pop" \in Location /\ "checkFinished" \in Location
  BY ThreadNames DEF Location
<1>5. pc' = [pc EXCEPT ![s] = IF iter[s] + 1 = MAX_PROC_COUNT THEN "checkFinished" ELSE "pop"]
  BY DEF NextIteration, Goto
<1>6. pc' \in [Threads -> Location] /\ \A u \in Threads \ {s} : pc'[u] = pc[u]
  BY <1>1, <1>4, <1>5
<1>7. pc'[s] = IF iter[s] + 1 = MAX_PROC_COUNT THEN "checkFinished" ELSE "pop"
  BY <1>1, <1>4, <1>5
<1>8. iter'[s] = iter[s] + 1 /\ iter' \in [Workers -> 0 .. MAX_PROC_COUNT]
      /\ \A u \in Workers \ {s} : iter'[u] = iter[u]
  BY <1>1, <1>2, <1>3
<1>9. pc'[s] = "pop" => iter'[s] < MAX_PROC_COUNT
  BY <1>2, <1>7, <1>8, Constants
<1> QED
  BY <1>6, <1>7, <1>8, <1>9

LEMMA WorkerQueueSteps ==
  ASSUME IInv, NEW s \in Workers, StagePop(s) \/ StageDrop(s) \/ StagePush(s)
  PROVE  IInv'
<1> USE DEF IInv
<1>1. /\ s \in Threads /\ s \in Stages /\ Input[s] \in Queues /\ Output[s] \in Queues
      /\ s = "messages" => Input[s] # "fragmentQueue"
      /\ Output[s] # "fragmentQueue"
  BY ThreadNames
<1>2. /\ queue \in [Queues -> Seq(Chunk)] /\ hold \in [Stages -> 0 .. NumChunks]
      /\ pc \in [Threads -> Location] /\ "fragmentQueue" \in Queues
  BY ThreadNames DEF TypeOK
<1>3. CASE StagePop(s)
  <2>1. Head(queue[Input[s]]) \in Chunk /\ queue' \in [Queues -> Seq(Chunk)]
        /\ \A q \in Queues : Len(queue'[q]) <= Capacity
    BY <1>1, <1>3, PopQueue DEF StagePop
  <2>2. hold' = [hold EXCEPT ![s] = Head(queue[Input[s]])] /\ hold' \in [Stages -> 0 .. NumChunks]
    <3>1. hold' = [hold EXCEPT ![s] = Head(queue[Input[s]])]
      BY <1>3 DEF StagePop
    <3>2. Head(queue[Input[s]]) \in 0 .. NumChunks
      BY <2>1, Constants DEF Chunk
    <3> QED
      BY <1>2, <3>1, <3>2
  <2>3. hold'[s] # 0 /\ \A u \in Stages \ {s} : hold'[u] = hold[u]
    BY <1>1, <1>2, <2>1, <2>2, Constants DEF Chunk
  <2>4. pc' \in [Threads -> Location] /\ pc'[s] = "push" /\ \A u \in Threads \ {s} : pc'[u] = pc[u]
    BY <1>1, <1>3, GotoType DEF StagePop, Location
  <2>5. iter[s] < MAX_PROC_COUNT
    BY <1>3 DEF StagePop, Phases
  <2>6. s = "messages" => queue'["fragmentQueue"] = queue["fragmentQueue"]
    BY <1>1, <1>2, <1>3 DEF StagePop, pop
  <2>7. TypeOK'
    BY <1>3, <2>1, <2>2, <2>4 DEF StagePop, TypeOK
  <2> QED
    BY <1>3, <2>3, <2>4, <2>5, <2>6, <2>7, WorkerFrame DEF StagePop
<1>4. CASE StageDrop(s)
  <2>1. queue' \in [Queues -> Seq(Chunk)] /\ \A q \in Queues : Len(queue'[q]) <= Capacity
    BY <1>1, <1>4, PopQueue DEF StageDrop
  <2>2. iter[s] < MAX_PROC_COUNT /\ hold[s] = 0
    BY <1>4 DEF StageDrop, Phases
  <2>3. /\ iter' \in [Workers -> 0 .. MAX_PROC_COUNT]
        /\ \A u \in Workers \ {s} : iter'[u] = iter[u]
        /\ pc' \in [Threads -> Location]
        /\ \A u \in Threads \ {s} : pc'[u] = pc[u]
        /\ pc'[s] \in {"pop", "checkFinished"}
        /\ pc'[s] = "pop" => iter'[s] < MAX_PROC_COUNT
    BY <1>4, <2>2, IterationStep DEF StageDrop
  <2>4. s = "messages" => queue'["fragmentQueue"] = queue["fragmentQueue"]
    BY <1>1, <1>2, <1>4 DEF StageDrop, pop
  <2>5. TypeOK'
    BY <1>4, <2>1, <2>3 DEF StageDrop, TypeOK
  <2> QED
    BY <1>4, <2>2, <2>3, <2>4, <2>5, WorkerFrame DEF StageDrop
<1>5. CASE StagePush(s)
  <2>1. pc[s] = "push" /\ hold[s] # 0 /\ hold[s] \in Chunk
    BY <1>1, <1>2, <1>5, Constants DEF StagePush, Phases, Chunk
  <2>2. queue' \in [Queues -> Seq(Chunk)] /\ \A q \in Queues : Len(queue'[q]) <= Capacity
    BY <1>1, <1>5, <2>1, PushQueue DEF StagePush
  <2>3. hold' = [hold EXCEPT ![s] = 0] /\ hold' \in [Stages -> 0 .. NumChunks]
        /\ hold'[s] = 0 /\ \A u \in Stages \ {s} : hold'[u] = hold[u]
    BY <1>1, <1>2, <1>5, Constants DEF StagePush
  <2>4. iter[s] < MAX_PROC_COUNT
    BY <2>1 DEF Phases
  <2>5. /\ iter' \in [Workers -> 0 .. MAX_PROC_COUNT]
        /\ \A u \in Workers \ {s} : iter'[u] = iter[u]
        /\ pc' \in [Threads -> Location]
        /\ \A u \in Threads \ {s} : pc'[u] = pc[u]
        /\ pc'[s] \in {"pop", "checkFinished"}
        /\ pc'[s] = "pop" => iter'[s] < MAX_PROC_COUNT
    BY <1>5, <2>4, IterationStep DEF StagePush
  <2>6. queue'["fragmentQueue"] = queue["fragmentQueue"]
    BY <1>1, <1>2, <1>5 DEF StagePush, push
  <2>7. TypeOK'
    BY <1>5, <2>2, <2>3, <2>5 DEF StagePush, TypeOK
  <2> QED
    BY <1>5, <2>3, <2>5, <2>6, <2>7, WorkerFrame DEF StagePush
<1> QED
  BY <1>3, <1>4, <1>5

LEMMA WorkerTestSteps ==
  ASSUME IInv, NEW s \in Workers, PopTimeout(s) \/ CheckFinished(s) \/ CheckEmpty(s)
  PROVE  IInv'
<1> USE DEF IInv
<1>1. /\ s \in Threads /\ s \in Stages /\ s # "status"
      /\ s = "fragments" => Input[s] = "fragmentQueue"
      /\ s \in {"fragments", "messages"}
  BY ThreadNames
<1>2. queue' = queue /\ hold' = hold
      /\ UNCHANGED <<fileFinished, read, left, plotted, msgCount, sampled, reported, imageAt>>
  BY DEF PopTimeout, CheckFinished, CheckEmpty
<1>3. pc[s] # "push" /\ hold[s] = 0
  BY DEF PopTimeout, CheckFinished, CheckEmpty, Phases
<1>4. CASE iter' = iter /\ PopTimeout(s)
  <2>1. pc' \in [Threads -> Location] /\ pc'[s] = "checkFinished"
        /\ \A u \in Threads \ {s} : pc'[u] = pc[u]
    BY <1>1, <1>4, GotoType DEF PopTimeout, Location
  <2>2. TypeOK'
    BY <1>2, <1>4, <2>1 DEF TypeOK
  <2> QED
    BY <1>2, <1>3, <1>4, <2>1, <2>2, WorkerFrame
<1>5. CASE /\ iter' = iter /\ fileFinished /\ Goto(s, "checkEmpty")
  <2>1. pc' \in [Threads -> Location] /\ pc'[s] = "checkEmpty"
        /\ \A u \in Threads \ {s} : pc'[u] = pc[u]
    BY <1>1, <1>5, GotoType DEF Location
  <2>2. TypeOK'
    BY <1>2, <1>5, <2>1 DEF TypeOK
  <2> QED
    BY <1>2, <1>3, <1>5, <2>1, <2>2, WorkerFrame
<1>6. CASE /\ iter' = iter /\ pc[s] = "checkEmpty" /\ empty(Input[s]) /\ Goto(s, "done")
  <2>1. pc' \in [Threads -> Location] /\ pc'[s] = "done"
        /\ \A u \in Threads \ {s} : pc'[u] = pc[u]
    BY <1>1, <1>6, GotoType DEF Location
  <2>2. TypeOK'
    BY <1>2, <1>6, <2>1 DEF TypeOK
  <2>3. s = "fragments" => fileFinished /\ queue'["fragmentQueue"] = <<>>
    BY <1>1, <1>2, <1>6 DEF FinishedKnown, empty
  <2> QED
    BY <1>2, <1>3, <1>6, <2>1, <2>2, <2>3, WorkerFrame
<1>7. CASE Again(s)
  <2>1. pc' \in [Threads -> Location] /\ pc'[s] = "pop"
        /\ \A u \in Threads \ {s} : pc'[u] = pc[u]
    BY <1>1, <1>7, GotoType DEF Again, Location
  <2>2. iter' = [iter EXCEPT ![s] = 0]
    BY <1>7 DEF Again
  <2>3. iter \in [Workers -> 0 .. MAX_PROC_COUNT] /\ 0 \in 0 .. MAX_PROC_COUNT
    BY Constants DEF TypeOK
  <2>4. iter' \in [Workers -> 0 .. MAX_PROC_COUNT] /\ iter'[s] = 0 /\ iter'[s] < MAX_PROC_COUNT
        /\ \A u \in Workers \ {s} : iter'[u] = iter[u]
    BY <2>2, <2>3, Constants
  <2>5. TypeOK'
    BY <1>2, <2>1, <2>4 DEF TypeOK
  <2> QED
    BY <1>2, <1>3, <2>1, <2>4, <2>5, WorkerFrame
<1> QED
  BY <1>1, <1>4, <1>5, <1>6, <1>7 DEF PopTimeout, CheckFinished, CheckEmpty

LEMMA WorkerSteps == IInv /\ (\E s \in Workers : WorkerStep(s)) => IInv'
BY WorkerQueueSteps, WorkerTestSteps DEF WorkerStep
-----------------------------------------------------------------------------
\* The step of one of the other threads, if it leaves the workers, the flag and
\* the fragment queue alone, is right when its own part of the invariant is.
LEMMA OtherFrame ==
  ASSUME IInv, NEW t \in {"payloads", "status"},
         \A u \in Threads \ {t} : pc'[u] = pc[u],
         \A u \in Workers : hold'[u] = hold[u] /\ iter'[u] = iter[u],
         UNCHANGED <<fileFinished, read>>,
         queue'["fragmentQueue"] = queue["fragmentQueue"],
         hold'["payloads"] # 0 <=> pc'["payloads"] = "plot",
         pc'["payloads"] = "plot" => left' > 0
  PROVE  Phases' /\ FinishedKnown' /\ FragmentsDrained'
<1> USE DEF IInv
<1>1. /\ \A u \in Workers : pc'[u] = pc[u]
      /\ pc'["fragments"] = pc["fragments"] /\ hold'["fragments"] = hold["fragments"]
      /\ pc'["reader"] = pc["reader"]
  BY ThreadNames
<1> QED
  BY <1>1 DEF Phases, FinishedKnown, FragmentsDrained, empty

LEMMA PlotCount ==
  ASSUME IInv, Plot
  PROVE  Plotted' = Plotted + 1
<1> USE DEF IInv
<1>1. /\ pc["payloads"] = "plot" /\ hold["payloads"] # 0 /\ left > 0 /\ left \in 0 .. PerChunk
      /\ Len(plotted) \in Nat /\ plotted \in Seq(Chunk) /\ hold \in [Stages -> 0 .. NumChunks]
      /\ "payloads" \in Stages
  BY ThreadNames DEF Plot, Phases, TypeOK
<1>2. left \in Int /\ PerChunk \in Int
  BY <1>1, Constants
<1>3. Plotted = PerChunk * Len(plotted) + (PerChunk - left)
  BY <1>1 DEF Plotted
<1>4. CASE left > 1
  <2>1. hold' = hold /\ plotted' = plotted /\ left' = left - 1
    BY <1>4 DEF Plot
  <2>2. Plotted' = PerChunk * Len(plotted) + (PerChunk - (left - 1))
    BY <1>1, <2>1 DEF Plotted
  <2>3. PerChunk * Len(plotted) \in Int
    BY <1>1, <1>2
  <2> DEFINE base == PerChunk * Len(plotted)
  <2> HIDE DEF base
  <2>4. base \in Int
    BY <2>3 DEF base
  <2>5. base + (PerChunk - (left - 1)) = (base + (PerChunk - left)) + 1
    BY <1>2, <2>4
  <2> QED
    BY <1>3, <2>2, <2>5 DEF base
<1>5. CASE left = 1
  <2>1. hold' = [hold EXCEPT !["payloads"] = 0] /\ plotted' = Append(plotted, hold["payloads"])
    BY <1>5 DEF Plot
  <2>2. hold'["payloads"] = 0 /\ Len(plotted') = Len(plotted) + 1
    BY <1>1, <2>1
  <2>3. Plotted' = PerChunk * (Len(plotted) + 1) + 0
    BY <2>2 DEF Plotted
  <2>4. PerChunk * (Len(plotted) + 1) = PerChunk * Len(plotted) + PerChunk
        /\ PerChunk * Len(plotted) \in Int
    BY <1>1, <1>2
  <2> QED
    BY <1>2, <1>3, <1>5, <2>3, <2>4
<1> QED
  BY <1>1, <1>4, <1>5

LEMMA PayloadsSteps == IInv /\ PayloadsStep => IInv'
<1> SUFFICES ASSUME IInv, PayloadsStep PROVE IInv'
  OBVIOUS
<1> USE DEF IInv
<1>1. /\ "payloads" \in Threads /\ "payloads" \in Stages /\ "payloads" \notin Workers
      /\ "payloadQueue" \in Queues /\ "fragmentQueue" \in Queues
      /\ "payloads" # "status" /\ "status" \in Threads
      /\ \A u \in Workers : u \in Stages
  BY ThreadNames
<1>2. /\ queue \in [Queues -> Seq(Chunk)] /\ hold \in [Stages -> 0 .. NumChunks]
      /\ left \in 0 .. PerChunk /\ plotted \in Seq(Chunk) /\ msgCount \in Nat
      /\ sampled \in Nat /\ reported \in Nat
  BY DEF TypeOK
<1>3. CASE PayloadsPop
  <2>1. Head(queue["payloadQueue"]) \in Chunk /\ queue' \in [Queues -> Seq(Chunk)]
        /\ \A q \in Queues : Len(queue'[q]) <= Capacity
    BY <1>1, <1>3, PopQueue DEF PayloadsPop
  <2>2. Head(queue["payloadQueue"]) \in 0 .. NumChunks /\ Head(queue["payloadQueue"]) # 0
    BY <2>1, Constants DEF Chunk
  <2>3. hold' = [hold EXCEPT !["payloads"] = Head(queue["payloadQueue"])]
    BY <1>3 DEF PayloadsPop
  <2>4. hold' \in [Stages -> 0 .. NumChunks] /\ hold'["payloads"] # 0
        /\ \A u \in Workers : hold'[u] = hold[u]
    BY <1>1, <1>2, <2>2, <2>3
  <2>5. pc' \in [Threads -> Location] /\ pc'["payloads"] = "plot"
        /\ \A u \in Threads \ {"payloads"} : pc'[u] = pc[u]
    BY <1>1, <1>3, GotoType DEF PayloadsPop, Location
  <2>6. left' = PerChunk /\ left' \in 0 .. PerChunk /\ left' > 0
    BY <1>3, Constants DEF PayloadsPop
  <2>7. queue'["fragmentQueue"] = queue["fragmentQueue"]
    BY <1>1, <1>2, <1>3 DEF PayloadsPop, pop
  <2>8. TypeOK'
    BY <1>3, <2>1, <2>4, <2>5, <2>6 DEF PayloadsPop, TypeOK
  <2>9. Phases' /\ FinishedKnown' /\ FragmentsDrained'
    BY <1>3, <2>4, <2>5, <2>6, <2>7, OtherFrame DEF PayloadsPop
  <2>10. hold["payloads"] = 0
    BY <1>3 DEF PayloadsPop, Phases
  <2>11. Plotted' = Plotted
    <3>1. Plotted = PerChunk * Len(plotted) + 0
      BY <2>10 DEF Plotted
    <3>2. Plotted' = PerChunk * Len(plotted) + (PerChunk - PerChunk)
      BY <1>3, <2>4, <2>6 DEF Plotted, PayloadsPop
    <3>3. PerChunk - PerChunk = 0
      BY Constants
    <3> QED
      BY <3>1, <3>2, <3>3
  <2>12. SampleBehind' /\ NeverOvercounts'
    BY <1>1, <1>3, <2>5, <2>11 DEF PayloadsPop, SampleBehind, NeverOvercounts
  <2> QED
    BY <2>8, <2>9, <2>12
<1>4. CASE Plot
  <2>1. pc["payloads"] = "plot" /\ hold["payloads"] # 0 /\ left > 0 /\ hold["payloads"] \in Chunk
    BY <1>1, <1>2, <1>4, Constants DEF Plot, Phases, Chunk
  <2>2. left' = left - 1 /\ left' \in 0 .. PerChunk /\ msgCount' = msgCount + 1 /\ msgCount' \in Nat
    BY <1>2, <1>4, <2>1, Constants DEF Plot
  <2>3. /\ pc' \in [Threads -> Location]
        /\ \A u \in Threads \ {"payloads"} : pc'[u] = pc[u]
        /\ hold' \in [Stages -> 0 .. NumChunks] /\ plotted' \in Seq(Chunk)
        /\ \A u \in Workers : hold'[u] = hold[u]
        /\ hold'["payloads"] # 0 <=> pc'["payloads"] = "plot"
        /\ pc'["payloads"] = "plot" => left' > 0
    <3>1. CASE left > 1
      <4>1. pc' = pc /\ hold' = hold /\ plotted' = plotted
        BY <1>4, <3>1 DEF Plot
      <4> QED
        BY <1>2, <2>1, <2>2, <3>1, <4>1, Constants DEF TypeOK
    <3>2. CASE ~(left > 1)
      <4>1. /\ plotted' = Append(plotted, hold["payloads"])
            /\ hold' = [hold EXCEPT !["payloads"] = 0]
            /\ Goto("payloads", "checkFinished")
        BY <1>4, <3>2 DEF Plot
      <4>2. /\ pc' \in [Threads -> Location] /\ pc'["payloads"] = "checkFinished"
            /\ \A u \in Threads \ {"payloads"} : pc'[u] = pc[u]
        BY <1>1, <4>1, GotoType DEF Location
      <4>3. plotted' \in Seq(Chunk)
        BY <1>2, <2>1, <4>1
      <4>4. hold' \in [Stages -> 0 .. NumChunks] /\ hold'["payloads"] = 0
            /\ \A u \in Workers : hold'[u] = hold[u]
        BY <1>1, <1>2, <4>1, Constants
      <4> QED
        BY <4>2, <4>3, <4>4
    <3> QED
      BY <3>1, <3>2
  <2>4. TypeOK'
    BY <1>4, <2>2, <2>3 DEF Plot, TypeOK
  <2>5. Phases' /\ FinishedKnown' /\ FragmentsDrained'
    BY <1>4, <2>3, OtherFrame DEF Plot
  <2>6. Plotted' = Plotted + 1
    BY <1>4, PlotCount
  <2>7. Plotted \in Int
    <3>1. Len(plotted) \in Int /\ PerChunk \in Int /\ left \in Int
      BY <1>2, Constants
    <3>2. PerChunk * Len(plotted) \in Int
      BY <3>1
    <3> QED
      BY <3>1, <3>2 DEF Plotted
  <2>8. NeverOvercounts'
    BY <1>2, <1>4, <2>2, <2>6, <2>7 DEF Plot, NeverOvercounts
  <2>9. SampleBehind'
    BY <1>1, <1>2, <1>4, <2>2, <2>3 DEF Plot, SampleBehind
  <2> QED
    BY <2>4, <2>5, <2>8, <2>9
<1>5. CASE PopTimeout("payloads") \/ CheckFinished("payloads") \/ CheckEmpty("payloads")
  <2>1. /\ UNCHANGED <<queue, fileFinished, read, hold, left, plotted, msgCount, sampled, reported, imageAt>>
        /\ iter' = iter
    BY <1>1, <1>5 DEF PopTimeout, CheckFinished, CheckEmpty, Again
  <2>2. PICK l \in {"pop", "checkFinished", "checkEmpty", "done"} : Goto("payloads", l)
    BY <1>1, <1>5 DEF PopTimeout, CheckFinished, CheckEmpty, Again
  <2>3. l \in Location
    BY DEF Location
  <2>4. pc' \in [Threads -> Location] /\ pc'["payloads"] = l /\ pc'["payloads"] # "plot"
        /\ \A u \in Threads \ {"payloads"} : pc'[u] = pc[u]
    BY <1>1, <2>2, <2>3, GotoType
  <2>5. hold["payloads"] = 0
    BY <1>5 DEF PopTimeout, CheckFinished, CheckEmpty, Phases
  <2>6. TypeOK'
    BY <2>1, <2>4 DEF TypeOK
  <2>7. Phases' /\ FinishedKnown' /\ FragmentsDrained'
    BY <2>1, <2>4, <2>5, OtherFrame
  <2>8. SampleBehind' /\ NeverOvercounts'
    BY <1>1, <2>1, <2>4 DEF SampleBehind, NeverOvercounts, Plotted
  <2> QED
    BY <2>6, <2>7, <2>8
<1> QED
  BY <1>3, <1>4, <1>5 DEF PayloadsStep

LEMMA StatusSteps == IInv /\ StatusStep => IInv'
<1> SUFFICES ASSUME IInv, StatusStep PROVE IInv'
  OBVIOUS
<1> USE DEF IInv
<1>1. /\ "status" \in Threads /\ "status" \notin Workers /\ "payloads" \in Threads \ {"status"}
      /\ Input["status"] = "payloadQueue"
  BY ThreadNames
<1>2. UNCHANGED <<queue, fileFinished, read, hold, iter, left, plotted>>
  BY <1>1 DEF StatusStep, StatusSample, StatusReset, CheckFinished, CheckEmpty, StatusWrite, Again
<1>3. PICK l \in {"sample", "reset", "checkFinished", "checkEmpty", "write", "done"} : Goto("status", l)
  BY <1>1 DEF StatusStep, StatusSample, StatusReset, CheckFinished, CheckEmpty, StatusWrite, Again
<1>4. l \in Location
  BY DEF Location
<1>5. pc' \in [Threads -> Location] /\ pc'["status"] = l
      /\ \A u \in Threads \ {"status"} : pc'[u] = pc[u]
  BY <1>1, <1>3, <1>4, GotoType
<1>6. Phases' /\ FinishedKnown' /\ FragmentsDrained'
  <2>1. hold["payloads"] # 0 <=> pc["payloads"] = "plot"
    BY DEF Phases
  <2>2. pc["payloads"] = "plot" => left > 0
    BY DEF Phases
  <2> QED
    BY <1>1, <1>2, <1>5, <2>1, <2>2, OtherFrame
<1>7. Plotted' = Plotted /\ Plotted \in Int
  <2>1. Len(plotted) \in Int /\ PerChunk \in Int /\ left \in Int
    BY Constants DEF TypeOK
  <2>2. PerChunk * Len(plotted) \in Int
    BY <2>1
  <2> QED
    BY <1>2, <2>1, <2>2 DEF Plotted
<1>8. msgCount \in Nat /\ sampled \in Nat /\ reported \in Nat /\ imageAt \in Int
  BY DEF TypeOK
<1>9. /\ msgCount' \in Nat /\ sampled' \in Nat /\ reported' \in Nat /\ imageAt' \in Int
      /\ SampleBehind' /\ NeverOvercounts'
  <2>1. CASE StatusSample
    BY <1>7, <1>8, <2>1 DEF StatusSample, SampleBehind, NeverOvercounts
  <2>2. CASE StatusReset
    <3>1. pc'["status"] = "checkFinished"
      BY <1>1, <2>2, GotoType DEF StatusReset, Location
    <3>2. sampled <= msgCount /\ msgCount' = 0 /\ reported' = reported + sampled
          /\ sampled' = sampled /\ imageAt' = imageAt
      BY <2>2 DEF StatusReset, SampleBehind
    <3> QED
      BY <1>7, <1>8, <3>1, <3>2 DEF SampleBehind, NeverOvercounts
  <2>3. CASE CheckFinished("status") \/ CheckEmpty("status")
    <3>1. pc'["status"] # "reset"
      BY <1>1, <2>3, GotoType DEF CheckFinished, CheckEmpty, Again, Location
    <3>2. UNCHANGED <<msgCount, sampled, reported, imageAt>>
      BY <2>3 DEF CheckFinished, CheckEmpty
    <3> QED
      BY <1>7, <1>8, <3>1, <3>2 DEF SampleBehind, NeverOvercounts
  <2>4. CASE StatusWrite
    <3>1. pc'["status"] = "done"
      BY <1>1, <2>4, GotoType DEF StatusWrite, Location
    <3>2. UNCHANGED <<msgCount, sampled, reported>> /\ imageAt' = Plotted
      BY <2>4 DEF StatusWrite
    <3> QED
      BY <1>7, <1>8, <3>1, <3>2 DEF SampleBehind, NeverOvercounts
  <2> QED
    BY <2>1, <2>2, <2>3, <2>4 DEF StatusStep
<1>10. TypeOK'
  BY <1>2, <1>5, <1>9 DEF TypeOK
<1> QED
  BY <1>6, <1>9, <1>10

LEMMA NextIInv == IInv /\ [Next]_vars => IInv'
<1> SUFFICES ASSUME IInv, [Next]_vars PROVE IInv'
  OBVIOUS
<1>1. CASE Next
  BY <1>1, ReaderSteps, WorkerSteps, PayloadsSteps, StatusSteps DEF Next
<1>2. CASE UNCHANGED vars
  BY <1>2 DEF vars, IInv, TypeOK, Phases, FinishedKnown, FragmentsDrained, SampleBehind,
              NeverOvercounts, Plotted, empty
<1> QED
  BY <1>1, <1>2
-----------------------------------------------------------------------------
THEOREM PipelineInvariant == Spec => []IInv
BY InitIInv, NextIInv, PTL DEF Spec

\* The types of the pipeline's state; in particular no queue ever holds more
\* than its capacity.
THEOREM PipelineTypes == Spec => []TypeOK
<1>1. IInv => TypeOK
  BY DEF IInv
<1> QED
  BY <1>1, PipelineInvariant, PTL

\* When procFragmentsQueue has stopped, the whole file has been read and its
\* queue is empty and stays so.
THEOREM FragmentsStopIsSafe == Spec => []FragmentsDrained
<1>1. IInv => FragmentsDrained
  BY DEF IInv
<1> QED
  BY <1>1, PipelineInvariant, PTL

\* What statusReport has printed and what it will read never exceed what was
\* plotted.
THEOREM ReportIsBounded == Spec => []NeverOvercounts
<1>1. IInv => NeverOvercounts
  BY DEF IInv
<1> QED
  BY <1>1, PipelineInvariant, PTL

(***************************************************************************)
(* The order of the chunks.  Line is built up here from its first part on, *)
(* because a step that hands a chunk from one place to the next leaves a   *)
(* part, and with it all that follows, as it was.                          *)
(***************************************************************************)

Upto1 == plotted \o InHand("payloads")
Upto2 == Upto1 \o queue["payloadQueue"]
Upto3 == Upto2 \o InHand("messages")
Upto4 == Upto3 \o queue["messageQueue"]
Upto5 == Upto4 \o InHand("fragments")

Ascending(s) == \A i, j \in 1 .. Len(s) : i < j => s[i] < s[j]

LEMMA LineParts ==
  /\ Upto5 = Upto4 \o InHand("fragments") /\ Upto4 = Upto3 \o queue["messageQueue"]
  /\ Upto3 = Upto2 \o InHand("messages") /\ Upto2 = Upto1 \o queue["payloadQueue"]
  /\ Upto1 = plotted \o InHand("payloads")
  /\ Line = Upto5 \o queue["fragmentQueue"]
  /\ Upto5' = Upto4' \o InHand("fragments")' /\ Upto4' = Upto3' \o queue'["messageQueue"]
  /\ Upto3' = Upto2' \o InHand("messages")' /\ Upto2' = Upto1' \o queue'["payloadQueue"]
  /\ Upto1' = plotted' \o InHand("payloads")'
  /\ Line' = Upto5' \o queue'["fragmentQueue"]
BY DEF Upto1, Upto2, Upto3, Upto4, Upto5, Line

\* Every part of the line is a sequence of chunks.
LEMMA PartTypes ==
  ASSUME TypeOK
  PROVE  /\ \A s \in Stages : InHand(s) \in Seq(Chunk)
         /\ \A q \in Queues : queue[q] \in Seq(Chunk)
         /\ plotted \in Seq(Chunk) /\ Upto1 \in Seq(Chunk) /\ Upto2 \in Seq(Chunk)
         /\ Upto3 \in Seq(Chunk) /\ Upto4 \in Seq(Chunk) /\ Upto5 \in Seq(Chunk)
         /\ Line \in Seq(Chunk)
<1>1. \A s \in Stages : InHand(s) \in Seq(Chunk)
  <2> SUFFICES ASSUME NEW s \in Stages PROVE InHand(s) \in Seq(Chunk)
    OBVIOUS
  <2>1. hold[s] \in 0 .. NumChunks
    BY DEF TypeOK
  <2>2. CASE hold[s] = 0
    BY <2>2 DEF InHand
  <2>3. CASE hold[s] # 0
    <3>1. hold[s] \in Chunk
      BY <2>1, <2>3, Constants DEF Chunk
    <3> QED
      BY <2>3, <3>1 DEF InHand
  <2> QED
    BY <2>2, <2>3
<1>2. (\A q \in Queues : queue[q] \in Seq(Chunk)) /\ plotted \in Seq(Chunk)
  BY DEF TypeOK
<1>3. Upto1 \in Seq(Chunk)
  BY <1>1, <1>2, ConcatProperties, ThreadNames, LineParts
<1>4. Upto2 \in Seq(Chunk)
  BY <1>2, <1>3, ConcatProperties, ThreadNames, LineParts
<1>5. Upto3 \in Seq(Chunk)
  BY <1>1, <1>4, ConcatProperties, ThreadNames, LineParts
<1>6. Upto4 \in Seq(Chunk)
  BY <1>2, <1>5, ConcatProperties, ThreadNames, LineParts
<1>7. Upto5 \in Seq(Chunk)
  BY <1>1, <1>6, ConcatProperties, ThreadNames, LineParts
<1>8. Line \in Seq(Chunk)
  BY <1>2, <1>7, ConcatProperties, ThreadNames, LineParts
<1> QED
  BY <1>1, <1>2, <1>3, <1>4, <1>5, <1>6, <1>7, <1>8
-----------------------------------------------------------------------------
(* Handing a chunk on, in a sequence that starts with X.                   *)

LEMMA TakeHead ==
  ASSUME NEW X \in Seq(Chunk), NEW q \in Seq(Chunk), q # <<>>
  PROVE  (X \o <<>>) \o q = (X \o <<Head(q)>>) \o Tail(q)
<1>1. Head(q) \in Chunk /\ Tail(q) \in Seq(Chunk) /\ <<Head(q)>> \in Seq(Chunk)
  BY HeadTailProperties
<1>2. X \o <<>> = X
  BY ConcatEmptySeq
<1>3. (X \o <<Head(q)>>) \o Tail(q) = X \o (<<Head(q)>> \o Tail(q))
  BY <1>1, ConcatAssociative
<1>4. <<Head(q)>> \o Tail(q) = q
  <2>1. Len(<<Head(q)>> \o Tail(q)) = Len(q)
    BY <1>1, ConcatProperties, HeadTailProperties
  <2>2. \A i \in 1 .. Len(q) : (<<Head(q)>> \o Tail(q))[i] = q[i]
    BY <1>1, HeadTailProperties
  <2>3. <<Head(q)>> \o Tail(q) \in Seq(Chunk)
    BY <1>1, ConcatProperties
  <2> QED
    BY <2>1, <2>2, <2>3, SeqEqual
<1> QED
  BY <1>2, <1>3, <1>4

LEMMA PutLast ==
  ASSUME NEW X \in Seq(Chunk), NEW q \in Seq(Chunk), NEW e \in Chunk
  PROVE  /\ X \o Append(q, e) = Append(X \o q, e)
         /\ (X \o q) \o <<e>> = (X \o Append(q, e)) \o <<>>
         /\ (X \o q) \o <<e>> = Append(X \o q, e)
<1>1. /\ X \o q \in Seq(Chunk) /\ <<e>> \in Seq(Chunk) /\ Append(q, e) \in Seq(Chunk)
      /\ X \o Append(q, e) \in Seq(Chunk)
  BY ConcatProperties, AppendProperties
<1>2. Append(q, e) = q \o <<e>> /\ Append(X \o q, e) = (X \o q) \o <<e>>
  BY <1>1, AppendIsConcat
<1>3. (X \o q) \o <<e>> = X \o (q \o <<e>>)
  BY <1>1, ConcatAssociative
<1>4. (X \o Append(q, e)) \o <<>> = X \o Append(q, e)
  BY <1>1, ConcatEmptySeq
<1> QED
  BY <1>2, <1>3, <1>4

LEMMA ChunksAreNats == \A s \in Seq(Chunk) : s \in Seq(Nat)
<1>1. Chunk \subseteq Nat
  BY DEF Chunk
<1> QED
  BY <1>1, SeqMonotonic

LEMMA RangeOfConcat == \A s, t \in Seq(Nat) : Range(s \o t) = Range(s) \cup Range(t)
BY RangeConcatenation

LEMMA RangeOfNats == \A s \in Seq(Nat) : Range(s) = {s[i] : i \in 1 .. Len(s)}
BY RangeEquality

\* What an ascending sequence is made of.
LEMMA AscendingConcat ==
  ASSUME NEW s \in Seq(Nat), NEW t \in Seq(Nat)
  PROVE  Ascending(s \o t) <=>
           /\ Ascending(s) /\ Ascending(t)
           /\ \A x \in Range(s), y \in Range(t) : x < y
<1>1. /\ s \o t \in Seq(Nat) /\ Len(s \o t) = Len(s) + Len(t)
      /\ \A i \in 1 .. Len(s) : (s \o t)[i] = s[i]
      /\ \A i \in 1 .. Len(t) : (s \o t)[Len(s) + i] = t[i]
      /\ Len(s) \in Nat /\ Len(t) \in Nat
  BY ConcatProperties
<1>2. Range(s) = {s[i] : i \in 1 .. Len(s)} /\ Range(t) = {t[i] : i \in 1 .. Len(t)}
  BY RangeEquality
<1>3. ASSUME Ascending(s \o t)
      PROVE  Ascending(s) /\ Ascending(t) /\ \A x \in Range(s), y \in Range(t) : x < y
  <2>1. Ascending(s)
    <3> SUFFICES ASSUME NEW i \in 1 .. Len(s), NEW j \in 1 .. Len(s), i < j PROVE s[i] < s[j]
      BY DEF Ascending
    <3>1. i \in 1 .. Len(s \o t) /\ j \in 1 .. Len(s \o t)
      BY <1>1
    <3> QED
      BY <1>1, <1>3, <3>1 DEF Ascending
  <2>2. Ascending(t)
    <3> SUFFICES ASSUME NEW i \in 1 .. Len(t), NEW j \in 1 .. Len(t), i < j PROVE t[i] < t[j]
      BY DEF Ascending
    <3>1. Len(s) + i \in 1 .. Len(s \o t) /\ Len(s) + j \in 1 .. Len(s \o t) /\ Len(s) + i < Len(s) + j
      BY <1>1
    <3> QED
      BY <1>1, <1>3, <3>1 DEF Ascending
  <2>3. ASSUME NEW i \in 1 .. Len(s), NEW j \in 1 .. Len(t) PROVE s[i] < t[j]
    <3>1. i \in 1 .. Len(s \o t) /\ Len(s) + j \in 1 .. Len(s \o t) /\ i < Len(s) + j
      BY <1>1
    <3> QED
      BY <1>1, <1>3, <3>1 DEF Ascending
  <2> QED
    BY <1>2, <2>1, <2>2, <2>3
<1>4. ASSUME Ascending(s), Ascending(t), \A x \in Range(s), y \in Range(t) : x < y
      PROVE  Ascending(s \o t)
  <2> SUFFICES ASSUME NEW i \in 1 .. Len(s \o t), NEW j \in 1 .. Len(s \o t), i < j
               PROVE  (s \o t)[i] < (s \o t)[j]
    BY DEF Ascending
  <2>1. CASE j <= Len(s)
    BY <1>1, <1>4, <2>1 DEF Ascending
  <2>2. CASE i > Len(s)
    <3>1. i - Len(s) \in 1 .. Len(t) /\ j - Len(s) \in 1 .. Len(t) /\ i - Len(s) < j - Len(s)
      BY <1>1, <2>2
    <3>2. (s \o t)[i] = t[i - Len(s)] /\ (s \o t)[j] = t[j - Len(s)]
      BY <1>1, <2>2, <3>1
    <3> QED
      BY <1>4, <3>1, <3>2 DEF Ascending
  <2>3. CASE i <= Len(s) /\ j > Len(s)
    <3>1. i \in 1 .. Len(s) /\ j - Len(s) \in 1 .. Len(t)
      BY <1>1, <2>3
    <3>2. (s \o t)[i] = s[i] /\ (s \o t)[j] = t[j - Len(s)]
      BY <1>1, <2>3, <3>1
    <3>3. s[i] \in Range(s) /\ t[j - Len(s)] \in Range(t)
      BY <1>2, <3>1
    <3> QED
      BY <1>4, <3>2, <3>3
  <2> QED
    BY <1>1, <2>1, <2>2, <2>3
<1> QED
  BY <1>3, <1>4

\* A chunk dropped from the middle leaves the others in their order.
LEMMA DropHead ==
  ASSUME NEW X \in Seq(Nat), NEW q \in Seq(Nat), NEW Y \in Seq(Nat), q # <<>>
  PROVE  /\ Ascending((X \o q) \o Y) => Ascending((X \o Tail(q)) \o Y)
         /\ Range((X \o q) \o Y) = Range((X \o Tail(q)) \o Y) \cup {Head(q)}
<1>1. /\ Tail(q) \in Seq(Nat) /\ Len(Tail(q)) = Len(q) - 1 /\ Len(q) \in Nat /\ Len(q) > 0
      /\ \A i \in 1 .. Len(Tail(q)) : Tail(q)[i] = q[i + 1]
      /\ Head(q) = q[1]
  BY HeadTailProperties, EmptySeq
<1>2. X \o q \in Seq(Nat) /\ X \o Tail(q) \in Seq(Nat)
  BY <1>1, ConcatProperties
<1>3. Range(q) = Range(Tail(q)) \cup {Head(q)}
  <2>1. Range(q) = {q[i] : i \in 1 .. Len(q)} /\ Range(Tail(q)) = {Tail(q)[i] : i \in 1 .. Len(Tail(q))}
    BY <1>1, RangeOfNats
  <2>2. ASSUME NEW i \in 1 .. Len(q) PROVE q[i] \in Range(Tail(q)) \cup {Head(q)}
    <3>1. CASE i = 1
      BY <1>1, <3>1
    <3>2. CASE i > 1
      <4>1. i - 1 \in 1 .. Len(Tail(q)) /\ q[i] = Tail(q)[i - 1]
        BY <1>1, <3>2
      <4> QED
        BY <2>1, <4>1
    <3> QED
      BY <3>1, <3>2
  <2>3. ASSUME NEW i \in 1 .. Len(Tail(q)) PROVE Tail(q)[i] \in Range(q)
    <3>1. i + 1 \in 1 .. Len(q) /\ Tail(q)[i] = q[i + 1]
      BY <1>1
    <3> QED
      BY <2>1, <3>1
  <2>4. Head(q) \in Range(q)
    <3>1. 1 \in 1 .. Len(q)
      BY <1>1
    <3> QED
      BY <1>1, <2>1, <3>1
  <2> QED
    BY <2>1, <2>2, <2>3, <2>4
<1>4. /\ Range(X \o q) = Range(X) \cup Range(q) /\ Range(X \o Tail(q)) = Range(X) \cup Range(Tail(q))
      /\ Range((X \o q) \o Y) = Range(X \o q) \cup Range(Y)
      /\ Range((X \o Tail(q)) \o Y) = Range(X \o Tail(q)) \cup Range(Y)
  <2>1. Range(X \o q) = Range(X) \cup Range(q)
    BY RangeOfConcat
  <2>2. Range(X \o Tail(q)) = Range(X) \cup Range(Tail(q))
    BY <1>1, RangeOfConcat
  <2>3. Range((X \o q) \o Y) = Range(X \o q) \cup Range(Y)
    BY <1>2, RangeOfConcat
  <2>4. Range((X \o Tail(q)) \o Y) = Range(X \o Tail(q)) \cup Range(Y)
    BY <1>2, RangeOfConcat
  <2> QED
    BY <2>1, <2>2, <2>3, <2>4
<1>5. Ascending(q) => Ascending(Tail(q))
  <2> SUFFICES ASSUME Ascending(q), NEW i \in 1 .. Len(Tail(q)), NEW j \in 1 .. Len(Tail(q)), i < j
               PROVE  Tail(q)[i] < Tail(q)[j]
    BY DEF Ascending
  <2>1. i + 1 \in 1 .. Len(q) /\ j + 1 \in 1 .. Len(q) /\ i + 1 < j + 1
    BY <1>1
  <2> QED
    BY <1>1, <2>1 DEF Ascending
<1>6. ASSUME Ascending((X \o q) \o Y) PROVE Ascending((X \o Tail(q)) \o Y)
  <2>1. /\ Ascending(X \o q) /\ Ascending(Y) /\ \A x \in Range(X \o q), y \in Range(Y) : x < y
    BY <1>2, <1>6, AscendingConcat
  <2>2. /\ Ascending(X) /\ Ascending(q) /\ \A x \in Range(X), y \in Range(q) : x < y
    BY <2>1, AscendingConcat
  <2>3. Ascending(X \o Tail(q))
    BY <1>1, <1>3, <1>5, <2>2, AscendingConcat
  <2>4. \A x \in Range(X \o Tail(q)), y \in Range(Y) : x < y
    BY <1>3, <1>4, <2>1
  <2> QED
    BY <1>2, <2>1, <2>3, <2>4, AscendingConcat
<1> QED
  BY <1>3, <1>4, <1>6

-----------------------------------------------------------------------------
(* What a step does to the line: nothing, a new chunk at its end, or one   *)
(* chunk less, of which there is nothing to decode.                        *)

Same == Line' = Line /\ read' = read
Extended == read + 1 \in Chunk /\ Line' = Append(Line, read + 1) /\ read' = read + 1
Dropped ==
  /\ read' = read
  /\ Ascending(Line) => Ascending(Line')
  /\ \E k \in NoMessages \cup NoPayloads : Range(Line) = Range(Line') \cup {k}

LEMMA ReaderExtends == ASSUME IInv, ReaderPush PROVE Extended
<1>1. TypeOK /\ hold' = hold /\ plotted' = plotted /\ read' = read + 1 /\ read < NumChunks
  BY DEF IInv, ReaderPush
<1>2. queue' = [queue EXCEPT !["fragmentQueue"] = Append(@, read + 1)]
  BY ThreadNames DEF ReaderPush, push
<1>3. /\ queue'["fragmentQueue"] = Append(queue["fragmentQueue"], read + 1)
      /\ queue'["messageQueue"] = queue["messageQueue"] /\ queue'["payloadQueue"] = queue["payloadQueue"]
  BY <1>1, <1>2, ThreadNames DEF TypeOK
<1>4. read + 1 \in Chunk
  BY <1>1, Constants DEF TypeOK, Chunk
<1>5. \A s \in Stages : InHand(s)' = InHand(s)
  BY <1>1 DEF InHand
<1>6. Upto5' = Upto5
  BY <1>1, <1>3, <1>5, ThreadNames, LineParts
<1>7. Line' = Upto5 \o Append(queue["fragmentQueue"], read + 1)
  BY <1>3, <1>6, LineParts
<1>8. Upto5 \in Seq(Chunk) /\ queue["fragmentQueue"] \in Seq(Chunk)
  BY <1>1, PartTypes, ThreadNames
<1>9. Line' = Append(Line, read + 1)
  <2>1. Upto5 \o Append(queue["fragmentQueue"], read + 1) = Append(Upto5 \o queue["fragmentQueue"], read + 1)
    BY <1>4, <1>8, PutLast
  <2> QED
    BY <1>7, <2>1, LineParts
<1> QED
  BY <1>1, <1>4, <1>9 DEF Extended

\* A pop takes the head of the queue in hand.
LEMMA PopKeepsLine == ASSUME IInv, NEW s \in Workers, StagePop(s) PROVE Same
<1>1. TypeOK /\ plotted' = plotted /\ read' = read
  BY DEF IInv, StagePop
<1>2. queue[Input[s]] # <<>> /\ hold[s] = 0 /\ Head(queue[Input[s]]) # 0 /\ Head(queue[Input[s]]) \in Chunk
  <2>1. queue[Input[s]] # <<>> /\ hold[s] = 0
    BY DEF IInv, StagePop, Phases, empty
  <2>2. Head(queue[Input[s]]) \in Chunk
    BY <1>1, <2>1, PartTypes, ThreadNames, HeadTailProperties
  <2> QED
    BY <2>1, <2>2, Constants DEF Chunk
<1>3. /\ hold' = [hold EXCEPT ![s] = Head(queue[Input[s]])]
      /\ queue' = [queue EXCEPT ![Input[s]] = Tail(@)]
  BY DEF StagePop, pop
<1>4. /\ \A u \in Stages \ {s} : hold'[u] = hold[u]
      /\ hold'[s] = Head(queue[Input[s]])
      /\ \A q \in Queues \ {Input[s]} : queue'[q] = queue[q]
      /\ queue'[Input[s]] = Tail(queue[Input[s]])
  BY <1>1, <1>3, ThreadNames DEF TypeOK
<1>5. /\ \A u \in Stages \ {s} : InHand(u)' = InHand(u)
      /\ InHand(s) = <<>> /\ InHand(s)' = <<Head(queue[Input[s]])>>
  BY <1>2, <1>4 DEF InHand
<1>6. CASE s = "fragments"
  <2>1. Upto4' = Upto4
    BY <1>1, <1>4, <1>5, <1>6, ThreadNames, LineParts
  <2>2. Line = (Upto4 \o <<>>) \o queue["fragmentQueue"]
        /\ Line' = (Upto4 \o <<Head(queue["fragmentQueue"])>>) \o Tail(queue["fragmentQueue"])
    BY <1>4, <1>5, <1>6, <2>1, ThreadNames, LineParts
  <2>3. Upto4 \in Seq(Chunk) /\ queue["fragmentQueue"] \in Seq(Chunk) /\ queue["fragmentQueue"] # <<>>
    BY <1>1, <1>2, <1>6, PartTypes, ThreadNames
  <2> QED
    BY <1>1, <2>2, <2>3, TakeHead DEF Same
<1>7. CASE s = "messages"
  <2>1. Upto2' = Upto2
    BY <1>1, <1>4, <1>5, <1>7, ThreadNames, LineParts
  <2>2. Upto4 = (Upto2 \o <<>>) \o queue["messageQueue"]
        /\ Upto4' = (Upto2 \o <<Head(queue["messageQueue"])>>) \o Tail(queue["messageQueue"])
    BY <1>4, <1>5, <1>7, <2>1, ThreadNames, LineParts
  <2>3. Upto2 \in Seq(Chunk) /\ queue["messageQueue"] \in Seq(Chunk) /\ queue["messageQueue"] # <<>>
    BY <1>1, <1>2, <1>7, PartTypes, ThreadNames
  <2>4. Upto4' = Upto4
    BY <2>2, <2>3, TakeHead
  <2>5. Line' = Line
    BY <1>4, <1>5, <1>7, <2>4, ThreadNames, LineParts
  <2> QED
    BY <1>1, <2>5 DEF Same
<1> QED
  BY <1>6, <1>7, ThreadNames

\* A push puts the chunk in hand at the end of the next queue.
LEMMA PushKeepsLine == ASSUME IInv, NEW s \in Workers, StagePush(s) PROVE Same
<1>1. TypeOK /\ plotted' = plotted /\ read' = read
  BY DEF IInv, StagePush
<1>2. hold[s] # 0 /\ hold[s] \in Chunk
  <2>1. hold[s] # 0 /\ hold[s] \in 0 .. NumChunks
    BY ThreadNames DEF IInv, StagePush, Phases, TypeOK
  <2> QED
    BY <2>1, Constants DEF Chunk
<1>3. /\ hold' = [hold EXCEPT ![s] = 0]
      /\ queue' = [queue EXCEPT ![Output[s]] = Append(@, hold[s])]
  BY DEF StagePush, push
<1>4. /\ \A u \in Stages \ {s} : hold'[u] = hold[u]
      /\ hold'[s] = 0
      /\ \A q \in Queues \ {Output[s]} : queue'[q] = queue[q]
      /\ queue'[Output[s]] = Append(queue[Output[s]], hold[s])
  BY <1>1, <1>3, ThreadNames DEF TypeOK
<1>5. /\ \A u \in Stages \ {s} : InHand(u)' = InHand(u)
      /\ InHand(s) = <<hold[s]>> /\ InHand(s)' = <<>>
  BY <1>2, <1>4 DEF InHand
<1>6. CASE s = "fragments"
  <2>1. Upto3' = Upto3
    BY <1>1, <1>4, <1>5, <1>6, ThreadNames, LineParts
  <2>2. Upto5 = (Upto3 \o queue["messageQueue"]) \o <<hold[s]>>
        /\ Upto5' = (Upto3 \o Append(queue["messageQueue"], hold[s])) \o <<>>
    BY <1>4, <1>5, <1>6, <2>1, ThreadNames, LineParts
  <2>3. Upto3 \in Seq(Chunk) /\ queue["messageQueue"] \in Seq(Chunk)
    BY <1>1, PartTypes, ThreadNames
  <2>4. Upto5' = Upto5
    <3>1. (Upto3 \o queue["messageQueue"]) \o <<hold[s]>> = (Upto3 \o Append(queue["messageQueue"], hold[s])) \o <<>>
      BY <1>2, <2>3, PutLast
    <3> QED
      BY <2>2, <3>1
  <2>5. Line' = Line
    BY <1>4, <1>6, <2>4, ThreadNames, LineParts
  <2> QED
    BY <1>1, <2>5 DEF Same
<1>7. CASE s = "messages"
  <2>1. Upto1' = Upto1
    BY <1>1, <1>4, <1>5, <1>7, ThreadNames, LineParts
  <2>2. Upto3 = (Upto1 \o queue["payloadQueue"]) \o <<hold[s]>>
        /\ Upto3' = (Upto1 \o Append(queue["payloadQueue"], hold[s])) \o <<>>
    BY <1>4, <1>5, <1>7, <2>1, ThreadNames, LineParts
  <2>3. Upto1 \in Seq(Chunk) /\ queue["payloadQueue"] \in Seq(Chunk)
    BY <1>1, PartTypes, ThreadNames
  <2>4. Upto3' = Upto3
    <3>1. (Upto1 \o queue["payloadQueue"]) \o <<hold[s]>> = (Upto1 \o Append(queue["payloadQueue"], hold[s])) \o <<>>
      BY <1>2, <2>3, PutLast
    <3> QED
      BY <2>2, <3>1
  <2>5. Line' = Line
    BY <1>4, <1>5, <1>7, <2>4, ThreadNames, LineParts
  <2> QED
    BY <1>1, <2>5 DEF Same
<1> QED
  BY <1>6, <1>7, ThreadNames

\* A chunk that gives an empty output chunk leaves the line.
LEMMA DropShortensLine == ASSUME IInv, NEW s \in Workers, StageDrop(s) PROVE Dropped
<1>1. TypeOK /\ plotted' = plotted /\ read' = read /\ hold' = hold
  BY DEF IInv, StageDrop
<1>2. queue[Input[s]] # <<>> /\ Head(queue[Input[s]]) \in NoMessages \cup NoPayloads
  BY DEF StageDrop, empty, Barren, Workers
<1>3. queue' = [queue EXCEPT ![Input[s]] = Tail(@)]
  BY DEF StageDrop, pop
<1>4. /\ \A q \in Queues \ {Input[s]} : queue'[q] = queue[q]
      /\ queue'[Input[s]] = Tail(queue[Input[s]])
      /\ \A u \in Stages : InHand(u)' = InHand(u)
  BY <1>1, <1>3, ThreadNames DEF TypeOK, InHand
<1>5. ASSUME NEW X \in Seq(Chunk), NEW Y \in Seq(Chunk), NEW q \in Queues, q = Input[s],
             Line = (X \o queue[q]) \o Y, Line' = (X \o Tail(queue[q])) \o Y
      PROVE  Dropped
  <2>1. X \in Seq(Nat) /\ Y \in Seq(Nat) /\ queue[q] \in Seq(Nat)
    BY <1>1, PartTypes, ChunksAreNats
  <2>2. /\ Ascending(Line) => Ascending(Line')
        /\ Range(Line) = Range(Line') \cup {Head(queue[q])}
    BY <1>2, <1>5, <2>1, DropHead
  <2> QED
    BY <1>1, <1>2, <1>5, <2>2 DEF Dropped
<1>6. CASE s = "fragments"
  <2>1. Upto5' = Upto5
    BY <1>1, <1>4, <1>6, ThreadNames, LineParts
  <2>2. /\ Upto5 \in Seq(Chunk) /\ queue["fragmentQueue"] \in Seq(Chunk) /\ Line \in Seq(Chunk)
        /\ Tail(queue["fragmentQueue"]) \in Seq(Chunk)
    BY <1>1, <1>2, <1>6, PartTypes, ThreadNames, HeadTailProperties
  <2>3. Line' = Upto5 \o Tail(queue["fragmentQueue"])
    BY <1>4, <1>6, <2>1, ThreadNames, LineParts
  <2>4. Line' \in Seq(Chunk) /\ <<>> \in Seq(Chunk)
    BY <2>2, <2>3, ConcatProperties
  <2>5. Line = (Upto5 \o queue["fragmentQueue"]) \o <<>>
    BY <2>2, ConcatEmptySeq, LineParts
  <2>6. Line' = (Upto5 \o Tail(queue["fragmentQueue"])) \o <<>>
    BY <2>3, <2>4, ConcatEmptySeq
  <2> QED
    BY <1>5, <1>6, <2>2, <2>4, <2>5, <2>6, ThreadNames
<1>7. CASE s = "messages"
  <2> DEFINE Y == InHand("fragments") \o queue["fragmentQueue"]
  <2>1. /\ Upto3' = Upto3 /\ Upto4' = Upto3 \o Tail(queue["messageQueue"])
        /\ Line' = (Upto4' \o InHand("fragments")) \o queue["fragmentQueue"]
    BY <1>1, <1>4, <1>7, ThreadNames, LineParts
  <2>2. /\ Upto3 \in Seq(Chunk) /\ Upto4 \in Seq(Chunk)
        /\ queue["messageQueue"] \in Seq(Chunk) /\ queue["fragmentQueue"] \in Seq(Chunk)
        /\ InHand("fragments") \in Seq(Chunk) /\ Tail(queue["messageQueue"]) \in Seq(Chunk)
    BY <1>1, <1>2, <1>7, PartTypes, ThreadNames, HeadTailProperties
  <2>3. Upto3 \o Tail(queue["messageQueue"]) \in Seq(Chunk) /\ Y \in Seq(Chunk)
    BY <2>2, ConcatProperties
  <2> HIDE DEF Y
  <2>4. ASSUME NEW Z \in Seq(Chunk)
        PROVE  (Z \o InHand("fragments")) \o queue["fragmentQueue"] = Z \o Y
    <3> DEFINE i == InHand("fragments")  q == queue["fragmentQueue"]
    <3>1. i \in Seq(Chunk) /\ q \in Seq(Chunk)
      BY <2>2
    <3> HIDE DEF i, q
    <3>2. (Z \o i) \o q = Z \o (i \o q)
      BY <3>1, ConcatAssociative
    <3> QED
      BY <3>2 DEF i, q, Y
  <2>5. Line = (Upto3 \o queue["messageQueue"]) \o Y
    <3>1. Line = (Upto4 \o InHand("fragments")) \o queue["fragmentQueue"]
      BY LineParts
    <3>2. (Upto4 \o InHand("fragments")) \o queue["fragmentQueue"] = Upto4 \o Y
      BY <2>2, <2>4
    <3> QED
      BY <3>1, <3>2, LineParts
  <2>6. Line' = (Upto3 \o Tail(queue["messageQueue"])) \o Y
    <3>1. Upto4' \in Seq(Chunk)
      BY <2>1, <2>3
    <3>2. (Upto4' \o InHand("fragments")) \o queue["fragmentQueue"] = Upto4' \o Y
      BY <2>4, <3>1
    <3> QED
      BY <2>1, <3>2
  <2> QED
    BY <1>5, <1>7, <2>2, <2>3, <2>5, <2>6, ThreadNames
<1> QED
  BY <1>6, <1>7, ThreadNames

LEMMA PayloadsPopKeepsLine == ASSUME IInv, PayloadsPop PROVE Same
<1>1. TypeOK /\ plotted' = plotted /\ read' = read
  BY DEF IInv, PayloadsPop
<1>2. queue["payloadQueue"] # <<>> /\ hold["payloads"] = 0 /\ Head(queue["payloadQueue"]) # 0
  <2>1. queue["payloadQueue"] # <<>> /\ hold["payloads"] = 0
    BY DEF IInv, PayloadsPop, Phases, empty
  <2>2. Head(queue["payloadQueue"]) \in Chunk
    BY <1>1, <2>1, PartTypes, ThreadNames, HeadTailProperties
  <2> QED
    BY <2>1, <2>2, Constants DEF Chunk
<1>3. /\ hold' = [hold EXCEPT !["payloads"] = Head(queue["payloadQueue"])]
      /\ queue' = [queue EXCEPT !["payloadQueue"] = Tail(@)]
  BY DEF PayloadsPop, pop
<1>4. /\ \A u \in Workers : hold'[u] = hold[u]
      /\ hold'["payloads"] = Head(queue["payloadQueue"])
      /\ queue'["fragmentQueue"] = queue["fragmentQueue"]
      /\ queue'["messageQueue"] = queue["messageQueue"]
      /\ queue'["payloadQueue"] = Tail(queue["payloadQueue"])
  BY <1>1, <1>3, ThreadNames DEF TypeOK
<1>5. /\ \A u \in Workers : InHand(u)' = InHand(u)
      /\ InHand("payloads") = <<>> /\ InHand("payloads")' = <<Head(queue["payloadQueue"])>>
  BY <1>2, <1>4 DEF InHand
<1>6. Upto2 = (plotted \o <<>>) \o queue["payloadQueue"]
      /\ Upto2' = (plotted \o <<Head(queue["payloadQueue"])>>) \o Tail(queue["payloadQueue"])
  BY <1>1, <1>4, <1>5, LineParts
<1>7. Upto2' = Upto2
  <2>1. plotted \in Seq(Chunk) /\ queue["payloadQueue"] \in Seq(Chunk)
    BY <1>1, PartTypes, ThreadNames
  <2> QED
    BY <1>2, <1>6, <2>1, TakeHead
<1>8. Line' = Line
  BY <1>4, <1>5, <1>7, ThreadNames, LineParts
<1> QED
  BY <1>1, <1>8 DEF Same

\* Plotting the last payload moves the chunk from the hand to the history.
LEMMA PlotKeepsLine == ASSUME IInv, Plot PROVE Same
<1>1. TypeOK /\ queue' = queue /\ read' = read
  BY DEF IInv, Plot
<1>2. Upto1' = Upto1 /\ \A u \in Workers : InHand(u)' = InHand(u)
  <2>1. CASE left > 1
    BY <2>1 DEF Plot, Upto1, InHand
  <2>2. CASE ~(left > 1)
    <3>1. plotted' = Append(plotted, hold["payloads"]) /\ hold' = [hold EXCEPT !["payloads"] = 0]
      BY <2>2 DEF Plot
    <3>2. hold'["payloads"] = 0 /\ \A u \in Workers : hold'[u] = hold[u]
      BY <1>1, <3>1, ThreadNames DEF TypeOK
    <3>3. hold["payloads"] # 0 /\ hold["payloads"] \in Chunk
      <4>1. hold["payloads"] # 0 /\ hold["payloads"] \in 0 .. NumChunks
        BY ThreadNames DEF IInv, Plot, Phases, TypeOK
      <4> QED
        BY <4>1, Constants DEF Chunk
    <3>4. InHand("payloads") = <<hold["payloads"]>> /\ InHand("payloads")' = <<>>
          /\ \A u \in Workers : InHand(u)' = InHand(u)
      BY <3>2, <3>3 DEF InHand
    <3>5. Upto1 = plotted \o <<hold["payloads"]>>
          /\ Upto1' = Append(plotted, hold["payloads"]) \o <<>>
      BY <3>1, <3>4, LineParts
    <3>6. plotted \in Seq(Chunk)
      BY <1>1, PartTypes
    <3>7. Append(plotted, hold["payloads"]) = plotted \o <<hold["payloads"]>>
          /\ Append(plotted, hold["payloads"]) \in Seq(Chunk)
      BY <3>3, <3>6, AppendIsConcat, AppendProperties
    <3>8. Append(plotted, hold["payloads"]) \o <<>> = Append(plotted, hold["payloads"])
      BY <3>7, ConcatEmptySeq
    <3> QED
      BY <3>4, <3>5, <3>7, <3>8
  <2> QED
    BY <2>1, <2>2
<1>3. Line' = Line
  BY <1>1, <1>2, ThreadNames, LineParts
<1> QED
  BY <1>1, <1>3 DEF Same

LEMMA StepsOfLine == IInv /\ [Next]_vars => Same \/ Extended \/ Dropped
<1> SUFFICES ASSUME IInv, [Next]_vars PROVE Same \/ Extended \/ Dropped
  OBVIOUS
<1>1. CASE ReaderPush
  BY <1>1, ReaderExtends
<1>2. CASE \E s \in Workers : StagePop(s) \/ StageDrop(s) \/ StagePush(s)
  BY <1>2, PopKeepsLine, DropShortensLine, PushKeepsLine
<1>3. CASE PayloadsPop \/ Plot
  BY <1>3, PayloadsPopKeepsLine, PlotKeepsLine
<1>4. CASE UNCHANGED <<queue, read, hold, plotted>>
  BY <1>4 DEF Same, Line, InHand
<1>5. CASE ReaderFinish \/ StatusStep \/ UNCHANGED vars
  BY <1>4, <1>5 DEF ReaderFinish, StatusStep, StatusSample, StatusReset, CheckFinished, CheckEmpty,
                    StatusWrite, vars
<1>6. CASE \E t \in Threads : PopTimeout(t) \/ CheckFinished(t) \/ CheckEmpty(t)
  BY <1>4, <1>6 DEF PopTimeout, CheckFinished, CheckEmpty
<1> QED
  BY <1>1, <1>2, <1>3, <1>5, <1>6, ThreadNames
     DEF Next, ReaderStep, WorkerStep, PayloadsStep
-----------------------------------------------------------------------------
\* Inductive together with IInv: what is on its way comes from the file, so that the
\* next chunk read is behind all of it.
OrderInv == InOrder /\ NothingLost /\ Range(Line) \subseteq 1 .. read

LEMMA InitOrder == Init => OrderInv
<1> SUFFICES ASSUME Init PROVE OrderInv
  OBVIOUS
<1>1. Line = <<>> /\ read = 0
  <2>1. /\ plotted = <<>> /\ read = 0
        /\ InHand("payloads") = <<>> /\ InHand("messages") = <<>> /\ InHand("fragments") = <<>>
        /\ queue["fragmentQueue"] = <<>> /\ queue["messageQueue"] = <<>> /\ queue["payloadQueue"] = <<>>
    BY ThreadNames DEF Init, InHand
  <2>2. <<>> \o <<>> = <<>>
    OBVIOUS
  <2> QED
    BY <2>1, <2>2 DEF Line
<1>2. Range(Line) = {}
  BY <1>1 DEF Range
<1> QED
  BY <1>1, <1>2 DEF OrderInv, InOrder, NothingLost

LEMMA NextOrder == IInv /\ OrderInv /\ [Next]_vars => OrderInv'
<1> SUFFICES ASSUME IInv, OrderInv, [Next]_vars PROVE OrderInv'
  OBVIOUS
<1>1. /\ Ascending(Line) /\ Range(Line) \subseteq 1 .. read
      /\ (1 .. read) \ (NoMessages \cup NoPayloads) \subseteq Range(Line)
      /\ Line \in Seq(Chunk) /\ read \in Nat
  BY PartTypes, Constants DEF OrderInv, InOrder, NothingLost, Ascending, IInv, TypeOK
<1>2. ASSUME Ascending(Line'), Range(Line') \subseteq 1 .. read',
             (1 .. read') \ (NoMessages \cup NoPayloads) \subseteq Range(Line')
      PROVE  OrderInv'
  BY <1>2 DEF OrderInv, InOrder, NothingLost, Ascending
<1>3. CASE Same
  BY <1>1, <1>2, <1>3 DEF Same
<1>4. CASE Extended
  <2>1. read + 1 \in Chunk /\ Line' = Append(Line, read + 1) /\ read' = read + 1
    BY <1>4 DEF Extended
  <2>2. Line' = Line \o <<read + 1>> /\ <<read + 1>> \in Seq(Chunk)
    BY <1>1, <2>1, AppendIsConcat
  <2>3. Range(<<read + 1>>) = {read + 1}
    BY DEF Range
  <2>4. Range(Line') = Range(Line) \cup {read + 1}
    <3>1. Range(Line \o <<read + 1>>) = Range(Line) \cup Range(<<read + 1>>)
      <4>1. Line \in Seq(Nat) /\ <<read + 1>> \in Seq(Nat)
        BY <1>1, <2>2, ChunksAreNats
      <4> QED
        BY <4>1, RangeOfConcat
    <3> QED
      BY <2>2, <2>3, <3>1
  <2>5. Ascending(Line')
    <3>1. Line \in Seq(Nat) /\ <<read + 1>> \in Seq(Nat)
      BY <1>1, <2>2, ChunksAreNats
    <3>2. Ascending(<<read + 1>>)
      BY DEF Ascending
    <3>3. \A x \in Range(Line), y \in Range(<<read + 1>>) : x < y
      BY <1>1, <2>3
    <3> QED
      BY <1>1, <2>2, <3>1, <3>2, <3>3, AscendingConcat
  <2> QED
    BY <1>1, <1>2, <2>1, <2>4, <2>5
<1>5. CASE Dropped
  <2>1. PICK k \in NoMessages \cup NoPayloads : Range(Line) = Range(Line') \cup {k}
    BY <1>5 DEF Dropped
  <2> QED
    BY <1>1, <1>2, <1>5, <2>1 DEF Dropped
<1> QED
  BY <1>3, <1>4, <1>5, StepsOfLine

\* Three queues and four threads later, chunks are in the order of the file.
THEOREM OrderKept == Spec => []InOrder
<1>1. OrderInv => InOrder
  BY DEF OrderInv
<1> QED
  BY <1>1, InitOrder, NextOrder, PipelineInvariant, PTL DEF Spec

\* No chunk with anything to plot is lost on the way.
THEOREM NoChunkLost == Spec => []NothingLost
<1>1. OrderInv => NothingLost
  BY DEF OrderInv
<1> QED
  BY <1>1, InitOrder, NextOrder, PipelineInvariant, PTL DEF Spec
=============================================================================
