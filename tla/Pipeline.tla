----------------------------- MODULE Pipeline ------------------------------
(***************************************************************************)
(* The five threads of src/ais_reader/main.cpp and the three queues that   *)
(* connect them: readFragments -> fragmentQueue -> procFragmentsQueue ->   *)
(* messageQueue -> procMessagesQueue -> payloadQueue -> procPayloadsQueue, *)
(* with statusReport watching.  A queue operation is one step on a bounded *)
(* sequence: BlockingQueue.tla implements that, for one producer and one   *)
(* consumer per queue.                                                     *)
(*                                                                         *)
(* A chunk is its ordinal in the file.  What a stage makes of a chunk's    *)
(* records matters here only in that it may be nothing, and then nothing   *)
(* is pushed: NoMessages and NoPayloads say for which chunks.              *)
(* Mut... definitions: see the README, "Mutants".                          *)
(***************************************************************************)
EXTENDS Integers, Sequences, FiniteSets, Functions

CONSTANTS NumChunks,    \* chunks of fragments the reader makes of the file
          NoMessages,   \* chunks in which no sentence gives a message
          NoPayloads,   \* chunks in which no message gives a payload
          PerChunk,     \* payloads in every other chunk (1..512 in the code)
          Capacity,     \* of each queue (1024 in the code)
          MAX_PROC_COUNT

Chunk == 1 .. NumChunks

ASSUME PipelineAssumption ==
  /\ NumChunks \in Nat
  /\ NoMessages \subseteq Chunk /\ NoPayloads \subseteq Chunk
  /\ PerChunk \in Nat \ {0}
  /\ Capacity \in Nat \ {0}
  /\ MAX_PROC_COUNT \in Nat \ {0}

VARIABLES queue,          \* contents of the three queues
          fileFinished,   \* atomic flag, set by the reader
          read,           \* chunks the reader has pushed
          pc,             \* where each thread stands
          hold,           \* the chunk a stage has popped and not passed on; 0: none
          iter,           \* the loop counter i of processFragments, processMessages
          left,           \* payloads of the chunk in hand still to be plotted
          plotted,        \* history: chunks plotted, in order
          msgCount,       \* atomic counter of payloads
          sampled,        \* msgCount as statusReport last read it
          reported,       \* history: sum of what statusReport has printed
          imageAt         \* history: payloads in the image when it was written

vars == <<queue, fileFinished, read, pc, hold, iter, left, plotted,
          msgCount, sampled, reported, imageAt>>

Queues  == {"fragmentQueue", "messageQueue", "payloadQueue"}
Workers == {"fragments", "messages"}          \* processFragments, processMessages
Stages  == Workers \cup {"payloads"}
Threads == Stages \cup {"reader", "status"}

Input  == [fragments |-> "fragmentQueue", messages |-> "messageQueue",
           payloads |-> "payloadQueue", status |-> "payloadQueue"]
Output == [reader |-> "fragmentQueue", fragments |-> "messageQueue",
           messages |-> "payloadQueue"]

\* Chunks of which a stage's output chunk stays empty.
Barren == [fragments |-> NoMessages, messages |-> NoPayloads]

Goto(t, l) == pc' = [pc EXCEPT ![t] = l]
empty(q) == queue[q] = <<>>
full(q)  == Len(queue[q]) >= Capacity
MutPush(q, k) == queue' = [queue EXCEPT ![q] = <<k>> \o @]   \* at the wrong end
push(q, k) == queue' = [queue EXCEPT ![q] = Append(@, k)]
pop(q) == queue' = [queue EXCEPT ![q] = Tail(@)]

Plotted == PerChunk * Len(plotted) + (IF hold["payloads"] = 0 THEN 0 ELSE PerChunk - left)
-----------------------------------------------------------------------------
(* readFragments: push every chunk of the file, then raise fileFinished.   *)

ReaderPush ==
  /\ pc["reader"] = "push" /\ read < NumChunks
  /\ ~full(Output["reader"])
  /\ push(Output["reader"], read + 1)
  /\ read' = read + 1
  /\ UNCHANGED <<fileFinished, pc, hold, iter, left, plotted, msgCount, sampled, reported, imageAt>>

\* The call after the one that met the end of the file returns false.
ReaderFinish ==
  /\ pc["reader"] = "push" /\ read = NumChunks
  /\ fileFinished' = TRUE
  /\ Goto("reader", "done")
  /\ UNCHANGED <<queue, read, hold, iter, left, plotted, msgCount, sampled, reported, imageAt>>
-----------------------------------------------------------------------------
(* processFragments and processMessages: at most MAX_PROC_COUNT chunks per *)
(* call, or until a pop times out.                                         *)

NextIteration(s) ==
  /\ iter' = [iter EXCEPT ![s] = @ + 1]
  /\ Goto(s, IF iter[s] + 1 = MAX_PROC_COUNT THEN "checkFinished" ELSE "pop")

\* The popped chunk gives an output chunk, to be pushed next.
StagePop(s) ==
  /\ pc[s] = "pop" /\ ~empty(Input[s])
  /\ Head(queue[Input[s]]) \notin Barren[s]
  /\ hold' = [hold EXCEPT ![s] = Head(queue[Input[s]])]
  /\ pop(Input[s])
  /\ Goto(s, "push")
  /\ UNCHANGED <<fileFinished, read, iter, left, plotted, msgCount, sampled, reported, imageAt>>

\* The popped chunk gives an empty output chunk, which is not pushed.
StageDrop(s) ==
  /\ pc[s] = "pop" /\ ~empty(Input[s])
  /\ Head(queue[Input[s]]) \in Barren[s]
  /\ pop(Input[s])
  /\ NextIteration(s)
  /\ UNCHANGED <<fileFinished, read, hold, left, plotted, msgCount, sampled, reported, imageAt>>

MutStagePush(s) ==                        \* gives the chunk up when the queue is full
  /\ pc[s] = "push"
  /\ IF full(Output[s]) THEN UNCHANGED queue ELSE push(Output[s], hold[s])
  /\ hold' = [hold EXCEPT ![s] = 0]
  /\ NextIteration(s)
  /\ UNCHANGED <<fileFinished, read, left, plotted, msgCount, sampled, reported, imageAt>>

\* push blocks while the output queue is full, without a timeout.
StagePush(s) ==
  /\ pc[s] = "push" /\ ~full(Output[s])
  /\ push(Output[s], hold[s])
  /\ hold' = [hold EXCEPT ![s] = 0]
  /\ NextIteration(s)
  /\ UNCHANGED <<fileFinished, read, left, plotted, msgCount, sampled, reported, imageAt>>

MutPopTimeout(s) == FALSE                 \* pop waits without a timeout

\* pop waited its 5000ms on an empty queue and returned a null chunk.
PopTimeout(s) ==
  /\ pc[s] = "pop" /\ empty(Input[s])
  /\ Goto(s, "checkFinished")
  /\ UNCHANGED <<queue, fileFinished, read, hold, iter, left, plotted, msgCount, sampled, reported, imageAt>>
-----------------------------------------------------------------------------
(* procPayloadsQueue: one pop per round, then plot and count each payload. *)

PayloadsPop ==
  /\ pc["payloads"] = "pop" /\ ~empty("payloadQueue")
  /\ hold' = [hold EXCEPT !["payloads"] = Head(queue["payloadQueue"])]
  /\ pop("payloadQueue")
  /\ left' = PerChunk
  /\ Goto("payloads", "plot")
  /\ UNCHANGED <<fileFinished, read, iter, plotted, msgCount, sampled, reported, imageAt>>

Plot ==
  /\ pc["payloads"] = "plot"
  /\ msgCount' = msgCount + 1
  /\ left' = left - 1
  /\ IF left > 1
     THEN UNCHANGED <<pc, hold, plotted>>
     ELSE /\ plotted' = Append(plotted, hold["payloads"])
          /\ hold' = [hold EXCEPT !["payloads"] = 0]
          /\ Goto("payloads", "checkFinished")
  /\ UNCHANGED <<queue, fileFinished, read, iter, sampled, reported, imageAt>>
-----------------------------------------------------------------------------
(* "check if we are done with file and no more data in input queue": two   *)
(* atomic loads, fileFinished first.  Otherwise the thread goes round its  *)
(* loop again.                                                             *)

MutAgain(t) == Goto(t, IF t = "status" THEN "sample" ELSE "pop") /\ UNCHANGED iter   \* i not reset
Again(t) ==
  /\ Goto(t, IF t = "status" THEN "sample" ELSE "pop")
  /\ iter' = IF t \in Workers THEN [iter EXCEPT ![t] = 0] ELSE iter

MutCheckFinished(t) ==                    \* the flag is not looked at
  /\ pc[t] = "checkFinished"
  /\ Goto(t, "checkEmpty")
  /\ UNCHANGED <<queue, fileFinished, read, hold, iter, left, plotted, msgCount, sampled, reported, imageAt>>

CheckFinished(t) ==
  /\ pc[t] = "checkFinished"
  /\ IF fileFinished
     THEN Goto(t, "checkEmpty") /\ UNCHANGED iter
     ELSE Again(t)
  /\ UNCHANGED <<queue, fileFinished, read, hold, left, plotted, msgCount, sampled, reported, imageAt>>

MutCheckEmpty(t) ==                       \* the queue is not looked at
  /\ pc[t] = "checkEmpty"
  /\ Goto(t, IF t = "status" THEN "write" ELSE "done")
  /\ UNCHANGED <<queue, fileFinished, read, hold, iter, left, plotted, msgCount, sampled, reported, imageAt>>

CheckEmpty(t) ==
  /\ pc[t] = "checkEmpty"
  /\ IF empty(Input[t])
     THEN Goto(t, IF t = "status" THEN "write" ELSE "done") /\ UNCHANGED iter
     ELSE Again(t)
  /\ UNCHANGED <<queue, fileFinished, read, hold, left, plotted, msgCount, sampled, reported, imageAt>>
-----------------------------------------------------------------------------
(* statusReport: read msgCount, clear it, print, check, sleep.             *)

StatusSample ==
  /\ pc["status"] = "sample"
  /\ sampled' = msgCount
  /\ Goto("status", "reset")
  /\ UNCHANGED <<queue, fileFinished, read, hold, iter, left, plotted, msgCount, reported, imageAt>>

MutStatusReset ==                         \* msgCount is not cleared
  /\ pc["status"] = "reset"
  /\ reported' = reported + sampled
  /\ Goto("status", "checkFinished")
  /\ UNCHANGED <<queue, fileFinished, read, hold, iter, left, plotted, msgCount, sampled, imageAt>>

StatusReset ==
  /\ pc["status"] = "reset"
  /\ msgCount' = 0
  /\ reported' = reported + sampled
  /\ Goto("status", "checkFinished")
  /\ UNCHANGED <<queue, fileFinished, read, hold, iter, left, plotted, sampled, imageAt>>

\* Scale the image and write it to test.tiff.
StatusWrite ==
  /\ pc["status"] = "write"
  /\ imageAt' = Plotted
  /\ Goto("status", "done")
  /\ UNCHANGED <<queue, fileFinished, read, hold, iter, left, plotted, msgCount, sampled, reported>>
-----------------------------------------------------------------------------
Init ==
  /\ queue = [q \in Queues |-> <<>>]
  /\ fileFinished = FALSE
  /\ read = 0
  /\ pc = [t \in Threads |-> IF t = "reader" THEN "push"
                             ELSE IF t = "status" THEN "sample" ELSE "pop"]
  /\ hold = [s \in Stages |-> 0]
  /\ iter = [s \in Workers |-> 0]
  /\ left = 0 /\ plotted = <<>>
  /\ msgCount = 0 /\ sampled = 0 /\ reported = 0
  /\ imageAt = -1

ReaderStep == ReaderPush \/ ReaderFinish
WorkerStep(s) ==
  StagePop(s) \/ StageDrop(s) \/ StagePush(s) \/ PopTimeout(s) \/ CheckFinished(s) \/ CheckEmpty(s)
PayloadsStep ==
  \/ PayloadsPop \/ Plot
  \/ PopTimeout("payloads") \/ CheckFinished("payloads") \/ CheckEmpty("payloads")
StatusStep ==
  StatusSample \/ StatusReset \/ CheckFinished("status") \/ CheckEmpty("status") \/ StatusWrite

Next == ReaderStep \/ (\E s \in Workers : WorkerStep(s)) \/ PayloadsStep \/ StatusStep

Spec == Init /\ [][Next]_vars

\* The operating system runs every thread that is not blocked in push.
Scheduled ==
  /\ WF_vars(ReaderStep)
  /\ \A s \in Workers : WF_vars(WorkerStep(s))
  /\ WF_vars(PayloadsStep)
  /\ WF_vars(StatusStep)
FairSpec == Spec /\ Scheduled
-----------------------------------------------------------------------------
Location == {"push", "pop", "plot", "checkFinished", "checkEmpty",
             "sample", "reset", "write", "done"}

TypeOK ==
  /\ queue \in [Queues -> Seq(Chunk)]
  /\ \A q \in Queues : Len(queue[q]) <= Capacity
  /\ fileFinished \in BOOLEAN
  /\ read \in 0 .. NumChunks
  /\ pc \in [Threads -> Location]
  /\ hold \in [Stages -> 0 .. NumChunks]
  /\ iter \in [Workers -> 0 .. MAX_PROC_COUNT]
  /\ left \in 0 .. PerChunk
  /\ plotted \in Seq(Chunk)
  /\ msgCount \in Nat /\ sampled \in Nat /\ reported \in Nat
  /\ imageAt \in Int

\* All chunks on their way, the furthest first.
InHand(s) == IF hold[s] = 0 THEN <<>> ELSE <<hold[s]>>
Line == plotted \o InHand("payloads") \o queue["payloadQueue"]
                \o InHand("messages") \o queue["messageQueue"]
                \o InHand("fragments") \o queue["fragmentQueue"]

\* Three queues and four threads later, chunks are still in the order of the
\* file: fragments of a message reach the assembler as they were received.
InOrder == \A i, j \in 1 .. Len(Line) : i < j => Line[i] < Line[j]

\* A chunk the reader has pushed is plotted, waiting in a queue or in the hand
\* of one thread, unless it held nothing to decode.
NothingLost == (1 .. read) \ (NoMessages \cup NoPayloads) \subseteq Range(Line)

\* The stop test of procFragmentsQueue (main.cpp:98) is right: fileFinished is
\* read before the queue and set after the last push, so once the thread has
\* stopped nothing is left for it and nothing will come.
FragmentsDrained ==
  pc["fragments"] = "done" =>
    read = NumChunks /\ empty("fragmentQueue") /\ hold["fragments"] = 0

\* statusReport never counts a payload twice, although msgCount is read and
\* cleared in two steps while procPayloadsQueue increments it.  (It may miss
\* some: those counted between the two.)
NeverOvercounts == reported + msgCount <= Plotted

(* What makes these inductive: where a thread holds a chunk, how far its    *)
(* loop counter can be, and what a thread past a test knows (PipelineProofs).*)
Phases ==
  /\ \A s \in Workers :
       /\ hold[s] # 0 <=> pc[s] = "push"
       /\ pc[s] \in {"pop", "push"} => iter[s] < MAX_PROC_COUNT
  /\ hold["payloads"] # 0 <=> pc["payloads"] = "plot"
  /\ pc["payloads"] = "plot" => left > 0

FinishedKnown ==
  /\ fileFinished <=> pc["reader"] = "done"
  /\ fileFinished => read = NumChunks
  /\ pc["fragments"] \in {"checkEmpty", "done"} => fileFinished

SampleBehind == pc["status"] = "reset" => sampled <= msgCount

IInv == /\ TypeOK /\ Phases /\ FinishedKnown /\ FragmentsDrained
        /\ SampleBehind /\ NeverOvercounts

Done(t) == pc[t] = "done"

\* readFragments ends, however long the file: no stage leaves the reader
\* blocked on a full fragmentQueue.
ReaderFinishes == <>fileFinished

\* The reader and the stages stop, unless a stage stays in push for ever because
\* the stage behind a full queue has stopped before it (processing.h:90 and 131
\* say "Stops when output queue is full"; push blocks instead).
Blocked(s) == pc[s] = "push" /\ full(Output[s])
StagesStop ==
  (\A s \in Workers : []<>~Blocked(s))
    => <>(Done("reader") /\ \A s \in Stages : Done(s))

\* If no stage stops before the one that feeds it, every payload is plotted
\* and all five threads end, so that main joins them.
DownstreamLast == [](/\ Done("messages") => Done("fragments")
                     /\ Done("payloads") => Done("messages"))
AllPlotted == Range(plotted) = Chunk \ (NoMessages \cup NoPayloads)
OrderlyShutdown == DownstreamLast => <>(AllPlotted /\ \A t \in Threads : Done(t))
-----------------------------------------------------------------------------
(* What the comments promise and the code does not keep (README, "Findings").*)

\* main.cpp:213, the image is written when "done with file and no more data":
\* it then shows every payload of the file.
ImageComplete ==
  imageAt # -1 =>
    imageAt = PerChunk * Cardinality(Chunk \ (NoMessages \cup NoPayloads))

\* main.cpp:213: statusReport ends after the end of the file.
StatusEnds == fileFinished ~> Done("status")
=============================================================================
