# A TLA+ model of ais_beast

ais_beast reads AIS messages (NMEA sentences `!AIVDM,...`) from a file and decodes them in a pipeline of
threads. This directory holds TLA+ modules that model it, TLC configurations that check them on small
instances, and TLAPS proofs of their main properties for every instance. Paths below are relative to `src/`.

    tlc -workers 2 -config queue_spsc.cfg BlockingQueue    # a run; PROJECT.json lists the module of each cfg
    tlapm PipelineProofs.tla                               # a proof

## Inventory

| Part | Source | State | Operations | Talks to |
|---|---|---|---|---|
| blocking queue | `ais_decoder/queue.h` | ring of N slots, 32-bit front and back counters, atomic size, mutex, one condition variable | `push` (blocks), `pop` (waits up to 5 s), `empty`, `full`, `size` | two threads each |
| reader | `ais_reader/main.cpp:45-90`, `processing.h:26-85` | file, 64K buffer `nmeaData`, `fileFinished` | `readFromFile`, `processNmeaData` | pushes chunks of fragments to `fragmentQueue` |
| fragments stage | `main.cpp:93-105`, `processing.h:96-126` | loop counter, chunk in hand, assembler table | `processFragments`, `processSentence` | `fragmentQueue` to `messageQueue` |
| messages stage | `main.cpp:108-120`, `processing.h:137-168` | loop counter, chunk in hand | `processMessages`, `decodeAscii` | `messageQueue` to `payloadQueue` |
| payloads stage | `main.cpp:123-192` | chunk in hand, `image`, `pixelMax`, `msgCount` | read fields, plot | `payloadQueue` |
| status report | `main.cpp:195-230` | `msgCount`, `image` | sample and clear the count, stop test, scale and write the image | reads the queues' sizes |
| assembler | `ais_decoder/decoder.h:54-278` | per message id: fragments, index, count | `processSentence`, `processMultiLineSentence` | called by the fragments stage |
| sentence parser | `decoder.h:110-196` | none | `readHeader`, `readSentence`, `checkType` | called by the reader |
| payload decoder | `decoder.h:282-462` | none | `decodeAscii`, `getUnsignedValue`, `getSignedValue`, `getString` | messages and payloads stages |
| checksum | `decoder.h:73-98` | none | `calcCrc` | assembler |
| chunks, memory pool | `chunk.h`, `mem_pool.h` | free list per chunk type | `new` and `delete` of chunks | all stages |
| strings | `strutils.h` | characters, size | copy and append with truncation | all structures |
| AIS utilities | `aisutils.cpp` | tables | look-ups of MMSI, country, class and name | offered to callers; the reader program has none |
| TIFF | `tiff.h` | none | libtiff output | status report writes the image |

What is hard here: three queues and five threads that stop by polling one flag and a queue's emptiness;
blocking pushes without a timeout, pops with one; a shared condition variable; a counter read and cleared in two
steps; memory that one thread releases into a pool from which another allocates; a buffer that ends anywhere in a
line; fragments of several messages that interleave; bit arithmetic at word boundaries.
`PROJECT.json` lists each hazard at its line with the properties that would catch it.

What makes each part correct: a queue is a FIFO that loses nothing and forgets no sleeper; the pipeline keeps
the order of the file, loses nothing and ends; the reader turns every sentence into a fragment exactly once; the
assembler joins exactly the fragments 1 to n of one id; a chunk has one owner and keeps its content until it is
released; the checksum covers each byte once; the decoder concatenates 6-bit groups and cuts fields out at their
places; two look-ups of the same thing agree.

## Modules

**`BoundedFifo`** is what a queue promises: a bounded sequence of values that come out once and in order.

**`BlockingQueue`** is `queue.h`. A critical section is one step, since the mutex admits one thread and the one
member read outside it, `m_uSize`, is stored once inside. `notify_one` runs after the unlock and is a step of its
own. A wait either finds its predicate true and goes on (`Push`, `Pop`) or enters the wait set (`PushWait`,
`PopWait`); it comes back through a notification, spuriously, or (pop only) through the deadline, after which
`wait_for` evaluates the predicate once more (`Pop` or `PopFail`). Producers and consumers wait in one set and
`Notify` wakes any one of them. Counters wrap at `CounterMod`, a multiple of N as 2^32 is.

**`Pipeline`** is `main.cpp` with the stage loops of `processing.h`: one program counter per thread, three
bounded sequences (`BlockingQueue` implements each of them), `fileFinished`, `msgCount`. A chunk is its ordinal
in the file; which chunks give no messages or no payloads is a constant, because an empty output chunk is not
pushed. The stop test is two steps, as `fileFinished == true && queue.empty()` is two loads. `sampled`,
`reported`, `plotted` and `imageAt` record what `statusReport` and the payloads stage have seen and done.

**`Assembler`** is `processSentence` with its table. A fragment keeps the fields the code branches on and
whether its checksum is right. `heard` records, per id, the fragments offered to the table. The table has ten
entries and an id may be up to 15: `StrayFragment` is a fragment whose entry is memory behind the table, with any
index and count; the table itself is not touched, as an entry is stored to at its own index only.

**`NmeaReader`** is the reader down to `readSentence`. The file is a sequence of tokens, one for each part of a
line that the end of the buffer can fall behind, and one per byte where the code counts bytes (from the checksum
on). A line may be too long for the buffer, and the file may be missing. Each round of the loop in
`processNmeaData` is one step; `cuts` records where the buffer has ended. A header gives its time in a field with a
comma behind it, in its last field (then `from_chars` gets a null end, and what it does is the library's choice), or
not at all: `HeaderTime` says which, line by line. `MCNmeaReader` names the line ends and the headers.

**`PayloadDecoder`** is `decodeAscii` and the field accessors with the field layout of `procPayloadsQueue`. A bit
is known by its place in the message, so one behaviour stands for every message of that length: a word is a
function from bit positions to places, a shift moves positions, and an OR of two message bits gives `Mixed`.
Sizes are the code's: up to 164 characters, de-armoured into 124 bytes.

**`ChunkMemory`** composes `Pipeline` with `chunk.h` and `mem_pool.h`: each step of a thread is taken together with
what it does to memory, and between two of them a stage allocates, fills and deletes its chunks. An address is the
ordinal of its `malloc`, and `content` says which chunk of the file memory holds.

**`Checksum`** is `calcCrc`, one step per round of its three loops. A byte is known by its index, so an exclusive or
is the set of bytes that occur an odd number of times, and one behaviour stands for all sentences of that length.

**`SentenceDecoding`** composes `Checksum` and `PayloadDecoder`: a sentence is stored in a `String` of 82 characters,
its checksum is compared, and if it is accepted its payload is decoded and read field by field. A sentence that
was damaged or has lost its checksum may pass by chance, so both verdicts are possible. What is decoded has the
size `m_uSize` that the payload had on the line, which is not cut with the sentence, up to 164 characters.

**`AisUtils`** is `aisutils.cpp`. Its look-ups are functions of their argument; the variables build up the arguments.

`BlockingQueueProofs`, `PipelineProofs`, `ChunkMemoryProofs`, `AssemblerProofs`, `NmeaReaderProofs`,
`SentenceDecodingProofs` (which is also about `PayloadDecoder`), `ChecksumProofs` and `AisUtilsProofs` hold the
proofs.

## Runs

| Run | Shows | Bounds |
|---|---|---|
| `queue_spsc` | types; size is the number of occupied slots; each value once and in order; no sleeper forgotten; refinement of `BoundedFifo`; every value gets through without any timeout | 2 slots, counters modulo 4, 9 values: the counters wrap four times, the ring is full and empty in between |
| `queue_spmc_stuck` | counterexample, below | 1 slot, 2 consumers |
| `pipeline_stages` | types; order; no chunk lost; the stop test of the fragments stage; no payload counted twice; the reader ends; the stages stop unless one stays in `push`; orderly shutdown | 4 chunks through queues of 2, so that order inside a queue matters; rounds of 2, 2 payloads a chunk, one chunk without messages and one without payloads: pushes block, a round ends by its limit and by a timeout |
| `chunk_memory` | one owner for every chunk; content kept while it is waited for or read; memory bounded by the queues | 3 chunks through queues of 1, so that memory is recycled while later chunks are read; an empty output chunk |
| `pipeline_status_ends`, `pipeline_image` | counterexamples, below | 1 or 2 chunks |
| `assembler_runs` | types; a table entry is the run its history ends in; a message comes when a run is complete and holds all of it and nothing else | `MAX_FRAGMENTS` = 3, the least that lets a message through; two ids in the table and one behind it; messages of up to 3 fragments, numbers up to 4, 4 fragments heard: two interleaved pairs, or a pair with a gap, a repetition or another id in it |
| `assembler_pair` | counterexample, below | `MAX_FRAGMENTS` = 2 as in the code |
| `reader_crlf` | no sentence lost, repeated or reordered; chunks well formed; timestamps; end of file reached | all files of up to 6 lines of four shapes, one of them too long for the buffer, and the missing file; the three kinds of header in turn; a buffer of 25 tokens, which is three sentences and a part of the next, and chunks of 2: it ends behind every token of a sentence, and one call fills a chunk and begins another |
| `reader_lf` | counterexample, below | 3 lines |
| `sentence_fields` | the checksum sums each byte once and reads aligned words inside the sentence; a sound sentence is rejected only if it was cut; bits in order; stores inside `m_payload` up to 159 characters, and inside `m_bitsUsed` beyond; each field is its slice of the payload | every payload up to 72 characters (a stored sentence has room for 64): every alignment of a group to a word occurs, as it repeats after 32 characters; and 157 to 166 characters, on either side of 160, where the last word leaves `m_payload`, and of 164, the most `m_payload` of a message takes; 82 characters are stored; every alignment of the string |
| `ais_utils` | the two computations of an MDI agree; country and transmitter class belong to the same prefix; class names are found again; names are clean | MMSIs with every digit that begins a prefix in each of the first four places; all codes; names of up to 6 characters |

Deadlock is checked except where the program really stops: the pipeline's threads return, the reader comes to the
end of the file, a message has no more fields, the arguments of a look-up are used up. In the queue
runs, spurious wake-ups and timeouts keep a finished system moving.

**Fairness.** `FairSpec` of `BlockingQueue` runs every thread that can run, and does not let timeouts or spurious
wake-ups help; `TimedSpec` adds that a `wait_for` ends at its deadline. In `Pipeline` every thread gets weak
fairness for its own steps: the operating system runs what is not blocked, and a `pop` on an empty queue times
out after 5 s. A `pop` that times out is possible whenever its queue is empty, so a push may arrive any time
before or after the deadline. No strong fairness is needed: each thread's steps stay enabled until it takes one,
except at a queue that another thread uses, and there only one side of it can be blocked.

**Bounds.** `Items` (values per producer), `MaxHeard` (fragments offered), `MaxLines`, `PayloadSizes`, `MaxName` and
`NumChunks` end the runs, and `Heap` is as many addresses as `chunk_memory` tells apart; the rest are the code's own
constants at small values (`N`, `Capacity`, `MAX_PROC_COUNT`, `ChunkSize`, `BufferSize`).

## Mutants

A definition `MutX` is a variant of the definition `X` that follows it, with one plausible defect: a dropped
guard, an off-by-one, a missing reset. No specification uses it. `PROJECT.json` pairs each property of a
passing run with a variant that breaks it, which shows that the property can fail in that run.

## Findings

* **Early stop** (`main.cpp:113`, `:185`, `:213`). "Done with file and no more data in input queue" is tested
  with the reader's flag. It is right for the fragments stage (`FragmentsDrained`, proved) but not for those
  behind it: their queue may be empty while an earlier stage holds a chunk. The messages or payloads stage then
  stops early, what arrives later is never plotted, a full queue blocks the stage before it in `push` for ever
  (`processing.h:90` and `:131` say "Stops when output queue is full"), and `statusReport`, which waits for
  `payloadQueue` to become empty, never ends (run `pipeline_status_ends`). Built with the sample as its input,
  the program was observed to hang this way, reporting `frgq=0, msgq=0, pldq=549` for ever.
  `OrderlyShutdown` shows that this is the only obstacle: if stages stop in order, everything ends.
* **Incomplete image** (run `pipeline_image`). `statusReport` may find `payloadQueue` empty while payloads are
  still on their way, and writes the image without them.
* **Shared condition variable** (run `queue_spmc_stuck`). With two consumers the one signal for a sleeping
  producer may wake the other consumer. "Thread-safe for multiple producers and consumers" (`queue.h:22`) holds
  for the data (`Refinement` and `SizeCorrect`, for any number of threads) and not for progress. The pipeline uses
  one producer and one consumer, for which no wake-up is missed (proved).
* **Multi-sentence messages** (run `assembler_pair`). `MAX_FRAGMENTS` is 2 and the guard of `decoder.h:205` is
  `m_uFragmentNum < MAX_FRAGMENTS` with numbers from 1, so no message of two or more sentences is ever returned;
  `README.md:33` lists the feature as done. The theorem `LimitExcluded` says it for every `MAX_FRAGMENTS`. The limit
  cannot be raised alone: two more defects, latent as long as it stands, would then show, the first two of the next
  list.
* **LF line ends** (run `reader_lf`). `readSentence` wants two bytes behind the checksum. A line that ends in LF
  alone at the end of the buffer is not read, and its LF makes `processNmeaData` skip it for good. The sample
  file has about 5500 such lines among those ending in CR LF.

Seen while modelling, and without a run of their own:

* A multi-sentence message starts as a copy of its first fragment, and then every fragment is appended to it, the
  first one again (`decoder.h:234-243`): "all sentences" and the "armoured ASCII payload" (`decoder.h:39-40`) would
  hold its text twice, and every bit behind it would be in the wrong place. The model's `Joined` does the same;
  `MessageFromRun` compares the end of the message with the run and says that nothing else is in it.
* The table keeps pointers into chunks it does not own (`decoder.h:219`). Their memory may be recycled before the next
  fragment arrives; that no pointer is followed is due to the limit of `decoder.h:205` only.
* A sentence of more than 82 characters is cut without a word (`strutils.h:81`). It loses its checksum and is rejected
  (`SoundAccepted`), unless the comparison succeeds by chance, one time in 256. The reference to the payload keeps the
  size from before the cut (`decoder.h:179`), so that up to 164 characters are then taken, the last of them from what
  follows `m_sentence` in memory (`strutils.h:51`).
* For payloads from 160 characters on, which only such a sentence has, the last word stored (`decoder.h:360`) covers
  bytes 120 to 127 of the 124 of `m_payload`. The other four are `m_bitsUsed`, which is assigned right afterwards.
  `StoresInBounds` says where this begins and that no store goes further; 164 characters leave nothing to spare.
* A header is used up even if its sentence is not, so a tagged sentence loses its timestamp when the buffer ends
  inside it; and if the time is the header's last field, `from_chars` gets a null end (`decoder.h:124`): the library
  of g++ 12 reads the digits all the same, another one need not. `TimestampsKept` in `reader_crlf` leaves out just
  these two.
* `statusReport` reads `msgCount` and clears it two lines later: payloads counted in between are never reported.
  `NeverOvercounts` states the direction that holds.
* `getString` derives the number of characters from the bit index (`decoder.h:423`), not from the field: it
  reads 11 characters for a callsign of 7 and 18 for a name of 20.
* `m_uFillBits` is never assigned, `m_uMsgId` is not when its field is empty, and a fragment with an id from 10 on
  is stored behind the table of 10 (`decoder.h:208`).
* `statusReport` scales `image` while the payloads stage may still write to it, to at most 131071 in 16 bits.
* The pools are destroyed before the global queues, which then release the chunks left in them. `OrderlyShutdown`
  shows that none are left unless a stage stops early.
* If the file cannot be opened, or a line does not fit the buffer, `readFromFile` is called for ever; `AllRead`
  excludes just these.
* When the file ends right behind a header, the byte at `pEnd` is an old one. If it is a `!`, `processNmeaData`
  returns one more than its input, against `processing.h:22`.
* `getMdiFromMmsi` and its string form differ for numbers of more than nine digits. `getCleanName` leaves a name of
  nothing but blanks as it is, and the const overload of `stripTrailingWhitespace` (`strutils.h:201`) changes its
  argument and returns an empty string; nothing calls it.

## Proofs

Every invariant that a passing run checks is also proved, and so is the refinement of `BoundedFifo`: the run shows it
on a small instance, the theorem for every value of the constants.

| Theorem | States | Argument |
|---|---|---|
| `TypeCorrect` | `BlockingQueue!TypeOK` | `IInv`: the size is the distance of the counters and the slots from front to back are occupied. Needed because `Pop` must hand out a payload. |
| `Refinement` | every step of the queue is a step of `BoundedFifo` or leaves it alone | N consecutive counters have distinct slots, also across the wrap, as N divides `CounterMod` (lemmas on `Slot`); so a push appends to `Contents` and a pop removes its head. |
| `SizeCorrect` | `SizeIsDistance`, for any number of threads | `IInv` and that the other slots are vacant (`OthersVacant`); each push and pop changes the number of occupied slots by one. |
| `QueueKeepsAll` | `EachSentOnce`, for any number of threads | What has passed is what was delivered followed by what the ring holds. A pop leaves that sequence as it is and a push appends the producer's next value. |
| `NoMissedWakeup` | `NoStrandedWaiter`, given one producer and one consumer | Only `Push` can make a sleeping consumer's predicate true, and it leaves the producer at its `notify_one`; `Notify` then finds that waiter, the only one there can be. The same for `Pop`. |
| `PipelineTypes` | `Pipeline!TypeOK` | `IInv` of `Pipeline` adds in which places a thread holds a chunk and how far its loop counter is (`Phases`), without which the counter is not bounded. |
| `FragmentsStopIsSafe` | `FragmentsDrained` | The flag is set after the last push (`FinishedKnown`), and a thread past the first half of the test knows the flag; so an empty queue at the second half stays empty. |
| `ReportIsBounded` | `NeverOvercounts` | Between sample and clear the count can only grow (`SampleBehind`). |
| `OrderKept`, `NoChunkLost` | `InOrder`, `NothingLost` | `Line` is the concatenation of all places a chunk can be in. Handing a chunk on leaves it as it was (`TakeHead`, `PutLast`), the reader adds a number larger than all in it (`OrderInv`), and dropping an element keeps it ascending (`DropHead`). |
| `MemoryImplementsPipeline` | `MemorySpec` implies `Pipeline!Spec` | Each step of `ChunkMemory` names the step of the pipeline it is taken with, or leaves the pipeline alone. What is proved of `Pipeline` so holds with chunks that are recycled, and the next proof uses it. |
| `EveryChunkHasOneOwner`, `QueuesBoundMemory`, `ChunksKeepTheirContent` | `OneOwner`, `MemoryBounded`, `ContentIntact` | `MemoryInv`, which adds which pointers a thread holds at each place (`Custody`) and that the reader fills its chunk with what it pushes next. Every step moves one address from one of pool, queue and two hands to another (`FromPool`, `IntoQueue`, ...), so together they stay a numbering of the allocations. The heap is asked only when the pool is empty: all chunks are then in the queue or in two hands. Content written goes to an address that only the writer holds. |
| `AssemblerTypes`, `EntriesAreRuns`, `MessagesAreRuns`, `LimitExcluded` | an entry is stored to inside its slots, whatever the id; entry = run of the history; a message is of a completed run, all of it; fewer than `MAX_FRAGMENTS` fragments | `IInv` is the conjunction. A fragment either extends the run of its id's history or breaks it (`RunExtended`, `RunBroken`), and `Collect` does the same to the entry; what is joined from an entry that is the run is the run behind a copy of its first fragment (`RunWithFirst`). |
| `ReaderTypes`, `ChunksFit`, `TimestampsRight` | `NmeaReader!TypeOK`, `ChunksWellFormed`, `TimestampsKept` | `ReaderInv`: the reader is at the beginning of a line, behind its header or behind its `!` (`At`); the fragments output are those of the lines before (`Taken`); the buffer is the part of the file up to `pos` (`Buffered`). So what it finds next is known from the line it is in (`StartInLine`, `LineFeedOf`, `SentenceOf`), wherever the buffer ends. |
| `SentencesKept` | `NothingDropped`, if lines end with CR LF | `ReaderInv` with its third part of `Taken`: when a sentence cannot be read for want of its end, the line feed that `SkipLine` looks for is not in the buffer either, so the line is kept for the next read. With LF alone this fails (`reader_lf`). |
| `PayloadInOrder` | `BitsInOrder`, for payloads of every length | `Pending`: the accumulator holds the bits between the last word stored and the next character. One lemma for each of what is stored, what is carried over and what fits. |
| `UnsignedIsSlice`, `SignedIsSlice` | the accessors return the bits at their index, for every index and width up to 32 | The window of two or six bytes covers the index within its byte and the width. |
| `FieldsAreSlices`, `DecoderTypes` | `FieldIsSlice`, `PayloadDecoder!TypeOK` | `InLayout`: the bit index is where the field read last ends, which is where the next one starts (`NextPlace`, from the tables of places and widths); the two slice theorems give the value. |
| `StoresFit` | `StoresInBounds`, for payloads of every size | The words stored are no more than the bits of the characters read (`Pending`, `Finished`): fewer than the whole words of `m_payload` if the payload is, and in any case no more than the longest payload needs. |
| `ChecksumCorrect`, `ChecksumReadsInside` | `SumsSentence`, `ReadsInside`, for every length and alignment | `SumInv`: each byte before `in_ptr` is in exactly one lane, and behind the first loop the address is aligned. |
| `SentenceImplementsDecoder`, `SentenceSummed`, `SentenceReadInside` | `SentenceSpec` implies `PayloadDecoder!Spec`, and `SumsSentence` and `ReadsInside` of the stored copy | The decoder stands still while the checksum is computed, and the other way round; `JudgeInv` carries `SumInv` and the length of the copy to the verdict. |
| `IntactAccepted` | `SoundAccepted` | The checksum of an intact sentence matches unless the copy is shorter than the sentence (`JudgeInv`). |
| `MdiAgrees`, `CountryFound` | `MdiAgree`, `CountryBehindPrefix`, for every MMSI of up to nine digits | Divisions by powers of ten give the leading digits (one lemma for each of the four prefixes); the country follows by the first digits, case by case. |
| `NamesClean`, `ClassesRoundTrip` | `NameClean`, for names of every length; `ClassRoundTrip`, for every code | What is cut off is a suffix, the longest of its kind (`AllStripped`); the code found has the name in one of the two tables, and the one name they share belongs to one code (`TablesOverlap`). |

**Assumptions.** The named ASSUMEs of the modules, and `ChecksumAssumption`, which `SentenceDecoding` assumes:
numbers are numbers, queues and rings have room, N divides `CounterMod`, producers and consumers
are different threads. Three theorems have a hypothesis of their own, which a run or the code justifies:

* `NoMissedWakeup`: one producer and one consumer, as in `main.cpp`; `queue_spmc_stuck` shows that it is needed.
* `SentencesKept`: lines end with CR LF; `reader_lf` shows that it is needed.
* `StoresFit` (`RoomForLastWord`): the longest payload has 24 bits or more in its last word. In the code it has 164
  characters, 984 bits, and so just 24.

**Only model-checked.** Liveness: `AllDelivered`, `AllRead`, `ReaderFinishes`, `StagesStop` and `OrderlyShutdown`.
They rest on fairness, which is stated with ENABLED and out of the prover's reach. The prover has no induction over
data either, so where a recursive function had to be computed for every length (stripping a name, flattening the
lines of a file) the proof takes the least counterexample of a set of numbers (`WFMin`) and refutes it.

## Not modelled

Values of characters: `dLUT`, `ASCII_CHARS` and `double_digit_hex_strtoi` are left out, since bits and bytes are
known by their place. Bytes that `readHeader`, `readSentence` and `processNmeaData` read past the end of the
buffer, where an earlier read may have left something. What lies behind the table and behind a stored sentence, and
ids left over from an earlier sentence. Pixels: the projection is floating point, and of the image the model keeps how many
payloads it shows. The destruction of globals. The look-ups of navigation status and navigation aids, which are like
those of the vessel classes. `tiff.h`: output through libtiff.

## Plan

Done in this order: the queue and its promise; the pipeline, whose ends are the hardest part; the assembler; the
reader; the payload decoder; the memory of the chunks; checksum and stored sentence; the look-ups.

Next, by importance:

1. The step from three instances of `BlockingQueue` to the bounded sequences of `Pipeline`.
2. `NmeaReader`: stale bytes behind the end of the buffer, ids of sentences that leave the field empty.
3. `PayloadDecoder`: the characters of `getString`.
4. The image: the order of plotting, scaling and writing of pixels, with their 16-bit wrap.
