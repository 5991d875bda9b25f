---------------------------- MODULE NmeaReader -----------------------------
(***************************************************************************)
(* readFragments and readFromFile of src/ais_reader/main.cpp with          *)
(* processNmeaData (processing.h), readHeader and readSentence (decoder.h):*)
(* a file is read through a buffer, cut into sentences wherever the buffer *)
(* ends, and what could not be used is kept for the next read.             *)
(*                                                                         *)
(* The file is a sequence of tokens, one for each part of a line that the  *)
(* end of the buffer can fall behind; from the checksum on ("*hh" and the  *)
(* line end) a token is one byte, because there the code counts bytes.     *)
(* One pass through the loop of processNmeaData is one step.               *)
(* Mut... definitions: see the README, "Mutants".                          *)
(***************************************************************************)
EXTENDS Integers, Sequences, SequencesExt

CONSTANTS Shapes,       \* shapes of line that occur in the file
          LineEnd,      \* <<"cr", "lf">> or <<"lf">>
          MaxLines,     \* bound: lines in the file
          BufferSize,   \* tokens nmeaData holds (64K bytes in the code)
          ChunkSize,    \* AIS_CHUNK_SIZE (512 in the code)
          HeaderTime    \* where the header of line i, if it has one, gives the time

Header   == <<"hdr", "hdrEnd">>                  \* \c:1609459200,s:r3*hh\
Sentence == <<"talker", "payload", "*", "hi", "lo">>
Line == [plain  |-> <<"!">> \o Sentence \o LineEnd,
         tagged |-> Header \o <<"!">> \o Sentence \o LineEnd,
         other  |-> <<"text">> \o LineEnd,       \* not a VDM or VDO sentence
         long   |-> [i \in 1 .. BufferSize + 1 - Len(LineEnd) |-> "text"] \o LineEnd]

\* What readHeader gets out of a header: is m_uTimestamp set?  "c:" is the last
\* field: there is no ',' behind it, from_chars is given a null end, and whether it
\* reads the digits depends on the library (libstdc++ does, up to the '*').
TimeRead == [field |-> {TRUE},       \* c:1609459200,
             last  |-> BOOLEAN,      \* c:1609459200*hh
             none  |-> {FALSE}]      \* no c:

ASSUME ReaderAssumption ==
  /\ Shapes \subseteq DOMAIN Line
  /\ LineEnd \in {<<"cr", "lf">>, <<"lf">>}
  /\ MaxLines \in Nat /\ ChunkSize \in Nat \ {0} /\ BufferSize \in Nat \ {0}
  /\ HeaderTime \in [1 .. MaxLines -> DOMAIN TimeRead]

VARIABLES lines,     \* shapes of the lines of the file; never changes
          exists,    \* can the file be opened? never changes
          pos,       \* tokens of the file read so far
          feof,      \* end-of-file flag of fin
          nmeaData,  \* the buffer: tokens of the file up to pos
          pData,     \* tokens of nmeaData processed in this call
          chunk,     \* fragments in the chunk being filled
          out,       \* chunks pushed to fragmentQueue
          cuts,      \* history: where in the file the buffer has ended
          pc

vars == <<lines, exists, pos, feof, nmeaData, pData, chunk, out, cuts, pc>>

\* A fragment: the line it came from, and whether it got that line's timestamp.
Fragment == [line : 1 .. MaxLines, stamped : BOOLEAN]

\* The tokens of lines 1 to k, and the file.
Tokens(k) == FlattenSeq([i \in 1 .. k |-> [j \in DOMAIN Line[lines[i]] |->
                          [kind |-> Line[lines[i]][j], line |-> i]]])
File == Tokens(Len(lines))

Kind(i) == IF i < Len(nmeaData) THEN nmeaData[i + 1].kind ELSE "none"   \* i from 0
Skip(i, kind) == IF Kind(i) = kind THEN i + 1 ELSE i
-----------------------------------------------------------------------------
\* fread fills the buffer; it sets the flag when the file has less to give, so
\* never when the buffer is full.  While fin is null there is no fread, and fopen
\* is tried again by the next call.
Read ==
  /\ pc = "read" /\ ~feof
  /\ LET room == BufferSize - Len(nmeaData)
         rest == IF exists THEN Len(File) - pos ELSE 0
         n    == IF room <= rest THEN room ELSE rest
     IN  /\ nmeaData' = nmeaData \o SubSeq(File, pos + 1, pos + n)
         /\ pos' = pos + n
         /\ feof' = (exists /\ n < room)
         /\ cuts' = cuts \cup {pos + n}
  /\ pData' = 0
  /\ pc' = "process"
  /\ UNCHANGED <<lines, exists, chunk, out>>

\* The call after the one that met the end of the file: false, "finished".
Finish ==
  /\ pc = "read" /\ feof
  /\ pc' = "finished"
  /\ UNCHANGED <<lines, exists, pos, feof, nmeaData, pData, chunk, out, cuts>>

\* readHeader: past a complete header, or nothing.
HeaderEnd(i) == IF Kind(i) = "hdr" /\ Kind(i + 1) = "hdrEnd" THEN i + 2 ELSE i

MutStamps(i) ==                          \* not cleared in a recycled chunk
  IF out # <<>> THEN {TRUE}
  ELSE IF HeaderEnd(i) = i THEN {FALSE} ELSE TimeRead[HeaderTime[nmeaData[i + 1].line]]
\* m_uTimestamp is cleared first, and set from a header that has the time.
Stamps(i) == IF HeaderEnd(i) = i THEN {FALSE} ELSE TimeRead[HeaderTime[nmeaData[i + 1].line]]

\* readSentence from i: the tokens of a sentence whose checksum is followed by
\* two more bytes at least, or 0.
MutSentenceSize(i) == IF Kind(i) = "talker" THEN Len(Sentence) ELSE 0
SentenceSize(i) ==
  IF /\ Kind(i) = "talker" /\ Kind(i + 1) = "payload"
     /\ ~ (i + 2 + 4 >= Len(nmeaData))
  THEN Len(Sentence) ELSE 0

Start(i) == Skip(Skip(HeaderEnd(i), "!"), "$")

\* Chunk: push_back on a full chunk would overwrite the last fragment.
MutFull(c) == Len(c) > ChunkSize         \* off by one
full(c) == Len(c) >= ChunkSize
push_back(c, f) == IF full(c) THEN Append(Front(c), f) ELSE Append(c, f)

\* The fragment is added to the chunk, and the chunk output if it is full.
Output(f) ==
  LET filled == push_back(chunk, f)
  IN  IF full(filled)
      THEN out' = Append(out, filled) /\ chunk' = <<>>
      ELSE chunk' = filled /\ UNCHANGED out

\* A sentence: skip its line end and output it.
ReadLine ==
  /\ pc = "process" /\ pData < Len(nmeaData)
  /\ SentenceSize(Start(pData)) > 0
  /\ LET s == Start(pData)
     IN  /\ pData' = Skip(Skip(s + SentenceSize(s), "cr"), "lf")
         /\ \E stamped \in Stamps(pData) :
              Output([line |-> nmeaData[s + 1].line, stamped |-> stamped])
  /\ UNCHANGED <<lines, exists, pos, feof, nmeaData, cuts, pc>>

LineFeeds(i) == {j \in i .. Len(nmeaData) - 1 : Kind(j) = "lf"}

\* No sentence: the fragment is dropped, and the rest of the line is skipped if
\* the buffer holds its end.
SkipLine ==
  /\ pc = "process" /\ pData < Len(nmeaData)
  /\ LET s == Start(pData)
     IN  /\ SentenceSize(s) = 0
         /\ LineFeeds(s) # {}
         /\ pData' = 1 + Min(LineFeeds(s))
  /\ UNCHANGED <<lines, exists, pos, feof, nmeaData, chunk, out, cuts, pc>>

\* Otherwise the loop ends; the header and "!" before the sentence are used up.
BreakLine ==
  /\ pc = "process" /\ pData < Len(nmeaData)
  /\ LET s == Start(pData)
     IN  /\ SentenceSize(s) = 0
         /\ LineFeeds(s) = {}
         /\ pData' = s
  /\ pc' = "return"
  /\ UNCHANGED <<lines, exists, pos, feof, nmeaData, chunk, out, cuts>>

MutKeep(n) == IF n > 0 THEN SubSeq(nmeaData, n + 2, Len(nmeaData)) ELSE nmeaData
\* The unused tokens move to the front of the buffer.
Keep(n) == IF n > 0 THEN SubSeq(nmeaData, n + 1, Len(nmeaData)) ELSE nmeaData

\* Output the last chunk unless it is empty; keep what was not processed.
Return ==
  /\ pc = "return" \/ (pc = "process" /\ pData >= Len(nmeaData))
  /\ out' = IF chunk = <<>> THEN out ELSE Append(out, chunk)
  /\ chunk' = <<>>
  /\ nmeaData' = Keep(pData)
  /\ pData' = 0
  /\ pc' = "read"
  /\ UNCHANGED <<lines, exists, pos, feof, cuts>>

Init ==
  /\ lines \in UNION {[1 .. n -> Shapes] : n \in 0 .. MaxLines}
  /\ exists \in BOOLEAN
  /\ pos = 0 /\ feof = FALSE
  /\ nmeaData = <<>> /\ pData = 0
  /\ chunk = <<>> /\ out = <<>> /\ cuts = {}
  /\ pc = "read"

Next == Read \/ Finish \/ ReadLine \/ SkipLine \/ BreakLine \/ Return

Spec == Init /\ [][Next]_vars

\* The thread runs: every step is the only one it can take.
FairSpec == Spec /\ WF_vars(Next)
-----------------------------------------------------------------------------
TypeOK ==
  /\ lines \in Seq(Shapes) /\ Len(lines) <= MaxLines /\ exists \in BOOLEAN
  /\ pos \in 0 .. Len(File) /\ feof \in BOOLEAN
  /\ Len(nmeaData) <= BufferSize
  /\ pData \in 0 .. Len(nmeaData)
  /\ chunk \in Seq(Fragment) /\ out \in Seq(Seq(Fragment))
  /\ cuts \subseteq 0 .. pos
  /\ pc \in {"read", "process", "return", "finished"}

Fragments == FlattenSeq(out) \o chunk
IsSentence(k) == lines[k] \in {"plain", "tagged"}

\* The tokens of the file that have been used up: all but the buffer's rest.
Used == pos - (Len(nmeaData) - pData)

\* Wherever the buffer happened to end, every sentence whose line has been used
\* up has become a fragment, once, and in the order of the file.
NothingDropped ==
  LET lineNo == [i \in DOMAIN Fragments |-> Fragments[i].line]
      usedUp == {k \in 1 .. Len(lines) : IsSentence(k) /\ Len(Tokens(k)) <= Used}
  IN  /\ ToSet(lineNo) = usedUp
      /\ \A i, j \in DOMAIN lineNo : i < j => lineNo[i] < lineNo[j]

\* Chunks in the queue are neither empty nor too long.
ChunksWellFormed == \A i \in DOMAIN out : Len(out[i]) \in 1 .. ChunkSize

\* The reader comes to the end of a file that can be opened and whose lines fit
\* the buffer, and has then output every sentence.  (Of the other files it never
\* finds the end: readFromFile is called for ever.)
LinesFit == \A k \in 1 .. Len(lines) : Len(Line[lines[k]]) <= BufferSize
AllRead ==
  exists /\ LinesFit =>
  <>(/\ pc = "finished"
     /\ {f.line : f \in ToSet(FlattenSeq(out))} = {k \in 1 .. Len(lines) : IsSentence(k)})

\* A fragment has a timestamp only if its own line is tagged with one, and then it
\* has it unless the buffer ended behind the line's header and before the line's
\* end, or the time is the header's last field.
\* (The header is then used up and the sentence read again without it, although
\* main.cpp:69 says "keep dropped data for next read".)
Cut(k) == \E c \in cuts : Len(Tokens(k - 1)) + Len(Header) <= c /\ c < Len(Tokens(k))
TimestampsKept ==
  \A i \in DOMAIN Fragments :
    LET k == Fragments[i].line
    IN  /\ Fragments[i].stamped => lines[k] = "tagged" /\ HeaderTime[k] # "none"
        /\ lines[k] = "tagged" /\ HeaderTime[k] = "field" /\ ~Cut(k) => Fragments[i].stamped
=============================================================================
