------------------------ MODULE ParakeetChunksProofs ------------------------
(***************************************************************************)
(* Proofs about the chunked recognition of Parakeet, as a task uses it:    *)
(* that the recording is heard once from end to end, that the words lie in *)
(* their windows and in the order of time, and that no chunk file stays,   *)
(* for recordings and windows of any length and over deaths.               *)
(***************************************************************************)
EXTENDS Transcription, FiniteSetTheorems, TLAPS

\* The variables of the loop, and their types.
LEMMA ChunkTypes ==
  ASSUME ChunksTypeOK
  PROVE  /\ duration \in Nat /\ duration <= MaxDuration /\ MaxDuration \in Nat
         /\ chunkSec \in Nat /\ chunkSec >= 1
         /\ start \in Nat /\ segment_id \in Nat
         /\ heard \in Seq(Windows) /\ all_words \in Seq(Word)
         /\ \A w \in Windows : w.from \in Nat /\ w.length \in Nat
         /\ deaths \in Nat
<1>1. MaxDuration \in Nat /\ ChunkSettings \subseteq Nat \ {0}
  BY ChunksAssumption
<1>2. /\ duration \in Nat /\ duration <= MaxDuration
      /\ start \in Nat /\ segment_id \in Nat /\ deaths \in Nat
  BY <1>1, ChunksAssumption DEF ChunksTypeOK, Times, Ids
<1>3. chunkSec \in Nat /\ chunkSec >= 1
  BY <1>1 DEF ChunksTypeOK
<1>4. heard \in Seq(Windows) /\ all_words \in Seq(Word)
  BY DEF ChunksTypeOK
<1>5. \A w \in Windows : w.from \in Nat /\ w.length \in Nat
  BY <1>1 DEF Windows, Times
<1> QED
  BY <1>1, <1>2, <1>3, <1>4, <1>5

\* Whatever the task does, Parakeet goes on or waits.
LEMMA ChunkMoves ==
  ASSUME [Next]_vars
  PROVE  ChunksNext \/ UNCHANGED chunkVars
  BY DEF Next, Parakeet, WordsOfParakeet, WordsOfWhisper, Diarize, EngineRaises, Align, vars

----------------------------------------------------------------------------
(* The words of one window.                                                *)

\* These words were heard in a window from offset on, one after the other.
HeardIn(ws, offset, length, id) ==
  /\ ws \in Seq(Word)
  /\ \A i \in DOMAIN ws :
       /\ offset <= ws[i].start /\ ws[i].start <= ws[i].end /\ ws[i].end <= offset + length
       /\ ws[i].segment_id = id
  /\ \A i \in 1 .. Len(ws) - 1 : ws[i].end <= ws[i + 1].start

\* Stamps of both units are times in the audio.
LEMMA StampTyped ==
  ASSUME NEW length \in Nat, NEW stamp \in Stamps(length)
  PROVE  /\ Seconds(stamp).start \in Nat /\ Seconds(stamp).end \in Nat
         /\ Seconds(stamp).start <= Seconds(stamp).end /\ Seconds(stamp).end <= length
<1>1. /\ stamp.unit \in {"seconds", "offsets"} /\ stamp.start \in Nat /\ stamp.end \in Nat
      /\ stamp.start <= stamp.end /\ Seconds(stamp).end <= length
  BY DEF Stamps
<1>2. Stride \in Nat
  BY OutputsAssumption
<1>3. /\ stamp.start * Stride \in Nat /\ stamp.end * Stride \in Nat
      /\ stamp.start * Stride <= stamp.end * Stride
  BY <1>1, <1>2
<1> QED
  BY <1>1, <1>3 DEF Seconds

\* The words made of the stamps of a window lie in it.
LEMMA StampWords ==
  ASSUME NEW length \in Nat, NEW stamps \in StampSeqs(length), NEW offset \in Nat, NEW id \in Nat
  PROVE  HeardIn(WordsFromStamps(stamps, offset, id), offset, length, id)
<1> DEFINE ws == WordsFromStamps(stamps, offset, id)
<1>1. PICK n \in 0 .. MaxWords : stamps \in [1 .. n -> Stamps(length)]
  BY DEF StampSeqs, SeqsUpTo
<1>2. n \in Nat /\ Len(stamps) = n
  BY <1>1, OutputsAssumption
<1>3. ws = [i \in 1 .. n |-> [start |-> offset + Seconds(stamps[i]).start,
                               end |-> offset + Seconds(stamps[i]).end, segment_id |-> id]]
  BY <1>1 DEF WordsFromStamps, WordAt
<1>4. \A i \in 1 .. n : /\ Seconds(stamps[i]).start \in Nat /\ Seconds(stamps[i]).end \in Nat
                        /\ Seconds(stamps[i]).start <= Seconds(stamps[i]).end
                        /\ Seconds(stamps[i]).end <= length
  BY <1>1, StampTyped
<1>5. ws \in [1 .. n -> Word]
  BY <1>3, <1>4 DEF Word
<1>6. ws \in Seq(Word) /\ DOMAIN ws = 1 .. n /\ Len(ws) = n
  BY <1>2, <1>5
<1>7. \A i \in DOMAIN ws :
        /\ offset <= ws[i].start /\ ws[i].start <= ws[i].end /\ ws[i].end <= offset + length
        /\ ws[i].segment_id = id
  BY <1>3, <1>4, <1>6
<1>8. \A i \in 1 .. n - 1 : Seconds(stamps[i]).end <= Seconds(stamps[i + 1]).start
  <2> DEFINE spans == [i \in DOMAIN stamps |-> Seconds(stamps[i])]
  <2>1. OneAfterAnother(spans) /\ Len(spans) = n /\ \A i \in 1 .. n : spans[i] = Seconds(stamps[i])
    BY <1>1, <1>2 DEF StampSeqs
  <2> HIDE DEF spans
  <2> QED
    BY <1>2, <2>1 DEF OneAfterAnother
<1>9. \A i \in 1 .. Len(ws) - 1 : ws[i].end <= ws[i + 1].start
  BY <1>2, <1>3, <1>4, <1>6, <1>8
<1> QED
  BY <1>6, <1>7, <1>9 DEF HeardIn

\* What the recogniser makes of a window.
LEMMA TranscribeHears ==
  ASSUME NEW window \in [from : Nat, length : Nat], NEW offset \in Nat, NEW id \in Nat,
         Transcribe(window, offset, id)
  PROVE  /\ heard' = Append(heard, window)
         /\ \E ws \in Seq(Word) : /\ HeardIn(ws, offset, window.length, id)
                                  /\ all_words' = all_words \o ws
<1>1. ASSUME NEW stamps \in StampSeqs(window.length)
      PROVE  HeardIn(WordsFromStamps(stamps, offset, id), offset, window.length, id)
  BY <1>1, StampWords
<1>2. HeardIn(WholeAsWord(window, offset, id), offset, window.length, id)
  BY DEF HeardIn, WholeAsWord, WordAt, Word
<1> QED
  BY <1>1, <1>2 DEF Transcribe, HeardIn

----------------------------------------------------------------------------
(* The windows and the loop.                                               *)

\* What Append and concatenation do, for sequences over any set.
LEMMA AppendLast ==
  ASSUME NEW S, NEW s \in Seq(S), NEW e \in S
  PROVE  /\ Append(s, e) \in Seq(S) /\ Append(s, e) # <<>> /\ Last(Append(s, e)) = e
         /\ Len(Append(s, e)) = Len(s) + 1
         /\ \A i \in 1 .. Len(s) : Append(s, e)[i] = s[i]
         /\ Append(s, e)[Len(s) + 1] = e
         /\ <<e>> \in Seq(S) /\ \A r \in Seq(S) : s \o r \in Seq(S)
  BY DEF Last

\* One more window is heard, and more words.
LEMMA HeardAppended ==
  ASSUME ChunksTypeOK, NEW w \in Windows
  PROVE  /\ Append(heard, w) \in Seq(Windows) /\ Append(heard, w) # <<>>
         /\ Last(Append(heard, w)) = w /\ Len(Append(heard, w)) = Len(heard) + 1
         /\ \A i \in 1 .. Len(heard) : Append(heard, w)[i] = heard[i]
         /\ Append(heard, w)[Len(heard) + 1] = w
         /\ <<w>> \in Seq(Windows)
         /\ \A ws \in Seq(Word) : all_words \o ws \in Seq(Word)
<1>1. heard \in Seq(Windows) /\ all_words \in Seq(Word)
  BY DEF ChunksTypeOK
<1> QED
  BY <1>1, AppendLast

\* The next window is not empty, and ends in the recording.
LEMMA WindowFits ==
  ASSUME ChunksTypeOK, start < duration
  PROVE  /\ ChunkDur \in Nat /\ ChunkDur >= 1 /\ ChunkDur <= chunkSec
         /\ start + ChunkDur <= duration
         /\ Window(start, ChunkDur) \in Windows
<1>1. /\ ChunkDur \in Nat /\ ChunkDur >= 1 /\ ChunkDur <= chunkSec
      /\ start + ChunkDur <= duration
  BY ChunkTypes DEF ChunkDur
<1>2. start \in Times
  BY DEF ChunksTypeOK
<1> QED
  BY <1>1, <1>2 DEF Window, Windows

\* The step over a chunk, as the loop and the recogniser see it.
LEMMA ChunkHeard ==
  ASSUME ChunksTypeOK, LoopKnown, TranscribeChunk
  PROVE  /\ heard' = Append(heard, Window(start, ChunkDur))
         /\ start' = start + ChunkDur /\ segment_id' = segment_id + 1 /\ pc' = "loop"
         /\ start < duration
         /\ UNCHANGED <<duration, chunkSec, deaths>>
         /\ \E ws \in Seq(Word) : /\ HeardIn(ws, start, ChunkDur, segment_id)
                                  /\ all_words' = all_words \o ws
<1>1. /\ start < duration /\ files[segment_id] = Window(start, ChunkDur)
      /\ start' = start + ChunkDur /\ segment_id' = segment_id + 1 /\ pc' = "loop"
      /\ UNCHANGED <<duration, chunkSec, deaths>>
      /\ Transcribe(Window(start, ChunkDur), start, segment_id)
  BY DEF TranscribeChunk, LoopKnown, TimeOffset
<1>2. /\ Window(start, ChunkDur) \in [from : Nat, length : Nat]
      /\ Window(start, ChunkDur).length = ChunkDur
  BY <1>1, WindowFits, ChunkTypes DEF Window
<1>3. start \in Nat /\ segment_id \in Nat
  BY ChunkTypes
<1>4. /\ heard' = Append(heard, Window(start, ChunkDur))
      /\ \E ws \in Seq(Word) : /\ HeardIn(ws, start, Window(start, ChunkDur).length, segment_id)
                               /\ all_words' = all_words \o ws
  BY <1>1, <1>2, <1>3, TranscribeHears
<1> QED
  BY <1>1, <1>2, <1>4

\* A recording that fits into one window.
LEMMA WholeHeard ==
  ASSUME ChunksTypeOK, LoopKnown, TranscribeWhole
  PROVE  /\ heard' = <<Window(0, duration)>> /\ duration <= chunkSec /\ pc' = "returned"
         /\ Window(0, duration) \in Windows
         /\ UNCHANGED <<duration, chunkSec, start, segment_id, files, deaths>>
         /\ all_words' \in Seq(Word) /\ HeardIn(all_words', 0, duration, 0)
<1>1. /\ heard = <<>> /\ all_words = <<>> /\ duration <= chunkSec
      /\ Transcribe(Window(0, duration), 0, 0)
      /\ pc' = "returned" /\ UNCHANGED <<duration, chunkSec, start, segment_id, files, deaths>>
  BY DEF TranscribeWhole, LoopKnown, positionVars
<1>2. /\ Window(0, duration) \in [from : Nat, length : Nat] /\ Window(0, duration) \in Windows
      /\ Window(0, duration).length = duration
  BY ChunkTypes DEF Window, Windows, Times
<1>3. heard' = Append(heard, Window(0, duration))
  BY <1>1, <1>2, TranscribeHears
<1>4. PICK ws \in Seq(Word) : HeardIn(ws, 0, duration, 0) /\ all_words' = all_words \o ws
  BY <1>1, <1>2, TranscribeHears
<1>5. all_words' = ws
  BY <1>1, <1>4
<1> QED
  BY <1>1, <1>2, <1>3, <1>4, <1>5

\* The types of the chunked recognition.
LEMMA ChunksTyped ==
  ASSUME ChunksTypeOK, LoopKnown, ChunksNext \/ UNCHANGED chunkVars
  PROVE  ChunksTypeOK'
<1> USE ChunkTypes
<1>1. CASE Begin \/ Return \/ Raise \/ Die
  <2>1. NoFiles \in [Ids -> Windows \cup {NoFile}]
    BY DEF NoFiles
  <2>2. MaxDeaths \in Nat /\ 0 \in Times /\ 0 \in Ids /\ <<>> \in Seq(Windows) /\ <<>> \in Seq(Word)
    BY ChunksAssumption DEF Times, Ids
  <2>3. CASE Begin
    BY <2>3 DEF Begin, ChunksTypeOK, positionVars
  <2>4. CASE Return \/ Raise
    BY <2>1, <2>2, <2>4 DEF Return, Raise, AfterFailure, ChunksTypeOK, positionVars
  <2>5. CASE Die
    <3>1. deaths' \in 0 .. MaxDeaths
      BY <2>2, <2>5 DEF Die, ChunksTypeOK
    <3> QED
      BY <2>2, <2>5, <3>1 DEF Die, ChunksTypeOK
  <2> QED
    BY <1>1, <2>3, <2>4, <2>5
<1>2. CASE TranscribeWhole
  <2>1. heard' \in Seq(Windows)
    BY <1>2, WholeHeard, HeardAppended
  <2> QED
    BY <1>2, <2>1, WholeHeard DEF ChunksTypeOK
<1>3. CASE Extract
  <2>1. start < duration /\ files' = [files EXCEPT ![segment_id] = Window(start, ChunkDur)]
        /\ pc' = "chunk" /\ UNCHANGED <<duration, chunkSec, start, segment_id, heard, all_words, deaths>>
    BY <1>3 DEF Extract, CutWindow, positionVars
  <2>2. Window(start, ChunkDur) \in Windows
    BY <2>1, WindowFits
  <2> QED
    BY <2>1, <2>2 DEF ChunksTypeOK
<1>4. CASE TranscribeChunk
  <2>1. Window(start, ChunkDur) \in Windows /\ start + ChunkDur \in Times
        /\ segment_id + 1 \in Ids
    <3>1. start < duration /\ segment_id <= start
      BY <1>4, ChunkHeard DEF LoopKnown, TranscribeChunk
    <3> QED
      BY <3>1, WindowFits DEF Times, Ids
  <2>2. all_words' \in Seq(Word)
    BY <1>4, <2>1, ChunkHeard, HeardAppended
  <2>3. files' \in [Ids -> Windows \cup {NoFile}]
    BY <1>4 DEF TranscribeChunk, ChunksTypeOK
  <2>4. heard' \in Seq(Windows)
    BY <1>4, <2>1, ChunkHeard, HeardAppended
  <2> QED
    BY <1>4, <2>1, <2>2, <2>3, <2>4, ChunkHeard DEF ChunksTypeOK
<1>5. CASE UNCHANGED chunkVars
  BY <1>5 DEF chunkVars, positionVars, ChunksTypeOK
<1> QED
  BY <1>1, <1>2, <1>3, <1>4, <1>5 DEF ChunksNext

\* The loop goes on where the last window ended.
LEMMA LoopStep ==
  ASSUME ChunksTypeOK, LoopKnown, ChunksNext \/ UNCHANGED chunkVars
  PROVE  LoopKnown'
<1> USE ChunkTypes DEF LoopKnown
<1>1. CASE Begin
  BY <1>1 DEF Begin, positionVars
<1>2. CASE TranscribeWhole
  BY <1>2, WholeHeard
<1>3. CASE Extract
  <2>1. segment_id \in DOMAIN files
    BY DEF ChunksTypeOK
  <2>2. ChunkDur' = ChunkDur
    BY <1>3 DEF Extract, ChunkDur, positionVars
  <2>3. /\ start < duration /\ pc = "loop" /\ pc' = "chunk"
        /\ files' = [files EXCEPT ![segment_id] = Window(start, ChunkDur)]
        /\ UNCHANGED <<duration, chunkSec, start, segment_id, heard, all_words, deaths>>
    BY <1>3 DEF Extract, CutWindow, positionVars
  <2>4. files'[segment_id] = Window(start, ChunkDur)
    BY <2>1, <2>3 DEF ChunksTypeOK
  <2>5. Window(start, ChunkDur)' = Window(start, ChunkDur)
    BY <2>2, <2>3 DEF Window
  <2> QED
    BY <2>3, <2>4, <2>5
<1>4. CASE TranscribeChunk
  <2>1. start < duration /\ Window(start, ChunkDur) \in Windows /\ ChunkDur \in Nat
    BY <1>4, ChunkHeard, WindowFits
  <2>2. /\ Last(heard') = Window(start, ChunkDur) /\ heard' # <<>>
        /\ Len(heard') = Len(heard) + 1
    BY <1>4, <2>1, ChunkHeard, HeardAppended
  <2>3. End(Window(start, ChunkDur)) = start + ChunkDur
    BY DEF End, Window
  <2>4. End(Last(heard')) = start + ChunkDur
    BY <2>2, <2>3
  <2>5. End(Last(heard))' = start + ChunkDur
    BY <2>4 DEF End, Last
  <2>6. /\ pc = "chunk" /\ pc' = "loop" /\ duration > chunkSec /\ duration > 0
        /\ segment_id = Len(heard) /\ segment_id <= start
        /\ start' = start + ChunkDur /\ segment_id' = segment_id + 1
        /\ UNCHANGED <<duration, chunkSec>>
    BY <1>4, ChunkHeard DEF TranscribeChunk
  <2>7. ChunkDur >= 1 /\ start + ChunkDur <= duration
    BY <2>1, WindowFits
  <2>8. segment_id' <= start' /\ start' <= duration'
    BY <2>1, <2>6, <2>7
  <2> QED
    BY <2>2, <2>5, <2>6, <2>8
<1>5. CASE Return \/ Raise
  BY <1>5 DEF Return, Raise
<1>6. CASE Die
  BY <1>6 DEF Die
<1>7. CASE UNCHANGED chunkVars
  BY <1>7 DEF chunkVars, positionVars, ChunkDur
<1> QED
  BY <1>1, <1>2, <1>3, <1>4, <1>5, <1>6, <1>7 DEF ChunksNext

\* Steps that hear nothing.
LEMMA QuietMoves ==
  ASSUME ChunksTypeOK, LoopKnown, ChunksNext \/ UNCHANGED chunkVars
  PROVE  \/ TranscribeWhole \/ TranscribeChunk
         \/ /\ UNCHANGED <<duration, chunkSec, start, heard, all_words>>
            /\ pc' \in {"loop", "chunk"} => pc \in {"loop", "chunk"} \/ pc = "idle"
            /\ pc' = "returned" => Return \/ pc = "returned"
         \/ heard' = <<>> /\ all_words' = <<>> /\ pc' = "idle"
<1>1. CASE Begin \/ Extract \/ Return \/ Raise
  BY <1>1 DEF Begin, Extract, Return, Raise, positionVars
<1>2. CASE Die
  BY <1>2 DEF Die
<1>3. CASE UNCHANGED chunkVars
  BY <1>3 DEF chunkVars, positionVars
<1> QED
  BY <1>1, <1>2, <1>3 DEF ChunksNext

\* Each window begins where the one before it ended.
LEMMA HearsStep ==
  ASSUME ChunksTypeOK, LoopKnown, HearsEverythingOnce, ChunksNext \/ UNCHANGED chunkVars
  PROVE  HearsEverythingOnce'
<1> USE ChunkTypes
<1>1. CASE TranscribeWhole
  <2>1. Window(0, duration) \in Windows /\ heard' = <<Window(0, duration)>>
    BY <1>1, WholeHeard
  <2>2. Len(heard') = 1 /\ heard'[1] = Window(0, duration) /\ Last(heard') = heard'[1]
    BY <2>1 DEF Last
  <2> QED
    BY <1>1, <2>1, <2>2, WholeHeard DEF HearsEverythingOnce, Window, End
<1>2. CASE TranscribeChunk
  <2> DEFINE w == Window(start, ChunkDur)
             n == Len(heard)
  <2>1. w \in Windows /\ w.from = start /\ w.length <= chunkSec
    BY <1>2, ChunkHeard, WindowFits DEF Window
  <2>2. /\ heard' \in Seq(Windows) /\ Len(heard') = n + 1 /\ heard'[n + 1] = w
        /\ \A i \in 1 .. n : heard'[i] = heard[i]
    <3>1. heard' = Append(heard, w)
      BY <1>2, ChunkHeard
    <3> HIDE DEF w
    <3> QED
      BY <2>1, <3>1, HeardAppended
  <2>3. start = IF n = 0 THEN 0 ELSE End(heard[n])
    BY <1>2 DEF TranscribeChunk, LoopKnown, Last
  <2>4. chunkSec' = chunkSec /\ pc' = "loop" /\ n \in Nat
    BY <1>2, ChunkHeard
  <2> HIDE DEF w
  <2>5. ASSUME NEW i \in DOMAIN heard'
        PROVE  /\ heard'[i].from = IF i = 1 THEN 0 ELSE End(heard'[i - 1])
               /\ heard'[i].length <= chunkSec
    <3>1. CASE i = n + 1
      <4>1. i # 1 => n \in 1 .. n /\ i - 1 = n
        BY <2>4, <3>1
      <4>2. heard'[i].from = start /\ heard'[i].length <= chunkSec
        BY <2>1, <2>2, <3>1
      <4>3. i = 1 => n = 0
        BY <2>4, <3>1
      <4>4. i # 1 => n # 0 /\ heard'[i - 1] = heard[n]
        BY <2>2, <4>1
      <4> QED
        BY <2>3, <4>2, <4>3, <4>4
    <3>2. CASE i \in 1 .. n
      <4>1. i # 1 => i - 1 \in 1 .. n
        BY <2>4, <3>2
      <4>2. i \in DOMAIN heard
        BY <2>4, <3>2
      <4>3. /\ heard[i].from = IF i = 1 THEN 0 ELSE End(heard[i - 1])
            /\ heard[i].length <= chunkSec
        BY <4>2 DEF HearsEverythingOnce
      <4> QED
        BY <2>2, <3>2, <4>1, <4>3
    <3> QED
      BY <2>2, <2>4, <2>5, <3>1, <3>2
  <2> QED
    BY <2>4, <2>5 DEF HearsEverythingOnce, End
<1>3. CASE /\ UNCHANGED <<duration, chunkSec, start, heard, all_words>>
           /\ pc' = "returned" => Return \/ pc = "returned"
  <2>1. Return => heard # <<>> /\ End(Last(heard)) = duration
    BY DEF Return, LoopKnown
  <2> QED
    BY <1>3, <2>1 DEF HearsEverythingOnce, End, Last
<1>4. CASE heard' = <<>> /\ pc' = "idle"
  BY <1>4 DEF HearsEverythingOnce
<1> QED
  BY <1>1, <1>2, <1>3, <1>4, QuietMoves

\* Where the elements of a concatenation come from.
LEMMA Joined ==
  ASSUME NEW S, NEW s \in Seq(S), NEW r \in Seq(S)
  PROVE  /\ Len(s \o r) = Len(s) + Len(r)
         /\ \A i \in 1 .. Len(s) : (s \o r)[i] = s[i]
         /\ \A i \in 1 .. Len(r) : (s \o r)[Len(s) + i] = r[i]
         /\ \A i \in DOMAIN (s \o r) : i \in DOMAIN s \/ i - Len(s) \in DOMAIN r
  OBVIOUS

\* The words of a chunk come after those of the chunks before it.
LEMMA WordsStep ==
  ASSUME ChunksTypeOK, LoopKnown, WordsBehind, WordsInTheirWindow,
         ChunksNext \/ UNCHANGED chunkVars
  PROVE  WordsBehind' /\ WordsInTheirWindow'
<1>0. start \in Nat /\ heard \in Seq(Windows) /\ all_words \in Seq(Word)
  BY ChunkTypes
<1>1. CASE TranscribeWhole
  <2>1. duration \in Nat /\ Window(0, duration) \in Windows /\ heard' = <<Window(0, duration)>> /\ pc' = "returned"
        /\ all_words' \in Seq(Word) /\ HeardIn(all_words', 0, duration, 0)
    BY <1>1, WholeHeard, ChunkTypes
  <2>2. Len(heard') = 1 /\ heard'[1] = Window(0, duration)
    BY <2>1
  <2>3. \A i \in DOMAIN all_words' : /\ all_words'[i].segment_id = 0
                                     /\ 0 <= all_words'[i].start /\ all_words'[i].end <= duration
                                     /\ all_words'[i].start <= all_words'[i].end
    BY <2>1 DEF HeardIn
  <2>4. \A i \in 1 .. Len(all_words') - 1 :
          i \in DOMAIN all_words' /\ i + 1 \in DOMAIN all_words'
          /\ all_words'[i].end <= all_words'[i + 1].start
    BY <2>1 DEF HeardIn
  <2>5. \A i \in DOMAIN all_words' : heard'[all_words'[i].segment_id + 1] = Window(0, duration)
    BY <2>2, <2>3
  <2>6. Window(0, duration).from = 0 /\ Window(0, duration).from + Window(0, duration).length = duration
    BY <2>1 DEF Window
  <2>7. WordsBehind'
    BY <2>1, <2>2, <2>3 DEF WordsBehind
  <2>8. \A i \in DOMAIN all_words' :
          /\ heard'[all_words'[i].segment_id + 1].from <= all_words'[i].start
          /\ all_words'[i].end <= End(heard'[all_words'[i].segment_id + 1])
    BY <2>3, <2>5, <2>6 DEF End
  <2>9. \A i \in 1 .. Len(all_words') - 1 :
          all_words'[i].segment_id <= all_words'[i + 1].segment_id
    BY <2>3, <2>4
  <2>10. WordsInTheirWindow'
    BY <2>4, <2>8, <2>9 DEF WordsInTheirWindow, End
  <2> QED
    BY <2>7, <2>10
<1>2. CASE TranscribeChunk
  <2> DEFINE w == Window(start, ChunkDur)
             n == Len(heard)
             k == Len(all_words)
  <2>1. /\ start \in Nat /\ w \in Windows /\ w.from = start /\ End(w) = start + ChunkDur /\ ChunkDur \in Nat
        /\ n \in Nat /\ k \in Nat /\ segment_id = n /\ start' = start + ChunkDur /\ pc' = "loop"
    BY <1>0, <1>2, ChunkHeard, WindowFits DEF Window, End, TranscribeChunk, LoopKnown
  <2>2. Len(heard') = n + 1 /\ heard'[n + 1] = w /\ \A i \in 1 .. n : heard'[i] = heard[i]
    <3>1. heard' = Append(heard, w)
      BY <1>2, ChunkHeard
    <3> HIDE DEF w
    <3> QED
      BY <2>1, <3>1, HeardAppended
  <2>3. PICK ws \in Seq(Word) :
          HeardIn(ws, start, ChunkDur, segment_id) /\ all_words' = all_words \o ws
    BY <1>2, ChunkHeard
  <2>4. /\ Len(all_words') = k + Len(ws)
        /\ \A i \in 1 .. k : all_words'[i] = all_words[i]
        /\ \A i \in 1 .. Len(ws) : all_words'[k + i] = ws[i]
        /\ \A i \in DOMAIN all_words' : i \in 1 .. k \/ i - k \in 1 .. Len(ws)
    <3>1. /\ Len(all_words \o ws) = k + Len(ws)
          /\ \A i \in 1 .. k : (all_words \o ws)[i] = all_words[i]
          /\ \A i \in 1 .. Len(ws) : (all_words \o ws)[k + i] = ws[i]
          /\ \A i \in DOMAIN (all_words \o ws) : i \in DOMAIN all_words \/ i - k \in DOMAIN ws
      BY <1>0, Joined
    <3>2. DOMAIN all_words = 1 .. k /\ DOMAIN ws = 1 .. Len(ws)
      BY <1>0
    <3> QED
      BY <2>3, <3>1, <3>2
  <2>5. \A i \in 1 .. Len(ws) : /\ ws[i].segment_id = n /\ ws[i].start >= start
                                /\ ws[i].start <= ws[i].end
                                /\ ws[i].end <= start + ChunkDur
    BY <2>1, <2>3 DEF HeardIn
  <2>10. \A i \in 1 .. Len(ws) - 1 : ws[i].end <= ws[i + 1].start
    BY <2>3 DEF HeardIn
  <2>6. \A i \in 1 .. k :
          /\ all_words[i].segment_id \in Nat /\ all_words[i].segment_id < n
          /\ all_words[i].end \in Nat /\ all_words[i].end <= start
          /\ all_words[i].start <= all_words[i].end
          /\ heard[all_words[i].segment_id + 1].from <= all_words[i].start
          /\ all_words[i].end <= End(heard[all_words[i].segment_id + 1])
    <3>1. ASSUME NEW i \in 1 .. k
          PROVE  i \in DOMAIN all_words /\ all_words[i] \in Word
      BY <1>0, <3>1
    <3>2. pc = "chunk"
      BY <1>2 DEF TranscribeChunk
    <3> QED
      BY <3>1, <3>2 DEF WordsBehind, WordsInTheirWindow, Word
  <2> HIDE DEF w
  <2>9. DOMAIN all_words' \subseteq Nat /\ Len(all_words') \in Nat /\ Len(ws) \in Nat
    BY <1>0, <2>3, Joined
  <2> HIDE DEF n, k
  <2>7. ASSUME NEW i \in DOMAIN all_words'
        PROVE  /\ all_words'[i].segment_id < n + 1 /\ all_words'[i].end <= start + ChunkDur
               /\ all_words'[i].start <= all_words'[i].end
               /\ heard'[all_words'[i].segment_id + 1].from <= all_words'[i].start
               /\ all_words'[i].end <= End(heard'[all_words'[i].segment_id + 1])
    <3>1. CASE i \in 1 .. k
      <4>1. all_words[i].segment_id + 1 \in 1 .. n
        BY <2>1, <2>6, <3>1
      <4>2. all_words'[i] = all_words[i]
        BY <2>4, <3>1
      <4>3. heard'[all_words[i].segment_id + 1] = heard[all_words[i].segment_id + 1]
        BY <2>2, <4>1
      <4>5. /\ all_words[i].segment_id \in Nat /\ all_words[i].segment_id < n
            /\ all_words[i].end \in Nat /\ all_words[i].end <= start
        BY <2>6, <3>1
      <4>6. start \in Nat /\ ChunkDur \in Nat /\ n \in Nat
        BY <2>1
      <4>7. all_words[i].segment_id < n + 1 /\ all_words[i].end <= start + ChunkDur
        BY <4>5, <4>6
      <4>4. /\ all_words[i].segment_id < n + 1 /\ all_words[i].end <= start + ChunkDur
            /\ all_words[i].start <= all_words[i].end
            /\ heard[all_words[i].segment_id + 1].from <= all_words[i].start
            /\ all_words[i].end <= End(heard[all_words[i].segment_id + 1])
        BY <2>6, <3>1, <4>7
      <4> QED
        BY <4>2, <4>3, <4>4
    <3>2. CASE i - k \in 1 .. Len(ws)
      <4>0. i \in Nat
        BY <2>9
      <4>1. all_words'[i] = ws[i - k]
        BY <2>1, <2>4, <3>2, <4>0
      <4> QED
        BY <2>1, <2>2, <2>5, <3>2, <4>1
    <3> QED
      BY <2>4, <3>1, <3>2
  <2>8. ASSUME NEW i \in 1 .. Len(all_words') - 1
        PROVE  /\ all_words'[i].end <= all_words'[i + 1].start
               /\ all_words'[i].segment_id <= all_words'[i + 1].segment_id
    <3>1. CASE i < k
      <4>1. i \in 1 .. k - 1 /\ i \in 1 .. k /\ i + 1 \in 1 .. k
        BY <2>1, <3>1
      <4>2. /\ all_words[i].end <= all_words[i + 1].start
            /\ all_words[i].segment_id <= all_words[i + 1].segment_id
        BY <4>1 DEF k, WordsInTheirWindow
      <4>3. all_words'[i] = all_words[i] /\ all_words'[i + 1] = all_words[i + 1]
        BY <2>4, <4>1
      <4> QED
        BY <4>2, <4>3
    <3>2. CASE i = k
      <4>1. all_words'[i] = all_words[k] /\ all_words'[i + 1] = ws[1] /\ k \in 1 .. k
            /\ 1 \in 1 .. Len(ws)
        BY <2>1, <2>3, <2>4, <2>9, <3>2
      <4>2. ws[1].start \in Nat
        <5>1. ws[1] \in Word
          BY <2>3, <4>1
        <5> QED
          BY <5>1 DEF Word
      <4>3. /\ all_words[k].end <= start /\ all_words[k].end \in Nat /\ all_words[k].segment_id < n
            /\ all_words[k].segment_id \in Nat
            /\ ws[1].segment_id = n /\ start <= ws[1].start
        BY <2>5, <2>6, <4>1
      <4>5. start \in Nat /\ n \in Nat
        BY <2>1
      <4>4. all_words[k].end <= ws[1].start /\ all_words[k].segment_id <= ws[1].segment_id
        BY <4>2, <4>3, <4>5
      <4> QED
        BY <3>2, <4>1, <4>4
    <3>3. CASE i > k
      <4>0. i \in Nat /\ k \in Nat /\ Len(ws) \in Nat /\ i <= k + Len(ws) - 1
        BY <2>1, <2>4, <2>9
      <4>1. i - k \in 1 .. Len(ws) - 1 /\ i - k \in 1 .. Len(ws) /\ (i - k) + 1 \in 1 .. Len(ws)
        BY <3>3, <4>0
      <4>2. all_words'[k + (i - k)] = ws[i - k] /\ all_words'[k + ((i - k) + 1)] = ws[(i - k) + 1]
        BY <2>4, <4>1
      <4>3. k + (i - k) = i /\ k + ((i - k) + 1) = i + 1
        BY <2>1, <2>9
      <4>4. /\ ws[i - k].end <= ws[(i - k) + 1].start
            /\ ws[i - k].segment_id = n /\ ws[(i - k) + 1].segment_id = n
        BY <2>5, <2>10, <4>1
      <4>5. all_words'[i] = ws[i - k] /\ all_words'[i + 1] = ws[(i - k) + 1]
        BY <4>2, <4>3
      <4>6. n \in Nat /\ n <= n
        BY <2>1
      <4> QED
        BY <4>4, <4>5, <4>6
    <3> QED
      BY <2>1, <3>1, <3>2, <3>3
  <2> QED
    BY <2>1, <2>2, <2>7, <2>8 DEF n, k, WordsBehind, WordsInTheirWindow, End
<1>3. CASE /\ UNCHANGED <<duration, chunkSec, start, heard, all_words>>
           /\ pc' \in {"loop", "chunk"} => pc \in {"loop", "chunk"} \/ pc = "idle"
  <2>1. pc = "idle" => all_words = <<>>
    BY DEF LoopKnown
  <2> QED
    BY <1>3, <2>1 DEF WordsBehind, WordsInTheirWindow, End
<1>4. CASE heard' = <<>> /\ all_words' = <<>> /\ pc' = "idle"
  BY <1>4 DEF WordsBehind, WordsInTheirWindow
<1> QED
  BY <1>1, <1>2, <1>3, <1>4, QuietMoves

----------------------------------------------------------------------------
(* The files of the chunks.                                                *)

\* The chunk files are finitely many, so that adding and removing one counts.
LEMMA ChunksFinite ==
  ASSUME ChunksTypeOK
  PROVE  /\ IsFiniteSet(ChunkFiles) /\ Cardinality(ChunkFiles) \in Nat
         /\ \A id : /\ Cardinality(ChunkFiles \cup {id}) \in Nat
                    /\ Cardinality(ChunkFiles \cup {id}) <= Cardinality(ChunkFiles) + 1
                    /\ id \in ChunkFiles =>
                         /\ Cardinality(ChunkFiles \ {id}) \in Nat
                         /\ Cardinality(ChunkFiles \ {id}) = Cardinality(ChunkFiles) - 1
<1>1. IsFiniteSet(Ids)
  BY ChunksAssumption, FS_Interval DEF Ids
<1>2. IsFiniteSet(ChunkFiles)
  BY <1>1, FS_Subset DEF ChunkFiles
<1>3. Cardinality(ChunkFiles) \in Nat
  BY <1>2, FS_CardinalityType
<1>4. ASSUME NEW id
      PROVE  /\ Cardinality(ChunkFiles \cup {id}) \in Nat
             /\ Cardinality(ChunkFiles \cup {id}) <= Cardinality(ChunkFiles) + 1
  <2>1. Cardinality(ChunkFiles \cup {id})
          = IF id \in ChunkFiles THEN Cardinality(ChunkFiles) ELSE Cardinality(ChunkFiles) + 1
    BY <1>2, FS_AddElement
  <2> QED
    BY <1>3, <2>1
<1>5. ASSUME NEW id \in ChunkFiles
      PROVE  /\ Cardinality(ChunkFiles \ {id}) \in Nat
             /\ Cardinality(ChunkFiles \ {id}) = Cardinality(ChunkFiles) - 1
  <2>1. Cardinality(ChunkFiles \ {id})
          = IF id \in ChunkFiles THEN Cardinality(ChunkFiles) - 1 ELSE Cardinality(ChunkFiles)
    BY <1>2, FS_RemoveElement
  <2>2. IsFiniteSet(ChunkFiles \ {id})
    BY <1>2, FS_RemoveElement
  <2> QED
    BY <2>1, <2>2, FS_CardinalityType
<1> QED
  BY <1>2, <1>3, <1>4, <1>5

\* A chunk is cut or removed, or all of them are, or the run dies with what it has.
LEMMA FilesStep ==
  ASSUME ChunksTypeOK, LoopKnown, FilesCounted, ChunksRemoved,
         ChunksNext \/ UNCHANGED chunkVars
  PROVE  FilesCounted' /\ ChunksRemoved'
<1> DEFINE c == Cardinality(ChunkFiles)
<1>1. deaths \in Nat /\ c \in Nat /\ duration \in Nat /\ chunkSec \in Nat /\ start \in Nat
  BY ChunkTypes, ChunksFinite
<1>2. c <= deaths + (IF pc = "chunk" THEN 1 ELSE 0)
  BY DEF FilesCounted
<1>3. c' = Cardinality(ChunkFiles')
  OBVIOUS
<1> HIDE DEF c
<1>4. SUFFICES /\ c' <= deaths' + (IF pc' = "chunk" THEN 1 ELSE 0)
               /\ deaths' \in Nat /\ c' \in Nat
               /\ pc' \in {"returned", "raised"} /\ duration' > chunkSec' => files' = NoFiles
  <2>1. Cardinality(ChunkFiles)' <= deaths' + 1
    BY <1>4 DEF c
  <2> QED
    BY <1>4, <2>1 DEF c, FilesCounted, ChunksRemoved, ChunkFiles, NoFiles, Ids
<1>5. ASSUME files' = NoFiles
      PROVE  c' = 0
  <2>1. ChunkFiles' = {}
    BY <1>5 DEF ChunkFiles, NoFiles
  <2> QED
    BY <2>1, FS_EmptySet DEF c
<1>6. ASSUME files' = files
      PROVE  c' = c
  BY <1>6 DEF c, ChunkFiles
<1>7. CASE Begin \/ TranscribeWhole
  <2>1. /\ pc' # "chunk" /\ pc # "chunk" /\ UNCHANGED <<duration, chunkSec, files, deaths>>
        /\ pc' = "returned" => duration <= chunkSec
        /\ pc' # "raised"
    BY <1>7 DEF Begin, TranscribeWhole, LoopKnown
  <2> QED
    BY <1>1, <1>2, <1>6, <2>1
<1>8. CASE Extract
  <2>1. /\ pc = "loop" /\ pc' = "chunk" /\ deaths' = deaths /\ segment_id \in Ids
        /\ files' = [files EXCEPT ![segment_id] = CutWindow]
    BY <1>8 DEF Extract, ChunksTypeOK
  <2>2. CutWindow # NoFile
    BY <1>8, WindowFits, ChunkTypes, ChunksAssumption DEF Extract, CutWindow, Window
  <2>3. ChunkFiles' = ChunkFiles \cup {segment_id}
    BY <2>1, <2>2 DEF ChunkFiles, ChunksTypeOK
  <2>4. c' <= c + 1 /\ c' \in Nat
    BY <2>3, ChunksFinite DEF c
  <2> QED
    BY <1>1, <1>2, <2>1, <2>4
<1>9. CASE TranscribeChunk
  <2>1. /\ pc = "chunk" /\ pc' = "loop" /\ deaths' = deaths /\ segment_id \in Ids
        /\ files' = [files EXCEPT ![segment_id] = NoFile]
        /\ files[segment_id] = Window(start, ChunkDur) /\ start < duration
    BY <1>9 DEF TranscribeChunk, ChunksTypeOK, LoopKnown
  <2>2. files[segment_id] # NoFile
    BY <2>1, WindowFits, ChunkTypes, ChunksAssumption DEF Window
  <2>3. ChunkFiles' = ChunkFiles \ {segment_id} /\ segment_id \in ChunkFiles
    BY <2>1, <2>2 DEF ChunkFiles, ChunksTypeOK
  <2>4. c' = c - 1 /\ c' \in Nat
    BY <2>3, ChunksFinite DEF c
  <2> QED
    BY <1>1, <1>2, <2>1, <2>4
<1>10. CASE Return
  <2>1. pc' = "returned" /\ files' = NoFiles /\ deaths' = 0
    BY <1>10 DEF Return
  <2> QED
    BY <1>5, <2>1
<1>11. CASE Raise
  <2>1. /\ pc' = "raised" /\ UNCHANGED <<duration, chunkSec, deaths>>
        /\ files' = NoFiles \/ (pc = "whole" /\ files' = files /\ duration <= chunkSec)
    BY <1>11 DEF Raise, AfterFailure, LoopKnown
  <2> QED
    BY <1>1, <1>2, <1>5, <1>6, <2>1
<1>12. CASE Die
  <2>1. pc' = "idle" /\ files' = files /\ deaths' = deaths + 1
    BY <1>12 DEF Die
  <2> QED
    BY <1>1, <1>2, <1>6, <2>1
<1>13. CASE UNCHANGED chunkVars
  <2>1. UNCHANGED <<duration, chunkSec, pc, files, deaths>>
    BY <1>13 DEF chunkVars
  <2> QED
    BY <1>1, <1>2, <1>6, <2>1 DEF ChunksRemoved
<1> QED
  BY <1>7, <1>8, <1>9, <1>10, <1>11, <1>12, <1>13 DEF ChunksNext

----------------------------------------------------------------------------
(* The theorems.                                                           *)

\* Before the first run nothing is heard and no file is there.
LEMMA ChunksInitial ==
  ASSUME Init
  PROVE  ChunksInv
<1>1. ChunksInit
  BY DEF Init
<1>2. ChunksTypeOK
  BY <1>1, ChunksAssumption DEF ChunksInit, ChunksTypeOK, NoFiles, Times, Ids
<1>3. LoopKnown /\ WordsBehind /\ HearsEverythingOnce /\ WordsInTheirWindow
  BY <1>1, <1>2, ChunkTypes
     DEF ChunksInit, LoopKnown, WordsBehind, HearsEverythingOnce, WordsInTheirWindow, Times
<1>4. ChunkFiles = {}
  BY <1>1 DEF ChunksInit, ChunkFiles, NoFiles
<1>5. Cardinality(ChunkFiles) = 0
  BY <1>4, FS_EmptySet
<1>6. FilesCounted /\ ChunksRemoved
  BY <1>1, <1>5 DEF ChunksInit, FilesCounted, ChunksRemoved, ChunkFiles
<1> QED
  BY <1>2, <1>3, <1>6 DEF ChunksInv

\* Every step of the task keeps the invariant, part by part.
LEMMA ChunksStep ==
  ASSUME ChunksInv, [Next]_vars
  PROVE  ChunksInv'
<1>1. ChunksNext \/ UNCHANGED chunkVars
  BY ChunkMoves
<1>2. ChunksTypeOK' /\ LoopKnown'
  BY <1>1, ChunksTyped, LoopStep DEF ChunksInv
<1>3. HearsEverythingOnce'
  BY <1>1, HearsStep DEF ChunksInv
<1>4. WordsBehind' /\ WordsInTheirWindow'
  BY <1>1, WordsStep DEF ChunksInv
<1>5. FilesCounted' /\ ChunksRemoved'
  BY <1>1, FilesStep DEF ChunksInv
<1> QED
  BY <1>2, <1>3, <1>4, <1>5 DEF ChunksInv

\* The invariant of the loop of ParakeetASR.words: the place of the loop, the windows
\* heard, the words so far and the chunk files on the disk belong together, in a run
\* that is the first of its task and in one that follows a death.
THEOREM ChunksInvariant == Spec => []ChunksInv
<1>1. Init => ChunksInv
  BY ChunksInitial
<1>2. ChunksInv /\ [Next]_vars => ChunksInv'
  BY ChunksStep
<1> QED
  BY <1>1, <1>2, PTL DEF Spec

\* For every recording and PARAKEET_CHUNK_SEC, also when it changes between two runs of
\* the task, the recogniser is given each second of the recording once and in order.
THEOREM RecordingHeardOnce == Spec => []HearsEverythingOnce
<1>1. ChunksInv => HearsEverythingOnce
  BY DEF ChunksInv
<1> QED
  BY <1>1, ChunksInvariant, PTL

\* The words that time_offset moves lie in the window they were heard in and follow one
\* another, whatever the recogniser stamps them with, in seconds or in frames.
THEOREM WordsKeepOrder == Spec => []WordsInTheirWindow
<1>1. ChunksInv => WordsInTheirWindow
  BY DEF ChunksInv
<1> QED
  BY <1>1, ChunksInvariant, PTL

\* There are never more chunk files than deaths and one more, and a run over several windows
\* that returns or raises leaves none, its own or an older one.
THEOREM ChunksCleaned == Spec => []ChunksRemoved
<1>1. ChunksInv => ChunksRemoved
  BY DEF ChunksInv
<1> QED
  BY <1>1, ChunksInvariant, PTL
=============================================================================
