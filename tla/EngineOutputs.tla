--------------------------- MODULE EngineOutputs ---------------------------
(***************************************************************************)
(* What the engines of a task hand to the alignment: the words and the     *)
(* segments of src/app/engines/base.py, and the adapters that make them of *)
(* what the libraries answer.  Times are whole numbers; a word is its      *)
(* times and its segment_id and stands for its text, and a word with a     *)
(* blank text, which every adapter skips, is one the library did not give. *)
(***************************************************************************)
EXTENDS Integers, Sequences, FiniteSets, SequencesExt

CONSTANTS Labels,       \* what a diarizer calls its speakers
          Stride,       \* _time_stride of Parakeet
          MaxWords,     \* bound: the words of one call of Parakeet, or of one segment of Whisper
          MaxSegments,  \* bound: the segments of Whisper, and the turns of a diarizer
          NoLine        \* a line of Sortformer that is no turn

ASSUME OutputsAssumption ==
  /\ Stride \in Nat \ {0} /\ MaxWords \in Nat /\ MaxSegments \in Nat
  /\ NoLine \notin Labels

Word == [start : Nat, end : Nat, segment_id : Nat]
DiarizationSegment == [start : Nat, end : Nat, speaker : Labels]

SeqsUpTo(S, n) == UNION {[1 .. k -> S] : k \in 0 .. n}

\* The parts of so much audio.
Spans(length) == {s \in [start : 0 .. length, end : 0 .. length] : s.start <= s.end}

OneAfterAnother(spans) ==
  \A i \in 1 .. Len(spans) - 1 : spans[i].end <= spans[i + 1].start

WordAt(span, offset, id) ==
  [start |-> offset + span.start, end |-> offset + span.end, segment_id |-> id]

----------------------------------------------------------------------------
(* Parakeet: stamps in seconds, or in units of the stride.                 *)

Seconds(stamp) ==
  IF stamp.unit = "seconds" THEN [start |-> stamp.start, end |-> stamp.end]
  ELSE [start |-> stamp.start * Stride, end |-> stamp.end * Stride]

\* What the recogniser may say of so much audio.
Stamps(length) ==
  {s \in [unit : {"seconds", "offsets"}, start : 0 .. length, end : 0 .. length] :
     s.start <= s.end /\ Seconds(s).end <= length}

StampSeqs(length) ==
  {s \in SeqsUpTo(Stamps(length), MaxWords) :
     OneAfterAnother([i \in DOMAIN s |-> Seconds(s[i])])}

\* words_from_parakeet_timestamps.
WordsFromStamps(stamps, offset, id) ==
  [i \in DOMAIN stamps |-> WordAt(Seconds(stamps[i]), offset, id)]

----------------------------------------------------------------------------
(* Whisper: segments of words; one without words may still have a text.    *)

AsrSegments(length) ==
  [words : {s \in SeqsUpTo(Spans(length), MaxWords) : OneAfterAnother(s)}, text : {<<>>}]
    \cup [words : {<<>>}, text : {<<span>> : span \in Spans(length)}]

AsrSegmentSeqs(length) ==
  {segs \in SeqsUpTo(AsrSegments(length), MaxSegments) :
     OneAfterAnother(FlattenSeq([i \in DOMAIN segs |-> segs[i].words \o segs[i].text]))}

\* words_from_asr_segments: the text of a segment counts only if it has no words, and a
\* segment that says nothing has its number all the same.
WordsFromAsrSegments(segs) ==
  LET Spoken(seg) == IF seg.words # <<>> THEN seg.words ELSE seg.text
      WordsOf(id) == [i \in DOMAIN Spoken(segs[id]) |-> WordAt(Spoken(segs[id])[i], 0, id - 1)]
  IN FlattenSeq([id \in DOMAIN segs |-> WordsOf(id)])

----------------------------------------------------------------------------
(* The diarizers.                                                          *)

Turns(length) ==
  {t \in [start : 0 .. length, end : 0 .. length, speaker : Labels] : t.start <= t.end}

BeginsBefore(s, t) == s.start < t.start \/ (s.start = t.start /\ s.end < t.end)

\* What Sortformer says of so much audio: the lists of each speaker or of the whole, in
\* any order; some of their lines are no turns.
SortformerLines(length) == SeqsUpTo(Turns(length) \cup {NoLine}, MaxSegments)

\* Faulty variant: the turns as the library lists them.
TurnsAsListed(lines) == SelectSeq(lines, LAMBDA line : line # NoLine)

\* The sort by start and end is stable: turns that agree in both stay as they were.
GoesBefore(lines, i, j) ==
  BeginsBefore(lines[i], lines[j]) \/ (i < j /\ ~BeginsBefore(lines[j], lines[i]))

Sorted(lines, turns) ==
  CHOOSE order \in [1 .. Cardinality(turns) -> turns] :
    \A k, l \in DOMAIN order : k < l => GoesBefore(lines, order[k], order[l])

\* segments_from_sortformer: the lines that are turns, those that begin first in front.
SegmentsFromSortformer(lines) ==
  LET order == Sorted(lines, {i \in DOMAIN lines : lines[i] # NoLine})
  IN [k \in DOMAIN order |-> lines[order[k]]]

\* itertracks of pyannote: the tracks in the order of time.
Tracks(length) ==
  {ts \in SeqsUpTo(Turns(length), MaxSegments) :
     \A i \in 1 .. Len(ts) - 1 : ~BeginsBefore(ts[i + 1], ts[i])}
=============================================================================
