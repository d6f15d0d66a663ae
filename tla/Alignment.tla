----------------------------- MODULE Alignment -----------------------------
(***************************************************************************)
(* The alignment of recognised words with speakers (src/app/alignment.py): *)
(* align and utterances_from_words as the loops they are, one element at a *)
(* time, against definitions that say what the result has to be.  A word   *)
(* is its times and its segment_id, and stands for its text; times are     *)
(* whole numbers, and a centre is compared by its double.                  *)
(***************************************************************************)
EXTENDS EngineOutputs

CONSTANT Unknown  \* SPEAKER_UNKNOWN

ASSUME UnknownAssumption == Unknown \notin Labels /\ Unknown \notin Nat

VARIABLES words, segments,
          diarized,   \* the task names a diarization model
          pos,        \* the loop variable of the loop under way
          phase,
          raw,        \* raw_speakers
          numbers,    \* the mapping of _canonical_names: the label of each number
          speakers,   \* a number for speaker_<n>, Unknown, or NoSpeaker
          buf,        \* the word indices in buf of _group
          utterances  \* the word indices and the speaker of each Utterance

inputVars == <<words, segments, diarized>>
alignVars == <<inputVars, pos, phase, raw, numbers, speakers, buf, utterances>>

\* The speaker of an utterance without diarization.
NoSpeaker == -1

SpeakerName == Nat \cup {Unknown, NoSpeaker}
Utterance == [words : Seq(DOMAIN words), speaker : SpeakerName]

AlignmentTypeOK ==
  /\ words \in Seq(Word) /\ segments \in Seq(DiarizationSegment) /\ diarized \in BOOLEAN
  /\ phase \in {"idle", "segments", "speakers", "names", "group", "done", "raised"}
  /\ pos \in 1 .. Len(words) + 1
  /\ raw \in Seq(Labels \cup {Unknown})
  /\ numbers \in Seq(Labels)
  /\ speakers \in Seq(SpeakerName)
  /\ buf \in Seq(DOMAIN words)
  /\ utterances \in Seq(Utterance)

AlignmentInit ==
  /\ diarized \in BOOLEAN
  /\ words = <<>> /\ segments = <<>>
  /\ pos = 1 /\ phase = "idle"
  /\ raw = <<>> /\ numbers = <<>> /\ speakers = <<>>
  /\ buf = <<>> /\ utterances = <<>>

\* The words are there.  Without a diarizer (utterances_from_words) nobody is named.
TakeWords(ws) ==
  /\ phase = "idle"
  /\ words' = ws
  /\ IF diarized THEN phase' = "segments" /\ UNCHANGED speakers
                 ELSE phase' = "group" /\ speakers' = [i \in DOMAIN ws |-> NoSpeaker]
  /\ UNCHANGED <<segments, diarized, pos, raw, numbers, buf, utterances>>

\* align(words, segments).
TakeSegments(segs) ==
  /\ phase = "segments"
  /\ segments' = segs
  /\ phase' = "speakers"
  /\ UNCHANGED <<words, diarized, pos, raw, numbers, speakers, buf, utterances>>

----------------------------------------------------------------------------
(* The loops.                                                              *)

Encloses(seg, w) == w.start >= seg.start /\ w.end <= seg.end

HoldsCentre(seg, w) == 2 * seg.start <= w.start + w.end /\ w.start + w.end <= 2 * seg.end

FirstOf(S) == CHOOSE i \in S : \A j \in S : i <= j

\* _speaker_for_word: the first segment the word lies in, or else the first one that
\* holds its centre.
SpeakerForWord(w) ==
  LET inside == {i \in DOMAIN segments : Encloses(segments[i], w)}
      centred == {i \in DOMAIN segments : HoldsCentre(segments[i], w)}
  IN IF inside # {} THEN segments[FirstOf(inside)].speaker
     ELSE IF centred # {} THEN segments[FirstOf(centred)].speaker
     ELSE Unknown

Advance(next) ==
  IF pos < Len(words) THEN pos' = pos + 1 /\ UNCHANGED phase
                      ELSE pos' = 1 /\ phase' = next

AssignSpeaker ==
  /\ phase = "speakers" /\ words # <<>>
  /\ raw' = Append(raw, SpeakerForWord(words[pos]))
  /\ Advance("names")
  /\ UNCHANGED <<inputVars, numbers, speakers, buf, utterances>>

\* Faulty variant: an unknown speaker takes a number as well.
KnownOrNot(label) == TRUE

Known(label) == label # Unknown

\* _canonical_names: the next label, with the next number if it is a new one.
NameSpeaker ==
  /\ phase = "names"
  /\ LET label == raw[pos]
         seen == {i \in DOMAIN numbers : numbers[i] = label}
     IN IF ~Known(label)
          THEN speakers' = Append(speakers, Unknown) /\ UNCHANGED numbers
          ELSE IF seen = {}
            THEN /\ numbers' = Append(numbers, label)
                 /\ speakers' = Append(speakers, Len(numbers))
            ELSE /\ speakers' = Append(speakers, FirstOf(seen) - 1)
                 /\ UNCHANGED numbers
  /\ Advance("group")
  /\ UNCHANGED <<inputVars, raw, buf, utterances>>

\* Faulty variant: only a change of speaker ends an utterance.
SameSpeaker(i, j) == speakers[i] = speakers[j]

\* Word j goes on with the utterance of word i.
GoesOn(i, j) ==
  speakers[i] = speakers[j] /\ words[i].segment_id = words[j].segment_id

\* Faulty variant: the utterance at hand is dropped.
FlushForgotten == utterances

Flushed == IF buf = <<>> THEN utterances
           ELSE Append(utterances, [words |-> buf, speaker |-> speakers[Head(buf)]])

\* _group: the next word joins buf, or buf becomes an utterance.
GroupWord ==
  /\ phase = "group" /\ pos <= Len(words)
  /\ IF buf # <<>> /\ GoesOn(Head(buf), pos)
       THEN buf' = Append(buf, pos) /\ UNCHANGED utterances
       ELSE buf' = <<pos>> /\ utterances' = Flushed
  /\ pos' = pos + 1
  /\ UNCHANGED <<inputVars, phase, raw, numbers, speakers>>

\* The last utterance, or no words at all.
Finish ==
  /\ \/ phase = "group" /\ pos = Len(words) + 1
     \/ phase = "speakers" /\ words = <<>>
  /\ phase' = "done"
  /\ utterances' = Flushed
  /\ buf' = <<>>
  /\ UNCHANGED <<inputVars, pos, raw, numbers, speakers>>

AlignmentNext == AssignSpeaker \/ NameSpeaker \/ GroupWord \/ Finish

----------------------------------------------------------------------------
(* What the result has to be.                                              *)

Inside(w) == {i \in DOMAIN segments : segments[i].start <= w.start /\ w.end <= segments[i].end}
Centred(w) == {i \in DOMAIN segments : HoldsCentre(segments[i], w)}

\* The speakers of these segments who began first.
FirstToSpeak(S) ==
  {segments[i].speaker : i \in {j \in S : \A k \in S : segments[j].start <= segments[k].start}}

\* A word is given to somebody who was speaking at its centre, to nobody only if nobody
\* was, and where several speak at once to the one who began before the others: of those
\* who speak during all of the word, or else of those at its centre (_speaker_for_word
\* looks for the first segment of the list, whatever the diarizer).
SpeakerWasSpeaking ==
  \A i \in DOMAIN raw :
    LET w == words[i] IN
    /\ Centred(w) = {} => raw[i] = Unknown
    /\ Centred(w) # {} => raw[i] \in FirstToSpeak(IF Inside(w) # {} THEN Inside(w) ELSE Centred(w))

\* The voices that were given a word before that of word i was given one.
EarlierVoices(i) ==
  {raw[j] : j \in {k \in 1 .. i - 1 : \A h \in 1 .. k : raw[h] # raw[i]}} \ {Unknown}

\* Names are numbered without a gap by first appearance, one for each voice that was
\* given a word, and a word nobody spoke has none (_canonical_names).
NamedByAppearance ==
  phase \in {"group", "done"} /\ diarized =>
    \A i \in DOMAIN words :
      speakers[i] = IF raw[i] = Unknown THEN Unknown
                    ELSE Cardinality(EarlierVoices(i))

Changes(i, j) == speakers[i] # speakers[j] \/ words[i].segment_id # words[j].segment_id

\* Every word is in one utterance and in its place, and an utterance ends where the
\* speaker or the ASR segment changes, and nowhere else.
CutWhereItChanges ==
  phase = "done" =>
    /\ FlattenSeq([u \in DOMAIN utterances |-> utterances[u].words]) = [i \in DOMAIN words |-> i]
    /\ \A u \in DOMAIN utterances :
         LET ws == utterances[u].words IN
         /\ \A i \in DOMAIN ws : ~Changes(ws[1], ws[i]) /\ speakers[ws[i]] = utterances[u].speaker
         /\ u > 1 => Changes(Last(utterances[u - 1].words), ws[1])

----------------------------------------------------------------------------
(* The inductive invariant behind these properties.                        *)

InTime(ws) ==
  \A i \in DOMAIN ws : ws[i].start <= ws[i].end /\ (i > 1 => ws[i - 1].end <= ws[i].start)

InOrderOfStart(segs) ==
  \A i, j \in DOMAIN segs : i < j => segs[i].start <= segs[j].start

\* What the engines hand over is in the order of time.
InputsInOrder == InTime(words) /\ InOrderOfStart(segments)

\* How far each loop has come when it stands at pos, and what the next ones find.
LoopsInStep ==
  /\ phase \in {"idle", "segments", "raised"} => pos = 1 /\ raw = <<>>
  /\ phase \in {"idle", "segments", "raised", "speakers"} => numbers = <<>> /\ speakers = <<>>
  /\ phase \in {"segments", "speakers", "names"} => diarized
  /\ phase = "idle" => words = <<>>
  /\ phase = "speakers" => Len(raw) = pos - 1 /\ (words = <<>> \/ pos <= Len(words))
  /\ phase = "names" =>
       Len(raw) = Len(words) /\ Len(speakers) = pos - 1 /\ pos <= Len(words)
  /\ phase \in {"group", "done"} => Len(speakers) = Len(words)
  /\ diarized /\ phase \in {"group", "done"} => Len(raw) = Len(words)
  /\ ~diarized => raw = <<>>
  /\ phase \notin {"group", "done"} => buf = <<>> /\ utterances = <<>>

\* A mapping is one to one and holds the voices of the first n words.
MappingKnown(nums, n) ==
  IsInjective(nums) /\ Range(nums) = {raw[i] : i \in 1 .. n} \ {Unknown}

\* In a mapping, the number of word i is how many voices came before its own.
NumberKnown(nums, name, i) ==
  IF raw[i] = Unknown THEN name = Unknown
  ELSE /\ name \in 0 .. Len(nums) - 1
       /\ nums[name + 1] = raw[i]
       /\ EarlierVoices(i) = {nums[k] : k \in 1 .. name}

NumbersKnown ==
  diarized =>
    /\ MappingKnown(numbers, Len(speakers))
    /\ \A i \in DOMAIN speakers : NumberKnown(numbers, speakers[i], i)

\* Line u goes on where the line before it was cut, and nothing changes in it.
CutAt(lines, u) ==
  LET ws == lines[u].words IN
  /\ ws # <<>>
  /\ ws[1] = IF u = 1 THEN 1 ELSE Last(lines[u - 1].words) + 1
  /\ \A i \in DOMAIN ws :
       ws[i] = ws[1] + i - 1 /\ ~Changes(ws[1], ws[i]) /\ speakers[ws[i]] = lines[u].speaker
  /\ u > 1 => Changes(Last(lines[u - 1].words), ws[1])

\* These lines are the first n words, cut where it changes.
CutUpTo(lines, n) ==
  /\ IF n = 0 THEN lines = <<>> ELSE lines # <<>> /\ Last(Last(lines).words) = n
  /\ \A u \in DOMAIN lines : CutAt(lines, u)

\* With buf as one more line, the lines are the words so far.
LinesCut ==
  /\ phase \in {"group", "done"} => CutUpTo(Flushed, pos - 1)
  /\ phase = "group" /\ buf = <<>> => utterances = <<>>
  /\ phase = "done" => pos = Len(words) + 1 /\ buf = <<>>

AlignmentInv ==
  AlignmentTypeOK /\ InputsInOrder /\ LoopsInStep /\ NumbersKnown /\ LinesCut
=============================================================================
