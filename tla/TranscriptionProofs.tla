------------------------ MODULE TranscriptionProofs ------------------------
(***************************************************************************)
(* Proofs about the transcript of a task: that every word is given to a    *)
(* voice that was speaking, that the voices are numbered by appearance,    *)
(* that the lines are cut where the speaker or the segment changes and     *)
(* nowhere else, and that they follow one another in time, for recordings, *)
(* answers of the engines and loops of any length.  The induction these    *)
(* proofs need is over sets of numbers, from the well-foundedness of <.    *)
(***************************************************************************)
EXTENDS ParakeetChunksProofs, WellFoundedInduction

(***************************************************************************)
(* Induction, and the first element of a set.                              *)
(***************************************************************************)

\* A set of numbers has a least one.
LEMMA LeastNatural ==
  ASSUME NEW S \in SUBSET Nat, S # {}
  PROVE  \E n \in S : \A m \in S : n <= m
<1>1. IsWellFoundedOn(OpToRel(<, Nat), Nat)
  BY NatLessThanWellFounded
<1>2. PICK n \in S : \A m \in S : ~(<<m, n>> \in OpToRel(<, Nat))
  BY <1>1, WFMin
<1>3. \A m \in S : ~(m < n)
  <2> SUFFICES ASSUME NEW m \in S PROVE ~(m < n)
    OBVIOUS
  <2>1. m \in Nat /\ n \in Nat
    OBVIOUS
  <2>2. <<m, n>> \in Nat \X Nat /\ <<m, n>>[1] = m /\ <<m, n>>[2] = n
    BY <2>1
  <2>3. <<m, n>> \notin OpToRel(<, Nat)
    BY <1>2
  <2> QED
    BY <2>2, <2>3 DEF OpToRel
<1>4. \A m \in S : m \in Nat /\ n \in Nat
  OBVIOUS
<1>5. \A m \in S : n <= m
  BY <1>3, <1>4
<1> QED
  BY <1>5

\* Induction on the natural numbers, with the set of those for which it holds.
LEMMA Induction ==
  ASSUME NEW S, 0 \in S, \A n \in Nat : n \in S => n + 1 \in S
  PROVE  Nat \subseteq S
<1> SUFFICES ASSUME Nat \ S # {} PROVE FALSE
  OBVIOUS
<1>1. PICK n \in Nat \ S : \A m \in Nat \ S : n <= m
  BY LeastNatural
<1>2. n # 0 /\ n - 1 \in Nat /\ ~(n <= n - 1) /\ (n - 1) + 1 = n
  OBVIOUS
<1>3. n - 1 \in S
  BY <1>1, <1>2
<1> QED
  BY <1>2, <1>3

\* The first element of a set of indices.
LEMMA FirstIsFirst ==
  ASSUME NEW S \in SUBSET Nat, S # {}
  PROVE  FirstOf(S) \in S /\ \A j \in S : FirstOf(S) <= j
  BY LeastNatural DEF FirstOf

----------------------------------------------------------------------------
(* Sequences of sequences.                                                 *)

\* How the first n of these sequences are put one after the other.
Flattening(f, seqs, n) ==
  f = [i \in 1 .. n |-> IF i = 1 THEN seqs[i] ELSE f[i - 1] \o seqs[i]]

\* There is a function that the recursion of FlattenSeq describes.
LEMMA FlatteningExists ==
  ASSUME NEW seqs, NEW n \in Nat
  PROVE  \E f : Flattening(f, seqs, n)
<1> DEFINE S == {m \in Nat : \E f : Flattening(f, seqs, m)}
<1>1. 0 \in S
  <2>1. Flattening([i \in 1 .. 0 |-> 0], seqs, 0)
    BY DEF Flattening
  <2> QED
    BY <2>1
<1>2. ASSUME NEW m \in Nat, m \in S
      PROVE  m + 1 \in S
  <2>1. PICK f : Flattening(f, seqs, m)
    BY <1>2
  <2> DEFINE last == IF m = 0 THEN seqs[1] ELSE f[m] \o seqs[m + 1]
             g == [i \in 1 .. m + 1 |-> IF i = m + 1 THEN last ELSE f[i]]
  <2>2. \A i \in 1 .. m : f[i] = IF i = 1 THEN seqs[i] ELSE f[i - 1] \o seqs[i]
    BY <2>1 DEF Flattening
  <2>3. ASSUME NEW i \in 1 .. m + 1
        PROVE  g[i] = IF i = 1 THEN seqs[i] ELSE g[i - 1] \o seqs[i]
    <3>1. CASE i = m + 1
      <4>1. i # 1 => m \in 1 .. m /\ i - 1 = m /\ m # 0 /\ m \in 1 .. m + 1 /\ m # m + 1
        BY <3>1
      <4>2. i # 1 => g[i - 1] = f[m]
        BY <4>1
      <4>3. i = 1 => m = 0
        BY <3>1
      <4> QED
        BY <3>1, <4>1, <4>2, <4>3
    <3>2. CASE i \in 1 .. m
      <4>1. g[i] = f[i] /\ (i # 1 => g[i - 1] = f[i - 1])
        BY <3>2
      <4> HIDE DEF g
      <4> QED
        BY <2>2, <3>2, <4>1
    <3> QED
      BY <3>1, <3>2
  <2>4. Flattening(g, seqs, m + 1)
    <3>1. g = [i \in 1 .. m + 1 |-> g[i]]
      OBVIOUS
    <3> HIDE DEF g
    <3>2. g = [i \in 1 .. m + 1 |-> IF i = 1 THEN seqs[i] ELSE g[i - 1] \o seqs[i]]
      BY <2>3, <3>1
    <3> QED
      BY <3>2 DEF Flattening
  <2> HIDE DEF g
  <2> QED
    BY <2>4
<1> HIDE DEF S
<1>3. Nat \subseteq S
  BY <1>1, <1>2, Induction
<1> QED
  BY <1>3 DEF S

\* FlattenSeq, step by step.
LEMMA Flattened ==
  ASSUME NEW T, NEW seqs \in Seq(Seq(T)), seqs # <<>>
  PROVE  \E f \in [1 .. Len(seqs) -> Seq(T)] :
           /\ f[1] = seqs[1]
           /\ \A i \in 2 .. Len(seqs) : f[i] = f[i - 1] \o seqs[i]
           /\ FlattenSeq(seqs) = f[Len(seqs)]
<1> DEFINE n == Len(seqs)
           f == CHOOSE f : Flattening(f, seqs, n)
<1>1. n \in Nat /\ n # 0 /\ \A i \in 1 .. n : seqs[i] \in Seq(T)
  OBVIOUS
<1>2. Flattening(f, seqs, n)
  BY <1>1, FlatteningExists
<1>3. FlattenSeq(seqs) = f[n]
  BY <1>1 DEF FlattenSeq, Flattening
<1> HIDE DEF f, n
<1>4. \A i \in 1 .. n : f[i] = IF i = 1 THEN seqs[i] ELSE f[i - 1] \o seqs[i]
  BY <1>2 DEF Flattening
<1> DEFINE S == {m \in Nat : m + 1 <= n => f[m + 1] \in Seq(T)}
<1>5. 0 \in S
  BY <1>1, <1>4
<1>6. ASSUME NEW m \in Nat, m \in S
      PROVE  m + 1 \in S
  <2> SUFFICES ASSUME (m + 1) + 1 <= n
               PROVE  f[(m + 1) + 1] \in Seq(T)
    OBVIOUS
  <2>1. f[m + 1] \in Seq(T)
    BY <1>1, <1>6
  <2>2. (m + 1) + 1 \in 1 .. n /\ (m + 1) + 1 # 1 /\ ((m + 1) + 1) - 1 = m + 1
    BY <1>1
  <2>3. f[(m + 1) + 1] = f[m + 1] \o seqs[(m + 1) + 1]
    BY <1>4, <2>2
  <2>4. seqs[(m + 1) + 1] \in Seq(T)
    BY <1>1, <2>2
  <2> QED
    BY <2>1, <2>3, <2>4
<1> HIDE DEF S
<1>7. Nat \subseteq S
  BY <1>5, <1>6, Induction
<1>8. ASSUME NEW i \in 1 .. n
      PROVE  f[i] \in Seq(T)
  <2>1. i - 1 \in Nat /\ (i - 1) + 1 = i /\ i <= n
    BY <1>1
  <2> QED
    BY <1>7, <2>1 DEF S
<1>9. f \in [1 .. n -> Seq(T)]
  <2>1. f = [i \in 1 .. n |-> f[i]]
    BY <1>2 DEF Flattening
  <2> QED
    BY <1>8, <2>1
<1>10. f[1] = seqs[1] /\ \A i \in 2 .. n : f[i] = f[i - 1] \o seqs[i]
  <2>1. 1 \in 1 .. n /\ \A i \in 2 .. n : i \in 1 .. n /\ i # 1
    BY <1>1
  <2> QED
    BY <1>4, <2>1
<1> QED
  BY <1>3, <1>9, <1>10 DEF n

----------------------------------------------------------------------------
(* The words of Whisper.                                                   *)

\* These words have the times of these spans.
SameTimes(ws, spans) ==
  /\ Len(ws) = Len(spans)
  /\ \A j \in 1 .. Len(ws) : ws[j].start = spans[j].start /\ ws[j].end = spans[j].end

\* A segment speaks by its words, or by its text if it has none.
LEMMA AsrSegmentSpeaks ==
  ASSUME NEW d \in Nat, NEW seg \in AsrSegments(d)
  PROVE  /\ seg.words \o seg.text = IF seg.words # <<>> THEN seg.words ELSE seg.text
         /\ seg.words \o seg.text \in Seq(Spans(d))
<1>1. MaxWords \in Nat
  BY OutputsAssumption
<1>2. CASE seg \in [words : {s \in SeqsUpTo(Spans(d), MaxWords) : OneAfterAnother(s)}, text : {<<>>}]
  <2>1. seg.words \in SeqsUpTo(Spans(d), MaxWords) /\ seg.text = <<>>
    BY <1>2
  <2>2. PICK k \in 0 .. MaxWords : seg.words \in [1 .. k -> Spans(d)]
    BY <2>1 DEF SeqsUpTo
  <2>3. k \in Nat
    BY <1>1
  <2>4. seg.words \in Seq(Spans(d))
    BY <2>2, <2>3
  <2>5. seg.words \o seg.text = seg.words
    BY <2>1, <2>4
  <2> QED
    BY <2>1, <2>4, <2>5
<1>3. CASE seg \in [words : {<<>>}, text : {<<span>> : span \in Spans(d)}]
  <2>1. PICK span \in Spans(d) : seg.text = <<span>>
    BY <1>3
  <2>2. seg.words = <<>> /\ seg.text \in Seq(Spans(d))
    BY <1>3, <2>1
  <2>3. seg.words \o seg.text = seg.text
    BY <2>2
  <2> QED
    BY <2>2, <2>3
<1> QED
  BY <1>2, <1>3 DEF AsrSegments

\* Words put after words, with the times of spans put after spans.
LEMMA SameTimesJoined ==
  ASSUME NEW T, NEW a \in Seq(Word), NEW b \in Seq(Word), NEW s \in Seq(T), NEW t \in Seq(T),
         SameTimes(a, s), SameTimes(b, t)
  PROVE  SameTimes(a \o b, s \o t)
<1> DEFINE m == Len(a)
           n == Len(b)
<1>1. m \in Nat /\ n \in Nat /\ Len(s) = m /\ Len(t) = n
  BY DEF SameTimes
<1>2. /\ Len(a \o b) = m + n /\ Len(s \o t) = m + n
      /\ \A j \in 1 .. m : (a \o b)[j] = a[j] /\ (s \o t)[j] = s[j]
      /\ \A j \in 1 .. n : (a \o b)[m + j] = b[j] /\ (s \o t)[m + j] = t[j]
  <2>1. /\ Len(a \o b) = m + n /\ \A j \in 1 .. m : (a \o b)[j] = a[j]
        /\ \A j \in 1 .. n : (a \o b)[m + j] = b[j]
    BY Joined
  <2>2. /\ Len(s \o t) = Len(s) + Len(t) /\ \A j \in 1 .. Len(s) : (s \o t)[j] = s[j]
        /\ \A j \in 1 .. Len(t) : (s \o t)[Len(s) + j] = t[j]
    BY Joined
  <2> QED
    BY <1>1, <2>1, <2>2
<1>3. \A j \in 1 .. m : a[j].start = s[j].start /\ a[j].end = s[j].end
  BY DEF SameTimes
<1>4. \A j \in 1 .. n : b[j].start = t[j].start /\ b[j].end = t[j].end
  BY DEF SameTimes
<1> DEFINE ws == a \o b
           spans == s \o t
<1> HIDE DEF m, n, ws, spans
<1>5. ASSUME NEW j \in 1 .. m + n
      PROVE  ws[j].start = spans[j].start /\ ws[j].end = spans[j].end
  <2>1. CASE j \in 1 .. m
    BY <1>2, <1>3, <2>1 DEF ws, spans
  <2>2. CASE j - m \in 1 .. n
    <3>1. m + (j - m) = j
      BY <1>1
    <3>2. ws[m + (j - m)] = b[j - m] /\ spans[m + (j - m)] = t[j - m]
      BY <1>2, <2>2 DEF ws, spans
    <3> QED
      BY <1>4, <2>2, <3>1, <3>2
  <2>3. j \in 1 .. m \/ j - m \in 1 .. n
    BY <1>1
  <2> QED
    BY <2>1, <2>2, <2>3
<1> QED
  BY <1>2, <1>5 DEF SameTimes, ws, spans

\* So with the words of all segments and the spans of all segments.
LEMMA SameTimesFlattened ==
  ASSUME NEW T, NEW wordLists \in Seq(Seq(Word)), NEW spanLists \in Seq(Seq(T)),
         Len(wordLists) = Len(spanLists), wordLists # <<>>,
         \A i \in 1 .. Len(wordLists) : SameTimes(wordLists[i], spanLists[i])
  PROVE  FlattenSeq(wordLists) \in Seq(Word) /\ SameTimes(FlattenSeq(wordLists), FlattenSeq(spanLists))
<1> DEFINE n == Len(wordLists)
<1>1. n \in Nat /\ n # 0 /\ Len(spanLists) = n /\ spanLists # <<>>
  OBVIOUS
<1>2. PICK f \in [1 .. n -> Seq(Word)] :
        /\ f[1] = wordLists[1]
        /\ \A i \in 2 .. n : f[i] = f[i - 1] \o wordLists[i]
        /\ FlattenSeq(wordLists) = f[n]
  BY Flattened
<1>3. PICK g \in [1 .. n -> Seq(T)] :
        /\ g[1] = spanLists[1]
        /\ \A i \in 2 .. n : g[i] = g[i - 1] \o spanLists[i]
        /\ FlattenSeq(spanLists) = g[n]
  <2>1. \E g \in [1 .. Len(spanLists) -> Seq(T)] :
          /\ g[1] = spanLists[1]
          /\ \A i \in 2 .. Len(spanLists) : g[i] = g[i - 1] \o spanLists[i]
          /\ FlattenSeq(spanLists) = g[Len(spanLists)]
    BY <1>1, Flattened
  <2> QED
    BY <1>1, <2>1
<1>4. \A i \in 1 .. n : /\ SameTimes(wordLists[i], spanLists[i])
                        /\ wordLists[i] \in Seq(Word) /\ spanLists[i] \in Seq(T)
  BY <1>1
<1> HIDE DEF n
<1> DEFINE S == {m \in Nat : m + 1 <= n => SameTimes(f[m + 1], g[m + 1])}
<1>5. 0 \in S
  <2>1. 1 \in 1 .. n
    BY <1>1
  <2> QED
    BY <1>2, <1>3, <1>4, <2>1
<1>6. ASSUME NEW m \in Nat, m \in S
      PROVE  m + 1 \in S
  <2> SUFFICES ASSUME (m + 1) + 1 <= n
               PROVE  SameTimes(f[(m + 1) + 1], g[(m + 1) + 1])
    OBVIOUS
  <2>1. SameTimes(f[m + 1], g[m + 1])
    BY <1>1, <1>6
  <2>2. /\ (m + 1) + 1 \in 2 .. n /\ (m + 1) + 1 \in 1 .. n /\ ((m + 1) + 1) - 1 = m + 1
        /\ m + 1 \in 1 .. n
    BY <1>1
  <2>3. /\ f[(m + 1) + 1] = f[m + 1] \o wordLists[(m + 1) + 1]
        /\ g[(m + 1) + 1] = g[m + 1] \o spanLists[(m + 1) + 1]
    BY <1>2, <1>3, <2>2
  <2>4. /\ f[m + 1] \in Seq(Word) /\ g[m + 1] \in Seq(T)
        /\ wordLists[(m + 1) + 1] \in Seq(Word) /\ spanLists[(m + 1) + 1] \in Seq(T)
        /\ SameTimes(wordLists[(m + 1) + 1], spanLists[(m + 1) + 1])
    BY <1>2, <1>3, <1>4, <2>2
  <2> QED
    BY <2>1, <2>3, <2>4, SameTimesJoined
<1> HIDE DEF S
<1>7. Nat \subseteq S
  BY <1>5, <1>6, Induction
<1>8. n - 1 \in Nat /\ (n - 1) + 1 = n /\ n \in 1 .. n /\ n <= n
  BY <1>1
<1>9. SameTimes(f[n], g[n])
  BY <1>7, <1>8 DEF S
<1> QED
  BY <1>2, <1>3, <1>8, <1>9

\* Spans one after another, as words, are in the order of time.
LEMMA SpansInTime ==
  ASSUME NEW d \in Nat, NEW spans \in Seq(Spans(d)), OneAfterAnother(spans),
         NEW ws \in Seq(Word), SameTimes(ws, spans)
  PROVE  InTime(ws)
<1>1. \A i \in DOMAIN ws : i \in DOMAIN spans /\ spans[i] \in Spans(d)
  BY DEF SameTimes
<1>2. \A i \in DOMAIN ws : i > 1 => i - 1 \in 1 .. Len(spans) - 1 /\ i - 1 \in 1 .. Len(ws) /\ (i - 1) + 1 = i
  BY DEF SameTimes
<1>3. \A i \in DOMAIN ws : ws[i].start = spans[i].start /\ ws[i].end = spans[i].end
  BY DEF SameTimes
<1>4. ASSUME NEW i \in DOMAIN ws
      PROVE  ws[i].start <= ws[i].end
  <2>1. spans[i].start <= spans[i].end
    BY <1>1 DEF Spans
  <2> QED
    BY <1>3, <2>1
<1>5. ASSUME NEW i \in DOMAIN ws, i > 1
      PROVE  ws[i - 1].end <= ws[i].start
  <2>1. spans[i - 1].end <= spans[(i - 1) + 1].start
    BY <1>2, <1>5 DEF OneAfterAnother
  <2>2. i - 1 \in DOMAIN ws /\ (i - 1) + 1 = i
    BY <1>2, <1>5
  <2> QED
    BY <1>3, <2>1, <2>2
<1> QED
  BY <1>4, <1>5 DEF InTime

\* Whatever the segments of Whisper, the words made of them are in the order of time.
LEMMA WhisperInTime ==
  ASSUME NEW d \in Nat, NEW segs \in AsrSegmentSeqs(d)
  PROVE  WordsFromAsrSegments(segs) \in Seq(Word) /\ InTime(WordsFromAsrSegments(segs))
<1> DEFINE spoken(i) == IF segs[i].words # <<>> THEN segs[i].words ELSE segs[i].text
           wordsOf(id) == [i \in DOMAIN spoken(id) |-> WordAt(spoken(id)[i], 0, id - 1)]
           wordLists == [id \in DOMAIN segs |-> wordsOf(id)]
           spanLists == [i \in DOMAIN segs |-> segs[i].words \o segs[i].text]
<1>1. PICK n \in 0 .. MaxSegments : segs \in [1 .. n -> AsrSegments(d)]
  BY DEF AsrSegmentSeqs, SeqsUpTo
<1>2. n \in Nat /\ DOMAIN segs = 1 .. n
  BY <1>1, OutputsAssumption
<1>3. OneAfterAnother(FlattenSeq(spanLists))
  BY DEF AsrSegmentSeqs
<1>4. WordsFromAsrSegments(segs) = FlattenSeq(wordLists)
  BY DEF WordsFromAsrSegments
<1>5. \A i \in 1 .. n : spanLists[i] = spoken(i) /\ spoken(i) \in Seq(Spans(d))
  <2> SUFFICES ASSUME NEW i \in 1 .. n
               PROVE  spanLists[i] = spoken(i) /\ spoken(i) \in Seq(Spans(d))
    OBVIOUS
  <2>1. segs[i] \in AsrSegments(d)
    BY <1>1
  <2>2. spanLists[i] = segs[i].words \o segs[i].text
    BY <1>2
  <2> HIDE DEF spanLists
  <2> QED
    BY <2>1, <2>2, AsrSegmentSpeaks
<1>6. \A i \in 1 .. n : wordLists[i] = wordsOf(i)
  BY <1>2
<1>7. DOMAIN wordLists = 1 .. n /\ DOMAIN spanLists = 1 .. n
  BY <1>2
<1>8. ASSUME NEW i \in 1 .. n
      PROVE  wordsOf(i) \in Seq(Word) /\ SameTimes(wordsOf(i), spoken(i))
  <2> DEFINE s == spoken(i)
             ws == wordsOf(i)
  <2>1. s \in Seq(Spans(d)) /\ i - 1 \in Nat
    <3> HIDE DEF spoken, spanLists
    <3>1. spoken(i) \in Seq(Spans(d))
      BY <1>5
    <3>2. i - 1 \in Nat
      BY <1>2
    <3> QED
      BY <3>1, <3>2
  <2>2. ws = [j \in DOMAIN s |-> WordAt(s[j], 0, i - 1)]
    OBVIOUS
  <2> HIDE DEF s, ws
  <2>3. \A j \in DOMAIN s : s[j].start \in Nat /\ s[j].end \in Nat
    BY <2>1 DEF Spans
  <2>4. \A j \in DOMAIN s : /\ ws[j] \in Word
                            /\ ws[j].start = s[j].start /\ ws[j].end = s[j].end
    BY <2>1, <2>2, <2>3 DEF WordAt, Word
  <2>5. Len(s) \in Nat /\ DOMAIN s = 1 .. Len(s) /\ DOMAIN ws = DOMAIN s
    BY <2>1, <2>2
  <2>6. ws \in [1 .. Len(s) -> Word]
    BY <2>2, <2>4, <2>5
  <2>7. ws \in Seq(Word) /\ Len(ws) = Len(s)
    BY <2>5, <2>6
  <2>8. SameTimes(ws, s)
    BY <2>4, <2>5, <2>7 DEF SameTimes
  <2> QED
    BY <2>7, <2>8 DEF s, ws
<1>9. spanLists \in [1 .. n -> Seq(Spans(d))] /\ wordLists \in [1 .. n -> Seq(Word)]
  BY <1>2, <1>5, <1>6, <1>8
<1> HIDE DEF spoken, wordsOf, wordLists, spanLists
<1>10. CASE n = 0
  <2>1. Len(wordLists) = 0 /\ wordLists = <<>>
    BY <1>9, <1>10
  <2>2. FlattenSeq(wordLists) = <<>>
    BY <2>1 DEF FlattenSeq
  <2> QED
    BY <1>4, <2>2 DEF InTime
<1>11. CASE n # 0
  <2>1. /\ wordLists \in Seq(Seq(Word)) /\ spanLists \in Seq(Seq(Spans(d)))
        /\ Len(wordLists) = n /\ Len(spanLists) = n /\ wordLists # <<>> /\ spanLists # <<>>
    BY <1>2, <1>9, <1>11
  <2>2. \A i \in 1 .. n : SameTimes(wordLists[i], spanLists[i])
    BY <1>5, <1>6, <1>8
  <2>3. FlattenSeq(wordLists) \in Seq(Word) /\ SameTimes(FlattenSeq(wordLists), FlattenSeq(spanLists))
    BY <2>1, <2>2, SameTimesFlattened
  <2>4. FlattenSeq(spanLists) \in Seq(Spans(d))
    <3>1. PICK f \in [1 .. Len(spanLists) -> Seq(Spans(d))] : FlattenSeq(spanLists) = f[Len(spanLists)]
      BY <2>1, Flattened
    <3>2. n \in 1 .. n
      BY <1>2, <1>11
    <3> QED
      BY <2>1, <3>1, <3>2
  <2> QED
    BY <1>3, <1>4, <2>3, <2>4, SpansInTime
<1> QED
  BY <1>10, <1>11

----------------------------------------------------------------------------
(* The segments of the diarizers.                                          *)

\* One of some turns goes before all others.
LEMMA FirstTurn ==
  ASSUME NEW d \in Nat, NEW lines, NEW U \in SUBSET Nat, U # {},
         \A i \in U : lines[i] \in Turns(d)
  PROVE  \E x \in U : \A y \in U \ {x} : GoesBefore(lines, x, y)
<1>1. \A i \in U : lines[i].start \in Nat /\ lines[i].end \in Nat /\ i \in Nat
  BY DEF Turns
<1>2. PICK s \in {lines[i].start : i \in U} : \A t \in {lines[i].start : i \in U} : s <= t
  <2>1. {lines[i].start : i \in U} \in SUBSET Nat /\ {lines[i].start : i \in U} # {}
    BY <1>1
  <2> QED
    BY <2>1, LeastNatural
<1> DEFINE A == {i \in U : lines[i].start = s}
<1>3. PICK e \in {lines[i].end : i \in A} : \A t \in {lines[i].end : i \in A} : e <= t
  <2>1. {lines[i].end : i \in A} \in SUBSET Nat /\ {lines[i].end : i \in A} # {}
    BY <1>1, <1>2
  <2> QED
    BY <2>1, LeastNatural
<1> DEFINE B == {i \in A : lines[i].end = e}
<1>4. PICK x \in B : \A y \in B : x <= y
  <2>1. B \in SUBSET Nat /\ B # {}
    BY <1>1, <1>3
  <2> QED
    BY <2>1, LeastNatural
<1>5. x \in U /\ x \in Nat /\ s \in Nat /\ e \in Nat /\ lines[x].start = s /\ lines[x].end = e
  BY <1>1, <1>4
<1>6. ASSUME NEW y \in U \ {x}
      PROVE  GoesBefore(lines, x, y)
  <2>1. y \in Nat /\ lines[y].start \in Nat /\ lines[y].end \in Nat
    BY <1>1
  <2>2. s <= lines[y].start
    BY <1>2
  <2>3. CASE s < lines[y].start
    BY <1>5, <2>3 DEF GoesBefore, BeginsBefore
  <2>4. CASE lines[y].start = s
    <3>1. e <= lines[y].end
      BY <1>3, <2>4
    <3>2. CASE e < lines[y].end
      BY <1>5, <2>4, <3>2 DEF GoesBefore, BeginsBefore
    <3>3. CASE lines[y].end = e
      <4>1. x <= y /\ x # y
        BY <1>4, <2>4, <3>3
      <4>2. ~BeginsBefore(lines[y], lines[x])
        BY <1>5, <2>4, <3>3 DEF BeginsBefore
      <4> QED
        BY <1>5, <2>1, <4>1, <4>2 DEF GoesBefore
    <3> QED
      BY <1>5, <2>1, <3>1, <3>2, <3>3
  <2> QED
    BY <1>5, <2>1, <2>2, <2>3, <2>4
<1> QED
  BY <1>5, <1>6

\* The sort has a result: finitely many turns can be arranged so that each goes before
\* the next ones.
LEMMA TurnsArranged ==
  ASSUME NEW d \in Nat, NEW lines, NEW T \in SUBSET Nat, IsFiniteSet(T),
         \A i \in T : lines[i] \in Turns(d)
  PROVE  \E order \in [1 .. Cardinality(T) -> T] :
           \A k, l \in DOMAIN order : k < l => GoesBefore(lines, order[k], order[l])
<1> DEFINE Arranged(order) ==
             \A k, l \in DOMAIN order : k < l => GoesBefore(lines, order[k], order[l])
           S == {n \in Nat : \A U \in SUBSET T : Cardinality(U) = n =>
                   \E order \in [1 .. n -> U] : Arranged(order)}
<1>1. \A U \in SUBSET T : IsFiniteSet(U) /\ Cardinality(U) \in Nat
  BY FS_Subset, FS_CardinalityType
<1>2. 0 \in S
  <2> SUFFICES ASSUME NEW U \in SUBSET T, Cardinality(U) = 0
               PROVE  \E order \in [1 .. 0 -> U] : Arranged(order)
    OBVIOUS
  <2> DEFINE order == [k \in 1 .. 0 |-> 0]
  <2>1. order \in [1 .. 0 -> U] /\ Arranged(order)
    OBVIOUS
  <2> HIDE DEF order, Arranged
  <2> QED
    BY <2>1
<1>3. ASSUME NEW n \in Nat, n \in S
      PROVE  n + 1 \in S
  <2> SUFFICES ASSUME NEW U \in SUBSET T, Cardinality(U) = n + 1
               PROVE  \E order \in [1 .. n + 1 -> U] : Arranged(order)
    OBVIOUS
  <2>1. U # {}
    BY FS_EmptySet
  <2>2. PICK x \in U : \A y \in U \ {x} : GoesBefore(lines, x, y)
    BY <2>1, FirstTurn
  <2>3. Cardinality(U \ {x}) = n
    <3>1. Cardinality(U \ {x}) = Cardinality(U) - 1
      BY <1>1, FS_RemoveElement
    <3> QED
      BY <3>1
  <2>4. PICK rest \in [1 .. n -> U \ {x}] : Arranged(rest)
    <3>1. U \ {x} \in SUBSET T
      OBVIOUS
    <3> HIDE DEF Arranged
    <3> QED
      BY <1>3, <2>3, <3>1
  <2> DEFINE order == [k \in 1 .. n + 1 |-> IF k = 1 THEN x ELSE rest[k - 1]]
  <2>5. \A k \in 2 .. n + 1 : k - 1 \in 1 .. n /\ rest[k - 1] \in U \ {x}
    OBVIOUS
  <2>6. order \in [1 .. n + 1 -> U]
    BY <2>5
  <2>7. ASSUME NEW k \in 1 .. n + 1, NEW l \in 1 .. n + 1, k < l
        PROVE  GoesBefore(lines, order[k], order[l])
    <3>1. l \in 2 .. n + 1 /\ order[l] = rest[l - 1]
      BY <2>7
    <3>2. CASE k = 1
      <4>1. order[k] = x /\ order[l] \in U \ {x}
        BY <2>5, <3>1, <3>2
      <4> QED
        BY <2>2, <4>1
    <3>3. CASE k # 1
      <4>1. k \in 2 .. n + 1 /\ order[k] = rest[k - 1] /\ k - 1 < l - 1
        BY <2>7, <3>3
      <4>2. k - 1 \in DOMAIN rest /\ l - 1 \in DOMAIN rest
        BY <2>5, <3>1, <4>1
      <4> QED
        BY <2>4, <3>1, <4>1, <4>2
    <3> QED
      BY <3>2, <3>3
  <2> HIDE DEF order
  <2>8. Arranged(order)
    BY <2>6, <2>7
  <2> HIDE DEF Arranged
  <2> QED
    BY <2>6, <2>8
<1> HIDE DEF S
<1>4. Nat \subseteq S
  BY <1>2, <1>3, Induction
<1> QED
  BY <1>1, <1>4 DEF S

\* Of two turns, the one that goes before the other does not begin after it.
LEMMA GoesBeforeBegins ==
  ASSUME NEW d \in Nat, NEW lines, NEW i \in Nat, NEW j \in Nat,
         lines[i] \in Turns(d), lines[j] \in Turns(d), GoesBefore(lines, i, j)
  PROVE  lines[i].start <= lines[j].start
  BY DEF Turns, GoesBefore, BeginsBefore

\* What comes of the lines of Sortformer is sorted, in whatever order they are listed.
LEMMA SortformerInOrder ==
  ASSUME NEW d \in Nat, NEW lines \in SortformerLines(d)
  PROVE  /\ SegmentsFromSortformer(lines) \in Seq(DiarizationSegment)
         /\ InOrderOfStart(SegmentsFromSortformer(lines))
<1> DEFINE turns == {i \in DOMAIN lines : lines[i] # NoLine}
           order == Sorted(lines, turns)
           segs == [k \in DOMAIN order |-> lines[order[k]]]
           n == Cardinality(turns)
<1>1. PICK m \in 0 .. MaxSegments : lines \in [1 .. m -> Turns(d) \cup {NoLine}]
  BY DEF SortformerLines, SeqsUpTo
<1>2. m \in Nat /\ DOMAIN lines = 1 .. m
  BY <1>1, OutputsAssumption
<1>3. turns \in SUBSET (1 .. m) /\ turns \in SUBSET Nat /\ \A i \in turns : lines[i] \in Turns(d)
  BY <1>1, <1>2
<1>4. IsFiniteSet(turns)
  BY <1>2, <1>3, FS_Interval, FS_Subset
<1>5. n \in Nat
  BY <1>4, FS_CardinalityType
<1>6. /\ order \in [1 .. n -> turns]
      /\ \A k, l \in DOMAIN order : k < l => GoesBefore(lines, order[k], order[l])
  <2> HIDE DEF turns
  <2>1. \E p \in [1 .. n -> turns] :
          \A k, l \in DOMAIN p : k < l => GoesBefore(lines, p[k], p[l])
    BY <1>3, <1>4, TurnsArranged
  <2> QED
    BY <2>1 DEF Sorted
<1>7. SegmentsFromSortformer(lines) = segs
  BY DEF SegmentsFromSortformer
<1> HIDE DEF turns, order, n
<1>8. \A k \in 1 .. n : segs[k] = lines[order[k]] /\ segs[k] \in Turns(d) /\ order[k] \in Nat
  BY <1>3, <1>6
<1>9. \A t \in Turns(d) : t \in DiarizationSegment
  BY DEF Turns, DiarizationSegment
<1>10. DOMAIN segs = 1 .. n
  BY <1>6
<1>11. segs \in [1 .. n -> DiarizationSegment]
  BY <1>6, <1>8, <1>9
<1> HIDE DEF segs
<1>12. segs \in Seq(DiarizationSegment)
  BY <1>5, <1>11
<1>13. ASSUME NEW k \in 1 .. n, NEW l \in 1 .. n, k < l
       PROVE  segs[k].start <= segs[l].start
  <2>1. GoesBefore(lines, order[k], order[l])
    BY <1>6, <1>13
  <2>2. lines[order[k]] \in Turns(d) /\ lines[order[l]] \in Turns(d) /\ order[k] \in Nat /\ order[l] \in Nat
    BY <1>8
  <2>3. lines[order[k]].start <= lines[order[l]].start
    BY <2>1, <2>2, GoesBeforeBegins
  <2> QED
    BY <1>8, <2>3
<1> QED
  BY <1>7, <1>10, <1>12, <1>13 DEF InOrderOfStart

\* Neighbours in order are enough for all to be in order.
LEMMA TracksInOrder ==
  ASSUME NEW d \in Nat, NEW ts \in Tracks(d)
  PROVE  ts \in Seq(DiarizationSegment) /\ InOrderOfStart(ts)
<1>1. PICK n \in 0 .. MaxSegments : ts \in [1 .. n -> Turns(d)]
  BY DEF Tracks, SeqsUpTo
<1>2. n \in Nat /\ DOMAIN ts = 1 .. n /\ Len(ts) = n
  BY <1>1, OutputsAssumption
<1>3. \A i \in 1 .. n : ts[i] \in Turns(d) /\ ts[i].start \in Nat /\ ts[i] \in DiarizationSegment
  BY <1>1 DEF Turns, DiarizationSegment
<1>4. ts \in Seq(DiarizationSegment)
  <2>1. ts \in [1 .. n -> DiarizationSegment]
    BY <1>1, <1>3
  <2> QED
    BY <1>2, <2>1
<1>5. \A i \in 1 .. n - 1 : ts[i].start <= ts[i + 1].start
  <2> SUFFICES ASSUME NEW i \in 1 .. n - 1
               PROVE  ts[i].start <= ts[i + 1].start
    OBVIOUS
  <2>1. ~BeginsBefore(ts[i + 1], ts[i])
    BY <1>2 DEF Tracks
  <2>2. i \in 1 .. n /\ i + 1 \in 1 .. n
    BY <1>2
  <2>3. ts[i].start \in Nat /\ ts[i + 1].start \in Nat
    BY <1>3, <2>2
  <2> QED
    BY <2>1, <2>3 DEF BeginsBefore
<1> DEFINE S == {m \in Nat : \A i \in 1 .. n : i + m <= n => ts[i].start <= ts[i + m].start}
<1>6. 0 \in S
  BY <1>2, <1>3
<1>7. ASSUME NEW m \in Nat, m \in S
      PROVE  m + 1 \in S
  <2> SUFFICES ASSUME NEW i \in 1 .. n, i + (m + 1) <= n
               PROVE  ts[i].start <= ts[i + (m + 1)].start
    OBVIOUS
  <2>1. i + m <= n /\ i + m \in 1 .. n - 1 /\ i + m \in 1 .. n /\ (i + m) + 1 = i + (m + 1)
        /\ i + (m + 1) \in 1 .. n
    BY <1>2
  <2>2. ts[i].start <= ts[i + m].start
    BY <1>7, <2>1
  <2>3. ts[i + m].start <= ts[i + (m + 1)].start
    BY <1>5, <2>1
  <2>4. ts[i].start \in Nat /\ ts[i + m].start \in Nat /\ ts[i + (m + 1)].start \in Nat
    BY <1>3, <2>1
  <2> QED
    BY <2>2, <2>3, <2>4
<1> HIDE DEF S
<1>8. Nat \subseteq S
  BY <1>6, <1>7, Induction
<1>9. ASSUME NEW i \in 1 .. n, NEW j \in 1 .. n, i < j
      PROVE  ts[i].start <= ts[j].start
  <2>1. j - i \in Nat /\ i + (j - i) = j /\ j <= n
    BY <1>2, <1>9
  <2> QED
    BY <1>8, <2>1 DEF S
<1> QED
  BY <1>2, <1>4, <1>9 DEF InOrderOfStart

----------------------------------------------------------------------------
(* What the alignment may do next.                                         *)

\* A step of the alignment as the task makes it: it is given words or segments that are
\* in order, an engine raises, a loop goes on, or something else happens.
AlignStep ==
  \/ \E ws \in Seq(Word) : InTime(ws) /\ TakeWords(ws)
  \/ \E segs \in Seq(DiarizationSegment) : InOrderOfStart(segs) /\ TakeSegments(segs)
  \/ /\ phase \in {"idle", "segments"} /\ phase' = "raised"
     /\ UNCHANGED <<inputVars, pos, raw, numbers, speakers, buf, utterances>>
  \/ AssignSpeaker \/ NameSpeaker \/ GroupWord \/ Finish
  \/ UNCHANGED alignVars

\* The words of Parakeet are in the order of time.
LEMMA ParakeetInTime ==
  ASSUME ChunksInv
  PROVE  all_words \in Seq(Word) /\ InTime(all_words)
<1>1. all_words \in Seq(Word)
  BY DEF ChunksInv, ChunksTypeOK
<1>2. \A i \in DOMAIN all_words : i \in Nat /\ (i > 1 => i - 1 \in 1 .. Len(all_words) - 1 /\ (i - 1) + 1 = i)
  BY <1>1
<1>3. \A i \in DOMAIN all_words : all_words[i].start <= all_words[i].end
  BY DEF ChunksInv, WordsBehind
<1>4. \A i \in 1 .. Len(all_words) - 1 : all_words[i].end <= all_words[i + 1].start
  BY DEF ChunksInv, WordsInTheirWindow
<1>5. ASSUME NEW i \in DOMAIN all_words, i > 1
      PROVE  all_words[i - 1].end <= all_words[i].start
  <2>1. i - 1 \in 1 .. Len(all_words) - 1 /\ (i - 1) + 1 = i
    BY <1>2, <1>5
  <2>2. all_words[i - 1].end <= all_words[(i - 1) + 1].start
    BY <1>4, <2>1
  <2> QED
    BY <2>1, <2>2
<1> QED
  BY <1>1, <1>3, <1>5 DEF InTime

\* Whatever engine answers, the alignment is given words or segments in order.
LEMMA AlignMoves ==
  ASSUME ChunksInv, [Next]_vars
  PROVE  AlignStep
<1>1. duration \in Nat /\ duration \in Times
  BY ChunkTypes DEF ChunksInv, ChunksTypeOK
<1>2. CASE WordsOfParakeet
  BY <1>2, ParakeetInTime DEF WordsOfParakeet, AlignStep
<1>3. CASE WordsOfWhisper
  <2>1. PICK ws \in WhisperAnswers[duration] : TakeWords(ws)
    BY <1>3 DEF WordsOfWhisper
  <2>2. \E segs \in AsrSegmentSeqs(duration) : ws = WordsFromAsrSegments(segs)
    BY <1>1, <2>1 DEF WhisperAnswers
  <2>3. ws \in Seq(Word) /\ InTime(ws)
    BY <1>1, <2>2, WhisperInTime
  <2> QED
    BY <2>1, <2>3 DEF AlignStep
<1>4. CASE Diarize
  <2>1. PICK segs \in DiarizerAnswers[duration] : TakeSegments(segs)
    BY <1>4 DEF Diarize
  <2>2. \/ \E lines \in SortformerLines(duration) : segs = SegmentsFromSortformer(lines)
        \/ segs \in Tracks(duration)
    BY <1>1, <2>1 DEF DiarizerAnswers
  <2>3. segs \in Seq(DiarizationSegment) /\ InOrderOfStart(segs)
    BY <1>1, <2>2, SortformerInOrder, TracksInOrder
  <2> QED
    BY <2>1, <2>3 DEF AlignStep
<1>5. CASE EngineRaises
  BY <1>5 DEF EngineRaises, AlignStep
<1>6. CASE Align
  BY <1>6 DEF Align, AlignmentNext, AlignStep
<1>7. CASE Parakeet \/ UNCHANGED vars
  BY <1>7 DEF Parakeet, vars, AlignStep
<1> QED
  BY <1>2, <1>3, <1>4, <1>5, <1>6, <1>7 DEF Next

----------------------------------------------------------------------------
(* The types of the alignment, and how far its loops have come.            *)

\* The variables of the alignment, and their types.
LEMMA AlignTypes ==
  ASSUME AlignmentTypeOK
  PROVE  /\ words \in Seq(Word) /\ segments \in Seq(DiarizationSegment)
         /\ Len(words) \in Nat /\ DOMAIN words = 1 .. Len(words)
         /\ pos \in Nat /\ pos >= 1 /\ pos <= Len(words) + 1
         /\ raw \in Seq(Labels \cup {Unknown}) /\ numbers \in Seq(Labels)
         /\ speakers \in Seq(SpeakerName) /\ buf \in Seq(DOMAIN words)
         /\ utterances \in Seq(Utterance)
  BY DEF AlignmentTypeOK

\* A loop stays in its list, and goes over to the next one.
LEMMA Advanced ==
  ASSUME AlignmentTypeOK, NEW next, Advance(next)
  PROVE  pos' \in 1 .. Len(words) + 1 /\ phase' \in {phase, next}
<1>1. Len(words) \in Nat /\ pos \in Nat /\ pos >= 1
  BY AlignTypes
<1> QED
  BY <1>1 DEF Advance

\* A word is given to a label or to nobody.
LEMMA SpeakerForWordTyped ==
  ASSUME AlignmentTypeOK, NEW w \in Word
  PROVE  SpeakerForWord(w) \in Labels \cup {Unknown}
<1>1. \A i \in DOMAIN segments : segments[i].speaker \in Labels /\ i \in Nat
  <2>1. segments \in Seq(DiarizationSegment)
    BY AlignTypes
  <2>2. \A i \in DOMAIN segments : segments[i] \in DiarizationSegment /\ i \in Nat
    BY <2>1
  <2> QED
    BY <2>2 DEF DiarizationSegment
<1>2. \A S \in SUBSET DOMAIN segments : S # {} => segments[FirstOf(S)].speaker \in Labels
  <2> SUFFICES ASSUME NEW S \in SUBSET DOMAIN segments, S # {}
               PROVE  segments[FirstOf(S)].speaker \in Labels
    OBVIOUS
  <2>1. S \in SUBSET Nat
    BY <1>1
  <2>2. FirstOf(S) \in S
    BY <2>1, FirstIsFirst
  <2> QED
    BY <1>1, <2>2
<1> QED
  BY <1>2 DEF SpeakerForWord

\* What Flushed makes of buf is a line.
LEMMA FlushedTyped ==
  ASSUME AlignmentTypeOK, Len(speakers) = Len(words) \/ buf = <<>>
  PROVE  Flushed \in Seq(Utterance)
<1>1. CASE buf = <<>>
  BY <1>1, AlignTypes DEF Flushed
<1>2. CASE buf # <<>> /\ Len(speakers) = Len(words)
  <2>1. Head(buf) \in DOMAIN words
    BY <1>2, AlignTypes
  <2>2. Head(buf) \in DOMAIN speakers
    BY <1>2, <2>1, AlignTypes
  <2>3. speakers[Head(buf)] \in SpeakerName
    BY <2>2, AlignTypes
  <2> DEFINE line == [words |-> buf, speaker |-> speakers[Head(buf)]]
  <2>4. line \in Utterance
    BY <2>3, AlignTypes DEF Utterance
  <2>5. Flushed = Append(utterances, line)
    BY <1>2 DEF Flushed
  <2> HIDE DEF line
  <2> QED
    BY <2>4, <2>5, AlignTypes
<1> QED
  BY <1>1, <1>2

\* The loop over the words gives the next one a voice.
LEMMA AssignStep ==
  ASSUME AlignmentTypeOK, LoopsInStep, AssignSpeaker
  PROVE  /\ phase = "speakers" /\ words # <<>> /\ pos \in DOMAIN words /\ words[pos] \in Word
         /\ SpeakerForWord(words[pos]) \in Labels \cup {Unknown}
         /\ raw' = Append(raw, SpeakerForWord(words[pos]))
         /\ raw' \in Seq(Labels \cup {Unknown}) /\ Len(raw') = pos /\ Len(raw) = pos - 1
         /\ \A i \in DOMAIN raw : raw'[i] = raw[i]
         /\ raw'[pos] = SpeakerForWord(words[pos])
         /\ UNCHANGED <<words, segments, diarized, numbers, speakers, buf, utterances>>
<1>1. /\ phase = "speakers" /\ words # <<>> /\ pos \in DOMAIN words /\ Len(raw) = pos - 1
      /\ pos \in Nat /\ raw \in Seq(Labels \cup {Unknown})
  BY AlignTypes DEF AssignSpeaker, LoopsInStep
<1>2. words[pos] \in Word
  BY <1>1, AlignTypes
<1> DEFINE label == SpeakerForWord(words[pos])
<1>3. label \in Labels \cup {Unknown}
  BY <1>2, SpeakerForWordTyped
<1>4. raw' = Append(raw, label) /\ UNCHANGED <<words, segments, diarized, numbers, speakers, buf, utterances>>
  BY DEF AssignSpeaker, inputVars
<1> HIDE DEF label
<1>5. /\ raw' \in Seq(Labels \cup {Unknown}) /\ Len(raw') = pos
      /\ \A i \in DOMAIN raw : raw'[i] = raw[i]
      /\ raw'[pos] = label
  BY <1>1, <1>3, <1>4
<1> QED
  BY <1>1, <1>2, <1>3, <1>4, <1>5 DEF label

\* The label the next word was given, and where the mapping holds it.
NextLabel == raw[pos]
Seen == {i \in DOMAIN numbers : numbers[i] = NextLabel}

\* The loop over the labels gives the next one a number, if it is known.
LEMMA NameStep ==
  ASSUME AlignmentTypeOK, LoopsInStep, NameSpeaker
  PROVE  /\ phase = "names" /\ pos \in DOMAIN words /\ pos \in DOMAIN raw
         /\ Len(raw) = Len(words) /\ Len(speakers) = pos - 1
         /\ NextLabel \in Labels \cup {Unknown}
         /\ \E name \in SpeakerName :
              /\ speakers' = Append(speakers, name)
              /\ \/ NextLabel = Unknown /\ name = Unknown /\ numbers' = numbers
                 \/ /\ NextLabel \in Labels /\ NextLabel # Unknown /\ Seen = {}
                    /\ name = Len(numbers) /\ numbers' = Append(numbers, NextLabel)
                 \/ /\ NextLabel \in Labels /\ NextLabel # Unknown /\ Seen # {} /\ Seen \in SUBSET Nat
                    /\ FirstOf(Seen) \in Seen /\ name = FirstOf(Seen) - 1 /\ name \in Nat
                    /\ numbers' = numbers
         /\ speakers' \in Seq(SpeakerName) /\ Len(speakers') = pos
         /\ \A i \in DOMAIN speakers : speakers'[i] = speakers[i]
         /\ numbers' \in Seq(Labels)
         /\ UNCHANGED <<words, segments, diarized, raw, buf, utterances>>
<1>1. /\ phase = "names" /\ pos \in DOMAIN words /\ pos \in DOMAIN raw /\ pos \in Nat
      /\ Len(raw) = Len(words) /\ Len(speakers) = pos - 1
      /\ UNCHANGED <<words, segments, diarized, raw, buf, utterances>>
  BY AlignTypes DEF NameSpeaker, LoopsInStep, inputVars
<1>2. NextLabel \in Labels \cup {Unknown}
  BY <1>1, AlignTypes DEF NextLabel
<1>3. /\ Seen \in SUBSET Nat /\ Len(numbers) \in Nat /\ \A i \in Seen : i >= 1
  BY AlignTypes DEF Seen
<1>4. Seen # {} => FirstOf(Seen) \in Seen /\ FirstOf(Seen) - 1 \in Nat
  <2> SUFFICES ASSUME Seen # {} PROVE FirstOf(Seen) \in Seen /\ FirstOf(Seen) - 1 \in Nat
    OBVIOUS
  <2>1. FirstOf(Seen) \in Seen
    BY <1>3, FirstIsFirst
  <2>2. FirstOf(Seen) \in Nat /\ FirstOf(Seen) >= 1
    BY <1>3, <2>1
  <2> QED
    BY <2>1, <2>2
<1>5. IF NextLabel = Unknown
        THEN speakers' = Append(speakers, Unknown) /\ numbers' = numbers
        ELSE IF Seen = {}
          THEN numbers' = Append(numbers, NextLabel) /\ speakers' = Append(speakers, Len(numbers))
          ELSE speakers' = Append(speakers, FirstOf(Seen) - 1) /\ numbers' = numbers
  BY DEF NameSpeaker, Known, Seen, NextLabel
<1>6. \E name \in SpeakerName :
        /\ speakers' = Append(speakers, name)
        /\ \/ NextLabel = Unknown /\ name = Unknown /\ numbers' = numbers
           \/ /\ NextLabel \in Labels /\ NextLabel # Unknown /\ Seen = {}
              /\ name = Len(numbers) /\ numbers' = Append(numbers, NextLabel)
           \/ /\ NextLabel \in Labels /\ NextLabel # Unknown /\ Seen # {} /\ Seen \in SUBSET Nat
              /\ FirstOf(Seen) \in Seen /\ name = FirstOf(Seen) - 1 /\ name \in Nat
              /\ numbers' = numbers
  <2>1. CASE NextLabel = Unknown
    BY <1>5, <2>1 DEF SpeakerName
  <2>2. CASE NextLabel # Unknown /\ Seen = {}
    BY <1>2, <1>3, <1>5, <2>2 DEF SpeakerName
  <2>3. CASE NextLabel # Unknown /\ Seen # {}
    BY <1>2, <1>3, <1>4, <1>5, <2>3 DEF SpeakerName
  <2> QED
    BY <2>1, <2>2, <2>3
<1>7. PICK name \in SpeakerName : speakers' = Append(speakers, name)
  BY <1>6
<1>8. /\ speakers' \in Seq(SpeakerName) /\ Len(speakers') = pos
      /\ \A i \in DOMAIN speakers : speakers'[i] = speakers[i]
  <2>1. speakers \in Seq(SpeakerName)
    BY AlignTypes
  <2> QED
    BY <1>1, <1>7, <2>1
<1>9. numbers' \in Seq(Labels)
  <2>1. numbers \in Seq(Labels)
    BY AlignTypes
  <2>2. numbers' = numbers \/ (NextLabel \in Labels /\ numbers' = Append(numbers, NextLabel))
    BY <1>6
  <2> QED
    BY <2>1, <2>2
<1> QED
  BY <1>1, <1>2, <1>6, <1>8, <1>9

\* The loop over the numbered words takes the next one into buf.
LEMMA GroupStep ==
  ASSUME AlignmentTypeOK, LoopsInStep, GroupWord
  PROVE  /\ phase = "group" /\ pos \in DOMAIN words /\ Len(speakers) = Len(words) /\ pos' = pos + 1
         /\ buf' \in Seq(DOMAIN words) /\ utterances' \in Seq(Utterance)
         /\ \/ buf # <<>> /\ GoesOn(Head(buf), pos) /\ buf' = Append(buf, pos) /\ utterances' = utterances
            \/ (buf = <<>> \/ ~GoesOn(Head(buf), pos)) /\ buf' = <<pos>> /\ utterances' = Flushed
         /\ UNCHANGED <<words, segments, diarized, phase, raw, numbers, speakers>>
<1>1. /\ phase = "group" /\ pos \in DOMAIN words /\ Len(speakers) = Len(words) /\ pos' = pos + 1
      /\ UNCHANGED <<words, segments, diarized, phase, raw, numbers, speakers>>
  BY AlignTypes DEF GroupWord, LoopsInStep, inputVars
<1>2. \/ buf # <<>> /\ GoesOn(Head(buf), pos) /\ buf' = Append(buf, pos) /\ utterances' = utterances
      \/ (buf = <<>> \/ ~GoesOn(Head(buf), pos)) /\ buf' = <<pos>> /\ utterances' = Flushed
  BY DEF GroupWord
<1>3. buf \in Seq(DOMAIN words) /\ utterances \in Seq(Utterance) /\ Flushed \in Seq(Utterance)
  BY <1>1, AlignTypes, FlushedTyped
<1>4. buf' \in Seq(DOMAIN words)
  <2>1. buf' = Append(buf, pos) \/ buf' = <<pos>>
    BY <1>2
  <2> DEFINE D == DOMAIN words
  <2>2. pos \in D /\ buf \in Seq(D)
    BY <1>1, <1>3
  <2> HIDE DEF D
  <2>3. buf' \in Seq(D)
    <3>1. Append(buf, pos) \in Seq(D)
      BY <2>2
    <3>2. <<pos>> \in Seq(D)
      BY <2>2
    <3> QED
      BY <2>1, <3>1, <3>2
  <2> QED
    BY <2>3 DEF D
<1>5. utterances' \in Seq(Utterance)
  BY <1>2, <1>3
<1> QED
  BY <1>1, <1>2, <1>4, <1>5

\* The types are kept.
LEMMA AlignTyped ==
  ASSUME AlignmentTypeOK, LoopsInStep, AlignStep
  PROVE  AlignmentTypeOK'
<1>1. CASE \E ws \in Seq(Word) : InTime(ws) /\ TakeWords(ws)
  <2>1. PICK ws \in Seq(Word) : TakeWords(ws)
    BY <1>1
  <2>2. /\ phase = "idle" /\ words' = ws /\ pos' = 1 /\ Len(ws) \in Nat
        /\ raw = <<>> /\ numbers = <<>> /\ speakers = <<>> /\ buf = <<>> /\ utterances = <<>>
        /\ UNCHANGED <<segments, diarized, raw, numbers, buf, utterances>>
        /\ phase' \in {"segments", "group"}
        /\ speakers' = <<>> \/ speakers' = [i \in DOMAIN ws |-> NoSpeaker]
    BY <2>1 DEF TakeWords, LoopsInStep
  <2>3. speakers' \in Seq(SpeakerName)
    <3> DEFINE none == [i \in DOMAIN ws |-> NoSpeaker]
    <3>1. none \in [1 .. Len(ws) -> SpeakerName] /\ <<>> \in Seq(SpeakerName)
      BY DEF SpeakerName
    <3>2. speakers' = <<>> \/ speakers' = none
      BY <2>2
    <3> HIDE DEF none
    <3>3. none \in Seq(SpeakerName)
      BY <2>2, <3>1
    <3> QED
      BY <3>1, <3>2, <3>3
  <2>4. pos' \in 1 .. Len(words') + 1
    BY <2>2
  <2> QED
    BY <2>2, <2>3, <2>4 DEF AlignmentTypeOK
<1>2. CASE \E segs \in Seq(DiarizationSegment) : InOrderOfStart(segs) /\ TakeSegments(segs)
  BY <1>2 DEF TakeSegments, AlignmentTypeOK, Utterance
<1>3. CASE /\ phase' = "raised"
           /\ UNCHANGED <<inputVars, pos, raw, numbers, speakers, buf, utterances>>
  BY <1>3 DEF inputVars, AlignmentTypeOK, Utterance
<1>4. CASE AssignSpeaker
  <2>1. pos' \in 1 .. Len(words) + 1 /\ phase' \in {"speakers", "names"}
    BY <1>4, Advanced DEF AssignSpeaker
  <2> QED
    BY <1>4, <2>1, AssignStep DEF AlignmentTypeOK, Utterance
<1>5. CASE NameSpeaker
  <2>1. pos' \in 1 .. Len(words) + 1 /\ phase' \in {"names", "group"}
    BY <1>5, Advanced DEF NameSpeaker
  <2>2. /\ UNCHANGED <<words, segments, diarized, raw, buf, utterances>>
        /\ speakers' \in Seq(SpeakerName) /\ numbers' \in Seq(Labels)
    BY <1>5, NameStep
  <2>3. Utterance' = Utterance /\ SpeakerName' = SpeakerName
    BY <2>2 DEF Utterance, SpeakerName
  <2>4. /\ words' \in Seq(Word) /\ segments' \in Seq(DiarizationSegment) /\ diarized' \in BOOLEAN
        /\ raw' \in Seq(Labels \cup {Unknown})
    BY <2>2 DEF AlignmentTypeOK
  <2>5. buf' \in Seq(DOMAIN words') /\ utterances' \in Seq(Utterance')
    BY <2>2, <2>3 DEF AlignmentTypeOK
  <2>6. phase' \in {"idle", "segments", "speakers", "names", "group", "done", "raised"}
    BY <2>1
  <2>7. pos' \in 1 .. Len(words') + 1
    BY <2>1, <2>2
  <2> QED
    BY <2>2, <2>4, <2>5, <2>6, <2>7 DEF AlignmentTypeOK, SpeakerName
<1>6. CASE GroupWord
  <2>1. pos' \in 1 .. Len(words) + 1
    <3>1. pos' = pos + 1 /\ pos <= Len(words)
      BY <1>6 DEF GroupWord
    <3>2. pos \in 1 .. Len(words) + 1 /\ Len(words) \in Nat
      BY AlignTypes DEF AlignmentTypeOK
    <3> QED
      BY <3>1, <3>2
  <2>2. /\ UNCHANGED <<words, segments, diarized, phase, raw, numbers, speakers>>
        /\ buf' \in Seq(DOMAIN words) /\ utterances' \in Seq(Utterance)
    BY <1>6, GroupStep
  <2>3. Utterance' = Utterance
    BY <2>2 DEF Utterance
  <2>4. /\ words' \in Seq(Word) /\ segments' \in Seq(DiarizationSegment) /\ diarized' \in BOOLEAN
        /\ raw' \in Seq(Labels \cup {Unknown}) /\ numbers' \in Seq(Labels)
        /\ speakers' \in Seq(SpeakerName)
        /\ phase' \in {"idle", "segments", "speakers", "names", "group", "done", "raised"}
    BY <2>2 DEF AlignmentTypeOK
  <2>5. buf' \in Seq(DOMAIN words') /\ utterances' \in Seq(Utterance')
    BY <2>2, <2>3
  <2>6. pos' \in 1 .. Len(words') + 1
    BY <2>1, <2>2
  <2> QED
    BY <2>4, <2>5, <2>6 DEF AlignmentTypeOK, SpeakerName
<1>7. CASE Finish
  <2>1. Len(speakers) = Len(words) \/ buf = <<>>
    BY <1>7 DEF Finish, LoopsInStep
  <2>2. /\ phase' = "done" /\ buf' = <<>> /\ utterances' \in Seq(Utterance)
        /\ UNCHANGED <<words, segments, diarized, pos, raw, numbers, speakers>>
    BY <1>7, <2>1, FlushedTyped DEF Finish, inputVars
  <2> QED
    BY <2>2 DEF AlignmentTypeOK, Utterance
<1>8. CASE UNCHANGED alignVars
  BY <1>8 DEF alignVars, inputVars, AlignmentTypeOK, Utterance
<1> QED
  BY <1>1, <1>2, <1>3, <1>4, <1>5, <1>6, <1>7, <1>8 DEF AlignStep

\* Each loop leaves to the next what it needs.
LEMMA LoopsStep ==
  ASSUME AlignmentTypeOK, LoopsInStep, AlignStep
  PROVE  LoopsInStep'
<1>1. CASE \E ws \in Seq(Word) : InTime(ws) /\ TakeWords(ws)
  <2>1. PICK ws \in Seq(Word) : TakeWords(ws)
    BY <1>1
  <2>2. Len(ws) \in Nat /\ DOMAIN ws = 1 .. Len(ws) /\ Len([i \in DOMAIN ws |-> NoSpeaker]) = Len(ws)
    OBVIOUS
  <2> QED
    BY <2>1, <2>2 DEF TakeWords, LoopsInStep
<1>2. CASE \E segs \in Seq(DiarizationSegment) : InOrderOfStart(segs) /\ TakeSegments(segs)
  <2>1. /\ phase = "segments" /\ phase' = "speakers"
        /\ UNCHANGED <<words, diarized, pos, raw, numbers, speakers, buf, utterances>>
    BY <1>2 DEF TakeSegments
  <2>2. words = <<>> \/ 1 <= Len(words)
    BY AlignTypes
  <2> QED
    BY <2>1, <2>2 DEF LoopsInStep
<1>3. CASE /\ phase \in {"idle", "segments"} /\ phase' = "raised"
           /\ UNCHANGED <<inputVars, pos, raw, numbers, speakers, buf, utterances>>
  BY <1>3 DEF inputVars, LoopsInStep
<1>4. CASE AssignSpeaker
  <2>1. /\ phase = "speakers" /\ Len(raw') = pos /\ words # <<>>
        /\ UNCHANGED <<words, segments, diarized, numbers, speakers, buf, utterances>>
    BY <1>4, AssignStep
  <2>2. \/ pos < Len(words) /\ pos' = pos + 1 /\ phase' = "speakers"
        \/ pos = Len(words) /\ pos' = 1 /\ phase' = "names"
    BY <1>4, <2>1, AlignTypes DEF AssignSpeaker, Advance, LoopsInStep
  <2>3. Len(words) \in Nat /\ pos \in Nat /\ pos >= 1 /\ diarized /\ Len(<<>>) = 0
        /\ numbers = <<>> /\ speakers = <<>> /\ buf = <<>> /\ utterances = <<>>
    BY <2>1, AlignTypes DEF LoopsInStep
  <2> QED
    BY <2>1, <2>2, <2>3 DEF LoopsInStep
<1>5. CASE NameSpeaker
  <2>1. /\ phase = "names" /\ Len(speakers') = pos /\ Len(raw) = Len(words)
        /\ UNCHANGED <<words, segments, diarized, raw, buf, utterances>>
    BY <1>5, NameStep
  <2>2. \/ pos < Len(words) /\ pos' = pos + 1 /\ phase' = "names"
        \/ pos = Len(words) /\ pos' = 1 /\ phase' = "group"
    BY <1>5, <2>1, AlignTypes DEF NameSpeaker, Advance, LoopsInStep
  <2>3. Len(words) \in Nat /\ pos \in Nat /\ diarized /\ buf = <<>> /\ utterances = <<>>
    BY <2>1, AlignTypes DEF LoopsInStep
  <2> QED
    BY <2>1, <2>2, <2>3 DEF LoopsInStep
<1>6. CASE GroupWord
  <2>1. /\ phase = "group"
        /\ UNCHANGED <<words, segments, diarized, phase, raw, numbers, speakers>>
    BY <1>6, GroupStep
  <2> QED
    BY <2>1 DEF LoopsInStep
<1>7. CASE Finish
  <2>1. /\ phase = "group" \/ (phase = "speakers" /\ words = <<>>)
        /\ phase' = "done" /\ UNCHANGED <<words, segments, diarized, pos, raw, numbers, speakers>>
    BY <1>7 DEF Finish, inputVars
  <2>2. phase = "speakers" /\ words = <<>> => Len(words) = 0 /\ Len(raw) = 0 /\ Len(speakers) = 0
    BY AlignTypes DEF LoopsInStep
  <2> QED
    BY <2>1, <2>2 DEF LoopsInStep
<1>8. CASE UNCHANGED alignVars
  BY <1>8 DEF alignVars, inputVars, LoopsInStep
<1> QED
  BY <1>1, <1>2, <1>3, <1>4, <1>5, <1>6, <1>7, <1>8 DEF AlignStep

\* Words and segments come in the order of time and stay as they are.
LEMMA OrderStep ==
  ASSUME InputsInOrder, AlignStep
  PROVE  InputsInOrder'
<1>1. CASE \E ws \in Seq(Word) : InTime(ws) /\ TakeWords(ws)
  BY <1>1 DEF TakeWords, InputsInOrder, InTime, InOrderOfStart
<1>2. CASE \E segs \in Seq(DiarizationSegment) : InOrderOfStart(segs) /\ TakeSegments(segs)
  BY <1>2 DEF TakeSegments, InputsInOrder, InTime, InOrderOfStart
<1>3. CASE words' = words /\ segments' = segments
  BY <1>3 DEF InputsInOrder, InTime, InOrderOfStart
<1>4. CASE \/ UNCHANGED <<inputVars, pos, raw, numbers, speakers, buf, utterances>>
           \/ AssignSpeaker \/ NameSpeaker \/ GroupWord \/ Finish
           \/ UNCHANGED alignVars
  BY <1>3, <1>4 DEF AssignSpeaker, NameSpeaker, GroupWord, Finish, alignVars, inputVars
<1> QED
  BY <1>1, <1>2, <1>4 DEF AlignStep

----------------------------------------------------------------------------
(* A word is given to a voice that was speaking.                           *)

\* Of segments in the order of their beginnings, the first of the list began first.
LEMMA FirstBegan ==
  ASSUME AlignmentTypeOK, InOrderOfStart(segments),
         NEW S \in SUBSET DOMAIN segments, S # {}
  PROVE  segments[FirstOf(S)].speaker \in FirstToSpeak(S)
<1>1. segments \in Seq(DiarizationSegment)
  BY AlignTypes
<1>2. \A i \in DOMAIN segments : i \in Nat /\ segments[i].start \in Nat
  <2>1. \A i \in DOMAIN segments : i \in Nat /\ segments[i] \in DiarizationSegment
    BY <1>1
  <2> QED
    BY <2>1 DEF DiarizationSegment
<1> DEFINE first == FirstOf(S)
<1>3. first \in S /\ \A j \in S : first <= j
  <2>1. S \in SUBSET Nat
    BY <1>2
  <2> QED
    BY <2>1, FirstIsFirst
<1> HIDE DEF first
<1>4. ASSUME NEW k \in S
      PROVE  segments[first].start <= segments[k].start
  <2>1. first \in DOMAIN segments /\ k \in DOMAIN segments /\ first <= k
    BY <1>3
  <2>2. CASE first = k
    BY <1>2, <2>1, <2>2
  <2>3. CASE first < k
    BY <2>1, <2>3 DEF InOrderOfStart
  <2> QED
    BY <1>2, <2>1, <2>2, <2>3
<1>5. segments[first].speaker \in FirstToSpeak(S)
  BY <1>3, <1>4 DEF FirstToSpeak
<1> QED
  BY <1>5 DEF first

\* The first segment of the list that the word lies in, or that holds its centre, is one
\* of those who began first.
LEMMA VoiceWasSpeaking ==
  ASSUME AlignmentTypeOK, InOrderOfStart(segments), NEW w \in Word, w.start <= w.end
  PROVE  /\ Centred(w) = {} => SpeakerForWord(w) = Unknown
         /\ Centred(w) # {} => SpeakerForWord(w) \in
              FirstToSpeak(IF Inside(w) # {} THEN Inside(w) ELSE Centred(w))
<1>1. w.start \in Nat /\ w.end \in Nat
  BY DEF Word
<1>2. \A i \in DOMAIN segments : segments[i].start \in Nat /\ segments[i].end \in Nat
  <2>1. segments \in Seq(DiarizationSegment)
    BY AlignTypes
  <2>2. \A i \in DOMAIN segments : segments[i] \in DiarizationSegment
    BY <2>1
  <2> QED
    BY <2>2 DEF DiarizationSegment
<1>3. Inside(w) = {i \in DOMAIN segments : Encloses(segments[i], w)}
  BY <1>1, <1>2 DEF Inside, Encloses
<1>4. Centred(w) = {i \in DOMAIN segments : HoldsCentre(segments[i], w)}
  BY DEF Centred
<1>5. Inside(w) \in SUBSET DOMAIN segments /\ Centred(w) \in SUBSET DOMAIN segments
  BY DEF Inside, Centred
<1>6. Inside(w) \subseteq Centred(w)
  BY <1>1, <1>2 DEF Inside, Centred, HoldsCentre
<1>7. SpeakerForWord(w) = IF Inside(w) # {} THEN segments[FirstOf(Inside(w))].speaker
                          ELSE IF Centred(w) # {} THEN segments[FirstOf(Centred(w))].speaker
                          ELSE Unknown
  BY <1>3, <1>4 DEF SpeakerForWord
<1>8. Inside(w) # {} => segments[FirstOf(Inside(w))].speaker \in FirstToSpeak(Inside(w))
  BY <1>5, FirstBegan
<1>9. Centred(w) # {} => segments[FirstOf(Centred(w))].speaker \in FirstToSpeak(Centred(w))
  BY <1>5, FirstBegan
<1> QED
  BY <1>6, <1>7, <1>8, <1>9

\* A word that was given a voice keeps it, and the next one is given a speaking one.
LEMMA SpeakerStep ==
  ASSUME AlignmentTypeOK, LoopsInStep, InputsInOrder, SpeakerWasSpeaking, AlignStep
  PROVE  SpeakerWasSpeaking'
<1> DEFINE Given(i, label) ==
             /\ Centred(words[i]) = {} => label = Unknown
             /\ Centred(words[i]) # {} => label \in
                  FirstToSpeak(IF Inside(words[i]) # {} THEN Inside(words[i]) ELSE Centred(words[i]))
<1>1. CASE AssignSpeaker
  <2>1. words[pos].start <= words[pos].end /\ words[pos] \in Word /\ InOrderOfStart(segments)
    BY <1>1, AssignStep DEF InputsInOrder, InTime
  <2>2. Given(pos, SpeakerForWord(words[pos]))
    BY <2>1, VoiceWasSpeaking
  <2>3. \A i \in DOMAIN raw : Given(i, raw[i])
    BY DEF SpeakerWasSpeaking
  <2>4. /\ raw' \in Seq(Labels \cup {Unknown}) /\ Len(raw') = pos /\ Len(raw) = pos - 1
        /\ \A i \in DOMAIN raw : raw'[i] = raw[i]
        /\ raw'[pos] = SpeakerForWord(words[pos])
        /\ words' = words /\ segments' = segments
    BY <1>1, AssignStep
  <2>5. \A i \in DOMAIN raw' : i = pos \/ i \in DOMAIN raw
    BY <2>4, AlignTypes
  <2> HIDE DEF Given
  <2>6. \A i \in DOMAIN raw' : Given(i, raw'[i])
    BY <2>2, <2>3, <2>4, <2>5
  <2> QED
    BY <2>4, <2>6
       DEF Given, SpeakerWasSpeaking, Centred, Inside, FirstToSpeak, HoldsCentre
<1>2. CASE raw' = raw /\ (raw = <<>> \/ (words' = words /\ segments' = segments))
  BY <1>2 DEF SpeakerWasSpeaking, Centred, Inside, FirstToSpeak, HoldsCentre
<1>3. CASE \/ \E ws \in Seq(Word) : TakeWords(ws)
           \/ \E segs \in Seq(DiarizationSegment) : TakeSegments(segs)
  <2>1. raw' = raw /\ raw = <<>>
    BY <1>3 DEF TakeWords, TakeSegments, LoopsInStep
  <2> QED
    BY <1>2, <2>1
<1>4. CASE \/ UNCHANGED <<inputVars, pos, raw, numbers, speakers, buf, utterances>>
           \/ NameSpeaker \/ GroupWord \/ Finish \/ UNCHANGED alignVars
  <2>1. raw' = raw /\ words' = words /\ segments' = segments
    BY <1>4 DEF NameSpeaker, GroupWord, Finish, alignVars, inputVars
  <2> QED
    BY <1>2, <2>1
<1> QED
  BY <1>1, <1>3, <1>4 DEF AlignStep

----------------------------------------------------------------------------
(* The voices are numbered by appearance.                                  *)

\* A word that nobody spoke.
LEMMA NumberOfUnknown ==
  ASSUME AlignmentTypeOK, pos \in DOMAIN raw, NextLabel = Unknown, MappingKnown(numbers, pos - 1)
  PROVE  MappingKnown(numbers, pos) /\ NumberKnown(numbers, Unknown, pos)
<1>1. pos \in Nat /\ pos >= 1 /\ 1 .. pos = (1 .. pos - 1) \cup {pos}
  BY AlignTypes
<1>2. {raw[i] : i \in 1 .. pos} = {raw[i] : i \in 1 .. pos - 1} \cup {raw[pos]}
  BY <1>1
<1> QED
  BY <1>2 DEF NextLabel, MappingKnown, NumberKnown

\* A voice that was not met before has all the voices met so far before it.
LEMMA NumberOfNew ==
  ASSUME AlignmentTypeOK, pos \in DOMAIN raw, NextLabel \in Labels, NextLabel # Unknown,
         Seen = {}, MappingKnown(numbers, pos - 1)
  PROVE  /\ MappingKnown(Append(numbers, NextLabel), pos)
         /\ NumberKnown(Append(numbers, NextLabel), Len(numbers), pos)
         /\ \A i \in DOMAIN raw, name \in Nat \cup {Unknown} :
              NumberKnown(numbers, name, i) => NumberKnown(Append(numbers, NextLabel), name, i)
<1> DEFINE n == Len(numbers)
           more == Append(numbers, NextLabel)
<1>1. /\ pos \in Nat /\ pos >= 1 /\ 1 .. pos = (1 .. pos - 1) \cup {pos}
      /\ numbers \in Seq(Labels) /\ n \in Nat /\ DOMAIN numbers = 1 .. n
  BY AlignTypes
<1>2. /\ Len(more) = n + 1 /\ DOMAIN more = 1 .. n + 1 /\ more[n + 1] = NextLabel
      /\ \A k \in 1 .. n : more[k] = numbers[k]
  BY <1>1
<1>3. \A k \in 1 .. n : numbers[k] # NextLabel
  BY <1>1 DEF Seen
<1> HIDE DEF more, n
<1>4. IsInjective(numbers) /\ Range(numbers) = {raw[i] : i \in 1 .. pos - 1} \ {Unknown}
  BY DEF MappingKnown
<1>5. \A j, k \in 1 .. n : numbers[j] = numbers[k] => j = k
  BY <1>1, <1>4 DEF IsInjective
<1>6. IsInjective(more)
  <2> SUFFICES ASSUME NEW j \in 1 .. n + 1, NEW k \in 1 .. n + 1, more[j] = more[k]
               PROVE  j = k
    BY <1>2 DEF IsInjective
  <2>1. (j \in 1 .. n \/ j = n + 1) /\ (k \in 1 .. n \/ k = n + 1)
    BY <1>1
  <2> QED
    BY <1>2, <1>3, <1>5, <2>1
<1>7. Range(numbers) = {numbers[k] : k \in 1 .. n}
  BY <1>1 DEF Range
<1>8. Range(more) = Range(numbers) \cup {NextLabel}
  <2>1. 1 .. n + 1 = (1 .. n) \cup {n + 1}
    BY <1>1
  <2>2. Range(more) = {more[k] : k \in 1 .. n} \cup {more[n + 1]}
    BY <1>2, <2>1 DEF Range
  <2>3. {more[k] : k \in 1 .. n} = {numbers[k] : k \in 1 .. n}
    BY <1>2
  <2> QED
    BY <1>2, <1>7, <2>2, <2>3
<1>9. MappingKnown(more, pos)
  <2>1. {raw[i] : i \in 1 .. pos} = {raw[i] : i \in 1 .. pos - 1} \cup {NextLabel}
    BY <1>1 DEF NextLabel
  <2> QED
    BY <1>4, <1>6, <1>8, <2>1 DEF MappingKnown
<1>10. \A i \in 1 .. pos - 1 : raw[i] # NextLabel
  <2> SUFFICES ASSUME NEW i \in 1 .. pos - 1, raw[i] = NextLabel
               PROVE  FALSE
    OBVIOUS
  <2>1. NextLabel \in Range(numbers)
    BY <1>4
  <2> QED
    BY <1>3, <1>7, <2>1
<1>11. EarlierVoices(pos) = {more[k] : k \in 1 .. n}
  <2>1. {k \in 1 .. pos - 1 : \A h \in 1 .. k : raw[h] # raw[pos]} = 1 .. pos - 1
    <3>1. ASSUME NEW k \in 1 .. pos - 1, NEW h \in 1 .. k
          PROVE  raw[h] # raw[pos]
      <4>1. h \in 1 .. pos - 1
        BY <1>1
      <4> QED
        BY <1>10, <4>1 DEF NextLabel
    <3> QED
      BY <3>1
  <2>2. EarlierVoices(pos) = Range(numbers)
    BY <1>4, <2>1 DEF EarlierVoices
  <2>3. {more[k] : k \in 1 .. n} = {numbers[k] : k \in 1 .. n}
    BY <1>2
  <2> QED
    BY <1>7, <2>2, <2>3
<1>12. NumberKnown(more, n, pos)
  <2>1. n \in 0 .. Len(more) - 1 /\ more[n + 1] = raw[pos] /\ raw[pos] # Unknown
    BY <1>1, <1>2 DEF NextLabel
  <2> QED
    BY <1>11, <2>1 DEF NumberKnown
<1>13. ASSUME NEW i \in DOMAIN raw, NEW name \in Nat \cup {Unknown}, NumberKnown(numbers, name, i)
       PROVE  NumberKnown(more, name, i)
  <2>1. CASE raw[i] = Unknown
    BY <1>13, <2>1 DEF NumberKnown
  <2>2. CASE raw[i] # Unknown
    <3>1. /\ name \in 0 .. n - 1 /\ numbers[name + 1] = raw[i]
          /\ EarlierVoices(i) = {numbers[k] : k \in 1 .. name}
      BY <1>13, <2>2 DEF NumberKnown, n
    <3>2. name \in 0 .. Len(more) - 1 /\ name + 1 \in 1 .. n /\ 1 .. name \subseteq 1 .. n
      BY <1>1, <1>2, <3>1
    <3>3. more[name + 1] = raw[i] /\ {more[k] : k \in 1 .. name} = {numbers[k] : k \in 1 .. name}
      BY <1>2, <3>1, <3>2
    <3> QED
      BY <2>2, <3>1, <3>2, <3>3 DEF NumberKnown
  <2> QED
    BY <2>1, <2>2
<1> QED
  BY <1>9, <1>12, <1>13 DEF more, n

\* A voice that was met before has the number it was given then.
LEMMA NumberOfKnown ==
  ASSUME AlignmentTypeOK, pos \in DOMAIN raw, NextLabel \in Labels, NextLabel # Unknown,
         NEW k0 \in Seen, MappingKnown(numbers, pos - 1),
         NEW named, \A i \in 1 .. pos - 1 : NumberKnown(numbers, named[i], i)
  PROVE  MappingKnown(numbers, pos) /\ NumberKnown(numbers, k0 - 1, pos)
<1>1. /\ pos \in Nat /\ pos >= 1 /\ 1 .. pos = (1 .. pos - 1) \cup {pos}
      /\ Len(numbers) \in Nat /\ DOMAIN numbers = 1 .. Len(numbers)
  BY AlignTypes
<1>2. k0 \in 1 .. Len(numbers) /\ numbers[k0] = NextLabel
  BY <1>1 DEF Seen
<1>3. IsInjective(numbers) /\ Range(numbers) = {raw[i] : i \in 1 .. pos - 1} \ {Unknown}
  BY DEF MappingKnown
<1>4. NextLabel \in Range(numbers)
  BY <1>1, <1>2 DEF Range
<1>5. PICK i \in 1 .. pos - 1 : raw[i] = NextLabel
  BY <1>3, <1>4
<1>6. raw[pos] = NextLabel /\ i \in Nat /\ i >= 1 /\ i <= pos - 1
  BY <1>1 DEF NextLabel
<1>7. MappingKnown(numbers, pos)
  <2>1. {raw[j] : j \in 1 .. pos} = {raw[j] : j \in 1 .. pos - 1}
    BY <1>1, <1>5, <1>6
  <2> QED
    BY <2>1 DEF MappingKnown
<1>8. /\ named[i] \in 0 .. Len(numbers) - 1 /\ numbers[named[i] + 1] = NextLabel
      /\ EarlierVoices(i) = {numbers[k] : k \in 1 .. named[i]}
  <2>1. NumberKnown(numbers, named[i], i)
    OBVIOUS
  <2> QED
    BY <1>5, <2>1 DEF NumberKnown
<1>9. named[i] = k0 - 1
  <2>1. named[i] + 1 \in DOMAIN numbers /\ k0 \in DOMAIN numbers /\ k0 \in Nat /\ named[i] \in Nat
    BY <1>1, <1>2, <1>8
  <2>2. named[i] + 1 = k0
    BY <1>2, <1>3, <1>8, <2>1 DEF IsInjective
  <2> QED
    BY <2>1, <2>2
<1>10. EarlierVoices(pos) = EarlierVoices(i)
  <2>1. ASSUME NEW k, k \in 1 .. pos - 1, \A h \in 1 .. k : raw[h] # NextLabel
        PROVE  k \in 1 .. i - 1
    <3>1. k \in Nat
      BY <1>1, <2>1
    <3>2. ~(i <= k)
      BY <1>5, <1>6, <2>1, <3>1
    <3> QED
      BY <1>6, <2>1, <3>1, <3>2
  <2>2. 1 .. i - 1 \subseteq 1 .. pos - 1
    BY <1>1, <1>6
  <2>3. {k \in 1 .. pos - 1 : \A h \in 1 .. k : raw[h] # NextLabel}
          = {k \in 1 .. i - 1 : \A h \in 1 .. k : raw[h] # NextLabel}
    BY <2>1, <2>2
  <2> QED
    BY <1>5, <1>6, <2>3 DEF EarlierVoices
<1>11. NumberKnown(numbers, named[i], pos)
  BY <1>6, <1>8, <1>10 DEF NumberKnown
<1> QED
  BY <1>7, <1>9, <1>11

\* The mapping and the numbers given from it belong together after every step.
LEMMA NumbersStep ==
  ASSUME AlignmentTypeOK, LoopsInStep, NumbersKnown, AlignStep
  PROVE  NumbersKnown'
<1>0. CASE /\ raw' = raw /\ numbers' = numbers /\ diarized' = diarized
           /\ diarized => speakers' = speakers
  <2> SUFFICES ASSUME diarized' PROVE NumbersKnown'
    BY DEF NumbersKnown
  <2>1. speakers' = speakers /\ diarized
    BY <1>0
  <2>2. MappingKnown(numbers, Len(speakers))'
    BY <1>0, <2>1 DEF NumbersKnown, MappingKnown
  <2>3. ASSUME NEW i \in DOMAIN speakers'
        PROVE  NumberKnown(numbers, speakers[i], i)'
    <3>1. EarlierVoices(i)' = EarlierVoices(i)
      BY <1>0 DEF EarlierVoices
    <3>2. NumberKnown(numbers, speakers[i], i)
      BY <2>1 DEF NumbersKnown
    <3> QED
      BY <1>0, <2>1, <3>1, <3>2 DEF NumberKnown
  <2> QED
    BY <2>2, <2>3 DEF NumbersKnown
<1>1. CASE NameSpeaker
  <2> SUFFICES ASSUME diarized' PROVE NumbersKnown'
    BY DEF NumbersKnown
  <2>1. /\ pos \in DOMAIN raw /\ Len(speakers) = pos - 1 /\ Len(speakers') = pos
        /\ \A i \in DOMAIN speakers : speakers'[i] = speakers[i]
        /\ raw' = raw /\ diarized' = diarized /\ Len(raw) = Len(words)
        /\ speakers' \in Seq(SpeakerName)
    BY <1>1, NameStep
  <2>2. PICK name \in SpeakerName :
          /\ speakers' = Append(speakers, name)
          /\ \/ NextLabel = Unknown /\ name = Unknown /\ numbers' = numbers
             \/ /\ NextLabel \in Labels /\ NextLabel # Unknown /\ Seen = {}
                /\ name = Len(numbers) /\ numbers' = Append(numbers, NextLabel)
             \/ /\ NextLabel \in Labels /\ NextLabel # Unknown /\ Seen # {}
                /\ FirstOf(Seen) \in Seen /\ name = FirstOf(Seen) - 1 /\ name \in Nat
                /\ numbers' = numbers
    BY <1>1, NameStep
  <2>3. /\ pos \in Nat /\ pos >= 1 /\ speakers \in Seq(SpeakerName)
        /\ DOMAIN speakers = 1 .. pos - 1 /\ DOMAIN speakers' = 1 .. pos
        /\ 1 .. pos = (1 .. pos - 1) \cup {pos}
        /\ \A i \in 1 .. pos - 1 : i \in DOMAIN raw
    <3>1. /\ pos \in Nat /\ pos >= 1 /\ speakers \in Seq(SpeakerName)
          /\ raw \in Seq(Labels \cup {Unknown})
      BY AlignTypes
    <3>2. DOMAIN speakers = 1 .. pos - 1
      BY <2>1, <3>1
    <3>3. DOMAIN speakers' = 1 .. pos
      BY <2>1
    <3>4. 1 .. pos = (1 .. pos - 1) \cup {pos}
      BY <3>1
    <3>5. \A i \in 1 .. pos - 1 : i \in DOMAIN raw
      <4>1. DOMAIN raw = 1 .. Len(raw) /\ Len(raw) \in Nat /\ pos <= Len(raw)
        BY <2>1, <3>1
      <4> QED
        BY <3>1, <4>1
    <3> QED
      BY <3>1, <3>2, <3>3, <3>4, <3>5
  <2>4. speakers'[pos] = name /\ \A i \in 1 .. pos - 1 : speakers'[i] = speakers[i]
    <3>1. Append(speakers, name)[Len(speakers) + 1] = name
      BY <2>3, AppendLast
    <3>2. Len(speakers) + 1 = pos
      BY <2>1, <2>3
    <3> QED
      BY <2>1, <2>2, <2>3, <3>1, <3>2
  <2>5. MappingKnown(numbers, pos - 1) /\ \A i \in 1 .. pos - 1 : NumberKnown(numbers, speakers[i], i)
    BY <2>1, <2>3 DEF NumbersKnown
  <2>6. /\ MappingKnown(numbers', pos) /\ NumberKnown(numbers', name, pos)
        /\ \A i \in 1 .. pos - 1 : NumberKnown(numbers', speakers[i], i)
    <3>1. CASE NextLabel = Unknown /\ name = Unknown /\ numbers' = numbers
      BY <2>1, <2>5, <3>1, NumberOfUnknown
    <3>2. CASE /\ NextLabel \in Labels /\ NextLabel # Unknown /\ Seen = {}
               /\ name = Len(numbers) /\ numbers' = Append(numbers, NextLabel)
      <4>1. \A i \in 1 .. pos - 1 : speakers[i] \in Nat \cup {Unknown}
        BY <2>5 DEF NumberKnown
      <4> QED
        BY <2>1, <2>3, <2>5, <3>2, <4>1, NumberOfNew
    <3>3. CASE /\ NextLabel \in Labels /\ NextLabel # Unknown /\ Seen # {}
               /\ FirstOf(Seen) \in Seen /\ name = FirstOf(Seen) - 1 /\ numbers' = numbers
      BY <2>1, <2>5, <3>3, NumberOfKnown
    <3> QED
      BY <2>2, <3>1, <3>2, <3>3
  <2>7. \A i \in 1 .. pos : NumberKnown(numbers', speakers'[i], i)
    BY <2>3, <2>4, <2>6
  <2>8. MappingKnown(numbers, Len(speakers))'
    BY <2>1, <2>6 DEF MappingKnown, IsInjective, Range
  <2>9. \A i \in DOMAIN speakers' : NumberKnown(numbers, speakers[i], i)'
    <3> SUFFICES ASSUME NEW i \in 1 .. pos PROVE NumberKnown(numbers, speakers[i], i)'
      BY <2>3
    <3>1. NumberKnown(numbers', speakers'[i], i)
      BY <2>7
    <3>2. EarlierVoices(i)' = EarlierVoices(i)
      BY <2>1 DEF EarlierVoices
    <3> QED
      BY <2>1, <3>1, <3>2 DEF NumberKnown
  <2> QED
    BY <2>8, <2>9 DEF NumbersKnown
<1>2. CASE AssignSpeaker
  <2>1. speakers = <<>> /\ speakers' = <<>> /\ numbers' = numbers /\ diarized' = diarized
    BY <1>2, AssignStep DEF LoopsInStep
  <2>2. Len(speakers) = 0 /\ DOMAIN speakers' = {} /\ 1 .. 0 = {}
    BY <2>1
  <2>3. {raw[i] : i \in 1 .. Len(speakers)} = {} /\ {raw'[i] : i \in 1 .. Len(speakers')} = {}
    BY <2>1, <2>2
  <2> QED
    BY <2>1, <2>2, <2>3 DEF NumbersKnown, MappingKnown, IsInjective, Range
<1>3. CASE \E ws \in Seq(Word) : TakeWords(ws)
  <2>1. diarized' = diarized /\ raw' = raw /\ numbers' = numbers /\ (diarized => speakers' = speakers)
    BY <1>3 DEF TakeWords
  <2> QED
    BY <1>0, <2>1
<1>4. CASE \/ \E segs \in Seq(DiarizationSegment) : TakeSegments(segs)
           \/ UNCHANGED <<inputVars, pos, raw, numbers, speakers, buf, utterances>>
           \/ GroupWord \/ Finish \/ UNCHANGED alignVars
  <2>1. UNCHANGED <<diarized, raw, numbers, speakers>>
    BY <1>4 DEF TakeSegments, GroupWord, Finish, alignVars, inputVars
  <2> QED
    BY <1>0, <2>1
<1> QED
  BY <1>1, <1>2, <1>3, <1>4 DEF AlignStep

\* What the invariant says of the numbers is that they count the earlier voices.
LEMMA NumbersCount ==
  ASSUME AlignmentTypeOK, LoopsInStep, NumbersKnown
  PROVE  NamedByAppearance
<1> SUFFICES ASSUME phase \in {"group", "done"}, diarized, NEW i \in DOMAIN words, raw[i] # Unknown
             PROVE  speakers[i] = Cardinality(EarlierVoices(i))
  <2>1. ASSUME phase \in {"group", "done"}, diarized, NEW i \in DOMAIN words, raw[i] = Unknown
        PROVE  speakers[i] = Unknown
    <3>1. i \in DOMAIN speakers
      BY <2>1, AlignTypes DEF LoopsInStep
    <3> QED
      BY <2>1, <3>1 DEF NumbersKnown, NumberKnown
  <2> QED
    BY <2>1 DEF NamedByAppearance
<1>1. i \in DOMAIN speakers
  BY AlignTypes DEF LoopsInStep
<1> DEFINE n == speakers[i]
<1>2. /\ n \in 0 .. Len(numbers) - 1 /\ IsInjective(numbers)
      /\ EarlierVoices(i) = {numbers[k] : k \in 1 .. n}
  BY <1>1 DEF NumbersKnown, NumberKnown, MappingKnown
<1>3. n \in Nat /\ 1 .. n \subseteq DOMAIN numbers
  BY <1>2, AlignTypes
<1> HIDE DEF n
<1> DEFINE f == [k \in 1 .. n |-> numbers[k]]
           voices == {numbers[k] : k \in 1 .. n}
<1>4. f \in Bijection(1 .. n, voices)
  <2>1. f \in [1 .. n -> voices] /\ \A v \in voices : \E k \in 1 .. n : f[k] = v
    OBVIOUS
  <2>2. \A j, k \in 1 .. n : f[j] = f[k] => j = k
    BY <1>2, <1>3 DEF IsInjective
  <2> HIDE DEF f, voices
  <2> QED
    BY <2>1, <2>2 DEF Bijection, Injection, Surjection, IsInjective
<1>5. ExistsBijection(1 .. n, voices)
  BY <1>4 DEF ExistsBijection
<1>6. IsFiniteSet(1 .. n) /\ Cardinality(1 .. n) = n
  <2>1. Cardinality(1 .. n) = IF 1 <= n THEN n - 1 + 1 ELSE 0
    BY <1>3, FS_Interval
  <2>2. IsFiniteSet(1 .. n)
    BY <1>3, FS_Interval
  <2> QED
    BY <1>3, <2>1, <2>2
<1>7. Cardinality(voices) = n
  <2> HIDE DEF voices
  <2> QED
    BY <1>5, <1>6, FS_Bijection
<1> QED
  BY <1>2, <1>7 DEF n

----------------------------------------------------------------------------
(* The lines are cut where it changes.                                     *)

\* A line is cut right whatever the lines are that come after it.
LEMMA CutSame ==
  ASSUME NEW lines, NEW more, NEW u \in Nat, u >= 1, CutAt(lines, u), more[u] = lines[u],
         u > 1 => more[u - 1] = lines[u - 1]
  PROVE  CutAt(more, u)
<1>1. CASE u = 1
  BY <1>1 DEF CutAt
<1>2. CASE u > 1
  BY <1>2 DEF CutAt
<1> QED
  BY <1>1, <1>2

\* Where the last of some lines ends.
LEMMA CutEnds ==
  ASSUME NEW lines \in Seq(Utterance), NEW n, CutUpTo(lines, n), lines # <<>>
  PROVE  /\ Len(lines) \in DOMAIN lines /\ Len(lines) >= 1 /\ CutAt(lines, Len(lines))
         /\ n # 0 /\ Last(lines) = lines[Len(lines)] /\ Last(lines[Len(lines)].words) = n
<1>1. Len(lines) \in DOMAIN lines /\ Len(lines) >= 1
  OBVIOUS
<1>2. n # 0 /\ Last(Last(lines).words) = n
  BY DEF CutUpTo
<1>3. Last(lines) = lines[Len(lines)]
  BY DEF Last
<1>4. CutAt(lines, Len(lines))
  BY <1>1 DEF CutUpTo
<1>5. Last(lines[Len(lines)].words) = n
  BY <1>2, <1>3
<1> QED
  BY <1>1, <1>2, <1>3, <1>4, <1>5

\* Of the words of a line, the first tells where it stands and where it ends.
LEMMA LineWords ==
  ASSUME AlignmentTypeOK, NEW lines \in Seq(Utterance), NEW u \in DOMAIN lines, CutAt(lines, u)
  PROVE  /\ lines[u].words \in Seq(DOMAIN words) /\ lines[u].words # <<>>
         /\ Len(lines[u].words) \in Nat /\ Len(lines[u].words) >= 1
         /\ lines[u].words[1] \in DOMAIN words /\ Last(lines[u].words) \in DOMAIN words
         /\ lines[u].words[1] \in Nat /\ Last(lines[u].words) \in Nat
         /\ \A i \in 1 .. Len(lines[u].words) : lines[u].words[i] = lines[u].words[1] + i - 1
         /\ Last(lines[u].words) = lines[u].words[1] + Len(lines[u].words) - 1
<1> DEFINE ws == lines[u].words
<1>1. lines[u] \in Utterance
  OBVIOUS
<1>2. ws \in Seq(DOMAIN words) /\ ws # <<>>
  BY <1>1 DEF CutAt, Utterance
<1>3. \A i \in DOMAIN ws : ws[i] = ws[1] + i - 1
  BY DEF CutAt
<1> HIDE DEF ws
<1>4. Len(ws) \in Nat /\ Len(ws) >= 1 /\ DOMAIN ws = 1 .. Len(ws)
  BY <1>2
<1>5. ws[1] \in DOMAIN words /\ Last(ws) = ws[Len(ws)] /\ ws[Len(ws)] \in DOMAIN words
  BY <1>2, <1>4 DEF Last
<1>6. \A i \in DOMAIN words : i \in Nat
  BY AlignTypes
<1>7. Last(ws) = ws[1] + Len(ws) - 1
  BY <1>3, <1>4, <1>5
<1> QED
  BY <1>2, <1>3, <1>4, <1>5, <1>6, <1>7 DEF ws

\* The next word goes on with the line at hand.
LEMMA CutGoesOn ==
  ASSUME AlignmentTypeOK, NEW before \in Seq(Utterance), NEW b \in Seq(DOMAIN words), b # <<>>,
         NEW s \in SpeakerName, NEW n \in Nat, n + 1 \in DOMAIN words,
         CutUpTo(Append(before, [words |-> b, speaker |-> s]), n), GoesOn(b[1], n + 1)
  PROVE  CutUpTo(Append(before, [words |-> Append(b, n + 1), speaker |-> s]), n + 1)
<1> DEFINE line == [words |-> b, speaker |-> s]
           longer == [words |-> Append(b, n + 1), speaker |-> s]
           old == Append(before, line)
           new == Append(before, longer)
           k == Len(before) + 1
           c == Append(b, n + 1)
           D == DOMAIN words
<1>1. line \in Utterance /\ line.words = b /\ line.speaker = s
  BY DEF Utterance
<1>2. c \in Seq(D) /\ c # <<>> /\ Len(c) = Len(b) + 1 /\ Len(b) \in Nat /\ Len(b) >= 1
      /\ (\A i \in 1 .. Len(b) : c[i] = b[i]) /\ c[Len(b) + 1] = n + 1
  <2> HIDE DEF D
  <2>1. b \in Seq(D) /\ n + 1 \in D
    BY DEF D
  <2> QED
    BY <2>1
<1>3. longer \in Utterance /\ longer.words = c /\ longer.speaker = s
  BY <1>2 DEF Utterance
<1> HIDE DEF line, longer, c
<1>4. /\ old \in Seq(Utterance) /\ new \in Seq(Utterance) /\ old # <<>> /\ new # <<>>
      /\ Len(old) = k /\ Len(new) = k /\ k \in Nat /\ k >= 1
      /\ old[k] = line /\ new[k] = longer
      /\ \A u \in 1 .. k - 1 : old[u] = before[u] /\ new[u] = before[u]
  <2>1. /\ old \in Seq(Utterance) /\ old # <<>> /\ Len(old) = k /\ old[k] = line
        /\ \A u \in 1 .. Len(before) : old[u] = before[u]
    BY <1>1, AppendLast
  <2>2. /\ new \in Seq(Utterance) /\ new # <<>> /\ Len(new) = k /\ new[k] = longer
        /\ \A u \in 1 .. Len(before) : new[u] = before[u]
    BY <1>3, AppendLast
  <2>3. Len(before) \in Nat /\ k - 1 = Len(before)
    OBVIOUS
  <2> QED
    BY <2>1, <2>2, <2>3
<1>5. CutUpTo(old, n)
  BY DEF line
<1> HIDE DEF old, new, k
<1>6. CutAt(old, k) /\ n # 0 /\ Last(b) = n
  BY <1>1, <1>4, <1>5, CutEnds
<1>7. /\ \A i \in 1 .. Len(b) : b[i] = b[1] + i - 1
      /\ b[1] \in Nat /\ n = b[1] + Len(b) - 1
  <2>1. k \in DOMAIN old /\ old[k].words = b
    BY <1>1, <1>4
  <2>2. /\ \A i \in 1 .. Len(old[k].words) : old[k].words[i] = old[k].words[1] + i - 1
        /\ old[k].words[1] \in Nat
        /\ Last(old[k].words) = old[k].words[1] + Len(old[k].words) - 1
    BY <1>4, <1>6, <2>1, LineWords
  <2> QED
    BY <1>6, <2>1, <2>2
<1>8. /\ b[1] = IF k = 1 THEN 1 ELSE Last(old[k - 1].words) + 1
      /\ \A i \in DOMAIN b : ~Changes(b[1], b[i]) /\ speakers[b[i]] = s
      /\ k > 1 => Changes(Last(old[k - 1].words), b[1])
  BY <1>1, <1>4, <1>6 DEF CutAt
<1>9. 1 \in 1 .. Len(b) /\ c[1] = b[1] /\ DOMAIN b = 1 .. Len(b) /\ DOMAIN c = 1 .. Len(b) + 1
  BY <1>2
<1>10. ~Changes(b[1], n + 1) /\ speakers[n + 1] = s
  BY <1>8, <1>9 DEF GoesOn, Changes
<1>11. ASSUME NEW i \in DOMAIN c
       PROVE  c[i] = c[1] + i - 1 /\ ~Changes(c[1], c[i]) /\ speakers[c[i]] = s
  <2>1. CASE i \in 1 .. Len(b)
    BY <1>2, <1>7, <1>8, <1>9, <2>1
  <2>2. CASE i = Len(b) + 1
    <3>1. c[i] = n + 1 /\ c[1] = b[1]
      BY <1>2, <1>9, <2>2
    <3>2. n + 1 = b[1] + i - 1
      BY <1>2, <1>7, <2>2
    <3> QED
      BY <1>10, <3>1, <3>2
  <2> QED
    BY <1>2, <1>9, <2>1, <2>2
<1>12. k > 1 => new[k - 1] = old[k - 1]
  BY <1>4
<1>13. CutAt(new, k)
  <2>1. new[k].words = c /\ new[k].speaker = s /\ c # <<>>
    BY <1>2, <1>3, <1>4
  <2>2. c[1] = IF k = 1 THEN 1 ELSE Last(new[k - 1].words) + 1
    BY <1>4, <1>8, <1>9, <1>12
  <2>3. k > 1 => Changes(Last(new[k - 1].words), c[1])
    BY <1>8, <1>9, <1>12
  <2> QED
    BY <1>11, <2>1, <2>2, <2>3 DEF CutAt
<1>14. ASSUME NEW u \in 1 .. k - 1
       PROVE  CutAt(new, u)
  <2>1. u \in Nat /\ u >= 1 /\ u \in DOMAIN old /\ (u > 1 => u - 1 \in 1 .. k - 1)
    BY <1>4
  <2>2. CutAt(old, u)
    BY <1>5, <2>1 DEF CutUpTo
  <2>3. new[u] = old[u] /\ (u > 1 => new[u - 1] = old[u - 1])
    BY <1>4, <2>1
  <2> QED
    BY <2>1, <2>2, <2>3, CutSame
<1>15. \A u \in DOMAIN new : u \in 1 .. k - 1 \/ u = k
  BY <1>4
<1>16. Last(Last(new).words) = n + 1
  <2>1. Last(new) = longer
    BY <1>4 DEF Last
  <2>2. Last(c) = n + 1
    BY <1>2 DEF Last
  <2> QED
    BY <1>3, <2>1, <2>2
<1>17. n + 1 # 0
  OBVIOUS
<1>18. CutUpTo(new, n + 1)
  BY <1>4, <1>13, <1>14, <1>15, <1>16, <1>17 DEF CutUpTo
<1> QED
  BY <1>18 DEF new, longer

\* The next word begins a line of its own.
LEMMA CutAnew ==
  ASSUME AlignmentTypeOK, Len(speakers) = Len(words), NEW lines \in Seq(Utterance),
         NEW n \in Nat, n + 1 \in DOMAIN words, CutUpTo(lines, n),
         lines # <<>> => ~GoesOn(Last(lines).words[1], n + 1)
  PROVE  CutUpTo(Append(lines, [words |-> <<n + 1>>, speaker |-> speakers[n + 1]]), n + 1)
<1> DEFINE line == [words |-> <<n + 1>>, speaker |-> speakers[n + 1]]
           new == Append(lines, line)
           k == Len(lines) + 1
           D == DOMAIN words
<1>1. speakers[n + 1] \in SpeakerName
  BY AlignTypes
<1>2. line.words = <<n + 1>> /\ line.speaker = speakers[n + 1] /\ line \in Utterance
  <2>1. <<n + 1>> \in Seq(D)
    <3> HIDE DEF D
    <3>1. n + 1 \in D
      BY DEF D
    <3> QED
      BY <3>1
  <2> QED
    BY <1>1, <2>1 DEF Utterance
<1> HIDE DEF line
<1>3. /\ new \in Seq(Utterance) /\ new # <<>> /\ Len(new) = k /\ k \in Nat /\ k >= 1
      /\ new[k] = line /\ \A u \in 1 .. k - 1 : new[u] = lines[u]
  BY <1>2
<1> HIDE DEF new
<1>4. lines # <<>> =>
        /\ k > 1 /\ k - 1 = Len(lines) /\ CutAt(lines, k - 1) /\ Last(lines) = lines[k - 1]
        /\ Last(lines[k - 1].words) = n
  BY CutEnds
<1>5. lines = <<>> => k = 1 /\ n = 0
  BY DEF CutUpTo
<1> HIDE DEF k
<1>6. n + 1 = IF k = 1 THEN 1 ELSE Last(new[k - 1].words) + 1
  <2>1. CASE lines = <<>>
    BY <1>5, <2>1
  <2>2. CASE lines # <<>>
    <3>1. k - 1 \in 1 .. k - 1
      BY <1>3, <1>4, <2>2
    <3> QED
      BY <1>3, <1>4, <2>2, <3>1
  <2> QED
    BY <2>1, <2>2
<1>7. k > 1 => Changes(Last(new[k - 1].words), n + 1)
  <2> SUFFICES ASSUME k > 1 PROVE Changes(Last(new[k - 1].words), n + 1)
    OBVIOUS
  <2>1. lines # <<>> /\ k - 1 \in 1 .. k - 1 /\ k - 1 \in DOMAIN lines
    BY <1>3, <1>4, <1>5
  <2> DEFINE ws == lines[k - 1].words
  <2>2. CutAt(lines, k - 1) /\ Last(ws) = n /\ new[k - 1] = lines[k - 1] /\ Last(lines) = lines[k - 1]
    BY <1>3, <1>4, <2>1
  <2>3. ws \in Seq(DOMAIN words) /\ Len(ws) \in Nat /\ Len(ws) >= 1
    BY <2>1, <2>2, LineWords
  <2>4. \A i \in DOMAIN ws : ~Changes(ws[1], ws[i])
    BY <2>2 DEF CutAt
  <2>5. ~GoesOn(ws[1], n + 1)
    BY <2>1, <2>2
  <2> HIDE DEF ws
  <2>6. Len(ws) \in DOMAIN ws /\ ws[Len(ws)] = n
    BY <2>2, <2>3 DEF Last
  <2>7. ~Changes(ws[1], n)
    BY <2>4, <2>6
  <2>8. Changes(n, n + 1)
    BY <2>5, <2>7 DEF Changes, GoesOn
  <2> QED
    BY <2>2, <2>8 DEF ws
<1>8. CutAt(new, k)
  <2> DEFINE ws == <<n + 1>>
  <2>1. ws # <<>> /\ ws[1] = n + 1 /\ \A i \in DOMAIN ws : i = 1
    OBVIOUS
  <2>2. new[k].words = ws /\ new[k].speaker = speakers[n + 1]
    BY <1>2, <1>3
  <2> HIDE DEF ws
  <2>3. \A i \in DOMAIN ws : /\ ws[i] = ws[1] + i - 1 /\ ~Changes(ws[1], ws[i])
                             /\ speakers[ws[i]] = speakers[n + 1]
    BY <2>1 DEF Changes
  <2> QED
    BY <1>6, <1>7, <2>1, <2>2, <2>3 DEF CutAt
<1>9. ASSUME NEW u \in 1 .. k - 1
      PROVE  CutAt(new, u)
  <2>1. u \in Nat /\ u >= 1 /\ u \in DOMAIN lines /\ (u > 1 => u - 1 \in 1 .. k - 1)
    BY <1>3 DEF k
  <2>2. CutAt(lines, u)
    BY <2>1 DEF CutUpTo
  <2>3. new[u] = lines[u] /\ (u > 1 => new[u - 1] = lines[u - 1])
    BY <1>3, <2>1
  <2> QED
    BY <2>1, <2>2, <2>3, CutSame
<1>10. \A u \in DOMAIN new : u \in 1 .. k - 1 \/ u = k
  BY <1>3
<1>11. Last(Last(new).words) = n + 1
  <2>1. Last(new) = line
    BY <1>3 DEF Last
  <2>2. Last(<<n + 1>>) = n + 1
    BY DEF Last
  <2> QED
    BY <1>2, <2>1, <2>2
<1>12. n + 1 # 0
  OBVIOUS
<1>13. CutUpTo(new, n + 1)
  BY <1>3, <1>8, <1>9, <1>10, <1>11, <1>12 DEF CutUpTo
<1> QED
  BY <1>13 DEF new, line

\* With buf as one more line, the lines are the words so far, after every step.
LEMMA LinesStep ==
  ASSUME AlignmentTypeOK, LoopsInStep, LinesCut, AlignStep
  PROVE  LinesCut'
<1>1. CASE GroupWord
  <2>1. /\ phase = "group" /\ phase' = "group" /\ pos \in DOMAIN words /\ Len(speakers) = Len(words)
        /\ pos' = pos + 1 /\ words' = words /\ speakers' = speakers
    BY <1>1, GroupStep
  <2>2. /\ pos \in Nat /\ pos - 1 \in Nat /\ (pos - 1) + 1 = pos /\ (pos + 1) - 1 = pos
        /\ buf \in Seq(DOMAIN words) /\ utterances \in Seq(Utterance) /\ Flushed \in Seq(Utterance)
    BY <2>1, AlignTypes, FlushedTyped
  <2>3. CutUpTo(Flushed, pos - 1)
    BY <2>1 DEF LinesCut
  <2>4. buf # <<>> => /\ Head(buf) = buf[1] /\ Head(buf) \in DOMAIN words
                      /\ speakers[Head(buf)] \in SpeakerName
                      /\ Flushed = Append(utterances, [words |-> buf, speaker |-> speakers[Head(buf)]])
    <3> SUFFICES ASSUME buf # <<>>
                 PROVE  /\ Head(buf) = buf[1] /\ Head(buf) \in DOMAIN words
                        /\ speakers[Head(buf)] \in SpeakerName
      BY DEF Flushed
    <3>1. Head(buf) = buf[1] /\ Head(buf) \in DOMAIN words
      BY <2>2
    <3>2. speakers[Head(buf)] \in SpeakerName
      BY <2>1, <3>1, AlignTypes
    <3> QED
      BY <3>1, <3>2
  <2>5. CutUpTo(Flushed', pos)
    <3>1. CASE buf # <<>> /\ GoesOn(Head(buf), pos) /\ buf' = Append(buf, pos) /\ utterances' = utterances
      <4>1. buf' # <<>> /\ Head(buf') = Head(buf)
        <5> DEFINE D == DOMAIN words
        <5>1. buf \in Seq(D) /\ pos \in D /\ buf # <<>> /\ buf' = Append(buf, pos)
          BY <2>1, <2>2, <3>1
        <5> HIDE DEF D
        <5> QED
          BY <5>1
      <4>2. Flushed' = Append(utterances, [words |-> Append(buf, pos), speaker |-> speakers[Head(buf)]])
        BY <2>1, <3>1, <4>1 DEF Flushed
      <4>3. CutUpTo(Append(utterances, [words |-> Append(buf, (pos - 1) + 1),
                                         speaker |-> speakers[Head(buf)]]), (pos - 1) + 1)
        BY <2>1, <2>2, <2>3, <2>4, <3>1, CutGoesOn
      <4> QED
        BY <2>2, <4>2, <4>3
    <3>2. CASE (buf = <<>> \/ ~GoesOn(Head(buf), pos)) /\ buf' = <<pos>> /\ utterances' = Flushed
      <4>1. buf' # <<>> /\ Head(buf') = pos
        BY <2>2, <3>2
      <4>2. Flushed' = Append(Flushed, [words |-> <<pos>>, speaker |-> speakers[pos]])
        BY <2>1, <3>2, <4>1 DEF Flushed
      <4>3. Flushed # <<>> => ~GoesOn(Last(Flushed).words[1], pos)
        <5>1. CASE buf = <<>>
          BY <2>1, <5>1 DEF LinesCut, Flushed
        <5>2. CASE buf # <<>>
          <6> DEFINE line == [words |-> buf, speaker |-> speakers[Head(buf)]]
          <6>1. line \in Utterance /\ line.words = buf
            BY <2>2, <2>4, <5>2 DEF Utterance
          <6>2. Flushed = Append(utterances, line)
            BY <2>4, <5>2
          <6> HIDE DEF line
          <6>3. Last(Flushed) = line
            BY <2>2, <6>1, <6>2, AppendLast
          <6> QED
            BY <2>4, <3>2, <5>2, <6>1, <6>3
        <5> QED
          BY <5>1, <5>2
      <4>4. CutUpTo(Append(Flushed, [words |-> <<(pos - 1) + 1>>,
                                      speaker |-> speakers[(pos - 1) + 1]]), (pos - 1) + 1)
        BY <2>1, <2>2, <2>3, <4>3, CutAnew
      <4> QED
        BY <2>2, <4>2, <4>4
    <3> QED
      BY <1>1, <3>1, <3>2, GroupStep
  <2>6. pos' - 1 = pos
    BY <2>1, <2>2
  <2>7. CutUpTo(Flushed, pos - 1)'
    BY <2>1, <2>5, <2>6 DEF CutUpTo, CutAt, Changes
  <2>8. buf' # <<>>
    <3>1. buf' = Append(buf, pos) \/ buf' = <<pos>>
      BY <1>1, GroupStep
    <3> DEFINE D == DOMAIN words
    <3>2. buf \in Seq(D) /\ pos \in D
      BY <2>1, <2>2
    <3> HIDE DEF D
    <3>3. Append(buf, pos) # <<>>
      <4>1. Len(Append(buf, pos)) = Len(buf) + 1 /\ Len(buf) \in Nat
        BY <3>2
      <4>2. Len(Append(buf, pos)) # 0 /\ Len(<<>>) = 0
        BY <4>1
      <4> QED
        BY <4>2
    <3>4. <<pos>> # <<>>
      OBVIOUS
    <3> QED
      BY <3>1, <3>3, <3>4
  <2> QED
    BY <2>1, <2>7, <2>8 DEF LinesCut
<1>2. CASE Finish
  <2>1. /\ phase = "group" \/ (phase = "speakers" /\ words = <<>>)
        /\ phase = "group" => pos = Len(words) + 1
        /\ phase' = "done" /\ utterances' = Flushed /\ buf' = <<>>
        /\ words' = words /\ pos' = pos /\ speakers' = speakers
    BY <1>2 DEF Finish, inputVars
  <2>2. phase = "speakers" => pos = 1 /\ Len(words) = 0 /\ Flushed = <<>>
    BY <2>1, AlignTypes DEF LoopsInStep, Flushed
  <2>3. pos' = Len(words') + 1
    BY <2>1, <2>2
  <2>4. CutUpTo(Flushed, pos - 1)
    <3>1. CASE phase = "group"
      BY <3>1 DEF LinesCut
    <3>2. CASE phase = "speakers"
      BY <2>2, <3>2 DEF CutUpTo
    <3> QED
      BY <2>1, <3>1, <3>2
  <2>5. Flushed' = Flushed
    BY <2>1 DEF Flushed
  <2>6. CutUpTo(Flushed, pos - 1)'
    BY <2>1, <2>4, <2>5 DEF CutUpTo, CutAt, Changes
  <2> QED
    BY <2>1, <2>3, <2>6 DEF LinesCut
<1>3. CASE /\ phase' = "group" => pos' = 1 /\ buf' = <<>> /\ utterances' = <<>>
           /\ phase' # "done"
  <2> SUFFICES ASSUME phase' = "group" PROVE LinesCut'
    BY <1>3 DEF LinesCut
  <2>1. Flushed' = <<>> /\ pos' - 1 = 0
    BY <1>3 DEF Flushed
  <2>2. CutUpTo(Flushed, pos - 1)'
    BY <2>1 DEF CutUpTo
  <2> QED
    BY <1>3, <2>2 DEF LinesCut
<1>4. CASE \/ \E ws \in Seq(Word) : TakeWords(ws)
           \/ \E segs \in Seq(DiarizationSegment) : TakeSegments(segs)
           \/ /\ phase' = "raised"
              /\ UNCHANGED <<inputVars, pos, raw, numbers, speakers, buf, utterances>>
           \/ AssignSpeaker \/ NameSpeaker
  <2>1. CASE \E ws \in Seq(Word) : TakeWords(ws)
    BY <1>3, <2>1 DEF TakeWords, LoopsInStep
  <2>2. CASE \/ \E segs \in Seq(DiarizationSegment) : TakeSegments(segs)
             \/ phase' = "raised"
    BY <1>3, <2>2 DEF TakeSegments
  <2>3. CASE AssignSpeaker
    BY <1>3, <2>3 DEF AssignSpeaker, Advance
  <2>4. CASE NameSpeaker
    BY <1>3, <2>4 DEF NameSpeaker, Advance, LoopsInStep
  <2> QED
    BY <1>4, <2>1, <2>2, <2>3, <2>4
<1>5. CASE UNCHANGED alignVars
  <2>1. UNCHANGED <<words, pos, phase, speakers, buf, utterances>> /\ Flushed' = Flushed
    BY <1>5 DEF alignVars, inputVars, Flushed
  <2> QED
    BY <2>1 DEF LinesCut, CutUpTo, CutAt, Changes
<1> QED
  BY <1>1, <1>2, <1>4, <1>5 DEF AlignStep

\* Lines that are the first words one after the other are these words in their places.
LEMMA LinesFlattened ==
  ASSUME AlignmentTypeOK, NEW lines \in Seq(Utterance), NEW n, CutUpTo(lines, n), lines # <<>>
  PROVE  FlattenSeq([u \in DOMAIN lines |-> lines[u].words]) = [i \in 1 .. n |-> i]
<1> DEFINE k == Len(lines)
           T == DOMAIN words
           seqs == [u \in DOMAIN lines |-> lines[u].words]
<1>1. k \in Nat /\ k >= 1 /\ DOMAIN lines = 1 .. k /\ Last(lines[k].words) = n
  BY CutEnds
<1>2. \A u \in 1 .. k : CutAt(lines, u)
  BY <1>1 DEF CutUpTo
<1>3. \A u \in 1 .. k : seqs[u] = lines[u].words /\ seqs[u] \in Seq(T)
  BY <1>1, <1>2, LineWords
<1>4. seqs \in [1 .. k -> Seq(T)]
  <2>1. seqs = [u \in 1 .. k |-> seqs[u]]
    BY <1>1
  <2> HIDE DEF seqs, T, k
  <2> QED
    BY <1>3, <2>1
<1> HIDE DEF k, seqs, T
<1>5. seqs \in Seq(Seq(T)) /\ Len(seqs) = k /\ seqs # <<>>
  BY <1>1, <1>4
<1>6. PICK f \in [1 .. k -> Seq(T)] :
        /\ f[1] = seqs[1]
        /\ \A u \in 2 .. k : f[u] = f[u - 1] \o seqs[u]
        /\ FlattenSeq(seqs) = f[k]
  <2>1. \E f \in [1 .. Len(seqs) -> Seq(T)] :
          /\ f[1] = seqs[1]
          /\ \A u \in 2 .. Len(seqs) : f[u] = f[u - 1] \o seqs[u]
          /\ FlattenSeq(seqs) = f[Len(seqs)]
    BY <1>5, Flattened
  <2> QED
    BY <1>5, <2>1
<1>7. ASSUME NEW u \in 1 .. k
      PROVE  /\ Len(seqs[u]) \in Nat /\ seqs[u][1] \in Nat
             /\ \A i \in 1 .. Len(seqs[u]) : seqs[u][i] = seqs[u][1] + i - 1
             /\ Last(lines[u].words) = seqs[u][1] + Len(seqs[u]) - 1
             /\ seqs[u][1] = IF u = 1 THEN 1 ELSE Last(lines[u - 1].words) + 1
  <2>1. u \in DOMAIN lines /\ CutAt(lines, u) /\ seqs[u] = lines[u].words
    BY <1>1, <1>2, <1>3
  <2>2. lines[u].words[1] = IF u = 1 THEN 1 ELSE Last(lines[u - 1].words) + 1
    BY <2>1 DEF CutAt
  <2> DEFINE ws == lines[u].words
  <2>3. /\ Len(ws) \in Nat /\ ws[1] \in Nat
        /\ \A i \in 1 .. Len(ws) : ws[i] = ws[1] + i - 1
        /\ Last(ws) = ws[1] + Len(ws) - 1
    BY <2>1, LineWords
  <2> QED
    BY <2>1, <2>2, <2>3
<1> DEFINE InPlace(s, m) == Len(s) = m /\ \A i \in 1 .. m : s[i] = i
           S == {m \in Nat : m + 1 <= k => InPlace(f[m + 1], Last(lines[m + 1].words))}
<1>8. 0 \in S
  <2>1. 1 \in 1 .. k
    BY <1>1
  <2>2. Last(lines[1].words) = Len(seqs[1]) /\ \A i \in 1 .. Len(seqs[1]) : seqs[1][i] = i
    BY <1>7, <2>1
  <2> QED
    BY <1>6, <2>2
<1>9. ASSUME NEW m \in Nat, m \in S
      PROVE  m + 1 \in S
  <2> SUFFICES ASSUME (m + 1) + 1 <= k
               PROVE  InPlace(f[(m + 1) + 1], Last(lines[(m + 1) + 1].words))
    OBVIOUS
  <2> DEFINE u == m + 1
             v == (m + 1) + 1
  <2>1. u \in 1 .. k /\ v \in 2 .. k /\ v \in 1 .. k /\ v - 1 = u /\ v # 1
    BY <1>1
  <2>2. InPlace(f[u], Last(lines[u].words))
    BY <1>1, <1>9
  <2>3. f[v] = f[u] \o seqs[v] /\ f[u] \in Seq(T) /\ seqs[v] \in Seq(T)
    BY <1>3, <1>6, <2>1
  <2>4. /\ Len(seqs[v]) \in Nat /\ seqs[v][1] = Last(lines[u].words) + 1
        /\ \A i \in 1 .. Len(seqs[v]) : seqs[v][i] = seqs[v][1] + i - 1
        /\ Last(lines[v].words) = seqs[v][1] + Len(seqs[v]) - 1
    BY <1>7, <2>1
  <2> HIDE DEF u, v
  <2> DEFINE a == f[u]
             b == seqs[v]
             c == Last(lines[u].words)
  <2>5. /\ Len(a) = c /\ (\A i \in 1 .. c : a[i] = i) /\ a \in Seq(T) /\ b \in Seq(T)
        /\ (\A i \in 1 .. Len(b) : b[i] = (c + 1) + i - 1) /\ Len(b) \in Nat
        /\ Last(lines[v].words) = (c + 1) + Len(b) - 1 /\ f[v] = a \o b
    BY <2>2, <2>3, <2>4
  <2> HIDE DEF a, b, c
  <2>6. c \in Nat
    BY <2>5
  <2>7. /\ Len(a \o b) = c + Len(b)
        /\ \A i \in 1 .. c : (a \o b)[i] = a[i]
        /\ \A i \in 1 .. Len(b) : (a \o b)[c + i] = b[i]
    <3>1. a \in Seq(T) /\ b \in Seq(T) /\ Len(a) = c
      BY <2>5
    <3>2. /\ Len(a \o b) = Len(a) + Len(b)
          /\ \A i \in 1 .. Len(a) : (a \o b)[i] = a[i]
          /\ \A i \in 1 .. Len(b) : (a \o b)[Len(a) + i] = b[i]
      <4>1. a \in Seq(T) /\ b \in Seq(T)
        BY <3>1
      <4> QED
        BY <4>1, Joined
    <3> QED
      BY <3>1, <3>2
  <2> DEFINE d == a \o b
  <2> HIDE DEF d
  <2>8. ASSUME NEW i \in 1 .. c + Len(b)
        PROVE  d[i] = i
    <3>1. CASE i \in 1 .. c
      BY <2>5, <2>7, <3>1 DEF d
    <3>2. CASE i - c \in 1 .. Len(b)
      <4>1. c + (i - c) = i /\ (c + 1) + (i - c) - 1 = i
        BY <2>5, <2>6
      <4>2. d[c + (i - c)] = b[i - c]
        BY <2>7, <3>2 DEF d
      <4> QED
        BY <2>5, <3>2, <4>1, <4>2
    <3> QED
      BY <2>5, <2>6, <3>1, <3>2
  <2>9. Last(lines[v].words) = c + Len(b)
    BY <2>5, <2>6
  <2>10. InPlace(f[v], Last(lines[v].words))
    BY <2>5, <2>7, <2>8, <2>9 DEF d
  <2> QED
    BY <2>10 DEF v
<1> HIDE DEF S
<1>10. Nat \subseteq S
  BY <1>8, <1>9, Induction
<1>11. InPlace(f[k], n) /\ f[k] \in Seq(T)
  <2>1. k - 1 \in Nat /\ (k - 1) + 1 = k /\ k <= k /\ k \in 1 .. k
    BY <1>1
  <2>2. InPlace(f[k], Last(lines[k].words))
    BY <1>10, <2>1 DEF S
  <2> QED
    BY <1>1, <1>6, <2>1, <2>2
<1>12. f[k] = [i \in 1 .. n |-> i]
  <2> DEFINE s == f[k]
  <2>1. s \in Seq(T) /\ Len(s) = n /\ \A i \in 1 .. n : s[i] = i
    BY <1>11
  <2> HIDE DEF s
  <2>2. s = [i \in 1 .. n |-> s[i]]
    BY <2>1
  <2>3. s = [i \in 1 .. n |-> i]
    BY <2>1, <2>2
  <2> QED
    BY <2>3 DEF s
<1> QED
  BY <1>6, <1>12 DEF seqs

\* The lines of a task that is done are its words, cut where it changes.
LEMMA LinesDone ==
  ASSUME AlignmentTypeOK, LinesCut
  PROVE  CutWhereItChanges
<1> SUFFICES ASSUME phase = "done"
             PROVE  /\ FlattenSeq([u \in DOMAIN utterances |-> utterances[u].words])
                         = [i \in DOMAIN words |-> i]
                    /\ \A u \in DOMAIN utterances :
                         LET ws == utterances[u].words IN
                         /\ \A i \in DOMAIN ws : /\ ~Changes(ws[1], ws[i])
                                                 /\ speakers[ws[i]] = utterances[u].speaker
                         /\ u > 1 => Changes(Last(utterances[u - 1].words), ws[1])
  BY DEF CutWhereItChanges
<1> DEFINE n == Len(words)
<1>1. /\ n \in Nat /\ DOMAIN words = 1 .. n /\ pos - 1 = n
      /\ utterances \in Seq(Utterance) /\ Flushed = utterances
  BY AlignTypes DEF LinesCut, Flushed
<1>2. CutUpTo(utterances, n)
  BY <1>1 DEF LinesCut
<1>3. FlattenSeq([u \in DOMAIN utterances |-> utterances[u].words]) = [i \in DOMAIN words |-> i]
  <2>1. CASE utterances = <<>>
    <3>1. n = 0
      BY <1>2, <2>1 DEF CutUpTo
    <3>2. [u \in DOMAIN utterances |-> utterances[u].words] = <<>>
      BY <2>1
    <3>3. FlattenSeq(<<>>) = <<>>
      BY DEF FlattenSeq
    <3>4. [i \in DOMAIN words |-> i] = <<>>
      BY <1>1, <3>1
    <3> QED
      BY <3>2, <3>3, <3>4
  <2>2. CASE utterances # <<>>
    BY <1>1, <1>2, <2>2, LinesFlattened
  <2> QED
    BY <2>1, <2>2
<1>4. \A u \in DOMAIN utterances : CutAt(utterances, u)
  BY <1>2 DEF CutUpTo
<1> QED
  BY <1>3, <1>4 DEF CutAt

----------------------------------------------------------------------------
(* The lines follow one another in time.                                   *)

\* Of words in the order of time, each ends before all those after it begin.
LEMMA WordsPairwise ==
  ASSUME NEW ws \in Seq(Word), InTime(ws), NEW i \in DOMAIN ws, NEW j \in DOMAIN ws, i < j
  PROVE  ws[i].end <= ws[j].start
<1> DEFINE n == Len(ws)
<1>1. n \in Nat /\ DOMAIN ws = 1 .. n
  OBVIOUS
<1>2. \A k \in 1 .. n : ws[k].start \in Nat /\ ws[k].end \in Nat
  <2>1. \A k \in 1 .. n : ws[k] \in Word
    BY <1>1
  <2> QED
    BY <2>1 DEF Word
<1>3. \A k \in 1 .. n : ws[k].start <= ws[k].end /\ (k > 1 => ws[k - 1].end <= ws[k].start)
  BY <1>1 DEF InTime
<1> HIDE DEF n
<1> DEFINE S == {m \in Nat : i + (m + 1) <= n => ws[i].end <= ws[i + (m + 1)].start}
<1>4. i \in Nat /\ i >= 1 /\ j \in Nat /\ j <= n
  BY <1>1
<1>5. 0 \in S
  <2> SUFFICES ASSUME i + 1 <= n PROVE ws[i].end <= ws[i + 1].start
    OBVIOUS
  <2>1. i + 1 \in 1 .. n /\ i + 1 > 1 /\ (i + 1) - 1 = i
    BY <1>1, <1>4
  <2>2. ws[(i + 1) - 1].end <= ws[i + 1].start
    BY <1>3, <2>1
  <2> QED
    BY <2>1, <2>2
<1>6. ASSUME NEW m \in Nat, m \in S
      PROVE  m + 1 \in S
  <2> SUFFICES ASSUME i + ((m + 1) + 1) <= n
               PROVE  ws[i].end <= ws[i + ((m + 1) + 1)].start
    OBVIOUS
  <2> DEFINE k == i + (m + 1)
  <2>1. k \in 1 .. n /\ k + 1 \in 1 .. n /\ k + 1 > 1 /\ (k + 1) - 1 = k /\ k + 1 = i + ((m + 1) + 1)
        /\ i \in 1 .. n /\ k <= n
    BY <1>1, <1>4
  <2>2. ws[i].end <= ws[k].start
    BY <1>6, <2>1
  <2> HIDE DEF k
  <2>3. ws[k].start <= ws[k].end
    BY <1>3, <2>1
  <2>4. ws[(k + 1) - 1].end <= ws[k + 1].start
    BY <1>3, <2>1
  <2>5. ws[k].end <= ws[k + 1].start
    BY <2>1, <2>4
  <2>6. ws[i].end \in Nat /\ ws[k].start \in Nat /\ ws[k].end \in Nat /\ ws[k + 1].start \in Nat
    BY <1>2, <2>1
  <2>7. ws[i].end <= ws[k + 1].start
    <3> DEFINE a == ws[i].end
               b == ws[k].start
               c == ws[k].end
               d == ws[k + 1].start
    <3>1. a \in Nat /\ b \in Nat /\ c \in Nat /\ d \in Nat /\ a <= b /\ b <= c /\ c <= d
      BY <2>2, <2>3, <2>5, <2>6
    <3> HIDE DEF a, b, c, d
    <3>2. a <= d
      BY <3>1
    <3> QED
      BY <3>2 DEF a, d
  <2> QED
    BY <2>1, <2>7
<1> HIDE DEF S
<1>7. Nat \subseteq S
  BY <1>5, <1>6, Induction
<1>8. (j - i) - 1 \in Nat /\ i + (((j - i) - 1) + 1) = j
  BY <1>4
<1> QED
  BY <1>4, <1>7, <1>8 DEF S

\* A line of a task that is done ends after it begins, before the next one, and with
\* Parakeet in the window it began in.
LEMMA LinesInTime ==
  ASSUME TranscriptionInv
  PROVE  LinesFollowInTime
<1> SUFFICES ASSUME phase = "done"
             PROVE  /\ \A u \in DOMAIN utterances :
                         /\ StartOf(utterances[u]) <= EndOf(utterances[u])
                         /\ u > 1 => EndOf(utterances[u - 1]) <= StartOf(utterances[u])
                    /\ asr = "parakeet" => \A u \in DOMAIN utterances : \E i \in DOMAIN heard :
                         /\ heard[i].from <= StartOf(utterances[u])
                         /\ EndOf(utterances[u]) <= End(heard[i])
  BY DEF LinesFollowInTime
<1>1. /\ AlignmentTypeOK /\ InTime(words) /\ words \in Seq(Word)
      /\ utterances \in Seq(Utterance) /\ CutUpTo(utterances, Len(words))
  <2>1. AlignmentTypeOK /\ InputsInOrder /\ LinesCut
    BY DEF TranscriptionInv, AlignmentInv
  <2>2. Flushed = utterances /\ pos = Len(words) + 1 /\ CutUpTo(Flushed, pos - 1)
    BY <2>1 DEF LinesCut, Flushed
  <2>3. pos - 1 = Len(words)
    BY <2>1, <2>2, AlignTypes
  <2> QED
    BY <2>1, <2>2, <2>3, AlignTypes DEF InputsInOrder
<1>2. \A u \in DOMAIN utterances : u \in Nat /\ CutAt(utterances, u) /\ (u > 1 => u - 1 \in DOMAIN utterances)
  BY <1>1 DEF CutUpTo
<1>3. \A i \in DOMAIN words : /\ i \in Nat /\ words[i].start \in Nat /\ words[i].end \in Nat
                              /\ words[i].segment_id \in Nat /\ words[i].start <= words[i].end
  <2>1. \A i \in DOMAIN words : i \in Nat /\ words[i] \in Word
    BY <1>1
  <2>2. \A i \in DOMAIN words : words[i].start <= words[i].end
    BY <1>1 DEF InTime
  <2> QED
    BY <2>1, <2>2 DEF Word
<1>4. ASSUME NEW u \in DOMAIN utterances
      PROVE  /\ utterances[u].words[1] \in DOMAIN words /\ Last(utterances[u].words) \in DOMAIN words
             /\ utterances[u].words[1] <= Last(utterances[u].words)
             /\ StartOf(utterances[u]) = words[utterances[u].words[1]].start
             /\ EndOf(utterances[u]) = words[Last(utterances[u].words)].end
             /\ ~Changes(utterances[u].words[1], Last(utterances[u].words))
             /\ u > 1 => utterances[u].words[1] = Last(utterances[u - 1].words) + 1
  <2> DEFINE ws == utterances[u].words
  <2>1. CutAt(utterances, u) /\ u \in Nat
    BY <1>2
  <2>2. /\ ws \in Seq(DOMAIN words) /\ ws # <<>> /\ Len(ws) \in Nat /\ Len(ws) >= 1
        /\ ws[1] \in DOMAIN words /\ Last(ws) \in DOMAIN words /\ ws[1] \in Nat
        /\ Last(ws) = ws[1] + Len(ws) - 1
    BY <1>1, <2>1, LineWords
  <2>3. (\A i \in DOMAIN ws : ~Changes(ws[1], ws[i])) /\ (u > 1 => ws[1] = Last(utterances[u - 1].words) + 1)
    BY <2>1 DEF CutAt
  <2>4. StartOf(utterances[u]) = words[Head(ws)].start /\ EndOf(utterances[u]) = words[Last(ws)].end
    BY DEF StartOf, EndOf
  <2> HIDE DEF ws
  <2>5. Head(ws) = ws[1] /\ Last(ws) = ws[Len(ws)] /\ Len(ws) \in DOMAIN ws
    BY <2>2 DEF Last
  <2>6. ws[1] <= Last(ws) /\ ~Changes(ws[1], Last(ws))
    BY <2>2, <2>3, <2>5
  <2> QED
    BY <2>2, <2>3, <2>4, <2>5, <2>6 DEF ws
<1>5. ASSUME NEW a \in DOMAIN words, NEW z \in DOMAIN words, a <= z
      PROVE  words[a].start <= words[z].end
  <2>1. CASE a = z
    BY <1>3, <2>1
  <2>2. CASE a < z
    <3>1. words[a].end <= words[z].start
      BY <1>1, <2>2, WordsPairwise
    <3> QED
      BY <1>3, <3>1
  <2> QED
    BY <1>3, <1>5, <2>1, <2>2
<1>6. \A u \in DOMAIN utterances : StartOf(utterances[u]) <= EndOf(utterances[u])
  BY <1>4, <1>5
<1>7. ASSUME NEW u \in DOMAIN utterances, u > 1
      PROVE  EndOf(utterances[u - 1]) <= StartOf(utterances[u])
  <2> DEFINE z == Last(utterances[u - 1].words)
             a == utterances[u].words[1]
  <2>1. u - 1 \in DOMAIN utterances
    BY <1>2, <1>7
  <2>2. z \in DOMAIN words /\ EndOf(utterances[u - 1]) = words[z].end
    BY <1>4, <2>1
  <2>3. a \in DOMAIN words /\ a = z + 1 /\ StartOf(utterances[u]) = words[a].start
    BY <1>4, <1>7
  <2> HIDE DEF z, a
  <2>4. z < a
    BY <1>3, <2>2, <2>3
  <2>5. words[z].end <= words[a].start
    BY <1>1, <2>2, <2>3, <2>4, WordsPairwise
  <2> QED
    BY <2>2, <2>3, <2>5
<1>8. ASSUME asr = "parakeet", NEW u \in DOMAIN utterances
      PROVE  \E i \in DOMAIN heard : /\ heard[i].from <= StartOf(utterances[u])
                                     /\ EndOf(utterances[u]) <= End(heard[i])
  <2> DEFINE z == Last(utterances[u].words)
             a == utterances[u].words[1]
             i == words[a].segment_id + 1
  <2>1. /\ a \in DOMAIN words /\ z \in DOMAIN words /\ ~Changes(a, z)
        /\ StartOf(utterances[u]) = words[a].start /\ EndOf(utterances[u]) = words[z].end
    BY <1>4
  <2>2. words = all_words /\ WordsBehind /\ WordsInTheirWindow /\ ChunksTypeOK
    BY <1>8 DEF TranscriptionInv, WordsHandedOver, ChunksInv
  <2> HIDE DEF z, a
  <2>3. words[z].segment_id = words[a].segment_id
    BY <2>1 DEF Changes
  <2>4. /\ words[a].segment_id < Len(heard)
        /\ heard[i].from <= words[a].start /\ words[z].end <= End(heard[i])
    BY <2>1, <2>2, <2>3 DEF WordsBehind, WordsInTheirWindow
  <2>5. i \in DOMAIN heard
    <3>1. heard \in Seq(Windows) /\ words[a].segment_id \in Nat
      BY <1>3, <2>1, <2>2 DEF ChunksTypeOK
    <3> QED
      BY <2>4, <3>1
  <2> QED
    BY <2>1, <2>4, <2>5
<1> QED
  BY <1>6, <1>7, <1>8

----------------------------------------------------------------------------
(* The inductive invariant of the whole, and the properties that follow.   *)

\* The words of Parakeet become those of the task once it has returned, and stay.
LEMMA HandoverStep ==
  ASSUME TranscriptionInv, [Next]_vars
  PROVE  WordsHandedOver' /\ asr' = asr
<1>1. WordsHandedOver
  BY DEF TranscriptionInv
<1>2. CASE Parakeet
  <2>1. asr = "parakeet" /\ pc # "returned" /\ UNCHANGED <<asr, phase>>
    BY <1>2 DEF Parakeet, alignVars, ChunksNext, Begin, TranscribeWhole, Extract,
                TranscribeChunk, Return, Raise, Die
  <2>2. phase = "idle"
    BY <1>1, <2>1 DEF WordsHandedOver
  <2> QED
    BY <2>1, <2>2 DEF WordsHandedOver
<1>3. CASE WordsOfParakeet
  <2>1. pc = "returned" /\ words' = all_words /\ UNCHANGED <<asr, pc, all_words>>
    BY <1>3 DEF WordsOfParakeet, TakeWords, chunkVars
  <2> QED
    BY <1>1, <2>1 DEF WordsHandedOver
<1>4. CASE WordsOfWhisper
  <2>1. asr = "whisper" /\ UNCHANGED <<asr, pc>>
    BY <1>4 DEF WordsOfWhisper, chunkVars
  <2> QED
    BY <1>1, <2>1 DEF WordsHandedOver
<1>5. CASE Diarize \/ Align
  <2>1. phase # "idle" /\ UNCHANGED <<asr, pc, all_words, words>>
    BY <1>5 DEF Diarize, TakeSegments, Align, AlignmentNext, AssignSpeaker, NameSpeaker,
                GroupWord, Finish, inputVars, chunkVars
  <2> QED
    BY <1>1, <2>1 DEF WordsHandedOver
<1>6. CASE EngineRaises
  <2>1. /\ phase # "idle" \/ asr = "whisper"
        /\ UNCHANGED <<asr, pc, all_words, words>>
    BY <1>6 DEF EngineRaises, inputVars, chunkVars
  <2> QED
    BY <1>1, <2>1 DEF WordsHandedOver
<1>7. CASE UNCHANGED vars
  BY <1>1, <1>7 DEF vars, chunkVars, alignVars, inputVars, WordsHandedOver
<1> QED
  BY <1>2, <1>3, <1>4, <1>5, <1>6, <1>7 DEF Next

\* At first there is nothing to align.
LEMMA AlignmentInitial ==
  ASSUME AlignmentInit
  PROVE  AlignmentInv /\ SpeakerWasSpeaking
<1> USE DEF AlignmentInit
<1>1. AlignmentTypeOK
  BY DEF AlignmentTypeOK
<1>2. InputsInOrder
  BY DEF InputsInOrder, InTime, InOrderOfStart
<1>3. LoopsInStep
  BY DEF LoopsInStep
<1>4. NumbersKnown
  <2>1. IsInjective(numbers) /\ Range(numbers) = {}
    BY DEF IsInjective, Range
  <2>2. {raw[i] : i \in 1 .. Len(speakers)} = {}
    OBVIOUS
  <2> QED
    BY <2>1, <2>2 DEF NumbersKnown, MappingKnown
<1>5. LinesCut
  BY DEF LinesCut, Flushed, CutUpTo
<1>6. SpeakerWasSpeaking
  BY DEF SpeakerWasSpeaking
<1> QED
  BY <1>1, <1>2, <1>3, <1>4, <1>5, <1>6 DEF AlignmentInv

\* A task begins in the invariant.
LEMMA TranscriptionInitial ==
  ASSUME Init
  PROVE  TranscriptionInv /\ SpeakerWasSpeaking
<1>1. ChunksInv
  BY ChunksInitial
<1>2. AlignmentInv /\ SpeakerWasSpeaking
  BY AlignmentInitial DEF Init
<1>3. asr \in {"parakeet", "whisper"}
  BY DEF Init
<1>4. WordsHandedOver
  BY DEF Init, ChunksInit, AlignmentInit, WordsHandedOver
<1>5. TranscriptionTypeOK
  BY <1>1, <1>2, <1>3 DEF TranscriptionTypeOK, ChunksInv, AlignmentInv
<1> QED
  BY <1>1, <1>2, <1>4, <1>5 DEF TranscriptionInv

\* Every step of a task keeps the invariant, part by part.
LEMMA TranscriptionStep ==
  ASSUME TranscriptionInv, [Next]_vars
  PROVE  TranscriptionInv'
<1>1. /\ ChunksInv /\ asr \in {"parakeet", "whisper"}
      /\ AlignmentTypeOK /\ InputsInOrder /\ LoopsInStep /\ NumbersKnown /\ LinesCut
  BY DEF TranscriptionInv, TranscriptionTypeOK, AlignmentInv
<1>2. ChunksInv'
  BY <1>1, ChunksStep
<1>3. AlignStep
  BY <1>1, AlignMoves
<1>4. AlignmentTypeOK'
  BY <1>1, <1>3, AlignTyped
<1>5. LoopsInStep'
  BY <1>1, <1>3, LoopsStep
<1>6. InputsInOrder'
  BY <1>1, <1>3, OrderStep
<1>7. NumbersKnown'
  BY <1>1, <1>3, NumbersStep
<1>8. LinesCut'
  BY <1>1, <1>3, LinesStep
<1>9. AlignmentInv'
  BY <1>4, <1>5, <1>6, <1>7, <1>8 DEF AlignmentInv
<1>10. WordsHandedOver' /\ asr' = asr
  BY HandoverStep
<1>11. TranscriptionTypeOK'
  BY <1>1, <1>2, <1>4, <1>10 DEF TranscriptionTypeOK, ChunksInv
<1> QED
  BY <1>2, <1>9, <1>10, <1>11 DEF TranscriptionInv

\* The invariant of _run_pipeline's way from audio to utterances: the loop of Parakeet,
\* the loops of align and what they have built so far belong together, whichever engines
\* the task names, whatever they answer, and when one of them raises.
THEOREM TranscriptionInvariant == Spec => []TranscriptionInv
<1>1. Init => TranscriptionInv
  BY TranscriptionInitial
<1>2. TranscriptionInv /\ [Next]_vars => TranscriptionInv'
  BY TranscriptionStep
<1> QED
  BY <1>1, <1>2, PTL DEF Spec

\* _speaker_for_word gives a word to a voice that speaks at its centre, to the one that
\* began first if there are several, and to nobody only if nobody speaks: for every answer
\* of a diarizer, because its adapter hands over the segments in the order of their starts.
THEOREM VoicesSpeaking == Spec => []SpeakerWasSpeaking
<1>1. Init => SpeakerWasSpeaking
  BY TranscriptionInitial
<1>2. TranscriptionInv /\ SpeakerWasSpeaking /\ [Next]_vars => SpeakerWasSpeaking'
  BY AlignMoves, SpeakerStep DEF TranscriptionInv, AlignmentInv
<1> QED
  BY <1>1, <1>2, TranscriptionInvariant, PTL DEF Spec

\* _canonical_names numbers the voices of a recording without a gap in the order in which
\* they were first given a word, however many there are.
THEOREM VoicesNumbered == Spec => []NamedByAppearance
<1>1. TranscriptionInv => NamedByAppearance
  BY NumbersCount DEF TranscriptionInv, AlignmentInv
<1> QED
  BY <1>1, TranscriptionInvariant, PTL

\* _group puts each word into one utterance and in its place, and cuts where the speaker
\* or the ASR segment changes, and nowhere else.
THEOREM LinesCutRight == Spec => []CutWhereItChanges
<1>1. TranscriptionInv => CutWhereItChanges
  BY LinesDone DEF TranscriptionInv, AlignmentInv
<1> QED
  BY <1>1, TranscriptionInvariant, PTL

\* The utterances that _run_pipeline returns follow one another in time, and with Parakeet
\* each lies in one window of the recording.
THEOREM TranscriptInTime == Spec => []LinesFollowInTime
<1>1. TranscriptionInv => LinesFollowInTime
  BY LinesInTime
<1> QED
  BY <1>1, TranscriptionInvariant, PTL
=============================================================================
