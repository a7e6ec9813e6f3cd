--------------------------- MODULE LyricPathProofs ---------------------------
(***************************************************************************)
(* The way of the lyrics from WeSing's memory to the window, proved for    *)
(* lyric vectors of every length and contents, words with every start and  *)
(* duration, every position and every setting of the window.               *)
(***************************************************************************)
EXTENDS HookedLyrics, FilterProofs

USE ScaleAssumption, LyricPathAssumption

------------------------------------------------------------------------------
(* Arithmetic. *)

LEMMA DivBounds ==
  ASSUME NEW a \in Int, NEW d \in Nat \ {0}
  PROVE  a \div d \in Int /\ d * (a \div d) <= a /\ a < d * (a \div d) + d
OBVIOUS

LEMMA DivMonotone ==
  ASSUME NEW a \in Int, NEW b \in Int, NEW d \in Nat \ {0}, a <= b
  PROVE  a \div d <= b \div d
OBVIOUS

\* A quotient is positive only of what is positive, and at least s of s times
\* the divisor.
LEMMA DivSigns ==
  ASSUME NEW a \in Int, NEW d \in Nat \ {0}, NEW s \in Nat
  PROVE  /\ a <= 0 => a \div d <= 0
         /\ a >= s * d => a \div d >= s
OBVIOUS

LEMMA ScaleMonotone ==
  ASSUME NEW x \in Int, NEW y \in Int, x <= y
  PROVE  Scale * x \in Int /\ Scale * y \in Int /\ Scale * x <= Scale * y
OBVIOUS

LEMMA ClampBounds ==
  ASSUME NEW x \in Int
  PROVE  /\ Clamp(x, 0, Scale) \in 0..Scale
         /\ x <= 0 => Clamp(x, 0, Scale) = 0
         /\ x >= Scale => Clamp(x, 0, Scale) = Scale
         /\ \A y \in Int : x <= y => Clamp(x, 0, Scale) <= Clamp(y, 0, Scale)
BY DEF Clamp

------------------------------------------------------------------------------
(* The reader. *)

Word == [start: Int, duration: Int]

Line == [index: Int, words: Seq(Word)]

WordsInMemory == Seq(MemWord(Starts, Durations))

PushedAt(ls) == {i \in 1..Len(ls) : IsPushed(ls[i])}

LEMMA MemWordType ==
  ASSUME NEW m \in MemWord(Starts, Durations)
  PROVE  m.start \in Int /\ m.duration \in Int
<1>1. CASE m \in [readable: {TRUE}, start: Starts, duration: Durations]
  BY <1>1
<1>2. CASE m = [readable |-> FALSE, start |-> 0, duration |-> 0]
  BY <1>2
<1> QED
  BY <1>1, <1>2 DEF MemWord

LEMMA WordsType == \A words \in WordsInMemory : ReadWords(words) \in Seq(Word)
<1> TAKE words \in WordsInMemory
<1> DEFINE good == Filter(words, Readable(words))
<1>1. good \in Seq(MemWord(Starts, Durations) \cap Readable(words))
  BY FilterType DEF WordsInMemory
<1> HIDE DEF good
<1>2. Len(good) \in Nat
  BY <1>1
<1>3. ASSUME NEW w \in 1..Len(good) PROVE ReadWord(good[w]) \in Word
  <2>1. good[w] \in MemWord(Starts, Durations)
    BY <1>1
  <2>2. good[w].start \in Int /\ good[w].duration \in Int
    BY <2>1, MemWordType
  <2> QED
    BY <2>2 DEF ReadWord, Word
<1>4. [w \in 1..Len(good) |-> ReadWord(good[w])] \in Seq(Word)
  BY <1>2, <1>3
<1> QED
  BY <1>4 DEF ReadWords, good

LEMMA VectorType ==
  ASSUME NEW ls \in Vectors \cup {<<>>}
  PROVE  ls \in Seq(MemLine) /\ \A i \in 1..Len(ls) : ls[i].words \in WordsInMemory
<1>1. ls \in Seq(MemLine)
  <2>1. CASE ls = <<>>
    BY <2>1
  <2>2. CASE \E k \in 0..MaxLines : ls \in [1..k -> MemLine]
    BY <2>2
  <2> QED
    BY <2>1, <2>2 DEF Vectors, SeqsUpTo
<1>2. ASSUME NEW i \in 1..Len(ls) PROVE ls[i].words \in WordsInMemory
  <2>1. ls[i] \in MemLine
    BY <1>1
  <2>2. \A words \in SeqsUpTo(MemWord(Starts, Durations), MaxWords) : words \in WordsInMemory
    BY DEF SeqsUpTo, WordsInMemory
  <2>3. <<>> \in WordsInMemory
    BY DEF WordsInMemory
  <2>4. CASE ls[i] \in [readable: {TRUE}, words: SeqsUpTo(MemWord(Starts, Durations), MaxWords)]
    BY <2>2, <2>4
  <2>5. CASE ls[i] = [readable |-> FALSE, words |-> <<>>]
    BY <2>3, <2>5
  <2> QED
    BY <2>1, <2>4, <2>5 DEF MemLine
<1> QED
  BY <1>1, <1>2

\* The timeline is the lines at the places of p, numbered from 0.
ReadFrom(ls, p, t) ==
  /\ Lists(p, Len(ls), PushedAt(ls))
  /\ t \in Seq(Line) /\ Len(t) = Len(p)
  /\ \A k \in 1..Len(t) : t[k].index = p[k] - 1

LEMMA TimelineRead ==
  ASSUME NEW ls \in Vectors \cup {<<>>}
  PROVE  \E p : ReadFrom(ls, p, ReadTimeline(ls))
<1> DEFINE p == Filter(Places(Len(ls)), PushedAt(ls))
           t == [k \in 1..Len(p) |-> ReadLine(ls[p[k]], p[k] - 1)]
<1>1. ls \in Seq(MemLine) /\ Len(ls) \in Nat /\ \A i \in 1..Len(ls) : ls[i].words \in WordsInMemory
  BY VectorType
<1>2. Lists(p, Len(ls), PushedAt(ls))
  BY <1>1, FilterPlaces
<1>3. ReadTimeline(ls) = t
  BY DEF ReadTimeline, Places, PushedAt
<1> HIDE DEF p
<1>4. p \in Seq(Nat) /\ Len(p) \in Nat /\ \A k \in 1..Len(p) : p[k] \in 1..Len(ls)
  BY <1>2 DEF Lists
<1>5. ASSUME NEW k \in 1..Len(p) PROVE t[k] \in Line /\ t[k].index = p[k] - 1
  <2>1. p[k] - 1 \in Int /\ ReadWords(ls[p[k]].words) \in Seq(Word)
    BY <1>1, <1>4, WordsType
  <2> QED
    BY <2>1 DEF ReadLine, Line
<1>6. t \in Seq(Line) /\ Len(t) = Len(p)
  BY <1>4, <1>5
<1> QED
  BY <1>2, <1>3, <1>5, <1>6 DEF ReadFrom

------------------------------------------------------------------------------
(* The inductive invariant. *)

\* The timeline on display is the one read from the vector that WeSing still has.
PathInv ==
  /\ lines \in Vectors \cup {<<>>}
  /\ timeline = <<>> \/ timeline = ReadTimeline(lines)
  /\ lines = <<>> => timeline = <<>>
  /\ playback \in [position_ms: Int, current_line: Int]

LEMMA PathInit == HookedInit => PathInv
BY DEF HookedInit, PathInv, NoPlayback, NoLine

LEMMA PathStep == PathInv /\ [HookedNext]_hookedVars => PathInv'
<1> SUFFICES ASSUME PathInv, [HookedNext]_hookedVars PROVE PathInv'
  OBVIOUS
<1>1. CASE Begin
  BY <1>1 DEF PathInv, Begin
<1>2. CASE UNCHANGED vars
  BY <1>2 DEF PathInv, vars
<1>3. CASE lines # <<>> /\ Next
  <2>1. CASE NoLyrics
    BY <1>2, <2>1 DEF NoLyrics
  <2>2. ASSUME NEW current \in -1..Len(lines) - 1, NEW position \in 0..MaxPosition,
               Render(current, position)
        PROVE  PathInv'
    <3>1. Len(lines) \in Nat
      BY VectorType DEF PathInv
    <3>2. position \in Int /\ CurrentLine(current) \in Int
      BY <3>1 DEF CurrentLine, NoLine
    <3>3. playback' \in [position_ms: Int, current_line: Int]
      BY <2>2, <3>2 DEF Render
    <3> QED
      BY <1>3, <2>2, <3>3 DEF PathInv, Render
  <2> QED
    BY <1>3, <2>1, <2>2 DEF Next
<1> QED
  BY <1>1, <1>2, <1>3 DEF HookedNext, hookedVars, Install, Refused, Sing

LEMMA PathInductive == HookedSpec => []PathInv
BY PathInit, PathStep, PTL DEF HookedSpec

LEMMA OnDisplay ==
  ASSUME PathInv
  PROVE  /\ timeline \in Seq(Line) /\ Len(lines) \in Nat
         /\ timeline # <<>> => \E p : ReadFrom(lines, p, timeline)
         /\ playback.current_line \in Int /\ playback.position_ms \in Int
<1>1. \E p : ReadFrom(lines, p, ReadTimeline(lines))
  BY TimelineRead DEF PathInv
<1>2. timeline \in Seq(Line)
  <2>1. <<>> \in Seq(Line)
    OBVIOUS
  <2> QED
    BY <1>1, <2>1 DEF PathInv, ReadFrom
<1>3. Len(lines) \in Nat
  BY VectorType DEF PathInv
<1> QED
  BY <1>1, <1>2, <1>3 DEF PathInv

------------------------------------------------------------------------------
(* The window. *)

LEMMA Current ==
  ASSUME PathInv
  PROVE  LET index == CurrentIndex(timeline, playback) IN
         /\ index \in -1..Len(timeline) - 1
         /\ index # NoLine => index = playback.current_line
BY OnDisplay DEF CurrentIndex, NoLine

\* Unless an entry before it was skipped, the line that the window highlights is
\* the one that WeSing played when it rendered.
THEOREM ActiveIsPlayed == HookedSpec => []ActiveLineShownIfWhole
<1>1. PathInv => ActiveLineShownIfWhole
  <2> SUFFICES ASSUME PathInv, Active \in DOMAIN timeline, \A i \in 1..Active : IsPushed(lines[i])
               PROVE  timeline[Active].index = playback.current_line
    BY DEF ActiveLineShownIfWhole
  <2>1. /\ timeline \in Seq(Line) /\ Len(lines) \in Nat /\ Len(timeline) \in Nat
        /\ Active \in 1..Len(timeline) /\ Active - 1 = playback.current_line
    BY OnDisplay, Current DEF Active, NoLine
  <2>2. PICK p : ReadFrom(lines, p, timeline)
    BY <2>1, OnDisplay
  <2>3. Active \in 1..Len(lines) /\ timeline[Active].index = p[Active] - 1
    BY <2>1, <2>2 DEF ReadFrom, Lists
  <2>4. 1..Active \subseteq PushedAt(lines)
    BY <2>1, <2>3 DEF PushedAt
  <2>5. p[Active] = Active
    BY <2>2, <2>3, <2>4 DEF ReadFrom, Lists
  <2> QED
    BY <2>1, <2>3, <2>5
<1> QED
  BY <1>1, PathInductive, PTL

Joins(u, s, t) == u = s \o t

LEMMA JoinsAt ==
  ASSUME NEW s \in Seq(Line), NEW t \in Seq(Line), NEW u, Joins(u, s, t)
  PROVE  /\ Len(u) = Len(s) + Len(t)
         /\ \A k \in 1..Len(s) : u[k] = s[k]
         /\ \A k \in 1..Len(t) : u[Len(s) + k] = t[k]
<1> DEFINE n == Len(s)
<1>1. /\ Len(u) = n + Len(t) /\ Len(t) \in Nat /\ n \in Nat
      /\ \A k \in 1..Len(u) : u[k] = IF k <= n THEN s[k] ELSE t[k - n]
  BY ConcatProperties DEF Joins
<1> HIDE DEF n
<1>2. ASSUME NEW k \in 1..Len(t) PROVE u[n + k] = t[k]
  <2>1. n + k \in 1..Len(u) /\ ~(n + k <= n) /\ (n + k) - n = k
    BY <1>1
  <2> QED
    BY <1>1, <2>1
<1>3. \A k \in 1..n : k \in 1..Len(u) /\ k <= n
  BY <1>1
<1> QED
  BY <1>1, <1>2, <1>3 DEF n

\* Whatever the settings, the window is a stretch of the timeline.
LEMMA WindowIsStretch ==
  ASSUME PathInv, NEW show \in BOOLEAN, NEW count \in Nat
  PROVE  LET window == Window(timeline, playback, show, count) IN
         /\ Len(window) \in Nat
         /\ \E before \in Nat :
              \A k \in 1..Len(window) : before + k <= Len(timeline) /\ window[k] = timeline[before + k]
<1> DEFINE index == CurrentIndex(timeline, playback)
           size == Len(timeline)
           rest == Candidates(timeline, index, count)
<1>1. timeline \in Seq(Line) /\ size \in Nat /\ index \in -1..size - 1
  BY OnDisplay, Current
<1>2. /\ rest \in Seq(Line) /\ Len(rest) \in Nat
      /\ \A k \in 1..Len(rest) : index + 1 + k <= size /\ rest[k] = timeline[index + 1 + k]
  <2> HIDE DEF index
  <2> QED
    BY <1>1 DEF Candidates
<1> HIDE DEF index, rest
<1>3. CASE index = NoLine
  <2>1. Window(timeline, playback, show, count) = <<>> \o <<>> \o rest
    BY <1>3 DEF Window, index, rest, NoLine
  <2>2. <<>> \o <<>> \o rest = rest
    BY <1>2
  <2>3. \A k \in 1..Len(rest) : 0 + k <= size /\ rest[k] = timeline[0 + k]
    BY <1>2, <1>3 DEF NoLine
  <2> QED
    BY <1>2, <2>1, <2>2, <2>3
<1> DEFINE window == Window(timeline, playback, show, count)
<1>4. CASE index # NoLine /\ show /\ index > 0
  <2> DEFINE first == <<timeline[index]>>
             second == <<timeline[index + 1]>>
             head == first \o second
             before == index - 1
  <2>1. Joins(window, head, rest)
    BY <1>4 DEF Window, index, rest, Joins
  <2>2. head \in Seq(Line) /\ Len(head) = 2 /\ head[1] = timeline[index] /\ head[2] = timeline[index + 1]
    <3>1. timeline[index] \in Line /\ timeline[index + 1] \in Line
      BY <1>1, <1>4
    <3> QED
      BY <3>1
  <2> HIDE DEF head, window
  <2>3. /\ Len(window) = 2 + Len(rest)
        /\ \A k \in 1..2 : window[k] = head[k]
        /\ \A k \in 1..Len(rest) : window[2 + k] = rest[k]
    <3>1. /\ Len(window) = Len(head) + Len(rest)
          /\ \A k \in 1..Len(head) : window[k] = head[k]
          /\ \A k \in 1..Len(rest) : window[Len(head) + k] = rest[k]
      <4>1. head \in Seq(Line) /\ rest \in Seq(Line) /\ Joins(window, head, rest)
        BY <1>2, <2>1, <2>2
      <4>2. Len(window) = Len(head) + Len(rest)
        BY <4>1, JoinsAt
      <4>3. \A k \in 1..Len(head) : window[k] = head[k]
        BY <4>1, JoinsAt
      <4>4. \A k \in 1..Len(rest) : window[Len(head) + k] = rest[k]
        BY <4>1, JoinsAt
      <4> QED
        BY <4>2, <4>3, <4>4
    <3> QED
      BY <2>2, <3>1
  <2>4. before \in Nat /\ Len(window) \in Nat
    BY <1>1, <1>2, <1>4, <2>3
  <2>5. ASSUME NEW k \in 1..Len(window)
        PROVE  before + k <= size /\ window[k] = timeline[before + k]
    <3>1. k = 1 \/ k = 2 \/ k - 2 \in 1..Len(rest)
      BY <1>2, <2>3
    <3>2. CASE k = 1 \/ k = 2
      BY <1>1, <1>4, <2>2, <2>3, <3>2
    <3>3. CASE k - 2 \in 1..Len(rest)
      <4>1. window[2 + (k - 2)] = rest[k - 2]
        BY <2>3, <3>3
      <4>2. index + 1 + (k - 2) <= size /\ rest[k - 2] = timeline[index + 1 + (k - 2)]
        BY <1>2, <3>3
      <4>3. 2 + (k - 2) = k /\ index + 1 + (k - 2) = before + k
        BY <1>1, <2>4
      <4> QED
        BY <4>1, <4>2, <4>3
    <3> QED
      BY <3>1, <3>2, <3>3
  <2> QED
    BY <2>4, <2>5 DEF window
<1>5. CASE index # NoLine /\ ~(show /\ index > 0)
  <2> DEFINE head == <<timeline[index + 1]>>
  <2>0. window = <<>> \o head \o rest
    BY <1>5 DEF Window, index, rest
  <2>2. head \in Seq(Line) /\ Len(head) = 1 /\ head[1] = timeline[index + 1] /\ <<>> \o head = head
    <3>1. timeline[index + 1] \in Line
      BY <1>1, <1>5 DEF NoLine
    <3> QED
      BY <3>1
  <2>1. Joins(window, head, rest)
    BY <2>0, <2>2 DEF Joins
  <2> HIDE DEF head, window
  <2>3. /\ Len(window) = 1 + Len(rest)
        /\ \A k \in 1..1 : window[k] = head[k]
        /\ \A k \in 1..Len(rest) : window[1 + k] = rest[k]
    <3>1. /\ Len(window) = Len(head) + Len(rest)
          /\ \A k \in 1..Len(head) : window[k] = head[k]
          /\ \A k \in 1..Len(rest) : window[Len(head) + k] = rest[k]
      <4>1. head \in Seq(Line) /\ rest \in Seq(Line) /\ Joins(window, head, rest)
        BY <1>2, <2>1, <2>2
      <4>2. Len(window) = Len(head) + Len(rest)
        BY <4>1, JoinsAt
      <4>3. \A k \in 1..Len(head) : window[k] = head[k]
        BY <4>1, JoinsAt
      <4>4. \A k \in 1..Len(rest) : window[Len(head) + k] = rest[k]
        BY <4>1, JoinsAt
      <4> QED
        BY <4>2, <4>3, <4>4
    <3> QED
      BY <2>2, <3>1
  <2>4. index \in Nat /\ Len(window) \in Nat
    BY <1>1, <1>2, <1>5, <2>3 DEF NoLine
  <2>5. ASSUME NEW k \in 1..Len(window)
        PROVE  index + k <= size /\ window[k] = timeline[index + k]
    <3>1. k = 1 \/ k - 1 \in 1..Len(rest)
      BY <1>2, <2>3
    <3>2. CASE k = 1
      BY <1>1, <2>2, <2>3, <3>2
    <3>3. CASE k - 1 \in 1..Len(rest)
      <4>1. window[1 + (k - 1)] = rest[k - 1]
        BY <2>3, <3>3
      <4>2. index + 1 + (k - 1) <= size /\ rest[k - 1] = timeline[index + 1 + (k - 1)]
        BY <1>2, <3>3
      <4>3. 1 + (k - 1) = k /\ index + 1 + (k - 1) = index + k
        BY <1>1, <2>4
      <4> QED
        BY <4>1, <4>2, <4>3
    <3> QED
      BY <3>1, <3>2, <3>3
  <2> QED
    BY <2>4, <2>5 DEF window
<1> QED
  BY <1>3, <1>4, <1>5

\* From top to bottom the window goes through the song, and leaves out only what
\* cannot be read or has no text.
THEOREM WindowFollowsSong == HookedSpec => []WindowInOrder
<1>1. PathInv => WindowInOrder
  <2> SUFFICES ASSUME PathInv, timeline # <<>>,
                      NEW show \in BOOLEAN, NEW count \in 0..MaxLines,
                      NEW k \in 1..Len(Window(timeline, playback, show, count)) - 1
               PROVE  LET window == Window(timeline, playback, show, count) IN
                      /\ window[k].index < window[k + 1].index
                      /\ \A i \in window[k].index + 1..window[k + 1].index - 1 : ~IsPushed(lines[i + 1])
    BY DEF WindowInOrder
  <2> DEFINE window == Window(timeline, playback, show, count)
  <2>1. Len(window) \in Nat
    BY WindowIsStretch
  <2>2. PICK before \in Nat :
          \A j \in 1..Len(window) : before + j <= Len(timeline) /\ window[j] = timeline[before + j]
    <3>1. count \in Nat
      OBVIOUS
    <3> QED
      BY <3>1, WindowIsStretch, Zenon
  <2> HIDE DEF window
  <2>3. PICK p : ReadFrom(lines, p, timeline)
    BY OnDisplay
  <2> DEFINE a == before + k
  <2>4. /\ Len(timeline) \in Nat /\ a \in 1..Len(timeline) /\ a + 1 \in 1..Len(timeline)
        /\ window[k] = timeline[a] /\ window[k + 1] = timeline[a + 1]
    <3>1. k \in 1..Len(window) /\ k + 1 \in 1..Len(window) /\ before + (k + 1) = a + 1
      BY <2>1 DEF window
    <3>2. Len(timeline) \in Nat
      BY OnDisplay
    <3>3. /\ before + k <= Len(timeline) /\ window[k] = timeline[before + k]
          /\ before + (k + 1) <= Len(timeline) /\ window[k + 1] = timeline[before + (k + 1)]
      BY <2>2, <3>1
    <3>4. a \in 1..Len(timeline) /\ a + 1 \in 1..Len(timeline)
      BY <3>1, <3>2, <3>3
    <3> QED
      BY <3>1, <3>2, <3>3, <3>4, Zenon
  <2> HIDE DEF a
  <2>5. /\ p \in Seq(Nat) /\ Len(p) = Len(timeline)
        /\ timeline[a].index = p[a] - 1 /\ timeline[a + 1].index = p[a + 1] - 1
    BY <2>3, <2>4 DEF ReadFrom, Lists
  <2>0. /\ \A i \in 1..Len(p) : p[i] \in 1..Len(lines)
        /\ \A i, j \in 1..Len(p) : i < j => p[i] < p[j]
        /\ \A m \in 1..Len(lines) : m \in PushedAt(lines) => \E i \in 1..Len(p) : p[i] = m
    BY <2>3 DEF ReadFrom, Lists
  <2>6. p[a] \in Nat /\ p[a + 1] \in Nat /\ p[a] < p[a + 1]
    <3>1. a < a + 1 /\ a \in 1..Len(p) /\ a + 1 \in 1..Len(p)
      BY <2>4, <2>5
    <3>2. p[a] \in 1..Len(lines) /\ p[a + 1] \in 1..Len(lines)
      BY <2>0, <3>1
    <3>3. p[a] < p[a + 1]
      BY <2>0, <3>1
    <3> QED
      BY <3>2, <3>3
  <2>7. ASSUME NEW i \in p[a]..p[a + 1] - 2 PROVE ~IsPushed(lines[i + 1])
    <3> SUFFICES ASSUME IsPushed(lines[i + 1]) PROVE FALSE
      OBVIOUS
    <3>1. p[a + 1] \in 1..Len(lines) /\ Len(lines) \in Nat
      BY <2>0, <2>4, <2>5, OnDisplay
    <3>2. i + 1 \in 1..Len(lines) /\ p[a] < i + 1 /\ i + 1 < p[a + 1]
      BY <2>6, <3>1
    <3>3. i + 1 \in PushedAt(lines)
      BY <3>2 DEF PushedAt
    <3>4. PICK b \in 1..Len(p) : p[b] = i + 1
      BY <2>0, <3>2, <3>3
    <3>5. b < a \/ b = a \/ b = a + 1 \/ a + 1 < b
      <4>1. a \in Int /\ b \in Int
        BY <2>4, <2>5
      <4> QED
        BY <4>1
    <3>6. b < a => p[b] < p[a]
      BY <2>0, <2>4, <2>5
    <3>7. a + 1 < b => p[a + 1] < p[b]
      BY <2>0, <2>4, <2>5
    <3> QED
      BY <2>6, <3>2, <3>4, <3>5, <3>6, <3>7
  <2>8. /\ window[k].index < window[k + 1].index
        /\ \A i \in window[k].index + 1..window[k + 1].index - 1 : ~IsPushed(lines[i + 1])
    <3> DEFINE v == window[k].index
               w == window[k + 1].index
               x == p[a]
               y == p[a + 1]
    <3>1. v = p[a] - 1 /\ w = p[a + 1] - 1
      BY <2>4, <2>5
    <3> HIDE DEF v, w, x, y
    <3>2. x \in Nat /\ y \in Nat /\ x < y /\ v = x - 1 /\ w = y - 1
      BY <2>6, <3>1 DEF x, y
    <3>3. v + 1 = x /\ w - 1 = y - 2 /\ v < w
      BY <3>2
    <3>4. v < w /\ \A i \in v + 1..w - 1 : ~IsPushed(lines[i + 1])
      BY <2>7, <3>3 DEF x, y
    <3> QED
      BY <3>4 DEF v, w
  <2> QED
    BY <2>8 DEF window
<1> QED
  BY <1>1, PathInductive, PTL

------------------------------------------------------------------------------
(* The words of the active line. *)

\* How far a word is highlighted, without the cases.
LEMMA HighlightIs ==
  ASSUME NEW word \in Word, NEW t \in Int
  PROVE  /\ word.duration > 0 =>
              Highlight(word, t) = Clamp((Scale * (t - word.start)) \div word.duration, 0, Scale)
         /\ word.duration <= 0 =>
              Highlight(word, t) = IF t >= word.start THEN Scale ELSE 0
<1>1. word.duration \in Int
  BY DEF Word
<1>2. CASE word.duration > 0
  BY <1>1, <1>2 DEF Highlight
<1>3. CASE word.duration <= 0
  BY <1>1, <1>3 DEF Highlight
<1> QED
  BY <1>1, <1>2, <1>3

LEMMA Quotients ==
  ASSUME NEW word \in Word, word.duration > 0, NEW t \in Int
  PROVE  /\ Scale * (t - word.start) \in Int
         /\ (Scale * (t - word.start)) \div word.duration \in Int
         /\ t <= word.start => (Scale * (t - word.start)) \div word.duration <= 0
         /\ t >= word.start + word.duration => (Scale * (t - word.start)) \div word.duration >= Scale
         /\ \A u \in Int : t <= u => (Scale * (t - word.start)) \div word.duration
                                       <= (Scale * (u - word.start)) \div word.duration
<1> DEFINE s == word.start
           d == word.duration
<1>0. s \in Int /\ d \in Nat \ {0} /\ Scale \in Nat
  BY DEF Word
<1> HIDE DEF s, d
<1>1. Scale * (t - s) \in Int /\ (t <= s => Scale * (t - s) <= 0)
  <2>1. t - s \in Int /\ Scale * (t - s) \in Int
    BY <1>0
  <2>2. ASSUME t <= s PROVE Scale * (t - s) <= Scale * 0
    <3>1. t - s <= 0
      BY <1>0, <2>2
    <3> QED
      BY <2>1, <3>1, ScaleMonotone
  <2> QED
    BY <1>0, <2>1, <2>2
<1>2. t >= s + d => Scale * (t - s) >= Scale * d
  <2> SUFFICES ASSUME t >= s + d PROVE Scale * d <= Scale * (t - s)
    BY <1>0, <1>1
  <2>1. d \in Int /\ t - s \in Int /\ d <= t - s
    BY <1>0
  <2> QED
    BY <2>1, ScaleMonotone
<1>3. (Scale * (t - s)) \div d \in Int
  BY <1>0, <1>1, DivBounds
<1>4. /\ Scale * (t - s) <= 0 => (Scale * (t - s)) \div d <= 0
      /\ Scale * (t - s) >= Scale * d => (Scale * (t - s)) \div d >= Scale
  BY <1>0, <1>1, DivSigns
<1>5. ASSUME NEW u \in Int, t <= u
      PROVE  (Scale * (t - s)) \div d <= (Scale * (u - s)) \div d
  <2>1. t - s \in Int /\ u - s \in Int /\ t - s <= u - s
    BY <1>0, <1>5
  <2>2. Scale * (t - s) \in Int /\ Scale * (u - s) \in Int /\ Scale * (t - s) <= Scale * (u - s)
    BY <2>1, ScaleMonotone
  <2> QED
    BY <1>0, <2>2, DivMonotone
<1> QED
  BY <1>1, <1>2, <1>3, <1>4, <1>5 DEF s, d

\* A word is not highlighted before its start, full from its end, and never less
\* at a later position.
LEMMA HighlightOverTime ==
  ASSUME NEW word \in Word, NEW t \in Int
  PROVE  /\ Highlight(word, t) \in 0..Scale
         /\ Highlight(word, t) > 0 => t >= word.start
         /\ word.duration >= 0 /\ t >= word.start + word.duration => Highlight(word, t) = Scale
         /\ \A u \in Int : t <= u => Highlight(word, t) <= Highlight(word, u)
<1>1. word.start \in Int /\ word.duration \in Int /\ Scale \in Nat
  BY DEF Word
<1>2. CASE word.duration > 0
  <2> DEFINE q(x) == (Scale * (x - word.start)) \div word.duration
  <2>1. \A x \in Int : q(x) \in Int /\ Highlight(word, x) = Clamp(q(x), 0, Scale)
    BY <1>2, Quotients, HighlightIs
  <2>2. t <= word.start => q(t) <= 0
    BY <1>2, Quotients
  <2>3. t >= word.start + word.duration => q(t) >= Scale
    BY <1>2, Quotients
  <2>4. \A u \in Int : t <= u => q(t) <= q(u)
    BY <1>2, Quotients
  <2> HIDE DEF q
  <2>5. /\ Clamp(q(t), 0, Scale) \in 0..Scale
        /\ q(t) <= 0 => Clamp(q(t), 0, Scale) = 0
        /\ q(t) >= Scale => Clamp(q(t), 0, Scale) = Scale
        /\ \A y \in Int : q(t) <= y => Clamp(q(t), 0, Scale) <= Clamp(y, 0, Scale)
    BY <2>1, ClampBounds
  <2>6. \A u \in Int : t <= u => Clamp(q(t), 0, Scale) <= Clamp(q(u), 0, Scale)
    BY <2>1, <2>4, <2>5
  <2> QED
    BY <1>1, <2>1, <2>2, <2>3, <2>5, <2>6
<1>3. CASE word.duration <= 0
  <2>1. \A x \in Int : Highlight(word, x) = IF x >= word.start THEN Scale ELSE 0
    BY <1>3, HighlightIs
  <2> QED
    BY <1>1, <1>3, <2>1
<1> QED
  BY <1>1, <1>2, <1>3

LEMMA ActiveWords ==
  ASSUME PathInv, Active \in DOMAIN timeline
  PROVE  /\ timeline[Active].words \in Seq(Word)
         /\ \A w \in DOMAIN timeline[Active].words : timeline[Active].words[w] \in Word
<1>1. timeline[Active] \in Line
  BY OnDisplay
<1> QED
  BY <1>1 DEF Line

\* Where the words of a line follow one another, the highlight goes through them
\* from left to right, whatever the rounding of the progress.
THEOREM WordsFollow == HookedSpec => []WordsFillInOrder
<1>1. PathInv => WordsFillInOrder
  <2> DEFINE words == timeline[Active].words
             t == playback.position_ms
  <2> SUFFICES ASSUME PathInv, Active \in DOMAIN timeline, NEW w \in 1..Len(words) - 1,
                      words[w].duration >= 0,
                      words[w].start + words[w].duration <= words[w + 1].start,
                      Highlight(words[w + 1], t) > 0
               PROVE  Highlight(words[w], t) = Scale
    BY DEF WordsFillInOrder, HighlightOf
  <2>1. words[w] \in Word /\ words[w + 1] \in Word /\ t \in Int
    BY ActiveWords, OnDisplay
  <2> HIDE DEF words, t
  <2>2. t >= words[w + 1].start
    BY <2>1, HighlightOverTime
  <2>3. t >= words[w].start + words[w].duration
    BY <2>1, <2>2 DEF Word
  <2> QED
    BY <2>1, <2>3, HighlightOverTime
<1> QED
  BY <1>1, PathInductive, PTL

\* As long as the position does not go back within a line, no word loses
\* highlight, whatever its duration, negative ones included.
THEOREM HighlightAdvances == HookedSpec => HighlightNeverRecedes
<1>1. ASSUME PathInv, PathInv', Active \in DOMAIN timeline,
             UNCHANGED <<timeline, playback.current_line>>,
             playback'.position_ms >= playback.position_ms,
             NEW w \in DOMAIN timeline[Active].words
      PROVE  HighlightOf(w)' >= HighlightOf(w)
  <2> DEFINE word == timeline[Active].words[w]
  <2>1. Active' = Active /\ timeline' = timeline
    BY <1>1 DEF Active, CurrentIndex
  <2>2. word \in Word /\ playback.position_ms \in Int /\ playback'.position_ms \in Int
    BY <1>1, ActiveWords, OnDisplay DEF PathInv
  <2>3. /\ HighlightOf(w) = Highlight(word, playback.position_ms)
        /\ HighlightOf(w)' = Highlight(word, playback'.position_ms)
    BY <2>1 DEF HighlightOf, Highlight
  <2> HIDE DEF word
  <2>4. /\ Highlight(word, playback.position_ms) <= Highlight(word, playback'.position_ms)
        /\ Highlight(word, playback.position_ms) \in Int
        /\ Highlight(word, playback'.position_ms) \in Int
    BY <1>1, <2>2, HighlightOverTime
  <2> QED
    BY <2>3, <2>4
<1>2. PathInv /\ PathInv' =>
        [/\ Active \in DOMAIN timeline
         /\ UNCHANGED <<timeline, playback.current_line>>
         /\ playback'.position_ms >= playback.position_ms
         => \A w \in DOMAIN timeline[Active].words : HighlightOf(w)' >= HighlightOf(w)]_vars
  BY <1>1
<1> QED
  BY <1>2, PathInductive, PTL DEF HighlightNeverRecedes

==============================================================================
