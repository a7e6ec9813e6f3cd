------------------------------ MODULE LyricPath ------------------------------
(***************************************************************************)
(* From WeSing's lyric vector to the lyrics window: the hook's reader and  *)
(* the host's view, with the channel between them taken as perfect (the    *)
(* losses of the real one are in KgCapture).  WeSing renders one song at   *)
(* any position; the window shows what the last callback sent.             *)
(***************************************************************************)
EXTENDS LyricView, FiniteSets

CONSTANTS
  Starts,       \* where words start
  Durations,    \* how long words last
  MaxLines,     \* bound: entries of the lyric vector
  MaxWords,     \* bound: words of a line
  MaxAllWords,  \* bound: words of all lines together
  MaxPosition   \* bound: playback position

ASSUME LyricPathAssumption ==
  /\ Starts \subseteq Int /\ Durations \subseteq Int
  /\ {MaxLines, MaxWords, MaxAllWords, MaxPosition} \subseteq Nat

VARIABLES
  lines,     \* WeSing's lyric vector
  timeline,  \* App.timeline's lines; empty before the first
  playback   \* App.playback

vars == <<lines, timeline, playback>>

NoPlayback == [position_ms |-> 0, current_line |-> NoLine]

SeqsUpTo(S, n) == UNION {[1..k -> S] : k \in 0..n}

\* An entry that can be read, with any words, or one that cannot.
MemLine ==
  [readable: {TRUE}, words: SeqsUpTo(MemWord(Starts, Durations), MaxWords)]
    \cup {[readable |-> FALSE, words |-> <<>>]}

\* Any vector of lines that is not empty.
Vectors ==
  {v \in SeqsUpTo(MemLine, MaxLines) \ {<<>>} :
     Cardinality(UNION {{i} \X DOMAIN v[i].words : i \in DOMAIN v}) <= MaxAllWords}

Init ==
  /\ lines \in Vectors
  /\ timeline = <<>> /\ playback = NoPlayback

\* A callback in which WeSing is at position in line current, -1 before the
\* first; the singer may have sought.  The first one sends the timeline.
Render(current, position) ==
  LET read == IF timeline = <<>> THEN ReadTimeline(lines) ELSE timeline IN
  /\ read # <<>>
  /\ timeline' = read
  /\ playback' = [position_ms |-> position, current_line |-> CurrentLine(current)]
  /\ UNCHANGED lines

\* WeSing plays an empty song: no line is ever read.
NoLyrics == ReadTimeline(lines) = <<>> /\ UNCHANGED vars

Next ==
  \/ \E current \in -1..Len(lines) - 1, position \in 0..MaxPosition : Render(current, position)
  \/ NoLyrics

Spec == Init /\ [][Next]_vars

------------------------------------------------------------------------------

\* The line in the middle of the window, if any.
Active == CurrentIndex(timeline, playback) + 1

\* PlaybackPosition carries the active line (README): the line the window
\* highlights is the one WeSing played when it rendered.
ActiveLineShown ==
  Active \in DOMAIN timeline => timeline[Active].index = playback.current_line

\* ...which holds as long as no entry before the active one was skipped.
ActiveLineShownIfWhole ==
  Active \in DOMAIN timeline /\ (\A i \in 1..Active : IsPushed(lines[i]))
    => timeline[Active].index = playback.current_line

\* Nothing appears twice or out of order in the window, and between its first
\* and its last line only lines that cannot be read or have no text are
\* missing, whatever the appearance settings.
WindowInOrder ==
  timeline # <<>> =>
    \A show_previous_line \in BOOLEAN, count \in 0..MaxLines :
      LET window == Window(timeline, playback, show_previous_line, count) IN
      \A k \in 1..Len(window) - 1 :
        /\ window[k].index < window[k + 1].index
        /\ \A i \in window[k].index + 1..window[k + 1].index - 1 : ~IsPushed(lines[i + 1])

HighlightOf(w) == Highlight(timeline[Active].words[w], playback.position_ms)

\* While the song goes on within a line, no word of it loses highlight, words
\* with zero or negative durations in WeSing's memory included.
HighlightNeverRecedes ==
  [][/\ Active \in DOMAIN timeline
     /\ UNCHANGED <<timeline, playback.current_line>>
     /\ playback'.position_ms >= playback.position_ms
     => \A w \in DOMAIN timeline[Active].words : HighlightOf(w)' >= HighlightOf(w)]_vars

\* When the words of a line follow one another, no word is highlighted before
\* the one to its left is full.
WordsFillInOrder ==
  Active \in DOMAIN timeline =>
    LET words == timeline[Active].words IN
    \A w \in 1..Len(words) - 1 :
      /\ words[w].duration >= 0
      /\ words[w].start + words[w].duration <= words[w + 1].start
      /\ HighlightOf(w + 1) > 0
      => HighlightOf(w) = Scale

==============================================================================
