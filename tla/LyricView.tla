------------------------------ MODULE LyricView ------------------------------
(***************************************************************************)
(* lyric_view and current_line_view of crates/kg-capture-app/src/main.rs:  *)
(* which lines of a timeline the lyrics window shows for a playback        *)
(* position, and how far each word of the active line is highlighted.      *)
(* Fonts, colours and alignment are left out.                              *)
(***************************************************************************)
EXTENDS LyricReader

CONSTANT Scale   \* a progress of 1.0

ASSUME ScaleAssumption == Scale \in Nat \ {0}

\* Positions in timeline.lines count from 0, sequences from 1.
Mutant_CurrentIndex(timeline, playback) ==   \* the line before
  IF playback.current_line \in 1..Len(timeline) - 1 THEN playback.current_line - 1 ELSE NoLine

CurrentIndex(timeline, playback) ==
  IF playback.current_line \in 0..Len(timeline) - 1 THEN playback.current_line ELSE NoLine

\* skip(index + 1).take(count); from the start when no line is active.
Candidates(timeline, index, count) ==
  SubSeq(timeline, index + 2, IF index + 1 + count < Len(timeline) THEN index + 1 + count ELSE Len(timeline))

Mutant_Window(timeline, playback, show_previous_line, count) ==   \* lines[index] for lines[index - 1]
  LET index == CurrentIndex(timeline, playback)
      active == IF index = NoLine THEN <<>> ELSE <<timeline[index + 1]>>
      previous == IF show_previous_line /\ index > 0 THEN active ELSE <<>>
  IN  previous \o active \o Candidates(timeline, index, count)

\* The lines of the window from top to bottom.
Window(timeline, playback, show_previous_line, count) ==
  LET index == CurrentIndex(timeline, playback)
      previous == IF show_previous_line /\ index > 0 THEN <<timeline[index]>> ELSE <<>>
      active == IF index = NoLine THEN <<>> ELSE <<timeline[index + 1]>>
  IN  previous \o active \o Candidates(timeline, index, count)

Clamp(x, low, high) == IF x < low THEN low ELSE IF x > high THEN high ELSE x

Mutant_Highlight(word, position) ==   \* a duration only compared with 0.0
  CASE word.duration > 0 ->
         Clamp((Scale * (position - word.start)) \div word.duration, 0, Scale)
    [] word.duration < 0 ->
         Clamp((Scale * (word.start - position)) \div (-word.duration), 0, Scale)
    [] word.duration = 0 -> IF position >= word.start THEN Scale ELSE 0

Mutant_Highlight_from_zero(word, position) ==   \* the word's start not subtracted
  CASE word.duration > 0 -> Clamp((Scale * position) \div word.duration, 0, Scale)
    [] word.duration <= 0 -> IF position >= word.start THEN Scale ELSE 0

\* A word without a duration is highlighted at once.
Highlight(word, position) ==
  CASE word.duration > 0 ->
         Clamp((Scale * (position - word.start)) \div word.duration, 0, Scale)
    [] word.duration <= 0 -> IF position >= word.start THEN Scale ELSE 0

=============================================================================
