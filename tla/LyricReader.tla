----------------------------- MODULE LyricReader -----------------------------
(***************************************************************************)
(* read_timeline, read_line and read_word of                               *)
(* crates/kg-capture-hook/src/lib.rs: what the hook makes of the lyric     *)
(* vector it finds in WeSing's memory.                                     *)
(*                                                                         *)
(* A word in memory is readable when its pointer, its times and its text   *)
(* pass the checks of read_word and read_utf16 (the text is then not       *)
(* empty); a line is, when its header and its vector of words pass those   *)
(* of read_line.  A text is known by the line it is in.                    *)
(***************************************************************************)
EXTENDS Integers, Filter

MemWord(Starts, Durations) ==
  [readable: {TRUE}, start: Starts, duration: Durations]
    \cup {[readable |-> FALSE, start |-> 0, duration |-> 0]}

ReadWord(word) == [start |-> word.start, duration |-> word.duration]

Readable(words) == {words[w] : w \in {v \in 1..Len(words) : words[v].readable}}

ReadWords(words) ==
  LET good == Filter(words, Readable(words))
  IN  [w \in 1..Len(good) |-> ReadWord(good[w])]

\* A line is pushed when it was read and its text, its words' texts in one, is
\* not empty.
IsPushed(line) == line.readable /\ ReadWords(line.words) # <<>>

Mutant_ReadLine(line, index) == [index |-> index + 1, words |-> ReadWords(line.words)]

ReadLine(line, index) == [index |-> index, words |-> ReadWords(line.words)]

\* The index of a line is its place in WeSing's vector, counted from 0.
ReadTimeline(lines) ==
  LET pushed == Filter([i \in 1..Len(lines) |-> i], {i \in 1..Len(lines) : IsPushed(lines[i])})
  IN  [k \in 1..Len(pushed) |-> ReadLine(lines[pushed[k]], pushed[k] - 1)]

NoLine == -1

\* u32::try_from(current_line).
CurrentLine(current) == IF current >= 0 THEN current ELSE NoLine

=============================================================================
