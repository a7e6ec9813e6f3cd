------------------------------ MODULE LyricFeed ------------------------------
(***************************************************************************)
(* What carries the lyrics from WeSing to the lyrics window, without the   *)
(* queue, the worker, the pipe, the stream and the inbox: one feed.  It    *)
(* may lose an event where it enters and, when WeSing ends, the youngest   *)
(* ones under way.  It never doubles or reorders one, and what comes out   *)
(* of it is what the window shows.                                         *)
(***************************************************************************)
EXTENDS Protocol, Sequences, SequencesExt

VARIABLES
  open,      \* WeSing runs
  latest,    \* the id of the timeline recorded last, 0 before the first
  feed,      \* the lyric events under way, oldest first
  timeline,  \* the timeline on display
  playback   \* the position on display

feedVars == <<open, latest, feed, timeline, playback>>

Init ==
  /\ open = TRUE
  /\ latest = 0
  /\ feed = <<>>
  /\ timeline = NoEvent /\ playback = NoEvent

\* The feed after one of some events was offered to it, which may have found no
\* room.
Offered(carried, some) == {carried} \cup {Append(carried, e) : e \in some}

\* A model is recorded under a greater id than any before, whatever becomes of
\* its timeline.
Record ==
  /\ open
  /\ latest' > latest
  /\ feed' \in Offered(feed, {Timeline(latest', s) : s \in Songs})
  /\ UNCHANGED <<open, timeline, playback>>

\* Positions go out under the id recorded last, and only then.
Sing ==
  /\ open /\ latest # 0
  /\ UNCHANGED <<open, latest, timeline, playback>>
  /\ feed' \in Offered(feed, {Playback(latest, s) : s \in Songs \cup {NoSong}})

Show ==
  /\ feed # <<>>
  /\ feed' = Tail(feed)
  /\ \/ /\ Head(feed).kind = "Timeline"
        /\ timeline' = Head(feed) /\ playback' = NoEvent
     \/ /\ Head(feed).kind = "Playback"
        /\ playback' = IF Head(feed).id = timeline.id THEN Head(feed) ELSE playback
        /\ UNCHANGED timeline
  /\ UNCHANGED <<open, latest>>

Close ==
  /\ open
  /\ open' = FALSE /\ latest' = 0
  /\ IsPrefix(feed', feed)
  /\ UNCHANGED <<timeline, playback>>

\* The user disconnects, which recalls nothing, or the window is gone.
Clear ==
  /\ timeline' = NoEvent /\ playback' = NoEvent
  /\ feed' \in {feed, <<>>}
  /\ UNCHANGED <<open, latest>>

Next == Sing \/ Record \/ Show \/ Close \/ Clear

Spec == Init /\ [][Next]_feedVars

=============================================================================
