------------------------------ MODULE Protocol ------------------------------
(***************************************************************************)
(* The messages of crates/kg-capture-protocol: the commands the host sends *)
(* to the hook DLL and the events the hook DLL sends back.                 *)
(*                                                                         *)
(* A lyric timeline is abstracted to its id and the song whose lines it    *)
(* holds; a playback position to the id of the timeline it claims to be a  *)
(* position in and the song it was really read from (position_ms,          *)
(* current_line and line_progress mean something only relative to that     *)
(* song).  HookEvent::Error carries a text: each text the hook sends is a  *)
(* kind of its own.                                                        *)
(***************************************************************************)
EXTENDS Naturals

CONSTANTS
  Songs,   \* lyric texts WeSing can show
  NoSong   \* no lyrics: nothing readable, or an event without a payload

ASSUME ProtocolAssumption == NoSong \notin Songs

HostCommand == {"StartCapture", "StopCapture", "Ping", "Shutdown"}

ErrorKinds == {"NotLoaded", "Unsupported", "DetourFailed"}

EventKinds ==
  {"CaptureStarted", "CaptureStopped", "Timeline", "Playback", "Pong"} \cup ErrorKinds

HookEvent ==
  [kind: EventKinds \cup {"None"}, id: Nat, song: Songs \cup {NoSong}]

Control(k) == [kind |-> k, id |-> 0, song |-> NoSong]

\* The absence of an event: a worker holding nothing, a window showing nothing.
NoEvent == Control("None")

Timeline(k, s) == [kind |-> "Timeline", id |-> k, song |-> s]

Playback(k, s) == [kind |-> "Playback", id |-> k, song |-> s]

IsLyric(e) == e.kind \in {"Timeline", "Playback"}

LyricEvents == [kind: {"Timeline", "Playback"}, id: Nat, song: Songs \cup {NoSong}]

=============================================================================
