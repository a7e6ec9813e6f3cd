------------------------------ MODULE KgCapture ------------------------------
(***************************************************************************)
(* One capture session end to end: the hook DLL of HookDll and the host    *)
(* that launched it, from the moment the host has handled                  *)
(* Message::Connected(Ok(session)).  The host is three parties:            *)
(*                                                                         *)
(*   - the thread of event_stream, which moves events from the IPC channel *)
(*     to the application's inbox, and ends with an Err when the channel   *)
(*     is closed;                                                          *)
(*   - the application, which handles one message at a time;               *)
(*   - the user, who may disconnect or close the control window.           *)
(***************************************************************************)
EXTENDS HookDll, HostHandlers, Filter

CONSTANT InboxCap   \* iced::stream::channel's capacity (16 in the code)

ASSUME InboxAssumption == InboxCap \in Nat \ {0}

VARIABLES
  app,     \* App
  inbox,   \* messages of the event stream that App::update has not handled
  stream   \* the event_stream thread runs

vars == <<hookVars, app, inbox, stream>>

hookOnly == <<wesingVars, captureVars, queueVars, workerVars, loopVars>>

\* Message::HookEvent(Err(..)), the stream's last item.
StreamErr == Control("Err")

KgTypeOK ==
  /\ TypeOK
  /\ app \in App
  /\ inbox \in Seq(HookEvent \cup {StreamErr}) /\ Len(inbox) <= InboxCap
  /\ stream \in BOOLEAN

Init ==
  /\ HookInit
  /\ commands = <<"StartCapture">>
  /\ app = ConnectedOk(Launch(StartedApp), 1)
  /\ inbox = <<>>
  /\ stream = TRUE

------------------------------------------------------------------------------
(* The event_stream thread. *)

\* try_send in the place of a send that waits for room.
Mutant_Deliver_drops(e) == inbox' = IF Len(inbox) < InboxCap THEN Append(inbox, e) ELSE inbox

\* One more than the channel holds.
Mutant_Deliver_overflows(e) == Len(inbox) <= InboxCap /\ inbox' = Append(inbox, e)

Deliver(e) == Len(inbox) < InboxCap /\ inbox' = Append(inbox, e)

StreamRecv ==
  /\ stream /\ evtOpen /\ events # <<>>
  /\ Deliver(Head(events))
  /\ events' = Tail(events)
  /\ UNCHANGED <<hookOnly, commands, cmdOpen, evtOpen, app, stream>>

\* recv fails when the worker's and the command loop's senders are both gone.
\* The worker waits on a queue whose static sender is never dropped: only the
\* end of the process drops both.
StreamEnd ==
  /\ stream /\ evtOpen /\ events = <<>> /\ ~alive
  /\ Deliver(StreamErr)
  /\ stream' = FALSE
  /\ UNCHANGED <<hookVars, app>>

------------------------------------------------------------------------------
(* The application. *)

\* session.send fails without effect once the command loop has returned.
SendCommand(c) ==
  commands' = IF app.session # NoSession /\ loop # "done" THEN Append(commands, c) ELSE commands

\* The session held the only clone of the command sender.
HandleMessage ==
  /\ evtOpen /\ inbox # <<>>
  /\ inbox' = Tail(inbox)
  /\ \/ /\ Head(inbox) # StreamErr
        /\ app' = HandleHookEvent(app, Head(inbox))
        /\ UNCHANGED cmdOpen
     \/ /\ Head(inbox) = StreamErr
        /\ app' = HookDisconnected(app)
        /\ cmdOpen' = FALSE
  /\ UNCHANGED <<hookOnly, commands, events, evtOpen, stream>>

UserDisconnects ==
  /\ evtOpen
  /\ CanDisconnect(app)
  /\ SendCommand("Shutdown")
  /\ app' = Disconnect(app)
  /\ cmdOpen' = FALSE
  /\ UNCHANGED <<hookOnly, events, evtOpen, inbox, stream>>

\* The process is gone, and its ends of the channels with it.
Exit ==
  /\ evtOpen
  /\ cmdOpen' = FALSE /\ evtOpen' = FALSE
  /\ events' = <<>>
  /\ inbox' = <<>>
  /\ stream' = FALSE
  /\ app' = StartedApp
  /\ UNCHANGED hookOnly

UserClosesWindow == SendCommand("Shutdown") /\ Exit

HostCrashes == UNCHANGED commands /\ Exit

Host == StreamRecv \/ StreamEnd \/ HandleMessage \/ UserDisconnects \/ UserClosesWindow \/ HostCrashes

Next ==
  \/ (HookStep \/ BothGone) /\ UNCHANGED <<app, inbox, stream>>
  \/ Host

\* The two threads of the host are scheduled; the user owes nothing.
Fairness ==
  /\ HookFairness
  /\ WF_vars(StreamRecv \/ StreamEnd)
  /\ WF_vars(HandleMessage)

Safety == Init /\ [][Next]_vars

Spec == Safety /\ Fairness

------------------------------------------------------------------------------

\* Nothing is on its way to the application.
Quiet ==
  /\ \A t \in Threads : pc[t] = "idle"
  /\ queue = <<>> /\ worker = NoEvent /\ events = <<>> /\ inbox = <<>>

\* A timeline that the hook recorded and the host never showed was dropped by a
\* full queue, which counted it: there is no other way to lose one between the
\* render thread and the lyrics window.
LossIsCounted ==
  Quiet /\ alive /\ app.session # NoSession =>
    app.timeline.id = timelineId \/ queueFailures > 0

\* The highlighted line belongs to the song on display: whatever is dropped or
\* late, a position read in one song is never shown against the lines of
\* another.  (README: PlaybackPosition is the active line and progress.)  The
\* position of a model without a readable line (NoSong) is no song's.
PlaybackOfShownSong ==
  app.playback # NoEvent =>
    /\ app.playback.id = app.timeline.id
    /\ app.playback.song \in {app.timeline.song, NoSong}

\* The lyrics on their way to the window, while there is a window.
Carried == IF evtOpen THEN Filter(inbox \o Pipeline, LyricEvents) ELSE <<>>

Feed == INSTANCE LyricFeed WITH
  open <- alive,
  latest <- timelineId,
  feed <- Carried,
  timeline <- app.timeline,
  playback <- app.playback

\* The queue, the worker, the pipe, the stream's thread and the inbox together
\* are one feed from the render threads to the window: past try_send nothing is
\* lost while both processes run, nothing arrives twice or out of turn, and the
\* window shows what arrived.
LyricsAreAFeed == Feed!Spec

\* Lyrics never go back: until the user disconnects, a timeline on display is
\* only replaced by one that WeSing showed later.
NeverBackwards ==
  [][app'.timeline # NoEvent => app'.timeline.id >= app.timeline.id]_vars

\* While it holds a session, the application says that it streams only while
\* the hook really captures, or has died so recently that the Err is still due.
StreamingIsTrue ==
  app.connection = "Streaming" /\ app.session # NoSession => hooksActive \/ ~alive

\* Disconnect tells the user that the connection is gone (main.rs:279); it
\* should stay so until the next launch.
ConnectedHasSession ==
  app.connection \in {"Connected", "Streaming"} => app.session # NoSession

\* A timeline the hook recorded is shown, or overtaken by a later one, or
\* dropped by a full queue, or moot because either side has gone.
TimelineShown ==
  \A k \in 1..MaxId :
    timelineId = k ~> app.timeline.id >= k \/ queueFailures > 0 \/ ~alive \/ app.session = NoSession

\* StartCapture is always answered: "connected, initialising" is not for ever,
\* even when KSongsUI.dll never loads.
StartAnswered == app.connection = "Connected" ~> app.connection # "Connected"

\* Once the user has disconnected, or the host is gone in whatever way, WeSing
\* gets its functions back, also when the Shutdown never arrives.
ShutdownHonoured == app.session = NoSession ~> loop = "done" /\ Unhooked

==============================================================================
