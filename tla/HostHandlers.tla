---------------------------- MODULE HostHandlers ----------------------------
(***************************************************************************)
(* App::update (crates/kg-capture-app/src/main.rs): what each message does *)
(* to the part of App that follows a session.  One operator per message;   *)
(* what the handler sends on a channel or drops is in the module that      *)
(* composes it with the hooks.  Appearance, fonts and the texts are left   *)
(* out.                                                                    *)
(***************************************************************************)
EXTENDS Protocol

NoSession == 0

ConnectionState == {"Disconnected", "Connecting", "Connected", "Streaming", "Failed"}

\* A session is known by its number, in the order of the launches.
App ==
  [connection: ConnectionState, session: Nat, timeline: HookEvent, playback: HookEvent]

StartedApp ==
  [connection |-> "Disconnected", session |-> NoSession,
   timeline |-> NoEvent, playback |-> NoEvent]

\* The buttons of control_view that are enabled, a path having been chosen.
CanLaunch(app) == app.connection \in {"Disconnected", "Failed"}
CanDisconnect(app) == app.connection \in {"Connected", "Streaming"}

Launch(app) == [app EXCEPT !.connection = "Connecting"]

\* Connected(Ok(session)) whose StartCapture was sent; the old timeline stays.
ConnectedOk(app, s) == [app EXCEPT !.connection = "Connected", !.session = s]

\* Connected(Err(..)), or StartCapture could not be sent.
ConnectedErr(app) == [app EXCEPT !.connection = "Failed"]

Disconnect(app) == StartedApp

HookDisconnected(app) == [app EXCEPT !.connection = "Failed", !.session = NoSession]

\* A position is shown whatever timeline it belongs to.
Mutant_Belongs(app, playback) == app.timeline # NoEvent

Belongs(app, playback) ==
  app.timeline # NoEvent /\ app.timeline.id = playback.id

ShowTimeline(app, timeline) == [app EXCEPT !.timeline = timeline, !.playback = NoEvent]

\* handle_hook_event: the event of whichever stream delivers it.
HandleHookEvent(app, e) ==
  CASE e.kind = "CaptureStarted" -> [app EXCEPT !.connection = "Streaming"]
    [] e.kind = "CaptureStopped" -> [app EXCEPT !.connection = "Connected"]
    [] e.kind = "Timeline" -> ShowTimeline(app, e)
    [] e.kind = "Playback" -> IF Belongs(app, e) THEN [app EXCEPT !.playback = e] ELSE app
    [] e.kind \in ErrorKinds -> [app EXCEPT !.connection = "Failed"]
    [] e.kind = "Pong" -> app

=============================================================================
