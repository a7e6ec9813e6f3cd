---------------------------- MODULE HostSessions ----------------------------
(***************************************************************************)
(* The host over several launches.  Every launch has a Session::connect of *)
(* its own on a worker thread, a WeSing, a hook in it and, once connected, *)
(* an event stream; the application keeps one session and handles the      *)
(* messages of all of them.  A stream is never taken down: it ends when    *)
(* its hook's process does, whatever session the application has by then.  *)
(*                                                                         *)
(* Connecting is abstracted to the check for a running WeSing and the      *)
(* launch (their steps are in Launcher), a hook to whether it captures,    *)
(* and lyrics are left out (KgCapture).                                    *)
(***************************************************************************)
EXTENDS HostHandlers, Sequences

CONSTANTS
  MaxSessions,  \* bound: launches
  InboxCap      \* bound: messages of a stream not handled yet

ASSUME SessionsAssumption == MaxSessions \in Nat /\ InboxCap \in Nat \ {0}

VARIABLES
  app,      \* App
  attempt,  \* where the Session::connect of each launch is
  wesing,   \* the WeSing process of each launch
  hook,     \* the command loop in it
  inbox     \* messages of its event stream

vars == <<app, attempt, wesing, hook, inbox>>

Sessions == 1..MaxSessions

Err == Control("Err")

SessionsTypeOK ==
  /\ app \in App /\ app.session \in {NoSession} \cup Sessions
  /\ attempt \in [Sessions -> {"none", "checking", "launching", "ok", "err", "stream", "over"}]
  /\ wesing \in [Sessions -> {"none", "alive", "dead"}]
  /\ hook \in [Sessions -> {"none", "idle", "starting", "capturing", "ended"}]
  /\ inbox \in [Sessions -> Seq(HookEvent \cup {Err})]
  /\ \A s \in Sessions : Len(inbox[s]) <= InboxCap

Init ==
  /\ app = StartedApp
  /\ attempt = [s \in Sessions |-> "none"]
  /\ wesing = [s \in Sessions |-> "none"]
  /\ hook = [s \in Sessions |-> "none"]
  /\ inbox = [s \in Sessions |-> <<>>]

Goto(s, stage) == attempt' = [attempt EXCEPT ![s] = stage]

------------------------------------------------------------------------------
(* Session::connect. *)

WeSingIsRunning == \E s \in Sessions : wesing[s] = "alive"

\* process_is_running; any other early error is one of Launches.
Checks(s) ==
  /\ attempt[s] = "checking"
  /\ Goto(s, IF WeSingIsRunning THEN "err" ELSE "launching")
  /\ UNCHANGED <<app, wesing, hook, inbox>>

\* Between the check and the launch any time may pass.  WeSing stays, with or
\* without its hook's loop, when only the handshake fails: late, or its version or
\* nonce wrong.
Launches(s) ==
  /\ attempt[s] = "launching"
  /\ \/ /\ wesing' = [wesing EXCEPT ![s] = "alive"]
        /\ hook' = [hook EXCEPT ![s] = "idle"]
        /\ Goto(s, "ok")
     \/ Goto(s, "err") /\ UNCHANGED <<wesing, hook>>
     \/ /\ wesing' = [wesing EXCEPT ![s] = "alive"]
        /\ hook' \in {[hook EXCEPT ![s] = h] : h \in {"none", "idle"}}
        /\ Goto(s, "err")
  /\ UNCHANGED <<app, inbox>>

Connect(s) == Checks(s) \/ Launches(s)

------------------------------------------------------------------------------
(* The hook and the stream of a session. *)

Mutant_Held(s) == attempt[s] \in {"ok", "stream"}   \* the stream keeps the session

\* A clone of the session's command sender exists.
Held(s) == attempt[s] = "ok" \/ app.session = s

Mutant_Emits(s, e) ==   \* one more than there is room for
  /\ Len(inbox[s]) <= InboxCap
  /\ inbox' = [inbox EXCEPT ![s] = Append(inbox[s], e)]

Emits(s, e) ==
  /\ Len(inbox[s]) < InboxCap
  /\ inbox' = [inbox EXCEPT ![s] = Append(inbox[s], e)]

HookStarts(s) ==
  /\ hook[s] = "starting"
  /\ \/ hook' = [hook EXCEPT ![s] = "capturing"] /\ Emits(s, Control("CaptureStarted"))
     \/ hook' = [hook EXCEPT ![s] = "idle"] /\ \E e \in ErrorKinds : Emits(s, Control(e))
  /\ UNCHANGED <<app, attempt, wesing>>

\* Shutdown, or the channel closed: the sender goes right after the Shutdown.
HookEnds(s) ==
  /\ hook[s] \in {"idle", "capturing"} /\ ~Held(s)
  /\ hook' = [hook EXCEPT ![s] = "ended"]
  /\ UNCHANGED <<app, attempt, wesing, inbox>>

WeSingExits(s) ==
  /\ wesing[s] = "alive"
  /\ wesing' = [wesing EXCEPT ![s] = "dead"]
  /\ hook' = [hook EXCEPT ![s] = "ended"]
  /\ UNCHANGED <<app, attempt, inbox>>

Mutant_StreamEnds(s) ==   \* the error is not sent on
  /\ attempt[s] = "stream" /\ wesing[s] = "dead"
  /\ Goto(s, "over")
  /\ UNCHANGED <<app, wesing, hook, inbox>>

StreamEnds(s) ==
  /\ attempt[s] = "stream" /\ wesing[s] = "dead"
  /\ Emits(s, Err)
  /\ Goto(s, "over")
  /\ UNCHANGED <<app, wesing, hook>>

Hook(s) == HookStarts(s) \/ HookEnds(s)

------------------------------------------------------------------------------
(* App::update. *)

\* The next launch.
UserLaunches ==
  \E s \in Sessions :
    /\ CanLaunch(app)
    /\ attempt[s] = "none" /\ \A t \in 1..s - 1 : attempt[t] # "none"
    /\ app' = Launch(app)
    /\ Goto(s, "checking")
    /\ UNCHANGED <<wesing, hook, inbox>>

\* Connected(Ok): StartCapture cannot be sent to a WeSing that has exited since.
\* A session the application already had is replaced.
HandleConnectedOk(s) ==
  /\ attempt[s] = "ok"
  /\ \/ /\ wesing[s] = "alive"
        /\ app' = ConnectedOk(app, s)
        /\ hook' = [hook EXCEPT ![s] = "starting"]
        /\ Goto(s, "stream")
     \/ /\ wesing[s] = "dead"
        /\ app' = ConnectedErr(app)
        /\ Goto(s, "over")
        /\ UNCHANGED hook
  /\ UNCHANGED <<wesing, inbox>>

Mutant_HandleConnectedErr(s) ==   \* the error is only logged
  /\ attempt[s] = "err"
  /\ Goto(s, "over")
  /\ UNCHANGED <<app, wesing, hook, inbox>>

HandleConnectedErr(s) ==
  /\ attempt[s] = "err"
  /\ app' = ConnectedErr(app)
  /\ Goto(s, "over")
  /\ UNCHANGED <<wesing, hook, inbox>>

\* No message says which stream it comes from.
HandleEvent(s) ==
  /\ inbox[s] # <<>>
  /\ inbox' = [inbox EXCEPT ![s] = Tail(inbox[s])]
  /\ app' = IF Head(inbox[s]) = Err THEN HookDisconnected(app) ELSE HandleHookEvent(app, Head(inbox[s]))
  /\ UNCHANGED <<attempt, wesing, hook>>

UserDisconnects ==
  /\ CanDisconnect(app)
  /\ app' = Disconnect(app)
  /\ UNCHANGED <<attempt, wesing, hook, inbox>>

Handle(s) == HandleConnectedOk(s) \/ HandleConnectedErr(s) \/ HandleEvent(s)

\* Every launch is used up and answered, and no stream is left.
Done ==
  /\ \A s \in Sessions : attempt[s] = "over" /\ inbox[s] = <<>>
  /\ UNCHANGED vars

Next ==
  \/ \E s \in Sessions : Connect(s) \/ Hook(s) \/ WeSingExits(s) \/ StreamEnds(s) \/ Handle(s)
  \/ UserLaunches \/ UserDisconnects
  \/ Done

Safety == Init /\ [][Next]_vars

Fairness ==
  \A s \in Sessions :
    WF_vars(Connect(s)) /\ WF_vars(Hook(s)) /\ WF_vars(StreamEnds(s)) /\ WF_vars(Handle(s))

Spec == Safety /\ Fairness

------------------------------------------------------------------------------

\* "KG Capture will refuse to launch another copy while WeSing.exe is still
\* running" (README): no two launches have a WeSing at the same time.
OneWeSing == \A s, t \in Sessions : wesing[s] = "alive" /\ wesing[t] = "alive" => s = t

\* The window never says "launching" for ever: every launch is answered.
ConnectingEnds == app.connection = "Connecting" ~> app.connection # "Connecting"

\* A session that the application has let go of, by a disconnect, by the Err of
\* any stream or by another session in its place, does not keep its hook.
LetGoMeansUnhooked ==
  \A s \in Sessions : attempt[s] = "stream" /\ app.session # s ~> hook[s] = "ended"

\* A WeSing that exits is noticed, whatever happens to other sessions meanwhile.
ExitNoticed == \A s \in Sessions : app.session = s /\ wesing[s] = "dead" ~> app.session # s

=============================================================================
