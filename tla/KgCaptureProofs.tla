--------------------------- MODULE KgCaptureProofs ---------------------------
(***************************************************************************)
(* One capture session end to end, proved for every number of render       *)
(* threads, address ranges and songs, and every capacity of the queue, the *)
(* pipe and the inbox: what the window shows never goes back, belongs      *)
(* together and is not lost without a trace, and the session implements    *)
(* LyricFeed.                                                              *)
(***************************************************************************)
EXTENDS KgCapture, HookDllProofs, FilterProofs

USE ProtocolAssumption, HookAssumption, InboxAssumption

------------------------------------------------------------------------------
(* The inductive invariants. *)

Elems(s) == {s[i] : i \in 1..Len(s)}

\* The pipeline without its order.
UnderWay == Elems(events) \cup {worker} \cup Elems(queue)

\* Every event that the application is still to handle.
Pending == Elems(inbox) \cup UnderWay

\* "None" stands for the absence of an event: nothing of that kind is queued,
\* sent or handled.
Proper ==
  /\ \A e \in Elems(queue) \cup Elems(events) \cup Elems(inbox) : e.kind # "None"
  /\ worker = NoEvent \/ worker.kind # "None"
  /\ loop = "reply" => reply.kind # "None"

\* The inbox continues the pipeline's order, and the timeline on display that
\* of the inbox.
FeedInOrder ==
  /\ Ordered(inbox)
  /\ \A e \in Elems(inbox), f \in UnderWay : IsLyric(e) /\ IsLyric(f) => Precedes(e, f)
  /\ \A e \in Pending : IsLyric(e) => Precedes(app.timeline, e)
  /\ alive => /\ \A e \in Pending : IsLyric(e) => e.id <= timelineId
              /\ app.timeline.id <= timelineId

\* What is on display belongs together.
ShownInv ==
  /\ app.timeline = NoEvent \/ (app.timeline.kind = "Timeline" /\ app.timeline.id > 0)
  /\ app.playback # NoEvent =>
       /\ app.playback.kind = "Playback" /\ app.timeline.kind = "Timeline"
       /\ app.playback.id = app.timeline.id

\* The recorded timeline is on display or still to come, or the queue was full.
Accounted ==
  alive /\ app.session # NoSession =>
    \/ app.timeline.id = timelineId
    \/ \E e \in Pending : e.kind = "Timeline" /\ e.id = timelineId
    \/ queueFailures > 0

\* A host that is gone has no session.
GoneInv == ~evtOpen => app.session = NoSession

\* A session sends one StartCapture and keeps its sender; what says that the
\* capture has started does not come before HOOKS_ACTIVE is set, and nothing
\* clears that before the session is let go of.
CapturingInv ==
  alive /\ app.session # NoSession =>
    /\ cmdOpen /\ loop # "done"
    /\ commands \in {<<>>, <<"StartCapture">>}
    /\ ~hooksActive => /\ app.connection # "Streaming"
                       /\ \A e \in Pending \cup {reply} : e.kind # "CaptureStarted"

\* The song a locked render thread has read from is that of its region, and the
\* recorded identity's song is the recorded timeline's.
ReadInv ==
  alive =>
    /\ timelineId # 0 => identity # NoIdentity /\ mem[identity[2]] # NoSong
    /\ \A t \in Threads :
         pc[t] \in {"changed", "play"} =>
           loc[t].region \in Regions /\ loc[t].song \in {NoSong, mem[loc[t].region]}
    /\ \A t \in Threads :
         pc[t] = "play" /\ timelineId # 0 => loc[t].song \in {NoSong, mem[identity[2]]}

\* Timelines and positions under the same id come from the same song.
SameSong ==
  /\ alive => \A e \in Pending \cup {app.timeline} :
       e.kind = "Timeline" /\ e.id = timelineId => e.song = mem[identity[2]]
  /\ \A e, f \in Pending \cup {app.timeline, app.playback} :
       e.kind = "Timeline" /\ f.kind = "Playback" /\ e.id = f.id => f.song \in {e.song, NoSong}

------------------------------------------------------------------------------
(* The handlers of the host. *)

LEMMA StartedType == StartedApp \in App /\ NoSession \in Nat
BY DEF StartedApp, App, ConnectionState, NoSession, NoEvent, Control, HookEvent

\* handle_hook_event, kind by kind.
LEMMA HandleCases ==
  ASSUME NEW a, NEW e
  PROVE  /\ e.kind = "CaptureStarted" => HandleHookEvent(a, e) = [a EXCEPT !.connection = "Streaming"]
         /\ e.kind = "CaptureStopped" => HandleHookEvent(a, e) = [a EXCEPT !.connection = "Connected"]
         /\ e.kind = "Timeline" => HandleHookEvent(a, e) = ShowTimeline(a, e)
         /\ e.kind = "Playback" =>
              HandleHookEvent(a, e) = IF Belongs(a, e) THEN [a EXCEPT !.playback = e] ELSE a
         /\ e.kind \in ErrorKinds => HandleHookEvent(a, e) = [a EXCEPT !.connection = "Failed"]
         /\ e.kind = "Pong" => HandleHookEvent(a, e) = a
BY DEF HandleHookEvent, ErrorKinds

LEMMA HandleType ==
  ASSUME NEW a \in App, NEW e \in HookEvent, e.kind # "None"
  PROVE  HandleHookEvent(a, e) \in App
<1>1. e.kind \in EventKinds
  BY DEF HookEvent
<1>2. CASE e.kind \in {"CaptureStarted", "CaptureStopped"} \cup ErrorKinds
  BY <1>2, HandleCases DEF App, ConnectionState
<1>3. CASE e.kind = "Timeline"
  <2>1. ShowTimeline(a, e) \in App
    BY DEF ShowTimeline, App, NoEvent, Control, HookEvent
  <2> QED
    BY <1>3, <2>1, HandleCases
<1>4. CASE e.kind = "Playback"
  <2>1. [a EXCEPT !.playback = e] \in App
    BY DEF App
  <2> QED
    BY <1>4, <2>1, HandleCases
<1>5. CASE e.kind = "Pong"
  BY <1>5, HandleCases
<1> QED
  BY <1>1, <1>2, <1>3, <1>4, <1>5 DEF EventKinds

\* handle_hook_event, field by field.
LEMMA HandleFields ==
  ASSUME NEW a \in App, NEW e \in HookEvent, e.kind # "None"
  PROVE  LET b == HandleHookEvent(a, e) IN
         /\ b.session = a.session
         /\ b.connection = "Streaming" => a.connection = "Streaming" \/ e.kind = "CaptureStarted"
         /\ \/ e.kind = "Timeline" /\ b.timeline = e /\ b.playback = NoEvent
            \/ /\ e.kind # "Timeline" /\ b.timeline = a.timeline
               /\ \/ b.playback = a.playback
                  \/ e.kind = "Playback" /\ Belongs(a, e) /\ b.playback = e
<1> DEFINE b == HandleHookEvent(a, e)
<1>1. e.kind \in EventKinds
  BY DEF HookEvent
<1>2. CASE e.kind = "Timeline"
  <2>1. b = ShowTimeline(a, e)
    BY <1>2, HandleCases
  <2> HIDE DEF b
  <2>2. /\ b.session = a.session /\ b.connection = a.connection
        /\ b.timeline = e /\ b.playback = NoEvent
    BY <2>1 DEF ShowTimeline, App
  <2> QED
    BY <1>2, <2>2 DEF b
<1>3. CASE e.kind # "Timeline"
  <2>1. \/ b \in {[a EXCEPT !.connection = c] : c \in {"Streaming", "Connected", "Failed"}} \cup {a}
        \/ e.kind = "Playback" /\ Belongs(a, e) /\ b = [a EXCEPT !.playback = e]
    BY <1>1, <1>3, HandleCases DEF EventKinds
  <2>2. b.connection = "Streaming" => a.connection = "Streaming" \/ e.kind = "CaptureStarted"
    BY <1>1, <1>3, HandleCases DEF EventKinds, ErrorKinds, App
  <2> HIDE DEF b
  <2>3. /\ b.session = a.session /\ b.timeline = a.timeline
        /\ \/ b.playback = a.playback
           \/ e.kind = "Playback" /\ Belongs(a, e) /\ b.playback = e
    BY <2>1 DEF App
  <2> QED
    BY <1>3, <2>2, <2>3 DEF b
<1> QED
  BY <1>2, <1>3

------------------------------------------------------------------------------
(* The elements of a sequence. *)

LEMMA ElemsEmpty == Elems(<<>>) = {}
BY DEF Elems

LEMMA ElemsAppend ==
  ASSUME NEW S, NEW s \in Seq(S), NEW e \in S
  PROVE  Elems(Append(s, e)) = Elems(s) \cup {e}
<1>1. Len(Append(s, e)) = Len(s) + 1 /\ Len(s) \in Nat
  OBVIOUS
<1>2. \A i \in 1..(Len(s) + 1) : Append(s, e)[i] = IF i <= Len(s) THEN s[i] ELSE e
  OBVIOUS
<1>3. ASSUME NEW x \in Elems(Append(s, e)) PROVE x \in Elems(s) \cup {e}
  <2>1. PICK i \in 1..(Len(s) + 1) : x = Append(s, e)[i]
    BY <1>1, <1>3 DEF Elems
  <2>2. CASE i <= Len(s)
    BY <1>1, <1>2, <2>1, <2>2 DEF Elems
  <2>3. CASE ~(i <= Len(s))
    BY <1>2, <2>1, <2>3
  <2> QED
    BY <2>2, <2>3
<1>4. ASSUME NEW x \in Elems(s) PROVE x \in Elems(Append(s, e))
  <2>1. PICK i \in 1..Len(s) : x = s[i]
    BY <1>4 DEF Elems
  <2>2. i \in 1..(Len(s) + 1) /\ Append(s, e)[i] = x
    BY <1>1, <1>2, <2>1
  <2> QED
    BY <1>1, <2>2 DEF Elems
<1>5. e \in Elems(Append(s, e))
  <2>1. Len(s) + 1 \in 1..(Len(s) + 1) /\ Append(s, e)[Len(s) + 1] = e
    BY <1>1, <1>2
  <2> QED
    BY <1>1, <2>1 DEF Elems
<1> QED
  BY <1>3, <1>4, <1>5

LEMMA ElemsHead ==
  ASSUME NEW S, NEW s \in Seq(S), s # <<>>
  PROVE  /\ Elems(s) = {Head(s)} \cup Elems(Tail(s))
         /\ Head(s) \in S /\ Tail(s) \in Seq(S)
<1>1. /\ Len(s) \in Nat \ {0} /\ Len(Tail(s)) = Len(s) - 1
      /\ Head(s) = s[1] /\ \A i \in 1..(Len(s) - 1) : Tail(s)[i] = s[i + 1]
  OBVIOUS
<1>2. ASSUME NEW x \in Elems(s) PROVE x \in {Head(s)} \cup Elems(Tail(s))
  <2>1. PICK i \in 1..Len(s) : x = s[i]
    BY <1>2 DEF Elems
  <2>2. CASE i = 1
    BY <1>1, <2>1, <2>2
  <2>3. CASE i # 1
    <3>1. i - 1 \in 1..(Len(s) - 1) /\ (i - 1) + 1 = i
      BY <1>1, <2>3
    <3>2. Tail(s)[i - 1] = x
      BY <1>1, <2>1, <3>1
    <3> QED
      BY <1>1, <3>1, <3>2 DEF Elems
  <2> QED
    BY <2>2, <2>3
<1>3. ASSUME NEW x \in Elems(Tail(s)) PROVE x \in Elems(s)
  <2>1. PICK i \in 1..(Len(s) - 1) : x = Tail(s)[i]
    BY <1>1, <1>3 DEF Elems
  <2>2. i + 1 \in 1..Len(s) /\ s[i + 1] = x
    BY <1>1, <2>1
  <2> QED
    BY <2>2 DEF Elems
<1>4. Head(s) \in Elems(s)
  <2>1. 1 \in 1..Len(s)
    BY <1>1
  <2> QED
    BY <1>1, <2>1 DEF Elems
<1> QED
  BY <1>2, <1>3, <1>4

LEMMA ElemsType == ASSUME NEW S, NEW s \in Seq(S) PROVE Elems(s) \subseteq S
BY DEF Elems

------------------------------------------------------------------------------
(* Every step of the session is one of the DLL, of WeSing or of a host. *)

Dll == HookStep /\ UNCHANGED <<app, inbox, stream>>

LEMMA KgSteps ==
  ASSUME [Next]_vars
  PROVE  Dll \/ Host \/ UNCHANGED vars
BY DEF Next, Dll, BothGone, vars

LEMMA HostIsAny ==
  ASSUME TypeOK, Host \/ UNCHANGED vars
  PROVE  HostMoves
<1> USE DEF TypeOK, ChannelOK, HostMoves, hookOnly
<1>0. \A c \in {"Shutdown"} : SendCommand(c) => commands' \in Seq(HostCommand)
  BY DEF SendCommand, HostCommand
<1>1. CASE StreamRecv
  BY <1>1 DEF StreamRecv
<1>2. CASE StreamEnd \/ UNCHANGED vars
  BY <1>2 DEF StreamEnd, hookVars, vars, channelVars
<1>3. CASE HandleMessage
  BY <1>3 DEF HandleMessage
<1>4. CASE UserDisconnects
  BY <1>0, <1>4 DEF UserDisconnects
<1>5. CASE UserClosesWindow \/ HostCrashes
  BY <1>0, <1>5 DEF UserClosesWindow, HostCrashes, Exit
<1> QED
  BY <1>1, <1>2, <1>3, <1>4, <1>5 DEF Host

LEMMA KgIsDll == TypeOK /\ [Next]_vars => DllStep
BY KgSteps, HostIsAny DEF Dll, DllStep

------------------------------------------------------------------------------
(* What a step does to the events under way. *)

LEMMA Queues ==
  ASSUME TypeOK
  PROVE  /\ queue \in Seq(HookEvent) /\ events \in Seq(HookEvent)
         /\ worker \in HookEvent /\ reply \in HookEvent
         /\ UnderWay \subseteq HookEvent
BY ElemsType DEF TypeOK, QueueOK, ChannelOK, WorkerOK, LoopOK, UnderWay

LEMMA KeepsUnderWay ==
  ASSUME TypeOK, Keeps
  PROVE  /\ UnderWay' \subseteq UnderWay \cup {NoEvent, reply}
         /\ UnderWay \subseteq UnderWay' \cup {NoEvent}
<1> USE Queues DEF UnderWay
<1>1. CASE UNCHANGED <<events, worker, queue>>
  BY <1>1
<1>2. CASE Takes
  <2>1. Elems(queue) = {Head(queue)} \cup Elems(Tail(queue))
    BY <1>2, ElemsHead DEF Takes
  <2> QED
    BY <1>2, <2>1 DEF Takes
<1>3. CASE Sends
  <2>1. Elems(events') = Elems(events) \cup {worker}
    BY <1>3, ElemsAppend DEF Sends
  <2> QED
    BY <1>3, <2>1 DEF Sends
<1>4. CASE Replies
  <2>1. Elems(events') = Elems(events) \cup {reply}
    BY <1>4, ElemsAppend DEF Replies
  <2> QED
    BY <1>4, <2>1 DEF Replies
<1> QED
  BY <1>1, <1>2, <1>3, <1>4 DEF Keeps

LEMMA DropsUnderWay == Drops => UnderWay' \subseteq UnderWay \cup {NoEvent}
BY ElemsEmpty DEF Drops, UnderWay

LEMMA EnqueueUnderWay ==
  ASSUME TypeOK, NEW e \in HookEvent, Enqueue(e), UNCHANGED <<events, worker>>
  PROVE  \/ UnderWay' = UnderWay \cup {e} /\ UNCHANGED queueFailures
         \/ UnderWay' = UnderWay /\ (MaxFailures > 0 => queueFailures' > 0)
<1>1. CASE queue' = Append(queue, e) /\ UNCHANGED queueFailures
  <2>1. Elems(queue') = Elems(queue) \cup {e}
    BY <1>1, Queues, ElemsAppend
  <2> QED
    BY <1>1, <2>1 DEF UnderWay
<1>2. CASE /\ UNCHANGED queue
           /\ queueFailures' = IF queueFailures < MaxFailures THEN queueFailures + 1 ELSE MaxFailures
  <2>1. queueFailures \in 0..MaxFailures
    BY DEF TypeOK, QueueOK
  <2>2. MaxFailures > 0 => queueFailures' > 0
    BY <1>2, <2>1
  <2> QED
    BY <1>2, <2>2 DEF UnderWay
<1> QED
  BY <1>1, <1>2 DEF Enqueue

\* A step of the DLL or of WeSing adds at most the events it queues or the
\* answer it sends.
LEMMA HookUnderWay ==
  ASSUME TypeOK, HookStep,
         \A t \in Threads : ~Announces(t) /\ ~Follows(t)
  PROVE  UnderWay' \subseteq UnderWay \cup {NoEvent, reply}
BY HookFlow, KeepsUnderWay, DropsUnderWay

\* The head of the pipe moves to the end of the inbox, and nothing else moves.
LEMMA RecvMoves ==
  ASSUME TypeOK, KgTypeOK, StreamRecv
  PROVE  /\ Elems(inbox') = Elems(inbox) \cup {Head(events)}
         /\ Head(events) \in HookEvent /\ Head(events) \in Elems(events)
         /\ UnderWay = UnderWay' \cup {Head(events)}
         /\ Pending' = Pending
<1>1. Elems(events) = {Head(events)} \cup Elems(events') /\ Head(events) \in HookEvent
  BY Queues, ElemsHead DEF StreamRecv
<1>2. Elems(inbox') = Elems(inbox) \cup {Head(events)}
  BY <1>1, ElemsAppend DEF StreamRecv, Deliver, KgTypeOK
<1>3. UNCHANGED <<worker, queue>>
  BY DEF StreamRecv, hookOnly, workerVars, queueVars
<1> QED
  BY <1>1, <1>2, <1>3 DEF UnderWay, Pending

\* The application takes the head of its inbox, and the rest stays.
LEMMA HandleTakes ==
  ASSUME KgTypeOK, HandleMessage
  PROVE  /\ Elems(inbox) = {Head(inbox)} \cup Elems(inbox')
         /\ Head(inbox) \in HookEvent \cup {StreamErr}
         /\ inbox' = Tail(inbox) /\ inbox' \in Seq(HookEvent \cup {StreamErr})
         /\ UNCHANGED <<hookOnly, commands, events>>
         /\ UnderWay' = UnderWay
         /\ Pending = Pending' \cup {Head(inbox)}
<1>1. /\ Elems(inbox) = {Head(inbox)} \cup Elems(Tail(inbox))
      /\ Head(inbox) \in HookEvent \cup {StreamErr}
      /\ Tail(inbox) \in Seq(HookEvent \cup {StreamErr})
  BY ElemsHead DEF HandleMessage, KgTypeOK
<1>2. UnderWay' = UnderWay
  BY DEF HandleMessage, hookOnly, workerVars, queueVars, UnderWay
<1> QED
  BY <1>1, <1>2 DEF HandleMessage, Pending

\* A disconnect, the end of the stream and the end of the host add nothing but
\* the stream's own error.
LEMMA OtherHostPending ==
  ASSUME KgTypeOK, StreamEnd \/ UserDisconnects \/ UserClosesWindow \/ HostCrashes
  PROVE  /\ Pending' \subseteq Pending \cup {StreamErr}
         /\ Elems(inbox') \subseteq Elems(inbox) \cup {StreamErr}
         /\ UnderWay' \subseteq UnderWay
         /\ UNCHANGED hookOnly
<1>1. CASE StreamEnd
  <2>1. Elems(inbox') = Elems(inbox) \cup {StreamErr}
    BY <1>1, ElemsAppend DEF StreamEnd, Deliver, KgTypeOK
  <2> QED
    BY <1>1, <2>1 DEF StreamEnd, hookVars, hookOnly, channelVars, workerVars, queueVars, UnderWay, Pending
<1>2. CASE UserDisconnects
  BY <1>2 DEF UserDisconnects, hookOnly, workerVars, queueVars, UnderWay, Pending
<1>3. CASE UserClosesWindow \/ HostCrashes
  BY <1>3, ElemsEmpty DEF UserClosesWindow, HostCrashes, Exit, hookOnly, workerVars, queueVars, UnderWay, Pending
<1> QED
  BY <1>1, <1>2, <1>3

------------------------------------------------------------------------------
(* Types. *)

LEMMA DllInitially == Init => DllInit
<1> SUFFICES <<"StartCapture">> \in Seq(HostCommand)
  BY DEF Init, DllInit
<1> QED
  BY DEF HostCommand

LEMMA KgTypeInit == Init => KgTypeOK /\ Proper
<1> SUFFICES ASSUME Init PROVE KgTypeOK /\ Proper
  OBVIOUS
<1>1. TypeOK
  BY DllInitially, TypeInit
<1>2. app \in App
  BY StartedType DEF Init, ConnectedOk, Launch, App, ConnectionState
<1>3. inbox \in Seq(HookEvent \cup {StreamErr}) /\ Len(inbox) <= InboxCap /\ stream \in BOOLEAN
  BY DEF Init
<1>4. Proper
  BY ElemsEmpty DEF Init, HookInit, Proper
<1> QED
  BY <1>1, <1>2, <1>3, <1>4 DEF KgTypeOK

LEMMA KgHostType == KgTypeOK /\ Proper /\ Host => KgTypeOK'
<1> SUFFICES ASSUME KgTypeOK, Proper, Host PROVE KgTypeOK'
  OBVIOUS
<1>1. TypeOK'
  BY HostIsAny, HostType DEF KgTypeOK
<1>2. ASSUME NEW e \in HookEvent \cup {StreamErr}, Deliver(e)
      PROVE  inbox' \in Seq(HookEvent \cup {StreamErr}) /\ Len(inbox') <= InboxCap
  BY <1>2 DEF Deliver, KgTypeOK
<1>3. CASE StreamRecv
  BY <1>1, <1>2, <1>3, RecvMoves DEF StreamRecv, KgTypeOK
<1>4. CASE StreamEnd
  BY <1>1, <1>2, <1>4 DEF StreamEnd, KgTypeOK
<1>5. CASE HandleMessage
  <2>1. inbox' \in Seq(HookEvent \cup {StreamErr}) /\ Len(inbox') <= InboxCap
    BY <1>5 DEF HandleMessage, KgTypeOK
  <2>2. app' \in App
    <3>1. CASE Head(inbox) # StreamErr /\ app' = HandleHookEvent(app, Head(inbox))
      <4>1. Head(inbox) \in HookEvent /\ Head(inbox) \in Elems(inbox)
        BY <1>5, <3>1, HandleTakes
      <4>2. Head(inbox).kind # "None"
        BY <4>1 DEF Proper
      <4> QED
        BY <3>1, <4>1, <4>2, HandleType DEF KgTypeOK
    <3>2. CASE app' = HookDisconnected(app)
      BY <3>2, StartedType DEF KgTypeOK, HookDisconnected, App, ConnectionState
    <3> QED
      BY <1>5, <3>1, <3>2 DEF HandleMessage
  <2> QED
    BY <1>1, <1>5, <2>1, <2>2 DEF HandleMessage, KgTypeOK
<1>6. CASE UserDisconnects
  BY <1>1, <1>6, StartedType DEF UserDisconnects, Disconnect, KgTypeOK
<1>7. CASE UserClosesWindow \/ HostCrashes
  <2>1. <<>> \in Seq(HookEvent \cup {StreamErr}) /\ Len(<<>>) <= InboxCap
    OBVIOUS
  <2> QED
    BY <1>1, <1>7, <2>1, StartedType DEF UserClosesWindow, HostCrashes, Exit, KgTypeOK
<1> QED
  BY <1>3, <1>4, <1>5, <1>6, <1>7 DEF Host

\* What the command loop answers is an event.
LEMMA AnswerProper ==
  ASSUME loop = "reply" => reply.kind # "None", HookStep
  PROVE  loop' = "reply" => reply'.kind # "None"
<1>1. CASE UNCHANGED <<loop, reply>>
  BY <1>1
<1>2. CASE WeSing
  BY <1>1, <1>2 DEF WeSing, LoadDll, ShowModel, CloseWindow, WeSingExits, loopVars
<1>3. CASE Render
  BY <1>1, <1>3 DEF Render, InCallback, Enter, GiveUp, Snapshot, Extract, Play, loopVars
<1>4. CASE Worker
  BY <1>1, <1>4 DEF Worker, WorkerTake, WorkerSend, WorkerBreak, loopVars
<1>5. CASE CommandLoop
  BY <1>5 DEF CommandLoop, RecvStart, RecvStop, RecvPing, RecvShutdown, RecvClosed, EndLoop,
              InstallRefused, InstallHalfway, Install, SendReply, Answer, Control
<1> QED
  BY <1>2, <1>3, <1>4, <1>5 DEF HookStep

LEMMA ProperDll == TypeOK /\ LockInv /\ Proper /\ Dll => Proper'
<1> SUFFICES ASSUME TypeOK, LockInv, Proper, Dll PROVE Proper'
  OBVIOUS
<1> USE Queues DEF Proper, Dll
<1>1. loop' = "reply" => reply'.kind # "None"
  BY AnswerProper
<1>2. ASSUME NEW e \in HookEvent, e.kind # "None", Enqueue(e), UNCHANGED <<events, worker>>
      PROVE  Proper'
  <2>1. queue' = Append(queue, e) => Elems(queue') = Elems(queue) \cup {e}
    BY ElemsAppend
  <2> QED
    BY <1>1, <1>2, <2>1 DEF Enqueue
<1>3. ASSUME NEW t \in Threads, Announces(t) PROVE Proper'
  BY <1>2, <1>3, AnnouncesEvent DEF Timeline
<1>4. ASSUME NEW t \in Threads, Follows(t) PROVE Proper'
  BY <1>2, <1>4, FollowsEvent DEF Playback
<1>5. CASE UNCHANGED <<events, worker, queue>>
  BY <1>1, <1>5
<1>6. CASE Takes
  <2>1. Elems(queue) = {Head(queue)} \cup Elems(Tail(queue))
    BY <1>6, ElemsHead DEF Takes
  <2> QED
    BY <1>1, <1>6, <2>1 DEF Takes
<1>7. CASE Sends
  <2>1. Elems(events') = Elems(events) \cup {worker}
    BY <1>7, ElemsAppend DEF Sends
  <2> QED
    BY <1>1, <1>7, <2>1 DEF Sends
<1>8. CASE Replies
  <2>1. Elems(events') = Elems(events) \cup {reply}
    BY <1>8, ElemsAppend DEF Replies
  <2> QED
    BY <1>1, <1>8, <2>1 DEF Replies
<1>9. CASE Drops
  BY <1>1, <1>9, ElemsEmpty DEF Drops
<1> QED
  BY <1>3, <1>4, <1>5, <1>6, <1>7, <1>8, <1>9, HookFlow DEF Keeps

LEMMA ProperHost == KgTypeOK /\ Proper /\ Host => Proper'
<1> SUFFICES ASSUME KgTypeOK, Proper, Host PROVE Proper'
  OBVIOUS
<1> USE DEF Proper
<1>1. UNCHANGED hookOnly
  BY DEF Host, StreamRecv, StreamEnd, HandleMessage, UserDisconnects, UserClosesWindow, HostCrashes,
         Exit, hookOnly, hookVars
<1>2. UNCHANGED <<worker, queue, loop, reply>>
  BY <1>1 DEF hookOnly, workerVars, queueVars, loopVars
<1>3. CASE StreamRecv
  <2>1. Elems(events) = {Head(events)} \cup Elems(events')
    BY <1>3, Queues, ElemsHead DEF StreamRecv, KgTypeOK
  <2> QED
    BY <1>2, <1>3, <2>1, RecvMoves DEF KgTypeOK
<1>4. CASE HandleMessage
  BY <1>2, <1>4, HandleTakes
<1>5. CASE StreamEnd \/ UserDisconnects \/ UserClosesWindow \/ HostCrashes
  <2>1. Elems(events') \subseteq Elems(events)
    BY <1>5, ElemsEmpty DEF StreamEnd, UserDisconnects, UserClosesWindow, HostCrashes, Exit,
                           hookVars, channelVars
  <2>2. StreamErr.kind # "None"
    BY DEF StreamErr, Control
  <2> QED
    BY <1>2, <1>5, <2>1, <2>2, OtherHostPending
<1> QED
  BY <1>3, <1>4, <1>5 DEF Host

\* The types of KgTypeOK, and what they rest on: only real events travel, and
\* the render threads keep to CAPTURE_STATE's lock.
KgTypeInv == KgTypeOK /\ Proper /\ OrderInv

LEMMA KgTypeStep == KgTypeInv /\ [Next]_vars => KgTypeInv'
<1> SUFFICES ASSUME KgTypeInv, [Next]_vars PROVE KgTypeInv'
  OBVIOUS
<1> USE DEF KgTypeInv
<1>1. TypeOK' /\ OrderInv'
  BY KgIsDll, DllType, OrderStep DEF KgTypeOK
<1>2. CASE Dll
  BY <1>1, <1>2, ProperDll DEF KgTypeOK, Dll, OrderInv
<1>3. CASE Host
  BY <1>1, <1>3, KgHostType, ProperHost
<1>4. CASE UNCHANGED vars
  BY <1>1, <1>4 DEF vars, hookVars, channelVars, queueVars, workerVars, loopVars, KgTypeOK, Proper
<1> QED
  BY <1>2, <1>3, <1>4, KgSteps

LEMMA KgTypeInductive == Safety => []KgTypeInv
<1>1. Init => KgTypeInv
  BY KgTypeInit, DllInitially, FlowInit, LockInit DEF KgTypeInv, OrderInv
<1> QED
  BY <1>1, KgTypeStep, PTL DEF Safety

\* The DLL, the channels, the event stream and the application keep their types
\* and capacities; the application never handles a message it has no case for.
THEOREM KgTypeCorrect == Safety => []KgTypeOK
<1>1. KgTypeInv => KgTypeOK
  BY DEF KgTypeInv
<1> QED
  BY <1>1, KgTypeInductive, PTL

\* The hook behind a real host keeps the order it owes any host.
THEOREM KgPipelineInOrder == Safety => []InOrder
<1>1. KgTypeInv => InOrder
  BY DEF KgTypeInv, OrderInv
<1> QED
  BY <1>1, KgTypeInductive, PTL

------------------------------------------------------------------------------
(* Builds that are not known. *)

Hopeful == {"CaptureStarted", "Timeline", "Playback"}

\* Nothing was patched, the application shows neither a capture nor a line, and
\* nothing under way will make it.
Silent ==
  supported # Sources =>
    /\ Refusing
    /\ \A e \in Elems(inbox) : e.kind \notin Hopeful
    /\ app.connection # "Streaming" /\ app.timeline = NoEvent

LEMMA SilentStep == KgTypeInv /\ Silent /\ [Next]_vars => Silent'
<1> SUFFICES ASSUME KgTypeInv, Silent, [Next]_vars, supported # Sources PROVE Silent'
  BY KgIsDll, SupportedStays DEF KgTypeInv, KgTypeOK, Silent
<1>0. KgTypeOK /\ TypeOK /\ Proper
  BY DEF KgTypeInv, KgTypeOK
<1>1. Refusing /\ Refusing'
  BY <1>0, KgIsDll, RefusingStep DEF Silent
<1>2. CASE UNCHANGED <<inbox, app>>
  BY <1>1, <1>2 DEF Silent, Elems
<1>3. CASE StreamRecv
  <2>1. Elems(inbox') = Elems(inbox) \cup {Head(events)} /\ Head(events) \in Elems(events)
    BY <1>0, <1>3, RecvMoves
  <2>2. Head(events).kind \notin Hopeful
    BY <1>1, <2>1 DEF Refusing, Elems, Hopeful
  <2> QED
    BY <1>1, <1>3, <2>1, <2>2 DEF Silent, Elems, StreamRecv
<1>4. CASE HandleMessage
  <2>1. /\ Elems(inbox) = {Head(inbox)} \cup Elems(inbox')
        /\ Head(inbox) \in HookEvent \cup {StreamErr}
    BY <1>0, <1>4, HandleTakes
  <2>2. Head(inbox).kind \notin Hopeful \cup {"None"}
    BY <1>0, <2>1 DEF Silent, Proper
  <2>3. app'.connection # "Streaming" /\ app'.timeline = NoEvent
    <3>1. CASE Head(inbox) = StreamErr /\ app' = HookDisconnected(app)
      BY <1>0, <3>1 DEF HookDisconnected, Silent, KgTypeOK, App
    <3>2. CASE Head(inbox) # StreamErr /\ app' = HandleHookEvent(app, Head(inbox))
      BY <1>0, <2>1, <2>2, <3>2, HandleFields DEF Silent, Hopeful, KgTypeOK
    <3> QED
      BY <1>4, <3>1, <3>2 DEF HandleMessage
  <2> QED
    BY <1>1, <2>1, <2>3 DEF Silent, Elems
<1>5. CASE StreamEnd
  <2>1. Elems(inbox') \subseteq Elems(inbox) \cup {StreamErr}
    BY <1>0, <1>5, OtherHostPending
  <2> QED
    BY <1>1, <1>5, <2>1 DEF Silent, Elems, StreamEnd, StreamErr, Control, Hopeful
<1>6. CASE UserDisconnects
  BY <1>1, <1>6 DEF Silent, Elems, UserDisconnects, Disconnect, StartedApp
<1>7. CASE UserClosesWindow \/ HostCrashes
  <2>1. inbox' = <<>> /\ app' = StartedApp
    BY <1>7 DEF UserClosesWindow, HostCrashes, Exit
  <2> QED
    BY <1>1, <2>1 DEF Silent, Elems, StartedApp
<1> QED
  BY <1>2, <1>3, <1>4, <1>5, <1>6, <1>7, KgSteps DEF Dll, Host, vars

\* "Unsupported DLL builds fail closed" (README), as far as the user can see: no
\* capture is announced, no line is shown, and no detour is enabled.
THEOREM UnknownBuildShowsNothing ==
  Safety => [](supported # Sources =>
                 detours = {} /\ app.connection # "Streaming" /\ app.timeline = NoEvent)
<1>1. Init => Silent
  BY DllInitially, DetourInit, ElemsEmpty
     DEF Init, DetourInv, Silent, ConnectedOk, Launch, StartedApp
<1>2. Silent => (supported # Sources =>
                   detours = {} /\ app.connection # "Streaming" /\ app.timeline = NoEvent)
  BY DEF Silent, Refusing
<1> QED
  BY <1>1, <1>2, SilentStep, KgTypeInductive, PTL DEF Safety

------------------------------------------------------------------------------
(* The order from the render threads to the window. *)

LEMMA OrderedAppend ==
  ASSUME NEW S, NEW s \in Seq(S), NEW e \in S, Ordered(s),
         \A x \in Elems(s) : IsLyric(x) /\ IsLyric(e) => Precedes(x, e)
  PROVE  Ordered(Append(s, e))
<1>1. Len(Append(s, e)) = Len(s) + 1 /\ Len(s) \in Nat
  OBVIOUS
<1>2. \A i \in 1..(Len(s) + 1) : Append(s, e)[i] = IF i <= Len(s) THEN s[i] ELSE e
  OBVIOUS
<1>3. \A i \in 1..Len(s) : s[i] \in Elems(s)
  BY DEF Elems
<1> SUFFICES ASSUME NEW i \in 1..(Len(s) + 1), NEW j \in 1..(Len(s) + 1), i < j,
                    IsLyric(Append(s, e)[i]), IsLyric(Append(s, e)[j])
             PROVE  Precedes(Append(s, e)[i], Append(s, e)[j])
  BY <1>1 DEF Ordered
<1>4. i \in 1..Len(s) /\ Append(s, e)[i] = s[i]
  BY <1>1, <1>2
<1>5. CASE j <= Len(s)
  BY <1>1, <1>2, <1>4, <1>5 DEF Ordered
<1>6. CASE ~(j <= Len(s))
  BY <1>1, <1>2, <1>3, <1>4, <1>6
<1> QED
  BY <1>5, <1>6

LEMMA OrderedTail ==
  ASSUME NEW S, NEW s \in Seq(S), s # <<>>, Ordered(s)
  PROVE  /\ Ordered(Tail(s))
         /\ \A x \in Elems(Tail(s)) : IsLyric(Head(s)) /\ IsLyric(x) => Precedes(Head(s), x)
<1>1. /\ Len(s) \in Nat \ {0} /\ Len(Tail(s)) = Len(s) - 1
      /\ Head(s) = s[1] /\ \A i \in 1..(Len(s) - 1) : Tail(s)[i] = s[i + 1]
  OBVIOUS
<1>2. ASSUME NEW i \in 1..(Len(s) - 1), NEW j \in 1..(Len(s) - 1), i < j,
             IsLyric(Tail(s)[i]), IsLyric(Tail(s)[j])
      PROVE  Precedes(Tail(s)[i], Tail(s)[j])
  <2>1. i + 1 \in 1..Len(s) /\ j + 1 \in 1..Len(s) /\ i + 1 < j + 1
    BY <1>1, <1>2
  <2>2. Tail(s)[i] = s[i + 1] /\ Tail(s)[j] = s[j + 1]
    BY <1>1
  <2>3. IsLyric(s[i + 1]) /\ IsLyric(s[j + 1])
    BY <1>2, <2>2
  <2>4. Precedes(s[i + 1], s[j + 1])
    BY <2>1, <2>3 DEF Ordered
  <2> QED
    BY <2>2, <2>4
<1>3. ASSUME NEW x \in Elems(Tail(s)), IsLyric(Head(s)), IsLyric(x)
      PROVE  Precedes(Head(s), x)
  <2>1. PICK i \in 1..(Len(s) - 1) : x = Tail(s)[i]
    BY <1>1, <1>3 DEF Elems
  <2>2. 1 \in 1..Len(s) /\ i + 1 \in 1..Len(s) /\ 1 < i + 1 /\ x = s[i + 1]
    BY <1>1, <2>1
  <2> QED
    BY <1>1, <1>3, <2>2 DEF Ordered
<1> QED
  BY <1>1, <1>2, <1>3 DEF Ordered

\* What the stream takes from the pipe comes before all that is still under way.
LEMMA HeadFirst ==
  ASSUME TypeOK, InOrder, StreamRecv, NEW f \in UnderWay', IsLyric(Head(events)), IsLyric(f)
  PROVE  Precedes(Head(events), f)
<1>1. /\ Len(events) \in Nat \ {0} /\ Head(events) = events[1]
      /\ \A i \in 1..Len(events') : i + 1 \in 1..Len(events) /\ events'[i] = events[i + 1]
  BY DEF StreamRecv, TypeOK, ChannelOK
<1>2. worker' = worker /\ queue' = queue
  BY DEF StreamRecv, hookOnly, workerVars, queueVars
<1>3. \E i \in 2..Len(Pipeline) : f = Pipeline[i]
  <2>1. CASE f \in Elems(events')
    <3>1. PICK i \in 1..Len(events') : f = events'[i]
      BY <2>1 DEF Elems
    <3>2. i + 1 \in 2..Len(Pipeline) /\ f = Pipeline[i + 1]
      BY <1>1, <3>1, PartsNow
    <3> QED
      BY <3>2
  <2>2. CASE f = worker
    <3>1. Len(events) + 1 \in 2..Len(Pipeline)
      BY <1>1, PartsNow
    <3> QED
      BY <2>2, <3>1, PartsNow
  <2>3. CASE f \in Elems(queue)
    <3>1. PICK j \in 1..Len(queue) : f = queue[j]
      BY <2>3 DEF Elems
    <3>2. Len(events) + 1 + j \in 2..Len(Pipeline)
      BY <1>1, PartsNow
    <3> QED
      BY <3>1, <3>2, PartsNow
  <2> QED
    BY <1>2, <2>1, <2>2, <2>3 DEF UnderWay
<1>4. 1 \in 1..Len(Pipeline) /\ Pipeline[1] = Head(events)
  BY <1>1, PartsNow
<1>5. PICK i \in 2..Len(Pipeline) : f = Pipeline[i]
  BY <1>3
<1>6. i \in 1..Len(Pipeline) /\ 1 < i
  OBVIOUS
<1> QED
  BY <1>4, <1>5, <1>6 DEF InOrder, Ordered

LEMMA KgNaturals ==
  ASSUME KgTypeOK
  PROVE  /\ timelineId \in Nat /\ app.timeline.id \in Nat
         /\ app.timeline \in HookEvent /\ app.playback \in HookEvent
         /\ \A e \in Pending : e \in HookEvent \cup {StreamErr} /\ e.id \in Nat
         /\ ~IsLyric(StreamErr)
<1>1. app.timeline \in HookEvent /\ app.playback \in HookEvent
  BY DEF KgTypeOK, App
<1>2. Pending \subseteq HookEvent \cup {StreamErr}
  BY Queues, ElemsType DEF KgTypeOK, Pending
<1>3. StreamErr.id = 0 /\ ~IsLyric(StreamErr)
  BY DEF StreamErr, Control, IsLyric
<1> QED
  BY <1>1, <1>2, <1>3 DEF KgTypeOK, TypeOK, CaptureOK, HookEvent

\* What handling a message does to what is on display.
LEMMA HandleTimeline ==
  ASSUME KgTypeOK, Proper, HandleMessage
  PROVE  \/ /\ Head(inbox).kind = "Timeline"
            /\ app'.timeline = Head(inbox) /\ app'.playback = NoEvent
         \/ /\ Head(inbox).kind # "Timeline"
            /\ app'.timeline = app.timeline
            /\ \/ app'.playback = app.playback
               \/ /\ Head(inbox).kind = "Playback" /\ Belongs(app, Head(inbox))
                  /\ app'.playback = Head(inbox)
<1> DEFINE e == Head(inbox)
<1>1. app \in App
  BY DEF KgTypeOK
<1>2. CASE e = StreamErr
  <2>1. app' = HookDisconnected(app)
    BY <1>2 DEF HandleMessage
  <2>2. e.kind # "Timeline"
    BY <1>2 DEF StreamErr, Control
  <2> QED
    BY <1>1, <2>1, <2>2 DEF HookDisconnected, App
<1>3. CASE e # StreamErr
  <2>1. app' = HandleHookEvent(app, e)
    BY <1>3 DEF HandleMessage
  <2>2. e \in HookEvent /\ e.kind # "None"
    BY <1>3, HandleTakes DEF Proper
  <2> QED
    BY <1>1, <2>1, <2>2, HandleFields
<1> QED
  BY <1>2, <1>3

LEMMA FeedInit == Init => FeedInOrder
<1> SUFFICES ASSUME Init PROVE FeedInOrder
  OBVIOUS
<1>1. Pending = {NoEvent}
  BY ElemsEmpty DEF Init, HookInit, Pending, UnderWay
<1>2. app.timeline = NoEvent
  BY DEF Init, ConnectedOk, Launch, StartedApp
<1>3. Ordered(inbox) /\ Elems(inbox) = {}
  BY ElemsEmpty DEF Init, Ordered
<1> QED
  BY <1>1, <1>2, <1>3, NoEventType DEF FeedInOrder, Init, HookInit, NoEvent, Control

LEMMA FeedDll == KgTypeInv /\ FeedInOrder /\ Dll => FeedInOrder'
<1> SUFFICES ASSUME KgTypeInv, FeedInOrder, Dll PROVE FeedInOrder'
  OBVIOUS
<1>0. KgTypeOK /\ TypeOK /\ LockInv /\ ~IsLyric(reply) /\ UNCHANGED <<app, inbox>>
  BY DEF KgTypeInv, KgTypeOK, OrderInv, Dll
<1> USE <1>0, KgNaturals DEF FeedInOrder
<1>1. ASSUME NEW e \in HookEvent, UnderWay' \subseteq UnderWay \cup {e}, alive,
             \/ e.kind = "Timeline" /\ timelineId < e.id /\ timelineId' = e.id
             \/ e.kind = "Playback" /\ e.id = timelineId /\ timelineId' = timelineId
      PROVE  FeedInOrder'
  <2>1. Pending' \subseteq Pending \cup {e}
    BY <1>1 DEF Pending
  <2>2. e.id \in Nat /\ timelineId <= e.id /\ timelineId' = e.id
    BY <1>1 DEF HookEvent
  <2>3. \A x \in Elems(inbox) : IsLyric(x) => Precedes(x, e)
    BY <1>1, <2>2 DEF Pending, Precedes
  <2>4. Precedes(app.timeline, e)
    BY <1>1, <2>2 DEF Precedes
  <2>5. \A x \in Pending' : IsLyric(x) => x.id <= timelineId'
    BY <1>1, <2>1, <2>2
  <2> QED
    BY <1>1, <2>1, <2>2, <2>3, <2>4, <2>5
<1>2. ASSUME NEW t \in Threads, Announces(t) PROVE FeedInOrder'
  BY <1>1, <1>2, AnnouncesEvent, EnqueueUnderWay DEF Timeline
<1>3. ASSUME NEW t \in Threads, Follows(t) PROVE FeedInOrder'
  BY <1>1, <1>3, FollowsEvent, EnqueueUnderWay DEF Playback
<1>4. CASE \A t \in Threads : ~Announces(t) /\ ~Follows(t)
  <2>1. UnderWay' \subseteq UnderWay \cup {NoEvent, reply}
    BY <1>4, HookUnderWay DEF Dll
  <2>2. ~alive' \/ UNCHANGED <<alive, timelineId>>
    BY <1>4, HookFlow DEF Dll
  <2>3. Pending' \subseteq Pending \cup {NoEvent, reply}
    BY <2>1 DEF Pending
  <2> QED
    BY <2>1, <2>2, <2>3, NoEventType
<1> QED
  BY <1>2, <1>3, <1>4

LEMMA FeedHost == KgTypeInv /\ FeedInOrder /\ Host => FeedInOrder'
<1> SUFFICES ASSUME KgTypeInv, FeedInOrder, Host PROVE FeedInOrder'
  OBVIOUS
<1>0. KgTypeOK /\ TypeOK /\ InOrder
  BY DEF KgTypeInv, KgTypeOK, OrderInv
<1>1. UNCHANGED <<alive, timelineId>>
  BY DEF Host, StreamRecv, StreamEnd, HandleMessage, UserDisconnects, UserClosesWindow, HostCrashes,
         Exit, hookOnly, hookVars, wesingVars, captureVars
<1> USE <1>0, KgNaturals DEF FeedInOrder
<1>2. CASE StreamRecv
  <2> DEFINE e == Head(events)
  <2>1. /\ Elems(inbox') = Elems(inbox) \cup {e} /\ e \in UnderWay
        /\ UnderWay = UnderWay' \cup {e} /\ Pending' = Pending /\ e \in HookEvent
    BY <1>2, RecvMoves DEF UnderWay
  <2>2. Ordered(inbox')
    <3>1. inbox' = Append(inbox, e) /\ inbox \in Seq(HookEvent \cup {StreamErr})
      BY <1>2 DEF StreamRecv, Deliver, KgTypeOK
    <3>2. \A x \in Elems(inbox) : IsLyric(x) /\ IsLyric(e) => Precedes(x, e)
      BY <2>1
    <3> HIDE DEF e
    <3> QED
      BY <2>1, <3>1, <3>2, OrderedAppend
  <2>3. \A x \in Elems(inbox'), f \in UnderWay' : IsLyric(x) /\ IsLyric(f) => Precedes(x, f)
    BY <1>2, <2>1, HeadFirst
  <2>4. app' = app
    BY <1>2 DEF StreamRecv
  <2> QED
    BY <1>1, <2>1, <2>2, <2>3, <2>4
<1>3. CASE HandleMessage
  <2> DEFINE e == Head(inbox)
  <2>1. /\ Elems(inbox) = {e} \cup Elems(inbox') /\ UnderWay' = UnderWay
        /\ Pending = Pending' \cup {e} /\ inbox' = Tail(inbox)
        /\ e \in Pending /\ e \in Elems(inbox)
    BY <1>3, HandleTakes
  <2>2. Ordered(inbox') /\ \A x \in Elems(inbox') : IsLyric(e) /\ IsLyric(x) => Precedes(e, x)
    BY <1>3, <2>1, OrderedTail DEF HandleMessage, KgTypeOK
  <2>3. CASE app'.timeline = app.timeline
    BY <1>1, <2>1, <2>2, <2>3
  <2>4. CASE app'.timeline = e /\ IsLyric(e)
    <3>1. \A x \in Pending' : IsLyric(x) => Precedes(e, x)
      BY <2>1, <2>2, <2>4 DEF Pending
    <3>2. alive => e.id <= timelineId
      BY <2>1, <2>4
    <3> QED
      BY <1>1, <2>1, <2>2, <2>4, <3>1, <3>2
  <2> QED
    BY <1>3, <2>3, <2>4, HandleTimeline DEF IsLyric, KgTypeInv
<1>4. CASE StreamEnd \/ UserDisconnects \/ UserClosesWindow \/ HostCrashes
  <2>1. /\ Pending' \subseteq Pending \cup {StreamErr} /\ UnderWay' \subseteq UnderWay
        /\ Elems(inbox') \subseteq Elems(inbox) \cup {StreamErr}
    BY <1>4, OtherHostPending
  <2>2. Ordered(inbox')
    <3>1. CASE inbox' = inbox
      BY <3>1
    <3>2. CASE inbox' = <<>>
      BY <3>2 DEF Ordered
    <3>3. CASE inbox' = Append(inbox, StreamErr)
      BY <3>3, OrderedAppend DEF KgTypeOK
    <3> QED
      BY <1>4, <3>1, <3>2, <3>3
         DEF StreamEnd, Deliver, UserDisconnects, UserClosesWindow, HostCrashes, Exit
  <2>3. app'.timeline = app.timeline \/ app'.timeline = NoEvent
    BY <1>4 DEF StreamEnd, UserDisconnects, UserClosesWindow, HostCrashes, Exit, Disconnect, StartedApp
  <2>4. NoEvent.id = 0
    BY DEF NoEvent, Control
  <2>5. \A e \in Pending : IsLyric(e) => Precedes(app'.timeline, e)
    BY <2>3, <2>4 DEF Precedes
  <2>6. alive => app'.timeline.id <= timelineId
    BY <2>3, <2>4
  <2> QED
    BY <1>1, <2>1, <2>2, <2>5, <2>6
<1> QED
  BY <1>2, <1>3, <1>4 DEF Host

FeedInv == KgTypeInv /\ FeedInOrder

LEMMA FeedStep == FeedInv /\ [Next]_vars => FeedInv'
<1> SUFFICES ASSUME FeedInv, [Next]_vars PROVE FeedInOrder'
  BY KgTypeStep DEF FeedInv
<1>1. CASE UNCHANGED vars
  <2>1. UNCHANGED <<events, worker, queue, inbox, app, alive, timelineId>>
    BY <1>1 DEF vars, hookVars, channelVars, queueVars, workerVars, wesingVars, captureVars
  <2> QED
    BY <2>1 DEF FeedInv, FeedInOrder, Pending, UnderWay
<1> QED
  BY <1>1, FeedDll, FeedHost, KgSteps DEF FeedInv

LEMMA FeedInductive == Safety => []FeedInv
<1>1. Init => FeedInv
  BY FeedInit, KgTypeInit, DllInitially, FlowInit, LockInit DEF FeedInv, KgTypeInv, OrderInv
<1> QED
  BY <1>1, FeedStep, PTL DEF Safety

------------------------------------------------------------------------------
(* What is on display. *)

LEMMA DisplaySteps ==
  ASSUME KgTypeInv, [Next]_vars
  PROVE  \/ app'.timeline = app.timeline /\ app'.playback = app.playback
         \/ app'.timeline = NoEvent /\ app'.playback = NoEvent
         \/ /\ HandleMessage /\ Head(inbox).kind = "Timeline"
            /\ app'.timeline = Head(inbox) /\ app'.playback = NoEvent
         \/ /\ HandleMessage /\ Head(inbox).kind = "Playback" /\ Belongs(app, Head(inbox))
            /\ app'.timeline = app.timeline /\ app'.playback = Head(inbox)
<1>1. CASE Dll \/ UNCHANGED vars \/ StreamRecv \/ StreamEnd
  BY <1>1 DEF Dll, vars, StreamRecv, StreamEnd
<1>2. CASE HandleMessage
  BY <1>2, HandleTimeline DEF KgTypeInv
<1>3. CASE UserDisconnects \/ UserClosesWindow \/ HostCrashes
  BY <1>3 DEF UserDisconnects, UserClosesWindow, HostCrashes, Exit, Disconnect, StartedApp
<1> QED
  BY <1>1, <1>2, <1>3, KgSteps DEF Host

\* Lyrics never go back: a timeline on display is only replaced by one that
\* WeSing showed later.
THEOREM NeverGoesBack == Safety => NeverBackwards
<1>1. FeedInv /\ [Next]_vars => [app'.timeline # NoEvent => app'.timeline.id >= app.timeline.id]_vars
  <2> SUFFICES ASSUME FeedInv, [Next]_vars, app'.timeline # NoEvent
               PROVE  app'.timeline.id >= app.timeline.id
    OBVIOUS
  <2> USE DEF FeedInv
  <2>1. CASE app'.timeline = app.timeline
    BY <2>1, KgNaturals DEF KgTypeInv
  <2>2. CASE HandleMessage /\ Head(inbox).kind = "Timeline" /\ app'.timeline = Head(inbox)
    <3>1. Head(inbox) \in Pending
      BY <2>2, HandleTakes DEF KgTypeInv
    <3>2. app.timeline.id < Head(inbox).id /\ app.timeline.id \in Nat /\ Head(inbox).id \in Nat
      BY <2>2, <3>1, KgNaturals DEF KgTypeInv, FeedInOrder, IsLyric, Precedes
    <3> QED
      BY <2>2, <3>2
  <2> QED
    BY <2>1, <2>2, DisplaySteps
<1> QED
  BY <1>1, FeedInductive, PTL DEF Safety, NeverBackwards

LEMMA ShownInit == Init => ShownInv
BY DEF Init, ConnectedOk, Launch, StartedApp, ShownInv

LEMMA ShownStep == FeedInv /\ ShownInv /\ [Next]_vars => ShownInv'
<1> SUFFICES ASSUME FeedInv, ShownInv, [Next]_vars PROVE ShownInv'
  OBVIOUS
<1> USE DEF ShownInv, FeedInv
<1>1. CASE Belongs(app, Head(inbox)) /\ Head(inbox).kind = "Playback"
  BY <1>1, DisplaySteps DEF Belongs
<1>2. CASE HandleMessage /\ Head(inbox).kind = "Timeline"
  <2>1. Head(inbox) \in Pending
    BY <1>2, HandleTakes DEF KgTypeInv
  <2>2. app.timeline.id < Head(inbox).id /\ app.timeline.id \in Nat /\ Head(inbox).id \in Nat
    BY <1>2, <2>1, KgNaturals DEF KgTypeInv, FeedInOrder, IsLyric, Precedes
  <2>3. Head(inbox).id > 0
    BY <2>2
  <2> QED
    BY <1>2, <2>3, DisplaySteps
<1> QED
  BY <1>1, <1>2, DisplaySteps

------------------------------------------------------------------------------
(* What a session keeps. *)

LEMMA SessionSteps ==
  ASSUME KgTypeInv, [Next]_vars
  PROVE  app'.session \in {app.session, NoSession}
<1>0. app \in App
  BY DEF KgTypeInv, KgTypeOK
<1>1. CASE Dll \/ UNCHANGED vars \/ StreamRecv \/ StreamEnd
  BY <1>1 DEF Dll, vars, StreamRecv, StreamEnd
<1>2. CASE HandleMessage
  <2>1. CASE Head(inbox) # StreamErr /\ app' = HandleHookEvent(app, Head(inbox))
    <3> DEFINE e == Head(inbox)
    <3>1. e \in HookEvent /\ e.kind # "None"
      BY <1>2, <2>1, HandleTakes DEF KgTypeInv, Proper
    <3> QED
      BY <1>0, <2>1, <3>1, HandleFields
  <2>2. CASE app' = HookDisconnected(app)
    BY <1>0, <2>2 DEF HookDisconnected, App
  <2> QED
    BY <1>2, <2>1, <2>2 DEF HandleMessage
<1>3. CASE UserDisconnects \/ UserClosesWindow \/ HostCrashes
  BY <1>3 DEF UserDisconnects, UserClosesWindow, HostCrashes, Exit, Disconnect, StartedApp
<1> QED
  BY <1>1, <1>2, <1>3, KgSteps DEF Host

LEMMA GoneStep == KgTypeInv /\ GoneInv /\ [Next]_vars => GoneInv'
<1> SUFFICES ASSUME KgTypeInv, GoneInv, [Next]_vars, evtOpen' # evtOpen PROVE GoneInv'
  BY SessionSteps DEF GoneInv
<1>1. CASE Dll \/ UNCHANGED vars
  BY <1>1 DEF Dll, vars, hookVars, channelVars, HookStep,
              WeSing, LoadDll, ShowModel, CloseWindow, WeSingExits,
              Render, InCallback, Enter, GiveUp, Snapshot, Extract, Play,
              Worker, WorkerTake, WorkerSend, WorkerBreak,
              CommandLoop, RecvStart, RecvStop, RecvPing, RecvShutdown, RecvCommand, RecvClosed,
              InstallRefused, InstallHalfway, Install, SendReply
<1>2. CASE StreamRecv \/ StreamEnd \/ HandleMessage \/ UserDisconnects
  BY <1>2 DEF StreamRecv, StreamEnd, HandleMessage, UserDisconnects, hookVars, channelVars
<1>3. CASE UserClosesWindow \/ HostCrashes
  BY <1>3 DEF UserClosesWindow, HostCrashes, Exit, StartedApp, GoneInv
<1> QED
  BY <1>1, <1>2, <1>3, KgSteps DEF Host

LEMMA AccountedDll ==
  ASSUME MaxFailures > 0, FeedInv, GoneInv, Accounted, Dll
  PROVE  Accounted'
<1> SUFFICES ASSUME alive', app.session # NoSession, ~(queueFailures' > 0)
             PROVE  \/ app.timeline.id = timelineId'
                    \/ \E e \in Pending' : e.kind = "Timeline" /\ e.id = timelineId'
  BY DEF Accounted, Dll
<1>0. TypeOK /\ LockInv /\ evtOpen /\ inbox' = inbox
  BY DEF FeedInv, KgTypeInv, KgTypeOK, OrderInv, GoneInv, Dll
<1> USE <1>0 DEF Pending
<1>1. ASSUME NEW t \in Threads, Announces(t)
      PROVE  \E e \in Pending' : e.kind = "Timeline" /\ e.id = timelineId'
  BY <1>1, AnnouncesEvent, EnqueueUnderWay DEF Timeline
<1>2. ASSUME UnderWay \subseteq UnderWay' \cup {NoEvent}, UNCHANGED <<alive, timelineId, queueFailures>>
      PROVE  \/ app.timeline.id = timelineId'
             \/ \E e \in Pending' : e.kind = "Timeline" /\ e.id = timelineId'
  BY <1>2, NoEventType DEF Accounted, IsLyric
<1>3. ASSUME NEW t \in Threads, Follows(t)
      PROVE  UnderWay \subseteq UnderWay' /\ UNCHANGED <<alive, timelineId, queueFailures>>
  BY <1>3, FollowsEvent, EnqueueUnderWay
<1>4. CASE \A t \in Threads : ~Announces(t) /\ ~Follows(t)
  BY <1>2, <1>4, HookFlow, KeepsUnderWay DEF Dll
<1> QED
  BY <1>1, <1>2, <1>3, <1>4

LEMMA AccountedHost ==
  ASSUME FeedInv, Accounted, Host
  PROVE  Accounted'
<1>0. UNCHANGED <<alive, timelineId, queueFailures>>
  BY DEF Host, StreamRecv, StreamEnd, HandleMessage, UserDisconnects, UserClosesWindow, HostCrashes,
         Exit, hookOnly, hookVars, wesingVars, captureVars, queueVars
<1> SUFFICES ASSUME alive, app'.session # NoSession, ~(queueFailures > 0)
             PROVE  \/ app'.timeline.id = timelineId
                    \/ \E e \in Pending' : e.kind = "Timeline" /\ e.id = timelineId
  BY <1>0 DEF Accounted
<1>1. KgTypeOK /\ TypeOK /\ Proper /\ KgTypeInv
  BY DEF FeedInv, KgTypeInv, KgTypeOK
<1>2. \/ app.timeline.id = timelineId
      \/ \E e \in Pending : e.kind = "Timeline" /\ e.id = timelineId
  BY <1>1, SessionSteps DEF Accounted, Next
<1>3. CASE StreamRecv
  BY <1>1, <1>2, <1>3, RecvMoves DEF StreamRecv
<1>4. CASE HandleMessage
  <2> DEFINE h == Head(inbox)
  <2>1. Pending = Pending' \cup {h}
    BY <1>1, <1>4, HandleTakes
  <2>2. CASE h.kind = "Timeline"
    <3>1. app.timeline.id < h.id /\ h.id <= timelineId
      BY <2>1, <2>2 DEF FeedInv, FeedInOrder, IsLyric, Precedes
    <3>2. timelineId \in Nat /\ app.timeline.id \in Nat /\ h.id \in Nat
      BY <1>1, <2>1, KgNaturals
    <3>3. app.timeline.id # timelineId
      BY <3>1, <3>2
    <3>4. app'.timeline = h
      BY <1>1, <1>4, <2>2, HandleTimeline
    <3> QED
      BY <1>2, <2>1, <3>3, <3>4
  <2>3. CASE h.kind # "Timeline"
    BY <1>1, <1>2, <1>4, <2>1, <2>3, HandleTimeline
  <2> QED
    BY <2>2, <2>3
<1>5. CASE StreamEnd
  BY <1>5 DEF StreamEnd
<1>6. CASE UserDisconnects \/ UserClosesWindow \/ HostCrashes
  BY <1>6 DEF UserDisconnects, UserClosesWindow, HostCrashes, Exit, Disconnect, StartedApp
<1> QED
  BY <1>3, <1>4, <1>5, <1>6 DEF Host

\* A timeline that the hook recorded is on display once nothing is under way,
\* or a full queue has counted its loss.
THEOREM TimelineShownOrCounted ==
  ASSUME MaxFailures > 0
  PROVE  Safety => []LossIsCounted
<1> DEFINE Inv == FeedInv /\ GoneInv /\ Accounted
<1>1. Init => GoneInv /\ Accounted
  BY DEF Init, HookInit, ConnectedOk, Launch, StartedApp, NoEvent, Control, GoneInv, Accounted
<1>2. Inv /\ [Next]_vars => (GoneInv /\ Accounted)'
  <2> SUFFICES ASSUME Inv, [Next]_vars PROVE Accounted'
    BY GoneStep DEF FeedInv
  <2>1. CASE UNCHANGED vars
    <3>1. UNCHANGED <<events, worker, queue, inbox, app, alive, timelineId, queueFailures>>
      BY <2>1 DEF vars, hookVars, channelVars, queueVars, workerVars, wesingVars, captureVars
    <3> QED
      BY <3>1 DEF Accounted, Pending, UnderWay
  <2> QED
    BY <2>1, AccountedDll, AccountedHost, KgSteps
<1>3. FeedInv /\ Accounted => LossIsCounted
  BY ElemsEmpty, NoEventType DEF LossIsCounted, Quiet, Accounted, Pending, UnderWay, IsLyric
<1> QED
  BY <1>1, <1>2, <1>3, FeedInductive, PTL DEF Safety

------------------------------------------------------------------------------
(* Streaming. *)

LEMMA CapturingInit == Init => CapturingInv
<1> SUFFICES ASSUME Init PROVE CapturingInv
  OBVIOUS
<1>1. Pending \cup {reply} = {NoEvent}
  BY ElemsEmpty DEF Init, HookInit, Pending, UnderWay
<1>2. app.connection = "Connected"
  BY DEF Init, ConnectedOk, Launch, StartedApp
<1> QED
  BY <1>1, <1>2 DEF CapturingInv, Init, HookInit, NoEvent, Control

\* While the application holds its session, nothing but a successful install
\* touches HOOKS_ACTIVE, and only that answers CaptureStarted.
LEMMA CommandsUnderSession ==
  ASSUME TypeOK, HookStep, alive', cmdOpen, loop # "done", commands \in {<<>>, <<"StartCapture">>}
  PROVE  /\ alive /\ loop' # "done" /\ cmdOpen' = cmdOpen
         /\ commands' \in {<<>>, <<"StartCapture">>}
         /\ hooksActive => hooksActive'
         /\ ~hooksActive' => reply' = reply \/ reply'.kind # "CaptureStarted"
<1>0. /\ commands # <<>> => Head(commands) = "StartCapture" /\ Tail(commands) = <<>>
      /\ NoEvent.kind # "CaptureStarted"
  <2>1. Head(<<"StartCapture">>) = "StartCapture" /\ Tail(<<"StartCapture">>) = <<>>
    OBVIOUS
  <2> QED
    BY <2>1 DEF NoEvent, Control
<1>1. CASE UNCHANGED <<alive, loopVars, commands, cmdOpen>>
  BY <1>1 DEF loopVars
<1>2. CASE WeSing
  BY <1>1, <1>2 DEF WeSing, LoadDll, ShowModel, CloseWindow, WeSingExits, channelVars
<1>3. CASE Render
  BY <1>1, <1>3 DEF Render, InCallback, Enter, GiveUp, Snapshot, Extract, Play, channelVars, wesingVars
<1>4. CASE Worker
  BY <1>1, <1>4 DEF Worker, WorkerTake, WorkerSend, WorkerBreak, channelVars, wesingVars
<1>5. CASE CommandLoop
  <2>1. CASE RecvStart
    BY <1>0, <2>1 DEF RecvStart, RecvCommand, wesingVars
  <2>2. CASE RecvStop \/ RecvPing \/ RecvShutdown \/ RecvClosed
    BY <1>0, <2>2 DEF RecvStop, RecvPing, RecvShutdown, RecvClosed, RecvCommand
  <2>3. CASE InstallRefused \/ InstallHalfway
    <3>1. loop' = "reply" /\ reply'.kind \in {"NotLoaded", "Unsupported", "DetourFailed"}
      BY <2>3 DEF InstallRefused, InstallHalfway, Answer, Control
    <3>2. UNCHANGED <<alive, hooksActive, commands, cmdOpen>>
      BY <2>3 DEF InstallRefused, InstallHalfway, wesingVars, channelVars
    <3> QED
      BY <3>1, <3>2
  <2>5. CASE Install
    BY <2>5 DEF Install, Answer, wesingVars, channelVars
  <2>4. CASE SendReply
    BY <1>0, <2>4 DEF SendReply, wesingVars
  <2> QED
    BY <1>5, <2>1, <2>2, <2>3, <2>4, <2>5 DEF CommandLoop
<1> QED
  BY <1>2, <1>3, <1>4, <1>5 DEF HookStep

LEMMA CapturingDll == KgTypeInv /\ CapturingInv /\ Dll => CapturingInv'
<1> SUFFICES ASSUME KgTypeInv, CapturingInv, Dll, alive', app.session # NoSession
             PROVE  CapturingInv'
  BY DEF CapturingInv, Dll
<1>0. TypeOK /\ LockInv /\ HookStep /\ UNCHANGED <<app, inbox>>
  BY DEF KgTypeInv, KgTypeOK, OrderInv, Dll
<1>1. alive
  BY <1>0, HookFlow, AnnouncesEvent, FollowsEvent
<1>2. /\ loop' # "done" /\ cmdOpen'
      /\ commands' \in {<<>>, <<"StartCapture">>}
      /\ hooksActive => hooksActive'
      /\ ~hooksActive' => reply' = reply \/ reply'.kind # "CaptureStarted"
  BY <1>0, <1>1, CommandsUnderSession DEF CapturingInv
<1>3. ASSUME ~hooksActive', NEW e \in Pending'
      PROVE  e.kind # "CaptureStarted"
  <2>1. ~hooksActive /\ \A x \in Pending \cup {reply} : x.kind # "CaptureStarted"
    BY <1>1, <1>2, <1>3 DEF CapturingInv
  <2>2. ASSUME NEW t \in Threads, Announces(t) PROVE e.kind # "CaptureStarted"
    <3>1. UnderWay' \subseteq UnderWay \cup {Timeline(loc[t].id, mem[loc[t].region])}
      BY <1>0, <2>2, AnnouncesEvent, EnqueueUnderWay
    <3>2. e \in Pending \cup {Timeline(loc[t].id, mem[loc[t].region])}
      BY <1>0, <1>3, <3>1 DEF Pending
    <3> QED
      BY <2>1, <3>2 DEF Timeline
  <2>3. ASSUME NEW t \in Threads, Follows(t) PROVE e.kind # "CaptureStarted"
    <3>1. UnderWay' \subseteq UnderWay \cup {Playback(timelineId, loc[t].song)}
      BY <1>0, <2>3, FollowsEvent, EnqueueUnderWay
    <3>2. e \in Pending \cup {Playback(timelineId, loc[t].song)}
      BY <1>0, <1>3, <3>1 DEF Pending
    <3> QED
      BY <2>1, <3>2 DEF Playback
  <2>4. CASE \A t \in Threads : ~Announces(t) /\ ~Follows(t)
    <3>1. e \in Pending \cup {NoEvent, reply}
      BY <1>0, <1>3, <2>4, HookUnderWay DEF Pending
    <3> QED
      BY <2>1, <3>1 DEF NoEvent, Control
  <2> QED
    BY <2>2, <2>3, <2>4
<1> QED
  BY <1>0, <1>1, <1>2, <1>3 DEF CapturingInv

LEMMA CapturingHost == KgTypeInv /\ CapturingInv /\ Host => CapturingInv'
<1> SUFFICES ASSUME KgTypeInv, CapturingInv, Host, alive', app'.session # NoSession
             PROVE  CapturingInv'
  BY DEF CapturingInv
<1>0. KgTypeOK /\ TypeOK /\ Proper /\ app \in App
  BY DEF KgTypeInv, KgTypeOK
<1>1. /\ alive /\ UNCHANGED loopVars
      /\ UNCHANGED <<loop, reply, hooksActive>>
  BY DEF Host, StreamRecv, StreamEnd, HandleMessage, UserDisconnects, UserClosesWindow, HostCrashes,
         Exit, hookOnly, hookVars, wesingVars, loopVars
<1>2. app.session # NoSession
  BY SessionSteps DEF Next
<1> USE DEF CapturingInv
<1>3. CASE StreamRecv
  BY <1>0, <1>1, <1>2, <1>3, RecvMoves DEF StreamRecv
<1>4. CASE HandleMessage
  <2> DEFINE e == Head(inbox)
  <2>1. Pending = Pending' \cup {e} /\ UNCHANGED commands
    BY <1>0, <1>4, HandleTakes
  <2>2. e # StreamErr /\ app' = HandleHookEvent(app, e) /\ UNCHANGED cmdOpen
    BY <1>0, <1>4 DEF HandleMessage, HookDisconnected, App
  <2>3. e \in HookEvent /\ e.kind # "None"
    BY <1>0, <1>4, <2>2, HandleTakes DEF Proper
  <2>4. ASSUME ~hooksActive PROVE app'.connection # "Streaming"
    <3>1. e.kind # "CaptureStarted" /\ app.connection # "Streaming"
      BY <1>1, <1>2, <2>1, <2>4
    <3> QED
      BY <1>0, <2>2, <2>3, <3>1, HandleFields
  <2> QED
    BY <1>1, <1>2, <2>1, <2>2, <2>4
<1>5. CASE StreamEnd
  BY <1>1, <1>5 DEF StreamEnd
<1>6. CASE UserDisconnects \/ UserClosesWindow \/ HostCrashes
  BY <1>6 DEF UserDisconnects, UserClosesWindow, HostCrashes, Exit, Disconnect, StartedApp
<1> QED
  BY <1>3, <1>4, <1>5, <1>6 DEF Host

\* While it holds a session, the application only says that it streams while the
\* hook captures, or has just died.
THEOREM StreamingMeansCapturing == Safety => []StreamingIsTrue
<1>1. KgTypeInv /\ CapturingInv /\ [Next]_vars => CapturingInv'
  <2> SUFFICES ASSUME CapturingInv, UNCHANGED vars PROVE CapturingInv'
    BY CapturingDll, CapturingHost, KgSteps
  <2> QED
    BY DEF CapturingInv, Pending, UnderWay,
           vars, hookVars, channelVars, queueVars, workerVars, wesingVars, loopVars
<1>2. CapturingInv => StreamingIsTrue
  BY DEF CapturingInv, StreamingIsTrue
<1> QED
  BY <1>1, <1>2, CapturingInit, KgTypeInductive, PTL DEF Safety

------------------------------------------------------------------------------
(* The songs. *)

LEMMA ReadInit == Init => ReadInv
BY DEF Init, HookInit, ReadInv

\* Without AddressReuse, what lies at an address stays there while WeSing runs.
LEMMA TextStays ==
  ASSUME TypeOK, ~AddressReuse, DllStep, alive', NEW r \in Regions
  PROVE  mem'[r] = mem[r] \/ mem[r] = NoSong
<1>1. CASE UNCHANGED mem
  BY <1>1
<1>2. ASSUME NEW src \in Sources, NEW q \in Regions, NEW s \in Songs \cup {NoSong}, ShowModel(src, q, s)
      PROVE  mem'[r] = mem[r] \/ mem[r] = NoSong
  BY <1>2 DEF ShowModel, TypeOK, WeSingOK
<1> QED
  BY <1>1, <1>2
     DEF DllStep, HookStep, HostMoves, wesingVars,
         WeSing, LoadDll, CloseWindow, WeSingExits,
         Render, InCallback, Enter, GiveUp, Snapshot, Extract, Play,
         Worker, WorkerTake, WorkerSend, WorkerBreak,
         CommandLoop, RecvStart, RecvStop, RecvPing, RecvShutdown, RecvCommand, RecvClosed,
         InstallRefused, InstallHalfway, Install, SendReply

LEMMA ReadRender ==
  ASSUME TypeOK, LockInv, ReadInv, Render
  PROVE  ReadInv'
<1>0. PICK t \in Threads : InCallback(t) \/ \E src \in Sources : Enter(t, src)
  BY DEF Render
<1>1. UNCHANGED <<alive, mem, wnd>>
  BY DEF Render, InCallback, Enter, GiveUp, Snapshot, Extract, Play, wesingVars
<1> SUFFICES ASSUME alive PROVE ReadInv'
  BY <1>1 DEF ReadInv
<1> USE <1>1 DEF ReadInv, TypeOK, CaptureOK, Goto
<1>2. ASSUME NEW src \in Sources, Enter(t, src)
      PROVE  ReadInv'
  BY <1>2 DEF Enter
<1>3. CASE GiveUp(t)
  BY <1>3 DEF GiveUp, Return
<1>4. CASE Snapshot(t)
  <2> DEFINE region == wnd[loc[t].src]
  <2>1. region \in Regions /\ \A u \in Threads : pc[u] \notin {"changed", "play"}
    <3>1. loc[t].src \in Sources
      BY DEF Locals
    <3> QED
      BY <1>4, <3>1 DEF Snapshot, LockFree, LockInv, WeSingOK
  <2>2. /\ UNCHANGED <<identity, timelineId>>
        /\ pc' \in {[pc EXCEPT ![t] = "changed"], [pc EXCEPT ![t] = "play"]}
        /\ \A u \in Threads : u # t => pc'[u] = pc[u]
        /\ loc'[t].region = region /\ loc'[t].song = mem[region]
        /\ pc'[t] = "play" => identity = <<loc[t].src, region>>
    BY <1>4 DEF Snapshot, Local
  <2> QED
    BY <2>1, <2>2
<1>5. CASE Extract(t)
  <2>1. \A u \in Threads : pc[u] \in {"changed", "play"} => u = t
    BY <1>5 DEF Extract, LockInv
  <2>2. loc' = loc /\ pc' = [pc EXCEPT ![t] = "play"] /\ loc[t].region \in Regions
    BY <1>5 DEF Extract
  <2>3. loc[t].song \in {NoSong, mem[loc[t].region]}
    BY <1>5 DEF Extract
  <2>4. \/ mem[loc[t].region] # NoSong /\ identity' = <<loc[t].src, loc[t].region>>
        \/ mem[loc[t].region] = NoSong /\ UNCHANGED <<identity, timelineId>>
    BY <1>5 DEF Extract
  <2>5. identity' # NoIdentity \/ UNCHANGED <<identity, timelineId>>
    <3>1. \A a, b : <<a, b>> # <<>>
      OBVIOUS
    <3> QED
      BY <2>4, <3>1 DEF NoIdentity
  <2> QED
    BY <2>1, <2>2, <2>3, <2>4, <2>5
<1>6. CASE Play(t)
  BY <1>6 DEF Play, Return
<1> QED
  BY <1>0, <1>2, <1>3, <1>4, <1>5, <1>6 DEF InCallback

LEMMA ReadStep ==
  ASSUME ~AddressReuse, TypeOK, LockInv, ReadInv, DllStep
  PROVE  ReadInv'
<1> SUFFICES ASSUME alive', ~Render PROVE ReadInv'
  BY ReadRender DEF ReadInv
<1>1. UNCHANGED <<alive, identity, timelineId, pc, loc>>
  BY DEF DllStep, HookStep, HostMoves, wesingVars, captureVars,
         WeSing, LoadDll, ShowModel, CloseWindow, WeSingExits,
         Worker, WorkerTake, WorkerSend, WorkerBreak,
         CommandLoop, RecvStart, RecvStop, RecvPing, RecvShutdown, RecvCommand, RecvClosed,
         InstallRefused, InstallHalfway, Install, SendReply
<1>2. \A r \in Regions : mem'[r] = mem[r] \/ mem[r] = NoSong
  BY TextStays
<1>3. identity # NoIdentity => identity[2] \in Regions
  BY DEF TypeOK, CaptureOK
<1> QED
  BY <1>1, <1>2, <1>3 DEF ReadInv

\* While a timeline is recorded, only the recording of another one changes what
\* its song is.
LEMMA RecordedStays ==
  ASSUME ~AddressReuse, TypeOK, ReadInv, HookStep, alive, alive', timelineId # 0,
         \A t \in Threads : ~Announces(t)
  PROVE  mem'[identity'[2]] = mem[identity[2]]
<1>1. identity \in Sources \X Regions /\ mem[identity[2]] # NoSong
  BY DEF ReadInv, TypeOK, CaptureOK
<1>2. mem'[identity[2]] = mem[identity[2]]
  BY <1>1, TextStays DEF DllStep
<1>3. UNCHANGED identity
  BY DEF HookStep, Announces, WeSing, LoadDll, ShowModel, CloseWindow, WeSingExits,
         Render, InCallback, Enter, GiveUp, Snapshot, Extract, Play, captureVars,
         Worker, WorkerTake, WorkerSend, WorkerBreak,
         CommandLoop, RecvStart, RecvStop, RecvPing, RecvShutdown, RecvCommand, RecvClosed,
         InstallRefused, InstallHalfway, Install, SendReply
<1> QED
  BY <1>2, <1>3

\* What the window shows is no newer than what the hook recorded, and every
\* timeline has a number of its own, from 1.
LEMMA ShownIds ==
  ASSUME FeedInv, ShownInv, NEW e \in Pending \cup {app.timeline, app.playback}
  PROVE  /\ e.id \in Nat
         /\ e.kind = "Timeline" => e.id > 0 /\ e \in Pending \cup {app.timeline}
         /\ alive /\ IsLyric(e) => e.id <= timelineId
<1>0. KgTypeOK
  BY DEF FeedInv, KgTypeInv
<1>1. e.id \in Nat /\ timelineId \in Nat /\ app.timeline.id \in Nat
  BY <1>0, KgNaturals DEF HookEvent
<1>2. CASE e \in Pending
  <2>1. e.kind = "Timeline" => app.timeline.id < e.id
    BY <1>2 DEF FeedInv, FeedInOrder, IsLyric, Precedes
  <2>2. alive /\ IsLyric(e) => e.id <= timelineId
    BY <1>2 DEF FeedInv, FeedInOrder
  <2> QED
    BY <1>1, <1>2, <2>1, <2>2
<1>3. CASE e = app.timeline
  BY <1>1, <1>3, NoEventType DEF ShownInv, FeedInv, FeedInOrder, IsLyric
<1>4. CASE e = app.playback
  <2>1. CASE e = NoEvent
    BY <1>1, <2>1, NoEventType DEF IsLyric
  <2>2. CASE e # NoEvent
    <3>1. e.kind = "Playback" /\ e.id = app.timeline.id
      BY <1>4, <2>2 DEF ShownInv
    <3> QED
      BY <1>1, <3>1 DEF FeedInv, FeedInOrder
  <2> QED
    BY <2>1, <2>2
<1> QED
  BY <1>2, <1>3, <1>4

LEMMA SameSongInit == Init => SameSong
<1> SUFFICES ASSUME Init PROVE SameSong
  OBVIOUS
<1>1. Pending \cup {app.timeline, app.playback} = {NoEvent}
  BY ElemsEmpty DEF Init, HookInit, ConnectedOk, Launch, StartedApp, Pending, UnderWay
<1> QED
  BY <1>1 DEF SameSong, NoEvent, Control

LEMMA SameSongDll ==
  ASSUME ~AddressReuse, FeedInv, ShownInv, ReadInv, SameSong, Dll
  PROVE  SameSong'
<1> DEFINE Known == Pending \cup {app.timeline, app.playback}
<1>0. TypeOK /\ LockInv /\ ~IsLyric(reply) /\ HookStep /\ UNCHANGED <<app, inbox>> /\ timelineId \in Nat
  BY DEF FeedInv, KgTypeInv, KgTypeOK, TypeOK, CaptureOK, OrderInv, Dll
<1>1. \A e \in Known :
        /\ e.id \in Nat
        /\ e.kind = "Timeline" => e.id > 0 /\ e \in Pending \cup {app.timeline}
        /\ alive /\ IsLyric(e) => e.id <= timelineId
  BY ShownIds
<1>2. ASSUME NEW t \in Threads, Announces(t) PROVE SameSong'
  <2> DEFINE new == Timeline(loc[t].id, mem[loc[t].region])
  <2>1. Known' \subseteq Known \cup {new}
    <3>1. UnderWay' \subseteq UnderWay \cup {new}
      BY <1>0, <1>2, AnnouncesEvent, EnqueueUnderWay
    <3> QED
      BY <1>0, <3>1 DEF Pending
  <2>2. new.kind = "Timeline" /\ new.id > timelineId /\ new.id \in Nat /\ timelineId' = new.id /\ alive
    BY <1>0, <1>2, AnnouncesEvent DEF Timeline, HookEvent
  <2>3. new.song = mem'[identity'[2]]
    BY <1>2 DEF Announces, Extract, wesingVars, Timeline
  <2> HIDE DEF new
  <2>4. \A e \in Known : IsLyric(e) => e.id <= timelineId /\ e.id # new.id
    BY <1>0, <1>1, <2>2
  <2>5. ASSUME NEW e \in Known', e.kind = "Timeline", e.id = timelineId' PROVE e.song = mem'[identity'[2]]
    BY <2>1, <2>2, <2>3, <2>4, <2>5 DEF IsLyric
  <2>6. ASSUME NEW e \in Known', NEW f \in Known', e.kind = "Timeline", f.kind = "Playback", e.id = f.id
        PROVE  f.song \in {e.song, NoSong}
    <3>1. f \in Known
      BY <2>1, <2>2, <2>6
    <3>2. e \in Known
      BY <2>1, <2>4, <2>6, <3>1 DEF IsLyric
    <3> QED
      BY <2>6, <3>1, <3>2 DEF SameSong
  <2> QED
    BY <2>5, <2>6 DEF SameSong
<1>3. ASSUME NEW t \in Threads, Follows(t) PROVE SameSong'
  <2> DEFINE new == Playback(timelineId, loc[t].song)
  <2>1. Known' \subseteq Known \cup {new} /\ (Pending \cup {app.timeline})' \subseteq Pending \cup {app.timeline, new}
    <3>1. UnderWay' \subseteq UnderWay \cup {new}
      BY <1>0, <1>3, FollowsEvent, EnqueueUnderWay
    <3> QED
      BY <1>0, <3>1 DEF Pending
  <2>2. new.kind = "Playback" /\ new.id = timelineId /\ timelineId' = timelineId /\ alive
    BY <1>0, <1>3, FollowsEvent DEF Playback
  <2>3. new.song \in {NoSong, mem[identity[2]]}
    BY <1>3, <2>2 DEF Follows, Play, ReadInv, Playback
  <2>4. UNCHANGED <<mem, identity>>
    BY <1>3 DEF Follows, Play, wesingVars
  <2> HIDE DEF new
  <2>5. \A e \in Pending \cup {app.timeline} :
          e.kind = "Timeline" /\ e.id = timelineId => e.song = mem[identity[2]]
    BY <2>2 DEF SameSong
  <2>6. ASSUME NEW e \in Known', NEW f \in Known', e.kind = "Timeline", f.kind = "Playback", e.id = f.id
        PROVE  f.song \in {e.song, NoSong}
    <3>1. e \in Known /\ e \in Pending \cup {app.timeline}
      BY <1>1, <2>1, <2>2, <2>6
    <3>2. CASE f \in Known
      BY <2>6, <3>1, <3>2 DEF SameSong
    <3>3. CASE f = new
      BY <2>2, <2>3, <2>5, <2>6, <3>1, <3>3
    <3> QED
      BY <2>1, <3>2, <3>3
  <2> QED
    BY <2>1, <2>2, <2>4, <2>5, <2>6 DEF SameSong
<1>4. CASE \A t \in Threads : ~Announces(t) /\ ~Follows(t)
  <2>1. /\ Known' \subseteq Known \cup {NoEvent, reply}
        /\ (Pending \cup {app.timeline})' \subseteq Pending \cup {app.timeline, NoEvent, reply}
    <3>1. UnderWay' \subseteq UnderWay \cup {NoEvent, reply}
      BY <1>0, <1>4, HookUnderWay
    <3> QED
      BY <1>0, <3>1 DEF Pending
  <2>2. ~alive' \/ UNCHANGED <<alive, timelineId>>
    BY <1>0, <1>4, HookFlow
  <2>3. ASSUME alive', NEW e \in Pending \cup {app.timeline}, e.kind = "Timeline", e.id = timelineId
        PROVE  e.song = mem'[identity'[2]]
    <3>1. alive /\ timelineId # 0
      <4>1. e \in Known
        BY <2>3
      <4> HIDE DEF Known
      <4>2. e.id > 0 /\ e.id \in Nat
        BY <1>1, <2>3, <4>1
      <4>3. timelineId # 0
        BY <2>3, <4>2
      <4> QED
        BY <2>2, <2>3, <4>3
    <3> QED
      BY <1>0, <1>4, <2>3, <3>1, RecordedStays DEF SameSong
  <2> QED
    BY <1>0, <2>1, <2>2, <2>3, NoEventType DEF SameSong, IsLyric
<1> QED
  BY <1>2, <1>3, <1>4

LEMMA SameSongHost ==
  ASSUME FeedInv, ShownInv, SameSong, Host
  PROVE  SameSong'
<1>0. KgTypeInv /\ KgTypeOK /\ TypeOK /\ Proper
  BY DEF FeedInv, KgTypeInv, KgTypeOK
<1>1. UNCHANGED <<alive, timelineId, mem, identity>>
  BY DEF Host, StreamRecv, StreamEnd, HandleMessage, UserDisconnects, UserClosesWindow, HostCrashes,
         Exit, hookOnly, hookVars, wesingVars, captureVars
<1>2. Pending' \subseteq Pending \cup {StreamErr}
  BY <1>0, RecvMoves, HandleTakes, OtherHostPending DEF Host
<1>3. /\ app'.timeline \in Pending \cup {app.timeline, NoEvent}
      /\ app'.playback \in Pending \cup {app.playback, NoEvent}
  BY <1>0, DisplaySteps, HandleTakes DEF Next
<1>4. ~IsLyric(StreamErr) /\ ~IsLyric(NoEvent)
  BY <1>0, KgNaturals, NoEventType
<1> QED
  BY <1>1, <1>2, <1>3, <1>4 DEF SameSong, IsLyric

\* Unless WeSing reuses the address of a model it has freed, the position on
\* display was read in the song on display, however many render threads race,
\* whatever is dropped and however late it arrives.
THEOREM PlaybackBelongs ==
  ASSUME ~AddressReuse
  PROVE  Safety => []PlaybackOfShownSong
<1> DEFINE Inv == ShownInv /\ ReadInv /\ SameSong
<1>1. Init => Inv
  BY ShownInit, ReadInit, SameSongInit
<1>2. FeedInv /\ Inv /\ [Next]_vars => Inv'
  <2> SUFFICES ASSUME FeedInv, Inv, [Next]_vars PROVE ReadInv' /\ SameSong'
    BY ShownStep
  <2>1. ReadInv'
    BY KgIsDll, ReadStep DEF FeedInv, KgTypeInv, KgTypeOK, OrderInv
  <2>2. CASE UNCHANGED vars
    <3>1. UNCHANGED <<events, worker, queue, inbox, app, alive, timelineId, mem, identity>>
      BY <2>2 DEF vars, hookVars, channelVars, queueVars, workerVars, wesingVars, captureVars
    <3> QED
      BY <2>1, <3>1 DEF SameSong, Pending, UnderWay
  <2> QED
    BY <2>1, <2>2, SameSongDll, SameSongHost, KgSteps
<1>3. Inv => PlaybackOfShownSong
  <2> SUFFICES ASSUME Inv, app.playback # NoEvent PROVE PlaybackOfShownSong
    BY DEF PlaybackOfShownSong
  <2>1. /\ app.playback.kind = "Playback" /\ app.timeline.kind = "Timeline"
        /\ app.playback.id = app.timeline.id
    BY DEF ShownInv
  <2>2. app.playback.song \in {app.timeline.song, NoSong}
    BY <2>1 DEF SameSong
  <2> QED
    BY <2>1, <2>2 DEF PlaybackOfShownSong
<1> QED
  BY <1>1, <1>2, <1>3, FeedInductive, PTL DEF Safety

------------------------------------------------------------------------------
(* The session implements LyricFeed: what of the events under way are lyrics. *)

Messages == HookEvent \cup {StreamErr}

Lyrics(s) == Filter(s, LyricEvents)

\* \o, whose terms the provers are not to rewrite.
a ++ b == a \o b

LEMMA WhatIsLyric ==
  /\ \A e \in Messages : e \in LyricEvents <=> IsLyric(e)
  /\ ~IsLyric(StreamErr) /\ ~IsLyric(NoEvent) /\ NoEvent \in Messages
BY NoEventType DEF Messages, StreamErr, Control, LyricEvents, HookEvent, IsLyric

LEMMA LyricsOfOne ==
  ASSUME NEW e \in Messages
  PROVE  Lyrics(<<e>>) = IF IsLyric(e) THEN <<e>> ELSE <<>>
BY WhatIsLyric, FilterOne DEF Lyrics

LEMMA LyricsType ==
  /\ Lyrics(<<>>) = <<>>
  /\ \A s \in Seq(Messages) : Lyrics(s) \in Seq(LyricEvents)
<1>1. ASSUME NEW s \in Seq(Messages) PROVE Lyrics(s) \in Seq(LyricEvents)
  <2>1. Lyrics(s) \in Seq(Messages \cap LyricEvents)
    BY FilterType DEF Lyrics
  <2> QED
    BY <2>1
<1> QED
  BY <1>1, FilterEmpty DEF Lyrics

LEMMA LyricsConcat ==
  ASSUME NEW s \in Seq(Messages), NEW t \in Seq(Messages)
  PROVE  Lyrics(s \o t) = Lyrics(s) ++ Lyrics(t)
BY FilterConcat DEF Lyrics, ++

LEMMA LyricsAppend ==
  ASSUME NEW s \in Seq(Messages), NEW e \in Messages
  PROVE  Lyrics(Append(s, e)) = Lyrics(s) ++ Lyrics(<<e>>)
<1>1. Append(s, e) = s \o <<e>> /\ <<e>> \in Seq(Messages)
  OBVIOUS
<1> QED
  BY <1>1, LyricsConcat

LEMMA LyricsHead ==
  ASSUME NEW s \in Seq(Messages), s # <<>>
  PROVE  Lyrics(s) = Lyrics(<<Head(s)>>) ++ Lyrics(Tail(s))
<1>1. /\ s = <<Head(s)>> \o Tail(s)
      /\ <<Head(s)>> \in Seq(Messages) /\ Tail(s) \in Seq(Messages)
  OBVIOUS
<1> QED
  BY <1>1, LyricsConcat

LEMMA Catenation ==
  ASSUME NEW T, NEW a \in Seq(T), NEW b \in Seq(T)
  PROVE  a ++ b \in Seq(T) /\ a ++ <<>> = a /\ <<>> ++ a = a
BY DEF ++

LEMMA Associative ==
  ASSUME NEW T, NEW a \in Seq(T), NEW b \in Seq(T), NEW c \in Seq(T)
  PROVE  (a ++ b) ++ c = a ++ (b ++ c)
BY SMTT(30) DEF ++

LEMMA Regroup ==
  ASSUME NEW T, NEW a \in Seq(T), NEW b \in Seq(T), NEW c \in Seq(T), NEW d \in Seq(T), NEW e \in Seq(T)
  PROVE  /\ (a ++ b) ++ (c ++ (d ++ e)) = a ++ (b ++ (c ++ (d ++ e)))
         /\ (a ++ b) ++ (c ++ (d ++ e)) = a ++ ((b ++ c) ++ (d ++ e))
         /\ a ++ (b ++ (c ++ (d ++ e))) = (a ++ (b ++ (c ++ d))) ++ e
         /\ a ++ (b ++ (c ++ d)) = (a ++ b) ++ (c ++ d)
<1>1. d ++ e \in Seq(T) /\ c ++ d \in Seq(T) /\ b ++ c \in Seq(T)
  BY Catenation
<1>2. c ++ (d ++ e) \in Seq(T) /\ b ++ (c ++ d) \in Seq(T)
  BY <1>1, Catenation
<1>3. (a ++ b) ++ (c ++ (d ++ e)) = a ++ (b ++ (c ++ (d ++ e)))
  BY <1>2, Associative
<1>4. b ++ (c ++ (d ++ e)) = (b ++ c) ++ (d ++ e)
  BY <1>1, Associative
<1>5. c ++ (d ++ e) = (c ++ d) ++ e
  BY Associative
<1>6. b ++ ((c ++ d) ++ e) = (b ++ (c ++ d)) ++ e
  BY <1>1, Associative
<1>7. a ++ ((b ++ (c ++ d)) ++ e) = (a ++ (b ++ (c ++ d))) ++ e
  BY <1>2, Associative
<1>8. a ++ (b ++ (c ++ d)) = (a ++ b) ++ (c ++ d)
  BY <1>1, Associative
<1>9. (a ++ b) ++ (c ++ (d ++ e)) = a ++ ((b ++ c) ++ (d ++ e))
  BY <1>3, <1>4, Zenon
<1>10. a ++ (b ++ (c ++ (d ++ e))) = (a ++ (b ++ (c ++ d))) ++ e
  BY <1>5, <1>6, <1>7, Zenon
<1> QED
  BY <1>3, <1>8, <1>9, <1>10, Zenon

\* All that an inbox a, a pipe b, a worker w and a queue q hold, and its lyrics.
Joined(a, b, w, q) == a \o (b \o <<w>> \o q)

LyricsOfAll(a, b, w, q) == Lyrics(a) ++ (Lyrics(b) ++ (Lyrics(<<w>>) ++ Lyrics(q)))

LEMMA LyricsJoined ==
  ASSUME NEW a \in Seq(Messages), NEW b \in Seq(Messages), NEW w \in Messages, NEW q \in Seq(Messages)
  PROVE  Lyrics(Joined(a, b, w, q)) = LyricsOfAll(a, b, w, q)
<1>1. /\ <<w>> \in Seq(Messages) /\ b \o <<w>> \in Seq(Messages)
      /\ b \o <<w>> \o q \in Seq(Messages)
  OBVIOUS
<1>2. Lyrics(b \o <<w>>) = Lyrics(b) ++ Lyrics(<<w>>)
  BY <1>1, LyricsConcat
<1>3. Lyrics(b \o <<w>> \o q) = Lyrics(b \o <<w>>) ++ Lyrics(q)
  BY <1>1, LyricsConcat
<1>4. Lyrics(a \o (b \o <<w>> \o q)) = Lyrics(a) ++ Lyrics(b \o <<w>> \o q)
  BY <1>1, LyricsConcat
<1>5. (Lyrics(b) ++ Lyrics(<<w>>)) ++ Lyrics(q) = Lyrics(b) ++ (Lyrics(<<w>>) ++ Lyrics(q))
  <2>1. Lyrics(b) \in Seq(LyricEvents) /\ Lyrics(<<w>>) \in Seq(LyricEvents) /\ Lyrics(q) \in Seq(LyricEvents)
    BY <1>1, LyricsType
  <2> QED
    BY <2>1, Associative
<1> QED
  BY <1>2, <1>3, <1>4, <1>5, Zenon DEF Joined, LyricsOfAll

LEMMA PartsTyped ==
  ASSUME KgTypeOK
  PROVE  /\ inbox \in Seq(Messages) /\ events \in Seq(Messages)
         /\ worker \in Messages /\ queue \in Seq(Messages) /\ reply \in Messages
BY DEF KgTypeOK, TypeOK, QueueOK, ChannelOK, WorkerOK, LoopOK, Messages

LEMMA CarriedNow ==
  ASSUME KgTypeOK
  PROVE  Carried = IF evtOpen THEN LyricsOfAll(inbox, events, worker, queue) ELSE <<>>
<1>1. Lyrics(Joined(inbox, events, worker, queue)) = LyricsOfAll(inbox, events, worker, queue)
  BY PartsTyped, LyricsJoined
<1> QED
  BY <1>1 DEF Carried, Lyrics, Joined, Pipeline

LEMMA CarriedNext ==
  ASSUME KgTypeOK'
  PROVE  Carried' = IF evtOpen' THEN LyricsOfAll(inbox', events', worker', queue') ELSE <<>>
<1>1. /\ inbox' \in Seq(Messages) /\ events' \in Seq(Messages)
      /\ worker' \in Messages /\ queue' \in Seq(Messages)
  BY DEF KgTypeOK, TypeOK, QueueOK, ChannelOK, WorkerOK, LoopOK, Messages
<1>2. Lyrics(Joined(inbox', events', worker', queue')) = LyricsOfAll(inbox', events', worker', queue')
  BY <1>1, LyricsJoined
<1> QED
  BY <1>2 DEF Carried, Lyrics, Joined, Pipeline

\* What moves on within the session is still the same feed.
LEMMA MovesKeepFeed ==
  ASSUME NEW a \in Seq(Messages), NEW b \in Seq(Messages), NEW w \in Messages, NEW q \in Seq(Messages)
  PROVE  /\ q # <<>> => LyricsOfAll(a, b, Head(q), Tail(q)) = LyricsOfAll(a, b, NoEvent, q)
         /\ LyricsOfAll(a, Append(b, w), NoEvent, q) = LyricsOfAll(a, b, w, q)
         /\ b # <<>> => LyricsOfAll(Append(a, Head(b)), Tail(b), w, q) = LyricsOfAll(a, b, w, q)
<1>1. /\ <<w>> \in Seq(Messages)
      /\ b # <<>> => Head(b) \in Messages /\ <<Head(b)>> \in Seq(Messages) /\ Tail(b) \in Seq(Messages)
  OBVIOUS
<1>2. /\ Lyrics(a) \in Seq(LyricEvents) /\ Lyrics(b) \in Seq(LyricEvents)
      /\ Lyrics(<<w>>) \in Seq(LyricEvents) /\ Lyrics(q) \in Seq(LyricEvents)
  BY <1>1, LyricsType
<1>3. Lyrics(<<NoEvent>>) = <<>> /\ <<>> ++ Lyrics(q) = Lyrics(q)
  BY <1>2, WhatIsLyric, LyricsOfOne, Catenation
<1>4. ASSUME q # <<>>
      PROVE  LyricsOfAll(a, b, Head(q), Tail(q)) = LyricsOfAll(a, b, NoEvent, q)
  <2>1. Lyrics(q) = Lyrics(<<Head(q)>>) ++ Lyrics(Tail(q))
    BY <1>4, LyricsHead
  <2> QED
    BY <1>3, <2>1, Zenon DEF LyricsOfAll
<1>5. LyricsOfAll(a, Append(b, w), NoEvent, q) = LyricsOfAll(a, b, w, q)
  <2>1. Lyrics(Append(b, w)) = Lyrics(b) ++ Lyrics(<<w>>)
    BY LyricsAppend
  <2>2. (Lyrics(b) ++ Lyrics(<<w>>)) ++ Lyrics(q) = Lyrics(b) ++ (Lyrics(<<w>>) ++ Lyrics(q))
    BY <1>2, Associative
  <2> QED
    BY <1>3, <2>1, <2>2, Zenon DEF LyricsOfAll
<1>6. ASSUME b # <<>>
      PROVE  LyricsOfAll(Append(a, Head(b)), Tail(b), w, q) = LyricsOfAll(a, b, w, q)
  <2>1. Lyrics(<<Head(b)>>) \in Seq(LyricEvents) /\ Lyrics(Tail(b)) \in Seq(LyricEvents)
    BY <1>1, <1>6, LyricsType
  <2>2. /\ Lyrics(b) = Lyrics(<<Head(b)>>) ++ Lyrics(Tail(b))
        /\ Lyrics(Append(a, Head(b))) = Lyrics(a) ++ Lyrics(<<Head(b)>>)
    BY <1>1, <1>6, LyricsHead, LyricsAppend
  <2>3. (Lyrics(a) ++ Lyrics(<<Head(b)>>)) ++ (Lyrics(Tail(b)) ++ (Lyrics(<<w>>) ++ Lyrics(q)))
          = Lyrics(a) ++ ((Lyrics(<<Head(b)>>) ++ Lyrics(Tail(b))) ++ (Lyrics(<<w>>) ++ Lyrics(q)))
    BY <1>2, <2>1, Regroup
  <2> QED
    BY <2>2, <2>3, Zenon DEF LyricsOfAll
<1> QED
  BY <1>4, <1>5, <1>6

\* What is no lyric does not show in the feed, wherever it comes in.
LEMMA OthersKeepFeed ==
  ASSUME NEW a \in Seq(Messages), NEW b \in Seq(Messages), NEW w, NEW q,
         NEW r \in Messages, ~IsLyric(r)
  PROVE  /\ LyricsOfAll(Append(a, r), b, w, q) = LyricsOfAll(a, b, w, q)
         /\ LyricsOfAll(a, Append(b, r), w, q) = LyricsOfAll(a, b, w, q)
<1>1. \A s \in Seq(Messages) : Lyrics(Append(s, r)) = Lyrics(s)
  <2> TAKE s \in Seq(Messages)
  <2>1. Lyrics(Append(s, r)) = Lyrics(s) ++ <<>>
    BY LyricsAppend, LyricsOfOne
  <2>2. Lyrics(s) \in Seq(LyricEvents)
    BY LyricsType
  <2> QED
    BY <2>1, <2>2, Catenation
<1> QED
  BY <1>1 DEF LyricsOfAll

\* The feed grows at the end of the queue, shrinks at the head of the inbox, and
\* loses its end with the worker and the queue.
LEMMA FeedParts ==
  ASSUME NEW a \in Seq(Messages), NEW b \in Seq(Messages), NEW w \in Messages, NEW q \in Seq(Messages)
  PROVE  /\ Lyrics(a) \in Seq(LyricEvents) /\ Lyrics(b) \in Seq(LyricEvents)
         /\ Lyrics(<<w>>) \in Seq(LyricEvents) /\ Lyrics(q) \in Seq(LyricEvents)
         /\ LyricsOfAll(a, b, w, q) \in Seq(LyricEvents)
<1>1. <<w>> \in Seq(Messages)
  OBVIOUS
<1>2. /\ Lyrics(a) \in Seq(LyricEvents) /\ Lyrics(b) \in Seq(LyricEvents)
      /\ Lyrics(<<w>>) \in Seq(LyricEvents) /\ Lyrics(q) \in Seq(LyricEvents)
  BY <1>1, LyricsType
<1>3. Lyrics(<<w>>) ++ Lyrics(q) \in Seq(LyricEvents)
  BY <1>2, Catenation
<1>4. Lyrics(b) ++ (Lyrics(<<w>>) ++ Lyrics(q)) \in Seq(LyricEvents)
  BY <1>2, <1>3, Catenation
<1> QED
  BY <1>2, <1>4, Catenation DEF LyricsOfAll

Extends(q, e, r) == r = Append(q, e)

LEMMA FeedGrows ==
  ASSUME NEW a \in Seq(Messages), NEW b \in Seq(Messages), NEW w \in Messages, NEW q \in Seq(Messages),
         NEW e \in Messages, NEW r, Extends(q, e, r)
  PROVE  LyricsOfAll(a, b, w, r) = LyricsOfAll(a, b, w, q) ++ Lyrics(<<e>>)
<1>0. /\ Lyrics(a) \in Seq(LyricEvents) /\ Lyrics(b) \in Seq(LyricEvents)
      /\ Lyrics(<<w>>) \in Seq(LyricEvents) /\ Lyrics(q) \in Seq(LyricEvents)
  BY FeedParts
<1>1. <<e>> \in Seq(Messages)
  OBVIOUS
<1>2. Lyrics(<<e>>) \in Seq(LyricEvents)
  BY <1>1, LyricsType
<1>3. Lyrics(r) = Lyrics(q) ++ Lyrics(<<e>>)
  BY LyricsAppend DEF Extends
<1>4. Lyrics(a) ++ (Lyrics(b) ++ (Lyrics(<<w>>) ++ (Lyrics(q) ++ Lyrics(<<e>>))))
        = (Lyrics(a) ++ (Lyrics(b) ++ (Lyrics(<<w>>) ++ Lyrics(q)))) ++ Lyrics(<<e>>)
  BY <1>0, <1>2, Regroup
<1> QED
  BY <1>3, <1>4, Zenon DEF LyricsOfAll

LEMMA FeedShrinks ==
  ASSUME NEW a \in Seq(Messages), NEW b \in Seq(Messages), NEW w \in Messages, NEW q \in Seq(Messages),
         a # <<>>
  PROVE  LyricsOfAll(a, b, w, q) = Lyrics(<<Head(a)>>) ++ LyricsOfAll(Tail(a), b, w, q)
<1>0. /\ Lyrics(a) \in Seq(LyricEvents) /\ Lyrics(b) \in Seq(LyricEvents)
      /\ Lyrics(<<w>>) \in Seq(LyricEvents) /\ Lyrics(q) \in Seq(LyricEvents)
  BY FeedParts
<1>1. Tail(a) \in Seq(Messages) /\ <<Head(a)>> \in Seq(Messages)
  OBVIOUS
<1>2. Lyrics(a) = Lyrics(<<Head(a)>>) ++ Lyrics(Tail(a))
  BY LyricsHead
<1>3. Lyrics(<<Head(a)>>) \in Seq(LyricEvents) /\ Lyrics(Tail(a)) \in Seq(LyricEvents)
  BY <1>1, LyricsType
<1>4. (Lyrics(<<Head(a)>>) ++ Lyrics(Tail(a))) ++ (Lyrics(b) ++ (Lyrics(<<w>>) ++ Lyrics(q)))
        = Lyrics(<<Head(a)>>) ++ (Lyrics(Tail(a)) ++ (Lyrics(b) ++ (Lyrics(<<w>>) ++ Lyrics(q))))
  BY <1>0, <1>3, Regroup
<1> QED
  BY <1>2, <1>4, Zenon DEF LyricsOfAll

LEMMA FeedLosesEnd ==
  ASSUME NEW a \in Seq(Messages), NEW b \in Seq(Messages), NEW w \in Messages, NEW q \in Seq(Messages),
         NEW s, s = <<>>
  PROVE  /\ LyricsOfAll(a, b, NoEvent, s) \in Seq(LyricEvents)
         /\ \E lost \in Seq(LyricEvents) :
              LyricsOfAll(a, b, w, q) = LyricsOfAll(a, b, NoEvent, s) ++ lost
<1>1. /\ Lyrics(a) \in Seq(LyricEvents) /\ Lyrics(b) \in Seq(LyricEvents)
      /\ Lyrics(<<w>>) \in Seq(LyricEvents) /\ Lyrics(q) \in Seq(LyricEvents)
  BY FeedParts
<1>2. Lyrics(<<NoEvent>>) = <<>> /\ Lyrics(s) = <<>> /\ <<>> \in Seq(LyricEvents)
  BY WhatIsLyric, LyricsOfOne, LyricsType
<1>3. <<>> ++ <<>> = <<>> /\ Lyrics(b) ++ <<>> = Lyrics(b)
  BY <1>1, <1>2, Catenation
<1>4. LyricsOfAll(a, b, NoEvent, s) = Lyrics(a) ++ Lyrics(b)
  BY <1>2, <1>3, Zenon DEF LyricsOfAll
<1>5. Lyrics(a) ++ (Lyrics(b) ++ (Lyrics(<<w>>) ++ Lyrics(q)))
        = (Lyrics(a) ++ Lyrics(b)) ++ (Lyrics(<<w>>) ++ Lyrics(q))
  BY <1>1, Regroup
<1>6. LyricsOfAll(a, b, w, q) = LyricsOfAll(a, b, NoEvent, s) ++ (Lyrics(<<w>>) ++ Lyrics(q))
  BY <1>4, <1>5, Zenon DEF LyricsOfAll
<1>7. Lyrics(<<w>>) ++ Lyrics(q) \in Seq(LyricEvents) /\ Lyrics(a) ++ Lyrics(b) \in Seq(LyricEvents)
  BY <1>1, Catenation
<1> QED
  BY <1>4, <1>6, <1>7, Zenon

LEMMA AppendsOne ==
  ASSUME NEW T, NEW s \in Seq(T), NEW e \in T
  PROVE  /\ s ++ <<e>> = Append(s, e)
         /\ <<e>> ++ s # <<>> /\ Head(<<e>> ++ s) = e /\ Tail(<<e>> ++ s) = s
BY DEF ++

LEMMA IsItsPrefix ==
  ASSUME NEW T, NEW s \in Seq(T), NEW t \in Seq(T)
  PROVE  Feed!IsPrefix(s, s ++ t)
BY DEF ++, Feed!IsPrefix

\* The abstract step for an event that a render thread queues, room or not.
LEMMA QueueingOffers ==
  ASSUME KgTypeOK, KgTypeOK', NEW e \in HookEvent, IsLyric(e), Enqueue(e),
         UNCHANGED <<events, worker, inbox, evtOpen>>
  PROVE  Carried' \in {Carried, Append(Carried, e)} /\ (~evtOpen => Carried' = Carried)
<1>1. CASE ~evtOpen
  BY <1>1, CarriedNow, CarriedNext
<1>2. CASE UNCHANGED queue
  BY <1>2, CarriedNow, CarriedNext
<1>3. CASE evtOpen /\ queue' = Append(queue, e)
  <2> DEFINE all == LyricsOfAll(inbox, events, worker, queue)
  <2>1. e \in Messages /\ e \in LyricEvents /\ Lyrics(<<e>>) = <<e>>
    BY WhatIsLyric, LyricsOfOne DEF Messages
  <2>2. all \in Seq(LyricEvents)
    BY PartsTyped, FeedParts
  <2>3. LyricsOfAll(inbox, events, worker, queue') = all ++ Lyrics(<<e>>)
    <3>1. /\ inbox \in Seq(Messages) /\ events \in Seq(Messages)
          /\ worker \in Messages /\ queue \in Seq(Messages)
      BY PartsTyped
    <3>2. Extends(queue, e, queue')
      BY <1>3 DEF Extends
    <3> QED
      BY <2>1, <3>1, <3>2, FeedGrows
  <2>4. Carried = all /\ Carried' = LyricsOfAll(inbox, events, worker, queue')
    BY <1>3, CarriedNow, CarriedNext
  <2> HIDE DEF all
  <2>5. all ++ <<e>> = Append(all, e)
    BY <2>1, <2>2, AppendsOne
  <2> QED
    BY <1>3, <2>1, <2>3, <2>4, <2>5, Zenon
<1> QED
  BY <1>1, <1>2, <1>3 DEF Enqueue

\* What only moves on inside the DLL, or is no lyric, is a stutter of the feed.
LEMMA KeepsCarried ==
  ASSUME KgTypeOK, KgTypeOK', ~IsLyric(reply), Keeps, UNCHANGED <<inbox, evtOpen>>
  PROVE  Carried' = Carried
<1>1. CASE UNCHANGED <<events, worker, queue>>
  BY <1>1, CarriedNow, CarriedNext
<1>2. CASE Takes
  <2>1. LyricsOfAll(inbox, events, Head(queue), Tail(queue)) = LyricsOfAll(inbox, events, worker, queue)
    BY <1>2, PartsTyped, MovesKeepFeed DEF Takes
  <2> QED
    BY <1>2, <2>1, CarriedNow, CarriedNext DEF Takes
<1>3. CASE Sends
  <2>1. LyricsOfAll(inbox, Append(events, worker), NoEvent, queue)
          = LyricsOfAll(inbox, events, worker, queue)
    BY PartsTyped, MovesKeepFeed
  <2> QED
    BY <1>3, <2>1, CarriedNow, CarriedNext DEF Sends
<1>4. CASE Replies
  <2>1. LyricsOfAll(inbox, Append(events, reply), worker, queue)
          = LyricsOfAll(inbox, events, worker, queue)
    BY PartsTyped, OthersKeepFeed
  <2> QED
    BY <1>4, <2>1, CarriedNow, CarriedNext DEF Replies
<1> QED
  BY <1>1, <1>2, <1>3, <1>4 DEF Keeps

LEMMA DropsCarried ==
  ASSUME KgTypeOK, KgTypeOK', Drops, UNCHANGED <<inbox, evtOpen>>
  PROVE  Feed!IsPrefix(Carried', Carried) /\ (~evtOpen => Carried' = Carried)
<1>1. CASE ~evtOpen
  <2>1. Carried = <<>> /\ Carried' = <<>>
    BY <1>1, CarriedNow, CarriedNext
  <2> QED
    BY <2>1 DEF Feed!IsPrefix
<1>2. CASE evtOpen
  <2> DEFINE rest == LyricsOfAll(inbox, events, NoEvent, queue')
  <2>1. queue' = <<>>
    BY DEF Drops
  <2>2. rest \in Seq(LyricEvents)
    BY <2>1, PartsTyped, FeedLosesEnd
  <2>3. PICK lost \in Seq(LyricEvents) : LyricsOfAll(inbox, events, worker, queue) = rest ++ lost
    BY <2>1, PartsTyped, FeedLosesEnd
  <2>4. Carried = rest ++ lost /\ Carried' = rest
    BY <1>2, <2>3, CarriedNow, CarriedNext DEF Drops
  <2> HIDE DEF rest
  <2>5. Feed!IsPrefix(rest, rest ++ lost)
    BY <2>2, IsItsPrefix
  <2> QED
    BY <1>2, <2>4, <2>5
<1> QED
  BY <1>1, <1>2

\* A position on its way names a timeline, so none is taken for the empty
\* display's.
Named == \A e \in Pending : e.kind = "Playback" => e.id > 0

LEMMA NamedInit == Init => Named
BY ElemsEmpty DEF Init, HookInit, Named, Pending, UnderWay, NoEvent, Control

LEMMA NamedStep == FeedInv /\ Named /\ [Next]_vars => Named'
<1> SUFFICES ASSUME FeedInv, Named, [Next]_vars PROVE Named'
  OBVIOUS
<1>0. KgTypeInv /\ KgTypeOK /\ TypeOK /\ LockInv /\ ~IsLyric(reply)
  BY DEF FeedInv, KgTypeInv, KgTypeOK, OrderInv
<1>1. ~IsLyric(NoEvent) /\ ~IsLyric(StreamErr)
  BY <1>0, NoEventType, KgNaturals
<1>2. CASE Dll
  <2>1. UNCHANGED inbox /\ HookStep
    BY <1>2 DEF Dll
  <2>2. CASE \E t \in Threads : Announces(t)
    <3>1. PICK t \in Threads : Announces(t)
      BY <2>2
    <3> DEFINE new == Timeline(loc[t].id, mem[loc[t].region])
    <3>2. Pending' \subseteq Pending \cup {new}
      BY <1>0, <2>1, <3>1, AnnouncesEvent, EnqueueUnderWay DEF Pending
    <3>3. new.kind # "Playback"
      BY DEF Timeline
    <3> QED
      BY <3>2, <3>3 DEF Named
  <2>3. CASE \E t \in Threads : Follows(t)
    <3>1. PICK t \in Threads : Follows(t)
      BY <2>3
    <3> DEFINE new == Playback(timelineId, loc[t].song)
    <3>2. Pending' \subseteq Pending \cup {new}
      BY <1>0, <2>1, <3>1, FollowsEvent, EnqueueUnderWay DEF Pending
    <3>3. new.id > 0
      BY <1>0, <3>1, KgNaturals DEF Follows, Playback
    <3> QED
      BY <3>2, <3>3 DEF Named
  <2>4. CASE \A t \in Threads : ~Announces(t) /\ ~Follows(t)
    <3>1. Pending' \subseteq Pending \cup {NoEvent, reply}
      BY <1>0, <2>1, <2>4, HookUnderWay DEF Pending
    <3> QED
      BY <1>0, <1>1, <3>1 DEF Named, IsLyric
  <2> QED
    BY <2>2, <2>3, <2>4
<1>3. CASE Host
  <2>1. Pending' \subseteq Pending \cup {StreamErr}
    BY <1>0, <1>3, RecvMoves, HandleTakes, OtherHostPending DEF Host
  <2> QED
    BY <1>1, <2>1 DEF Named, IsLyric
<1>4. CASE UNCHANGED vars
  <2>1. UNCHANGED <<events, worker, queue, inbox>>
    BY <1>4 DEF vars, hookVars, channelVars, queueVars, workerVars
  <2> QED
    BY <2>1 DEF Named, Pending, UnderWay
<1> QED
  BY <1>2, <1>3, <1>4, KgSteps

LEMMA LyricFeedInit == Init => Feed!Init
<1> SUFFICES ASSUME Init PROVE Feed!Init
  OBVIOUS
<1>1. KgTypeOK /\ inbox = <<>> /\ events = <<>> /\ queue = <<>> /\ worker = NoEvent
  BY KgTypeInit DEF Init, HookInit
<1>2. Lyrics(<<NoEvent>>) = <<>> /\ Lyrics(<<>>) = <<>>
  BY WhatIsLyric, LyricsOfOne, LyricsType
<1>3. <<>> ++ <<>> = <<>>
  BY DEF ++
<1>4. Carried = <<>>
  BY <1>1, <1>2, <1>3, CarriedNow DEF LyricsOfAll
<1> QED
  BY <1>4 DEF Feed!Init, Init, HookInit, ConnectedOk, Launch, StartedApp, Feed!NoEvent, NoEvent,
              Feed!Control, Control

\* The steps of the DLL and of WeSing are the abstract ones that feed the feed,
\* or move nothing.
LEMMA LyricFeedDll ==
  ASSUME FeedInv, KgTypeOK', Dll
  PROVE  Feed!Record \/ Feed!Sing \/ Feed!Close \/ UNCHANGED Feed!feedVars
<1>0. KgTypeOK /\ TypeOK /\ LockInv /\ ~IsLyric(reply)
  BY DEF FeedInv, KgTypeInv, KgTypeOK, OrderInv
<1>1. UNCHANGED <<app, inbox>> /\ HookStep
  BY DEF Dll
<1>2. UNCHANGED evtOpen
  BY <1>1 DEF HookStep, WeSing, LoadDll, ShowModel, CloseWindow, WeSingExits, Render, InCallback, Enter,
              GiveUp, Snapshot, Extract, Play, Worker, WorkerTake, WorkerSend, WorkerBreak, CommandLoop,
              RecvStart, RecvStop, RecvPing, RecvShutdown, RecvClosed, RecvCommand, InstallRefused,
              InstallHalfway, Install, SendReply, channelVars
<1>3. ASSUME NEW t \in Threads, Announces(t)
      PROVE  Feed!Record
  <2> DEFINE id == loc[t].id
             song == mem[loc[t].region]
             new == Timeline(id, song)
  <2>1. /\ new \in HookEvent /\ timelineId < new.id /\ Enqueue(new)
        /\ timelineId' = new.id /\ UNCHANGED <<events, worker>> /\ alive /\ alive'
    BY <1>0, <1>3, AnnouncesEvent
  <2>2. IsLyric(new) /\ new.id = id /\ new.song = song
    BY DEF Timeline, IsLyric
  <2>3. song \in Songs
    BY <2>1, <2>2, <1>3 DEF Announces, HookEvent
  <2>4. Carried' \in {Carried, Append(Carried, new)}
    BY <1>0, <1>1, <1>2, <2>1, <2>2, QueueingOffers
  <2>5. new = Feed!Timeline(timelineId', song)
    BY <2>1, <2>2 DEF Timeline, Feed!Timeline
  <2>6. Carried' \in Feed!Offered(Carried, {Feed!Timeline(timelineId', s) : s \in Songs})
    BY <2>3, <2>4, <2>5 DEF Feed!Offered
  <2> QED
    BY <1>1, <2>1, <2>2, <2>6 DEF Feed!Record
<1>4. ASSUME NEW t \in Threads, Follows(t)
      PROVE  Feed!Sing
  <2> DEFINE song == loc[t].song
             new == Playback(timelineId, song)
  <2>1. /\ new \in HookEvent /\ Enqueue(new)
        /\ UNCHANGED <<timelineId, events, worker>> /\ alive /\ alive'
    BY <1>0, <1>4, FollowsEvent
  <2>2. IsLyric(new) /\ new.song = song
    BY DEF Playback, IsLyric
  <2>3. song \in Songs \cup {NoSong} /\ timelineId # 0
    BY <2>1, <2>2, <1>4 DEF Follows, HookEvent
  <2>4. Carried' \in {Carried, Append(Carried, new)}
    BY <1>0, <1>1, <1>2, <2>1, <2>2, QueueingOffers
  <2>5. new = Feed!Playback(timelineId, song)
    BY DEF Playback, Feed!Playback
  <2>6. Carried' \in Feed!Offered(Carried, {Feed!Playback(timelineId, s) : s \in Songs \cup {NoSong}})
    BY <2>3, <2>4, <2>5 DEF Feed!Offered
  <2> QED
    BY <1>1, <2>1, <2>3, <2>6 DEF Feed!Sing
<1>5. CASE (Keeps \/ (Drops /\ ~evtOpen)) /\ UNCHANGED <<alive, timelineId>>
  <2>1. Carried' = Carried
    BY <1>0, <1>1, <1>2, <1>5, KeepsCarried, DropsCarried
  <2> QED
    BY <1>1, <1>5, <2>1 DEF Feed!feedVars
<1>6. CASE WeSingExits /\ Drops
  <2>1. Feed!IsPrefix(Carried', Carried)
    BY <1>0, <1>1, <1>2, <1>6, DropsCarried
  <2> QED
    BY <1>1, <1>6, <2>1 DEF Feed!Close, WeSingExits
<1> QED
  BY <1>1, <1>3, <1>4, <1>5, <1>6, HookFlow

\* The steps of the host take from the feed what they show, or all of it.
LEMMA LyricFeedHost ==
  ASSUME FeedInv, KgTypeOK', Named, Host
  PROVE  Feed!Show \/ Feed!Clear \/ UNCHANGED Feed!feedVars
<1>0. KgTypeOK /\ TypeOK /\ Proper
  BY DEF FeedInv, KgTypeInv, KgTypeOK
<1>1. UNCHANGED <<alive, timelineId, worker, queue>>
  BY DEF Host, StreamRecv, StreamEnd, HandleMessage, UserDisconnects, UserClosesWindow, HostCrashes,
         Exit, hookOnly, hookVars, wesingVars, captureVars, workerVars, queueVars
<1>2. CASE StreamRecv
  <2>1. LyricsOfAll(Append(inbox, Head(events)), Tail(events), worker, queue)
          = LyricsOfAll(inbox, events, worker, queue)
    BY <1>0, <1>2, PartsTyped, MovesKeepFeed DEF StreamRecv
  <2>2. Carried' = Carried
    BY <1>0, <1>1, <1>2, <2>1, CarriedNow, CarriedNext DEF StreamRecv, Deliver
  <2> QED
    BY <1>1, <1>2, <2>2 DEF StreamRecv, Feed!feedVars
<1>3. CASE StreamEnd
  <2>1. StreamErr \in Messages /\ ~IsLyric(StreamErr)
    BY WhatIsLyric DEF Messages
  <2>2. LyricsOfAll(Append(inbox, StreamErr), events, worker, queue)
          = LyricsOfAll(inbox, events, worker, queue)
    BY <1>0, <2>1, PartsTyped, OthersKeepFeed
  <2>3. Carried' = Carried
    BY <1>0, <1>1, <1>3, <2>2, CarriedNow, CarriedNext DEF StreamEnd, Deliver, hookVars, channelVars
  <2> QED
    BY <1>1, <1>3, <2>3 DEF StreamEnd, Feed!feedVars
<1>4. CASE HandleMessage
  <2> DEFINE e == Head(inbox)
  <2>1. evtOpen /\ evtOpen' /\ inbox # <<>> /\ inbox' = Tail(inbox) /\ UNCHANGED events
    BY <1>4 DEF HandleMessage
  <2>2. inbox \in Seq(Messages) /\ e \in Messages /\ e \in Elems(inbox)
    BY <1>0, <2>1, PartsTyped, ElemsHead
  <2>3. Carried = Lyrics(<<e>>) ++ Carried' /\ Carried' \in Seq(LyricEvents)
    <3>1. Tail(inbox) \in Seq(Messages)
      BY <2>1, <2>2
    <3>2. /\ LyricsOfAll(inbox, events, worker, queue)
               = Lyrics(<<e>>) ++ LyricsOfAll(inbox', events, worker, queue)
          /\ LyricsOfAll(inbox', events, worker, queue) \in Seq(LyricEvents)
      <4>1. /\ events \in Seq(Messages) /\ worker \in Messages /\ queue \in Seq(Messages)
            /\ inbox' \in Seq(Messages)
        BY <1>0, <2>1, <3>1, PartsTyped
      <4>2. LyricsOfAll(inbox, events, worker, queue)
              = Lyrics(<<e>>) ++ LyricsOfAll(Tail(inbox), events, worker, queue)
        BY <2>1, <2>2, <4>1, FeedShrinks, Zenon
      <4>3. LyricsOfAll(inbox', events, worker, queue) \in Seq(LyricEvents)
        BY <4>1, FeedParts
      <4> QED
        BY <2>1, <4>2, <4>3, Zenon
    <3> QED
      BY <1>0, <1>1, <2>1, <3>2, CarriedNow, CarriedNext
  <2>4. CASE ~IsLyric(e)
    <3>1. Carried' = Carried
      BY <2>2, <2>3, <2>4, LyricsOfOne, Catenation
    <3>2. app'.timeline = app.timeline /\ app'.playback = app.playback
      BY <1>0, <1>4, <2>4, HandleTimeline DEF IsLyric
    <3> QED
      BY <1>1, <3>1, <3>2 DEF Feed!feedVars
  <2>5. CASE IsLyric(e)
    <3>1. Carried # <<>> /\ Head(Carried) = e /\ Tail(Carried) = Carried'
      <4>1. e \in LyricEvents /\ Lyrics(<<e>>) = <<e>>
        BY <2>2, <2>5, LyricsOfOne, WhatIsLyric
      <4>2. Carried = <<e>> ++ Carried'
        BY <2>3, <4>1, Zenon
      <4> HIDE DEF e
      <4>3. /\ <<e>> ++ Carried' # <<>>
            /\ Head(<<e>> ++ Carried') = e /\ Tail(<<e>> ++ Carried') = Carried'
        BY <2>3, <4>1, AppendsOne
      <4> QED
        BY <4>2, <4>3, Zenon
    <3>2. CASE e.kind = "Timeline"
      BY <1>0, <1>1, <1>4, <3>1, <3>2, HandleTimeline DEF Feed!Show, Feed!NoEvent, NoEvent, Feed!Control, Control
    <3>3. CASE e.kind = "Playback"
      <4>1. e.id > 0 /\ e.id \in Nat
        BY <1>0, <2>2, <3>3, KgNaturals DEF Named, Pending
      <4>2. Belongs(app, e) <=> e.id = app.timeline.id
        BY <4>1 DEF Belongs, NoEvent, Control
      <4>3. app' = IF Belongs(app, e) THEN [app EXCEPT !.playback = e] ELSE app
        <5>1. app' = HandleHookEvent(app, e)
          BY <1>4, <3>3, WhatIsLyric DEF HandleMessage, IsLyric
        <5> QED
          BY <3>3, <5>1, HandleCases
      <4>4. /\ app'.timeline = app.timeline
            /\ app'.playback = IF e.id = app.timeline.id THEN e ELSE app.playback
        BY <1>0, <4>2, <4>3 DEF KgTypeOK, App
      <4> QED
        BY <1>1, <3>1, <3>3, <4>4 DEF Feed!Show
    <3> QED
      BY <2>5, <3>2, <3>3 DEF IsLyric
  <2> QED
    BY <2>4, <2>5
<1>5. CASE UserDisconnects
  <2>1. Carried' = Carried
    BY <1>0, <1>1, <1>5, CarriedNow, CarriedNext DEF UserDisconnects
  <2> QED
    BY <1>1, <1>5, <2>1 DEF UserDisconnects, Disconnect, StartedApp, Feed!Clear, Feed!NoEvent, NoEvent,
                            Feed!Control, Control
<1>6. CASE Exit
  <2>1. Carried' = <<>>
    BY <1>6, CarriedNext DEF Exit
  <2> QED
    BY <1>1, <1>6, <2>1 DEF Exit, StartedApp, Feed!Clear, Feed!NoEvent, NoEvent, Feed!Control, Control
<1> QED
  BY <1>2, <1>3, <1>4, <1>5, <1>6 DEF Host, UserClosesWindow, HostCrashes

\* Queue, worker, pipe, stream and inbox together are one feed from the render
\* threads to the window, whatever their capacities: nothing that entered it is
\* lost while both processes run, doubled or overtaken, and the window shows
\* what comes out.
THEOREM SessionIsAFeed == Safety => LyricsAreAFeed
<1>1. FeedInv /\ FeedInv' /\ Named /\ [Next]_vars => [Feed!Next]_(Feed!feedVars)
  <2> SUFFICES ASSUME FeedInv, FeedInv', Named, [Next]_vars
               PROVE  Feed!Next \/ UNCHANGED Feed!feedVars
    OBVIOUS
  <2>1. KgTypeOK /\ KgTypeOK'
    BY DEF FeedInv, KgTypeInv
  <2>2. CASE UNCHANGED vars
    <3>1. UNCHANGED <<events, worker, queue, inbox, evtOpen, alive, timelineId, app>>
      BY <2>2 DEF vars, hookVars, channelVars, queueVars, workerVars, wesingVars, captureVars
    <3>2. Carried' = Carried
      BY <2>1, <3>1, CarriedNow, CarriedNext
    <3> QED
      BY <3>1, <3>2 DEF Feed!feedVars
  <2> QED
    BY <2>1, <2>2, LyricFeedDll, LyricFeedHost, KgSteps DEF Feed!Next
<1> QED
  BY <1>1, LyricFeedInit, NamedInit, NamedStep, FeedInductive, PTL DEF Safety, LyricsAreAFeed, Feed!Spec

==============================================================================
