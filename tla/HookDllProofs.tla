---------------------------- MODULE HookDllProofs ----------------------------
(***************************************************************************)
(* What the hook DLL owes any host, proved for every number of render      *)
(* threads, address ranges and songs, every capacity, and every choice of  *)
(* ExtractionFails, AddressReuse and DetourFails.                          *)
(***************************************************************************)
EXTENDS HookDll, SequenceTheorems, TLAPS

USE ProtocolAssumption, HookAssumption

------------------------------------------------------------------------------
(* Events. *)

LEMMA ControlType == ASSUME NEW k \in EventKinds \cup {"None"} PROVE Control(k) \in HookEvent
BY DEF Control, HookEvent

LEMMA NoEventType == NoEvent \in HookEvent /\ ~IsLyric(NoEvent)
BY DEF NoEvent, Control, HookEvent, IsLyric, EventKinds

LEMMA TimelineType ==
  ASSUME NEW k \in Nat, NEW s \in Songs \cup {NoSong}
  PROVE  Timeline(k, s) \in HookEvent
BY DEF Timeline, HookEvent, EventKinds

LEMMA PlaybackType ==
  ASSUME NEW k \in Nat, NEW s \in Songs \cup {NoSong}
  PROVE  Playback(k, s) \in HookEvent
BY DEF Playback, HookEvent, EventKinds

------------------------------------------------------------------------------
(* Types: each part of TypeOK under the steps that can disturb it. *)

LEMMA LocalType ==
  ASSUME NEW src \in Sources, NEW r \in Regions \cup {NoRegion},
         NEW s \in Songs \cup {NoSong}, NEW k \in Nat
  PROVE  Local(src, r, s, k) \in Locals
BY DEF Local, Locals

LEMMA NoLocalsType == NoLocals \in Locals
BY LocalType DEF NoLocals, Sources

LEMMA Empty == \A S : <<>> \in Seq(S) /\ Len(<<>>) = 0 /\ 0 <= QueueCap /\ 0 <= EventsCap
OBVIOUS

\* Whatever the host has sent by the time the handshake is over.
DllInit == HookInit /\ commands \in Seq(HostCommand)

LEMMA OpenIsDll == OpenInit => DllInit
BY Empty DEF OpenInit, DllInit

LEMMA TypeInit == DllInit => TypeOK
<1> SUFFICES ASSUME DllInit PROVE TypeOK
  OBVIOUS
<1> USE DEF DllInit, HookInit
<1>1. WeSingOK
  BY DEF WeSingOK
<1>2. NoLocals \in Locals
  BY NoLocalsType
<1>3. CaptureOK
  BY <1>2 DEF CaptureOK
<1>4. QueueOK
  BY Empty DEF QueueOK
<1>5. ChannelOK
  BY Empty DEF ChannelOK
<1>6. WorkerOK /\ LoopOK
  BY NoEventType DEF WorkerOK, LoopOK
<1> QED
  BY <1>1, <1>3, <1>4, <1>5, <1>6 DEF TypeOK

LEMMA EnqueueType ==
  ASSUME QueueOK, NEW e \in HookEvent, Enqueue(e)
  PROVE  QueueOK'
<1>1. CASE Room /\ queue' = Append(queue, e) /\ UNCHANGED queueFailures
  BY <1>1 DEF QueueOK, Room
<1>2. CASE /\ UNCHANGED queue
           /\ queueFailures' = IF queueFailures < MaxFailures THEN queueFailures + 1 ELSE MaxFailures
  BY <1>2 DEF QueueOK
<1> QED
  BY <1>1, <1>2 DEF Enqueue

LEMMA WeSingType == TypeOK /\ WeSing => TypeOK'
<1> SUFFICES ASSUME TypeOK, WeSing PROVE TypeOK'
  OBVIOUS
<1> USE DEF TypeOK, WeSingOK, CaptureOK, QueueOK, WorkerOK, LoopOK, ChannelOK,
            captureVars, queueVars, workerVars, loopVars, channelVars
<1>1. CASE LoadDll
  BY <1>1 DEF LoadDll
<1>2. ASSUME NEW src \in Sources, NEW r \in Regions, NEW s \in Songs \cup {NoSong}, ShowModel(src, r, s)
      PROVE  TypeOK'
  BY <1>2 DEF ShowModel
<1>3. ASSUME NEW src \in Sources, CloseWindow(src)
      PROVE  TypeOK'
  BY <1>3 DEF CloseWindow
<1>4. CASE WeSingExits
  <2>1. NoLocals \in Locals
    BY NoLocalsType
  <2>2. WeSingOK' /\ QueueOK' /\ WorkerOK' /\ LoopOK' /\ ChannelOK'
    BY <1>4, Empty, NoEventType DEF WeSingExits
  <2>3. CaptureOK'
    BY <1>4, <2>1 DEF WeSingExits
  <2> QED
    BY <2>2, <2>3
<1> QED
  BY <1>1, <1>2, <1>3, <1>4 DEF WeSing

LEMMA RenderType == TypeOK /\ Render => TypeOK'
<1> SUFFICES ASSUME TypeOK, NEW t \in Threads, InCallback(t) \/ \E src \in Sources : Enter(t, src)
             PROVE  CaptureOK' /\ QueueOK'
  BY DEF Render, InCallback, Enter, GiveUp, Snapshot, Extract, Play,
         wesingVars, workerVars, loopVars, channelVars,
         TypeOK, WeSingOK, WorkerOK, LoopOK, ChannelOK
<1> USE DEF TypeOK, CaptureOK, Goto
<1>0. loc[t] \in Locals /\ loc[t].id \in Nat /\ loc[t].src \in Sources
  BY DEF Locals
<1>1. ASSUME NEW src \in Sources, Enter(t, src)
      PROVE  CaptureOK' /\ QueueOK'
  BY <1>0, <1>1, LocalType, NoLocalsType DEF Enter, QueueOK, queueVars
<1>2. CASE GiveUp(t)
  BY <1>0, <1>2, LocalType, NoLocalsType DEF GiveUp, Return, QueueOK, queueVars
<1>3. CASE Snapshot(t)
  <2> DEFINE region == wnd[loc[t].src]
  <2>1. region \in Regions /\ mem[region] \in Songs \cup {NoSong}
    BY <1>0, <1>3 DEF Snapshot, WeSingOK
  <2>2. \A k \in Nat : Local(loc[t].src, region, mem[region], k) \in Locals
    BY <1>0, <2>1, LocalType
  <2>3. \A k : Local(loc[t].src, region, mem[region], k).region = region
    BY DEF Local
  <2>4. QueueOK'
    BY <1>3 DEF Snapshot, QueueOK, queueVars
  <2>5. CaptureOK'
    BY <1>3, <2>1, <2>2, <2>3 DEF Snapshot
  <2> QED
    BY <2>4, <2>5
<1>4. CASE Extract(t)
  <2>1. mem[loc[t].region] \in Songs \cup {NoSong}
    BY <1>4 DEF Extract, WeSingOK
  <2>2. Timeline(loc[t].id, mem[loc[t].region]) \in HookEvent
    BY <1>0, <2>1, TimelineType
  <2>3. QueueOK'
    BY <1>4, <2>2, EnqueueType DEF Extract, QueueOK, queueVars
  <2>4. CaptureOK'
    BY <1>0, <1>4 DEF Extract
  <2> QED
    BY <2>3, <2>4
<1>5. CASE Play(t)
  <2>1. Playback(timelineId, loc[t].song) \in HookEvent
    BY <1>0, PlaybackType DEF Locals
  <2>2. QueueOK'
    BY <1>5, <2>1, EnqueueType DEF Play, QueueOK, queueVars
  <2>3. CaptureOK'
    BY <1>5, NoLocalsType DEF Play, Return
  <2> QED
    BY <2>2, <2>3
<1> QED
  BY <1>1, <1>2, <1>3, <1>4, <1>5 DEF InCallback

LEMMA SendType ==
  ASSUME ChannelOK, NEW e \in HookEvent, Send(e), UNCHANGED <<commands, cmdOpen, evtOpen>>
  PROVE  ChannelOK'
<1>1. CASE Len(events) < EventsCap /\ events' = Append(events, e)
  BY <1>1 DEF ChannelOK
<1>2. CASE UNCHANGED events
  BY <1>2 DEF ChannelOK
<1> QED
  BY <1>1, <1>2 DEF Send

LEMMA WorkerType == TypeOK /\ Worker => TypeOK'
<1> SUFFICES ASSUME TypeOK, Worker PROVE QueueOK' /\ WorkerOK' /\ ChannelOK'
  BY DEF Worker, WorkerTake, WorkerSend, WorkerBreak, wesingVars, captureVars, loopVars,
         TypeOK, WeSingOK, CaptureOK, LoopOK
<1> USE DEF TypeOK
<1>1. CASE WorkerTake
  <2>1. Head(queue) \in HookEvent /\ Tail(queue) \in Seq(HookEvent) /\ Len(Tail(queue)) <= QueueCap
    BY <1>1 DEF WorkerTake, QueueOK
  <2> QED
    BY <1>1, <2>1 DEF WorkerTake, QueueOK, WorkerOK, ChannelOK, channelVars
<1>2. CASE WorkerSend
  <2>1. ChannelOK'
    BY <1>2, SendType DEF WorkerSend, WorkerOK
  <2> QED
    BY <1>2, <2>1, NoEventType DEF WorkerSend, QueueOK, WorkerOK, queueVars
<1>3. CASE WorkerBreak
  BY <1>3, Empty, NoEventType DEF WorkerBreak, QueueOK, WorkerOK, ChannelOK, channelVars
<1> QED
  BY <1>1, <1>2, <1>3 DEF Worker

LEMMA LoopType == TypeOK /\ CommandLoop => TypeOK'
<1> SUFFICES ASSUME TypeOK, CommandLoop PROVE LoopOK' /\ ChannelOK'
  BY DEF CommandLoop, RecvStart, RecvStop, RecvPing, RecvShutdown, RecvCommand, RecvClosed,
         InstallRefused, InstallHalfway, Install, SendReply,
         wesingVars, captureVars, queueVars, workerVars,
         TypeOK, WeSingOK, CaptureOK, QueueOK, WorkerOK
<1> USE DEF TypeOK
<1>1. ASSUME NEW c, RecvCommand(c)
      PROVE  ChannelOK'
  BY <1>1 DEF RecvCommand, ChannelOK
<1>2. \A k \in EventKinds : Control(k) \in HookEvent
  BY ControlType
<1>3. ASSUME Deactivate
      PROVE  hooksActive' \in BOOLEAN /\ detours' \subseteq Sources
  BY <1>3 DEF Deactivate, DisableHooks, LoopOK
<1>4. CASE RecvStart
  BY <1>1, <1>4 DEF RecvStart, LoopOK
<1>5. CASE RecvStop
  BY <1>1, <1>2, <1>3, <1>5 DEF RecvStop, Answer, LoopOK, EventKinds
<1>6. CASE RecvPing
  BY <1>1, <1>2, <1>6 DEF RecvPing, Answer, LoopOK, EventKinds
<1>7. CASE RecvShutdown
  BY <1>1, <1>3, <1>7 DEF RecvShutdown, EndLoop, LoopOK
<1>8. CASE RecvClosed
  BY <1>3, <1>8 DEF RecvClosed, EndLoop, LoopOK, ChannelOK, channelVars
<1>9. CASE InstallRefused
  BY <1>2, <1>9 DEF InstallRefused, Answer, LoopOK, ChannelOK, channelVars, EventKinds, ErrorKinds
<1>10. CASE InstallHalfway
  BY <1>2, <1>10 DEF InstallHalfway, Answer, LoopOK, ChannelOK, channelVars, EventKinds, ErrorKinds, Sources
<1>11. CASE Install
  BY <1>2, <1>11 DEF Install, Answer, LoopOK, ChannelOK, channelVars, EventKinds
<1>12. CASE SendReply
  <2>1. ChannelOK'
    BY <1>12, SendType DEF SendReply, LoopOK
  <2> QED
    BY <1>12, <2>1, NoEventType DEF SendReply, LoopOK
<1> QED
  BY <1>4, <1>5, <1>6, <1>7, <1>8, <1>9, <1>10, <1>11, <1>12 DEF CommandLoop

\* What any host can do to the channels: it takes events from the front or
\* loses them all, and leaves commands in whatever order it likes.
HostMoves ==
  /\ UNCHANGED <<wesingVars, captureVars, queueVars, workerVars, loopVars>>
  /\ events' \in {events, <<>>} \/ (events # <<>> /\ events' = Tail(events))
  /\ commands' \in Seq(HostCommand)
  /\ cmdOpen' \in BOOLEAN /\ evtOpen' \in BOOLEAN

LEMMA AnyHostMoves == TypeOK /\ AnyHost => HostMoves
<1> SUFFICES ASSUME TypeOK, AnyHost PROVE HostMoves
  OBVIOUS
<1> USE DEF TypeOK, ChannelOK, HostMoves
<1>1. ASSUME NEW c \in HostCommand, HostSend(c)
      PROVE  HostMoves
  BY <1>1 DEF HostSend
<1>2. CASE HostReceive
  BY <1>2 DEF HostReceive
<1>3. CASE HostDropsSender
  BY <1>3 DEF HostDropsSender
<1>4. CASE HostExits
  BY <1>4 DEF HostExits
<1> QED
  BY <1>1, <1>2, <1>3, <1>4 DEF AnyHost

LEMMA HostType == TypeOK /\ HostMoves => TypeOK'
<1> SUFFICES ASSUME TypeOK, HostMoves PROVE ChannelOK'
  BY DEF HostMoves, wesingVars, captureVars, queueVars, workerVars, loopVars,
         TypeOK, WeSingOK, CaptureOK, QueueOK, WorkerOK, LoopOK
<1>1. events' \in Seq(HookEvent) /\ Len(events') <= EventsCap
  <2>1. CASE events' = events
    BY <2>1 DEF TypeOK, ChannelOK
  <2>2. CASE events' = <<>>
    BY <2>2, Empty
  <2>3. CASE events # <<>> /\ events' = Tail(events)
    BY <2>3 DEF TypeOK, ChannelOK
  <2> QED
    BY <2>1, <2>2, <2>3 DEF HostMoves
<1> QED
  BY <1>1 DEF HostMoves, ChannelOK

\* A step of the DLL or of WeSing, or of whatever is at the other end of the
\* channels, stuttering included.
DllStep == HookStep \/ HostMoves

LEMMA OpenStep == TypeOK /\ [OpenNext]_hookVars => DllStep
<1> SUFFICES ASSUME TypeOK, UNCHANGED hookVars PROVE HostMoves
  BY AnyHostMoves DEF OpenNext, DllStep, BothGone
<1> QED
  BY DEF HostMoves, hookVars, channelVars, TypeOK, ChannelOK

LEMMA DllType == TypeOK /\ DllStep => TypeOK'
BY WeSingType, RenderType, WorkerType, LoopType, HostType DEF DllStep, HookStep

\* The statics, the channels and every thread's locals keep their types,
\* whatever the host does.
THEOREM TypeCorrect == HookSafety => []TypeOK
<1>1. OpenInit => TypeOK
  BY OpenIsDll, TypeInit
<1>2. TypeOK /\ [OpenNext]_hookVars => TypeOK'
  BY OpenStep, DllType
<1> QED
  BY <1>1, <1>2, PTL DEF HookSafety

------------------------------------------------------------------------------
(* The detours. *)

\* With a method of unknown shape no detour is enabled, so no thread enters, so
\* nothing is queued; and the only answers are refusals.
Refusing ==
  /\ detours = {} /\ ~hooksActive
  /\ \A t \in Threads : pc[t] = "idle"
  /\ queue = <<>> /\ worker = NoEvent
  /\ reply.kind \notin {"CaptureStarted", "Timeline", "Playback"}
  /\ \A i \in 1..Len(events) : events[i].kind \notin {"CaptureStarted", "Timeline", "Playback"}

DetourInv ==
  /\ ActiveMeansDetoured
  /\ supported # Sources => Refusing

LEMMA DetourInit == DllInit => DetourInv
BY NoEventType DEF DllInit, HookInit, DetourInv, ActiveMeansDetoured, Refusing, IsLyric, NoEvent, Control

LEMMA ActiveStep == TypeOK /\ ActiveMeansDetoured /\ DllStep => ActiveMeansDetoured'
<1> SUFFICES ASSUME TypeOK, ActiveMeansDetoured, DllStep
             PROVE  ActiveMeansDetoured'
  OBVIOUS
<1> USE DEF ActiveMeansDetoured
<1>1. CASE UNCHANGED loopVars
  BY <1>1 DEF loopVars
<1>2. CASE WeSingExits
  BY <1>2 DEF WeSingExits
<1>3. CASE CommandLoop
  <2>1. CASE RecvStart \/ RecvPing \/ InstallRefused \/ SendReply
    BY <2>1 DEF RecvStart, RecvPing, InstallRefused, SendReply
  <2>2. CASE RecvStop \/ RecvShutdown \/ RecvClosed
    BY <2>2 DEF RecvStop, RecvShutdown, RecvClosed, EndLoop, Deactivate
  <2>3. CASE InstallHalfway
    BY <2>3 DEF InstallHalfway, Verified, Sources
  <2>4. CASE Install
    BY <2>4 DEF Install
  <2> QED
    BY <1>3, <2>1, <2>2, <2>3, <2>4 DEF CommandLoop
<1>4. CASE WeSing
  BY <1>1, <1>2, <1>4 DEF WeSing, LoadDll, ShowModel, CloseWindow
<1>5. CASE Render
  BY <1>1, <1>5 DEF Render, InCallback, Enter, GiveUp, Snapshot, Extract, Play
<1>6. CASE Worker
  BY <1>1, <1>6 DEF Worker, WorkerTake, WorkerSend, WorkerBreak
<1>7. CASE HostMoves
  BY <1>1, <1>7 DEF HostMoves
<1> QED
  BY <1>3, <1>4, <1>5, <1>6, <1>7 DEF DllStep, HookStep

\* The code of KSongsUI.dll is what it is.
LEMMA SupportedStays == DllStep => UNCHANGED supported
BY DEF DllStep, HookStep, HostMoves, wesingVars,
       WeSing, LoadDll, ShowModel, CloseWindow, WeSingExits,
       Render, InCallback, Enter, GiveUp, Snapshot, Extract, Play,
       Worker, WorkerTake, WorkerSend, WorkerBreak,
       CommandLoop, RecvStart, RecvStop, RecvPing, RecvShutdown, RecvCommand, RecvClosed,
       InstallRefused, InstallHalfway, Install, SendReply

LEMMA RefusingStep ==
  TypeOK /\ supported # Sources /\ Refusing /\ DllStep => Refusing'
<1> SUFFICES ASSUME TypeOK, supported # Sources, Refusing, DllStep
             PROVE  Refusing'
  OBVIOUS
<1> USE DEF Refusing
<1>1. CASE WeSing
  <2>1. CASE LoadDll
    BY <2>1 DEF LoadDll, captureVars, queueVars, workerVars, loopVars, channelVars
  <2>2. ASSUME NEW src \in Sources, NEW r \in Regions, NEW s \in Songs \cup {NoSong}, ShowModel(src, r, s)
        PROVE  Refusing'
    BY <2>2 DEF ShowModel, captureVars, queueVars, workerVars, loopVars, channelVars
  <2>3. ASSUME NEW src \in Sources, CloseWindow(src)
        PROVE  Refusing'
    BY <2>3 DEF CloseWindow, captureVars, queueVars, workerVars, loopVars, channelVars
  <2>4. CASE WeSingExits
    BY <2>4 DEF WeSingExits, NoEvent, Control
  <2> QED
    BY <1>1, <2>1, <2>2, <2>3, <2>4 DEF WeSing
<1>2. CASE Render
  BY <1>2 DEF Render, InCallback, Enter, GiveUp, Snapshot, Extract, Play
<1>3. CASE Worker
  BY <1>3 DEF Worker, WorkerTake, WorkerSend, WorkerBreak
<1>4. CASE CommandLoop
  <2>1. ~Verified
    BY DEF Verified
  <2>2. CASE RecvStart
    BY <2>2 DEF RecvStart, RecvCommand, captureVars, queueVars, workerVars
  <2>3. CASE RecvPing
    BY <2>3 DEF RecvPing, RecvCommand, Answer, Control, captureVars, queueVars, workerVars
  <2>4. CASE RecvStop
    BY <2>4 DEF RecvStop, RecvCommand, Answer, Deactivate, DisableHooks, Control,
                captureVars, queueVars, workerVars
  <2>5. CASE RecvShutdown \/ RecvClosed
    BY <2>5 DEF RecvShutdown, RecvClosed, RecvCommand, EndLoop, Deactivate, DisableHooks,
                captureVars, queueVars, workerVars, channelVars
  <2>6. CASE InstallRefused
    BY <2>6 DEF InstallRefused, Answer, Control, captureVars, queueVars, workerVars, channelVars
  <2>7. CASE InstallHalfway \/ Install
    BY <2>1, <2>7 DEF InstallHalfway, Install
  <2>8. CASE SendReply
    <3>1. CASE UNCHANGED events
      BY <2>8, <3>1 DEF SendReply, NoEvent, Control, captureVars, queueVars, workerVars
    <3>2. CASE events' = Append(events, reply)
      <4>1. Len(events') = Len(events) + 1
        BY <3>2 DEF TypeOK, LoopOK, ChannelOK
      <4>2. \A i \in 1..Len(events') : events'[i] = IF i <= Len(events) THEN events[i] ELSE reply
        BY <3>2 DEF TypeOK, LoopOK, ChannelOK
      <4>3. \A i \in 1..Len(events') : events'[i].kind \notin {"CaptureStarted", "Timeline", "Playback"}
        BY <4>1, <4>2 DEF TypeOK, ChannelOK
      <4> QED
        BY <2>8, <4>3 DEF SendReply, NoEvent, Control, captureVars, queueVars, workerVars
    <3> QED
      BY <2>8, <3>1, <3>2 DEF SendReply, Send
  <2> QED
    BY <1>4, <2>2, <2>3, <2>4, <2>5, <2>6, <2>7, <2>8 DEF CommandLoop
<1>5. CASE HostMoves
  <2>1. HostMoves
    BY <1>5
  <2>2. \A i \in 1..Len(events') : events'[i].kind \notin {"CaptureStarted", "Timeline", "Playback"}
    <3>1. CASE events' = events
      BY <3>1
    <3>2. CASE events' = <<>>
      BY <3>2
    <3>3. CASE events # <<>> /\ events' = Tail(events)
      <4>1. \A i \in 1..Len(events') : i + 1 \in 1..Len(events) /\ events'[i] = events[i + 1]
        BY <3>3 DEF TypeOK, ChannelOK
      <4> QED
        BY <4>1
    <3> QED
      BY <2>1, <3>1, <3>2, <3>3 DEF HostMoves
  <2> QED
    BY <2>1, <2>2 DEF HostMoves, captureVars, queueVars, workerVars, loopVars
<1> QED
  BY <1>1, <1>2, <1>3, <1>4, <1>5 DEF DllStep, HookStep

LEMMA ConcatAt ==
  ASSUME NEW S, NEW s \in Seq(S), NEW t \in Seq(S)
  PROVE  /\ s \o t \in Seq(S)
         /\ Len(s \o t) = Len(s) + Len(t)
         /\ \A i \in 1..Len(s \o t) :
              (s \o t)[i] = IF i <= Len(s) THEN s[i] ELSE t[i - Len(s)]
OBVIOUS

LEMMA PipelineAt ==
  ASSUME NEW es \in Seq(HookEvent), NEW w \in HookEvent, NEW q \in Seq(HookEvent),
         NEW p, p = es \o <<w>> \o q
  PROVE  /\ p \in Seq(HookEvent)
         /\ Len(p) = Len(es) + 1 + Len(q)
         /\ \A i \in 1..Len(p) :
              p[i] = IF i <= Len(es) THEN es[i]
                     ELSE IF i = Len(es) + 1 THEN w ELSE q[i - (Len(es) + 1)]
<1> DEFINE held == <<w>>
           left == es \o held
<1>1. held \in Seq(HookEvent) /\ Len(held) = 1 /\ held[1] = w
  OBVIOUS
<1>2. p = left \o q
  OBVIOUS
<1> HIDE DEF held
<1>3. /\ left \in Seq(HookEvent) /\ Len(left) = Len(es) + 1
      /\ \A i \in 1..Len(left) : left[i] = IF i <= Len(es) THEN es[i] ELSE held[i - Len(es)]
  BY <1>1, ConcatAt
<1>4. \A i \in 1..Len(left) : left[i] = IF i <= Len(es) THEN es[i] ELSE w
  <2> SUFFICES ASSUME NEW i \in 1..Len(left), ~(i <= Len(es)) PROVE left[i] = w
    BY <1>3
  <2>1. Len(es) \in Nat
    OBVIOUS
  <2>2. i - Len(es) = 1
    BY <1>3, <2>1
  <2> QED
    BY <1>1, <1>3, <2>2
<1> HIDE DEF left
<1>5. /\ p \in Seq(HookEvent) /\ Len(p) = Len(left) + Len(q)
      /\ \A i \in 1..Len(p) : p[i] = IF i <= Len(left) THEN left[i] ELSE q[i - Len(left)]
  BY <1>2, <1>3, ConcatAt
<1>6. Len(es) \in Nat /\ Len(q) \in Nat
  OBVIOUS
<1> QED
  BY <1>3, <1>4, <1>5, <1>6

LEMMA PipelineNow ==
  ASSUME TypeOK
  PROVE  /\ Pipeline \in Seq(HookEvent)
         /\ Len(Pipeline) = Len(events) + 1 + Len(queue)
         /\ \A i \in 1..Len(Pipeline) :
              Pipeline[i] = IF i <= Len(events) THEN events[i]
                            ELSE IF i = Len(events) + 1 THEN worker ELSE queue[i - (Len(events) + 1)]
<1>1. events \in Seq(HookEvent) /\ worker \in HookEvent /\ queue \in Seq(HookEvent)
  BY DEF TypeOK, ChannelOK, WorkerOK, QueueOK
<1> QED
  BY <1>1, PipelineAt DEF Pipeline

LEMMA PipelineNext ==
  ASSUME TypeOK'
  PROVE  /\ Pipeline' \in Seq(HookEvent)
         /\ Len(Pipeline') = Len(events') + 1 + Len(queue')
         /\ \A i \in 1..Len(Pipeline') :
              Pipeline'[i] = IF i <= Len(events') THEN events'[i]
                             ELSE IF i = Len(events') + 1 THEN worker' ELSE queue'[i - (Len(events') + 1)]
<1>1. events' \in Seq(HookEvent) /\ worker' \in HookEvent /\ queue' \in Seq(HookEvent)
  BY DEF TypeOK, ChannelOK, WorkerOK, QueueOK
<1> QED
  BY <1>1, PipelineAt DEF Pipeline

LEMMA PartsNow ==
  ASSUME TypeOK
  PROVE  /\ Len(events) \in Nat /\ Len(queue) \in Nat
         /\ Len(Pipeline) = Len(events) + Len(queue) + 1
         /\ \A i \in 1..Len(events) : Pipeline[i] = events[i]
         /\ Pipeline[Len(events) + 1] = worker
         /\ \A j \in 1..Len(queue) : Pipeline[Len(events) + 1 + j] = queue[j]
<1>1. Len(events) \in Nat /\ Len(queue) \in Nat
  BY DEF TypeOK, ChannelOK, QueueOK
<1>2. Len(Pipeline) = Len(events) + Len(queue) + 1
  BY <1>1, PipelineNow
<1>3. \A i \in 1..Len(events) : Pipeline[i] = events[i]
  BY <1>1, <1>2, PipelineNow
<1>4. Pipeline[Len(events) + 1] = worker
  BY <1>1, <1>2, PipelineNow
<1>5. ASSUME NEW j \in 1..Len(queue)
      PROVE  Pipeline[Len(events) + 1 + j] = queue[j]
  <2> DEFINE i == Len(events) + 1 + j
  <2>1. i \in 1..Len(Pipeline) /\ i > Len(events) + 1 /\ i - (Len(events) + 1) = j
    BY <1>1, <1>2
  <2> HIDE DEF i
  <2>2. Pipeline[i] = queue[j]
    BY <1>1, <2>1, PipelineNow
  <2> QED
    BY <2>2 DEF i
<1> QED
  BY <1>1, <1>2, <1>3, <1>4, <1>5

LEMMA PartsNext ==
  ASSUME TypeOK'
  PROVE  /\ Len(events') \in Nat /\ Len(queue') \in Nat
         /\ Len(Pipeline') = Len(events') + Len(queue') + 1
         /\ \A i \in 1..Len(events') : Pipeline'[i] = events'[i]
         /\ Pipeline'[Len(events') + 1] = worker'
         /\ \A j \in 1..Len(queue') : Pipeline'[Len(events') + 1 + j] = queue'[j]
<1>1. Len(events') \in Nat /\ Len(queue') \in Nat
  BY DEF TypeOK, ChannelOK, QueueOK
<1>2. Len(Pipeline') = Len(events') + Len(queue') + 1
  BY <1>1, PipelineNext
<1>3. \A i \in 1..Len(events') : Pipeline'[i] = events'[i]
  BY <1>1, <1>2, PipelineNext
<1>4. Pipeline'[Len(events') + 1] = worker'
  BY <1>1, <1>2, PipelineNext
<1>5. ASSUME NEW j \in 1..Len(queue')
      PROVE  Pipeline'[Len(events') + 1 + j] = queue'[j]
  <2> DEFINE i == Len(events') + 1 + j
  <2>1. i \in 1..Len(Pipeline') /\ i > Len(events') + 1 /\ i - (Len(events') + 1) = j
    BY <1>1, <1>2
  <2> HIDE DEF i
  <2>2. Pipeline'[i] = queue'[j]
    BY <1>1, <2>1, PipelineNext
  <2> QED
    BY <2>2 DEF i
<1> QED
  BY <1>1, <1>2, <1>3, <1>4, <1>5

\* HOOKS_ACTIVE is only ever seen set while both detours are enabled.
THEOREM HooksAreDetoured == HookSafety => []ActiveMeansDetoured
<1>1. OpenInit => ActiveMeansDetoured
  BY OpenIsDll, DetourInit DEF DetourInv
<1>2. TypeOK /\ ActiveMeansDetoured /\ [OpenNext]_hookVars => ActiveMeansDetoured'
  BY OpenStep, ActiveStep
<1> QED
  BY <1>1, <1>2, TypeCorrect, PTL DEF HookSafety

\* A build whose methods are not both the known ones is never patched, and the
\* host is never told of a capture nor sent a lyric.
THEOREM UnknownBuildFailsClosed == HookSafety => []FailClosed
<1> DEFINE Inv == supported # Sources => Refusing
<1>1. OpenInit => Inv
  BY OpenIsDll, DetourInit DEF DetourInv
<1>2. TypeOK /\ Inv /\ [OpenNext]_hookVars => Inv'
  BY OpenStep, SupportedStays, RefusingStep
<1>3. TypeOK /\ Inv => FailClosed
  BY PipelineNow DEF FailClosed, Refusing, NoEvent, Control
<1> QED
  BY <1>1, <1>2, <1>3, TypeCorrect, PTL DEF HookSafety

------------------------------------------------------------------------------
(* The order of the lyrics. *)

\* What is left of an ordered pipeline is ordered, also after events that are
\* not lyrics have come in between.
LEMMA ThinnedOrdered ==
  ASSUME NEW p, NEW q, NEW f,
         \A i \in 1..Len(q) : IsLyric(q[i]) => f[i] \in 1..Len(p) /\ q[i] = p[f[i]],
         \A i, j \in 1..Len(q) : i < j /\ IsLyric(q[i]) /\ IsLyric(q[j]) => f[i] < f[j]
  PROVE  /\ Ordered(p) => Ordered(q)
         /\ \A k : AtMost(p, k) => AtMost(q, k)
BY DEF Ordered, AtMost

LEMMA LockInit == DllInit => LockInv
BY DEF DllInit, HookInit, LockInv

LEMMA LockStep == TypeOK /\ LockInv /\ DllStep => LockInv'
<1> SUFFICES ASSUME TypeOK, LockInv, DllStep PROVE LockInv'
  OBVIOUS
<1> USE DEF LockInv
<1>1. CASE UNCHANGED <<alive, captureVars>>
  BY <1>1 DEF captureVars
<1>2. CASE WeSing
  <2>1. CASE WeSingExits
    BY <2>1 DEF WeSingExits, TypeOK, CaptureOK
  <2> QED
    BY <1>1, <1>2, <2>1 DEF WeSing, LoadDll, ShowModel, CloseWindow
<1>3. ASSUME NEW t \in Threads, InCallback(t) \/ \E src \in Sources : Enter(t, src)
      PROVE  LockInv'
  <2> USE DEF TypeOK, CaptureOK, Goto, wesingVars
  <2>1. ASSUME NEW src \in Sources, Enter(t, src)
        PROVE  LockInv'
    BY <2>1 DEF Enter
  <2>2. CASE GiveUp(t)
    BY <2>2 DEF GiveUp, Return
  <2>3. CASE Snapshot(t)
    BY <2>3 DEF Snapshot, LockFree, Local
  <2>4. CASE Extract(t)
    BY <2>4 DEF Extract
  <2>5. CASE Play(t)
    BY <2>5 DEF Play, Return
  <2> QED
    BY <1>3, <2>1, <2>2, <2>3, <2>4, <2>5 DEF InCallback
<1>4. CASE Worker
  BY <1>1, <1>4 DEF Worker, WorkerTake, WorkerSend, WorkerBreak, wesingVars
<1>5. CASE CommandLoop
  BY <1>1, <1>5 DEF CommandLoop, RecvStart, RecvStop, RecvPing, RecvShutdown, RecvCommand, RecvClosed,
                    InstallRefused, InstallHalfway, Install, SendReply, wesingVars
<1>6. CASE HostMoves
  BY <1>1, <1>6 DEF HostMoves, wesingVars
<1> QED
  BY <1>2, <1>3, <1>4, <1>5, <1>6 DEF DllStep, HookStep, Render

LEMMA ReplyStep == TypeOK /\ ~IsLyric(reply) /\ DllStep => ~IsLyric(reply')
<1> SUFFICES ASSUME TypeOK, ~IsLyric(reply), DllStep PROVE ~IsLyric(reply')
  OBVIOUS
<1>1. CASE UNCHANGED reply
  BY <1>1
<1>2. CASE WeSing
  BY <1>1, <1>2, NoEventType DEF WeSing, LoadDll, ShowModel, CloseWindow, WeSingExits, loopVars
<1>3. CASE Render
  BY <1>1, <1>3 DEF Render, InCallback, Enter, GiveUp, Snapshot, Extract, Play, loopVars
<1>4. CASE Worker
  BY <1>1, <1>4 DEF Worker, WorkerTake, WorkerSend, WorkerBreak, loopVars
<1>5. CASE CommandLoop
  <2>1. CASE RecvStart \/ RecvShutdown \/ RecvClosed
    BY <1>1, <2>1 DEF RecvStart, RecvShutdown, RecvClosed, EndLoop
  <2>2. CASE RecvStop \/ RecvPing \/ InstallHalfway \/ Install
    BY <2>2 DEF RecvStop, RecvPing, InstallHalfway, Install, Answer, Control, IsLyric
  <2>3. CASE InstallRefused
    BY <2>3 DEF InstallRefused, Answer, Control, IsLyric
  <2>4. CASE SendReply
    BY <2>4, NoEventType DEF SendReply
  <2> QED
    BY <1>5, <2>1, <2>2, <2>3, <2>4 DEF CommandLoop
<1>6. CASE HostMoves
  BY <1>1, <1>6 DEF HostMoves, loopVars
<1> QED
  BY <1>2, <1>3, <1>4, <1>5, <1>6 DEF DllStep, HookStep

\* An event put into the queue comes after everything under way.
LEMMA EnqueueFlow ==
  ASSUME TypeOK, TypeOK', InOrder, AtMost(Pipeline, timelineId),
         NEW e \in HookEvent, Enqueue(e), UNCHANGED <<events, worker>>,
         \/ e.kind = "Timeline" /\ timelineId < e.id
         \/ e.kind = "Playback" /\ timelineId = e.id
  PROVE  InOrder' /\ AtMost(Pipeline', e.id)
<1>1. timelineId \in Nat /\ e.id \in Nat /\ timelineId <= e.id
  <2>1. timelineId \in Nat /\ e.id \in Nat
    BY DEF TypeOK, CaptureOK, HookEvent
  <2> QED
    BY <2>1
<1>2. \A i \in 1..Len(Pipeline) : IsLyric(Pipeline[i]) => Pipeline[i].id \in Nat /\ Pipeline[i].id <= e.id
  <2> SUFFICES ASSUME NEW i \in 1..Len(Pipeline), IsLyric(Pipeline[i])
               PROVE  Pipeline[i].id \in Nat /\ Pipeline[i].id <= e.id
    OBVIOUS
  <2>1. Pipeline[i] \in HookEvent
    BY PipelineNow
  <2>2. Pipeline[i].id \in Nat
    BY <2>1 DEF HookEvent
  <2>3. Pipeline[i].id <= timelineId
    BY DEF AtMost
  <2> QED
    BY <1>1, <2>2, <2>3
<1>3. CASE UNCHANGED queue
  <2>1. Pipeline' = Pipeline
    BY <1>3 DEF Pipeline
  <2> QED
    BY <1>2, <2>1 DEF InOrder, AtMost
<1>4. CASE queue' = Append(queue, e)
  <2>1. Len(Pipeline') = Len(Pipeline) + 1 /\ Len(Pipeline) \in Nat
    <3>1. Len(queue) \in Nat /\ Len(events) \in Nat /\ Len(queue') = Len(queue) + 1
      BY <1>4 DEF TypeOK, QueueOK, ChannelOK
    <3>2. Len(Pipeline) = Len(events) + Len(queue) + 1
      BY PartsNow
    <3>3. Len(Pipeline') = Len(events) + Len(queue') + 1
      BY PartsNext
    <3> QED
      BY <3>1, <3>2, <3>3
  <2>2. \A i \in 1..Len(Pipeline') :
          Pipeline'[i] = IF i <= Len(Pipeline) THEN Pipeline[i] ELSE e
    <3>1. Len(events) \in Nat /\ Len(queue) \in Nat /\ Len(queue') = Len(queue) + 1
      BY <1>4 DEF TypeOK, QueueOK, ChannelOK
    <3>2. \A j \in 1..Len(queue') : queue'[j] = IF j <= Len(queue) THEN queue[j] ELSE e
      BY <1>4 DEF TypeOK, QueueOK
    <3> SUFFICES ASSUME NEW i \in 1..Len(Pipeline')
                 PROVE  Pipeline'[i] = IF i <= Len(Pipeline) THEN Pipeline[i] ELSE e
      OBVIOUS
    <3>3. CASE i <= Len(events) + 1
      BY <2>1, <3>1, <3>3, PipelineNow, PipelineNext
    <3>4. CASE ~(i <= Len(events) + 1)
      <4> DEFINE j == i - (Len(events) + 1)
      <4>1. j \in 1..Len(queue') /\ (j <= Len(queue) <=> i <= Len(Pipeline))
        BY <2>1, <3>1, <3>4, PipelineNow, PipelineNext
      <4>2. Pipeline'[i] = queue'[j]
        BY <2>1, <3>1, <3>4, PipelineNext
      <4>3. i <= Len(Pipeline) => Pipeline[i] = queue[j]
        BY <2>1, <3>1, <3>4, PipelineNow
      <4> QED
        BY <3>2, <4>1, <4>2, <4>3
    <3> QED
      BY <3>3, <3>4
  <2>3. \A i \in 1..Len(Pipeline) : IsLyric(Pipeline[i]) => Precedes(Pipeline[i], e)
    BY <1>1, <1>2, PipelineNow DEF AtMost, Precedes, HookEvent
  <2>4. AtMost(Pipeline', e.id)
    BY <1>1, <1>2, <2>1, <2>2 DEF AtMost
  <2>5. InOrder'
    BY <2>1, <2>2, <2>3 DEF InOrder, Ordered
  <2> QED
    BY <2>4, <2>5
<1> QED
  BY <1>3, <1>4 DEF Enqueue

\* The ways a step thins the pipeline or mixes in what is no lyric.
Drops == UNCHANGED events /\ worker' = NoEvent /\ queue' = <<>>
Takes ==
  /\ UNCHANGED events
  /\ worker = NoEvent /\ queue # <<>>
  /\ worker' = Head(queue) /\ queue' = Tail(queue)
Sends ==
  /\ worker # NoEvent
  /\ events' = Append(events, worker) /\ worker' = NoEvent
  /\ UNCHANGED queue
Replies ==
  /\ loop = "reply"
  /\ events' = Append(events, reply)
  /\ UNCHANGED <<worker, queue>>
Delivers == events # <<>> /\ events' = Tail(events) /\ UNCHANGED <<worker, queue>>
Clears == events' = <<>> /\ UNCHANGED <<worker, queue>>

Keeps == UNCHANGED <<events, worker, queue>> \/ Takes \/ Sends \/ Replies

Thins == Keeps \/ Drops \/ Delivers \/ Clears

LEMMA ThinsFlow ==
  ASSUME TypeOK, TypeOK', ~IsLyric(reply), Thins
  PROVE  /\ InOrder => InOrder'
         /\ \A k : AtMost(Pipeline, k) => AtMost(Pipeline', k)
<1> DEFINE n == Len(events)
           m == Len(queue)
           From(f) ==
             /\ \A i \in 1..Len(Pipeline') : IsLyric(Pipeline'[i]) =>
                  f[i] \in 1..Len(Pipeline) /\ Pipeline'[i] = Pipeline[f[i]]
             /\ \A i, j \in 1..Len(Pipeline') :
                  i < j /\ IsLyric(Pipeline'[i]) /\ IsLyric(Pipeline'[j]) => f[i] < f[j]
<1> SUFFICES ASSUME Thins PROVE \E f : From(f)
  BY ThinnedOrdered DEF InOrder
<1>1. n \in Nat /\ m \in Nat /\ Len(Pipeline) = n + m + 1
  BY PartsNow
<1>2. CASE UNCHANGED <<events, worker, queue>>
  <2>1. Pipeline' = Pipeline
    BY <1>2 DEF Pipeline
  <2>2. From([i \in 1..Len(Pipeline) |-> i])
    BY <1>1, <2>1
  <2> QED
    BY <2>2
<1>3. CASE Drops
  <2>1. Len(events') = n /\ Len(queue') = 0
    BY <1>3 DEF Drops
  <2>2. Len(Pipeline') = n + 1 /\ ~IsLyric(Pipeline'[n + 1])
    BY <1>1, <1>3, <2>1, PartsNext, NoEventType DEF Drops
  <2>3. \A i \in 1..n : Pipeline'[i] = Pipeline[i]
    BY <1>3, <2>1, PartsNow, PartsNext DEF Drops
  <2>4. From([i \in 1..(n + 1) |-> i])
    BY <1>1, <2>2, <2>3
  <2> QED
    BY <2>4
<1>4. CASE Takes
  <2>1. Len(events') = n /\ m > 0 /\ Len(queue') = m - 1
    BY <1>1, <1>4 DEF Takes, TypeOK, QueueOK
  <2>2. worker' = queue[1] /\ \A j \in 1..(m - 1) : queue'[j] = queue[j + 1]
    BY <1>1, <1>4, <2>1 DEF Takes, TypeOK, QueueOK
  <2>3. Len(Pipeline') = n + m
    BY <1>1, <2>1, PartsNext
  <2>4. \A i \in 1..n : Pipeline'[i] = Pipeline[i]
    BY <1>4, <2>1, PartsNow, PartsNext DEF Takes
  <2>5. ASSUME NEW j \in 1..m
        PROVE  Pipeline'[n + j] = Pipeline[n + 1 + j]
    <3>1. Pipeline[n + 1 + j] = queue[j]
      BY PartsNow
    <3>2. CASE j = 1
      BY <2>1, <2>2, <3>1, <3>2, PartsNext
    <3>3. CASE j # 1
      <4>1. j - 1 \in 1..(m - 1) /\ n + 1 + (j - 1) = n + j /\ (j - 1) + 1 = j
        BY <1>1, <3>3
      <4>2. Pipeline'[n + 1 + (j - 1)] = queue'[j - 1]
        BY <2>1, <4>1, PartsNext
      <4>3. queue'[j - 1] = queue[(j - 1) + 1]
        BY <2>2, <4>1
      <4> QED
        BY <3>1, <4>1, <4>2, <4>3
    <3> QED
      BY <3>2, <3>3
  <2>6. \A i \in 1..(n + m) : i > n => Pipeline'[i] = Pipeline[i + 1]
    <3> SUFFICES ASSUME NEW i \in 1..(n + m), i > n PROVE Pipeline'[i] = Pipeline[i + 1]
      OBVIOUS
    <3>1. i - n \in 1..m /\ n + (i - n) = i /\ n + 1 + (i - n) = i + 1
      BY <1>1
    <3> QED
      BY <2>5, <3>1
  <2>7. From([i \in 1..(n + m) |-> IF i <= n THEN i ELSE i + 1])
    BY <1>1, <2>3, <2>4, <2>6
  <2> QED
    BY <2>7
<1>5. ASSUME NEW e, events' = Append(events, e), UNCHANGED queue,
             \/ e = worker /\ ~IsLyric(worker')
             \/ ~IsLyric(e) /\ UNCHANGED worker
      PROVE  \E f : From(f)
  <2>1. Len(events') = n + 1 /\ Len(queue') = m
    BY <1>1, <1>5 DEF TypeOK, ChannelOK
  <2>2. \A i \in 1..n : events'[i] = events[i]
    BY <1>1, <1>5 DEF TypeOK, ChannelOK
  <2>3. events'[n + 1] = e
    BY <1>1, <1>5 DEF TypeOK, ChannelOK
  <2>4. Len(Pipeline') = n + m + 2
    BY <1>1, <2>1, PartsNext
  <2>5. \A i \in 1..n : Pipeline'[i] = Pipeline[i]
    BY <1>1, <2>1, <2>2, PartsNow, PartsNext
  <2>6. Pipeline'[n + 1] = e /\ Pipeline'[n + 2] = worker' /\ Pipeline[n + 1] = worker
    <3>1. n + 1 \in 1..Len(events') /\ Len(events') + 1 = n + 2
      BY <1>1, <2>1
    <3> QED
      BY <2>3, <3>1, PartsNow, PartsNext
  <2>7. \A i \in 1..(n + m + 2) : i > n + 2 => Pipeline'[i] = Pipeline[i - 1]
    <3> SUFFICES ASSUME NEW i \in 1..(n + m + 2), i > n + 2 PROVE Pipeline'[i] = Pipeline[i - 1]
      OBVIOUS
    <3> DEFINE j == i - (n + 2)
    <3>1. j \in 1..m /\ Len(events') + 1 + j = i /\ n + 1 + j = i - 1
      BY <1>1, <2>1
    <3>2. Pipeline'[Len(events') + 1 + j] = queue'[j]
      BY <2>1, <3>1, PartsNext
    <3>3. Pipeline[n + 1 + j] = queue[j]
      BY <3>1, PartsNow
    <3> QED
      BY <1>5, <3>1, <3>2, <3>3
  <2>8. CASE e = worker /\ ~IsLyric(worker')
    <3>1. From([i \in 1..(n + m + 2) |-> IF i <= n + 1 THEN i ELSE i - 1])
      BY <1>1, <2>4, <2>5, <2>6, <2>7, <2>8
    <3> QED
      BY <3>1
  <2>9. CASE ~IsLyric(e) /\ UNCHANGED worker
    <3>1. From([i \in 1..(n + m + 2) |-> IF i <= n THEN i ELSE i - 1])
      BY <1>1, <2>4, <2>5, <2>6, <2>7, <2>9
    <3> QED
      BY <3>1
  <2> QED
    BY <1>5, <2>8, <2>9
<1>6. CASE Sends \/ Replies
  BY <1>5, <1>6, NoEventType DEF Sends, Replies
<1>7. CASE Delivers
  <2>1. n > 0 /\ Len(events') = n - 1 /\ Len(queue') = m
    BY <1>1, <1>7 DEF Delivers, TypeOK, ChannelOK
  <2>2. \A j \in 1..(n - 1) : events'[j] = events[j + 1]
    BY <1>1, <1>7 DEF Delivers, TypeOK, ChannelOK
  <2>3. Len(Pipeline') = n + m
    BY <1>1, <2>1, PartsNext
  <2>4. \A i \in 1..(n - 1) : Pipeline'[i] = Pipeline[i + 1]
    <3> SUFFICES ASSUME NEW i \in 1..(n - 1) PROVE Pipeline'[i] = Pipeline[i + 1]
      OBVIOUS
    <3>1. i + 1 \in 1..n
      BY <1>1
    <3>2. Pipeline'[i] = events'[i]
      BY <2>1, PartsNext
    <3> QED
      BY <2>2, <3>1, <3>2, PartsNow
  <2>5. Pipeline'[n] = Pipeline[n + 1]
    <3>1. Len(events') + 1 = n
      BY <1>1, <2>1
    <3> QED
      BY <1>7, <3>1, PartsNow, PartsNext DEF Delivers
  <2>6. \A i \in 1..(n + m) : i > n => Pipeline'[i] = Pipeline[i + 1]
    <3> SUFFICES ASSUME NEW i \in 1..(n + m), i > n PROVE Pipeline'[i] = Pipeline[i + 1]
      OBVIOUS
    <3> DEFINE j == i - n
    <3>1. j \in 1..m /\ Len(events') + 1 + j = i /\ n + 1 + j = i + 1
      BY <1>1, <2>1
    <3>2. Pipeline'[Len(events') + 1 + j] = queue'[j]
      BY <2>1, <3>1, PartsNext
    <3>3. Pipeline[n + 1 + j] = queue[j]
      BY <3>1, PartsNow
    <3> QED
      BY <1>7, <3>1, <3>2, <3>3 DEF Delivers
  <2>7. \A i \in 1..(n + m) : Pipeline'[i] = Pipeline[i + 1]
    <3> SUFFICES ASSUME NEW i \in 1..(n + m) PROVE Pipeline'[i] = Pipeline[i + 1]
      OBVIOUS
    <3>1. i \in 1..(n - 1) \/ i = n \/ i > n
      BY <1>1
    <3> QED
      BY <2>4, <2>5, <2>6, <3>1
  <2>8. From([i \in 1..(n + m) |-> i + 1])
    BY <1>1, <2>3, <2>7
  <2> QED
    BY <2>8
<1>8. CASE Clears
  <2>1. Len(events') = 0 /\ Len(queue') = m
    BY <1>8 DEF Clears
  <2>2. Len(Pipeline') = m + 1 /\ Pipeline'[1] = Pipeline[n + 1]
    BY <1>1, <1>8, <2>1, PartsNow, PartsNext DEF Clears
  <2>3. \A i \in 1..(m + 1) : i > 1 => Pipeline'[i] = Pipeline[i + n]
    <3> SUFFICES ASSUME NEW i \in 1..(m + 1), i > 1 PROVE Pipeline'[i] = Pipeline[i + n]
      OBVIOUS
    <3> DEFINE j == i - 1
    <3>1. j \in 1..m /\ Len(events') + 1 + j = i /\ n + 1 + j = i + n
      BY <1>1, <2>1
    <3>2. Pipeline'[Len(events') + 1 + j] = queue'[j]
      BY <2>1, <3>1, PartsNext
    <3>3. Pipeline[n + 1 + j] = queue[j]
      BY <3>1, PartsNow
    <3> QED
      BY <1>8, <3>1, <3>2, <3>3 DEF Clears
  <2>4. From([i \in 1..(m + 1) |-> i + n])
    BY <1>1, <2>2, <2>3
  <2> QED
    BY <2>4
<1> QED
  BY <1>2, <1>3, <1>4, <1>6, <1>7, <1>8 DEF Thins, Keeps

LEMMA FlowInit == DllInit => ~IsLyric(reply) /\ InOrder /\ AtMost(Pipeline, timelineId)
<1> SUFFICES ASSUME DllInit PROVE ~IsLyric(reply) /\ InOrder /\ AtMost(Pipeline, timelineId)
  OBVIOUS
<1>1. Len(Pipeline) = 1 /\ Pipeline[1] = NoEvent
  BY TypeInit, PartsNow DEF DllInit, HookInit
<1> QED
  BY <1>1, NoEventType DEF InOrder, Ordered, AtMost, DllInit, HookInit

\* A render thread queues the timeline it has drawn an id for, or a position in
\* the recorded one.
Announces(t) == Extract(t) /\ mem[loc[t].region] # NoSong
Follows(t) == Play(t) /\ timelineId # 0

\* Every other step of WeSing and the DLL moves what is under way along, or
\* loses it because the host has gone or WeSing ends.
LEMMA HookFlow ==
  ASSUME HookStep
  PROVE  \/ \E t \in Threads : Announces(t) \/ Follows(t)
         \/ /\ Keeps \/ (Drops /\ ~evtOpen)
            /\ UNCHANGED <<alive, timelineId, queueFailures>>
         \/ WeSingExits /\ Drops /\ ~alive' /\ UNCHANGED queueFailures
<1> DEFINE Else == /\ Keeps \/ (Drops /\ ~evtOpen)
                   /\ UNCHANGED <<alive, timelineId, queueFailures>>
<1>1. CASE WeSing
  <2>1. CASE WeSingExits
    BY <2>1 DEF WeSingExits, Drops
  <2>2. CASE ~WeSingExits
    BY <1>1, <2>2 DEF WeSing, LoadDll, ShowModel, CloseWindow, Keeps,
                      captureVars, queueVars, workerVars, channelVars
  <2> QED
    BY <2>1, <2>2
<1>2. ASSUME NEW t \in Threads, InCallback(t) \/ \E src \in Sources : Enter(t, src)
      PROVE  Announces(t) \/ Follows(t) \/ Else
  <2> USE DEF wesingVars, queueVars, workerVars, channelVars, Keeps
  <2>1. ASSUME NEW src \in Sources, Enter(t, src)
        PROVE  Else
    BY <2>1 DEF Enter
  <2>2. CASE GiveUp(t)
    BY <2>2 DEF GiveUp
  <2>3. CASE Snapshot(t)
    BY <2>3 DEF Snapshot
  <2>4. CASE Extract(t)
    BY <2>4 DEF Extract, Announces
  <2>5. CASE Play(t)
    BY <2>5 DEF Play, Follows
  <2> QED
    BY <1>2, <2>1, <2>2, <2>3, <2>4, <2>5 DEF InCallback
<1>3. CASE Worker
  <2> USE DEF wesingVars, captureVars, queueVars, channelVars, Keeps
  <2>1. CASE WorkerTake
    BY <2>1 DEF WorkerTake, Takes
  <2>2. CASE WorkerSend
    BY <2>2 DEF WorkerSend, Send, Sends
  <2>3. CASE WorkerBreak
    BY <2>3 DEF WorkerBreak, Drops
  <2> QED
    BY <1>3, <2>1, <2>2, <2>3 DEF Worker
<1>4. CASE CommandLoop
  <2> USE DEF wesingVars, captureVars, queueVars, workerVars, channelVars, Keeps
  <2>1. CASE SendReply
    BY <2>1 DEF SendReply, Send, Replies
  <2>2. CASE ~SendReply
    BY <1>4, <2>2
       DEF CommandLoop, RecvStart, RecvStop, RecvPing, RecvShutdown, RecvCommand, RecvClosed,
           InstallRefused, InstallHalfway, Install
  <2> QED
    BY <2>1, <2>2
<1> QED
  BY <1>1, <1>2, <1>3, <1>4 DEF HookStep, Render

LEMMA HostFlow == HostMoves => (Keeps \/ Delivers \/ Clears) /\ UNCHANGED <<alive, timelineId>>
BY DEF HostMoves, Keeps, Delivers, Clears, wesingVars, captureVars, queueVars, workerVars

LEMMA AnnouncesEvent ==
  ASSUME TypeOK, LockInv, NEW t \in Threads, Announces(t)
  PROVE  LET e == Timeline(loc[t].id, mem[loc[t].region]) IN
         /\ e \in HookEvent /\ timelineId < e.id
         /\ Enqueue(e)
         /\ timelineId' = e.id /\ UNCHANGED <<events, worker>>
         /\ alive /\ alive'
<1>1. loc[t].id \in Nat /\ timelineId < loc[t].id /\ mem[loc[t].region] \in Songs \cup {NoSong}
  BY DEF Announces, Extract, LockInv, TypeOK, CaptureOK, WeSingOK, Locals
<1>2. Timeline(loc[t].id, mem[loc[t].region]) \in HookEvent
  BY <1>1, TimelineType
<1>3. alive /\ alive'
  BY DEF Announces, Extract, LockInv, wesingVars
<1> QED
  BY <1>1, <1>2, <1>3 DEF Announces, Extract, Timeline, workerVars, channelVars

LEMMA FollowsEvent ==
  ASSUME TypeOK, LockInv, NEW t \in Threads, Follows(t)
  PROVE  LET e == Playback(timelineId, loc[t].song) IN
         /\ e \in HookEvent
         /\ Enqueue(e)
         /\ UNCHANGED <<timelineId, events, worker>>
         /\ alive /\ alive'
<1>1. timelineId \in Nat /\ loc[t].song \in Songs \cup {NoSong}
  BY DEF TypeOK, CaptureOK, Locals
<1>2. Playback(timelineId, loc[t].song) \in HookEvent
  BY <1>1, PlaybackType
<1>3. alive /\ alive'
  BY DEF Follows, Play, LockInv, wesingVars
<1> QED
  BY <1>2, <1>3 DEF Follows, Play, workerVars, channelVars

LEMMA FlowStep ==
  ASSUME TypeOK, TypeOK', OrderInv, DllStep
  PROVE  InOrder' /\ (alive' => AtMost(Pipeline', timelineId'))
<1>1. ASSUME Thins, ~alive' \/ UNCHANGED <<alive, timelineId>>
      PROVE  InOrder' /\ (alive' => AtMost(Pipeline', timelineId'))
  BY <1>1, ThinsFlow DEF OrderInv
<1>2. ASSUME NEW t \in Threads, Announces(t)
      PROVE  InOrder' /\ (alive' => AtMost(Pipeline', timelineId'))
  BY <1>2, AnnouncesEvent, EnqueueFlow DEF OrderInv, Timeline
<1>3. ASSUME NEW t \in Threads, Follows(t)
      PROVE  InOrder' /\ (alive' => AtMost(Pipeline', timelineId'))
  BY <1>3, FollowsEvent, EnqueueFlow DEF OrderInv, Playback
<1>4. CASE HostMoves
  BY <1>1, <1>4, HostFlow DEF Thins
<1>5. CASE HookStep
  BY <1>1, <1>2, <1>3, <1>5, HookFlow DEF Thins
<1> QED
  BY <1>4, <1>5 DEF DllStep

LEMMA OrderStep == TypeOK /\ TypeOK' /\ OrderInv /\ DllStep => OrderInv'
BY FlowStep, LockStep, ReplyStep DEF OrderInv

\* Past CAPTURE_STATE's lock a render thread is alone, and no lyric event under
\* way carries an id above the recorded one.
THEOREM OrderInductive == HookSafety => []OrderInv
<1>1. OpenInit => OrderInv
  BY OpenIsDll, FlowInit, LockInit DEF OrderInv
<1>2. TypeOK /\ TypeOK' /\ OrderInv /\ [OpenNext]_hookVars => OrderInv'
  BY OpenStep, OrderStep
<1> QED
  BY <1>1, <1>2, TypeCorrect, PTL DEF HookSafety

\* However many render threads race for CAPTURE_STATE, and whatever the full
\* queue drops, the host meets the timelines in the order of their ids and
\* every position after its timeline.
THEOREM LyricsInOrder == HookSafety => []InOrder
<1>1. OrderInv => InOrder
  BY DEF OrderInv
<1> QED
  BY <1>1, OrderInductive, PTL

==============================================================================
