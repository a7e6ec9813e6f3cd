------------------------------- MODULE HookDll -------------------------------
(***************************************************************************)
(* The hook DLL inside WeSing (crates/kg-capture-hook/src/lib.rs), from    *)
(* the moment its IPC handshake has been sent.  Four kinds of threads:     *)
(*                                                                         *)
(*   - WeSing's render threads, which run capture_render_state after each  *)
(*     call of a detoured update method;                                   *)
(*   - the event worker, which moves events from the bounded queue to the  *)
(*     IPC channel;                                                        *)
(*   - the command loop, which installs and removes the detours and        *)
(*     answers on the same IPC channel, past the queue;                    *)
(*   - the rest of WeSing, which loads KSongsUI.dll, changes the lyric     *)
(*     models the render threads read, and may exit.                       *)
(*                                                                         *)
(* The host is the environment: any process that sends commands, reads     *)
(* events, and drops its ends of the two channels.                         *)
(***************************************************************************)
EXTENDS Protocol, Sequences, FiniteSets

CONSTANTS
  Threads,          \* render threads
  NoThread,         \* CAPTURE_STATE is not locked
  Windows,          \* bound: the classes WeSing opens a window of
  Regions,          \* address ranges [lines_begin, lines_end)
  NoRegion,         \* the render object is not readable
  QueueCap,         \* sync_channel capacity (64 in the code)
  EventsCap,        \* events the IPC pipe holds before a send blocks
  CommandsCap,      \* bound: commands in flight
  MaxId,            \* bound: timeline ids drawn from NEXT_TIMELINE_ID
  MaxFailures,      \* bound: QUEUE_FAILURES saturates here
  ExtractionFails,  \* WeSing may show a model from which no line can be read
  AddressReuse,     \* WeSing may put another song at an address it used before
  DetourFails       \* patching a function may fail

\* The detoured classes, in the order their detours are enabled.
Sources == {"Standard", "LiveShow"}

ASSUME HookAssumption ==
  /\ Windows \subseteq Sources
  /\ NoThread \notin Threads
  /\ NoRegion \notin Regions
  /\ QueueCap \in Nat \ {0}
  /\ EventsCap \in Nat \ {0}
  /\ CommandsCap \in Nat \ {0}
  /\ MaxId \in Nat
  /\ MaxFailures \in Nat
  /\ {ExtractionFails, AddressReuse, DetourFails} \subseteq BOOLEAN

VARIABLES
  alive,          \* the WeSing process runs
  dll,            \* KSongsUI.dll is loaded
  supported,      \* classes whose update method has the known prologue
  wnd,            \* the region each class's window renders from
  mem,            \* the song whose lines lie at each region
  hooksActive,    \* HOOKS_ACTIVE
  detours,        \* classes whose detour is enabled, so its prologue patched
  holder,         \* the render thread that holds CAPTURE_STATE's mutex
  identity,       \* CaptureState.identity
  timelineId,     \* CaptureState.timeline_id
  nextId,         \* NEXT_TIMELINE_ID
  pc,             \* where each render thread is in capture_render_state
  loc,            \* its locals
  queue,          \* EVENT_QUEUE
  queueFailures,  \* QUEUE_FAILURES, saturating
  worker,         \* the event the event worker has received and not yet sent
  workerUp,       \* the event worker's loop runs
  loop,           \* where the command loop is
  reply,          \* the event it is about to send
  commands,       \* IPC channel host -> hook
  events,         \* IPC channel hook -> host
  cmdOpen,        \* the host still holds its command sender
  evtOpen         \* the host still holds its event receiver

wesingVars == <<alive, dll, supported, wnd, mem>>
captureVars == <<holder, identity, timelineId, nextId, pc, loc>>
queueVars == <<queue, queueFailures>>
workerVars == <<worker, workerUp>>
loopVars == <<hooksActive, detours, loop, reply>>
channelVars == <<commands, events, cmdOpen, evtOpen>>

hookVars ==
  <<wesingVars, captureVars, queueVars, workerVars, loopVars, channelVars>>

------------------------------------------------------------------------------

NoIdentity == <<>>

Local(src, region, song, id) == [src |-> src, region |-> region, song |-> song, id |-> id]

NoLocals == Local("Standard", NoRegion, NoSong, 0)

Locals ==
  [src: Sources, region: Regions \cup {NoRegion}, song: Songs \cup {NoSong}, id: Nat]

WeSingOK ==
  /\ alive \in BOOLEAN /\ dll \in BOOLEAN
  /\ supported \subseteq Sources
  /\ wnd \in [Sources -> Regions \cup {NoRegion}]
  /\ mem \in [Regions -> Songs \cup {NoSong}]

CaptureOK ==
  /\ holder \in Threads \cup {NoThread}
  /\ identity \in (Sources \X Regions) \cup {NoIdentity}
  /\ timelineId \in Nat /\ nextId \in Nat
  /\ pc \in [Threads -> {"idle", "entered", "changed", "play"}]
  /\ loc \in [Threads -> Locals]
  /\ \A t \in Threads : pc[t] = "changed" => loc[t].region \in Regions

QueueOK ==
  /\ queue \in Seq(HookEvent) /\ Len(queue) <= QueueCap
  /\ queueFailures \in 0..MaxFailures

WorkerOK == worker \in HookEvent /\ workerUp \in BOOLEAN

LoopOK ==
  /\ hooksActive \in BOOLEAN /\ detours \subseteq Sources
  /\ loop \in {"recv", "waiting", "reply", "done"}
  /\ reply \in HookEvent

ChannelOK ==
  /\ commands \in Seq(HostCommand)
  /\ events \in Seq(HookEvent) /\ Len(events) <= EventsCap
  /\ cmdOpen \in BOOLEAN /\ evtOpen \in BOOLEAN

TypeOK == WeSingOK /\ CaptureOK /\ QueueOK /\ WorkerOK /\ LoopOK /\ ChannelOK

\* The statics after run_hook sent the handshake: DLL loaded before WeSing's
\* entry point ran, so no window exists and no lyrics are in memory yet.
HookInit ==
  /\ alive = TRUE
  /\ dll = FALSE
  /\ supported \in SUBSET Sources
  /\ wnd = [src \in Sources |-> NoRegion]
  /\ mem = [r \in Regions |-> NoSong]
  /\ hooksActive = FALSE
  /\ detours = {}
  /\ holder = NoThread
  /\ identity = NoIdentity
  /\ timelineId = 0
  /\ nextId = 1
  /\ pc = [t \in Threads |-> "idle"]
  /\ loc = [t \in Threads |-> NoLocals]
  /\ queue = <<>>
  /\ queueFailures = 0
  /\ worker = NoEvent
  /\ workerUp = TRUE
  /\ loop = "recv"
  /\ reply = NoEvent
  /\ events = <<>>
  /\ cmdOpen = TRUE
  /\ evtOpen = TRUE

------------------------------------------------------------------------------
(* WeSing, outside the hooks. *)

LoadDll ==
  /\ alive /\ ~dll
  /\ dll' = TRUE
  /\ UNCHANGED <<alive, supported, wnd, mem, captureVars, queueVars, workerVars, loopVars, channelVars>>

\* The window of src renders the lyric vector at r, which holds song s.
\* Without AddressReuse the text at an address never changes once it is there.
ShowModel(src, r, s) ==
  /\ alive
  /\ AddressReuse \/ mem[r] \in {NoSong, s}
  /\ ExtractionFails \/ s # NoSong
  /\ wnd' = [wnd EXCEPT ![src] = r]
  /\ mem' = [mem EXCEPT ![r] = s]
  /\ UNCHANGED <<alive, dll, supported, captureVars, queueVars, workerVars, loopVars, channelVars>>

CloseWindow(src) ==
  /\ alive
  /\ wnd' = [wnd EXCEPT ![src] = NoRegion]
  /\ UNCHANGED <<alive, dll, supported, mem, captureVars, queueVars, workerVars, loopVars, channelVars>>

\* WeSing exits or is killed: everything in the process is gone, what the pipe
\* already holds can still be read.
WeSingExits ==
  /\ alive
  /\ alive' = FALSE
  /\ dll' = FALSE
  /\ wnd' = [src \in Sources |-> NoRegion]
  /\ mem' = [r \in Regions |-> NoSong]
  /\ hooksActive' = FALSE /\ detours' = {}
  /\ holder' = NoThread /\ identity' = NoIdentity /\ timelineId' = 0
  /\ pc' = [t \in Threads |-> "idle"]
  /\ loc' = [t \in Threads |-> NoLocals]
  /\ queue' = <<>>
  /\ worker' = NoEvent /\ workerUp' = FALSE
  /\ loop' = "done" /\ reply' = NoEvent
  /\ commands' = <<>>
  /\ UNCHANGED <<supported, nextId, queueFailures, events, cmdOpen, evtOpen>>

WeSing ==
  \/ LoadDll
  \/ \E src \in Windows, r \in Regions, s \in Songs \cup {NoSong} : ShowModel(src, r, s)
  \/ \E src \in Windows : CloseWindow(src)
  \/ WeSingExits

------------------------------------------------------------------------------
(* Render threads: standard_update_hook and live_update_hook, then           *)
(* capture_render_state.  A step is what the thread does between two points  *)
(* where another thread can make a difference.  log_callback, the call of    *)
(* the original and the tests on the arguments change nothing here.  IN_HOOK *)
(* is the thread's own pc: a thread inside is not idle.                      *)

Mutant_LockFree == TRUE   \* lock() of a mutex that does not exclude

LockFree == holder = NoThread

Goto(t, label) == pc' = [pc EXCEPT ![t] = label]

\* Returning drops the locals and, for the thread that has it, the guard.
Return(t) ==
  /\ Goto(t, "idle")
  /\ loc' = [loc EXCEPT ![t] = NoLocals]

Mutant_Room == workerUp /\ Len(queue) <= QueueCap   \* off by one

Room == workerUp /\ Len(queue) < QueueCap

\* send in the place of try_send: the render thread waits for the host.
Mutant_Enqueue_blocks(e) ==
  /\ Room
  /\ queue' = Append(queue, e)
  /\ UNCHANGED queueFailures

\* An event that does not fit is dropped and nobody counts it.
Mutant_Enqueue_silent(e) ==
  /\ queue' = IF Room THEN Append(queue, e) ELSE queue
  /\ UNCHANGED queueFailures

\* queue(): try_send, which drops the event when the queue is full or the
\* worker has gone, and only counts it.
Enqueue(e) ==
  \/ /\ Room
     /\ queue' = Append(queue, e)
     /\ UNCHANGED queueFailures
  \/ /\ ~Room
     /\ queueFailures' = IF queueFailures < MaxFailures THEN queueFailures + 1 ELSE MaxFailures
     /\ UNCHANGED queue

\* The detoured method has been called and HOOKS_ACTIVE read.  A callback that
\* reads FALSE returns without effect, and one that reads TRUE came through a
\* detour that is enabled (ActiveMeansDetoured).
Enter(t, src) ==
  /\ alive
  /\ pc[t] = "idle"
  /\ src \in detours
  /\ hooksActive
  /\ nextId <= MaxId
  /\ Goto(t, "entered")
  /\ loc' = [loc EXCEPT ![t] = Local(src, NoRegion, NoSong, 0)]
  /\ UNCHANGED <<wesingVars, holder, identity, timelineId, nextId, queueVars, workerVars, loopVars, channelVars>>

\* try_lock fails, or read_snapshot does with the guard dropped at once.
GiveUp(t) ==
  /\ pc[t] = "entered"
  /\ ~LockFree \/ wnd[loc[t].src] = NoRegion
  /\ Return(t)
  /\ UNCHANGED <<wesingVars, holder, identity, timelineId, nextId, queueVars, workerVars, loopVars, channelVars>>

\* try_lock, read_snapshot and the comparison with the recorded identity; a
\* changed identity draws an id at once.
Snapshot(t) ==
  LET region == wnd[loc[t].src] IN
  /\ pc[t] = "entered"
  /\ LockFree
  /\ region # NoRegion
  /\ holder' = t
  /\ \/ /\ identity # <<loc[t].src, region>>
        /\ loc' = [loc EXCEPT ![t] = Local(loc[t].src, region, mem[region], nextId)]
        /\ nextId' = nextId + 1
        /\ Goto(t, "changed")
     \/ /\ identity = <<loc[t].src, region>>
        /\ loc' = [loc EXCEPT ![t] = Local(loc[t].src, region, mem[region], 0)]
        /\ Goto(t, "play")
        /\ UNCHANGED nextId
  /\ UNCHANGED <<wesingVars, identity, timelineId, queueVars, workerVars, loopVars, channelVars>>

\* read_timeline: lines are read, the identity is recorded and the timeline is
\* queued; without lines all three are skipped and the callback goes on.
Extract(t) ==
  LET lines == mem[loc[t].region] IN
  /\ pc[t] = "changed"
  /\ \/ /\ lines # NoSong
        /\ identity' = <<loc[t].src, loc[t].region>>
        /\ timelineId' = loc[t].id
        /\ Enqueue(Timeline(loc[t].id, lines))
     \/ /\ lines = NoSong
        /\ UNCHANGED <<identity, timelineId, queueVars>>
  /\ Goto(t, "play")
  /\ UNCHANGED <<wesingVars, holder, nextId, loc, workerVars, loopVars, channelVars>>

\* The position goes out under the recorded timeline's id, if there is one,
\* and the guard is dropped.
Play(t) ==
  /\ pc[t] = "play"
  /\ \/ timelineId = 0 /\ UNCHANGED queueVars
     \/ timelineId # 0 /\ Enqueue(Playback(timelineId, loc[t].song))
  /\ holder' = NoThread
  /\ Return(t)
  /\ UNCHANGED <<wesingVars, identity, timelineId, nextId, workerVars, loopVars, channelVars>>

InCallback(t) == GiveUp(t) \/ Snapshot(t) \/ Extract(t) \/ Play(t)

Render == \E t \in Threads : InCallback(t) \/ \E src \in Windows : Enter(t, src)

------------------------------------------------------------------------------
(* The event worker.  A send on the IPC channel blocks while the pipe is full *)
(* and fails once the host has dropped its receiver.                          *)

Send(e) ==
  \/ evtOpen /\ Len(events) < EventsCap /\ events' = Append(events, e)
  \/ ~evtOpen /\ UNCHANGED events

WorkerTake ==
  /\ workerUp /\ worker = NoEvent /\ queue # <<>>
  /\ worker' = Head(queue)
  /\ queue' = Tail(queue)
  /\ UNCHANGED <<wesingVars, captureVars, queueFailures, workerUp, loopVars, channelVars>>

WorkerSend ==
  /\ worker # NoEvent
  /\ evtOpen
  /\ Send(worker)
  /\ worker' = NoEvent
  /\ UNCHANGED <<wesingVars, captureVars, queueVars, workerUp, loopVars, commands, cmdOpen, evtOpen>>

\* A failed send ends the worker, and with it the queue's receiver.
WorkerBreak ==
  /\ worker # NoEvent
  /\ ~evtOpen
  /\ worker' = NoEvent /\ workerUp' = FALSE
  /\ queue' = <<>>
  /\ UNCHANGED <<wesingVars, captureVars, queueFailures, loopVars, channelVars>>

Worker == WorkerTake \/ WorkerSend \/ WorkerBreak

------------------------------------------------------------------------------
(* The command loop. *)

\* disable_hooks ignores a detour that cannot be disabled.
DisableHooks ==
  \/ detours' = {}
  \/ DetourFails /\ detours' \in SUBSET detours

RecvCommand(c) ==
  /\ loop = "recv"
  /\ commands # <<>>
  /\ c = Head(commands)
  /\ commands' = Tail(commands)
  /\ UNCHANGED <<wesingVars, captureVars, queueVars, workerVars, events, cmdOpen, evtOpen>>

RecvStart ==
  /\ RecvCommand("StartCapture")
  /\ loop' = "waiting"
  /\ UNCHANGED <<hooksActive, detours, reply>>

\* The wait for KSongsUI.dll runs out and nobody is told.
Mutant_Answer(e) ==
  \/ e.kind = "NotLoaded" /\ loop' = "recv" /\ UNCHANGED reply
  \/ e.kind # "NotLoaded" /\ loop' = "reply" /\ reply' = e

Answer(e) == loop' = "reply" /\ reply' = e

Mutant_Deactivate == UNCHANGED hooksActive /\ DisableHooks   \* the store forgotten

\* HOOKS_ACTIVE goes down before the detours do: callbacks between the two
\* return without effect, so both are one step.
Deactivate == hooksActive' = FALSE /\ DisableHooks

RecvStop ==
  /\ RecvCommand("StopCapture")
  /\ Deactivate
  /\ Answer(Control("CaptureStopped"))

RecvPing ==
  /\ RecvCommand("Ping")
  /\ Answer(Control("Pong"))
  /\ UNCHANGED <<hooksActive, detours>>

\* A command loop that just returns, the hooks still in place.
Mutant_EndLoop ==
  /\ loop' = "done"
  /\ UNCHANGED <<hooksActive, detours, reply>>

EndLoop ==
  /\ Deactivate
  /\ loop' = "done"
  /\ UNCHANGED reply

RecvShutdown == RecvCommand("Shutdown") /\ EndLoop

\* recv fails once the host has dropped its sender and nothing is left.
RecvClosed ==
  /\ loop = "recv"
  /\ commands = <<>> /\ ~cmdOpen
  /\ EndLoop
  /\ UNCHANGED <<wesingVars, captureVars, queueVars, workerVars, channelVars>>

Mutant_Verified == supported # {} /\ detours = {}   \* one method verified, not both

\* Both update methods must still start with the known prologue.  Enabling a
\* detour overwrites it, so a method already detoured is refused as well.
Verified == supported = Sources /\ detours = {}

\* install_hooks failed before it patched anything.
InstallRefused ==
  /\ loop = "waiting"
  /\ \/ ~dll /\ Answer(Control("NotLoaded"))
     \/ dll /\ ~Verified /\ Answer(Control("Unsupported"))
     \/ dll /\ Verified /\ DetourFails /\ Answer(Control("DetourFailed"))
  /\ UNCHANGED <<wesingVars, captureVars, queueVars, workerVars, hooksActive, detours, channelVars>>

\* The first detour is enabled, the second cannot be: the first one stays.
InstallHalfway ==
  /\ loop = "waiting"
  /\ dll /\ Verified /\ DetourFails
  /\ detours' = {"Standard"}
  /\ Answer(Control("DetourFailed"))
  /\ UNCHANGED <<wesingVars, captureVars, queueVars, workerVars, hooksActive, channelVars>>

Mutant_Install ==   \* CaptureStarted sent, HOOKS_ACTIVE not set
  /\ loop = "waiting"
  /\ dll /\ Verified
  /\ detours' = Sources
  /\ Answer(Control("CaptureStarted"))
  /\ UNCHANGED <<wesingVars, captureVars, queueVars, workerVars, hooksActive, channelVars>>

\* Both detours enabled, then HOOKS_ACTIVE set, then CaptureStarted sent.
Install ==
  /\ loop = "waiting"
  /\ dll /\ Verified
  /\ detours' = Sources
  /\ hooksActive' = TRUE
  /\ Answer(Control("CaptureStarted"))
  /\ UNCHANGED <<wesingVars, captureVars, queueVars, workerVars, channelVars>>

\* The answer takes the IPC channel directly and so may overtake the queue.
SendReply ==
  /\ loop = "reply"
  /\ Send(reply)
  /\ loop' = "recv" /\ reply' = NoEvent
  /\ UNCHANGED <<wesingVars, captureVars, queueVars, workerVars, hooksActive, detours, commands, cmdOpen, evtOpen>>

CommandLoop ==
  \/ RecvStart \/ RecvStop \/ RecvPing \/ RecvShutdown \/ RecvClosed
  \/ InstallRefused \/ InstallHalfway \/ Install
  \/ SendReply

------------------------------------------------------------------------------

HookStep == WeSing \/ Render \/ Worker \/ CommandLoop

\* Threads that run are scheduled; nothing makes WeSing render, load or exit.
\* A pipe serves the writers that wait for room in turn: the worker, however
\* much it has to send, does not keep the command loop's answer out for ever.
HookFairness ==
  /\ \A t \in Threads : WF_hookVars(InCallback(t))
  /\ WF_hookVars(Worker)
  /\ WF_hookVars(CommandLoop)
  /\ SF_hookVars(SendReply)

------------------------------------------------------------------------------
(* Any host: it may send every command of the protocol while it holds its    *)
(* sender, read or not read, drop the sender, or be gone altogether.         *)

\* A send fails, without effect, once the command loop has returned.
HostSend(c) ==
  /\ cmdOpen /\ loop # "done"
  /\ Len(commands) < CommandsCap
  /\ commands' = Append(commands, c)
  /\ UNCHANGED <<wesingVars, captureVars, queueVars, workerVars, loopVars, events, cmdOpen, evtOpen>>

HostReceive ==
  /\ evtOpen /\ events # <<>>
  /\ events' = Tail(events)
  /\ UNCHANGED <<wesingVars, captureVars, queueVars, workerVars, loopVars, commands, cmdOpen, evtOpen>>

HostDropsSender ==
  /\ cmdOpen
  /\ cmdOpen' = FALSE
  /\ UNCHANGED <<wesingVars, captureVars, queueVars, workerVars, loopVars, commands, events, evtOpen>>

HostExits ==
  /\ evtOpen
  /\ cmdOpen' = FALSE /\ evtOpen' = FALSE
  /\ events' = <<>>
  /\ UNCHANGED <<wesingVars, captureVars, queueVars, workerVars, loopVars, commands>>

AnyHost ==
  \/ \E c \in HostCommand : HostSend(c)
  \/ HostReceive \/ HostDropsSender \/ HostExits

OpenInit == HookInit /\ commands = <<>>

\* Both processes are gone: the only state in which nothing can happen.
BothGone == ~alive /\ ~evtOpen /\ worker = NoEvent /\ UNCHANGED hookVars

OpenNext == HookStep \/ AnyHost \/ BothGone

HookSafety == OpenInit /\ [][OpenNext]_hookVars

\* No fairness of the host: it may stop reading for ever.
HookSpec == HookSafety /\ HookFairness

------------------------------------------------------------------------------
(* What the DLL owes any host. *)

\* What is on its way to the host, oldest first; a worker with empty hands
\* shows as NoEvent.
Pipeline == events \o <<worker>> \o queue

\* f may follow e: a new timeline has a greater id, a position names the
\* timeline before it or a later one whose own event was dropped.
Precedes(e, f) ==
  \/ f.kind = "Timeline" /\ e.id < f.id
  \/ f.kind = "Playback" /\ e.id <= f.id

Ordered(s) ==
  \A i, j \in 1..Len(s) : i < j /\ IsLyric(s[i]) /\ IsLyric(s[j]) => Precedes(s[i], s[j])

\* The id of a timeline is drawn, recorded and queued under CAPTURE_STATE's
\* lock: whatever threads render and however they interleave, the host meets
\* the timelines in the order of their ids, none twice, and no position of an
\* earlier timeline after them.
InOrder == Ordered(Pipeline)

AtMost(s, k) == \A i \in 1..Len(s) : IsLyric(s[i]) => s[i].id <= k

\* Why InOrder holds: past the lock a render thread is alone, so between the
\* draw of its id and the recording of it no other id is recorded, and every
\* lyric event already under way carries at most the recorded one.
LockInv ==
  /\ \A t \in Threads : pc[t] \in {"changed", "play"} => holder = t
  /\ timelineId < nextId
  /\ \A t \in Threads : pc[t] = "changed" => timelineId < loc[t].id /\ loc[t].id < nextId
  /\ ~alive => \A t \in Threads : pc[t] = "idle"

OrderInv ==
  /\ LockInv
  /\ ~IsLyric(reply)
  /\ InOrder
  /\ alive => AtMost(Pipeline, timelineId)

\* "Unsupported DLL builds fail closed" (README): with one method that does
\* not have the known prologue, nothing is ever patched, no capture is
\* announced and no lyric reaches the host.
FailClosed ==
  supported # Sources =>
    /\ detours = {}
    /\ \A i \in 1..Len(Pipeline) :
         Pipeline[i].kind \notin {"CaptureStarted", "Timeline", "Playback"}

\* HOOKS_ACTIVE is only ever seen set while both detours are in place, across
\* stops, shutdowns, failed and repeated starts.
ActiveMeansDetoured == hooksActive => detours = Sources

Unhooked == ~hooksActive /\ (detours = {} \/ DetourFails)

\* A render thread that entered the hook leaves it, whether the host reads or
\* not, is slow or is gone: WeSing's rendering never waits for the host.
RenderReturns == \A t \in Threads : pc[t] # "idle" ~> pc[t] = "idle"

\* A host that exits or dies in the middle of anything leaves no hook behind.
HostGoneUnhooks == ~evtOpen ~> loop = "done" /\ Unhooked

==============================================================================
