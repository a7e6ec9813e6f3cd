# A TLA+ development of KG Capture

KG Capture shows the lyrics of the karaoke program WeSing in a window of its
own. A host program (x64) starts WeSing through an injector (x86); a hook DLL
inside WeSing detours two rendering methods, reads the lyric model out of
WeSing's memory and sends it over IPC. What can go wrong lies between the parts:
WeSing's render threads, the hook's two threads, the injector, and the host's
user interface, stream threads and connect threads all run at once, in three
processes each of which may vanish at any moment.

The modules model that program as its source has it, TLC checks them on small
instances, and TLAPS proves the central results for every instance. `hook`,
`injector`, `connection` and `app` below stand for
`src/crates/kg-capture-hook/src/lib.rs`,
`src/crates/kg-capture-injector/src/main.rs`,
`src/crates/kg-capture-app/src/connection.rs` and
`src/crates/kg-capture-app/src/main.rs`.

## 1. Inventory

| Component | State | Operations | Hard because | Correct when |
|---|---|---|---|---|
| Protocol (`kg-capture-protocol`) | none | `HostCommand`, `HookEvent`, `LyricTimeline`, `PlaybackPosition`, `HookBootstrap` | events of two producers share a channel | every event can be attributed |
| Hook: capture | `CAPTURE_STATE` (identity, timeline id), `NEXT_TIMELINE_ID`, `EVENT_QUEUE`, `QUEUE_FAILURES`, `IN_HOOK` | `standard_update_hook`, `live_update_hook`, `capture_render_state`, `queue`, event worker | runs on WeSing's render threads; bounded queue that drops; memory that changes under the reader | never blocks; events in order; losses known |
| Hook: command loop | `HOOKS_ACTIVE`, two detours | `command_loop`, `install_hooks`, `disable_hooks` | host may die; patching may fail halfway; waits 15 s for a DLL | fails closed; unhooks when the host goes |
| Hook: reader | none | `read_timeline`, `read_line`, `read_word` | entries may be unreadable | line numbers keep their meaning |
| Hook: start-up | `EVENT_QUEUE` and the other statics | `kg_capture_start`, `run_hook` | may be started twice in one process | one session is served |
| Hook: PE scan | none | `PeImage`, `find_virtual_method`, `verify_update_target` | arbitrary images, pages that cannot be read | finds the method or fails |
| Injector | `LaunchedProcess`, `EntrypointGate`, remote allocations | `run`, `inject`, `call_remote`, the drops | every call may fail or hang; races Windows' loader; a remote thread may be late | WeSing held until hooked; failure leaves nothing; parameters readable |
| Host: connect | accept thread, injector child | `Session::connect` | late or absent handshake; check and launch far apart | always ends; one WeSing |
| Host: application | `App` (connection, session, timeline, playback) | `App::update`, `handle_hook_event` | messages of several sessions' streams, none labelled | shows the truth |
| Host: event stream | IPC receiver, bounded channel | `event_stream` | is never cancelled | nothing lost; its end is noticed |
| Host: lyrics window | none of its own | `lyric_view`, `current_line_view` | times come from foreign memory | right lines, sane highlights |
| xtask: smoke test, fixture | PID file, `SmokeFixture`, `FIXTURE_TIMELINE_SENT` | `smoke_test_fixture`, `SmokeFixture::drop`, `emit_fixture` | returns early in many places; a PID file outlives its run | returns; cleans up after itself |
| Appearance, fonts, logs, building | settings, files | -- | -- | not modelled, see section 8 |

Interactions: the application runs `Session::connect` on a worker thread;
connect runs the injector and waits for the handshake; the injector creates
WeSing suspended, loads the DLL and calls `kg_capture_start` by remote threads;
the DLL connects back and hands over the ends of a command and of an event
channel; the application sends `StartCapture` and opens an event stream;
WeSing's calls of the detoured methods feed the bounded queue, a worker moves
it to the event channel, the stream moves that to the application's inbox.
The command loop answers on the same event channel, past the queue.

The hazards of this code, each at its line and with the properties that cover
it, are listed in `PROJECT.json`.

## 2. Modules

| Module | Models | How state and actions correspond |
|---|---|---|
| `Protocol` | the messages | an event is a kind, a timeline id and the song its lines or position come from; each error text is a kind |
| `HookDll` | hook, from the sent handshake on | one variable per static; `pc`, `loc` are the render threads in `capture_render_state`; `worker` the event in the worker's hands; `loop`, `reply` the command loop. `Enter`, `GiveUp`, `Snapshot`, `Extract`, `Play` are a callback; `WorkerTake/Send/Break` the worker; `Recv*`, `Install*`, `SendReply` the command loop. The host is `AnyHost`: any commands, reads or not, drops what it likes |
| `HostHandlers` | app 225-422 | one operator on the record `App` per message |
| `LyricFeed` | abstract: what carries the lyrics | one feed from WeSing to the window that may lose an event where it enters, and its youngest ones when WeSing ends, but never doubles or reorders any |
| `KgCapture` | one session end to end | `HookDll` composed with the host: `StreamRecv/StreamEnd` (event stream), `HandleMessage`, `UserDisconnects`, `UserClosesWindow`, `HostCrashes`. `Feed` is the refinement mapping to `LyricFeed`: the lyric events of the queue, the worker, the pipe, the stream and the inbox in one |
| `HeldLaunch` | abstract: what launching promises | WeSing is held, hooked, released; it may end |
| `Launcher` | one `Session::connect` with injector, WeSing and hook start | a program counter per party; every injector action can instead be `Fail`, which is the error path with `LaunchedProcess::drop` |
| `Attach` | further injectors with `--pid` in the WeSing of a launch, and the hooks they start | `attacher` is `inject` with its error path, `call`, `read` and `memory` are the remote thread and its parameter, `guest` is the `run_hook` thread, `owner` is who has set `EVENT_QUEUE`. A step of the launch is one of `Launcher`, whose hook needs the queue as well |
| `SmokeTest` | xtask 178-322, the fixture and the hook's fixture mode | `Launcher`'s injector and hook with the test in the place of the host; `pidFile` says whose id the file holds, `fixture` whose the `SmokeFixture` holds, if the file could be read; `Return` is an early return or the last one, with the drop; `Kill` is the drop, in which both `taskkill` and the removal of the file may fail |
| `EitherLaunch` | who launches | a launch is the application's (`Attach`) or the smoke test's (`SmokeTest`), from its beginning to its end |
| `HostSessions` | several launches | per launch: connect, WeSing, hook, event stream; one `App` for all |
| `Filter` | the loops that push what they accept (hook 686-695, 728-734) | the elements of a sequence that are in a set, as a recursive function |
| `LyricReader` | hook 675-779 | operators on the lyric vector |
| `LyricView` | app 639-755 | operators on timeline and position |
| `LyricPath` | reader and view composed | `Render` is a callback at any position |
| `ModuleScan` | hook 785-1075, `PeImage` | operators on an image: cells, page attributes and section headers. `UpdateMethods` is the reference definition, `UpdateTarget` the code's search |
| `HookedLyrics` | `ModuleScan` before `LyricPath` | `Install` searches the image; without a method there are no callbacks |
| `HookDllProofs`, `KgCaptureProofs`, `LauncherProofs`, `AttachProofs`, `SmokeTestProofs`, `HostSessionsProofs`, `FilterProofs`, `LyricPathProofs` | theorems | section 6 |
| `MCHookDll`, `MCKgCapture`, `MCLyricPath`, `MCHookedLyrics` | instances for TLC | symmetry sets, durations, images |

The definitions marked `Mutant_` are plausible slips in the code (a lock that
does not exclude, a drop nobody counts, an exit status not read). They are used
by no specification; putting one in the place of the definition after it makes
the property named in `PROJECT.json` fail, which shows that the property
depends on that line of the code.

Abstractions that matter:

- *A step of a render thread* is what it does between two points at which
  another thread can make a difference: reading `HOOKS_ACTIVE`, the `try_lock`
  with the snapshot and the draw of an id, the queueing of the timeline, the
  queueing of the position. `IN_HOOK` is the thread's own position.
- *A song's text* is a model value in an address range. What the hook compares
  are the class and the range (hook 412), as in the code. `AddressReuse` says
  whether WeSing may put another song in a range it used before;
  `ExtractionFails` whether a model may be unreadable.
- *Pipes and channels* are sequences with a capacity; a send on a full pipe
  blocks, a send to a closed one fails.
- *Deadlines* may run out at any moment.
- *The death of a process* takes all of its threads at once. What it put into a
  pipe can still be read.
- *Freed memory* that a thread reads belongs to somebody else, so that the call
  fails, or to nobody, so that the process ends.
- *A process id* is known by whose it was: the fixture's or that of an earlier
  run. Once that process has ended, Windows may have given the id to a stranger.
- *An image* is cells of four bytes; the distances between a type descriptor and
  its name, a locator and its fields, a vtable and its slot are constants that
  the instance scales down.
- *A remote thread of a process that dies* returns the process's exit code,
  which the injector may take for success or for failure.

## 3. What is checked

| Run | Question | Distinct states |
|---|---|---|
| `HookDetours` | does the DLL fail closed, never block WeSing, unhook when the host goes? | 149 k |
| `KgSafety` | does a session implement `LyricFeed`, is a loss counted, the status true, the display monotone, a readable song's position only shown against its own lines? | 851 k |
| `KgLiveness` | do timelines arrive, starts get answers, disconnects unhook? | 81 k |
| `Launch` | does a launch, by the application with an injector attaching or by the smoke test, implement `HeldLaunch`, end, and clean up; does one hook serve; when may the test leave its fixture running? | 17.0 k |
| `Lyrics` | is the update method found in every image; does the window show the right lines with sane highlights? | 238 k |
| `Sessions` | do overlapping sessions get answers, lose their hooks, get noticed? | 15.4 k |
| `KgReuse`, `KgLate`, `Freed`, `LyricsSkipped`, `SessionsTwice`, `SmokeStranger` | see section 5 | -- |

The properties of each run are in its `.cfg` and explained where they are
defined. The passing runs read:

- *In order.* Two render threads race for `CAPTURE_STATE`; the queue drops what
  does not fit; still the host meets timelines in the order of their ids and
  positions after their timelines (`InOrder`, `NeverBackwards`). Every step of
  the session, a crash of either process included, is one of `LyricFeed` or
  none (`LyricsAreAFeed`): nothing on the way loses an event for another reason
  than a full queue or the end of WeSing, and the five buffers keep one order.
- *The shown song.* A position on display carries the shown timeline's id and
  stems from the shown song or from a model that could not be read
  (`PlaybackOfShownSong`). The second is what the code does: an unreadable model
  sends positions under the old id.
- *Losses.* The queue is the only place where a timeline can be lost, and it
  counts (`LossIsCounted`). With nothing counted, every recorded timeline is
  shown or overtaken (`TimelineShown`). A timeline that the full queue drops is
  *not* sent again while the song stays (its identity has been recorded).
- *WeSing is not harmed.* A callback always returns (`RenderReturns`), an
  unknown build is never patched (`FailClosed`), a host that disconnects,
  closes or is killed leaves no active hook (`HostGoneUnhooks`,
  `ShutdownHonoured`; with `DetourFails`, an `Err` of `disable` is ignored as
  hook 346 does, so only the flag is promised), a failed launch leaves no
  process (`FailureLeavesNothing`), and a late handshake no hook
  (`NoOrphanHook`).
- *Injectors that attach* end whatever the remote side does (`AttachEnds`), and
  however many hooks they start in one WeSing, one at most serves
  (`ServesOneSession`), because `EVENT_QUEUE` can be set once. The rest of the
  launch's properties hold beside them.
- *The smoke test* returns (`SmokeReturns`). When it does, its fixture has ended
  on every path, early returns and failed injectors included, but for three
  cases that `SmokeLeavesNoFixture` names: the PID file could not be read, so
  that there is no `SmokeFixture` to drop; `taskkill` failed, whose result the
  code ignores; or the injector was killed before it replaced an earlier run's
  id. Whom else it kills is a finding (`SmokeStranger`).
- *The scan* agrees with its reference definition (`ScanFindsMethod`): whenever
  the class's name occurs once and whole, and a locator and a vtable of it lead
  to code with the known prologue, it finds such code, past pages that cannot be
  read, sections that do not fit and pieces of other tables; otherwise nothing
  is detoured. A name across two regions, or after a copy of it, is not found.
- *The window tells the truth.* `StreamingIsTrue`, `StartAnswered`,
  `ConnectingEnds`, `ExitNoticed`.

## 4. Bounds and fairness

| Bound | Value | Why it is enough |
|---|---|---|
| `Threads` | 2 in `KgSafety`, 1 elsewhere | WeSing has two lyric windows; a race needs two. Two are too many for liveness; `RenderReturns` of one thread is affected by another only through `try_lock`, which never waits |
| `Songs`, `Regions` | 2 in `KgSafety`, 1 or 2 elsewhere | a wrong song needs a second one |
| `Windows` | one class in `KgSafety`, both elsewhere | the class is one more component of an identity, of which two addresses already give two values |
| `QueueCap`, `EventsCap`, `InboxCap` | 1 or 2 (64, the pipe, 16 in the code) | full, empty and, at 2, neither, with every buffer full at once within reach |
| `CommandsCap` | 1 | the host's next command waits, none is lost; commands still arrive in every order |
| `MaxId` | 1 or 2 | an older and a newer timeline; ids are only compared |
| `MaxFailures` | 0 or 1 | the counter saturates; properties ask whether it is zero |
| `Attachers` | 1 in `Launch` and `Freed` | with the launch's, two hooks meet in one process, in either order, and two injectors overlap. For any number see section 6 |
| `FeedCap` | 3 | the fixture's timeline and first position, and a full feed |
| `Images`, `PageCells` and the offsets | 12 cells in pages of 2, distances of 0-2 | every content of four cells behind any start of a locator, every choice of page attributes, and headers that are short, long or lie; two candidates, two locators, a name within and across pages |
| `MaxSessions` | 3 | an old, a current and a pending launch |
| `MaxLines` | 3 | a line before and after the active one; a skipped entry between two lines of the window |
| `MaxWords`, `MaxAllWords` | 2 in a line, 3 in all | a word before and after; the words of one line do not affect another's, and three give each of three lines one |
| `MaxPosition` | 3 | positions before, in and after a word |
| `Scale` | 2 | progress 0, a half, 1 |

The symmetry sets are used in safety runs only. Durations are negative, zero or
positive because `valid_time` bounds the absolute value only.

Fairness is weak, with one exception, and given to threads the operating system schedules: render
threads *inside* a callback, the worker, the command loop, the stream thread,
the application's message loop, connect, the injectors, the smoke test and the
hook's thread.
Nothing is assumed of the user, of WeSing (it need not render, load
`KSongsUI.dll` or exit), of the host in `HookSpec` (it may stop reading for
ever), of Windows' loader or of the remote threads. The 15 s wait and the 10 s
handshake are enabled to run out all the time, so fairness of their thread is
the deadline.

`SmokeEnds` has a fairness of its own: the test's last loop asks the clock on
every turn, so a fixture that never stops singing cannot keep it there.

One fairness is strong: the command loop's answer and the worker's events wait
for room in the same pipe, and Windows serves blocked writers of a pipe in turn,
so the answer is not overtaken for ever (`SF_hookVars(SendReply)`). Without it a
WeSing that keeps rendering the same song could keep `CaptureStarted` out, and
TLC finds that `StartAnswered` fails.

Deadlock is checked in every run. The stuttering disjuncts `BothGone`, `Over`,
`SmokeOver`, `Done`, `Refused` and `NoLyrics` name the states in which the system has really stopped.

## 5. Where code and documentation differ

Six runs expect a violation; each trace is a few steps long.

- `KgReuse` -- the identity of a lyric model is a pair of addresses: a new song
  at the old address gets no `LyricTimeline`, and its positions highlight the
  old song's lines. The README says a timeline is "sent when the lyric model
  changes".
- `KgLate` -- a `CaptureStarted` under way during a disconnect makes the window
  say that it streams, without a session, right after it said "disconnected".
- `Freed` -- a remote call that times out drops the allocation of its parameter,
  and the remote thread, if it runs after that, reads freed memory in WeSing,
  which goes on with `--pid`. `kg_capture_start` asks for a readable one.
- `LyricsSkipped` -- an entry that the reader skips shifts every later line by
  one, because the view uses WeSing's line number as a position in the shortened
  timeline. `LyricLine.index` would tell.
- `SessionsTwice` -- an event of an older stream re-enables *Launch* while a
  connect is pending; both connects find no WeSing and both launch one.
- `SmokeStranger` -- an earlier run's PID file that could not be removed is read
  although the injector has failed, and `taskkill` ends whatever process has its
  id by now. The fixture's own id is no safer once the fixture has ended and
  Windows has reused it. The comment in `SmokeFixture::drop` says that cleanup
  cannot target an unrelated process.

All six need several parties, or several failures, in an unlucky order.

## 6. What is proved

Eight modules are checked by TLAPS to the last leaf, from the named assumptions
on the constants only. Where a theorem needs more, it says so as a hypothesis
of its own; there are two of these, both explained below. Every safety property
of a passing run has a theorem, with one exception, `ScanFindsMethod`.

`HookDllProofs` (any number of render threads, songs and address ranges, any
capacities, all three switches free, any host). The lemmas are about `DllStep`,
a step of the DLL, of WeSing or of *any* user of the channels, so that
`KgCapture` can use them as well:

- `TypeCorrect`, `HooksAreDetoured` -- directly inductive.
- `UnknownBuildFailsClosed` -- needs that a refused build can only put an error
  into the reply, and that the queue stays empty because no callback can enter.
- `LyricsInOrder` -- `InOrder` is not inductive: that the next event fits behind
  the ones under way depends on who holds the lock. The strengthening
  `OrderInv` (`OrderInductive`) says: past the lock a thread is alone; the
  recorded id is below the next one; an id that has been drawn but not recorded
  lies between; and nothing under way carries an id above the recorded one.
  `HookFlow` sorts the steps of WeSing and the DLL, once for all proofs: one
  queues an event of its thread, or moves along what is under way, or, when the
  host or WeSing has gone, loses what is not in the pipe yet.

`KgCaptureProofs` (the same, and any capacity of the inbox). `HostIsAny` and
`KgIsDll` show that a step of the session is a `DllStep`, which brings in all of
the above (`KgPipelineInOrder`); what is added is what lies beyond the pipe:

- `KgTypeCorrect` -- with `Proper`: nothing of the kind "None", which stands for
  the absence of an event, is ever queued or sent, so the application has a case
  for every message.
- `NeverGoesBack` -- `FeedInOrder`: the inbox continues the order of the
  pipeline, what is on display precedes everything pending, and nothing is above
  the recorded id.
- `TimelineShownOrCounted` -- `Accounted`: the recorded timeline is on display,
  pending, or the counter is positive. Hypothesis `MaxFailures > 0`: the counter
  of the code has no such bound, and one of 0 could not count anything.
- `StreamingMeansCapturing` -- `CapturingInv`: a session sends one `StartCapture`
  and keeps its sender, so the command loop cannot have ended; and until
  `HOOKS_ACTIVE` is set no `CaptureStarted` is on its way.
- `PlaybackBelongs` -- `ReadInv` and `SameSong`: the song that a thread under
  the lock has read is that of its address range, and all that is pending or on
  display under one id is of one song. Hypothesis `~AddressReuse`: otherwise the
  claim is false, as `KgReuse` shows.
- `SessionIsAFeed` -- the refinement: every step of a session is a step of
  `LyricFeed` or a stutter. The feed is `Carried`, the lyrics among inbox, pipe,
  worker's hands and queue. `Filter` distributes over these four
  (`LyricsJoined`), so a step can be followed part by part: what moves from one
  part to the next leaves the whole alone, an event queued is appended to it, the
  inbox's head is its head, and the end of WeSing leaves a prefix. `Named` is
  needed besides: a pending position has an id above 0, so that none is taken
  for the empty display's.
- `UnknownBuildShowsNothing` -- with `Silent`: fail-closed as the user sees it.

`LauncherProofs`:

- `LaunchInductive` -- `LaunchInv`: what the injector's position says of WeSing
  (`StageInv`), that a WeSing without the hook is held even when the injector
  has been killed (`HoldInv`), and that the handshake belongs to the hook that
  serves (`HandshakeInv`).
- `LaunchTypeCorrect`, `FailedLaunchLeavesNothing`, `SessionServed` follow.
- `HeldRefinement` -- `Launcher` implements `HeldLaunch`: initial states map to
  initial states and, under `LaunchInv`, every step to a step or a stutter.

`AttachProofs` (any number of attaching injectors):

- `AttachIsLaunch` -- a step of `Attach` is a step of `Launcher` or leaves its
  variables alone: what an attacher does in WeSing can at most end it
  (`WeSingDies`, which `Launcher` has). With `LaunchKeeps` this carries the
  launch's invariant over (`AttachedLaunchInductive`), and with it
  `AttachedSessionServed` and `AttachedHeld`, without a proof step of the launch
  done twice.
- `AttachTypeCorrect` -- the attachers' variables, with the end of WeSing
  clearing all of them at once.
- `OneSession` -- `ServesOneSession` is not inductive: `served` is a history, and
  a hook that starts to serve must be the only one ever. `ServedInv` says that
  whoever has served owns the queue; `TakeQueue` lets nobody serve who does not
  set it, and nobody unsets it.

`SmokeTestProofs`:

- `SmokeLaunches` -- a step of the test is one of `Launcher`, or a `Return`, or
  its failure to start an injector at all. So the launch keeps `LaunchInv`, and
  `FixtureHeld` carries `HeldLaunch` over.
- `SmokeCleansUp` -- `SmokeInv` adds that an injector that succeeds has written
  its own fixture's id, which the test holds before it goes on (`OwnInv`); so
  once the test has returned, a fixture that lives is one whose id could not be
  read, one that `taskkill` failed for, or one whose injector was killed
  (`CleanInv`). An injector that reported an error has ended it itself, which
  `LaunchInv` knows.

`HostSessionsProofs` (any number of launches, any capacity of the streams):

- `SessionsTypeCorrect` -- with the types of the streams' messages.
- `EndsAreNoticed` -- `SessionEnds`: the session that the application holds has
  a stream that runs, or one whose `Err` is still in its inbox. That the `Err` is
  then handled is `ExitNoticed`, which TLC checks.

`FilterProofs` -- `Filter` is recursive, and no prover takes a predicate as a
parameter. But a predicate over naturals or sequences is a *set* of them, which
can be a parameter: `NatInduct` and `SeqInduct` state induction so, from the
least element of a set of naturals (`NatMin`), and each lemma about `Filter`
gives them the set of the values for which it holds. `FilterConcat` is what
`SessionIsAFeed` rests on. `FilterPlaces` says that filtering the places 1..n
yields exactly the wanted ones, in ascending order (`Lists`).

`LyricPathProofs` (lyric vectors of every length and contents, every start and
duration, every `Scale`, every setting of the window, about `HookedSpec`):

- `PathInv` -- the timeline on display is the one read from the vector that
  WeSing still has. By `FilterPlaces` it is the vector's readable lines at
  ascending places (`ReadFrom`).
- `ActiveIsPlayed` -- if nothing before the active line was skipped, its place in
  the timeline is its place in the vector.
- `WindowFollowsSong` -- by cases on whether a line is active and whether the
  previous one is shown, the window is a stretch of the timeline
  (`WindowIsStretch`); two neighbours of it are two neighbours in `ReadFrom`,
  between which no place was accepted.
- `WordsFollow`, `HighlightAdvances` -- about integer division and clamping:
  `Highlight` is 0 before a word's start, `Scale` from its end on, and monotone
  in the position (`HighlightOverTime`).

Only model-checked: all liveness properties (`RenderReturns`, `HostGoneUnhooks`,
`TimelineShown`, `StartAnswered`, `ShutdownHonoured`, `ConnectEnds`,
`NoOrphanHook`, `AttachEnds`, `SmokeReturns`, `ConnectingEnds`,
`LetGoMeansUnhooked`, `ExitNoticed`), which depend on fairness and ENABLED, which
this prover does not handle; and the scan (`ScanFindsMethod`), whose search is
written with operators on sequences for which there are no lemmas yet. The
inductive invariants are proved and are not checked by runs of their own.

## 7. Plan

Done, in this order: the hook DLL, the session end to end, the launch with its
abstract specification, the lyric path, overlapping sessions; proofs for the
DLL and the launch.

Then `LyricFeed` as the abstract specification of a session, attaching
injectors, the smoke test, and the scan with its reference definition; proofs
for `Attach`.

Then proofs for the session end to end with its refinement of `LyricFeed`, the
overlapping sessions, the smoke test and the lyric path.

Next, to prove: `ScanFindsMethod`, by writing the search with `Filter` and
showing, by induction on the cursor, that `FindInSection` finds just the needles
that are whole; this needs images whose sections begin at pages, as Windows
maps them.

Next, to extend the model:

1. `HostSessions` with lyrics: which session's timeline is on display.
2. `valid_time`, `read_utf16` and memory that changes under the reader.

## 8. Not modelled, and why

- Appearance messages, fonts and windows: each sets one field that only drawing
  reads.
- Logs and the injector's status file: no decision depends on them.
- xtask's other commands (build, stage, verify, check the machine of a PE file):
  sequences of commands that stop at the first failure.
- `HookEvent::Warning`: only sent in the fixture's mode, and passed over.
- The bytes: serde and WeSing's structures appear as the verdicts that reading
  them gives (readable or not); malformed PE headers as an error of `Install`.
- Memory that changes between `VirtualQuery` and the read, in the reader and in
  the scan: the outcome is an access violation, which is `WeSingExits`.
- The branch of `current_line_view` for a line without words (app 717-729):
  the reader never sends one, since a line's text is the text of its words.
- A panic in a callback: it cannot leave the `extern "system"` function and so
  aborts WeSing, which is `WeSingExits`; the lock is never found poisoned.
