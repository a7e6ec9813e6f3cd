------------------------------ MODULE SmokeTest ------------------------------
(***************************************************************************)
(* cargo xtask smoke (smoke_test_fixture in crates/kg-capture-xtask): a    *)
(* launch as in Launcher, with the fixture in WeSing's place and the test  *)
(* in the host's, the capture of what the fixture sings, and the clean-up. *)
(* The test learns the fixture's process id from a file that the injector  *)
(* writes, and has taskkill end the process of that id when it returns.    *)
(*                                                                         *)
(* The hook DLL is in fixture mode: it detours nothing, and the fixture    *)
(* (crates/kg-capture-fixture) calls kg_capture_fixture_emit itself.  Its  *)
(* queue, worker and pipe are one bounded feed here (see LyricFeed).       *)
(***************************************************************************)
EXTENDS Launcher, Naturals, Sequences

CONSTANT FeedCap   \* bound: events under way (64 in the queue alone)

ASSUME SmokeAssumption == FeedCap \in Nat \ {0}

VARIABLES
  pidFile,   \* whose id the PID file holds: its own fixture's, or "stale" for
             \* that of an earlier run
  fixture,   \* SmokeFixture: whose process id the test will kill; "unread" once
             \* from_pid_file has failed
  taskkill,  \* history: whose process taskkill has ended, or that it failed
  verdict,   \* what smoke_test_fixture returned
  active,    \* HOOKS_ACTIVE
  sent,      \* FIXTURE_TIMELINE_SENT
  feed,      \* hook events under way
  seen       \* what the test has received: timeline_id is Some, playback

cleanupVars == <<pidFile, fixture, taskkill>>
captureVars == <<active, sent, feed, seen>>
smokeVars == <<cleanupVars, verdict, captureVars>>
testVars == <<vars, smokeVars>>

SmokeInit ==
  /\ Init
  /\ pidFile \in {"none", "stale"}
  /\ fixture = "none" /\ taskkill = "none" /\ verdict = "none"
  /\ active = FALSE /\ sent = FALSE /\ feed = <<>> /\ seen = {}

------------------------------------------------------------------------------
(* The launch, with what it does to the PID file and the capture. *)

\* fs::write comes between Resume and keep_running: it may fail halfway, or the
\* injector be killed after it.
PidFileWritten ==
  IF injector = "resumed" /\ injector' # "resumed"
  THEN \/ injector' = "done" /\ pidFile' = "own"
       \/ injector' = "failed" /\ pidFile' \in {pidFile, "broken"}
       \/ injector' = "killed" /\ pidFile' \in {pidFile, "broken", "own"}
  ELSE UNCHANGED pidFile

\* The command loop's end clears HOOKS_ACTIVE; the end of the process takes with
\* it what is not yet in the pipe.
CaptureEnds ==
  /\ active' = (active /\ hook' = "serving")
  /\ IF process = "alive" /\ process' = "dead"
     THEN \E n \in 0..Len(feed) : feed' = SubSeq(feed, 1, n)
     ELSE UNCHANGED feed

TestLaunchStep ==
  /\ Injector \/ InjectorKilled \/ Target
  /\ PidFileWritten
  /\ CaptureEnds
  /\ UNCHANGED <<fixture, taskkill, verdict, sent, seen>>

------------------------------------------------------------------------------
(* Capture in fixture mode. *)

\* The command loop takes the StartCapture that the test has sent: install_hooks
\* forgets the timeline of an earlier capture, HOOKS_ACTIVE is set, and Warning
\* and CaptureStarted are sent, which the test passes over.
StartFixtureMode ==
  /\ host = "connected" /\ hook = "serving" /\ ~active
  /\ active' = TRUE
  /\ sent' = FALSE
  /\ UNCHANGED <<vars, cleanupVars, verdict, feed, seen>>

Push(events, e) == IF Len(events) < FeedCap THEN Append(events, e) ELSE events

\* A timeline that does not fit is lost, and not sent again.
EmitFixture == Push(IF sent THEN feed ELSE Push(feed, "timeline"), "playback")

\* One turn of the fixture's main loop.
Emit ==
  /\ process = "alive" /\ primary = "main" /\ active
  /\ sent' = TRUE
  /\ feed' = EmitFixture
  /\ UNCHANGED <<vars, cleanupVars, verdict, active, seen>>

------------------------------------------------------------------------------
(* The end of the test, at any of its errors or after the capture. *)

Spared == accept' = "gone" /\ UNCHANGED <<process, remote, hook>>

Mutant_Kill(whose) ==   \* no SmokeFixture, whose Drop would clean up
  Spared /\ UNCHANGED <<taskkill, pidFile>>

\* SmokeFixture's Drop: taskkill, then the PID file is removed.  Both results are
\* ignored.  By the time of it Windows may have given the id of a fixture that
\* has ended, of this run or an earlier one, to another process.
Kill(whose) ==
  \/ /\ whose \in {"own", "stale"}
     /\ \/ whose = "own" /\ process = "alive" /\ Dies /\ taskkill' = "own"
        \/ ~(whose = "own" /\ process = "alive") /\ Spared /\ taskkill' = "stranger"
        \/ Spared /\ taskkill' = "failed"
     /\ pidFile' \in {pidFile, "none"}
  \/ /\ whose \notin {"own", "stale"}
     /\ Spared /\ UNCHANGED <<taskkill, pidFile>>

\* The test returns, its SmokeFixture is dropped, and the xtask exits with its
\* accept thread and its ends of the channels.
Return(what, whose) ==
  /\ Kill(whose)
  /\ verdict' = what
  /\ fixture' = whose
  /\ host' = "gone"
  /\ CaptureEnds
  /\ UNCHANGED <<injector, suspended, primary, patched, sent, seen>>

------------------------------------------------------------------------------
(* smoke_test_fixture. *)

\* The result of remove_file is ignored.
RemovePidFile == pidFile' \in {pidFile, "none"}

\* Without an injector the error returns before there is a SmokeFixture.
SmokeBegin ==
  /\ host = "idle"
  /\ RemovePidFile
  /\ \/ /\ host' = "injector" /\ accept' = "listening" /\ injector' = "create"
        /\ UNCHANGED verdict
     \/ /\ host' = "gone" /\ accept' = "gone" /\ verdict' = "failed"
        /\ UNCHANGED injector
  /\ UNCHANGED <<targetVars, fixture, taskkill, captureVars>>

\* from_pid_file: the file may be missing, broken or out of reach, or the id in
\* it is taken for the fixture's.
ReadPidFile ==
  \/ fixture' = "unread"
  \/ pidFile \in {"own", "stale"} /\ fixture' = pidFile

\* status() returned: the PID file is read first, then the status.
SmokeInjectorReturns ==
  /\ host = "injector"
  /\ injector \in {"done", "failed", "killed"}
  /\ ReadPidFile
  /\ \/ /\ fixture' = "unread" \/ injector # "done"
        /\ Return("failed", fixture')
     \/ /\ fixture' # "unread" /\ injector = "done"
        /\ host' = "handshake"
        /\ UNCHANGED <<accept, injector, targetVars, pidFile, taskkill, verdict, captureVars>>

\* The hello must come from the process that the PID file names, and the
\* command channel must take StartCapture.
SmokeHandshake ==
  /\ host = "handshake" /\ accept = "offered"
  /\ \/ /\ fixture = "own" /\ hook = "serving"
        /\ host' = "connected"
        /\ UNCHANGED <<accept, injector, targetVars, smokeVars>>
     \/ /\ fixture # "own" \/ hook # "serving"
        /\ Return("failed", fixture)

\* recv_timeout's ten seconds, or accept's error.
Mutant_SmokeTimeout == FALSE /\ UNCHANGED testVars   \* recv in its place

SmokeTimeout ==
  /\ host = "handshake" /\ accept # "offered"
  /\ Return("failed", fixture)

Sung == seen = {"timeline", "playback"}

\* A position counts once its timeline is there; other events are passed over.
Receive ==
  /\ host = "connected" /\ ~Sung
  /\ feed # <<>>
  /\ feed' = Tail(feed)
  /\ seen' = IF Head(feed) = "timeline" \/ "timeline" \in seen
             THEN seen \cup {Head(feed)} ELSE seen
  /\ UNCHANGED <<vars, cleanupVars, verdict, active, sent>>

\* Both were seen, and the logs say what they should or do not; or the eight
\* seconds are over.
SmokeEnds ==
  /\ host = "connected"
  /\ \/ Sung /\ \E what \in {"passed", "failed"} : Return(what, fixture)
     \/ ~Sung /\ Return("failed", fixture)

Smoke == SmokeInjectorReturns \/ SmokeHandshake \/ SmokeTimeout \/ Receive \/ SmokeEnds

\* The xtask is killed: no Drop runs.
XtaskKilled ==
  /\ host \notin {"idle", "gone"}
  /\ host' = "gone" /\ accept' = "gone"
  /\ UNCHANGED <<injector, targetVars, smokeVars>>

SmokeOver == host = "gone" /\ process # "alive" /\ UNCHANGED testVars

SmokeNext ==
  \/ TestLaunchStep \/ StartFixtureMode \/ Emit
  \/ SmokeBegin \/ Smoke \/ XtaskKilled \/ SmokeOver

\* The loop of the test ends by its clock, however much there is to receive.
SmokeFairness ==
  /\ WF_testVars(Injector /\ TestLaunchStep)
  /\ WF_testVars(HookThread /\ TestLaunchStep)
  /\ WF_testVars(Smoke)
  /\ WF_testVars(SmokeEnds)

SmokeSpec == SmokeInit /\ [][SmokeNext]_testVars /\ SmokeFairness

------------------------------------------------------------------------------

\* Whatever step of the test fails, and although the fixture sings for ever, a
\* test that has returned leaves a fixture running in three cases only: it could
\* not read its id, taskkill failed, or the injector was killed before it wrote
\* the id over an earlier one.  After an error of the injector none is left.
SmokeLeavesNoFixture ==
  verdict # "none" /\ process = "alive" =>
    /\ injector # "failed"
    /\ \/ fixture = "unread"
       \/ fixture = "own" /\ taskkill = "failed"
       \/ fixture = "stale" /\ injector = "killed"

\* "This PID is written by the injector for the fixture created by this test, so
\* cleanup cannot target an unrelated user process" (main.rs:313-314).
SmokeKillsOnlyItsFixture == taskkill # "stranger"

=============================================================================
