--------------------------- MODULE SmokeTestProofs ---------------------------
(***************************************************************************)
(* Theorems about SmokeTest: what the test leaves behind, and that its     *)
(* fixture is held like WeSing, for any number of events under way.        *)
(***************************************************************************)
EXTENDS SmokeTest, LauncherProofs

USE SmokeAssumption

\* The test returns nothing before it has begun.
BeginInv == host = "idle" => verdict = "none"

\* An injector that succeeds has written the id of its own fixture, and the test
\* holds that id before it does anything else.
OwnInv ==
  /\ host = "injector" /\ injector = "done" => pidFile = "own"
  /\ host \in {"handshake", "connected"} => fixture = "own"

\* Once the test has returned, the injector is at its end, and the fixture too,
\* unless its id could not be read, taskkill failed, or the id that was read was
\* not its own.
CleanInv ==
  verdict # "none" =>
    /\ host = "gone" /\ injector \in {"none", "done", "failed", "killed"}
    /\ process = "alive" =>
         \/ fixture = "unread"
         \/ fixture = "own" /\ taskkill = "failed"
         \/ fixture = "stale" /\ injector = "killed"

SmokeInv == LaunchInv /\ BeginInv /\ OwnInv /\ CleanInv

------------------------------------------------------------------------------
(* What the smoke test does to the launch. *)

LEMMA ReturnKeepsLaunch ==
  ASSUME LaunchInv, NEW what, NEW whose, Return(what, whose)
  PROVE  LaunchInv'
<1>1. /\ host' = "gone"
      /\ UNCHANGED <<injector, suspended, primary, patched>>
      /\ \/ process = "alive" /\ Dies
         \/ accept' = "gone" /\ UNCHANGED <<process, remote, hook>>
  BY DEF Return, Kill, Spared
<1>2. CASE process = "alive" /\ Dies
  <2>1. LaunchTypeOK'
    BY <1>1, <1>2 DEF Dies, LaunchInv, LaunchTypeOK, RemoteFunction, Working
  <2>2. StageInv'
    BY <1>1, <1>2 DEF Dies, LaunchInv, LaunchTypeOK, StageInv, HoldInv, RemoteFunction, Working, BeforeStart
  <2>3. HoldInv'
    BY <1>1, <1>2 DEF Dies, LaunchInv, LaunchTypeOK, HoldInv, RemoteFunction
  <2>4. HandshakeInv'
    BY <1>1, <1>2 DEF Dies, LaunchInv, LaunchTypeOK, HandshakeInv, HostHoldsSender
  <2> QED
    BY <2>1, <2>2, <2>3, <2>4 DEF LaunchInv
<1>3. CASE accept' = "gone" /\ UNCHANGED <<process, remote, hook>>
  BY <1>1, <1>3 DEF LaunchInv, LaunchTypeOK, StageInv, HoldInv, HandshakeInv, RemoteFunction, Working,
                    BeforeStart, HostHoldsSender
<1> QED
  BY <1>1, <1>2, <1>3

\* Every other step is one of Launcher's as far as the launch goes, or leaves it
\* alone; but without an injector, the test is gone at once.
LEMMA SmokeLaunches ==
  ASSUME [SmokeNext]_testVars
  PROVE  \/ [Next]_vars
         \/ \E what \in {"passed", "failed"}, whose \in {fixture, fixture'} : Return(what, whose)
         \/ host = "idle" /\ host' = "gone" /\ accept' = "gone" /\ UNCHANGED <<injector, targetVars>>
<1>1. CASE TestLaunchStep
  BY <1>1 DEF TestLaunchStep, Next
<1>2. CASE StartFixtureMode \/ Emit \/ SmokeOver \/ UNCHANGED testVars \/ Receive
  BY <1>2 DEF StartFixtureMode, Emit, SmokeOver, Receive, testVars
<1>3. CASE SmokeBegin
  BY <1>3 DEF SmokeBegin, Begin, Next
<1>4. CASE SmokeInjectorReturns
  BY <1>4 DEF SmokeInjectorReturns, InjectorReturns, Connect, Next
<1>5. CASE SmokeHandshake
  BY <1>5 DEF SmokeHandshake, HandshakeAccepted, Connect, Next
<1>6. CASE SmokeTimeout \/ SmokeEnds
  BY <1>6 DEF SmokeTimeout, SmokeEnds
<1>7. CASE XtaskKilled
  BY <1>7 DEF XtaskKilled, HostExits, Next
<1> QED
  BY <1>1, <1>2, <1>3, <1>4, <1>5, <1>6, <1>7 DEF SmokeNext, Smoke

LEMMA SmokeKeepsLaunch == LaunchInv /\ [SmokeNext]_testVars => LaunchInv'
<1> SUFFICES ASSUME LaunchInv, host = "idle", host' = "gone", accept' = "gone",
                    UNCHANGED <<injector, targetVars>>
             PROVE  LaunchInv'
  BY SmokeLaunches, LaunchKeeps, ReturnKeepsLaunch
<1> QED
  BY DEF targetVars, LaunchInv, LaunchTypeOK, StageInv, HoldInv, HandshakeInv, HostHoldsSender

------------------------------------------------------------------------------
(* What the smoke test leaves behind. *)

\* The test returns with the id of its own fixture, of none, or with an earlier
\* one, which an injector that succeeded cannot have left in the file.
LEMMA ReturnClean ==
  ASSUME SmokeInv, NEW what \in {"passed", "failed"}, NEW whose \in {"unread", "own", "stale"},
         Return(what, whose), injector \in {"done", "failed", "killed"}, injector = "done" => whose # "stale"
  PROVE  BeginInv' /\ OwnInv' /\ CleanInv'
<1>1. host' = "gone" /\ verdict' = what /\ fixture' = whose /\ injector' = injector
  BY DEF Return
<1>2. /\ process' = process \/ process' = "dead"
      /\ whose = "own" => process' # "alive" \/ taskkill' = "failed"
  BY DEF Return, Kill, Spared, Dies
<1>3. injector = "failed" => process # "alive"
  BY DEF SmokeInv, LaunchInv, StageInv
<1> QED
  BY <1>1, <1>2, <1>3 DEF BeginInv, OwnInv, CleanInv

LEMMA LaunchClean ==
  ASSUME SmokeInv, TestLaunchStep
  PROVE  BeginInv' /\ OwnInv' /\ CleanInv'
<1>1. UNCHANGED <<host, fixture, taskkill, verdict>>
  BY DEF TestLaunchStep, Injector, InjectorKilled, Target, hostVars, targetVars, HookThread, Returned,
         Create, Arm, RunLoader, Probe, Restore, CallLoad, CallStart, CallRemote, Resume, KeepRunning, Fail,
         WeSingDies, PrimaryRuns, RemoteLoads, RemoteStarts, HookConnects, HookShakesHands, HookEnds
<1>2. injector' = injector \/ injector \in Working
  BY DEF TestLaunchStep, Injector, InjectorKilled, Target, HookThread, Returned, At, Working,
         Create, Arm, RunLoader, Probe, Restore, CallLoad, CallStart, Resume, KeepRunning, Fail,
         WeSingDies, PrimaryRuns, RemoteLoads, RemoteStarts, HookConnects, HookShakesHands, HookEnds
<1>3. injector' = "done" => injector \in {"done", "resumed"}
  BY DEF TestLaunchStep, Injector, InjectorKilled, Target, HookThread, Returned, At,
         Create, Arm, RunLoader, Probe, Restore, CallLoad, CallStart, Resume, KeepRunning, Fail,
         WeSingDies, PrimaryRuns, RemoteLoads, RemoteStarts, HookConnects, HookShakesHands, HookEnds
<1>4. process' = process \/ process' = "dead" \/ injector = "create"
  BY DEF TestLaunchStep, Injector, InjectorKilled, Target, HookThread, Returned, At, targetVars, Dies,
         Create, Arm, RunLoader, Probe, Restore, CallLoad, CallStart, CallRemote, Resume, KeepRunning, Fail,
         WeSingDies, PrimaryRuns, RemoteLoads, RemoteStarts, HookConnects, HookShakesHands, HookEnds
<1>5. /\ pidFile' \in {pidFile, "broken", "own"}
      /\ injector' = "done" /\ injector # "done" => pidFile' = "own"
      /\ injector' = injector => pidFile' = pidFile
  BY <1>3 DEF TestLaunchStep, PidFileWritten
<1>6. BeginInv'
  BY <1>1, <1>5 DEF SmokeInv, BeginInv
<1>7. OwnInv'
  BY <1>1, <1>2, <1>5 DEF SmokeInv, OwnInv, Working
<1>8. CleanInv'
  BY <1>1, <1>2, <1>4 DEF SmokeInv, CleanInv, Working
<1> QED
  BY <1>6, <1>7, <1>8

LEMMA SmokeStep == SmokeInv /\ [SmokeNext]_testVars => SmokeInv'
<1> SUFFICES ASSUME SmokeInv, [SmokeNext]_testVars PROVE BeginInv' /\ OwnInv' /\ CleanInv'
  BY SmokeKeepsLaunch DEF SmokeInv
<1>0. host \in {"handshake", "connected"} => injector = "done" /\ fixture = "own"
  BY DEF SmokeInv, LaunchInv, HandshakeInv, OwnInv
<1> USE DEF SmokeInv, BeginInv, OwnInv, CleanInv, cleanupVars, captureVars, smokeVars, vars, hostVars, targetVars
<1>1. CASE StartFixtureMode \/ Emit \/ SmokeOver \/ Receive \/ UNCHANGED testVars
  BY <1>1 DEF StartFixtureMode, Emit, SmokeOver, Receive, testVars
<1>2. CASE SmokeBegin
  <2>1. process # "alive" /\ injector = "none"
    BY <1>2 DEF SmokeBegin, LaunchInv, HandshakeInv, StageInv
  <2> QED
    BY <1>2, <2>1 DEF SmokeBegin, RemovePidFile
<1>3. CASE SmokeInjectorReturns
  <2>1. /\ fixture' \in {"unread", "own", "stale"}
        /\ injector = "done" => fixture' # "stale"
    BY <1>3 DEF SmokeInjectorReturns, ReadPidFile
  <2>2. CASE Return("failed", fixture')
    BY <1>3, <2>1, <2>2, ReturnClean DEF SmokeInjectorReturns
  <2>3. CASE ~Return("failed", fixture')
    BY <1>3, <2>1, <2>3 DEF SmokeInjectorReturns
  <2> QED
    BY <2>2, <2>3
<1>4. CASE SmokeHandshake
  <2>1. CASE Return("failed", fixture)
    BY <1>0, <1>4, <2>1, ReturnClean DEF SmokeHandshake
  <2>2. CASE host' = "connected" /\ UNCHANGED <<accept, injector, targetVars, smokeVars>>
    BY <1>0, <1>4, <2>2 DEF SmokeHandshake
  <2> QED
    BY <1>4, <2>1, <2>2 DEF SmokeHandshake
<1>5. CASE SmokeTimeout
  BY <1>0, <1>5, ReturnClean DEF SmokeTimeout
<1>6. CASE SmokeEnds
  BY <1>0, <1>6, ReturnClean DEF SmokeEnds
<1>7. CASE XtaskKilled
  BY <1>7 DEF XtaskKilled
<1>8. CASE TestLaunchStep
  BY <1>8, LaunchClean
<1> QED
  BY <1>1, <1>2, <1>3, <1>4, <1>5, <1>6, <1>7, <1>8 DEF SmokeNext, Smoke

LEMMA SmokeInductive == SmokeSpec => []SmokeInv
<1>1. SmokeInit => SmokeInv
  BY LaunchInit DEF SmokeInit, Init, SmokeInv, BeginInv, OwnInv, CleanInv
<1> QED
  BY <1>1, SmokeStep, PTL DEF SmokeSpec

\* On every path of smoke_test_fixture its SmokeFixture's Drop, or the injector's
\* own, has ended the fixture, unless from_pid_file failed, taskkill did, or the
\* injector was killed before it wrote the PID file.
THEOREM SmokeCleansUp == SmokeSpec => []SmokeLeavesNoFixture
<1>1. SmokeInv => SmokeLeavesNoFixture
  BY DEF SmokeInv, LaunchInv, StageInv, CleanInv, SmokeLeavesNoFixture
<1> QED
  BY <1>1, SmokeInductive, PTL

\* The smoke test's fixture too is held until the hook has been started in it,
\* whatever the test and its clean-up do meanwhile.
THEOREM FixtureHeld == SmokeSpec => HeldUntilHooked
<1>1. SmokeInit => Promise!Init
  BY PromiseInit DEF SmokeInit
<1>2. SmokeInv /\ [SmokeNext]_testVars => [Promise!Next]_(Promise!promiseVars)
  <2> SUFFICES ASSUME SmokeInv, [SmokeNext]_testVars PROVE [Promise!Next]_(Promise!promiseVars)
    OBVIOUS
  <2> USE DEF Promise!Next, Promise!promiseVars, Promise!End
  <2>1. LaunchInv
    BY DEF SmokeInv
  <2>2. CASE [Next]_vars
    BY <2>1, <2>2, PromiseStep
  <2>3. ASSUME NEW what, NEW whose, Return(what, whose)
        PROVE  [Promise!Next]_(Promise!promiseVars)
    BY <2>1, <2>3 DEF Return, Kill, Spared, Dies, LaunchInv, LaunchTypeOK
  <2>4. CASE UNCHANGED targetVars
    BY <2>4 DEF targetVars
  <2> QED
    BY <2>2, <2>3, <2>4, SmokeLaunches
<1> QED
  BY <1>1, <1>2, SmokeInductive, PTL DEF SmokeSpec, HeldUntilHooked, Promise!Spec

=============================================================================
