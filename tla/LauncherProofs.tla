--------------------------- MODULE LauncherProofs ---------------------------
(***************************************************************************)
(* Theorems about Launcher: WeSing is held until it is hooked, a failed    *)
(* launch leaves no process, and a session is served.                      *)
(*                                                                         *)
(* None of them is inductive.  What is: where the injector is says what    *)
(* the primary thread can do (StageInv), a WeSing without the hook is held *)
(* even when nobody holds it any more (HoldInv), and the handshake is with *)
(* the hook that serves it (HandshakeInv).                                 *)
(***************************************************************************)
EXTENDS Launcher, TLAPS

BeforeStart == {"created", "armed", "probing", "stopped", "restored", "loading", "loaded"}

\* What the injector's position says of the WeSing it made.
StageInv ==
  /\ injector \in {"none", "create"} => process = "none"
  /\ injector \in BeforeStart => hook = "absent" /\ remote # "kg_capture_start"
  /\ process = "alive" =>
       /\ injector \in {"created", "armed", "stopped", "restored", "loading", "loaded", "starting", "hooked"}
            => suspended /\ primary # "main"
       /\ injector \in {"armed", "probing", "stopped"} => patched
       /\ injector \in {"created", "restored", "loading", "loaded", "starting", "hooked", "resumed", "done"}
            => ~patched
       /\ injector \in {"resumed", "done"} => ~suspended
       /\ injector = "starting" => remote # "LoadLibraryW"
       /\ injector = "starting" /\ remote = "ok" => hook # "absent"
       /\ injector \in {"hooked", "resumed", "done"} => hook # "absent"
  /\ injector = "failed" => process # "alive"

\* A WeSing in which the hook has not been started cannot reach its own code,
\* also when the injector has been killed.
HoldInv ==
  /\ process = "none" => primary = "loader" /\ ~patched /\ remote = "none" /\ hook = "absent"
  /\ process = "alive" /\ hook = "absent" => primary # "main" /\ (suspended \/ patched)
  /\ remote = "kg_capture_start" => hook = "absent"

HandshakeInv ==
  /\ host = "idle" => accept = "none" /\ injector = "none"
  /\ host \in {"handshake", "connected"} => injector = "done"
  /\ host = "connected" => accept = "offered"
  /\ process = "alive" /\ accept = "connected" => hook = "connected"
  /\ process = "alive" /\ HostHoldsSender => hook = "serving"
  /\ hook = "absent" => accept \in {"none", "listening", "gone"}
  /\ accept \in {"none", "listening"} => hook \in {"absent", "started", "ended"}

LaunchInv == LaunchTypeOK /\ StageInv /\ HoldInv /\ HandshakeInv

LEMMA LaunchInit == Init => LaunchInv
BY DEF Init, LaunchInv, LaunchTypeOK, StageInv, HoldInv, HandshakeInv, RemoteFunction, Working, HostHoldsSender, BeforeStart

LEMMA HostStep ==
  ASSUME LaunchInv, Begin \/ Connect \/ HostExits \/ Over
  PROVE  LaunchInv'
BY DEF Begin, Connect, InjectorReturns, HandshakeAccepted, HandshakeTimeout, HostExits, Over,
  vars, hostVars, targetVars,
  LaunchInv, LaunchTypeOK, StageInv, HoldInv, HandshakeInv, RemoteFunction, Working, HostHoldsSender, BeforeStart

LEMMA DiesSafely ==
  ASSUME LaunchInv, process = "alive", Dies, UNCHANGED <<host, suspended, primary, patched>>,
         injector' = injector \/ (injector \in Working /\ injector' = "failed")
  PROVE  LaunchInv'
<1>1. LaunchTypeOK'
  BY DEF Dies, LaunchInv, LaunchTypeOK, RemoteFunction, Working
<1>2. StageInv'
  BY DEF Dies, LaunchInv, LaunchTypeOK, StageInv, HoldInv, RemoteFunction, Working, BeforeStart
<1>3. HoldInv'
  BY DEF Dies, LaunchInv, LaunchTypeOK, HoldInv, RemoteFunction
<1>4. HandshakeInv'
  BY DEF Dies, LaunchInv, LaunchTypeOK, StageInv, HandshakeInv, HostHoldsSender, Working
<1> QED
  BY <1>1, <1>2, <1>3, <1>4 DEF LaunchInv

LEMMA InjectorStep ==
  ASSUME LaunchInv, Injector \/ InjectorKilled
  PROVE  LaunchInv'
<1> USE DEF LaunchInv, LaunchTypeOK, StageInv, HoldInv, HandshakeInv, RemoteFunction, Working,
      BeforeStart, HostHoldsSender, hostVars, targetVars, At
<1>1. CASE Create
  <2>1. LaunchTypeOK' /\ HandshakeInv'
    BY <1>1 DEF Create
  <2>2. StageInv'
    BY <1>1 DEF Create
  <2>3. HoldInv'
    BY <1>1 DEF Create
  <2> QED
    BY <2>1, <2>2, <2>3
<1>2. CASE Arm
  BY <1>2 DEF Arm
<1>3. CASE RunLoader
  <2>1. LaunchTypeOK' /\ HandshakeInv'
    BY <1>3 DEF RunLoader
  <2>2. StageInv'
    BY <1>3 DEF RunLoader
  <2>3. HoldInv'
    BY <1>3 DEF RunLoader
  <2> QED
    BY <2>1, <2>2, <2>3
<1>4. CASE Probe
  BY <1>4 DEF Probe
<1>5. CASE Restore
  BY <1>5 DEF Restore
<1>6. CASE CallLoad
  BY <1>6 DEF CallLoad, CallRemote
<1>7. CASE Returned("loading", "loaded")
  BY <1>7 DEF Returned
<1>8. CASE CallStart
  BY <1>8 DEF CallStart, CallRemote
<1>9. CASE Returned("starting", "hooked")
  BY <1>9 DEF Returned
<1>10. CASE Resume
  <2>1. LaunchTypeOK'
    BY <1>10 DEF Resume
  <2>2. HandshakeInv'
    BY <1>10 DEF Resume
  <2>3. StageInv'
    <3>1. process = "alive" => ~patched /\ hook # "absent"
      BY <1>10 DEF Resume
    <3>2. injector' = "resumed" /\ suspended' = FALSE /\ UNCHANGED <<process, patched, hook, remote>>
      BY <1>10 DEF Resume
    <3>3. ~suspended'
      BY <3>2
    <3> QED
      BY <3>1, <3>2, <3>3
  <2>4. HoldInv'
    BY <1>10 DEF Resume
  <2> QED
    BY <2>1, <2>2, <2>3, <2>4
<1>11. CASE KeepRunning
  BY <1>11 DEF KeepRunning
<1>12. CASE Fail
  <2>1. CASE process = "alive"
    BY <1>12, <2>1, DiesSafely DEF Fail
  <2>2. CASE process # "alive"
    BY <1>12, <2>2 DEF Fail
  <2> QED
    BY <2>1, <2>2
<1>13. CASE InjectorKilled
  BY <1>13 DEF InjectorKilled
<1> QED
  BY <1>1, <1>2, <1>3, <1>4, <1>5, <1>6, <1>7, <1>8, <1>9, <1>10, <1>11, <1>12, <1>13 DEF Injector

LEMMA TargetStep ==
  ASSUME LaunchInv, Target
  PROVE  LaunchInv'
<1> USE DEF LaunchInv, LaunchTypeOK, StageInv, HoldInv, HandshakeInv, RemoteFunction, Working,
      BeforeStart, HostHoldsSender, hostVars
<1>1. CASE WeSingDies
  BY <1>1, DiesSafely DEF WeSingDies
<1>2. CASE PrimaryRuns
  BY <1>2 DEF PrimaryRuns
<1>3. CASE RemoteLoads
  BY <1>3 DEF RemoteLoads
<1>4. CASE RemoteStarts
  BY <1>4 DEF RemoteStarts
<1>5. CASE HookConnects
  BY <1>5 DEF HookConnects
<1>6. CASE HookShakesHands
  BY <1>6 DEF HookShakesHands
<1>7. CASE HookEnds
  BY <1>7 DEF HookEnds
<1> QED
  BY <1>1, <1>2, <1>3, <1>4, <1>5, <1>6, <1>7 DEF Target, HookThread

LEMMA LaunchKeeps ==
  ASSUME LaunchInv, [Next]_vars
  PROVE  LaunchInv'
<1>1. CASE Next
  BY <1>1, HostStep, InjectorStep, TargetStep DEF Next
<1>2. CASE UNCHANGED vars
  BY <1>2 DEF vars, hostVars, targetVars, LaunchInv, LaunchTypeOK, StageInv, HoldInv,
    HandshakeInv, HostHoldsSender
<1> QED
  BY <1>1, <1>2

\* Where the injector is, the hold on an unhooked WeSing and the state of the
\* handshake stay in step through every failure, kill and exit.
THEOREM LaunchInductive == Spec => []LaunchInv
BY LaunchInit, LaunchKeeps, PTL DEF Spec

\* Every variable of a launch keeps its type, and nothing of the hook or of a
\* remote call runs in a process that is not there.
THEOREM LaunchTypeCorrect == Spec => []LaunchTypeOK
BY LaunchInductive, PTL DEF LaunchInv

\* The injector's error paths, whichever step fails, leave no WeSing behind.
THEOREM FailedLaunchLeavesNothing == Spec => []FailureLeavesNothing
<1>1. LaunchInv => FailureLeavesNothing
  BY DEF LaunchInv, StageInv, FailureLeavesNothing
<1> QED
  BY <1>1, LaunchInductive, PTL

\* connect returns a session only over a hook that serves it, in a WeSing that
\* the injector has let run.
THEOREM SessionServed == Spec => []SessionIsServed
<1>1. LaunchInv => SessionIsServed
  BY DEF LaunchInv, LaunchTypeOK, StageInv, HandshakeInv, HostHoldsSender, SessionIsServed
<1> QED
  BY <1>1, LaunchInductive, PTL

------------------------------------------------------------------------------
(* The detailed launch implements HeldLaunch. *)

LEMMA PromiseInit == Init => Promise!Init
BY DEF Init, Promise!Init

LEMMA PromiseStep ==
  ASSUME LaunchInv, [Next]_vars
  PROVE  [Promise!Next]_(Promise!promiseVars)
<1> USE DEF LaunchInv, LaunchTypeOK, StageInv, HoldInv, RemoteFunction, Working, BeforeStart,
      hostVars, targetVars, At,
      Promise!Next, Promise!promiseVars, Promise!Hold, Promise!Hook, Promise!Release, Promise!End
<1>1. CASE Begin \/ Connect \/ HostExits \/ Over \/ InjectorKilled \/ UNCHANGED vars
  BY <1>1 DEF Begin, Connect, InjectorReturns, HandshakeAccepted, HandshakeTimeout, HostExits,
    Over, InjectorKilled, vars
<1>2. CASE Create
  BY <1>2 DEF Create
<1>3. CASE Arm \/ RunLoader \/ Probe \/ Restore \/ Resume \/ KeepRunning
  BY <1>3 DEF Arm, RunLoader, Probe, Restore, Resume, KeepRunning
<1>4. CASE CallLoad \/ CallStart
  BY <1>4 DEF CallLoad, CallStart, CallRemote
<1>5. CASE Returned("loading", "loaded") \/ Returned("starting", "hooked")
  BY <1>5 DEF Returned
<1>6. CASE Fail
  BY <1>6 DEF Fail, Dies
<1>7. CASE WeSingDies
  BY <1>7 DEF WeSingDies, Dies
<1>8. CASE PrimaryRuns
  BY <1>8 DEF PrimaryRuns
<1>9. CASE RemoteLoads \/ RemoteStarts
  BY <1>9 DEF RemoteLoads, RemoteStarts
<1>10. CASE HookThread
  BY <1>10 DEF HookThread, HookConnects, HookShakesHands, HookEnds
<1> QED
  BY <1>1, <1>2, <1>3, <1>4, <1>5, <1>6, <1>7, <1>8, <1>9, <1>10 DEF Next, Injector, Target

\* No code of WeSing's own runs before the hook has been started in it.
THEOREM HeldRefinement == Spec => HeldUntilHooked
BY PromiseInit, PromiseStep, LaunchInductive, PTL DEF Spec, HeldUntilHooked, Promise!Spec

=============================================================================
