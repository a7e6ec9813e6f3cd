---------------------------- MODULE EitherLaunch ----------------------------
(***************************************************************************)
(* The two programs that launch: the application, whose WeSing further     *)
(* injectors may attach to (Attach), and the smoke test (SmokeTest).  The  *)
(* injector, the hook's start and what they promise are the same.          *)
(***************************************************************************)
EXTENDS Attach, SmokeTest

VARIABLE by  \* who launches

launchVars == <<allVars, smokeVars, by>>

EitherInit ==
  /\ AttachInit /\ SmokeInit
  /\ \/ by = "application" /\ pidFile = "none"
     \/ by = "smoke test"

ByApplication == by = "application" /\ UNCHANGED <<smokeVars, by>>
BySmokeTest == by = "smoke test" /\ UNCHANGED <<attachVars, by>>

EitherNext ==
  \/ ByApplication /\ AttachNext
  \/ BySmokeTest /\ SmokeNext

\* That of Attach and of SmokeTest.
EitherFairness ==
  /\ WF_launchVars(ByApplication /\ Connect /\ LaunchStep)
  /\ WF_launchVars(ByApplication /\ Injector /\ LaunchStep)
  /\ WF_launchVars(ByApplication /\ HookThread /\ LaunchStep)
  /\ \A a \in Attachers : WF_launchVars(ByApplication /\ Attacher(a))
  /\ WF_launchVars(BySmokeTest /\ Injector /\ TestLaunchStep)
  /\ WF_launchVars(BySmokeTest /\ HookThread /\ TestLaunchStep)
  /\ WF_launchVars(BySmokeTest /\ Smoke)
  /\ WF_launchVars(BySmokeTest /\ SmokeEnds)

EitherSpec == EitherInit /\ [][EitherNext]_launchVars /\ EitherFairness

------------------------------------------------------------------------------

\* The smoke test ends by itself: no step of the launch or the capture can hang
\* it, and a fixture that sings for ever cannot keep it receiving.
SmokeReturns == by = "smoke test" /\ host = "injector" ~> host = "gone"

=============================================================================
