---------------------------- MODULE AttachProofs ----------------------------
(***************************************************************************)
(* Theorems about Attach, for any number of attaching injectors: whatever  *)
(* they do, the launch stays a launch as Launcher has it, so that all that *)
(* LauncherProofs shows of it carries over, and one hook serves.           *)
(***************************************************************************)
EXTENDS Attach, LauncherProofs

------------------------------------------------------------------------------
(* To the launch, an attaching injector is at most something that ends       *)
(* WeSing, which any other program may do as well.                           *)

LEMMA AttachStepIsLaunch ==
  ASSUME NEW a \in Attachers, AttachStep(a)
  PROVE  [Next]_vars
<1>1. CASE Open(a) \/ AttacherKilled(a)
  BY <1>1 DEF Open, AttacherKilled
<1>2. CASE Attacher(a)
  BY <1>2 DEF Attacher, AttachLoads, AttachLoaded, AttachStarts, AttachDone, AttachFails, CallWith
<1>3. CASE RemoteSide(a)
  BY <1>3 DEF RemoteSide, ReadParameter, ReadFreed, LoadReturns, StartReturns, GuestConnects,
    GuestShakesHands, GuestEnds, Next, Target
<1> QED
  BY <1>1, <1>2, <1>3 DEF AttachStep

LEMMA AttachIsLaunch == [AttachNext]_allVars => [Next]_vars
<1> SUFFICES ASSUME [AttachNext]_allVars PROVE [Next]_vars
  OBVIOUS
<1>1. CASE LaunchStep
  BY <1>1 DEF LaunchStep
<1>2. CASE \E a \in Attachers : AttachStep(a)
  BY <1>2, AttachStepIsLaunch
<1>3. CASE UNCHANGED allVars
  BY <1>3 DEF allVars
<1> QED
  BY <1>1, <1>2, <1>3 DEF AttachNext

\* The invariant of a launch holds with any number of attaching injectors.
THEOREM AttachedLaunchInductive == AttachSpec => []LaunchInv
<1>1. AttachInit => LaunchInv
  BY LaunchInit DEF AttachInit
<1>2. LaunchInv /\ [AttachNext]_allVars => LaunchInv'
  BY AttachIsLaunch, LaunchKeeps
<1> QED
  BY <1>1, <1>2, PTL DEF AttachSpec

\* connect returns a session only over a hook that serves it, although an
\* attaching injector may have taken the DLL for itself in the meantime.
THEOREM AttachedSessionServed == AttachSpec => []SessionIsServed
<1>1. LaunchInv => SessionIsServed
  BY DEF LaunchInv, LaunchTypeOK, StageInv, HandshakeInv, HostHoldsSender, SessionIsServed
<1> QED
  BY <1>1, AttachedLaunchInductive, PTL

\* No code of WeSing's own runs before the launch has started its hook, even
\* when others have started theirs.
THEOREM AttachedHeld == AttachSpec => HeldUntilHooked
<1>1. AttachInit => Promise!Init
  BY PromiseInit DEF AttachInit
<1>2. LaunchInv /\ [AttachNext]_allVars => [Promise!Next]_(Promise!promiseVars)
  BY AttachIsLaunch, PromiseStep
<1> QED
  BY <1>1, <1>2, AttachedLaunchInductive, PTL DEF AttachSpec, HeldUntilHooked, Promise!Spec

LEMMA TypedByLaunch ==
  ASSUME AttachTypeOK, LaunchTypeOK', LaunchStep
  PROVE  AttachTypeOK'
<1>1. CASE process = "alive" /\ process' = "dead"
  BY <1>1 DEF AttachTypeOK, LaunchStep, EndGuests, TakeQueue, MayOwn
<1>2. CASE ~(process = "alive" /\ process' = "dead")
  BY <1>2 DEF AttachTypeOK, LaunchStep, TakeQueue, MayOwn
<1> QED
  BY <1>1, <1>2

LEMMA TypedByAttacher ==
  ASSUME AttachTypeOK, LaunchTypeOK', NEW a \in Attachers, AttachStep(a)
  PROVE  AttachTypeOK'
<1> USE DEF AttachTypeOK
<1>1. CASE Open(a) \/ AttacherKilled(a)
  BY <1>1 DEF Open, AttacherKilled, AttacherAt, Injecting
<1>2. CASE AttachLoads(a) \/ AttachStarts(a)
  <2>1. attacher' \in [Attachers -> Injecting \cup {"idle", "done", "failed", "killed"}]
    BY <1>2 DEF AttachLoads, AttachStarts, AttacherAt, Injecting
  <2>2. PICK function \in RemoteFunction : CallWith(a, function)
    BY <1>2 DEF AttachLoads, AttachStarts, RemoteFunction
  <2> QED
    BY <2>1, <2>2 DEF CallWith
<1>3. CASE AttachLoaded(a) \/ AttachDone(a) \/ AttachFails(a)
  BY <1>3 DEF AttachLoaded, AttachDone, AttachFails, Free, AttacherAt, Injecting
<1>4. CASE ReadParameter(a) \/ LoadReturns(a) \/ StartReturns(a)
  <2>1. read' \in [Attachers -> BOOLEAN] /\ UNCHANGED <<attacher, memory, owner, served>>
    BY <1>4 DEF ReadParameter, LoadReturns, StartReturns
  <2>2. call' = call \/ \E result \in {"ok", "error"} : call' = [call EXCEPT ![a] = result]
    BY <1>4 DEF ReadParameter, LoadReturns, StartReturns
  <2>3. call' \in [Attachers -> RemoteFunction \cup {"none", "ok", "error"}]
    BY <2>2
  <2>4. guest' = guest \/ guest' = [guest EXCEPT ![a] = "started"]
    BY <1>4 DEF ReadParameter, LoadReturns, StartReturns
  <2> QED
    BY <2>1, <2>3, <2>4
<1>5. CASE ReadFreed(a)
  <2>1. CASE WeSingDies /\ EndGuests
    BY <1>5, <2>1 DEF ReadFreed, EndGuests
  <2>2. CASE ~(WeSingDies /\ EndGuests)
    BY <1>5, <2>2 DEF ReadFreed
  <2> QED
    BY <2>1, <2>2
<1>6. CASE GuestConnects(a) \/ GuestEnds(a)
  BY <1>6 DEF GuestConnects, GuestEnds, GuestAt
<1>7. CASE GuestShakesHands(a)
  BY <1>7 DEF GuestShakesHands, GuestAt, TakeQueue, MayOwn
<1> QED
  BY <1>1, <1>2, <1>3, <1>4, <1>5, <1>6, <1>7 DEF AttachStep, Attacher, RemoteSide

\* Every variable of a launch and of its attaching injectors keeps its type,
\* and nothing of the launch runs in a process that is not there.
THEOREM AttachTypeCorrect == AttachSpec => []AttachTypeOK
<1>1. AttachInit => AttachTypeOK
  BY LaunchInit DEF AttachInit, AttachTypeOK, LaunchInv
<1>2. AttachTypeOK /\ LaunchTypeOK' /\ [AttachNext]_allVars => AttachTypeOK'
  <2> SUFFICES ASSUME AttachTypeOK, LaunchTypeOK', [AttachNext]_allVars PROVE AttachTypeOK'
    OBVIOUS
  <2>1. CASE UNCHANGED allVars
    BY <2>1 DEF allVars, attachVars, AttachTypeOK
  <2> QED
    BY <2>1, TypedByLaunch, TypedByAttacher DEF AttachNext
<1>3. LaunchInv => LaunchTypeOK
  BY DEF LaunchInv
<1> QED
  BY <1>1, <1>2, <1>3, AttachedLaunchInductive, PTL DEF AttachSpec

------------------------------------------------------------------------------
(* One session.  EVENT_QUEUE is set once, before its setter serves. *)

ServedInv ==
  /\ served \subseteq {owner}
  /\ owner = Nobody => served = {}
  /\ hook = "serving" => Launch \in served

\* The launch's hook comes to serve only with a handshake.
LEMMA ServingBegins ==
  ASSUME Next, hook' = "serving"
  PROVE  hook = "serving" \/ (hook = "connected" /\ process' = process)
<1>1. CASE Begin \/ Connect \/ HostExits \/ InjectorKilled \/ Over
  BY <1>1 DEF Begin, Connect, InjectorReturns, HandshakeAccepted, HandshakeTimeout, HostExits,
    InjectorKilled, Over, vars, targetVars
<1>2. CASE Injector
  BY <1>2 DEF Injector, Create, Arm, RunLoader, Probe, Restore, CallLoad, CallStart, CallRemote,
    Returned, Resume, KeepRunning, Fail, Dies, targetVars
<1>3. CASE Target
  BY <1>3 DEF Target, WeSingDies, PrimaryRuns, RemoteLoads, RemoteStarts, HookThread,
    HookConnects, HookShakesHands, HookEnds, Dies
<1> QED
  BY <1>1, <1>2, <1>3 DEF Next

LEMMA ServedByLaunch ==
  ASSUME ServedInv, LaunchStep
  PROVE  ServedInv'
<1>0. Launch # Nobody
  BY AttachAssumption
<1>1. CASE hook' = "serving" /\ hook # "serving"
  <2>1. hook = "connected" /\ process' = process /\ hook' # "connected"
    BY <1>1, ServingBegins DEF LaunchStep
  <2>2. owner = Nobody /\ owner' = Launch
    BY <1>1, <2>1 DEF LaunchStep, TakeQueue, MayOwn
  <2> QED
    BY <1>0, <1>1, <2>2 DEF LaunchStep, ServedInv
<1>2. CASE hook' = "serving" /\ hook = "serving"
  <2>1. UNCHANGED owner
    BY <1>2 DEF LaunchStep
  <2> QED
    BY <1>2, <2>1 DEF LaunchStep, ServedInv
<1>3. CASE hook' # "serving"
  <2>1. served' = served
    BY <1>3 DEF LaunchStep
  <2>2. owner' = owner \/ (owner = Nobody /\ owner' = Launch)
    BY DEF LaunchStep, TakeQueue, MayOwn
  <2> QED
    BY <1>0, <1>3, <2>1, <2>2 DEF ServedInv
<1> QED
  BY <1>1, <1>2, <1>3

LEMMA ServedByAttacher ==
  ASSUME ServedInv, NEW a \in Attachers, AttachStep(a)
  PROVE  ServedInv'
<1>0. a # Nobody
  BY AttachAssumption
<1>1. CASE GuestShakesHands(a)
  BY <1>0, <1>1 DEF GuestShakesHands, TakeQueue, MayOwn, ServedInv, vars, targetVars
<1>2. CASE ReadFreed(a)
  BY <1>2 DEF ReadFreed, WeSingDies, Dies, ServedInv, vars, targetVars
<1>3. CASE Open(a) \/ AttacherKilled(a) \/ Attacher(a)
  BY <1>3 DEF Open, AttacherKilled, Attacher, AttachLoads, AttachLoaded, AttachStarts, AttachDone,
    AttachFails, CallWith, ServedInv, vars, targetVars
<1>4. CASE ReadParameter(a) \/ LoadReturns(a) \/ StartReturns(a) \/ GuestConnects(a) \/ GuestEnds(a)
  BY <1>4 DEF ReadParameter, LoadReturns, StartReturns, GuestConnects, GuestEnds, ServedInv, vars, targetVars
<1> QED
  BY <1>1, <1>2, <1>3, <1>4 DEF AttachStep, RemoteSide

\* At most one hook ever serves in one WeSing, however many injectors start one.
THEOREM OneSession == AttachSpec => []ServesOneSession
<1>1. AttachInit => ServedInv
  BY DEF AttachInit, Init, ServedInv
<1>2. ServedInv /\ [AttachNext]_allVars => ServedInv'
  <2> SUFFICES ASSUME ServedInv, [AttachNext]_allVars PROVE ServedInv'
    OBVIOUS
  <2>1. CASE UNCHANGED allVars
    BY <2>1 DEF allVars, attachVars, vars, targetVars, ServedInv
  <2> QED
    BY <2>1, ServedByLaunch, ServedByAttacher DEF AttachNext
<1>3. ServedInv => ServesOneSession
  BY DEF ServedInv, ServesOneSession
<1> QED
  BY <1>1, <1>2, <1>3, PTL DEF AttachSpec

=============================================================================
