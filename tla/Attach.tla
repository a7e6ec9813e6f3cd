------------------------------- MODULE Attach -------------------------------
(***************************************************************************)
(* A launch (Launcher) during and after which further injectors run with   *)
(* --pid and the process id of the same WeSing: the diagnostic mode of     *)
(* crates/kg-capture-injector.  Each brings its own IPC endpoint and       *)
(* starts kg_capture_start once more in the one hook DLL that the process  *)
(* has, so that several threads run run_hook and meet at its statics.      *)
(*                                                                         *)
(* The parameter of a remote call lies in memory that the injector         *)
(* allocates in WeSing and frees when inject returns.  A thread that reads *)
(* it after that finds anything or nothing.                                *)
(***************************************************************************)
EXTENDS Launcher

CONSTANTS
  Attachers,  \* the injectors run with --pid
  Launch,     \* the launch, among those whose hook may own the DLL
  Nobody

ASSUME AttachAssumption ==
  /\ Launch \notin Attachers
  /\ Nobody \notin Attachers \cup {Launch}

VARIABLES
  attacher,  \* where each such injector is
  call,      \* its remote call in WeSing, or the result of it
  read,      \* the remote thread has read its parameter
  memory,    \* the functions whose parameter it has allocated and not freed
  guest,     \* where the run_hook thread started for it is
  owner,     \* whose run_hook has set EVENT_QUEUE
  served     \* history: whose run_hook has ever entered the command loop

attachVars == <<attacher, call, read, memory, guest, owner, served>>
allVars == <<vars, attachVars>>

Injecting == {"opened", "loading", "loaded", "starting"}

AttachTypeOK ==
  /\ LaunchTypeOK
  /\ attacher \in [Attachers -> Injecting \cup {"idle", "done", "failed", "killed"}]
  /\ call \in [Attachers -> RemoteFunction \cup {"none", "ok", "error"}]
  /\ read \in [Attachers -> BOOLEAN]
  /\ memory \in [Attachers -> SUBSET RemoteFunction]
  /\ guest \in [Attachers -> {"absent", "started", "connected", "serving", "ended"}]
  /\ owner \in Attachers \cup {Launch, Nobody}
  /\ served \subseteq Attachers \cup {Launch}

AttachInit ==
  /\ Init
  /\ attacher = [a \in Attachers |-> "idle"]
  /\ call = [a \in Attachers |-> "none"]
  /\ read = [a \in Attachers |-> FALSE]
  /\ memory = [a \in Attachers |-> {}]
  /\ guest = [a \in Attachers |-> "absent"]
  /\ owner = Nobody
  /\ served = {}

------------------------------------------------------------------------------
(* The launch, with what it shares with the attachers. *)

\* The end of WeSing ends its threads; its memory is gone.
EndGuests ==
  /\ call' \in [Attachers -> RemoteFunction \cup {"none", "ok", "error"}]
  /\ \A a \in Attachers :
       IF call[a] \in RemoteFunction THEN call'[a] \in {"ok", "error"} ELSE call'[a] = call[a]
  /\ memory' = [a \in Attachers |-> {}]
  /\ guest' = [a \in Attachers |-> IF guest[a] = "absent" THEN "absent" ELSE "ended"]

\* run_hook sets EVENT_QUEUE after it has connected and before it sends the
\* handshake.  Whoever finds it set gives up, and the Error that says so goes to
\* a channel whose receiver is its own.  Whoever set it and fails later leaves
\* it set.
MayOwn(who) == owner = Nobody /\ owner' = who

Mutant_TakeQueue(who, shaken) == owner' = who   \* the result of set ignored

TakeQueue(who, shaken) ==
  \/ MayOwn(who)
  \/ ~shaken /\ UNCHANGED owner

\* A step of the launch.  Its hook needs the queue.
LaunchStep ==
  /\ Next
  /\ IF process = "alive" /\ process' = "dead"
     THEN EndGuests
     ELSE UNCHANGED <<call, memory, guest>>
  /\ UNCHANGED <<attacher, read>>
  /\ IF hook = "connected" /\ hook' # "connected" /\ process' = process
     THEN TakeQueue(Launch, hook' = "serving")
     ELSE UNCHANGED owner
  /\ served' = IF hook' = "serving" THEN served \cup {Launch} ELSE served

------------------------------------------------------------------------------
(* An injector with Target::Existing. *)

AttacherAt(a, pc, next) ==
  /\ attacher[a] = pc
  /\ attacher' = [attacher EXCEPT ![a] = next]

\* OpenProcess and validate_x86_target.
Open(a) ==
  /\ process = "alive"
  /\ AttacherAt(a, "idle", "opened")
  /\ UNCHANGED <<vars, call, read, memory, guest, owner, served>>

\* RemoteAllocation::write and CreateRemoteThread.
CallWith(a, function) ==
  /\ process = "alive"
  /\ call' = [call EXCEPT ![a] = function]
  /\ read' = [read EXCEPT ![a] = FALSE]
  /\ memory' = [memory EXCEPT ![a] = @ \cup {function}]
  /\ UNCHANGED <<vars, guest, owner, served>>

\* remote_module_base has found kernel32.dll, which the loader maps.
AttachLoads(a) ==
  /\ primary # "loader" \/ ~suspended
  /\ AttacherAt(a, "opened", "loading")
  /\ CallWith(a, "LoadLibraryW")

AttachLoaded(a) ==
  /\ call[a] = "ok"
  /\ AttacherAt(a, "loading", "loaded")
  /\ UNCHANGED <<vars, call, read, memory, guest, owner, served>>

AttachStarts(a) ==
  /\ AttacherAt(a, "loaded", "starting")
  /\ CallWith(a, "kg_capture_start")

Free(a) == memory' = [memory EXCEPT ![a] = {}]

AttachDone(a) ==
  /\ call[a] = "ok"
  /\ AttacherAt(a, "starting", "done")
  /\ Free(a)
  /\ UNCHANGED <<vars, call, read, guest, owner, served>>

\* Waiting INFINITE for the remote thread.
Mutant_AttachFails(a) ==
  /\ \E pc \in Injecting \ {"loading", "starting"} : AttacherAt(a, pc, "failed")
  /\ Free(a)
  /\ UNCHANGED <<vars, call, read, guest, owner, served>>

\* An error of any step, REMOTE_CALL_TIMEOUT_MS included, drops the allocations
\* and lets WeSing and the remote thread be.
AttachFails(a) ==
  /\ \E pc \in Injecting : AttacherAt(a, pc, "failed")
  /\ Free(a)
  /\ UNCHANGED <<vars, call, read, guest, owner, served>>

AttacherKilled(a) ==
  /\ \E pc \in Injecting : AttacherAt(a, pc, "killed")
  /\ UNCHANGED <<vars, call, read, memory, guest, owner, served>>

Attacher(a) ==
  \/ AttachLoads(a) \/ AttachLoaded(a) \/ AttachStarts(a) \/ AttachDone(a)
  \/ AttachFails(a)

------------------------------------------------------------------------------
(* What the attachers start inside WeSing. *)

RemoteThread(a, function) == call[a] = function /\ process = "alive"

\* The remote thread comes to run and reads its parameter.
ReadParameter(a) ==
  /\ \E function \in memory[a] : RemoteThread(a, function)
  /\ ~read[a]
  /\ read' = [read EXCEPT ![a] = TRUE]
  /\ UNCHANGED <<vars, attacher, call, memory, guest, owner, served>>

\* It has been freed: what is read is somebody else's and the call fails, or
\* nobody's and the access violation ends WeSing.
ReadFreed(a) ==
  /\ \E function \in RemoteFunction \ memory[a] : RemoteThread(a, function)
  /\ ~read[a]
  /\ \/ call' = [call EXCEPT ![a] = "error"] /\ UNCHANGED <<vars, memory, guest>>
     \/ WeSingDies /\ EndGuests
  /\ UNCHANGED <<attacher, read, owner, served>>

\* LoadLibraryW only counts one more reference; it may fail.
LoadReturns(a) ==
  /\ RemoteThread(a, "LoadLibraryW") /\ read[a]
  /\ call' \in {[call EXCEPT ![a] = result] : result \in {"ok", "error"}}
  /\ UNCHANGED <<vars, attacher, read, memory, guest, owner, served>>

\* kg_capture_start spawns run_hook, whether or not the call is still awaited,
\* or returns a code.
StartReturns(a) ==
  /\ RemoteThread(a, "kg_capture_start") /\ read[a]
  /\ \/ /\ call' = [call EXCEPT ![a] = "ok"]
        /\ guest' = [guest EXCEPT ![a] = "started"]
     \/ call' = [call EXCEPT ![a] = "error"] /\ UNCHANGED guest
  /\ UNCHANGED <<vars, attacher, read, memory, owner, served>>

GuestAt(a, pc, next) ==
  /\ guest[a] = pc
  /\ guest' = [guest EXCEPT ![a] = next]

\* The attacher's endpoint is somebody else's program: it may not be there.
GuestConnects(a) ==
  /\ \E next \in {"connected", "ended"} : GuestAt(a, "started", next)
  /\ UNCHANGED <<vars, attacher, call, read, memory, owner, served>>

GuestShakesHands(a) ==
  /\ \/ /\ GuestAt(a, "connected", "serving")
        /\ TakeQueue(a, TRUE)
        /\ served' = served \cup {a}
     \/ /\ GuestAt(a, "connected", "ended")
        /\ TakeQueue(a, FALSE)
        /\ UNCHANGED served
  /\ UNCHANGED <<vars, attacher, call, read, memory>>

GuestEnds(a) ==
  /\ GuestAt(a, "serving", "ended")
  /\ UNCHANGED <<vars, attacher, call, read, memory, owner, served>>

RemoteSide(a) ==
  \/ ReadParameter(a) \/ ReadFreed(a) \/ LoadReturns(a) \/ StartReturns(a)
  \/ GuestConnects(a) \/ GuestShakesHands(a) \/ GuestEnds(a)

AttachStep(a) == Open(a) \/ Attacher(a) \/ AttacherKilled(a) \/ RemoteSide(a)

AttachNext == LaunchStep \/ \E a \in Attachers : AttachStep(a)

\* As in Launcher, and the attachers' own deadlines.
AttachFairness ==
  /\ WF_allVars(Connect /\ LaunchStep)
  /\ WF_allVars(Injector /\ LaunchStep)
  /\ WF_allVars(HookThread /\ LaunchStep)
  /\ \A a \in Attachers : WF_allVars(Attacher(a))

AttachSpec == AttachInit /\ [][AttachNext]_allVars /\ AttachFairness

------------------------------------------------------------------------------

\* However many injectors start the hook in one WeSing, and in whatever order
\* they come and go, at most one of their hooks ever serves: two command loops
\* would enable and disable the same detours for two hosts, and a later one
\* would meet the statics that an earlier one has left.
ServesOneSession == \A a, b \in served : a = b

\* Attaching ends, even if a remote thread never comes to run.
AttachEnds ==
  \A a \in Attachers :
    attacher[a] = "opened" ~> attacher[a] \in {"done", "failed", "killed"}

\* "`parameter` must point to a readable [`HookBootstrap`] in this process"
\* (lib.rs:92-93), when kg_capture_start comes to read it.
ParameterReadable ==
  \A a \in Attachers :
    RemoteThread(a, "kg_capture_start") /\ ~read[a] => "kg_capture_start" \in memory[a]

=============================================================================
