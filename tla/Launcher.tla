------------------------------ MODULE Launcher ------------------------------
(***************************************************************************)
(* One Session::connect (crates/kg-capture-app/src/connection.rs) with the *)
(* injector it runs (crates/kg-capture-injector/src/main.rs, --launch),    *)
(* the WeSing that the injector creates, and the start of the hook DLL in  *)
(* it (kg_capture_start, run_hook).  Five parties act at once:             *)
(*                                                                         *)
(*   - the host's connect, which waits for the injector and then for the   *)
(*     handshake;                                                          *)
(*   - the host's accept thread, blocked in IpcOneShotServer::accept;      *)
(*   - the injector, which any of its system calls may fail;               *)
(*   - WeSing's primary thread: Windows' loader, then WeSing's own code;   *)
(*   - the remote threads and the hook's thread in WeSing.                 *)
(*                                                                         *)
(* The time of a deadline is abstracted: it may run out at any moment.     *)
(***************************************************************************)

VARIABLES
  host,       \* where connect is
  accept,     \* where the accept thread is
  injector,   \* where the injector is
  process,    \* the WeSing process
  suspended,  \* its primary thread is suspended
  primary,    \* what the primary thread executes
  patched,    \* its entry point holds a jump to itself
  remote,     \* the remote call under way, or its result
  hook        \* where the thread of run_hook is

hostVars == <<host, accept>>
targetVars == <<process, suspended, primary, patched, remote, hook>>
vars == <<hostVars, injector, targetVars>>

Working ==
  {"create", "created", "armed", "probing", "stopped", "restored", "loading",
   "loaded", "starting", "hooked", "resumed"}

RemoteFunction == {"LoadLibraryW", "kg_capture_start"}

\* Nothing runs in a process that is not there.
LaunchTypeOK ==
  /\ host \in {"idle", "injector", "handshake", "connected", "failed", "gone"}
  /\ accept \in {"none", "listening", "connected", "offered", "failed", "gone"}
  /\ injector \in Working \cup {"none", "done", "failed", "killed"}
  /\ process \in {"none", "alive", "dead"}
  /\ suspended \in BOOLEAN
  /\ primary \in {"loader", "gate", "main"}
  /\ patched \in BOOLEAN
  /\ remote \in RemoteFunction \cup {"none", "ok", "error"}
  /\ hook \in {"absent", "started", "connected", "serving", "ended"}
  /\ process # "alive" => remote \notin RemoteFunction /\ hook \in {"absent", "ended"}

Init ==
  /\ host = "idle" /\ accept = "none" /\ injector = "none"
  /\ process = "none" /\ suspended = FALSE /\ primary = "loader" /\ patched = FALSE
  /\ remote = "none" /\ hook = "absent"

------------------------------------------------------------------------------
(* The WeSing process. *)

Mutant_Dies ==   \* the hook's thread outlives the process
  /\ process' = "dead"
  /\ UNCHANGED <<remote, hook, accept>>

\* Every thread ends, a peer in accept gets an error, and the exit code of a
\* remote thread becomes that of the process, whatever it is.
Dies ==
  /\ process' = "dead"
  /\ \/ remote \in RemoteFunction /\ remote' \in {"ok", "error"}
     \/ remote \notin RemoteFunction /\ UNCHANGED remote
  /\ hook' = IF hook = "absent" THEN "absent" ELSE "ended"
  /\ accept' = IF hook = "connected" /\ accept = "connected" THEN "failed" ELSE accept

WeSingDies ==
  /\ process = "alive"
  /\ Dies
  /\ UNCHANGED <<host, injector, suspended, primary, patched>>

\* Windows' loader is done, or the jump at the entry point is no longer there.
PrimaryRuns ==
  /\ process = "alive" /\ ~suspended
  /\ primary \in {"loader", "gate"}
  /\ primary' = IF patched THEN "gate" ELSE "main"
  /\ UNCHANGED <<hostVars, injector, process, suspended, patched, remote, hook>>

RemoteLoads ==
  /\ remote = "LoadLibraryW"
  /\ remote' \in {"ok", "error"}
  /\ UNCHANGED <<hostVars, injector, process, suspended, primary, patched, hook>>

\* kg_capture_start spawns the thread of run_hook, or returns a code.
RemoteStarts ==
  /\ remote = "kg_capture_start"
  /\ \/ remote' = "ok" /\ hook' = "started"
     \/ remote' = "error" /\ UNCHANGED hook
  /\ UNCHANGED <<hostVars, injector, process, suspended, primary, patched>>

\* The bootstrap sender connects, if the one-shot server still listens.
HookConnects ==
  /\ hook = "started"
  /\ \/ accept = "listening" /\ hook' = "connected" /\ accept' = "connected"
     \/ hook' = "ended" /\ UNCHANGED accept
  /\ UNCHANGED <<host, injector, process, suspended, primary, patched, remote>>

\* The handshake carries the host's ends of both channels.  The accept thread
\* passes it on; without anyone to take it, it is dropped.
HookShakesHands ==
  /\ hook = "connected"
  /\ \/ accept = "connected" /\ hook' = "serving" /\ accept' = "offered"
     \/ hook' = "ended" /\ accept' = IF accept = "connected" THEN "failed" ELSE accept
  /\ UNCHANGED <<host, injector, process, suspended, primary, patched, remote>>

Mutant_HostHoldsSender == accept = "offered"   \* a refused handshake is kept

\* The handshake has been accepted and not been dropped since.
HostHoldsSender ==
  accept = "offered" /\ host \in {"injector", "handshake", "connected"}

HookEnds ==
  /\ hook = "serving" /\ ~HostHoldsSender
  /\ hook' = "ended"
  /\ UNCHANGED <<hostVars, injector, process, suspended, primary, patched, remote>>

HookThread == HookConnects \/ HookShakesHands \/ HookEnds

Target == WeSingDies \/ PrimaryRuns \/ RemoteLoads \/ RemoteStarts \/ HookThread

------------------------------------------------------------------------------
(* The injector: run() with Target::Launch. *)

At(pc, next) == injector = pc /\ injector' = next

Create ==
  /\ At("create", "created")
  /\ process' = "alive" /\ suspended' = TRUE
  /\ UNCHANGED <<hostVars, primary, patched, remote, hook>>

Mutant_Arm ==   \* the entry point is left as it is
  /\ process = "alive"
  /\ At("created", "armed")
  /\ UNCHANGED <<hostVars, targetVars>>

\* validate_x86_target and EntrypointGate::arm.
Arm ==
  /\ process = "alive"
  /\ At("created", "armed")
  /\ patched' = TRUE
  /\ UNCHANGED <<hostVars, process, suspended, primary, remote, hook>>

RunLoader ==
  /\ At("armed", "probing")
  /\ suspended' = FALSE
  /\ UNCHANGED <<hostVars, process, primary, patched, remote, hook>>

\* The iteration of run_loader_to_entrypoint that finds the thread at the
\* entry point, and leaves it suspended.  Every other iteration resumes it.
Probe ==
  /\ process = "alive" /\ primary = "gate"
  /\ At("probing", "stopped")
  /\ suspended' = TRUE
  /\ UNCHANGED <<hostVars, process, primary, patched, remote, hook>>

Restore ==
  /\ process = "alive"
  /\ At("stopped", "restored")
  /\ patched' = FALSE
  /\ UNCHANGED <<hostVars, process, suspended, primary, remote, hook>>

CallRemote(function) ==
  /\ process = "alive"
  /\ remote' = function
  /\ UNCHANGED <<hostVars, process, suspended, primary, patched, hook>>

CallLoad == At("restored", "loading") /\ CallRemote("LoadLibraryW")

CallStart == At("loaded", "starting") /\ CallRemote("kg_capture_start")

Mutant_Returned(pc, next) ==   \* the exit code of the remote thread not read
  /\ At(pc, next)
  /\ remote \in {"ok", "error"}
  /\ UNCHANGED <<hostVars, targetVars>>

Returned(pc, next) ==
  /\ At(pc, next)
  /\ remote = "ok"
  /\ UNCHANGED <<hostVars, targetVars>>

Resume ==
  /\ At("hooked", "resumed")
  /\ suspended' = FALSE
  /\ UNCHANGED <<hostVars, process, primary, patched, remote, hook>>

\* The PID file, if one was asked for, and keep_running.
KeepRunning == At("resumed", "done") /\ UNCHANGED <<hostVars, targetVars>>

\* Waiting INFINITE for the remote thread.
Mutant_Fail ==
  /\ injector \in Working \ {"loading", "starting"}
  /\ injector' = "failed"
  /\ IF process = "alive" THEN Dies ELSE UNCHANGED <<process, remote, hook, accept>>
  /\ UNCHANGED <<host, suspended, primary, patched>>

\* run() without LaunchedProcess's Drop.
Mutant_Fail_leaves ==
  /\ injector \in Working
  /\ injector' = "failed"
  /\ UNCHANGED <<hostVars, targetVars>>

\* Every step has an error path, those that wait a deadline: the error returns
\* through run(), and dropping the LaunchedProcess terminates it.  No drop
\* restores the entry point: the process ends with the jump in place.
Fail ==
  /\ injector \in Working
  /\ injector' = "failed"
  /\ IF process = "alive" THEN Dies ELSE UNCHANGED <<process, remote, hook, accept>>
  /\ UNCHANGED <<host, suspended, primary, patched>>

Injector ==
  \/ Create \/ Arm \/ RunLoader \/ Probe \/ Restore
  \/ CallLoad \/ Returned("loading", "loaded")
  \/ CallStart \/ Returned("starting", "hooked")
  \/ Resume \/ KeepRunning \/ Fail

\* From outside, at any point: no drop runs.
InjectorKilled ==
  /\ injector \in Working
  /\ injector' = "killed"
  /\ UNCHANGED <<hostVars, targetVars>>

------------------------------------------------------------------------------
(* The host: Session::connect. *)

\* A check fails; the injector cannot be started, the accept thread already
\* waiting; or the injector runs.
Begin ==
  /\ host = "idle"
  /\ \/ host' = "failed" /\ accept' \in {"none", "listening"} /\ UNCHANGED injector
     \/ host' = "injector" /\ accept' = "listening" /\ injector' = "create"
  /\ UNCHANGED targetVars

Mutant_InjectorReturns ==   \* the exit status not looked at
  /\ host = "injector"
  /\ injector \in {"done", "failed", "killed"}
  /\ host' = "handshake"
  /\ UNCHANGED <<accept, injector, targetVars>>

\* status() has no timeout of its own: the injector's deadlines bound it.
InjectorReturns ==
  /\ host = "injector"
  /\ \/ injector = "done" /\ host' = "handshake"
     \/ injector \in {"failed", "killed"} /\ host' = "failed"
  /\ UNCHANGED <<accept, injector, targetVars>>

\* The handshake is there; its version and nonce are compared.
HandshakeAccepted ==
  /\ host = "handshake" /\ accept = "offered"
  /\ host' \in {"connected", "failed"}
  /\ UNCHANGED <<accept, injector, targetVars>>

Mutant_HandshakeTimeout == FALSE /\ UNCHANGED vars   \* recv in the place of recv_timeout

\* recv_timeout's ten seconds, or accept's error.
HandshakeTimeout ==
  /\ host = "handshake" /\ accept # "offered"
  /\ host' = "failed"
  /\ UNCHANGED <<accept, injector, targetVars>>

\* The injector goes on by itself.
HostExits ==
  /\ host # "gone"
  /\ host' = "gone" /\ accept' = "gone"
  /\ UNCHANGED <<injector, targetVars>>

Connect == InjectorReturns \/ HandshakeAccepted \/ HandshakeTimeout

\* A launch that has ended: nothing more happens.
Over == host = "gone" /\ process # "alive" /\ UNCHANGED vars

Next == Begin \/ Connect \/ HostExits \/ Injector \/ InjectorKilled \/ Target \/ Over

\* Programs and threads that run are scheduled.  The remote threads are not
\* promised to return, nor Windows' loader to reach the entry point.
Fairness == WF_vars(Connect) /\ WF_vars(Injector) /\ WF_vars(HookThread)

Spec == Init /\ [][Next]_vars /\ Fairness

------------------------------------------------------------------------------

Promise == INSTANCE HeldLaunch WITH
  child <- CASE process = "none" -> "none"
             [] process = "dead" -> "gone"
             [] process = "alive" /\ primary = "main" -> "running"
             [] process = "alive" /\ primary # "main" -> "held",
  hooked <- hook # "absent"

\* No code of WeSing's own runs before the hook is started, whatever fails or
\* is killed in between, and although the loader had to run first ("injecting
\* before target entry point executes").
HeldUntilHooked == Promise!Spec

\* A launch that fails leaves no process behind, neither a suspended one nor
\* one that spins at its entry point.
FailureLeavesNothing == injector = "failed" => process # "alive"

\* A session is only ever handed to the application over a hook that serves it
\* in a WeSing whose own code may run, unless WeSing has ended since.
SessionIsServed ==
  host = "connected" /\ process = "alive" =>
    hook = "serving" /\ injector = "done" /\ ~suspended /\ ~patched

\* Connecting ends, even if the loader never reaches the entry point, a remote
\* call never returns or the hook never connects.
ConnectEnds == host = "injector" ~> host \in {"connected", "failed", "gone"}

\* A hook whose handshake comes too late, is refused, or meets a host that has
\* gone does not serve for ever.
NoOrphanHook == host \in {"failed", "gone"} ~> [](hook # "serving")

=============================================================================
