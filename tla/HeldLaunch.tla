----------------------------- MODULE HeldLaunch -----------------------------
(***************************************************************************)
(* What launching WeSing promises, without any of its means: WeSing is     *)
(* created held, the hook is started inside it, and only then does code of *)
(* WeSing's own run.  A child may end at any time.                         *)
(***************************************************************************)

VARIABLES
  child,   \* the WeSing that is launched
  hooked   \* the hook has been started in it

promiseVars == <<child, hooked>>

Init == child = "none" /\ hooked = FALSE

Hold == child = "none" /\ child' = "held" /\ UNCHANGED hooked

Hook == child = "held" /\ ~hooked /\ hooked' = TRUE /\ UNCHANGED child

Release == child = "held" /\ hooked /\ child' = "running" /\ UNCHANGED hooked

End == child \in {"held", "running"} /\ child' = "gone" /\ UNCHANGED hooked

Next == Hold \/ Hook \/ Release \/ End

Spec == Init /\ [][Next]_promiseVars

=============================================================================
