------------------------------ MODULE MCHookDll ------------------------------
(***************************************************************************)
(* Instances of HookDll for TLC: the DLL under any host.  One address      *)
(* range is enough to change the identity, which also holds the class.     *)
(***************************************************************************)
EXTENDS HookDll, TLC

\* The render threads and songs are interchangeable: safety only.
Symmetry == Permutations(Threads) \cup Permutations(Songs)

=============================================================================
