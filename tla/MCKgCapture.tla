----------------------------- MODULE MCKgCapture -----------------------------
(***************************************************************************)
(* Instances of KgCapture for TLC.                                         *)
(***************************************************************************)
EXTENDS KgCapture, TLC

\* Render threads and songs are interchangeable: safety only.
Symmetry == Permutations(Threads) \cup Permutations(Songs) \cup Permutations(Regions)

=============================================================================
