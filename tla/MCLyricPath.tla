----------------------------- MODULE MCLyricPath -----------------------------
(***************************************************************************)
(* Instances of LyricPath for TLC.                                         *)
(***************************************************************************)
EXTENDS LyricPath

\* A duration may be negative: valid_time bounds its absolute value only.
MCDurations == {-1, 0, 2}

==============================================================================
