----------------------------- MODULE MCChanges -----------------------------
(***************************************************************************)
(* Every range vector of two series with samples at up to six times, some  *)
(* of them at, below and above the step from one another.                  *)
(***************************************************************************)
EXTENDS Changes

SampleTimes == {0, 1, 2, 4, 5, 8}
=============================================================================
