------------------------- MODULE MCSchedulerProofs -------------------------
(***************************************************************************)
(* The inductive invariant of SchedulerProofs on a small instance.         *)
(***************************************************************************)
EXTENDS MCScheduler, SchedulerProofs
=============================================================================
