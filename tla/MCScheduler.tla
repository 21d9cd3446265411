---------------------------- MODULE MCScheduler ----------------------------
(***************************************************************************)
(* Small instances of Scheduler for TLC.                                   *)
(***************************************************************************)
EXTENDS Scheduler, TLC

CONSTANTS init, t1, t2

MCTask == {init, t1, t2}

\* t1 and t2 are pages of the allocator, interchangeable until they are used.
MCSymmetry == Permutations({t1, t2})

MCMinCounter == -2

MCMinCounterLive == -1
=============================================================================
