-------------------------- MODULE MCMemoryManager --------------------------
(***************************************************************************)
(* Small instances of MemoryManager for TLC.  Tables of two entries make   *)
(* four levels of sixteen addresses: 0 and 1 (the code and stack of the    *)
(* first process) share all their tables, 15 shares only the directory.    *)
(***************************************************************************)
EXTENDS MemoryManager, TLC

CONSTANTS first, t1, t2

MCTask == {first, t1, t2}

MCTwoTasks == {first, t1}

MCVA == {0, 1, 15}

MCSymmetry == Permutations({t1, t2})
=============================================================================
