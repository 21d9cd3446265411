---------------------------- MODULE TaskSwitching ----------------------------
(***************************************************************************)
(* What the scheduler promises (kernel/Scheduler.h): tasks are created one *)
(* at a time and numbered in the order of their creation, the running task *)
(* may exit, and the CPU is handed to any task that exists and has not     *)
(* exited.  Counters, preemption, guards and the steps in which the kernel *)
(* does these things are left to the module Scheduler.                     *)
(***************************************************************************)
EXTENDS Naturals, Sequences

CONSTANTS Task, InitTask

VARIABLES
    table,  \* the tasks created so far; the process ID of table[n] is n - 1
    exited, \* the tasks that have exited
    cpu     \* the task that owns the CPU

switchVars == << table, exited, cpu >>

InTable(t) == \E n \in 1 .. Len(table) : table[n] = t

Init ==
    /\ table = << InitTask >>
    /\ exited = {}
    /\ cpu = InitTask

Create ==
    /\ cpu \notin exited
    /\ \E t \in Task : ~InTable(t) /\ table' = Append(table, t)
    /\ UNCHANGED << exited, cpu >>

Exit ==
    /\ cpu \notin exited
    /\ cpu # InitTask
    /\ exited' = exited \union {cpu}
    /\ UNCHANGED << table, cpu >>

Dispatch ==
    /\ \E t \in Task \ exited : InTable(t) /\ cpu' = t
    /\ UNCHANGED << table, exited >>

Next == Create \/ Exit \/ Dispatch

Spec == Init /\ [][Next]_switchVars
=============================================================================
