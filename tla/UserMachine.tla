----------------------------- MODULE UserMachine -----------------------------
(***************************************************************************)
(* What the exception vectors promise to user programs: each task has a    *)
(* machine of its own.  Its program counter, stack pointer and registers   *)
(* change by its own instructions and by the results of its own system     *)
(* calls, and by nothing else; page faults, timer interrupts and other     *)
(* tasks are invisible.  Fork creates a second machine in the same state   *)
(* but for its result.                                                     *)
(***************************************************************************)
EXTENDS Integers

CONSTANTS Task, FirstTask, NoTask,
          Stack, Number, Result  \* stack pointers, numbers of system calls, their results

VARIABLES
    user,    \* the machine of each task: [pc, sp, x0, number], NoTask before it is created
    calling  \* the tasks in a system call

machineVars == << user, calling >>

Forking(t) == t \in calling /\ user[t].number = 1

Init ==
    /\ user = [t \in Task |-> IF t = FirstTask
                  THEN [pc |-> 0, sp |-> 2, x0 |-> 0, number |-> 0] ELSE NoTask]
    /\ calling = {}

Instruction(t) ==
    /\ t \notin calling /\ user[t] # NoTask
    /\ UNCHANGED calling
    /\ \E sp \in Stack : user' = [user EXCEPT ![t].pc = @ + 1, ![t].sp = sp]

Call(t) ==
    /\ t \notin calling /\ user[t] # NoTask
    /\ calling' = calling \union {t}
    /\ \E n \in Number : user' = [user EXCEPT ![t].pc = @ + 1, ![t].number = n]

Fork(t) ==
    /\ Forking(t)
    /\ UNCHANGED calling
    /\ \E u \in Task :
         /\ user[u] = NoTask
         /\ user' = [user EXCEPT ![u] = [user[t] EXCEPT !.x0 = 0]]

\* Only a child finds 0 as the result of Fork.
Return(t) ==
    /\ t \in calling
    /\ calling' = calling \ {t}
    /\ \E n \in Result : (Forking(t) => n # 0) /\ user' = [user EXCEPT ![t].x0 = n]

Next == \E t \in Task : Instruction(t) \/ Call(t) \/ Fork(t) \/ Return(t)

Spec == Init /\ [][Next]_machineVars
=============================================================================
