--------------------------- MODULE SchedulerProofs ---------------------------
(***************************************************************************)
(* Theorems about Scheduler, for any number of tasks, any priority, any    *)
(* depth of nested interrupts and any number of ticks.                     *)
(***************************************************************************)
EXTENDS Scheduler, FiniteSetTheorems, SequenceTheorems, TLAPS

(***************************************************************************)
(* The inductive invariant.  Its parts say, of the activations on the      *)
(* kernel stacks,                                                          *)
(***************************************************************************)
\* ... which function may be at which place, and called from where;
WellFormed(c) ==
    /\ c.at \in {"scan", "take", "reset", "switch", "setpgd", "cpu"} =>
         c.fn = "schedule" /\ c.caller \in {"kmain", "exit", "tick"}
    /\ c.at \in {"alloc", "memory", "setup", "number", "publish"} =>
         c.fn = "copy" /\ c.caller \in {"kmain", "user"}
    /\ c.at = "flag" => c.fn = "exit"
    /\ c.at \in {"disableLoad", "disableStore", "enableLoad", "enableStore"} =>
         \/ c.fn = "schedule" /\ c.caller \in {"kmain", "exit", "tick"}
         \/ c.fn = "copy" /\ c.caller \in {"kmain", "user"}
         \/ c.fn = "exit"
         \/ c.fn = "fork" /\ c.caller \in {"kproc", "user"} /\ c.at \in {"enableLoad", "enableStore"}
    /\ c.at \in {"memory", "setup", "number", "publish", "setpgd", "cpu"} => c.task \in Task
    /\ c.at \in {"mask", "eret"} => c.fn \in {"user", "tick"}
    /\ c.at = "call" => c.fn \in {"kmain", "exit"}

\* ... what a load of PreemptCount has found;
LoadedCount(c) ==
    /\ c.at = "disableStore" => c.reg = 0
    /\ c.at = "enableStore" => c.reg = 1

\* ... that an activation made by a timer interrupt has another one below it;
MadeByTick(c) == c.fn = "tick" \/ c.caller = "tick"

\* ... and where an activation can be when an interrupt leaves it for another task.
Interruptible(c) == ~GuardHeld(c) /\ c.at \notin {"none", "eret", "halt"}

StacksOK ==
    /\ \A t \in Task :
         /\ WellFormed(context[t]) /\ LoadedCount(context[t])
         /\ MadeByTick(context[t]) => frames[t] # << >>
         /\ PreemptCount[t] = IF GuardHeld(context[t]) THEN 1 ELSE 0
    /\ \A t \in Task : \A i \in 1 .. Len(frames[t]) :
         /\ WellFormed(frames[t][i]) /\ LoadedCount(frames[t][i])
         /\ MadeByTick(frames[t][i]) => i > 1
         /\ Interruptible(frames[t][i])

\* Of the tasks: the one that owns the CPU, the others, and the window between.
OwnerOK ==
    /\ Created(onCpu)
    /\ \A t \in Task \ {onCpu} : context[t].at \in {"none", "enableLoad"}
    /\ Cur.at \notin {"setpgd", "cpu"} => pCurrentTask = onCpu
    /\ Cur.at \in {"setpgd", "cpu"} =>
         /\ pCurrentTask = Cur.task
         /\ pCurrentTask # onCpu
         /\ Created(pCurrentTask)
         /\ State[pCurrentTask] = "Running"

\* Of the array: what is in it has been created, what is chosen from it runs.
TableOK ==
    /\ \A i \in Slot : Tasks[i] # NoTask => Created(Tasks[i])
    /\ Cur.at \in {"scan", "take"} /\ Cur.largestCounter >= 0 => TaskAlive(Tasks[Cur.taskToResume])
    /\ Cur.at = "take" => TaskAlive(Tasks[Cur.curTask])
    /\ Cur.at = "switch" => TaskAlive(Tasks[Cur.taskToResume])
    /\ Cur.at \in {"memory", "setup"} => ~Created(Cur.task)
    /\ Cur.at \in {"number", "publish"} => Created(Cur.task)

\* The stacks, the owner of the CPU, the window of SwitchTo and the choice made
\* by ScheduleImpl are consistent with one another at every step; this implies
\* the invariants of Scheduler that are theorems below, and is preserved by
\* every action.
IInv == TypeOK /\ StacksOK /\ OwnerOK /\ TableOK /\ IrqMaskedOnlyAtReturn

-----------------------------------------------------------------------------
(***************************************************************************)
(* Activations.                                                            *)
(***************************************************************************)
\* The fields of the activation that At makes.
LEMMA AtFields ==
    ASSUME NEW fn \in Function, NEW at \in Place, NEW caller \in Function
    PROVE  /\ At(fn, at, caller) \in Activation
           /\ At(fn, at, caller).fn = fn
           /\ At(fn, at, caller).at = at
           /\ At(fn, at, caller).caller = caller
           /\ At(fn, at, caller).reg = 0
           /\ At(fn, at, caller).curTask = 0
           /\ At(fn, at, caller).largestCounter = -1
           /\ At(fn, at, caller).task = NoTask
  BY SchedulerAssumption DEF At, Activation, Slot

\* The names of functions and places, so that no proof has to expand the sets.
LEMMA Names ==
    /\ "none" \in Function /\ "kmain" \in Function /\ "kproc" \in Function
    /\ "user" \in Function /\ "copy" \in Function /\ "exit" \in Function
    /\ "schedule" \in Function /\ "fork" \in Function /\ "tick" \in Function
    /\ "none" \in Place /\ "run" \in Place /\ "call" \in Place
    /\ "hang" \in Place /\ "halt" \in Place /\ "loadpgd" \in Place
    /\ "disableLoad" \in Place /\ "disableStore" \in Place /\ "enableLoad" \in Place
    /\ "enableStore" \in Place /\ "alloc" \in Place /\ "memory" \in Place
    /\ "setup" \in Place /\ "number" \in Place /\ "publish" \in Place
    /\ "flag" \in Place /\ "scan" \in Place /\ "take" \in Place /\ "reset" \in Place
    /\ "switch" \in Place /\ "setpgd" \in Place /\ "cpu" \in Place
    /\ "mask" \in Place /\ "eret" \in Place
  BY DEF Function, Place

\* The fields of an activation of which some have been set.
LEMMA MoveFields ==
    ASSUME NEW c \in Activation, NEW at \in Place
    PROVE  /\ Move(c, at) \in Activation /\ Move(c, at).fn = c.fn /\ Move(c, at).caller = c.caller
           /\ Move(c, at).at = at /\ Move(c, at).reg = c.reg /\ Move(c, at).curTask = c.curTask
           /\ Move(c, at).task = c.task /\ Move(c, at).largestCounter = c.largestCounter
           /\ Move(c, at).taskToResume = c.taskToResume
  BY DEF Activation, Move

LEMMA LoadFields ==
    ASSUME NEW c \in Activation, NEW at \in Place, NEW n \in Int
    PROVE  /\ Load(c, at, n) \in Activation /\ Load(c, at, n).fn = c.fn /\ Load(c, at, n).caller = c.caller
           /\ Load(c, at, n).at = at /\ Load(c, at, n).reg = n /\ Load(c, at, n).curTask = c.curTask
           /\ Load(c, at, n).task = c.task /\ Load(c, at, n).largestCounter = c.largestCounter
           /\ Load(c, at, n).taskToResume = c.taskToResume
  BY DEF Activation, Load

LEMMA IndexFields ==
    ASSUME NEW c \in Activation, NEW at \in Place, NEW i \in Nat
    PROVE  /\ Index(c, at, i) \in Activation /\ Index(c, at, i).fn = c.fn /\ Index(c, at, i).caller = c.caller
           /\ Index(c, at, i).at = at /\ Index(c, at, i).reg = c.reg /\ Index(c, at, i).curTask = i
           /\ Index(c, at, i).task = c.task /\ Index(c, at, i).largestCounter = c.largestCounter
           /\ Index(c, at, i).taskToResume = c.taskToResume
  BY DEF Activation, Index

LEMMA HoldFields ==
    ASSUME NEW c \in Activation, NEW at \in Place, NEW t \in Task \union {NoTask}
    PROVE  /\ Hold(c, at, t) \in Activation /\ Hold(c, at, t).fn = c.fn /\ Hold(c, at, t).caller = c.caller
           /\ Hold(c, at, t).at = at /\ Hold(c, at, t).reg = c.reg /\ Hold(c, at, t).curTask = c.curTask
           /\ Hold(c, at, t).task = t /\ Hold(c, at, t).largestCounter = c.largestCounter
           /\ Hold(c, at, t).taskToResume = c.taskToResume
  BY DEF Activation, Hold

LEMMA PickFields ==
    ASSUME NEW c \in Activation, NEW n \in Int, NEW i \in Slot
    PROVE  /\ Pick(c, n, i) \in Activation /\ Pick(c, n, i).fn = c.fn /\ Pick(c, n, i).caller = c.caller
           /\ Pick(c, n, i).at = c.at /\ Pick(c, n, i).reg = c.reg /\ Pick(c, n, i).curTask = c.curTask
           /\ Pick(c, n, i).task = c.task /\ Pick(c, n, i).largestCounter = n
           /\ Pick(c, n, i).taskToResume = i
  BY DEF Activation, Pick

\* What the invariant says of the running activation.
LEMMA CurFacts ==
    ASSUME IInv
    PROVE  /\ onCpu \in Task /\ pCurrentTask \in Task
           /\ Cur \in Activation
           /\ WellFormed(Cur) /\ LoadedCount(Cur)
           /\ Cur.at \in {"scan", "take", "reset"} => Cur.curTask \in Slot
           /\ PreemptCount[onCpu] = IF GuardHeld(Cur) THEN 1 ELSE 0
           /\ Cur.at # "none"
           /\ Cur.at \notin {"setpgd", "cpu"} => pCurrentTask = onCpu
  BY DEF IInv, TypeOK, StacksOK, OwnerOK, Cur, Created

(***************************************************************************)
(* Most actions move the running activation on to another place of the     *)
(* same stack.  Advance says what follows from that for the stacks.        *)
(***************************************************************************)
CanAdvance(c) ==
    /\ c \in Activation
    /\ c.at # "none"
    /\ c.at \in {"scan", "take", "reset"} => c.curTask \in Slot
    /\ WellFormed(c)
    /\ LoadedCount(c)
    /\ MadeByTick(c) => MadeByTick(Cur)

Advanced(c) ==
    /\ onCpu' = onCpu
    /\ frames' = frames
    /\ Cur' = c
    /\ context' \in [Task -> Activation]
    /\ \A t \in Task : context'[t].at \in {"scan", "take", "reset"} => context'[t].curTask \in Slot
    /\ \A t \in Task \ {onCpu} : context'[t] = context[t]
    /\ \A t \in Task : context'[t].at # "none" <=> context[t].at # "none"
    /\ \A t \in Task \ {onCpu} : context'[t].at \in {"none", "enableLoad"}
    /\ StacksOK'

LEMMA Advance ==
    ASSUME IInv, NEW c, CanAdvance(c), Continue(c),
           PreemptCount' \in [Task -> Int],
           PreemptCount'[onCpu] = IF GuardHeld(c) THEN 1 ELSE 0,
           \A t \in Task \ {onCpu} : PreemptCount'[t] = PreemptCount[t]
    PROVE  Advanced(c)
<1>1. onCpu' = onCpu /\ frames' = frames /\ Cur' = c
  BY DEF IInv, TypeOK, Continue, Cur
<1>2. context' \in [Task -> Activation]
  BY DEF IInv, TypeOK, Continue, CanAdvance
<1>3. context'[onCpu] = c /\ \A t \in Task \ {onCpu} : context'[t] = context[t]
  BY DEF IInv, TypeOK, Continue
<1>4. \A t \in Task : context'[t].at \in {"scan", "take", "reset"} => context'[t].curTask \in Slot
  BY <1>3 DEF IInv, TypeOK, CanAdvance
<1>5. \A t \in Task : context'[t].at # "none" <=> context[t].at # "none"
  BY <1>3, CurFacts DEF CanAdvance, Cur
<1>6. \A t \in Task \ {onCpu} : context'[t].at \in {"none", "enableLoad"}
  BY <1>3 DEF IInv, OwnerOK
<1>7. StacksOK'
  <2>1. ASSUME NEW t \in Task
        PROVE  /\ WellFormed(context'[t]) /\ LoadedCount(context'[t])
               /\ MadeByTick(context'[t]) => frames'[t] # << >>
               /\ PreemptCount'[t] = IF GuardHeld(context'[t]) THEN 1 ELSE 0
    <3>1. CASE t = onCpu
      BY <1>1, <1>3, <3>1 DEF IInv, StacksOK, CanAdvance, Cur
    <3>2. CASE t # onCpu
      BY <1>1, <1>3, <3>2 DEF IInv, StacksOK
    <3> QED
      BY <3>1, <3>2
  <2>2. \A t \in Task : \A i \in 1 .. Len(frames'[t]) :
          /\ WellFormed(frames'[t][i]) /\ LoadedCount(frames'[t][i])
          /\ MadeByTick(frames'[t][i]) => i > 1
          /\ Interruptible(frames'[t][i])
    BY <1>1 DEF IInv, StacksOK
  <2> QED
    BY <2>1, <2>2 DEF StacksOK, WellFormed, LoadedCount, MadeByTick, GuardHeld, Interruptible
<1> QED
  BY <1>1, <1>2, <1>3, <1>4, <1>5, <1>6, <1>7 DEF Advanced

(***************************************************************************)
(* Most actions also leave the tasks, the array and pCurrentTask alone.    *)
(* Keeps(c) is what must then hold of the place the activation moves to.   *)
(***************************************************************************)
Keeps(c) ==
    /\ CanAdvance(c)
    /\ c.at \in {"setpgd", "cpu"} => Cur.at \in {"setpgd", "cpu"} /\ c.task = Cur.task
    /\ c.at \notin {"setpgd", "cpu"} => pCurrentTask = onCpu
    /\ c.at \in {"scan", "take"} /\ c.largestCounter >= 0 => TaskAlive(Tasks[c.taskToResume])
    /\ c.at = "take" => TaskAlive(Tasks[c.curTask])
    /\ c.at = "switch" => TaskAlive(Tasks[c.taskToResume])
    /\ c.at \in {"memory", "setup"} => ~Created(c.task)
    /\ c.at \in {"number", "publish"} => Created(c.task)

LEMMA Continued ==
    ASSUME IInv, NEW c, Keeps(c), Continue(c),
           UNCHANGED << Tasks, State, pCurrentTask >>,
           NumberOfTasks' \in Nat,
           Counter' \in [Task -> Int],
           PreemptCount' \in [Task -> Int],
           PreemptCount'[onCpu] = IF GuardHeld(c) THEN 1 ELSE 0,
           \A t \in Task \ {onCpu} : PreemptCount'[t] = PreemptCount[t],
           PGD' \in [Task -> Task \union {NoTask}],
           ttbr0' \in Task \union {NoTask},
           irq' = (c.at \notin {"eret", "halt"}),
           guardTicks' \in Nat
    PROVE  IInv'
<1>1. Advanced(c)
  BY Advance DEF Keeps
<1>2. TypeOK'
  BY <1>1 DEF Advanced, IInv, TypeOK
<1>3. OwnerOK'
  <2>1. Created(onCpu)' /\ \A t \in Task \ {onCpu'} : context'[t].at \in {"none", "enableLoad"}
    BY <1>1, CurFacts DEF Advanced, Created, Cur
  <2>2. (Cur.at \notin {"setpgd", "cpu"} => pCurrentTask = onCpu)'
    BY <1>1 DEF Advanced, Keeps
  <2>3. CASE c.at \in {"setpgd", "cpu"}
    <3>1. Cur.at \in {"setpgd", "cpu"} /\ c.task = Cur.task
      BY <2>3 DEF Keeps
    <3>2. /\ pCurrentTask = Cur.task /\ pCurrentTask # onCpu
          /\ Created(pCurrentTask) /\ State[pCurrentTask] = "Running"
      BY <3>1 DEF IInv, OwnerOK
    <3>3. Created(pCurrentTask)'
      BY <1>1, <3>2, CurFacts DEF Advanced, Created
    <3> QED
      BY <1>1, <2>1, <2>2, <3>1, <3>2, <3>3 DEF Advanced, OwnerOK
  <2>4. CASE c.at \notin {"setpgd", "cpu"}
    BY <1>1, <2>1, <2>2, <2>4 DEF Advanced, OwnerOK
  <2> QED
    BY <2>3, <2>4
<1>4. TableOK'
  <2>1. \A i \in Slot : Tasks'[i] # NoTask => Created(Tasks[i])'
    BY <1>1 DEF Advanced, IInv, TypeOK, TableOK, Created
  <2>2. (Cur.at \in {"memory", "setup"} => ~Created(Cur.task))'
    <3> SUFFICES ASSUME c.at \in {"memory", "setup"} PROVE ~Created(c.task)'
      BY <1>1 DEF Advanced
    <3>1. c.task \in Task /\ ~Created(c.task)
      BY DEF Keeps, CanAdvance, WellFormed
    <3> QED
      BY <1>1, <3>1 DEF Advanced, Created
  <2>3. (Cur.at \in {"number", "publish"} => Created(Cur.task))'
    <3> SUFFICES ASSUME c.at \in {"number", "publish"} PROVE Created(c.task)'
      BY <1>1 DEF Advanced
    <3>1. c.task \in Task /\ Created(c.task)
      BY DEF Keeps, CanAdvance, WellFormed
    <3> QED
      BY <1>1, <3>1 DEF Advanced, Created
  <2>4. /\ (Cur.at \in {"scan", "take"} /\ Cur.largestCounter >= 0 => TaskAlive(Tasks[Cur.taskToResume]))'
        /\ (Cur.at = "take" => TaskAlive(Tasks[Cur.curTask]))'
        /\ (Cur.at = "switch" => TaskAlive(Tasks[Cur.taskToResume]))'
    BY <1>1 DEF Advanced, Keeps, TaskAlive
  <2> QED
    BY <2>1, <2>2, <2>3, <2>4 DEF TableOK
<1>5. IrqMaskedOnlyAtReturn'
  BY <1>1 DEF Advanced, IrqMaskedOnlyAtReturn
<1> QED
  BY <1>1, <1>2, <1>3, <1>4, <1>5 DEF Advanced, IInv

\* A step that leaves the stacks alone: a stutter, or a tick that does not preempt.
LEMMA Unmoved ==
    ASSUME IInv,
           UNCHANGED << Tasks, NumberOfTasks, State, PreemptCount, PGD,
                        pCurrentTask, onCpu, context, frames, ttbr0, irq >>,
           Counter' \in [Task -> Int], guardTicks' \in Nat
    PROVE  IInv'
<1>1. Cur' = Cur
  BY DEF Cur
<1>2. TypeOK'
  BY DEF IInv, TypeOK
<1>3. StacksOK'
  BY DEF IInv, StacksOK, WellFormed, LoadedCount, MadeByTick, GuardHeld, Interruptible
<1>4. OwnerOK'
  BY <1>1 DEF IInv, OwnerOK, Created
<1>5. TableOK'
  BY <1>1 DEF IInv, TableOK, Created, TaskAlive
<1>6. IrqMaskedOnlyAtReturn'
  BY <1>1 DEF IInv, IrqMaskedOnlyAtReturn
<1> QED
  BY <1>2, <1>3, <1>4, <1>5, <1>6 DEF IInv

(***************************************************************************)
(* The end of an iteration of ScheduleImpl's first loop, with b as the     *)
(* locals then.                                                            *)
(***************************************************************************)
LEMMA SlotDone ==
    ASSUME IInv, Cur.at \in {"scan", "take"}, NEW b \in Activation, NextSlot(b),
           b.fn = Cur.fn, b.caller = Cur.caller, b.curTask = Cur.curTask,
           b.largestCounter >= 0 => TaskAlive(Tasks[b.taskToResume]),
           UNCHANGED << Tasks, NumberOfTasks, State, Counter, PreemptCount, PGD,
                        pCurrentTask, ttbr0, irq, guardTicks >>
    PROVE  IInv'
<1> USE SchedulerAssumption
<1>0. onCpu \in Task /\ Cur \in Activation /\ WellFormed(Cur) /\ LoadedCount(Cur)
  BY CurFacts
<1>a. /\ Cur.at \in {"scan", "take"} /\ b.curTask \in Slot /\ pCurrentTask = onCpu
      /\ Cur.fn = "schedule" /\ Cur.caller \in {"kmain", "exit", "tick"} /\ Cur.caller \in Function
      /\ PreemptCount[onCpu] = 1
  BY <1>0, CurFacts DEF WellFormed, GuardHeld, Activation
<1>b. /\ b \in Activation /\ b.fn = Cur.fn /\ b.caller = Cur.caller
      /\ b.largestCounter >= 0 => TaskAlive(Tasks[b.taskToResume])
  OBVIOUS
<1>c. ASSUME NEW c, Keeps(c), Continue(c), c.at \in {"scan", "switch", "reset"}
      PROVE  IInv'
  <2>1. GuardHeld(c)
    BY <1>c DEF GuardHeld
  <2> QED
    BY <1>a, <1>c, <2>1, Continued DEF IInv, TypeOK, IrqMaskedOnlyAtReturn
<1>1. CASE ~LastSlot(b.curTask) /\ Continue(Index(b, "scan", b.curTask + 1))
  <2> DEFINE c == Index(b, "scan", b.curTask + 1)
  <2>1. b.curTask + 1 \in Slot /\ b.curTask + 1 \in Nat
    BY <1>a, <1>1 DEF LastSlot, Slot
  <2>a. "scan" \in Place
    BY Names
  <2>2. /\ c \in Activation /\ c.at = "scan" /\ c.fn = Cur.fn /\ c.caller = Cur.caller
        /\ c.curTask \in Slot /\ c.largestCounter = b.largestCounter /\ c.taskToResume = b.taskToResume
    BY <1>b, <2>1, <2>a, IndexFields
  <2>3. Keeps(c)
    BY <1>a, <1>b, <2>2 DEF Keeps, CanAdvance, WellFormed, LoadedCount, MadeByTick
  <2> QED
    BY <1>1, <1>c, <2>2, <2>3
<1>2. CASE FoundTask(b.largestCounter)
           /\ Continue(Pick(At("schedule", "switch", b.caller), -1, b.taskToResume))
  <2> DEFINE a == At("schedule", "switch", b.caller)
             c == Pick(a, -1, b.taskToResume)
  <2>a. "schedule" \in Function /\ "switch" \in Place
    BY Names
  <2>1. a \in Activation /\ a.at = "switch" /\ a.fn = "schedule" /\ a.caller = Cur.caller
    BY <1>a, <2>a, AtFields
  <2>2. b.taskToResume \in Slot /\ -1 \in Int /\ b.largestCounter \in Int
    BY <1>b DEF Activation
  <2>3. /\ c \in Activation /\ c.at = "switch" /\ c.fn = "schedule" /\ c.caller = Cur.caller
        /\ c.taskToResume = b.taskToResume
    BY <2>1, <2>2, PickFields
  <2>4. TaskAlive(Tasks[c.taskToResume])
    BY <1>2, <1>b, <2>2, <2>3 DEF FoundTask
  <2>5. Keeps(c)
    BY <1>a, <2>3, <2>4 DEF Keeps, CanAdvance, WellFormed, LoadedCount, MadeByTick
  <2> QED
    BY <1>2, <1>c, <2>3, <2>5
<1>3. CASE Continue(At("schedule", "reset", b.caller))
  <2> DEFINE c == At("schedule", "reset", b.caller)
  <2>a. "schedule" \in Function /\ "reset" \in Place
    BY Names
  <2>1. c \in Activation /\ c.at = "reset" /\ c.fn = "schedule" /\ c.caller = Cur.caller /\ c.curTask = 0
    BY <1>a, <2>a, AtFields
  <2>2. Keeps(c)
    BY <1>a, <2>1 DEF Keeps, CanAdvance, WellFormed, LoadedCount, MadeByTick, Slot
  <2> QED
    BY <1>3, <1>c, <2>1, <2>2
<1> QED
  BY <1>1, <1>2, <1>3 DEF NextSlot

(***************************************************************************)
(* One step of the induction for each action.                              *)
(***************************************************************************)
\* Every step of the scheduler keeps the invariant.
LEMMA Inductive == IInv /\ [Next]_vars => IInv'
<1> SUFFICES ASSUME IInv, [Next]_vars PROVE IInv'
  OBVIOUS
<1> USE SchedulerAssumption
<1>0. /\ onCpu \in Task /\ pCurrentTask \in Task
      /\ Cur \in Activation
      /\ WellFormed(Cur) /\ LoadedCount(Cur)
      /\ Cur.at \in {"scan", "take", "reset"} => Cur.curTask \in Slot
      /\ PreemptCount[onCpu] = IF GuardHeld(Cur) THEN 1 ELSE 0
      /\ Cur.at # "none"
      /\ Cur.at \notin {"setpgd", "cpu"} => pCurrentTask = onCpu
  BY CurFacts
<1>1. ASSUME PreemptDisableLoad PROVE IInv'
  <2> DEFINE c == Load(Cur, "disableStore", PreemptCount[pCurrentTask])
  <2>0. PreemptCount[pCurrentTask] = 0 /\ "disableStore" \in Place
    BY <1>0, <1>1, Names DEF PreemptDisableLoad, GuardHeld
  <2>1. c \in Activation /\ c.at = "disableStore" /\ c.reg = 0 /\ c.fn = Cur.fn /\ c.caller = Cur.caller
    BY <1>0, <2>0, LoadFields
  <2>2. Keeps(c)
    BY <1>0, <1>1, <2>0, <2>1 DEF PreemptDisableLoad, Keeps, CanAdvance, WellFormed, LoadedCount, MadeByTick
  <2> QED
    BY <1>0, <1>1, <2>0, <2>1, <2>2, Continued DEF PreemptDisableLoad, IInv, TypeOK, GuardHeld, IrqMaskedOnlyAtReturn
<1>2. ASSUME PreemptDisableStore PROVE IInv'
  <2> DEFINE c == AfterDisable(Cur)
  <2>0. /\ pCurrentTask = onCpu /\ PreemptCount \in [Task -> Int]
        /\ PreemptCount' = [PreemptCount EXCEPT ![onCpu] = 1]
    <3>1. Cur.reg = 0 /\ pCurrentTask = onCpu
      BY <1>0, <1>2 DEF PreemptDisableStore, LoadedCount
    <3>2. DisabledCount(Cur.reg) = 1
      BY <3>1 DEF DisabledCount
    <3> QED
      BY <1>2, <3>1, <3>2 DEF PreemptDisableStore, IInv, TypeOK
  <2>a. \/ Cur.fn = "schedule" /\ c = At("schedule", "scan", Cur.caller) /\ Cur.caller \in {"kmain", "exit", "tick"}
        \/ Cur.fn = "copy" /\ c = At("copy", "alloc", Cur.caller) /\ Cur.caller \in {"kmain", "user"}
        \/ Cur.fn = "exit" /\ c = At("exit", "flag", Cur.caller)
    BY <1>0, <1>2 DEF PreemptDisableStore, WellFormed, AfterDisable
  <2>b. Cur.caller \in Function /\ 0 \in Slot
    BY <1>0 DEF Slot, Activation
  <2>1. /\ c \in Activation /\ c.fn = Cur.fn /\ c.caller = Cur.caller /\ c.curTask = 0 /\ c.largestCounter = -1
        /\ \/ c.fn = "schedule" /\ c.at = "scan" /\ c.caller \in {"kmain", "exit", "tick"}
           \/ c.fn = "copy" /\ c.at = "alloc" /\ c.caller \in {"kmain", "user"}
           \/ c.fn = "exit" /\ c.at = "flag"
    <3>1. CASE Cur.fn = "schedule"
      BY <2>a, <2>b, <3>1 DEF At, Activation, Function, Place, Slot
    <3>2. CASE Cur.fn = "copy"
      BY <2>a, <2>b, <3>2 DEF At, Activation, Function, Place, Slot
    <3>3. CASE Cur.fn = "exit"
      BY <2>a, <2>b, <3>3 DEF At, Activation, Function, Place, Slot
    <3> QED
      BY <2>a, <3>1, <3>2, <3>3
  <2>2. Keeps(c) /\ GuardHeld(c)
    BY <2>0, <2>b, <2>1 DEF Keeps, CanAdvance, WellFormed, LoadedCount, MadeByTick, GuardHeld
  <2>3. /\ PreemptCount' \in [Task -> Int] /\ PreemptCount'[onCpu] = 1
        /\ \A t \in Task \ {onCpu} : PreemptCount'[t] = PreemptCount[t]
    BY <1>0, <2>0
  <2>4. irq' = (c.at \notin {"eret", "halt"}) /\ guardTicks' \in Nat
    BY <1>2, <2>1 DEF PreemptDisableStore, IInv, TypeOK, IrqMaskedOnlyAtReturn
  <2> QED
    BY <1>2, <2>2, <2>3, <2>4, Continued DEF PreemptDisableStore, IInv, TypeOK
<1>3. ASSUME PreemptEnableLoad PROVE IInv'
  <2> DEFINE c == Load(Cur, "enableStore", PreemptCount[pCurrentTask])
  <2>0. PreemptCount[pCurrentTask] = 1 /\ "enableStore" \in Place
    BY <1>0, <1>3, Names DEF PreemptEnableLoad, GuardHeld
  <2>1. c \in Activation /\ c.at = "enableStore" /\ c.reg = 1 /\ c.fn = Cur.fn /\ c.caller = Cur.caller
    BY <1>0, <2>0, LoadFields
  <2>2. Keeps(c)
    BY <1>0, <1>3, <2>0, <2>1 DEF PreemptEnableLoad, Keeps, CanAdvance, WellFormed, LoadedCount, MadeByTick
  <2> QED
    BY <1>0, <1>3, <2>0, <2>1, <2>2, Continued DEF PreemptEnableLoad, IInv, TypeOK, GuardHeld, IrqMaskedOnlyAtReturn
<1>4. ASSUME PreemptEnableStore PROVE IInv'
  <2> DEFINE c == AfterEnable(Cur)
  <2>0. /\ pCurrentTask = onCpu /\ PreemptCount \in [Task -> Int]
        /\ PreemptCount' = [PreemptCount EXCEPT ![onCpu] = 0]
    <3>1. Cur.reg = 1 /\ pCurrentTask = onCpu
      BY <1>0, <1>4 DEF PreemptEnableStore, LoadedCount
    <3>2. Cur.reg - 1 = 0
      BY <3>1
    <3> QED
      BY <1>4, <3>1, <3>2 DEF PreemptEnableStore, IInv, TypeOK
  <2>a. \/ c = At("kmain", "call", "none") \/ c = At("kmain", "hang", "none")
        \/ c = At("user", "mask", "none") \/ c = At("exit", "call", "user")
        \/ c = At("tick", "mask", "none") /\ Cur.caller = "tick"
        \/ c = At("kproc", "run", "none")
    BY <1>0, <1>4 DEF PreemptEnableStore, WellFormed, AfterEnable
  <2>1. /\ c \in Activation /\ c.caller \in {"none", "user"}
        /\ c.fn = "tick" => Cur.caller = "tick"
        /\ \/ c.at = "call" /\ c.fn \in {"kmain", "exit"}
           \/ c.at = "mask" /\ c.fn \in {"user", "tick"}
           \/ c.at \in {"hang", "run"}
    <3>1. CASE c = At("kmain", "call", "none")
      BY <3>1 DEF At, Activation, Function, Place, Slot
    <3>2. CASE c = At("kmain", "hang", "none")
      BY <3>2 DEF At, Activation, Function, Place, Slot
    <3>3. CASE c = At("user", "mask", "none")
      BY <3>3 DEF At, Activation, Function, Place, Slot
    <3>4. CASE c = At("exit", "call", "user")
      BY <3>4 DEF At, Activation, Function, Place, Slot
    <3>5. CASE c = At("tick", "mask", "none") /\ Cur.caller = "tick"
      BY <3>5 DEF At, Activation, Function, Place, Slot
    <3>6. CASE c = At("kproc", "run", "none")
      BY <3>6 DEF At, Activation, Function, Place, Slot
    <3> QED
      BY <2>a, <3>1, <3>2, <3>3, <3>4, <3>5, <3>6
  <2>2. Keeps(c) /\ ~GuardHeld(c)
    BY <2>0, <2>1 DEF Keeps, CanAdvance, WellFormed, LoadedCount, MadeByTick, GuardHeld
  <2>3. /\ PreemptCount' \in [Task -> Int] /\ PreemptCount'[onCpu] = 0
        /\ \A t \in Task \ {onCpu} : PreemptCount'[t] = PreemptCount[t]
    BY <1>0, <2>0
  <2>4. irq' = (c.at \notin {"eret", "halt"}) /\ guardTicks' \in Nat
    BY <1>4, <2>1 DEF PreemptEnableStore, IInv, TypeOK, IrqMaskedOnlyAtReturn
  <2> QED
    BY <1>4, <2>2, <2>3, <2>4, Continued DEF PreemptEnableStore, IInv, TypeOK
<1>5. ASSUME Schedule PROVE IInv'
  <2> DEFINE c == At("schedule", "disableLoad", Cur.fn)
  <2>0. /\ Cur.fn \in {"kmain", "exit"} /\ Cur.fn \in Function
        /\ "schedule" \in Function /\ "disableLoad" \in Place
        /\ Counter' \in [Task -> Int]
    BY <1>0, <1>5, Names DEF Schedule, IInv, TypeOK
  <2>1. c \in Activation /\ c.at = "disableLoad" /\ c.fn = "schedule" /\ c.caller = Cur.fn
    BY <1>0, <2>0, AtFields
  <2>2. Keeps(c)
    BY <1>0, <1>5, <2>0, <2>1 DEF Schedule, Keeps, CanAdvance, WellFormed, LoadedCount, MadeByTick
  <2> QED
    BY <1>0, <1>5, <2>0, <2>1, <2>2, Continued DEF Schedule, IInv, TypeOK, GuardHeld, IrqMaskedOnlyAtReturn
<1>6. ASSUME ScanSlot PROVE IInv'
  <2>a. /\ Cur.at = "scan" /\ Cur.curTask \in Slot /\ pCurrentTask = onCpu
        /\ Cur.fn = "schedule" /\ Cur.caller \in {"kmain", "exit", "tick"} /\ Cur.caller \in Function
        /\ PreemptCount[onCpu] = 1
        /\ Cur.largestCounter >= 0 => TaskAlive(Tasks[Cur.taskToResume])
    BY <1>0, <1>6 DEF ScanSlot, WellFormed, GuardHeld, Activation, IInv, TableOK
  <2>1. CASE ~Eligible(Tasks[Cur.curTask], Cur.largestCounter)
    BY <1>0, <1>6, <2>a, <2>1, SlotDone DEF ScanSlot
  <2>2. CASE Eligible(Tasks[Cur.curTask], Cur.largestCounter)
    <3> DEFINE c == Load(Cur, "take", Counter[pCurrentTask])
    <3>1. Counter[pCurrentTask] \in Int /\ "take" \in Place
      BY <1>0, Names DEF IInv, TypeOK
    <3>2. /\ c \in Activation /\ c.at = "take" /\ c.fn = Cur.fn /\ c.caller = Cur.caller
          /\ c.curTask = Cur.curTask /\ c.largestCounter = Cur.largestCounter
          /\ c.taskToResume = Cur.taskToResume
      BY <1>0, <3>1, LoadFields
    <3>3. TaskAlive(Tasks[Cur.curTask]) /\ Continue(c)
      BY <1>6, <2>2 DEF ScanSlot, Eligible
    <3> HIDE DEF c
    <3>4. Keeps(c) /\ GuardHeld(c)
      BY <2>a, <3>2, <3>3 DEF Keeps, CanAdvance, WellFormed, LoadedCount, MadeByTick, GuardHeld
    <3> QED
      BY <1>6, <2>a, <3>2, <3>3, <3>4, Continued DEF ScanSlot, IInv, TypeOK, IrqMaskedOnlyAtReturn
  <2> QED
    BY <2>1, <2>2
<1>6a. ASSUME TakeSlot PROVE IInv'
  <2> DEFINE l == Load(Cur, "scan", 0)
             b == Pick(l, Counter[Tasks[Cur.curTask]], Cur.curTask)
  <2>1. Cur.at = "take" /\ Cur.curTask \in Slot /\ TaskAlive(Tasks[Cur.curTask])
    BY <1>0, <1>6a DEF TakeSlot, IInv, TableOK
  <2>2. Tasks[Cur.curTask] \in Task /\ Counter[Tasks[Cur.curTask]] \in Int
    BY <2>1 DEF TaskAlive, IInv, TypeOK
  <2>3. l \in Activation /\ l.fn = Cur.fn /\ l.caller = Cur.caller /\ l.curTask = Cur.curTask
    <3>1. "scan" \in Place /\ 0 \in Int
      BY Names
    <3> QED BY <1>0, <3>1, LoadFields
  <2> HIDE DEF l
  <2>4. /\ b \in Activation /\ b.fn = Cur.fn /\ b.caller = Cur.caller /\ b.curTask = Cur.curTask
        /\ b.taskToResume = Cur.curTask
    BY <2>1, <2>2, <2>3, PickFields
  <2>5. NextSlot(b)
    BY <1>6a DEF TakeSlot, l
  <2> HIDE DEF b
  <2> QED
    BY <1>6a, <2>1, <2>4, <2>5, SlotDone DEF TakeSlot
<1>7. ASSUME ResetSlot PROVE IInv'
  <2>0. /\ Cur.at = "reset" /\ Cur.curTask \in Slot /\ 0 \in Slot /\ pCurrentTask = onCpu
        /\ Cur.fn = "schedule" /\ Cur.caller \in {"kmain", "exit", "tick"} /\ Cur.caller \in Function
        /\ PreemptCount[onCpu] = 1
    BY <1>0, <1>7 DEF ResetSlot, WellFormed, GuardHeld, Slot, Activation
  <2>1. Counter' \in [Task -> Int]
    <3> DEFINE t == Tasks[Cur.curTask]
    <3>1. CASE t = NoTask
      BY <1>7, <3>1 DEF ResetSlot, IInv, TypeOK
    <3>2. CASE t # NoTask
      <4>1. t \in Task /\ Counter[t] \in Int /\ Counter \in [Task -> Int]
        BY <2>0, <3>2 DEF IInv, TypeOK
      <4>2. CounterAfterReset(Counter[t]) \in Int
        BY <4>1 DEF CounterAfterReset
      <4>3. Counter' = [Counter EXCEPT ![t] = CounterAfterReset(Counter[t])]
        BY <1>7, <3>2 DEF ResetSlot
      <4> QED
        BY <4>1, <4>2, <4>3
    <3> QED
      BY <3>1, <3>2
  <2>2. ASSUME NEW c, Keeps(c), Continue(c), c.at \in {"scan", "reset"}
        PROVE  IInv'
    <3>1. GuardHeld(c)
      BY <2>2 DEF GuardHeld
    <3> QED
      BY <1>7, <2>0, <2>1, <2>2, <3>1, Continued DEF ResetSlot, IInv, TypeOK, IrqMaskedOnlyAtReturn
  <2>3. CASE LastSlot(Cur.curTask) /\ Continue(At("schedule", "scan", Cur.caller))
    <3> DEFINE c == At("schedule", "scan", Cur.caller)
    <3>1. "schedule" \in Function /\ "scan" \in Place
      BY Names
    <3>2. /\ c \in Activation /\ c.at = "scan" /\ c.fn = "schedule" /\ c.caller = Cur.caller
          /\ c.curTask = 0 /\ c.largestCounter = -1
      BY <2>0, <3>1, AtFields
    <3>3. Keeps(c)
      BY <2>0, <3>2 DEF Keeps, CanAdvance, WellFormed, LoadedCount, MadeByTick
    <3> QED
      BY <2>2, <2>3, <3>2, <3>3
  <2>4. CASE ~LastSlot(Cur.curTask) /\ Continue(Index(Cur, "reset", Cur.curTask + 1))
    <3> DEFINE c == Index(Cur, "reset", Cur.curTask + 1)
    <3>1. Cur.curTask + 1 \in Slot /\ Cur.curTask + 1 \in Nat
      BY <2>0, <2>4 DEF LastSlot, Slot
    <3>2. "reset" \in Place
      BY Names
    <3>3. /\ c \in Activation /\ c.at = "reset" /\ c.fn = Cur.fn /\ c.caller = Cur.caller
          /\ c.curTask \in Slot
      BY <1>0, <3>1, <3>2, IndexFields
    <3>4. Keeps(c)
      BY <2>0, <3>3 DEF Keeps, CanAdvance, WellFormed, LoadedCount, MadeByTick
    <3> QED
      BY <2>2, <2>4, <3>3, <3>4
  <2> QED
    BY <1>7, <2>3, <2>4 DEF ResetSlot
<1>8. ASSUME SwitchToSame PROVE IInv'
  <2> DEFINE c == At("schedule", "enableLoad", Cur.caller)
  <2>0. Cur.caller \in Function /\ "schedule" \in Function /\ "enableLoad" \in Place
    BY <1>0, Names DEF Activation
  <2>1. c \in Activation /\ c.at = "enableLoad" /\ c.fn = "schedule" /\ c.caller = Cur.caller
    BY <1>0, <2>0, AtFields
  <2>2. Keeps(c)
    BY <1>0, <1>8, <2>0, <2>1 DEF SwitchToSame, Keeps, CanAdvance, WellFormed, LoadedCount, MadeByTick
  <2> QED
    BY <1>0, <1>8, <2>0, <2>1, <2>2, Continued DEF SwitchToSame, IInv, TypeOK, GuardHeld, IrqMaskedOnlyAtReturn
<1>9. ASSUME SwitchTo PROVE IInv'
  <2> DEFINE next == Tasks[Cur.taskToResume]
             a == At("schedule", "setpgd", Cur.caller)
             c == Hold(a, "setpgd", next)
  <2>0. /\ Cur.at = "switch" /\ Cur.fn = "schedule"
        /\ Cur.caller \in {"kmain", "exit", "tick"} /\ Cur.caller \in Function
        /\ pCurrentTask = onCpu /\ pCurrentTask' = next /\ next # onCpu
        /\ PreemptCount[onCpu] = 1
    BY <1>0, <1>9 DEF SwitchTo, WellFormed, Activation, GuardHeld
  <2>a. next \in Task /\ State[next] = "Running" /\ Created(next)
    <3>1. Cur.taskToResume \in Slot /\ TaskAlive(next)
      BY <1>0, <2>0 DEF Activation, IInv, TableOK
    <3> QED
      BY <3>1 DEF TaskAlive, IInv, TypeOK, TableOK
  <2>b. "schedule" \in Function /\ "setpgd" \in Place
    BY Names
  <2>c. a \in Activation /\ a.fn = "schedule" /\ a.caller = Cur.caller
    BY <2>0, <2>b, AtFields
  <2>1. c \in Activation /\ c.at = "setpgd" /\ c.fn = "schedule" /\ c.caller = Cur.caller /\ c.task = next
    BY <2>a, <2>b, <2>c, HoldFields
  <2>d. Continue(c)
    BY <1>9 DEF SwitchTo
  <2> HIDE DEF c, next
  <2>2. CanAdvance(c) /\ GuardHeld(c)
    BY <2>0, <2>1, <2>a DEF CanAdvance, WellFormed, LoadedCount, MadeByTick, GuardHeld
  <2>3. Advanced(c)
    BY <1>9, <2>0, <2>2, <2>d, Advance DEF SwitchTo, IInv, TypeOK
  <2>4. TypeOK'
    BY <1>9, <2>0, <2>a, <2>3 DEF SwitchTo, Advanced, IInv, TypeOK
  <2>5. OwnerOK'
    <3>1. /\ Created(onCpu)' /\ context'[next].at # "none"
          /\ \A t \in Task \ {onCpu'} : context'[t].at \in {"none", "enableLoad"}
      BY <1>0, <2>a, <2>3 DEF Advanced, Created, Cur
    <3>2. State' = State
      BY <1>9 DEF SwitchTo
    <3> QED
      BY <2>0, <2>1, <2>a, <2>3, <3>1, <3>2 DEF Advanced, OwnerOK, Created
  <2>6. TableOK'
    <3>1. \A i \in Slot : Tasks'[i] # NoTask => Created(Tasks[i])'
      BY <1>9, <2>3 DEF SwitchTo, Advanced, IInv, TypeOK, TableOK, Created
    <3> QED
      BY <2>1, <2>3, <3>1 DEF Advanced, TableOK
  <2>7. IrqMaskedOnlyAtReturn'
    BY <1>9, <2>0, <2>1, <2>3 DEF SwitchTo, Advanced, IInv, IrqMaskedOnlyAtReturn
  <2> QED
    BY <2>3, <2>4, <2>5, <2>6, <2>7 DEF Advanced, IInv
<1>10. ASSUME SetPageGlobalDirectory PROVE IInv'
  <2> DEFINE c == Move(Cur, "cpu")
  <2>1. c \in Activation /\ c.at = "cpu" /\ c.task = Cur.task /\ c.fn = Cur.fn /\ c.caller = Cur.caller
    BY <1>0, MoveFields, Names
  <2>2. Keeps(c)
    BY <1>0, <1>10, <2>1 DEF SetPageGlobalDirectory, Keeps, CanAdvance, WellFormed, LoadedCount, MadeByTick
  <2> QED
    BY <1>0, <1>10, <2>1, <2>2, Continued DEF SetPageGlobalDirectory, IInv, TypeOK, GuardHeld, IrqMaskedOnlyAtReturn, NextPageGlobalDirectory, Goto
<1>11. ASSUME cpu_switch_to PROVE IInv'
  <2> DEFINE c == At("schedule", "enableLoad", Cur.caller)
             next == Cur.task
  <2>0. /\ Cur.at = "cpu" /\ Cur.fn = "schedule"
        /\ Cur.caller \in {"kmain", "exit", "tick"} /\ Cur.caller \in Function
        /\ next \in Task /\ onCpu' = next /\ pCurrentTask = next /\ next # onCpu
        /\ Created(next) /\ PreemptCount[onCpu] = 1
        /\ frames' = frames
    BY <1>0, <1>11 DEF cpu_switch_to, WellFormed, Activation, GuardHeld, IInv, OwnerOK
  <2>a. "schedule" \in Function /\ "enableLoad" \in Place
    BY Names
  <2>1. c \in Activation /\ c.at = "enableLoad" /\ c.fn = "schedule" /\ c.caller = Cur.caller
    BY <2>0, <2>a, AtFields
  <2>2. /\ context' = [context EXCEPT ![onCpu] = c]
        /\ context \in [Task -> Activation]
    BY <1>11 DEF cpu_switch_to, IInv, TypeOK
  <2> HIDE DEF c, next
  <2>3. /\ context' \in [Task -> Activation]
        /\ context'[onCpu] = c
        /\ \A t \in Task \ {onCpu} : context'[t] = context[t]
    BY <1>0, <2>1, <2>2
  <2>4. \A t \in Task : context'[t].at # "none" <=> context[t].at # "none"
    BY <1>0, <2>1, <2>3 DEF Cur
  <2>5. Cur' = context[next] /\ Cur'.at = "enableLoad"
    BY <2>0, <2>3 DEF Cur, IInv, OwnerOK, Created
  <2>6. TypeOK'
    <3>1. \A t \in Task : context'[t].at \in {"scan", "take", "reset"} => context'[t].curTask \in Slot
      BY <2>1, <2>3 DEF IInv, TypeOK
    <3> QED
      BY <1>11, <2>0, <2>3, <3>1 DEF cpu_switch_to, IInv, TypeOK
  <2>7. StacksOK'
    <3>1. PreemptCount' = PreemptCount
      BY <1>11 DEF cpu_switch_to
    <3>2. ASSUME NEW t \in Task
          PROVE  /\ WellFormed(context'[t]) /\ LoadedCount(context'[t])
                 /\ MadeByTick(context'[t]) => frames'[t] # << >>
                 /\ PreemptCount'[t] = IF GuardHeld(context'[t]) THEN 1 ELSE 0
      <4>1. CASE t = onCpu
        <5>1. WellFormed(c) /\ LoadedCount(c) /\ GuardHeld(c)
          BY <2>0, <2>1 DEF WellFormed, LoadedCount, GuardHeld
        <5>2. MadeByTick(c) => frames[onCpu] # << >>
          BY <1>0, <2>0, <2>1 DEF MadeByTick, IInv, StacksOK, Cur
        <5> QED
          BY <2>0, <2>3, <3>1, <4>1, <5>1, <5>2
      <4>2. CASE t # onCpu
        BY <2>0, <2>3, <3>1, <4>2 DEF IInv, StacksOK
      <4> QED
        BY <4>1, <4>2
    <3>3. \A t \in Task : \A i \in 1 .. Len(frames'[t]) :
            /\ WellFormed(frames'[t][i]) /\ LoadedCount(frames'[t][i])
            /\ MadeByTick(frames'[t][i]) => i > 1
            /\ Interruptible(frames'[t][i])
      BY <2>0 DEF IInv, StacksOK
    <3> QED
      BY <3>2, <3>3 DEF StacksOK, WellFormed, LoadedCount, MadeByTick, GuardHeld, Interruptible
  <2>8. OwnerOK'
    <3>1. \A t \in Task \ {onCpu'} : context'[t].at \in {"none", "enableLoad"}
      BY <2>0, <2>1, <2>3 DEF IInv, OwnerOK
    <3>2. pCurrentTask' = onCpu' /\ Created(onCpu)'
      BY <1>11, <2>0, <2>4 DEF cpu_switch_to, Created
    <3> QED
      BY <2>5, <3>1, <3>2 DEF OwnerOK
  <2>9. TableOK'
    <3>1. \A i \in Slot : Tasks'[i] # NoTask => Created(Tasks[i])'
      BY <1>11, <2>4 DEF cpu_switch_to, IInv, TypeOK, TableOK, Created
    <3> QED
      BY <2>5, <3>1 DEF TableOK
  <2>10. IrqMaskedOnlyAtReturn'
    BY <1>11, <2>0, <2>5 DEF cpu_switch_to, IInv, IrqMaskedOnlyAtReturn
  <2> QED
    BY <2>6, <2>7, <2>8, <2>9, <2>10 DEF IInv
<1>12. ASSUME AllocateTask PROVE IInv'
  <2>1. PICK t \in Task : /\ ~Created(t)
                          /\ Continue(Hold(Cur, IF Cur.caller = "user" THEN "memory" ELSE "setup", t))
    BY <1>12 DEF AllocateTask
  <2>2. PICK at \in {"memory", "setup"} : Continue(Hold(Cur, at, t))
    BY <2>1
  <2> DEFINE c == Hold(Cur, at, t)
  <2>3. at \in Place /\ t \in Task \union {NoTask}
    BY Names
  <2>4. c \in Activation /\ c.at = at /\ c.fn = Cur.fn /\ c.caller = Cur.caller /\ c.task = t
    BY <1>0, <2>3, HoldFields
  <2>5. Keeps(c)
    BY <1>0, <1>12, <2>1, <2>4 DEF AllocateTask, Keeps, CanAdvance, WellFormed, LoadedCount, MadeByTick
  <2> QED
    BY <1>0, <1>12, <2>2, <2>4, <2>5, Continued DEF AllocateTask, IInv, TypeOK, GuardHeld, IrqMaskedOnlyAtReturn
<1>13. ASSUME AllocateTaskFails PROVE IInv'
  <2> DEFINE c == Move(Cur, "enableLoad")
  <2>1. c \in Activation /\ c.at = "enableLoad" /\ c.fn = Cur.fn /\ c.caller = Cur.caller
    BY <1>0, MoveFields, Names
  <2>2. Keeps(c)
    BY <1>0, <1>13, <2>1 DEF AllocateTaskFails, Keeps, CanAdvance, WellFormed, LoadedCount, MadeByTick
  <2> QED
    BY <1>0, <1>13, <2>1, <2>2, Continued DEF AllocateTaskFails, IInv, TypeOK, GuardHeld, IrqMaskedOnlyAtReturn, Goto
<1>14. ASSUME CopyMemory PROVE IInv'
  <2> DEFINE c == Move(Cur, "setup")
  <2>0. /\ "setup" \in Place /\ Cur.task \in Task
        /\ PGD' \in [Task -> Task \union {NoTask}]
        /\ ~Created(Cur.task)
    BY <1>0, <1>14, Names DEF CopyMemory, WellFormed, IInv, TypeOK, TableOK
  <2>1. c \in Activation /\ c.at = "setup" /\ c.task = Cur.task /\ c.fn = Cur.fn /\ c.caller = Cur.caller
    BY <1>0, <2>0, MoveFields
  <2>2. Keeps(c)
    BY <1>0, <1>14, <2>0, <2>1 DEF CopyMemory, Keeps, CanAdvance, WellFormed, LoadedCount, MadeByTick
  <2> QED
    BY <1>0, <1>14, <2>0, <2>1, <2>2, Continued DEF CopyMemory, IInv, TypeOK, GuardHeld, IrqMaskedOnlyAtReturn, Goto
<1>15. ASSUME SetupTask PROVE IInv'
  <2> DEFINE c == Move(Cur, "number")
             d == At("fork", "enableLoad", IF Cur.caller = "kmain" THEN "kproc" ELSE "user")
             new == Cur.task
  <2>0. /\ Cur.at = "setup" /\ Cur.fn = "copy" /\ Cur.caller \in {"kmain", "user"}
        /\ new \in Task /\ ~Created(new) /\ new # onCpu /\ pCurrentTask = onCpu
        /\ PreemptCount[onCpu] = 1
    BY <1>0, <1>15 DEF SetupTask, WellFormed, GuardHeld, IInv, TableOK, OwnerOK
  <2>a. "number" \in Place
    BY Names
  <2>b. c \in Activation /\ c.at = "number" /\ c.fn = "copy" /\ c.caller = Cur.caller /\ c.task = new
    BY <1>0, <2>0, <2>a, MoveFields
  <2>c. d \in Activation /\ d.at = "enableLoad" /\ d.fn = "fork" /\ d.caller \in {"kproc", "user"}
    <3>1. CASE Cur.caller = "kmain"
      BY <3>1 DEF At, Activation, Function, Place, Slot
    <3>2. CASE Cur.caller = "user"
      BY <3>2 DEF At, Activation, Function, Place, Slot
    <3> QED
      BY <2>0, <3>1, <3>2
  <2>d. /\ context' = [context EXCEPT ![onCpu] = c, ![new] = d]
        /\ context \in [Task -> Activation]
        /\ PreemptCount' = [PreemptCount EXCEPT ![new] = 1]
        /\ PreemptCount \in [Task -> Int]
        /\ UNCHANGED << Tasks, NumberOfTasks, State, PGD,
                        pCurrentTask, onCpu, frames, ttbr0, irq, guardTicks >>
        /\ Counter' \in [Task -> Int]
    BY <1>15, <2>0 DEF SetupTask, NewPreemptCount, IInv, TypeOK
  <2>e. Cur' = context'[onCpu]
    BY <2>d DEF Cur
  <2> HIDE DEF c, d, new
  <2>1. /\ context' \in [Task -> Activation]
        /\ context'[onCpu] = c /\ context'[new] = d
        /\ \A t \in Task \ {onCpu, new} : context'[t] = context[t]
    BY <1>0, <2>0, <2>b, <2>c, <2>d
  <2>2. Cur' = c
    BY <2>1, <2>e
  <2>3. frames[new] = << >> \/ frames[new] # << >>
    OBVIOUS
  <2>4. TypeOK'
    <3>1. \A t \in Task : context'[t].at \in {"scan", "take", "reset"} => context'[t].curTask \in Slot
      BY <2>1, <2>b, <2>c DEF IInv, TypeOK
    <3>2. PreemptCount' \in [Task -> Int]
      BY <2>0, <2>d
    <3> QED
      BY <2>d, <2>1, <3>1, <3>2 DEF IInv, TypeOK
  <2>5. StacksOK'
    <3>1. ASSUME NEW t \in Task
          PROVE  /\ WellFormed(context'[t]) /\ LoadedCount(context'[t])
                 /\ MadeByTick(context'[t]) => frames'[t] # << >>
                 /\ PreemptCount'[t] = IF GuardHeld(context'[t]) THEN 1 ELSE 0
      <4>1. CASE t = onCpu
        <5>1. WellFormed(c) /\ LoadedCount(c) /\ GuardHeld(c) /\ ~MadeByTick(c)
          BY <2>0, <2>b DEF WellFormed, LoadedCount, GuardHeld, MadeByTick
        <5>2. PreemptCount'[onCpu] = 1
          BY <1>0, <2>0, <2>d
        <5> QED
          BY <2>1, <4>1, <5>1, <5>2
      <4>2. CASE t = new
        <5>1. WellFormed(d) /\ LoadedCount(d) /\ GuardHeld(d) /\ ~MadeByTick(d)
          BY <2>c DEF WellFormed, LoadedCount, GuardHeld, MadeByTick
        <5>2. PreemptCount'[new] = 1
          BY <2>0, <2>d
        <5> QED
          BY <2>1, <4>2, <5>1, <5>2
      <4>3. CASE t \notin {onCpu, new}
        <5>1. PreemptCount'[t] = PreemptCount[t] /\ context'[t] = context[t] /\ frames'[t] = frames[t]
          BY <2>1, <2>d, <4>3
        <5> QED
          BY <5>1 DEF IInv, StacksOK
      <4> QED
        BY <4>1, <4>2, <4>3
    <3>2. \A t \in Task : \A i \in 1 .. Len(frames'[t]) :
            /\ WellFormed(frames'[t][i]) /\ LoadedCount(frames'[t][i])
            /\ MadeByTick(frames'[t][i]) => i > 1
            /\ Interruptible(frames'[t][i])
      BY <2>d DEF IInv, StacksOK
    <3> QED
      BY <3>1, <3>2 DEF StacksOK, WellFormed, LoadedCount, MadeByTick, GuardHeld, Interruptible
  <2>6. \A t \in Task : context[t].at # "none" => context'[t].at # "none"
    BY <2>1, <2>b, <2>c
  <2>7. OwnerOK'
    <3>1. Created(onCpu)' /\ \A t \in Task \ {onCpu'} : context'[t].at \in {"none", "enableLoad"}
      BY <1>0, <2>1, <2>b, <2>c, <2>d DEF IInv, OwnerOK, Created
    <3> QED
      BY <2>0, <2>2, <2>b, <2>d, <3>1 DEF OwnerOK
  <2>8. TableOK'
    <3>1. \A i \in Slot : Tasks'[i] # NoTask => Created(Tasks[i])'
      BY <2>6, <2>d DEF IInv, TypeOK, TableOK, Created
    <3>2. context'[Cur'.task].at # "none"
      BY <2>1, <2>2, <2>b, <2>c
    <3> QED
      BY <2>2, <2>b, <3>1, <3>2 DEF TableOK, Created
  <2>9. IrqMaskedOnlyAtReturn'
    BY <2>0, <2>2, <2>b, <2>d DEF IInv, IrqMaskedOnlyAtReturn
  <2> QED
    BY <2>4, <2>5, <2>7, <2>8, <2>9 DEF IInv
<1>16. ASSUME NumberTask PROVE IInv'
  <2> DEFINE c == Index(Cur, "publish", NumberOfTasks)
  <2>0. /\ "publish" \in Place /\ NumberOfTasks \in Nat /\ Cur.task \in Task
        /\ NumberOfTasks + 1 \in Nat /\ Created(Cur.task)
    BY <1>0, <1>16, Names DEF NumberTask, NextProcessID, WellFormed, IInv, TypeOK, TableOK
  <2>1. c \in Activation /\ c.at = "publish" /\ c.task = Cur.task /\ c.fn = Cur.fn /\ c.caller = Cur.caller
    BY <1>0, <2>0, IndexFields
  <2>2. Keeps(c)
    BY <1>0, <1>16, <2>0, <2>1 DEF NumberTask, NextProcessID, Keeps, CanAdvance, WellFormed, LoadedCount, MadeByTick
  <2> QED
    BY <1>0, <1>16, <2>0, <2>1, <2>2, Continued DEF NumberTask, NextProcessID, IInv, TypeOK, GuardHeld, IrqMaskedOnlyAtReturn
<1>17. ASSUME PublishTask PROVE IInv'
  <2> DEFINE c == Index(Cur, "enableLoad", 0)
  <2>0. /\ Cur.at = "publish" /\ Cur.fn = "copy" /\ Cur.caller \in {"kmain", "user"}
        /\ Cur.task \in Task /\ Created(Cur.task)
        /\ pCurrentTask = onCpu /\ PreemptCount[onCpu] = 1
    BY <1>0, <1>17 DEF PublishTask, WellFormed, GuardHeld, IInv, TableOK
  <2>1. c \in Activation /\ c.at = "enableLoad" /\ c.fn = Cur.fn /\ c.caller = Cur.caller
    <3>1. "enableLoad" \in Place /\ 0 \in Nat
      BY Names
    <3> QED
      BY <1>0, <3>1, IndexFields
  <2>2. CanAdvance(c) /\ GuardHeld(c)
    BY <2>0, <2>1 DEF CanAdvance, WellFormed, LoadedCount, MadeByTick, GuardHeld
  <2>3. Advanced(c)
    BY <1>17, <2>0, <2>2, Advance DEF PublishTask, IInv, TypeOK
  <2>4. TypeOK'
    BY <1>17, <2>0, <2>3 DEF PublishTask, Advanced, IInv, TypeOK
  <2>5. OwnerOK'
    <3>1. pCurrentTask' = onCpu' /\ Created(onCpu)'
      BY <1>0, <1>17, <2>0, <2>3 DEF PublishTask, Advanced, Created, Cur
    <3> QED
      BY <2>1, <2>3, <3>1 DEF Advanced, OwnerOK
  <2>6. TableOK'
    <3>1. ASSUME NEW i \in Slot, Tasks'[i] # NoTask PROVE Created(Tasks[i])'
      <4>1. Tasks'[i] = Cur.task \/ Tasks'[i] = Tasks[i]
        BY <1>17 DEF PublishTask, IInv, TypeOK
      <4>2. Tasks'[i] \in Task /\ context[Tasks'[i]].at # "none"
        BY <2>0, <3>1, <4>1 DEF IInv, TypeOK, TableOK, Created
      <4> QED
        BY <2>3, <4>2 DEF Advanced, Created
    <3> QED
      BY <2>1, <2>3, <3>1 DEF Advanced, TableOK
  <2>7. IrqMaskedOnlyAtReturn'
    BY <1>17, <2>0, <2>1, <2>3 DEF PublishTask, Advanced, IInv, IrqMaskedOnlyAtReturn
  <2> QED
    BY <2>3, <2>4, <2>5, <2>6, <2>7 DEF Advanced, IInv
<1>18. ASSUME FlagZombie PROVE IInv'
  <2> DEFINE c == Move(Cur, "enableLoad")
  <2>0. /\ Cur.at = "flag" /\ Cur.fn = "exit"
        /\ pCurrentTask = onCpu /\ PreemptCount[onCpu] = 1
    BY <1>0, <1>18 DEF FlagZombie, WellFormed, GuardHeld
  <2>1. c \in Activation /\ c.at = "enableLoad" /\ c.fn = Cur.fn /\ c.caller = Cur.caller
    BY <1>0, MoveFields, Names
  <2>2. CanAdvance(c) /\ GuardHeld(c)
    BY <1>0, <2>0, <2>1 DEF CanAdvance, WellFormed, LoadedCount, MadeByTick, GuardHeld
  <2>3. Advanced(c)
    BY <1>18, <2>0, <2>2, Advance DEF FlagZombie, Goto, IInv, TypeOK
  <2>4. TypeOK'
    BY <1>18, <2>0, <2>3 DEF FlagZombie, Advanced, IInv, TypeOK
  <2>5. OwnerOK'
    BY <1>0, <1>18, <2>0, <2>1, <2>3 DEF FlagZombie, Advanced, IInv, OwnerOK, Created
  <2>6. TableOK'
    <3>1. \A i \in Slot : Tasks'[i] # NoTask => Created(Tasks[i])'
      BY <1>18, <2>3 DEF FlagZombie, Advanced, IInv, TypeOK, TableOK, Created
    <3> QED
      BY <2>1, <2>3, <3>1 DEF Advanced, TableOK
  <2>7. IrqMaskedOnlyAtReturn'
    BY <1>18, <2>0, <2>1, <2>3 DEF FlagZombie, Advanced, IInv, IrqMaskedOnlyAtReturn
  <2> QED
    BY <2>3, <2>4, <2>5, <2>6, <2>7 DEF Advanced, IInv
<1>19. ASSUME CreateKernelProcess PROVE IInv'
  <2> DEFINE c == At("copy", "disableLoad", "kmain")
  <2>1. c \in Activation /\ c.at = "disableLoad" /\ c.fn = "copy" /\ c.caller = "kmain"
    BY <1>0, AtFields, Names
  <2>2. Keeps(c)
    BY <1>0, <1>19, <2>1 DEF CreateKernelProcess, Keeps, CanAdvance, WellFormed, LoadedCount, MadeByTick
  <2> QED
    BY <1>0, <1>19, <2>1, <2>2, Continued DEF CreateKernelProcess, IInv, TypeOK, GuardHeld, IrqMaskedOnlyAtReturn
<1>20. ASSUME MoveToUserMode PROVE IInv'
  <2>0. Cur.at = "run" /\ Cur.fn = "kproc" /\ pCurrentTask = onCpu /\ PreemptCount[onCpu] = 0
    BY <1>0, <1>20 DEF MoveToUserMode, GuardHeld
  <2>1. ASSUME NEW c, Keeps(c), Continue(c), c.at \in {"loadpgd", "mask"},
               PGD' \in [Task -> Task \union {NoTask}]
        PROVE  IInv'
    <3>1. ~GuardHeld(c)
      BY <2>1 DEF GuardHeld
    <3> QED
      BY <1>20, <2>0, <2>1, <3>1, Continued DEF MoveToUserMode, IInv, TypeOK, IrqMaskedOnlyAtReturn
  <2>2. CASE PGD' = [PGD EXCEPT ![pCurrentTask] = pCurrentTask] /\ Goto("loadpgd")
    <3> DEFINE c == Move(Cur, "loadpgd")
    <3>1. c \in Activation /\ c.at = "loadpgd" /\ c.fn = Cur.fn /\ c.caller = Cur.caller
      BY <1>0, MoveFields, Names
    <3>2. Keeps(c)
      BY <1>0, <2>0, <3>1 DEF Keeps, CanAdvance, WellFormed, LoadedCount, MadeByTick
    <3> QED
      BY <1>0, <2>1, <2>2, <3>1, <3>2 DEF Goto, IInv, TypeOK
  <2>3. CASE Continue(At("user", "mask", "none")) /\ UNCHANGED PGD
    <3> DEFINE c == At("user", "mask", "none")
    <3>1. c \in Activation /\ c.at = "mask" /\ c.fn = "user" /\ c.caller = "none"
      BY AtFields, Names
    <3>2. Keeps(c)
      BY <1>0, <2>0, <3>1 DEF Keeps, CanAdvance, WellFormed, LoadedCount, MadeByTick
    <3> QED
      BY <2>1, <2>3, <3>1, <3>2 DEF IInv, TypeOK
  <2> QED
    BY <1>20, <2>2, <2>3 DEF MoveToUserMode
<1>21. ASSUME MoveToUserModeSetPGD PROVE IInv'
  <2> DEFINE c == At("user", "mask", "none")
  <2>1. c \in Activation /\ c.at = "mask" /\ c.fn = "user" /\ c.caller = "none"
    BY <1>0, AtFields, Names
  <2>2. Keeps(c)
    BY <1>0, <1>21, <2>1 DEF MoveToUserModeSetPGD, Keeps, CanAdvance, WellFormed, LoadedCount, MadeByTick
  <2> QED
    BY <1>0, <1>21, <2>1, <2>2, Continued DEF MoveToUserModeSetPGD, IInv, TypeOK, GuardHeld, IrqMaskedOnlyAtReturn
<1>22. ASSUME DisableIrq PROVE IInv'
  <2> DEFINE c == Move(Cur, "eret")
  <2>1. c \in Activation /\ c.at = "eret" /\ c.fn = Cur.fn /\ c.caller = Cur.caller
    BY <1>0, MoveFields, Names
  <2>2. Keeps(c)
    BY <1>0, <1>22, <2>1 DEF DisableIrq, Keeps, CanAdvance, WellFormed, LoadedCount, MadeByTick
  <2> QED
    BY <1>0, <1>22, <2>1, <2>2, Continued DEF DisableIrq, IInv, TypeOK, GuardHeld, IrqMaskedOnlyAtReturn, Goto
<1>23. ASSUME ReturnToUser PROVE IInv'
  <2> DEFINE c == Move(Cur, "run")
  <2>1. c \in Activation /\ c.at = "run" /\ c.fn = Cur.fn /\ c.caller = Cur.caller
    BY <1>0, MoveFields, Names
  <2>2. Keeps(c)
    BY <1>0, <1>23, <2>1 DEF ReturnToUser, Keeps, CanAdvance, WellFormed, LoadedCount, MadeByTick
  <2> QED
    BY <1>0, <1>23, <2>1, <2>2, Continued DEF ReturnToUser, IInv, TypeOK, GuardHeld, IrqMaskedOnlyAtReturn, Goto
<1>24. ASSUME ReturnFromTick PROVE IInv'
  <2> DEFINE n == Len(frames[onCpu])
             c == frames[onCpu][n]
  <2>0. /\ Cur.at = "eret" /\ Cur.fn = "tick" /\ pCurrentTask = onCpu
        /\ PreemptCount[onCpu] = 0
    BY <1>0, <1>24 DEF ReturnFromTick, GuardHeld
  <2>a. frames[onCpu] # << >> /\ frames \in [Task -> Seq(Activation)]
    BY <1>0, <2>0 DEF MadeByTick, IInv, TypeOK, StacksOK, Cur
  <2>1. n \in 1 .. Len(frames[onCpu]) /\ c \in Activation
    BY <1>0, <2>a
  <2>2. WellFormed(c) /\ LoadedCount(c) /\ Interruptible(c) /\ (MadeByTick(c) => n > 1)
    BY <1>0, <2>1 DEF IInv, StacksOK
  <2>3. /\ context' = [context EXCEPT ![onCpu] = c]
        /\ frames' = [frames EXCEPT ![onCpu] = SubSeq(frames[onCpu], 1, n - 1)]
        /\ irq' = TRUE
        /\ UNCHANGED << Tasks, NumberOfTasks, State, Counter, PreemptCount, PGD,
                        pCurrentTask, onCpu, ttbr0, guardTicks >>
    BY <1>24 DEF ReturnFromTick
  <2>4. /\ Len(SubSeq(frames[onCpu], 1, n - 1)) = n - 1
        /\ SubSeq(frames[onCpu], 1, n - 1) \in Seq(Activation)
        /\ \A i \in 1 .. n - 1 : SubSeq(frames[onCpu], 1, n - 1)[i] = frames[onCpu][i]
    <3>1. frames[onCpu] \in Seq(Activation) /\ n \in Nat /\ n >= 1
      BY <1>0, <2>a, <2>1
    <3>2. \A i \in 1 .. n - 1 : frames[onCpu][i] \in Activation
      BY <3>1
    <3> HIDE DEF n
    <3> QED
      BY <3>1, <3>2, SubSeqProperties
  <2> HIDE DEF c
  <2>5. /\ frames' \in [Task -> Seq(Activation)]
        /\ frames'[onCpu] = SubSeq(frames[onCpu], 1, n - 1)
        /\ \A t \in Task \ {onCpu} : frames'[t] = frames[t]
    BY <1>0, <2>a, <2>3, <2>4
  <2>6. /\ context' \in [Task -> Activation] /\ context'[onCpu] = c
        /\ \A t \in Task \ {onCpu} : context'[t] = context[t]
        /\ Cur' = c
    BY <1>0, <2>1, <2>3 DEF IInv, TypeOK, Cur
  <2>7. ~GuardHeld(c) /\ c.at \notin {"none", "eret", "halt", "scan", "take", "reset", "setpgd",
                                       "cpu", "switch", "memory", "setup", "number", "publish"}
    BY <2>2 DEF Interruptible, GuardHeld
  <2>8. TypeOK'
    <3>1. \A t \in Task : context'[t].at \in {"scan", "take", "reset"} => context'[t].curTask \in Slot
      BY <2>6, <2>7 DEF IInv, TypeOK
    <3> QED
      BY <2>3, <2>5, <2>6, <3>1 DEF IInv, TypeOK
  <2>9. StacksOK'
    <3>1. ASSUME NEW t \in Task
          PROVE  /\ WellFormed(context'[t]) /\ LoadedCount(context'[t])
                 /\ MadeByTick(context'[t]) => frames'[t] # << >>
                 /\ PreemptCount'[t] = IF GuardHeld(context'[t]) THEN 1 ELSE 0
      <4>1. CASE t = onCpu
        <5>1. MadeByTick(c) => frames'[onCpu] # << >>
          <6>1. n > 1 => Len(frames'[onCpu]) > 0
            BY <2>1, <2>4, <2>5
          <6>2. Len(frames'[onCpu]) > 0 => frames'[onCpu] # << >>
            OBVIOUS
          <6> QED
            BY <2>2, <6>1, <6>2
        <5> QED
          BY <2>0, <2>2, <2>3, <2>6, <2>7, <4>1, <5>1
      <4>2. CASE t # onCpu
        <5>1. context'[t] = context[t] /\ frames'[t] = frames[t] /\ PreemptCount'[t] = PreemptCount[t]
          BY <2>3, <2>5, <2>6, <4>2
        <5> QED
          BY <5>1 DEF IInv, StacksOK
      <4> QED
        BY <4>1, <4>2
    <3>2. ASSUME NEW t \in Task, NEW i \in 1 .. Len(frames'[t])
          PROVE  /\ WellFormed(frames'[t][i]) /\ LoadedCount(frames'[t][i])
                 /\ MadeByTick(frames'[t][i]) => i > 1
                 /\ Interruptible(frames'[t][i])
      <4>1. i \in 1 .. Len(frames[t]) /\ frames'[t][i] = frames[t][i]
        <5>1. CASE t = onCpu
          BY <1>0, <2>1, <2>4, <2>5, <3>2, <5>1
        <5>2. CASE t # onCpu
          BY <2>5, <3>2, <5>2
        <5> QED
          BY <5>1, <5>2
      <4> QED
        BY <4>1 DEF IInv, StacksOK
    <3> QED
      BY <3>1, <3>2 DEF StacksOK, WellFormed, LoadedCount, MadeByTick, GuardHeld, Interruptible
  <2>10. OwnerOK'
    <3>1. Created(onCpu)' /\ \A t \in Task \ {onCpu'} : context'[t].at \in {"none", "enableLoad"}
      BY <1>0, <2>3, <2>6, <2>7 DEF IInv, OwnerOK, Created
    <3> QED
      BY <2>0, <2>3, <2>6, <2>7, <3>1 DEF OwnerOK
  <2>11. TableOK'
    <3>1. \A i \in Slot : Tasks'[i] # NoTask => Created(Tasks[i])'
      BY <2>3, <2>6, <2>7 DEF IInv, TypeOK, TableOK, Created
    <3> QED
      BY <2>6, <2>7, <3>1 DEF TableOK
  <2>12. IrqMaskedOnlyAtReturn'
    BY <2>3, <2>6, <2>7 DEF IrqMaskedOnlyAtReturn
  <2> QED
    BY <2>8, <2>9, <2>10, <2>11, <2>12 DEF IInv
<1>25. ASSUME SystemCallFork PROVE IInv'
  <2> DEFINE c == At("copy", "disableLoad", "user")
  <2>1. c \in Activation /\ c.at = "disableLoad" /\ c.fn = "copy" /\ c.caller = "user"
    BY <1>0, AtFields, Names
  <2>2. Keeps(c)
    BY <1>0, <1>25, <2>1 DEF SystemCallFork, Keeps, CanAdvance, WellFormed, LoadedCount, MadeByTick, InUserMode
  <2> QED
    BY <1>0, <1>25, <2>1, <2>2, Continued DEF SystemCallFork, IInv, TypeOK, GuardHeld, IrqMaskedOnlyAtReturn, InUserMode
<1>26. ASSUME SystemCallExit PROVE IInv'
  <2> DEFINE c == At("exit", "disableLoad", "user")
  <2>1. c \in Activation /\ c.at = "disableLoad" /\ c.fn = "exit" /\ c.caller = "user"
    BY <1>0, AtFields, Names
  <2>2. Keeps(c)
    BY <1>0, <1>26, <2>1 DEF SystemCallExit, Keeps, CanAdvance, WellFormed, LoadedCount, MadeByTick, InUserMode
  <2> QED
    BY <1>0, <1>26, <2>1, <2>2, Continued DEF SystemCallExit, IInv, TypeOK, GuardHeld, IrqMaskedOnlyAtReturn, InUserMode
<1>27. ASSUME DataAbortError PROVE IInv'
  <2> DEFINE c == Move(Cur, "hang")
  <2>1. c \in Activation /\ c.at = "hang" /\ c.fn = Cur.fn /\ c.caller = Cur.caller
    BY <1>0, MoveFields, Names
  <2>2. Keeps(c)
    BY <1>0, <1>27, <2>1 DEF DataAbortError, Keeps, CanAdvance, WellFormed, LoadedCount, MadeByTick, InUserMode
  <2> QED
    BY <1>0, <1>27, <2>1, <2>2, Continued DEF DataAbortError, IInv, TypeOK, GuardHeld, IrqMaskedOnlyAtReturn, InUserMode, Goto
<1>28. ASSUME UnknownException PROVE IInv'
  <2> DEFINE c == Move(Cur, "halt")
  <2>1. c \in Activation /\ c.at = "halt" /\ c.fn = Cur.fn /\ c.caller = Cur.caller
    BY <1>0, MoveFields, Names
  <2>2. Keeps(c)
    BY <1>0, <1>28, <2>1 DEF UnknownException, Keeps, CanAdvance, WellFormed, LoadedCount, MadeByTick, InUserMode
  <2> QED
    BY <1>0, <1>28, <2>1, <2>2, Continued DEF UnknownException, IInv, TypeOK, GuardHeld, IrqMaskedOnlyAtReturn, InUserMode, Goto
<1>29. ASSUME TickReturns PROVE IInv'
  <2>1. Counter' \in [Task -> Int] /\ guardTicks' \in Nat
    BY <1>0, <1>29 DEF TickReturns, IInv, TypeOK
  <2> QED
    BY <1>29, <2>1, Unmoved DEF TickReturns
<1>30. ASSUME TickPreempts PROVE IInv'
  <2> DEFINE c == At("schedule", "disableLoad", "tick")
             s == Append(frames[onCpu], Cur)
  <2>0. irq /\ PreemptCount[pCurrentTask] <= 0 /\ PreemptCount \in [Task -> Int]
    BY <1>0, <1>30 DEF TickPreempts, TickKeepsTask, IInv, TypeOK
  <2>1. pCurrentTask = onCpu /\ ~GuardHeld(Cur) /\ PreemptCount[onCpu] = 0
    <3>1. CASE Cur.at \in {"setpgd", "cpu"}
      <4>1. pCurrentTask \in Task \ {onCpu} /\ context[pCurrentTask].at = "enableLoad"
        BY <1>0, <3>1 DEF IInv, OwnerOK, Created
      <4>2. PreemptCount[pCurrentTask] = 1
        BY <1>0, <4>1 DEF IInv, StacksOK, GuardHeld
      <4> QED
        BY <2>0, <4>2
    <3>2. CASE Cur.at \notin {"setpgd", "cpu"}
      BY <1>0, <2>0, <3>2
    <3> QED
      BY <3>1, <3>2
  <2>2. Interruptible(Cur)
    BY <1>0, <2>0, <2>1 DEF Interruptible, IInv, IrqMaskedOnlyAtReturn
  <2>3. c \in Activation /\ c.at = "disableLoad" /\ c.fn = "schedule" /\ c.caller = "tick"
    BY AtFields, Names
  <2>4. /\ context' = [context EXCEPT ![onCpu] = c]
        /\ frames' = [frames EXCEPT ![onCpu] = s]
        /\ irq' = TRUE /\ Counter' \in [Task -> Int]
        /\ UNCHANGED << Tasks, NumberOfTasks, State, PreemptCount, PGD,
                        pCurrentTask, onCpu, ttbr0, guardTicks >>
    BY <1>0, <1>30 DEF TickPreempts, IrqWhileScheduling, IInv, TypeOK, Cur
  <2>5. /\ s \in Seq(Activation) /\ Len(s) = Len(frames[onCpu]) + 1 /\ s # << >>
        /\ s[Len(s)] = Cur /\ \A i \in 1 .. Len(frames[onCpu]) : s[i] = frames[onCpu][i]
    <3>1. frames[onCpu] \in Seq(Activation) /\ Cur \in Activation
      BY <1>0 DEF IInv, TypeOK
    <3> QED
      BY <3>1, AppendProperties
  <2> HIDE DEF c, s
  <2>6. /\ frames' \in [Task -> Seq(Activation)] /\ frames'[onCpu] = s
        /\ \A t \in Task \ {onCpu} : frames'[t] = frames[t]
    BY <1>0, <2>4, <2>5 DEF IInv, TypeOK
  <2>7. /\ context' \in [Task -> Activation] /\ context'[onCpu] = c
        /\ \A t \in Task \ {onCpu} : context'[t] = context[t]
        /\ Cur' = c
    BY <1>0, <2>3, <2>4 DEF IInv, TypeOK, Cur
  <2>8. TypeOK'
    <3>1. \A t \in Task : context'[t].at \in {"scan", "take", "reset"} => context'[t].curTask \in Slot
      BY <2>3, <2>7 DEF IInv, TypeOK
    <3> QED
      BY <2>4, <2>6, <2>7, <3>1 DEF IInv, TypeOK
  <2>9. StacksOK'
    <3>1. ASSUME NEW t \in Task
          PROVE  /\ WellFormed(context'[t]) /\ LoadedCount(context'[t])
                 /\ MadeByTick(context'[t]) => frames'[t] # << >>
                 /\ PreemptCount'[t] = IF GuardHeld(context'[t]) THEN 1 ELSE 0
      <4>1. CASE t = onCpu
        <5>1. WellFormed(c) /\ LoadedCount(c) /\ ~GuardHeld(c)
          BY <2>3 DEF WellFormed, LoadedCount, GuardHeld
        <5> QED
          BY <2>1, <2>4, <2>5, <2>6, <2>7, <4>1, <5>1
      <4>2. CASE t # onCpu
        <5>1. context'[t] = context[t] /\ frames'[t] = frames[t] /\ PreemptCount'[t] = PreemptCount[t]
          BY <2>4, <2>6, <2>7, <4>2
        <5> QED
          BY <5>1 DEF IInv, StacksOK
      <4> QED
        BY <4>1, <4>2
    <3>2. ASSUME NEW t \in Task, NEW i \in 1 .. Len(frames'[t])
          PROVE  /\ WellFormed(frames'[t][i]) /\ LoadedCount(frames'[t][i])
                 /\ MadeByTick(frames'[t][i]) => i > 1
                 /\ Interruptible(frames'[t][i])
      <4>1. CASE t = onCpu /\ i = Len(s)
        <5>1. frames'[t][i] = Cur
          BY <2>5, <2>6, <4>1
        <5>2. MadeByTick(Cur) => frames[onCpu] # << >>
          BY <1>0 DEF IInv, StacksOK, Cur
        <5>3. frames[onCpu] # << >> => i > 1
          BY <1>0, <2>5, <4>1 DEF IInv, TypeOK
        <5> QED
          BY <1>0, <2>2, <5>1, <5>2, <5>3
      <4>2. CASE ~(t = onCpu /\ i = Len(s))
        <5>1. i \in 1 .. Len(frames[t]) /\ frames'[t][i] = frames[t][i]
          <6>1. CASE t = onCpu
            BY <1>0, <2>5, <2>6, <3>2, <4>2, <6>1, SMTT(30) DEF IInv, TypeOK
          <6>2. CASE t # onCpu
            BY <2>6, <3>2, <6>2
          <6> QED
            BY <6>1, <6>2
        <5> QED
          BY <5>1 DEF IInv, StacksOK
      <4> QED
        BY <4>1, <4>2
    <3> QED
      BY <3>1, <3>2 DEF StacksOK, WellFormed, LoadedCount, MadeByTick, GuardHeld, Interruptible
  <2>10. OwnerOK'
    <3>1. Created(onCpu)' /\ \A t \in Task \ {onCpu'} : context'[t].at \in {"none", "enableLoad"}
      BY <1>0, <2>3, <2>4, <2>7 DEF IInv, OwnerOK, Created
    <3> QED
      BY <2>1, <2>3, <2>4, <2>7, <3>1 DEF OwnerOK
  <2>11. TableOK'
    <3>1. \A i \in Slot : Tasks'[i] # NoTask => Created(Tasks[i])'
      BY <2>3, <2>4, <2>7 DEF IInv, TypeOK, TableOK, Created
    <3> QED
      BY <2>3, <2>7, <3>1 DEF TableOK
  <2>12. IrqMaskedOnlyAtReturn'
    BY <2>3, <2>4, <2>7 DEF IrqMaskedOnlyAtReturn
  <2> QED
    BY <2>8, <2>9, <2>10, <2>11, <2>12 DEF IInv
<1>31. ASSUME UNCHANGED vars PROVE IInv'
  BY <1>31, Unmoved DEF vars, IInv, TypeOK
<1> QED
  BY <1>1, <1>2, <1>3, <1>4, <1>5, <1>6, <1>7, <1>8, <1>9, <1>10, <1>11, <1>12, <1>13,
     <1>14, <1>15, <1>16, <1>17, <1>18, <1>19, <1>20, <1>21, <1>22, <1>23, <1>24, <1>25,
     <1>26, <1>27, <1>28, <1>29, <1>30, <1>31, <1>6a DEF Next, KernelStep, UserStep, Tick

\* kmain starts in a state in which the invariant holds.
LEMMA Initial == Init => IInv
<1> SUFFICES ASSUME Init PROVE IInv
  OBVIOUS
<1> USE SchedulerAssumption
<1>1. 0 \in Slot /\ InitTask \in Task /\ NoTask \notin Task
  BY DEF Slot
<1> DEFINE run == At("kmain", "run", "none")
           none == At("none", "none", "none")
<1>2. /\ run \in Activation /\ run.fn = "kmain" /\ run.at = "run" /\ run.caller = "none"
  BY AtFields, Names
<1>3. /\ none \in Activation /\ none.fn = "none" /\ none.at = "none" /\ none.caller = "none"
  BY AtFields, Names
<1>4. \A t \in Task : context[t] = IF t = InitTask THEN run ELSE none
  BY DEF Init
<1>5. /\ context = [t \in Task |-> IF t = InitTask THEN run ELSE none]
      /\ onCpu = InitTask /\ pCurrentTask = InitTask
      /\ frames = [t \in Task |-> << >>]
      /\ PreemptCount = [t \in Task |-> 0]
      /\ irq = TRUE
      /\ Tasks = [i \in Slot |-> IF i = 0 THEN InitTask ELSE NoTask]
  BY DEF Init
<1> HIDE DEF run, none
<1>6. Cur = run
  BY <1>1, <1>4, <1>5 DEF Cur
<1>7. TypeOK
  <2>1. context \in [Task -> Activation]
    BY <1>2, <1>3, <1>5
  <2>2. \A t \in Task : context[t].at \in {"scan", "take", "reset"} => context[t].curTask \in Slot
    BY <1>2, <1>3, <1>4
  <2>3. frames \in [Task -> Seq(Activation)]
    BY <1>5
  <2> QED
    BY <1>1, <2>1, <2>2, <2>3 DEF Init, TypeOK
<1>8. StacksOK
  <2>1. ASSUME NEW t \in Task
        PROVE  WellFormed(context[t]) /\ LoadedCount(context[t]) /\ ~MadeByTick(context[t])
               /\ ~GuardHeld(context[t])
    BY <1>2, <1>3, <1>4 DEF WellFormed, LoadedCount, MadeByTick, GuardHeld
  <2> QED
    BY <1>5, <2>1 DEF StacksOK
<1>9. OwnerOK
  BY <1>1, <1>2, <1>3, <1>4, <1>5, <1>6 DEF OwnerOK, Created
<1>10. TableOK
  BY <1>1, <1>2, <1>4, <1>5, <1>6 DEF TableOK, Created
<1>11. IrqMaskedOnlyAtReturn
  BY <1>2, <1>5, <1>6 DEF IrqMaskedOnlyAtReturn
<1> QED
  BY <1>7, <1>8, <1>9, <1>10, <1>11 DEF IInv

-----------------------------------------------------------------------------
(***************************************************************************)
(* The theorems.                                                           *)
(***************************************************************************)
\* The invariant holds in every state the scheduler can reach.
THEOREM Invariance == Spec => []IInv
  BY Initial, Inductive, PTL DEF Spec

\* Every variable keeps its type, and ScheduleImpl never indexes Tasks outside
\* its bounds.
THEOREM TypeCorrect == Spec => []TypeOK
<1>1. IInv => TypeOK
  BY DEF IInv
<1> QED
  BY <1>1, Invariance, PTL

\* Guards nest correctly on every kernel stack, however deep the interrupts
\* nest and whatever load of a PreemptCount an interrupt separates from its
\* store.
THEOREM GuardsNest == Spec => []GuardDiscipline
<1>1. IInv => GuardDiscipline
  BY DEF IInv, StacksOK, GuardDiscipline, Interruptible
<1> QED
  BY <1>1, Invariance, PTL

\* A task that does not own the CPU cannot be preempted.
THEOREM SuspendedGuarded == Spec => []SuspendedInsideGuard
<1>1. IInv => SuspendedInsideGuard
  <2> SUFFICES ASSUME IInv, NEW t \in Task \ {onCpu}, Created(t)
               PROVE  PreemptCount[t] > 0 /\ context[t].at = "enableLoad"
    BY DEF SuspendedInsideGuard
  <2>1. context[t].at = "enableLoad"
    BY DEF IInv, OwnerOK, Created
  <2>2. PreemptCount[t] = 1
    BY <2>1 DEF IInv, StacksOK, GuardHeld
  <2> QED
    BY <2>1, <2>2
<1> QED
  BY <1>1, Invariance, PTL

\* Outside SwitchTo's window pCurrentTask is the task whose stack is in use.
THEOREM CurrentOwns == Spec => []CurrentOwnsStack
<1>1. IInv => CurrentOwnsStack
  BY DEF IInv, OwnerOK, CurrentOwnsStack
<1> QED
  BY <1>1, Invariance, PTL

\* Interrupts are masked only on the way out of an exception, so that every
\* task is left and resumed with interrupts enabled.
THEOREM IrqMasking == Spec => []IrqMaskedOnlyAtReturn
<1>1. IInv => IrqMaskedOnlyAtReturn
  BY DEF IInv
<1> QED
  BY <1>1, Invariance, PTL

\* A step that moves the CPU to another stack is the one in cpu_switch_to.
LEMMA OnlySwitchMoves ==
    ASSUME [Next]_vars, onCpu' # onCpu
    PROVE  cpu_switch_to
  BY DEF Next, KernelStep, UserStep, Tick, vars, Continue, Goto,
         PreemptDisableLoad, PreemptDisableStore, PreemptEnableLoad, PreemptEnableStore,
         Schedule, ScanSlot, TakeSlot, NextSlot, ResetSlot, SwitchToSame, SwitchTo, SetPageGlobalDirectory,
         AllocateTask, AllocateTaskFails, CopyMemory, SetupTask, NumberTask, PublishTask,
         FlagZombie, CreateKernelProcess, MoveToUserMode, MoveToUserModeSetPGD,
         DisableIrq, ReturnToUser, ReturnFromTick, SystemCallFork, SystemCallExit,
         DataAbortError, UnknownException, TickReturns, TickPreempts

\* The CPU is never given to a task that has exited: between ScheduleImpl's
\* choice and cpu_switch_to nothing can make the chosen task a zombie.
THEOREM ZombiesStayOff == Spec => ZombieNeverResumed
<1>1. IInv /\ [Next]_vars => [onCpu' # onCpu => State[onCpu'] = "Running"]_vars
  <2> SUFFICES ASSUME IInv, [Next]_vars, onCpu' # onCpu PROVE State[onCpu'] = "Running"
    OBVIOUS
  <2>1. cpu_switch_to
    BY OnlySwitchMoves
  <2> QED
    BY <2>1 DEF cpu_switch_to, IInv, OwnerOK
<1> QED
  BY <1>1, Invariance, PTL DEF Spec, ZombieNeverResumed

-----------------------------------------------------------------------------
(***************************************************************************)
(* That Scheduler implements TaskSwitching, with the invariants of         *)
(* Scheduler about the array of tasks, the counters and the page tables    *)
(* that it rests on or that need it.  All of it starts from the invariant  *)
(* of the stacks, IInv.                                                    *)
(***************************************************************************)
\* The variables that most actions leave alone.
table == << Tasks, NumberOfTasks >>

(***************************************************************************)
(* Where each action leads: the running activation after it.               *)
(***************************************************************************)
LEMMA ContinueLands ==
    ASSUME IInv, NEW c, Continue(c)
    PROVE  /\ Cur' = c /\ onCpu' = onCpu /\ frames' = frames
           /\ context'[onCpu] = c /\ \A t \in Task \ {onCpu} : context'[t] = context[t]
  BY DEF IInv, TypeOK, Continue, Cur

\* A step to an activation of the same function, called from the same place.
SameCall(c) == c.fn = Cur.fn /\ c.caller = Cur.caller

LEMMA GuardLands ==
    ASSUME IInv
    PROVE  /\ PreemptDisableLoad => Cur'.at = "disableStore" /\ SameCall(Cur')
           /\ PreemptDisableStore =>
                /\ Cur'.at \in {"scan", "alloc", "flag"} /\ SameCall(Cur')
                /\ Cur'.curTask = 0 /\ Cur'.largestCounter = -1
                /\ Cur'.at = "flag" => Cur.fn = "exit"
           /\ PreemptEnableLoad => Cur'.at = "enableStore" /\ SameCall(Cur')
           /\ PreemptEnableStore =>
                /\ Cur'.caller \in {"none", "user"}
                /\ Cur'.fn = "exit" => Cur.fn = "exit"
                /\ Cur.fn = "exit" => Cur'.at = "call" /\ Cur'.fn = "exit"
                /\ Cur.fn = "schedule" /\ Cur.caller = "tick" => Cur'.fn = "tick"
                /\ Cur'.fn = "tick" => Cur.caller = "tick"
                /\ Cur.fn \in {"copy", "schedule"} /\ Cur.caller = "kmain" => Cur'.fn = "kmain"
                /\ Cur'.at \in {"call", "hang", "mask", "run"}
<1> USE SchedulerAssumption
<1>0. /\ Cur \in Activation /\ WellFormed(Cur) /\ Cur.caller \in Function
      /\ pCurrentTask \in Task /\ PreemptCount[pCurrentTask] \in Int
      /\ "disableStore" \in Place /\ "enableStore" \in Place
  BY CurFacts, Names DEF IInv, TypeOK, Activation
<1>1. ASSUME PreemptDisableLoad PROVE Cur'.at = "disableStore" /\ SameCall(Cur')
  <2> DEFINE c == Load(Cur, "disableStore", PreemptCount[pCurrentTask])
  <2>1. Cur' = c
    BY <1>1, ContinueLands DEF PreemptDisableLoad
  <2>2. c.at = "disableStore" /\ c.fn = Cur.fn /\ c.caller = Cur.caller
    BY <1>0, LoadFields
  <2> QED BY <2>1, <2>2 DEF SameCall
<1>2. ASSUME PreemptDisableStore
      PROVE  /\ Cur'.at \in {"scan", "alloc", "flag"} /\ SameCall(Cur')
             /\ Cur'.curTask = 0 /\ Cur'.largestCounter = -1
             /\ Cur'.at = "flag" => Cur.fn = "exit"
  <2>1. Cur' = AfterDisable(Cur) /\ Cur.at = "disableStore"
    BY <1>2, ContinueLands DEF PreemptDisableStore
  <2>2. Cur.fn \in {"schedule", "copy", "exit"}
    BY <1>0, <2>1 DEF WellFormed
  <2>3. \/ Cur.fn = "schedule" /\ Cur' = At("schedule", "scan", Cur.caller)
        \/ Cur.fn = "copy" /\ Cur' = At("copy", "alloc", Cur.caller)
        \/ Cur.fn = "exit" /\ Cur' = At("exit", "flag", Cur.caller)
    BY <2>1, <2>2 DEF AfterDisable
  <2> QED BY <2>3 DEF At, SameCall
<1>3. ASSUME PreemptEnableLoad PROVE Cur'.at = "enableStore" /\ SameCall(Cur')
  <2> DEFINE c == Load(Cur, "enableStore", PreemptCount[pCurrentTask])
  <2>1. Cur' = c
    BY <1>3, ContinueLands DEF PreemptEnableLoad
  <2>2. c.at = "enableStore" /\ c.fn = Cur.fn /\ c.caller = Cur.caller
    BY <1>0, LoadFields
  <2> QED BY <2>1, <2>2 DEF SameCall
<1>4. ASSUME PreemptEnableStore
      PROVE  /\ Cur'.caller \in {"none", "user"}
             /\ Cur'.fn = "exit" => Cur.fn = "exit"
             /\ Cur.fn = "exit" => Cur'.at = "call" /\ Cur'.fn = "exit"
             /\ Cur.fn = "schedule" /\ Cur.caller = "tick" => Cur'.fn = "tick"
             /\ Cur'.fn = "tick" => Cur.caller = "tick"
             /\ Cur.fn \in {"copy", "schedule"} /\ Cur.caller = "kmain" => Cur'.fn = "kmain"
             /\ Cur'.at \in {"call", "hang", "mask", "run"}
  <2>1. Cur' = AfterEnable(Cur) /\ Cur.at = "enableStore"
    BY <1>4, ContinueLands DEF PreemptEnableStore
  <2>2. \/ Cur.fn = "schedule" /\ Cur.caller = "kmain" /\ Cur' = At("kmain", "call", "none")
        \/ Cur.fn = "schedule" /\ Cur.caller = "exit" /\ Cur' = At("user", "mask", "none")
        \/ Cur.fn = "schedule" /\ Cur.caller = "tick" /\ Cur' = At("tick", "mask", "none")
        \/ /\ Cur.fn = "copy" /\ Cur.caller = "kmain"
           /\ Cur' \in {At("kmain", "hang", "none"), At("kmain", "call", "none")}
        \/ Cur.fn = "copy" /\ Cur.caller = "user" /\ Cur' = At("user", "mask", "none")
        \/ Cur.fn = "exit" /\ Cur' = At("exit", "call", "user")
        \/ Cur.fn = "fork" /\ Cur.caller = "kproc" /\ Cur' = At("kproc", "run", "none")
        \/ Cur.fn = "fork" /\ Cur.caller = "user" /\ Cur' = At("user", "mask", "none")
    BY <1>0, <2>1 DEF AfterEnable, WellFormed
  <2> QED BY <2>2 DEF At
<1> QED BY <1>1, <1>2, <1>3, <1>4

LEMMA SlotDoneLands ==
    ASSUME IInv, Cur.at \in {"scan", "take"}, NEW b \in Activation, NextSlot(b),
           b.fn = Cur.fn, b.caller = Cur.caller, b.curTask = Cur.curTask
    PROVE  Cur'.at \in {"scan", "switch", "reset"} /\ SameCall(Cur')
<1>1. Cur.fn = "schedule"
  BY CurFacts DEF WellFormed
<1>2. \/ Cur' = Index(b, "scan", b.curTask + 1)
      \/ Cur' = Pick(At("schedule", "switch", b.caller), -1, b.taskToResume)
      \/ Cur' = At("schedule", "reset", b.caller)
  BY ContinueLands DEF NextSlot
<1>3. CASE Cur' = Index(b, "scan", b.curTask + 1)
  BY <1>3 DEF Index, SameCall, Activation
<1>4. CASE Cur' = Pick(At("schedule", "switch", b.caller), -1, b.taskToResume)
  BY <1>1, <1>4 DEF At, Pick, SameCall
<1>5. CASE Cur' = At("schedule", "reset", b.caller)
  BY <1>1, <1>5 DEF At, SameCall
<1> QED BY <1>2, <1>3, <1>4, <1>5

LEMMA ScheduleLands ==
    ASSUME IInv
    PROVE  /\ Schedule => /\ Cur'.at = "disableLoad" /\ Cur'.fn = "schedule"
                          /\ Cur'.caller = Cur.fn /\ Cur.fn \in {"kmain", "exit"}
           /\ ScanSlot => Cur'.at \in {"scan", "take", "switch", "reset"} /\ SameCall(Cur')
           /\ TakeSlot => Cur'.at \in {"scan", "switch", "reset"} /\ SameCall(Cur')
           /\ ResetSlot => Cur'.at \in {"scan", "reset"} /\ SameCall(Cur')
           /\ SwitchToSame => Cur'.at = "enableLoad" /\ SameCall(Cur')
           /\ SwitchTo => /\ Cur'.at = "setpgd" /\ SameCall(Cur')
                          /\ Cur'.task = Tasks[Cur.taskToResume]
           /\ SetPageGlobalDirectory => /\ Cur'.at = "cpu" /\ SameCall(Cur')
                                        /\ Cur'.task = Cur.task
<1> USE SchedulerAssumption
<1>0. /\ Cur \in Activation /\ Cur.caller \in Function /\ Cur.fn \in Function
      /\ Cur.at \in {"scan", "take", "reset", "switch", "setpgd", "cpu"} => Cur.fn = "schedule"
      /\ Cur.at \in {"scan", "take", "reset"} => Cur.curTask \in Slot /\ Cur.curTask + 1 \in Nat
  BY CurFacts DEF Activation, WellFormed, Slot
<1>1. ASSUME Schedule
      PROVE  /\ Cur'.at = "disableLoad" /\ Cur'.fn = "schedule"
             /\ Cur'.caller = Cur.fn /\ Cur.fn \in {"kmain", "exit"}
  <2>1. Cur' = At("schedule", "disableLoad", Cur.fn) /\ Cur.fn \in {"kmain", "exit"}
    BY <1>1, ContinueLands DEF Schedule
  <2> QED BY <2>1 DEF At
<1>2. ASSUME ScanSlot PROVE Cur'.at \in {"scan", "take", "switch", "reset"} /\ SameCall(Cur')
  <2>1. Cur.at = "scan" /\ (NextSlot(Cur) \/ Continue(Load(Cur, "take", Counter[pCurrentTask])))
    BY <1>2 DEF ScanSlot
  <2>2. CASE NextSlot(Cur)
    BY <1>0, <2>1, <2>2, SlotDoneLands
  <2>3. CASE Continue(Load(Cur, "take", Counter[pCurrentTask]))
    <3>1. Cur' = Load(Cur, "take", Counter[pCurrentTask])
      BY <2>3, ContinueLands
    <3> QED BY <1>0, <3>1 DEF Load, SameCall, Activation
  <2> QED BY <2>1, <2>2, <2>3
<1>7. ASSUME TakeSlot PROVE Cur'.at \in {"scan", "switch", "reset"} /\ SameCall(Cur')
  <2> DEFINE l == Load(Cur, "scan", 0)
             b == Pick(l, Counter[Tasks[Cur.curTask]], Cur.curTask)
  <2>1. /\ Cur.at = "take" /\ NextSlot(b) /\ Cur.curTask \in Slot
        /\ Tasks[Cur.curTask] \in Task /\ Counter[Tasks[Cur.curTask]] \in Int
    BY <1>0, <1>7 DEF TakeSlot, IInv, TypeOK, TableOK, TaskAlive
  <2>2. l \in Activation /\ l.fn = Cur.fn /\ l.caller = Cur.caller /\ l.curTask = Cur.curTask
    <3>1. "scan" \in Place /\ 0 \in Int
      BY Names
    <3> QED BY <1>0, <3>1, LoadFields
  <2> HIDE DEF l
  <2>3. b \in Activation /\ b.fn = Cur.fn /\ b.caller = Cur.caller /\ b.curTask = Cur.curTask
    BY <2>1, <2>2, PickFields
  <2> HIDE DEF b
  <2> QED BY <2>1, <2>3, SlotDoneLands
<1>3. ASSUME ResetSlot PROVE Cur'.at \in {"scan", "reset"} /\ SameCall(Cur')
  <2>1. \/ Cur' = At("schedule", "scan", Cur.caller)
        \/ Cur' = Index(Cur, "reset", Cur.curTask + 1)
    BY <1>3, ContinueLands DEF ResetSlot
  <2>2. Cur.fn = "schedule"
    BY <1>0, <1>3 DEF ResetSlot
  <2>3. CASE Cur' = At("schedule", "scan", Cur.caller)
    BY <2>2, <2>3 DEF At, SameCall
  <2>4. CASE Cur' = Index(Cur, "reset", Cur.curTask + 1)
    BY <1>0, <2>4 DEF Index, SameCall, Activation
  <2> QED BY <2>1, <2>3, <2>4
<1>4. ASSUME SwitchToSame PROVE Cur'.at = "enableLoad" /\ SameCall(Cur')
  <2>1. Cur' = At("schedule", "enableLoad", Cur.caller)
    BY <1>4, ContinueLands DEF SwitchToSame
  <2> QED BY <1>0, <1>4, <2>1 DEF At, SameCall, SwitchToSame
<1>5. ASSUME SwitchTo
      PROVE  Cur'.at = "setpgd" /\ SameCall(Cur') /\ Cur'.task = Tasks[Cur.taskToResume]
  <2>1. Cur' = Hold(At("schedule", "setpgd", Cur.caller), "setpgd", Tasks[Cur.taskToResume])
    BY <1>5, ContinueLands DEF SwitchTo
  <2> QED BY <1>0, <1>5, <2>1 DEF At, Hold, SameCall, SwitchTo
<1>6. ASSUME SetPageGlobalDirectory
      PROVE  Cur'.at = "cpu" /\ SameCall(Cur') /\ Cur'.task = Cur.task
  <2>1. Cur' = Move(Cur, "cpu")
    BY <1>6, ContinueLands DEF SetPageGlobalDirectory, Goto
  <2> QED BY <1>0, <2>1 DEF Move, SameCall, Activation
<1> QED BY <1>1, <1>2, <1>3, <1>4, <1>5, <1>6, <1>7

LEMMA CopyLands ==
    ASSUME IInv
    PROVE  /\ AllocateTask => /\ Cur'.at \in {"memory", "setup"} /\ SameCall(Cur')
                              /\ Cur'.at = "memory" <=> Cur.caller = "user"
           /\ AllocateTaskFails => Cur'.at = "enableLoad" /\ SameCall(Cur')
           /\ CopyMemory => Cur'.at = "setup" /\ SameCall(Cur') /\ Cur'.task = Cur.task
           /\ NumberTask => /\ Cur'.at = "publish" /\ SameCall(Cur') /\ Cur'.task = Cur.task
                            /\ Cur'.curTask = NumberOfTasks
           /\ PublishTask => Cur'.at = "enableLoad" /\ SameCall(Cur')
           /\ FlagZombie => Cur'.at = "enableLoad" /\ SameCall(Cur')
<1> USE SchedulerAssumption
<1>0. Cur \in Activation
  BY CurFacts
<1>1. ASSUME AllocateTask
      PROVE  /\ Cur'.at \in {"memory", "setup"} /\ SameCall(Cur')
             /\ Cur'.at = "memory" <=> Cur.caller = "user"
  <2>1. PICK t \in Task : Continue(Hold(Cur, IF Cur.caller = "user" THEN "memory" ELSE "setup", t))
    BY <1>1 DEF AllocateTask
  <2>2. Cur' = Hold(Cur, IF Cur.caller = "user" THEN "memory" ELSE "setup", t)
    BY <2>1, ContinueLands
  <2> QED BY <1>0, <2>2 DEF Hold, SameCall, Activation
<1>2. ASSUME AllocateTaskFails PROVE Cur'.at = "enableLoad" /\ SameCall(Cur')
  <2>1. Cur' = Move(Cur, "enableLoad")
    BY <1>2, ContinueLands DEF AllocateTaskFails, Goto
  <2> QED BY <1>0, <2>1 DEF Move, SameCall, Activation
<1>3. ASSUME CopyMemory PROVE Cur'.at = "setup" /\ SameCall(Cur') /\ Cur'.task = Cur.task
  <2>1. Cur' = Move(Cur, "setup")
    BY <1>3, ContinueLands DEF CopyMemory, Goto
  <2> QED BY <1>0, <2>1 DEF Move, SameCall, Activation
<1>4. ASSUME NumberTask
      PROVE  /\ Cur'.at = "publish" /\ SameCall(Cur') /\ Cur'.task = Cur.task
             /\ Cur'.curTask = NumberOfTasks
  <2>1. Cur' = Index(Cur, "publish", NextProcessID)
    BY <1>4, ContinueLands DEF NumberTask
  <2> QED BY <1>0, <2>1 DEF Index, SameCall, Activation, NextProcessID
<1>5. ASSUME PublishTask PROVE Cur'.at = "enableLoad" /\ SameCall(Cur')
  <2>1. Cur' = Index(Cur, "enableLoad", 0)
    BY <1>5, ContinueLands DEF PublishTask
  <2> QED BY <1>0, <2>1 DEF Index, SameCall, Activation
<1>6. ASSUME FlagZombie PROVE Cur'.at = "enableLoad" /\ SameCall(Cur')
  <2>1. Cur' = Move(Cur, "enableLoad")
    BY <1>6, ContinueLands DEF FlagZombie, Goto
  <2> QED BY <1>0, <2>1 DEF Move, SameCall, Activation
<1> QED BY <1>1, <1>2, <1>3, <1>4, <1>5, <1>6

LEMMA UserLands ==
    ASSUME IInv
    PROVE  /\ CreateKernelProcess => /\ Cur'.at = "disableLoad" /\ Cur'.fn = "copy"
                                     /\ Cur'.caller = "kmain" /\ Cur.fn = "kmain"
           /\ MoveToUserMode =>
                /\ Cur.fn = "kproc" /\ Cur.at = "run"
                /\ \/ /\ Cur'.at = "loadpgd" /\ SameCall(Cur')
                      /\ PGD' = [PGD EXCEPT ![onCpu] = onCpu]
                   \/ Cur'.at = "mask" /\ Cur'.fn = "user" /\ Cur'.caller = "none" /\ PGD' = PGD
           /\ MoveToUserModeSetPGD =>
                /\ Cur.fn = "kproc" /\ Cur.at = "loadpgd" /\ ttbr0' = PGD[onCpu]
                /\ Cur'.at = "mask" /\ Cur'.fn = "user" /\ Cur'.caller = "none"
           /\ SystemCallFork => /\ Cur'.at = "disableLoad" /\ Cur'.fn = "copy"
                                /\ Cur'.caller = "user" /\ Cur.fn = "user"
           /\ SystemCallExit => /\ Cur'.at = "disableLoad" /\ Cur'.fn = "exit"
                                /\ Cur'.caller = "user" /\ Cur.fn = "user"
           /\ DataAbortError \/ UnknownException =>
                Cur'.at \in {"hang", "halt"} /\ SameCall(Cur') /\ Cur.fn = "user"
           /\ DisableIrq => Cur'.at = "eret" /\ SameCall(Cur')
           /\ ReturnToUser => Cur'.at = "run" /\ SameCall(Cur') /\ Cur.fn = "user"
<1> USE SchedulerAssumption
<1>0. Cur \in Activation /\ (Cur.at \notin {"setpgd", "cpu"} => pCurrentTask = onCpu)
  BY CurFacts
<1>1. ASSUME CreateKernelProcess
      PROVE  /\ Cur'.at = "disableLoad" /\ Cur'.fn = "copy"
             /\ Cur'.caller = "kmain" /\ Cur.fn = "kmain"
  <2>1. Cur' = At("copy", "disableLoad", "kmain")
    BY <1>1, ContinueLands DEF CreateKernelProcess
  <2> QED BY <1>1, <2>1 DEF At, CreateKernelProcess
<1>2. ASSUME MoveToUserMode
      PROVE  /\ Cur.fn = "kproc" /\ Cur.at = "run"
             /\ \/ /\ Cur'.at = "loadpgd" /\ SameCall(Cur')
                   /\ PGD' = [PGD EXCEPT ![onCpu] = onCpu]
                \/ Cur'.at = "mask" /\ Cur'.fn = "user" /\ Cur'.caller = "none" /\ PGD' = PGD
  <2>1. \/ Cur' = Move(Cur, "loadpgd") /\ PGD' = [PGD EXCEPT ![onCpu] = onCpu]
        \/ Cur' = At("user", "mask", "none") /\ PGD' = PGD
    BY <1>0, <1>2, ContinueLands DEF MoveToUserMode, Goto
  <2>2. CASE Cur' = Move(Cur, "loadpgd") /\ PGD' = [PGD EXCEPT ![onCpu] = onCpu]
    BY <1>0, <1>2, <2>2 DEF Move, SameCall, Activation, MoveToUserMode
  <2>3. CASE Cur' = At("user", "mask", "none") /\ PGD' = PGD
    BY <1>2, <2>3 DEF At, MoveToUserMode
  <2> QED BY <2>1, <2>2, <2>3
<1>3. ASSUME MoveToUserModeSetPGD
      PROVE  /\ Cur.fn = "kproc" /\ Cur.at = "loadpgd" /\ ttbr0' = PGD[onCpu]
             /\ Cur'.at = "mask" /\ Cur'.fn = "user" /\ Cur'.caller = "none"
  <2>1. Cur' = At("user", "mask", "none")
    BY <1>3, ContinueLands DEF MoveToUserModeSetPGD
  <2> QED BY <1>0, <1>3, <2>1 DEF At, MoveToUserModeSetPGD
<1>4. ASSUME SystemCallFork
      PROVE  /\ Cur'.at = "disableLoad" /\ Cur'.fn = "copy"
             /\ Cur'.caller = "user" /\ Cur.fn = "user"
  <2>1. Cur' = At("copy", "disableLoad", "user")
    BY <1>4, ContinueLands DEF SystemCallFork
  <2> QED BY <1>4, <2>1 DEF At, SystemCallFork, InUserMode
<1>5. ASSUME SystemCallExit
      PROVE  /\ Cur'.at = "disableLoad" /\ Cur'.fn = "exit"
             /\ Cur'.caller = "user" /\ Cur.fn = "user"
  <2>1. Cur' = At("exit", "disableLoad", "user")
    BY <1>5, ContinueLands DEF SystemCallExit
  <2> QED BY <1>5, <2>1 DEF At, SystemCallExit, InUserMode
<1>6. ASSUME DataAbortError \/ UnknownException
      PROVE  Cur'.at \in {"hang", "halt"} /\ SameCall(Cur') /\ Cur.fn = "user"
  <2>1. Cur.fn = "user" /\ \/ Cur' = Move(Cur, "hang") \/ Cur' = Move(Cur, "halt")
    BY <1>6, ContinueLands DEF DataAbortError, UnknownException, Goto, InUserMode
  <2> QED BY <1>0, <2>1 DEF Move, SameCall, Activation
<1>7. ASSUME DisableIrq PROVE Cur'.at = "eret" /\ SameCall(Cur')
  <2>1. Cur' = Move(Cur, "eret")
    BY <1>7, ContinueLands DEF DisableIrq, Goto
  <2> QED BY <1>0, <2>1 DEF Move, SameCall, Activation
<1>8. ASSUME ReturnToUser PROVE Cur'.at = "run" /\ SameCall(Cur') /\ Cur.fn = "user"
  <2>1. Cur' = Move(Cur, "run") /\ Cur.fn = "user"
    BY <1>8, ContinueLands DEF ReturnToUser, Goto
  <2> QED BY <1>0, <2>1 DEF Move, SameCall, Activation
<1> QED BY <1>1, <1>2, <1>3, <1>4, <1>5, <1>6, <1>7, <1>8

(***************************************************************************)
(* The four actions that touch more than the running activation.           *)
(***************************************************************************)
LEMMA SetupLands ==
    ASSUME IInv, SetupTask
    PROVE  /\ onCpu' = onCpu /\ frames' = frames
           /\ Cur'.at = "number" /\ SameCall(Cur') /\ Cur'.task = Cur.task
           /\ Cur.task \in Task \ {onCpu} /\ ~Created(Cur.task)
           /\ context'[Cur.task].at = "enableLoad" /\ context'[Cur.task].fn = "fork"
           /\ context'[Cur.task].caller \in {"kproc", "user"}
           /\ \A t \in Task \ {onCpu, Cur.task} : context'[t] = context[t]
<1>1. /\ onCpu \in Task /\ Cur \in Activation /\ Cur.at = "setup" /\ Cur.task \in Task
      /\ ~Created(Cur.task) /\ Created(onCpu) /\ context \in [Task -> Activation]
  BY CurFacts DEF SetupTask, IInv, TypeOK, TableOK, WellFormed, OwnerOK
<1>2. Cur.task \in Task \ {onCpu}
  BY <1>1
<1>3. /\ onCpu' = onCpu /\ frames' = frames
      /\ context'[onCpu] = Move(Cur, "number")
      /\ context'[Cur.task] = At("fork", "enableLoad", IF Cur.caller = "kmain" THEN "kproc" ELSE "user")
      /\ \A t \in Task \ {onCpu, Cur.task} : context'[t] = context[t]
  BY <1>1, <1>2 DEF SetupTask
<1>4. Cur' = Move(Cur, "number")
  BY <1>3 DEF Cur
<1>5. Cur'.at = "number" /\ SameCall(Cur') /\ Cur'.task = Cur.task
  BY <1>1, <1>4 DEF Move, SameCall, Activation
<1>6. /\ context'[Cur.task].at = "enableLoad" /\ context'[Cur.task].fn = "fork"
      /\ context'[Cur.task].caller \in {"kproc", "user"}
  BY <1>3 DEF At
<1> QED BY <1>1, <1>2, <1>3, <1>5, <1>6

LEMMA SwitchLands ==
    ASSUME IInv, cpu_switch_to
    PROVE  /\ onCpu' = Cur.task /\ frames' = frames
           /\ Cur.task \in Task \ {onCpu} /\ Cur.fn = "schedule"
           /\ Cur.task = pCurrentTask /\ State[Cur.task] = "Running"
           /\ Cur' = context[Cur.task] /\ Cur'.at = "enableLoad"
           /\ context'[onCpu] = At("schedule", "enableLoad", Cur.caller)
           /\ \A t \in Task \ {onCpu} : context'[t] = context[t]
<1>1. /\ onCpu \in Task /\ Cur.at = "cpu" /\ Cur.task \in Task /\ Cur.fn = "schedule"
      /\ Cur.task # onCpu /\ Created(Cur.task) /\ context \in [Task -> Activation]
      /\ Cur.task = pCurrentTask /\ State[Cur.task] = "Running"
  BY CurFacts DEF cpu_switch_to, IInv, TypeOK, WellFormed, OwnerOK
<1>2. /\ onCpu' = Cur.task /\ frames' = frames
      /\ context'[onCpu] = At("schedule", "enableLoad", Cur.caller)
      /\ \A t \in Task \ {onCpu} : context'[t] = context[t]
  BY <1>1 DEF cpu_switch_to
<1>3. context[Cur.task].at = "enableLoad"
  BY <1>1 DEF IInv, OwnerOK, Created
<1>4. Cur' = context[Cur.task]
  BY <1>1, <1>2 DEF Cur
<1> QED BY <1>1, <1>2, <1>3, <1>4

LEMMA TickLands ==
    ASSUME IInv, TickPreempts
    PROVE  /\ onCpu' = onCpu
           /\ Cur'.at = "disableLoad" /\ Cur'.fn = "schedule" /\ Cur'.caller = "tick"
           /\ frames'[onCpu] = Append(frames[onCpu], Cur)
           /\ \A t \in Task \ {onCpu} : context'[t] = context[t] /\ frames'[t] = frames[t]
<1>1. onCpu \in Task /\ context \in [Task -> Activation] /\ frames \in [Task -> Seq(Activation)]
  BY DEF IInv, TypeOK
<1>2. /\ onCpu' = onCpu
      /\ context'[onCpu] = At("schedule", "disableLoad", "tick")
      /\ frames'[onCpu] = Append(frames[onCpu], Cur)
      /\ \A t \in Task \ {onCpu} : context'[t] = context[t] /\ frames'[t] = frames[t]
  BY <1>1 DEF TickPreempts, Cur
<1>3. Cur' = At("schedule", "disableLoad", "tick")
  BY <1>2 DEF Cur
<1>4. Cur'.at = "disableLoad" /\ Cur'.fn = "schedule" /\ Cur'.caller = "tick"
  BY <1>3 DEF At
<1> QED BY <1>2, <1>4

LEMMA ReturnLands ==
    ASSUME IInv, ReturnFromTick
    PROVE  LET n == Len(frames[onCpu])
           IN  /\ n \in Nat \ {0} /\ onCpu' = onCpu /\ Cur.fn = "tick"
               /\ Cur' = frames[onCpu][n] /\ Interruptible(Cur')
               /\ Len(frames'[onCpu]) = n - 1
               /\ \A i \in 1 .. n - 1 : frames'[onCpu][i] = frames[onCpu][i]
               /\ \A t \in Task \ {onCpu} : context'[t] = context[t] /\ frames'[t] = frames[t]
<1> DEFINE s == frames[onCpu]
           n == Len(s)
<1>1. /\ onCpu \in Task /\ context \in [Task -> Activation] /\ frames \in [Task -> Seq(Activation)]
      /\ Cur.fn = "tick" /\ s \in Seq(Activation)
  BY DEF IInv, TypeOK, ReturnFromTick
<1>2. s # << >>
  BY <1>1 DEF IInv, StacksOK, MadeByTick, Cur
<1>3. n \in Nat \ {0}
  BY <1>1, <1>2
<1>4. /\ onCpu' = onCpu
      /\ context'[onCpu] = s[n]
      /\ frames'[onCpu] = SubSeq(s, 1, n - 1)
      /\ \A t \in Task \ {onCpu} : context'[t] = context[t] /\ frames'[t] = frames[t]
  BY <1>1 DEF ReturnFromTick
<1>5. Cur' = s[n]
  BY <1>4 DEF Cur
<1>6. Interruptible(s[n])
  BY <1>1, <1>3 DEF IInv, StacksOK
<1>7. Len(frames'[onCpu]) = n - 1 /\ \A i \in 1 .. n - 1 : frames'[onCpu][i] = s[i]
  <2>1. SubSeq(s, 1, n - 1) = [i \in 1 .. n - 1 |-> s[i]]
    BY <1>1, <1>3
  <2>2. n - 1 \in Nat
    BY <1>3
  <2> HIDE DEF s, n
  <2> QED BY <1>4, <2>1, <2>2
<1>8. Interruptible(Cur')
  BY <1>5, <1>6 DEF Interruptible, GuardHeld
<1> QED BY <1>1, <1>3, <1>4, <1>5, <1>7, <1>8

\* TimerTick preempts no activation that holds a guard, nor one in SwitchTo's window.
LEMMA TickOutsideGuard ==
    ASSUME IInv, TickPreempts
    PROVE  ~GuardHeld(Cur)
<1>1. ~(PreemptCount[pCurrentTask] > 0)
  BY DEF TickPreempts, TickKeepsTask
<1>2. CASE Cur.at \in {"setpgd", "cpu"}
  <2>1. pCurrentTask \in Task \ {onCpu} /\ Created(pCurrentTask)
    BY <1>2, CurFacts DEF IInv, OwnerOK
  <2>2. context[pCurrentTask].at = "enableLoad"
    BY <2>1 DEF IInv, OwnerOK, Created
  <2>3. PreemptCount[pCurrentTask] = 1
    BY <2>1, <2>2 DEF IInv, StacksOK, GuardHeld
  <2> QED BY <1>1, <2>3
<1>3. CASE Cur.at \notin {"setpgd", "cpu"}
  <2>1. pCurrentTask = onCpu /\ (GuardHeld(Cur) => PreemptCount[onCpu] = 1)
    BY <1>3, CurFacts
  <2> QED BY <1>1, <2>1
<1> QED BY <1>2, <1>3

-----------------------------------------------------------------------------
(***************************************************************************)
(* The array of tasks.                                                     *)
(***************************************************************************)
\* It is full up to the number of tasks, each in one slot; the task that is being
\* created has its number and is not in it yet; the one that is chosen is in it.
TableFilled ==
    /\ PublishedCount \in 1 .. NumberOfTasksC
    /\ \A i \in Slot : Tasks[i] # NoTask <=> i < PublishedCount
    /\ \A i, j \in Slot : Tasks[i] # NoTask /\ Tasks[i] = Tasks[j] => i = j
    /\ Cur.at \in {"number", "publish"} => ~Published(Cur.task)
    /\ Cur.at = "publish" => Cur.curTask = NumberOfTasks - 1
    /\ Cur.at \in {"setpgd", "cpu"} => Published(Cur.task)

\* A step to a place that TableFilled says nothing of.
LEMMA TableKept ==
    ASSUME TableFilled, UNCHANGED table, Cur.at # "publish",
           Cur'.at \notin {"number", "publish", "setpgd", "cpu"}
    PROVE  TableFilled'
  BY DEF TableFilled, table, PublishedCount, Published

\* The tasks are as many as their numbers, and there are no more of them than
\* slots.
LEMMA RoomForOne ==
    ASSUME IInv, TableFilled, Cur.at = "publish"
    PROVE  PublishedCount < NumberOfTasksC
<1> USE SchedulerAssumption
<1> DEFINE k == PublishedCount
           f == [i \in 0 .. k |-> IF i < k THEN Tasks[i] ELSE Cur.task]
<1>1. k \in 1 .. NumberOfTasksC /\ NumberOfTasksC \in Nat /\ Cur.task \in Task
  BY CurFacts DEF TableFilled, WellFormed
<1>2. ASSUME NEW i \in 0 .. k, i < k PROVE i \in Slot /\ Tasks[i] \in Task /\ Tasks[i] # Cur.task
  <2>1. i \in Slot
    BY <1>1, <1>2 DEF Slot
  <2>2. Tasks[i] # NoTask
    BY <1>2, <2>1 DEF TableFilled
  <2> QED BY <2>1, <2>2 DEF IInv, TypeOK, TableFilled, Published
<1>3. f \in [0 .. k -> Task]
  BY <1>1, <1>2
<1>4. ASSUME NEW i \in 0 .. k, NEW j \in 0 .. k, f[i] = f[j] PROVE i = j
  <2>1. CASE i < k /\ j < k
    BY <1>2, <1>4, <2>1, SchedulerAssumption DEF TableFilled
  <2>2. CASE ~(i < k /\ j < k)
    BY <1>1, <1>2, <1>4, <2>2
  <2> QED BY <2>1, <2>2
<1>5. IsFiniteSet(0 .. k) /\ Cardinality(0 .. k) = k + 1
  BY <1>1, FS_Interval
<1>6. f \in Injection(0 .. k, Task)
  BY <1>3, <1>4 DEF Injection, IsInjective
<1>7. Cardinality(0 .. k) <= Cardinality(Task)
  BY <1>5, <1>6, FS_Injection
<1>8. Cardinality(Task) \in Nat
  BY FS_CardinalityType
<1> QED BY <1>1, <1>5, <1>7, <1>8

\* The actions after which TableKept applies.
QuietStep ==
    \/ PreemptDisableLoad \/ PreemptDisableStore \/ PreemptEnableLoad \/ PreemptEnableStore
    \/ Schedule \/ ScanSlot \/ TakeSlot \/ ResetSlot \/ SwitchToSame
    \/ AllocateTask \/ AllocateTaskFails \/ CopyMemory \/ FlagZombie
    \/ CreateKernelProcess \/ MoveToUserMode \/ MoveToUserModeSetPGD
    \/ DisableIrq \/ ReturnToUser \/ UserStep

LEMMA QuietPlaces ==
    ASSUME IInv, QuietStep
    PROVE  UNCHANGED table /\ Cur.at # "publish"
           /\ Cur'.at \notin {"number", "publish", "setpgd", "cpu"}
<1>1. UNCHANGED table
  BY DEF QuietStep, UserStep, table,
         PreemptDisableLoad, PreemptDisableStore, PreemptEnableLoad, PreemptEnableStore,
         Schedule, ScanSlot, TakeSlot, NextSlot, ResetSlot, SwitchToSame, AllocateTask, AllocateTaskFails,
         CopyMemory, FlagZombie, CreateKernelProcess, MoveToUserMode, MoveToUserModeSetPGD,
         DisableIrq, ReturnToUser, SystemCallFork, SystemCallExit, DataAbortError, UnknownException
<1>2. Cur.at # "publish"
  BY DEF QuietStep, UserStep, InUserMode,
         PreemptDisableLoad, PreemptDisableStore, PreemptEnableLoad, PreemptEnableStore,
         Schedule, ScanSlot, TakeSlot, NextSlot, ResetSlot, SwitchToSame, AllocateTask, AllocateTaskFails,
         CopyMemory, FlagZombie, CreateKernelProcess, MoveToUserMode, MoveToUserModeSetPGD,
         DisableIrq, ReturnToUser, SystemCallFork, SystemCallExit, DataAbortError, UnknownException
<1>3. Cur'.at \notin {"number", "publish", "setpgd", "cpu"}
  BY GuardLands, ScheduleLands, CopyLands, UserLands DEF QuietStep, UserStep
<1> QED BY <1>1, <1>2, <1>3

LEMMA TableInductive ==
    ASSUME IInv, TableFilled, [Next]_vars
    PROVE  TableFilled'
<1> USE SchedulerAssumption
<1>1. CASE QuietStep
  BY <1>1, QuietPlaces, TableKept
<1>2. CASE UNCHANGED vars \/ TickReturns
  <2>1. UNCHANGED << Tasks, NumberOfTasks, onCpu, context >>
    BY <1>2 DEF vars, TickReturns
  <2>2. Cur' = Cur
    BY <2>1 DEF Cur
  <2> QED BY <2>1, <2>2 DEF TableFilled, PublishedCount, Published
<1>3. CASE SwitchTo
  <2>1. UNCHANGED table /\ Cur.at = "switch" /\ Cur'.at = "setpgd" /\ Cur'.task = Tasks[Cur.taskToResume]
    BY <1>3, ScheduleLands DEF SwitchTo, table
  <2>2. Cur.taskToResume \in Slot
    BY CurFacts DEF Activation
  <2> QED BY <2>1, <2>2 DEF TableFilled, table, PublishedCount, Published
<1>4. CASE SetPageGlobalDirectory
  BY <1>4, ScheduleLands DEF SetPageGlobalDirectory, TableFilled, PublishedCount, Published
<1>5. CASE cpu_switch_to
  BY <1>5, SwitchLands, TableKept DEF cpu_switch_to, table
<1>6. CASE SetupTask
  <2>1. UNCHANGED table /\ Cur.at = "setup" /\ Cur'.at = "number" /\ Cur'.task = Cur.task
    BY <1>6, SetupLands DEF SetupTask, table
  <2>2. ~Published(Cur.task)
    BY <1>6, SetupLands DEF IInv, TableOK, Published
  <2> QED BY <2>1, <2>2 DEF TableFilled, table, PublishedCount, Published
<1>7. CASE NumberTask
  <2>1. /\ Tasks' = Tasks /\ NumberOfTasks' = NumberOfTasks + 1 /\ Cur.at = "number"
        /\ Cur'.at = "publish" /\ Cur'.task = Cur.task /\ Cur'.curTask = NumberOfTasks
    BY <1>7, CopyLands DEF NumberTask
  <2>2. NumberOfTasks \in Nat
    BY DEF IInv, TypeOK
  <2> QED BY <2>1, <2>2 DEF TableFilled, PublishedCount, Published
<1>8. CASE PublishTask
  <2> DEFINE n == Cur.curTask
  <2>1. /\ Tasks' = [Tasks EXCEPT ![n] = Cur.task] /\ NumberOfTasks' = NumberOfTasks
        /\ Cur.at = "publish" /\ Cur'.at = "enableLoad" /\ Cur.task \in Task
    <3>1. Cur.at = "publish" /\ Cur'.at = "enableLoad"
      BY <1>8, CopyLands DEF PublishTask
    <3>2. Cur.task \in Task
      BY <3>1, CurFacts DEF WellFormed
    <3> QED BY <1>8, <3>1, <3>2 DEF PublishTask
  <2>2. /\ n = NumberOfTasks - 1 /\ PublishedCount = n /\ NumberOfTasks \in Nat
        /\ PublishedCount' = n + 1 /\ n \in Nat
    <3>1. NumberOfTasks \in Nat
      BY DEF IInv, TypeOK
    <3>2. PublishedCount = NumberOfTasks - 1 /\ PublishedCount' = NumberOfTasks
      BY <2>1 DEF PublishedCount
    <3>3. n = NumberOfTasks - 1 /\ PublishedCount \in 1 .. NumberOfTasksC
      BY <2>1 DEF TableFilled
    <3> QED BY <3>1, <3>2, <3>3
  <2>3. n \in Slot
    BY <2>1, <2>2, RoomForOne DEF Slot
  <2>4. Tasks'[n] = Cur.task /\ \A i \in Slot \ {n} : Tasks'[i] = Tasks[i]
    BY <2>1, <2>3 DEF IInv, TypeOK
  <2>5. PublishedCount' \in 1 .. NumberOfTasksC
    BY <2>2, <2>3 DEF Slot
  <2>6. \A i \in Slot : Tasks'[i] # NoTask <=> i < PublishedCount'
    <3> TAKE i \in Slot
    <3>1. CASE i = n
      BY <2>1, <2>2, <2>4, <3>1
    <3>2. CASE i # n
      <4>1. Tasks'[i] = Tasks[i] /\ (Tasks[i] # NoTask <=> i < n)
        BY <2>2, <2>4, <3>2 DEF TableFilled
      <4> QED BY <2>2, <3>2, <4>1 DEF Slot
    <3> QED BY <3>1, <3>2
  <2>7. \A i, j \in Slot : Tasks'[i] # NoTask /\ Tasks'[i] = Tasks'[j] => i = j
    BY <2>1, <2>4 DEF TableFilled, Published
  <2> QED BY <2>1, <2>5, <2>6, <2>7 DEF TableFilled
<1>9. CASE ReturnFromTick
  <2>1. UNCHANGED table /\ Cur.at = "eret"
    BY <1>9 DEF ReturnFromTick, table
  <2> QED BY <1>9, <2>1, ReturnLands, TableKept DEF Interruptible, GuardHeld
<1>10. CASE TickPreempts
  <2>1. UNCHANGED table /\ Cur.at # "publish"
    BY <1>10, TickOutsideGuard DEF TickPreempts, table, GuardHeld
  <2> QED BY <1>10, <2>1, TickLands, TableKept
<1> QED
  BY <1>1, <1>2, <1>3, <1>4, <1>5, <1>6, <1>7, <1>8, <1>9, <1>10 DEF QuietStep, Next, KernelStep, Tick

-----------------------------------------------------------------------------
(***************************************************************************)
(* The shape of the stacks.                                                *)
(***************************************************************************)
\* Only ScheduleImpl is called by a tick, and InitTask does nothing but kmain, and
\* what kmain calls.
Role(t, c) ==
    /\ c.caller = "tick" => c.fn = "schedule"
    /\ c.at = "none" => ~MadeByTick(c)
    /\ t = InitTask => /\ c.at # "none"
                       /\ \/ c.fn \in {"kmain", "tick"}
                          \/ c.fn \in {"copy", "schedule"} /\ c.caller \in {"kmain", "tick"}

\* An activation above another one was made by a tick.
StackShape ==
    \A t \in Task :
        /\ Role(t, context[t])
        /\ frames[t] # << >> => MadeByTick(context[t])
        /\ \A i \in 1 .. Len(frames[t]) :
             /\ Role(t, frames[t][i])
             /\ i > 1 => MadeByTick(frames[t][i])

LEMMA ShapeKept ==
    ASSUME IInv, StackShape, onCpu' = onCpu, frames' = frames,
           \A t \in Task \ {onCpu} : context'[t] = context[t],
           Role(onCpu, Cur'), MadeByTick(Cur) => MadeByTick(Cur')
    PROVE  StackShape'
<1>1. Cur' = context'[onCpu] /\ Cur = context[onCpu]
  BY DEF Cur
<1>2. ASSUME NEW t \in Task
      PROVE  /\ Role(t, context'[t])
             /\ frames'[t] # << >> => MadeByTick(context'[t])
             /\ \A i \in 1 .. Len(frames'[t]) :
                  /\ Role(t, frames'[t][i])
                  /\ i > 1 => MadeByTick(frames'[t][i])
  <2>1. CASE t = onCpu
    BY <1>1, <2>1 DEF StackShape, Role, MadeByTick
  <2>2. CASE t # onCpu
    BY <2>2 DEF StackShape, Role, MadeByTick
  <2> QED BY <2>1, <2>2
<1> QED BY <1>2 DEF StackShape, Role, MadeByTick

\* The actions that only move the running activation.
PlainStep == QuietStep \/ SwitchTo \/ SetPageGlobalDirectory \/ NumberTask \/ PublishTask

LEMMA PlainStacks ==
    ASSUME IInv, PlainStep
    PROVE  /\ onCpu' = onCpu /\ frames' = frames
           /\ \A t \in Task \ {onCpu} : context'[t] = context[t]
<1>1. PICK c : Continue(c)
  BY DEF PlainStep, QuietStep, UserStep, Goto,
         PreemptDisableLoad, PreemptDisableStore, PreemptEnableLoad, PreemptEnableStore,
         Schedule, ScanSlot, TakeSlot, NextSlot, ResetSlot, SwitchToSame, AllocateTask, AllocateTaskFails,
         CopyMemory, FlagZombie, CreateKernelProcess, MoveToUserMode, MoveToUserModeSetPGD,
         DisableIrq, ReturnToUser, SystemCallFork, SystemCallExit, DataAbortError, UnknownException,
         SwitchTo, SetPageGlobalDirectory, NumberTask, PublishTask
<1> QED BY <1>1, ContinueLands

LEMMA PlainRoles ==
    ASSUME IInv, StackShape, PlainStep
    PROVE  Role(onCpu, Cur') /\ (MadeByTick(Cur) => MadeByTick(Cur'))
<1>1. Role(onCpu, Cur) /\ WellFormed(Cur)
  BY CurFacts DEF StackShape, Cur
<1>2. CASE SameCall(Cur') /\ Cur'.at # "none"
  BY <1>1, <1>2 DEF SameCall, Role, MadeByTick
<1>3. CASE PreemptEnableStore
  <2>1. Cur.at = "enableStore"
    BY <1>3 DEF PreemptEnableStore
  <2> QED BY <1>1, <1>3, <2>1, GuardLands DEF Role, MadeByTick, WellFormed
<1>4. CASE Schedule
  BY <1>1, <1>4, ScheduleLands DEF Role, MadeByTick
<1>5. CASE CreateKernelProcess \/ MoveToUserMode \/ MoveToUserModeSetPGD \/ UserStep
  <2>1. CASE CreateKernelProcess
    BY <1>1, <2>1, UserLands DEF Role, MadeByTick
  <2>2. CASE MoveToUserMode /\ ~SameCall(Cur')
    BY <1>1, <2>2, UserLands DEF Role, MadeByTick
  <2>3. CASE MoveToUserMode /\ SameCall(Cur')
    BY <1>2, <2>3, UserLands DEF MadeByTick
  <2>4. CASE MoveToUserModeSetPGD
    BY <1>1, <2>4, UserLands DEF Role, MadeByTick
  <2>5. CASE SystemCallFork \/ SystemCallExit
    BY <1>1, <2>5, UserLands DEF Role, MadeByTick
  <2>6. CASE DataAbortError \/ UnknownException
    BY <1>2, <2>6, UserLands
  <2> QED BY <1>5, <2>1, <2>2, <2>3, <2>4, <2>5, <2>6 DEF UserStep
<1>6. CASE ~(PreemptEnableStore \/ Schedule \/ CreateKernelProcess \/ MoveToUserMode
             \/ MoveToUserModeSetPGD \/ UserStep)
  <2>1. SameCall(Cur') /\ Cur'.at # "none"
    BY <1>6, GuardLands, ScheduleLands, CopyLands, UserLands DEF PlainStep, QuietStep
  <2> QED BY <1>2, <2>1
<1> QED BY <1>3, <1>4, <1>5, <1>6

\* Every step is one of these.
LEMMA StepKinds ==
    ASSUME [Next]_vars
    PROVE  \/ UNCHANGED vars \/ TickReturns
           \/ PlainStep
           \/ SetupTask \/ cpu_switch_to \/ ReturnFromTick \/ TickPreempts
  BY DEF Next, KernelStep, Tick, PlainStep, QuietStep

LEMMA ShapeInductive ==
    ASSUME IInv, StackShape, [Next]_vars
    PROVE  StackShape'
<1> USE SchedulerAssumption
<1>0. /\ onCpu \in Task /\ Cur = context[onCpu] /\ Role(onCpu, Cur) /\ Cur.at # "none"
      /\ context \in [Task -> Activation] /\ frames \in [Task -> Seq(Activation)]
  BY CurFacts DEF StackShape, Cur, IInv, TypeOK
<1>1. CASE UNCHANGED vars \/ TickReturns
  <2>1. UNCHANGED << onCpu, context, frames >>
    BY <1>1 DEF vars, TickReturns
  <2> QED BY <2>1 DEF StackShape, Role, MadeByTick
<1>2. CASE PlainStep
  BY <1>2, PlainStacks, PlainRoles, ShapeKept
<1>3. CASE SetupTask
  <2> DEFINE new == Cur.task
  <2>1. /\ onCpu' = onCpu /\ frames' = frames /\ context'[onCpu] = Cur'
        /\ Cur'.at = "number" /\ SameCall(Cur')
        /\ new \in Task \ {onCpu} /\ ~Created(new)
        /\ context'[new].at = "enableLoad" /\ context'[new].fn = "fork"
        /\ context'[new].caller \in {"kproc", "user"}
        /\ \A t \in Task \ {onCpu, new} : context'[t] = context[t]
    BY <1>3, SetupLands DEF Cur
  <2>2. new # InitTask /\ frames[new] = << >>
    BY <2>1 DEF StackShape, Role, Created
  <2>3. Role(onCpu, Cur') /\ (MadeByTick(Cur) => MadeByTick(Cur'))
    BY <1>0, <2>1 DEF SameCall, Role, MadeByTick
  <2>4. Role(new, context'[new])
    BY <2>1, <2>2 DEF Role, MadeByTick
  <2>5. ASSUME NEW t \in Task
        PROVE  /\ Role(t, context'[t])
               /\ frames'[t] # << >> => MadeByTick(context'[t])
               /\ \A i \in 1 .. Len(frames'[t]) :
                    /\ Role(t, frames'[t][i])
                    /\ i > 1 => MadeByTick(frames'[t][i])
    <3>1. CASE t = onCpu
      BY <1>0, <2>1, <2>3, <3>1 DEF StackShape, Role, MadeByTick
    <3>2. CASE t = new
      BY <2>1, <2>2, <2>4, <3>2 DEF StackShape, Role, MadeByTick
    <3>3. CASE t \notin {onCpu, new}
      BY <2>1, <3>3 DEF StackShape, Role, MadeByTick
    <3> QED BY <3>1, <3>2, <3>3
  <2> QED BY <2>5 DEF StackShape, Role, MadeByTick
<1>4. CASE cpu_switch_to
  <2>1. /\ frames' = frames /\ Cur.fn = "schedule"
        /\ context'[onCpu] = At("schedule", "enableLoad", Cur.caller)
        /\ \A t \in Task \ {onCpu} : context'[t] = context[t]
    BY <1>4, SwitchLands
  <2>2. Role(onCpu, context'[onCpu]) /\ (MadeByTick(Cur) => MadeByTick(context'[onCpu]))
    BY <1>0, <2>1 DEF At, Role, MadeByTick
  <2>3. ASSUME NEW t \in Task
        PROVE  /\ Role(t, context'[t])
               /\ frames'[t] # << >> => MadeByTick(context'[t])
               /\ \A i \in 1 .. Len(frames'[t]) :
                    /\ Role(t, frames'[t][i])
                    /\ i > 1 => MadeByTick(frames'[t][i])
    <3>1. CASE t = onCpu
      BY <1>0, <2>1, <2>2, <3>1 DEF StackShape, Role, MadeByTick
    <3>2. CASE t # onCpu
      BY <2>1, <3>2 DEF StackShape, Role, MadeByTick
    <3> QED BY <3>1, <3>2
  <2> QED BY <2>3 DEF StackShape, Role, MadeByTick
<1>5. CASE ReturnFromTick
  <2> DEFINE n == Len(frames[onCpu])
  <2>1. /\ n \in Nat \ {0} /\ onCpu' = onCpu
        /\ context'[onCpu] = frames[onCpu][n] /\ Interruptible(context'[onCpu])
        /\ Len(frames'[onCpu]) = n - 1
        /\ \A i \in 1 .. n - 1 : frames'[onCpu][i] = frames[onCpu][i]
        /\ \A t \in Task \ {onCpu} : context'[t] = context[t] /\ frames'[t] = frames[t]
    BY <1>5, ReturnLands DEF Cur
  <2>2. Role(onCpu, context'[onCpu]) /\ (n > 1 => MadeByTick(context'[onCpu]))
    BY <1>0, <2>1 DEF StackShape, Role, MadeByTick
  <2>3. frames'[onCpu] # << >> => n > 1
    BY <2>1
  <2>4. \A i \in 1 .. n - 1 : Role(onCpu, frames'[onCpu][i]) /\ (i > 1 => MadeByTick(frames'[onCpu][i]))
    <3> SUFFICES ASSUME NEW i \in 1 .. n - 1
                 PROVE  Role(onCpu, frames[onCpu][i]) /\ (i > 1 => MadeByTick(frames[onCpu][i]))
      BY <2>1
    <3>1. i \in 1 .. Len(frames[onCpu])
      BY <2>1
    <3> QED BY <1>0, <3>1 DEF StackShape
  <2>5. ASSUME NEW t \in Task
        PROVE  /\ Role(t, context'[t])
               /\ frames'[t] # << >> => MadeByTick(context'[t])
               /\ \A i \in 1 .. Len(frames'[t]) :
                    /\ Role(t, frames'[t][i])
                    /\ i > 1 => MadeByTick(frames'[t][i])
    <3>1. CASE t = onCpu
      BY <2>1, <2>2, <2>3, <2>4, <3>1
    <3>2. CASE t # onCpu
      BY <2>1, <3>2 DEF StackShape, Role, MadeByTick
    <3> QED BY <3>1, <3>2
  <2> QED BY <2>5 DEF StackShape, Role, MadeByTick
<1>6. CASE TickPreempts
  <2> DEFINE s == frames[onCpu]
  <2>1. /\ context'[onCpu] = Cur' /\ onCpu' = onCpu
        /\ Cur'.at = "disableLoad" /\ Cur'.fn = "schedule" /\ Cur'.caller = "tick"
        /\ frames'[onCpu] = Append(s, Cur)
        /\ \A t \in Task \ {onCpu} : context'[t] = context[t] /\ frames'[t] = frames[t]
    BY <1>6, TickLands DEF Cur
  <2>2. Role(onCpu, Cur') /\ MadeByTick(Cur')
    BY <2>1 DEF Role, MadeByTick
  <2>3. /\ s \in Seq(Activation) /\ Len(frames'[onCpu]) = Len(s) + 1
        /\ \A i \in 1 .. Len(s) : frames'[onCpu][i] = s[i]
        /\ frames'[onCpu][Len(s) + 1] = Cur
    BY <1>0, <2>1, CurFacts
  <2>4. ASSUME NEW i \in 1 .. Len(s) + 1
        PROVE  Role(onCpu, frames'[onCpu][i]) /\ (i > 1 => MadeByTick(frames'[onCpu][i]))
    <3>1. CASE i <= Len(s)
      BY <1>0, <2>3, <3>1 DEF StackShape
    <3>2. CASE i = Len(s) + 1
      <4>1. i > 1 => s # << >>
        BY <2>3, <3>2
      <4> QED BY <1>0, <2>3, <3>2, <4>1 DEF StackShape
    <3> QED BY <2>3, <3>1, <3>2
  <2>5. ASSUME NEW t \in Task
        PROVE  /\ Role(t, context'[t])
               /\ frames'[t] # << >> => MadeByTick(context'[t])
               /\ \A i \in 1 .. Len(frames'[t]) :
                    /\ Role(t, frames'[t][i])
                    /\ i > 1 => MadeByTick(frames'[t][i])
    <3>1. CASE t = onCpu
      BY <2>1, <2>2, <2>3, <2>4, <3>1
    <3>2. CASE t # onCpu
      BY <2>1, <3>2 DEF StackShape, Role, MadeByTick
    <3> QED BY <3>1, <3>2
  <2> QED BY <2>5 DEF StackShape, Role, MadeByTick
<1> QED BY <1>1, <1>2, <1>3, <1>4, <1>5, <1>6, StepKinds

-----------------------------------------------------------------------------
(***************************************************************************)
(* The page tables that the MMU uses.                                      *)
(***************************************************************************)
\* A task that has new page tables and has not loaded them, or was interrupted
\* before it did.
Loading(t) ==
    \/ context[t].at = "loadpgd"
    \/ \E i \in 1 .. Len(frames[t]) : frames[t][i].at = "loadpgd"

TablesLoaded ==
    /\ Cur.at # "cpu" => ttbr0 = PGD[onCpu] \/ Loading(onCpu)
    /\ Cur.at = "cpu" => ttbr0 = PGD[Cur.task]

\* The actions of PlainStep that change neither page tables nor ttbr0.
NoTableStep ==
    PlainStep /\ ~(CopyMemory \/ MoveToUserMode \/ MoveToUserModeSetPGD \/ SetPageGlobalDirectory)

LEMMA NoTablePlaces ==
    ASSUME IInv, NoTableStep
    PROVE  UNCHANGED << PGD, ttbr0 >> /\ Cur.at \notin {"cpu", "loadpgd"} /\ Cur'.at # "cpu"
<1>1. UNCHANGED << PGD, ttbr0 >> /\ Cur.at \notin {"cpu", "loadpgd"}
  BY DEF NoTableStep, PlainStep, QuietStep, UserStep, InUserMode,
         PreemptDisableLoad, PreemptDisableStore, PreemptEnableLoad, PreemptEnableStore,
         Schedule, ScanSlot, TakeSlot, NextSlot, ResetSlot, SwitchToSame, SwitchTo, AllocateTask, AllocateTaskFails,
         NumberTask, PublishTask, FlagZombie, CreateKernelProcess,
         DisableIrq, ReturnToUser, SystemCallFork, SystemCallExit, DataAbortError, UnknownException
<1>2. Cur'.at # "cpu"
  BY GuardLands, ScheduleLands, CopyLands, UserLands DEF NoTableStep, PlainStep, QuietStep, UserStep
<1> QED BY <1>1, <1>2

LEMMA TablesInductive ==
    ASSUME IInv, TablesLoaded, [Next]_vars
    PROVE  TablesLoaded'
<1>0. /\ onCpu \in Task /\ Cur = context[onCpu] /\ PGD \in [Task -> Task \union {NoTask}]
      /\ context \in [Task -> Activation] /\ frames \in [Task -> Seq(Activation)]
  BY DEF Cur, IInv, TypeOK
<1>1. CASE UNCHANGED vars \/ TickReturns
  <2>1. UNCHANGED << onCpu, context, frames, ttbr0, PGD >>
    BY <1>1 DEF vars, TickReturns
  <2> QED BY <2>1 DEF TablesLoaded, Loading, Cur
<1>2. CASE NoTableStep
  <2>1. onCpu' = onCpu /\ frames' = frames /\ Cur' = context'[onCpu]
    BY <1>2, PlainStacks DEF NoTableStep, Cur
  <2> QED BY <1>0, <1>2, <2>1, NoTablePlaces DEF TablesLoaded, Loading
<1>3. CASE CopyMemory
  <2>1. /\ onCpu' = onCpu /\ frames' = frames /\ Cur' = context'[onCpu] /\ Cur'.at = "setup"
        /\ Cur.at = "memory" /\ ttbr0' = ttbr0
    BY <1>3, PlainStacks, CopyLands DEF PlainStep, QuietStep, Cur, CopyMemory
  <2>2. Cur.task # onCpu
    BY <2>1 DEF IInv, TableOK, OwnerOK
  <2>3. PGD'[onCpu] = PGD[onCpu]
    BY <1>0, <1>3, <2>2 DEF CopyMemory
  <2> QED BY <1>0, <2>1, <2>3 DEF TablesLoaded, Loading
<1>4. CASE MoveToUserMode
  <2>1. /\ onCpu' = onCpu /\ frames' = frames /\ Cur' = context'[onCpu] /\ ttbr0' = ttbr0
        /\ Cur.at = "run" /\ Cur'.at \in {"loadpgd", "mask"} /\ (Cur'.at = "mask" => PGD' = PGD)
    BY <1>4, PlainStacks, UserLands DEF PlainStep, QuietStep, Cur, MoveToUserMode
  <2> QED BY <1>0, <2>1 DEF TablesLoaded, Loading
<1>5. CASE MoveToUserModeSetPGD
  <2>1. onCpu' = onCpu /\ PGD' = PGD /\ ttbr0' = PGD[onCpu] /\ Cur'.at = "mask"
    BY <1>5, PlainStacks, UserLands DEF PlainStep, QuietStep, MoveToUserModeSetPGD
  <2> QED BY <2>1 DEF TablesLoaded
<1>6. CASE SetPageGlobalDirectory
  <2>1. /\ Cur.at = "setpgd" /\ Cur'.at = "cpu" /\ Cur'.task = Cur.task /\ PGD' = PGD
        /\ ttbr0' = PGD[pCurrentTask]
    BY <1>6, ScheduleLands DEF SetPageGlobalDirectory, NextPageGlobalDirectory
  <2>2. pCurrentTask = Cur.task
    BY <2>1 DEF IInv, OwnerOK
  <2> QED BY <2>1, <2>2 DEF TablesLoaded
<1>7. CASE SetupTask
  <2>1. /\ onCpu' = onCpu /\ frames' = frames /\ Cur' = context'[onCpu]
        /\ Cur.at = "setup" /\ Cur'.at = "number" /\ PGD' = PGD /\ ttbr0' = ttbr0
    BY <1>7, SetupLands DEF Cur, SetupTask
  <2> QED BY <1>0, <2>1 DEF TablesLoaded, Loading
<1>8. CASE cpu_switch_to
  <2>1. onCpu' = Cur.task /\ Cur'.at = "enableLoad" /\ Cur.at = "cpu" /\ PGD' = PGD /\ ttbr0' = ttbr0
    BY <1>8, SwitchLands DEF cpu_switch_to
  <2> QED BY <2>1 DEF TablesLoaded
<1>9. CASE ReturnFromTick
  <2> DEFINE n == Len(frames[onCpu])
  <2>1. /\ n \in Nat \ {0} /\ onCpu' = onCpu /\ Cur.at = "eret" /\ PGD' = PGD /\ ttbr0' = ttbr0
        /\ Cur' = context'[onCpu] /\ Cur' = frames[onCpu][n] /\ Interruptible(Cur')
        /\ Len(frames'[onCpu]) = n - 1
        /\ \A i \in 1 .. n - 1 : frames'[onCpu][i] = frames[onCpu][i]
    BY <1>9, ReturnLands DEF ReturnFromTick, Cur
  <2>2. Cur'.at # "cpu"
    BY <2>1 DEF Interruptible, GuardHeld
  <2>3. Loading(onCpu) => Loading(onCpu)'
    <3> SUFFICES ASSUME NEW i \in 1 .. n, frames[onCpu][i].at = "loadpgd"
                 PROVE  \/ context'[onCpu].at = "loadpgd"
                        \/ \E j \in 1 .. n - 1 : frames'[onCpu][j].at = "loadpgd"
      BY <1>0, <2>1 DEF Loading
    <3>1. CASE i = n
      BY <2>1, <3>1
    <3>2. CASE i # n
      <4>1. i \in 1 .. n - 1
        BY <2>1, <3>2
      <4> QED BY <2>1, <4>1
    <3> QED BY <3>1, <3>2
  <2> QED BY <2>1, <2>2, <2>3 DEF TablesLoaded, Loading
<1>10. CASE TickPreempts
  <2> DEFINE s == frames[onCpu]
  <2>1. /\ onCpu' = onCpu /\ PGD' = PGD /\ ttbr0' = ttbr0
        /\ Cur'.at = "disableLoad" /\ frames'[onCpu] = Append(s, Cur) /\ s \in Seq(Activation)
    BY <1>0, <1>10, TickLands DEF TickPreempts
  <2>2. Cur.at # "cpu"
    BY <1>10, TickOutsideGuard DEF GuardHeld
  <2>3. Loading(onCpu) => Loading(onCpu)'
    <3>1. /\ Len(frames'[onCpu]) = Len(s) + 1 /\ frames'[onCpu][Len(s) + 1] = Cur
          /\ \A i \in 1 .. Len(s) : frames'[onCpu][i] = s[i] /\ i \in 1 .. Len(s) + 1
          /\ Len(s) + 1 \in 1 .. Len(s) + 1
      BY <2>1, CurFacts
    <3>2. CASE Cur.at = "loadpgd"
      BY <2>1, <3>1, <3>2 DEF Loading
    <3>3. CASE Cur.at # "loadpgd"
      BY <1>0, <2>1, <3>1, <3>3 DEF Loading
    <3> QED BY <3>2, <3>3
  <2> QED BY <2>1, <2>2, <2>3 DEF TablesLoaded, Loading
<1> QED
  BY <1>1, <1>2, <1>3, <1>4, <1>5, <1>6, <1>7, <1>8, <1>9, <1>10, StepKinds DEF NoTableStep
-----------------------------------------------------------------------------
(***************************************************************************)
(* The counters.                                                           *)
(***************************************************************************)
\* ScheduleImpl's local is the largest counter of the slots it has looked at, a
\* counter about to be taken is above it unless a tick came since the comparison, and
\* when it starts to reset, none that can run is above zero.
CountersOK ==
    /\ RunningCounterBounded
    /\ Cur.at \in {"scan", "take"} => \A j \in Slot :
         j < Cur.curTask /\ TaskAlive(Tasks[j]) => Counter[Tasks[j]] <= Cur.largestCounter
    /\ Cur.at = "take" =>
         /\ Counter[Tasks[Cur.curTask]] >= Cur.largestCounter
         /\ Counter[pCurrentTask] = Cur.reg =>
               Counter[Tasks[Cur.curTask]] > Cur.largestCounter
    /\ Cur.at = "reset" => \A j \in Slot :
         j >= Cur.curTask /\ TaskAlive(Tasks[j]) => Counter[Tasks[j]] <= 0

\* Outside the two loops only the bound is left, and most steps keep it.
LEMMA BoundKept ==
    ASSUME IInv, CountersOK,
           \A t \in Task : State'[t] = "Running" =>
              State[t] = "Running" /\ (Counter'[t] <= Counter[t] \/ Counter'[t] <= Priority),
           Counter' \in [Task -> Int],
           Cur'.at \notin {"reset", "take"}, Cur'.at = "scan" => Cur'.curTask = 0
    PROVE  CountersOK'
<1> USE SchedulerAssumption
<1>1. ASSUME NEW t \in Task, State'[t] = "Running" PROVE Counter'[t] <= Priority
  <2>1. Counter[t] \in Int /\ Counter'[t] \in Int /\ Counter[t] <= Priority
    BY <1>1 DEF IInv, TypeOK, CountersOK, RunningCounterBounded
  <2>2. Counter'[t] <= Counter[t] \/ Counter'[t] <= Priority
    BY <1>1
  <2> QED BY <2>1, <2>2
<1>2. ASSUME Cur'.at = "scan", NEW j \in Slot, j < Cur'.curTask PROVE FALSE
  BY <1>2 DEF Slot
<1> QED BY <1>1, <1>2 DEF CountersOK, RunningCounterBounded

\* The actions that change neither a counter nor a state.
SameCounters ==
    \/ PreemptDisableLoad \/ PreemptDisableStore \/ PreemptEnableLoad \/ PreemptEnableStore
    \/ SwitchToSame \/ SwitchTo \/ SetPageGlobalDirectory \/ cpu_switch_to
    \/ AllocateTask \/ AllocateTaskFails \/ CopyMemory \/ NumberTask \/ PublishTask
    \/ CreateKernelProcess \/ MoveToUserMode \/ MoveToUserModeSetPGD
    \/ DisableIrq \/ ReturnToUser \/ ReturnFromTick \/ UserStep

LEMMA SameCountersPlaces ==
    ASSUME IInv, SameCounters
    PROVE  /\ UNCHANGED << Counter, State >>
           /\ Cur'.at \notin {"reset", "take"} /\ (Cur'.at = "scan" => Cur'.curTask = 0)
<1>1. UNCHANGED << Counter, State >>
  BY DEF SameCounters, UserStep,
         PreemptDisableLoad, PreemptDisableStore, PreemptEnableLoad, PreemptEnableStore,
         SwitchToSame, SwitchTo, SetPageGlobalDirectory, cpu_switch_to,
         AllocateTask, AllocateTaskFails, CopyMemory, NumberTask, PublishTask,
         CreateKernelProcess, MoveToUserMode, MoveToUserModeSetPGD,
         DisableIrq, ReturnToUser, ReturnFromTick,
         SystemCallFork, SystemCallExit, DataAbortError, UnknownException
<1>2. ASSUME ReturnFromTick PROVE Cur'.at \notin {"scan", "take", "reset"}
  BY <1>2, ReturnLands DEF Interruptible, GuardHeld
<1>3. ASSUME cpu_switch_to PROVE Cur'.at \notin {"scan", "take", "reset"}
  BY <1>3, SwitchLands
<1>4. Cur'.at \notin {"reset", "take"} /\ (Cur'.at = "scan" => Cur'.curTask = 0)
  BY <1>2, <1>3, GuardLands, ScheduleLands, CopyLands, UserLands DEF SameCounters, UserStep
<1> QED BY <1>1, <1>4

\* The end of an iteration of ScheduleImpl's first loop.
LEMMA SlotDoneCounters ==
    ASSUME IInv, CountersOK, Cur.at \in {"scan", "take"}, NEW b \in Activation, NextSlot(b),
           b.fn = Cur.fn, b.caller = Cur.caller, b.curTask = Cur.curTask,
           \A j \in Slot : j <= b.curTask /\ TaskAlive(Tasks[j]) =>
              Counter[Tasks[j]] <= b.largestCounter,
           UNCHANGED << Tasks, State, Counter >>
    PROVE  CountersOK'
<1> USE SchedulerAssumption
<1> DEFINE k == b.curTask
<1>0. /\ Counter \in [Task -> Int] /\ Tasks \in [Slot -> Task \union {NoTask}]
      /\ k \in Slot /\ b.largestCounter \in Int
      /\ UNCHANGED << Tasks, State, Counter >>
  BY CurFacts DEF IInv, TypeOK, Activation, WellFormed
<1>1. \A j \in Slot : j <= k /\ TaskAlive(Tasks[j]) => Counter[Tasks[j]] <= b.largestCounter
  OBVIOUS
<1>2. \/ Cur' = Index(b, "scan", k + 1)
      \/ Cur' = Pick(At("schedule", "switch", b.caller), -1, b.taskToResume)
      \/ LastSlot(k) /\ ~FoundTask(b.largestCounter) /\ Cur' = At("schedule", "reset", b.caller)
  BY ContinueLands DEF NextSlot
<1>3. RunningCounterBounded'
  BY <1>0 DEF CountersOK, RunningCounterBounded
<1>4. CASE Cur' = Index(b, "scan", k + 1)
  <2>1. Cur'.at = "scan" /\ Cur'.curTask = k + 1 /\ Cur'.largestCounter = b.largestCounter
    BY <1>0, <1>4 DEF Index, Activation
  <2>2. \A j \in Slot : j < k + 1 => j <= k
    BY <1>0 DEF Slot
  <2> QED BY <1>0, <1>1, <1>3, <2>1, <2>2 DEF CountersOK, TaskAlive
<1>5. CASE Cur' = Pick(At("schedule", "switch", b.caller), -1, b.taskToResume)
  <2>1. Cur'.at = "switch"
    BY <1>5 DEF Pick, At
  <2> QED BY <1>3, <2>1 DEF CountersOK
<1>6. CASE LastSlot(k) /\ ~FoundTask(b.largestCounter) /\ Cur' = At("schedule", "reset", b.caller)
  <2>1. Cur'.at = "reset" /\ b.largestCounter <= 0 /\ \A j \in Slot : j <= k
    BY <1>0, <1>6 DEF At, FoundTask, LastSlot, Slot
  <2>2. \A j \in Slot : TaskAlive(Tasks[j]) => Counter[Tasks[j]] \in Int
    BY <1>0 DEF TaskAlive
  <2>3. \A j \in Slot : TaskAlive(Tasks[j]) => Counter[Tasks[j]] <= 0
    BY <1>0, <1>1, <2>1, <2>2
  <2> QED BY <1>0, <1>3, <2>1, <2>3 DEF CountersOK, TaskAlive
<1> QED BY <1>2, <1>4, <1>5, <1>6

\* ScheduleImpl's first loop compares, and goes on to read the counter again or to
\* the next slot.
LEMMA ScanCounters ==
    ASSUME IInv, CountersOK, ScanSlot
    PROVE  CountersOK'
<1> USE SchedulerAssumption
<1> DEFINE k == Cur.curTask
<1>0. /\ Counter \in [Task -> Int] /\ Tasks \in [Slot -> Task \union {NoTask}]
      /\ Cur \in Activation /\ Cur.at = "scan" /\ k \in Slot /\ Cur.largestCounter \in Int
      /\ UNCHANGED << Tasks, State, Counter >>
  BY CurFacts DEF IInv, TypeOK, ScanSlot, Activation
<1>1. \A j \in Slot : TaskAlive(Tasks[j]) => Tasks[j] \in Task /\ Counter[Tasks[j]] \in Int
  BY <1>0 DEF TaskAlive
<1>2. \A j \in Slot : j < k /\ TaskAlive(Tasks[j]) => Counter[Tasks[j]] <= Cur.largestCounter
  BY <1>0 DEF CountersOK
<1>3. CASE Eligible(Tasks[k], Cur.largestCounter)
  <2> DEFINE c == Load(Cur, "take", Counter[pCurrentTask])
  <2>1. Cur' = c
    BY <1>3, ContinueLands DEF ScanSlot
  <2>2. TaskAlive(Tasks[k]) /\ Counter[Tasks[k]] > Cur.largestCounter
    BY <1>3 DEF Eligible
  <2>3. c.at = "take" /\ c.curTask = k /\ c.largestCounter = Cur.largestCounter
    BY <1>0 DEF Load, Activation
  <2> HIDE DEF c
  <2>4. Counter[Tasks[k]] >= Cur.largestCounter
    BY <1>0, <1>1, <2>2
  <2>5. RunningCounterBounded'
    BY <1>0 DEF CountersOK, RunningCounterBounded
  <2> QED BY <1>0, <1>2, <2>1, <2>2, <2>3, <2>4, <2>5 DEF CountersOK, TaskAlive
<1>4. CASE ~Eligible(Tasks[k], Cur.largestCounter)
  <2>1. NextSlot(Cur)
    BY <1>4 DEF ScanSlot
  <2>2. TaskAlive(Tasks[k]) => Counter[Tasks[k]] <= Cur.largestCounter
    BY <1>0, <1>1, <1>4 DEF Eligible
  <2>3. \A j \in Slot : j <= k => j < k \/ j = k
    BY <1>0 DEF Slot
  <2>4. \A j \in Slot : j <= k /\ TaskAlive(Tasks[j]) => Counter[Tasks[j]] <= Cur.largestCounter
    BY <1>2, <2>2, <2>3
  <2> QED BY <1>0, <2>1, <2>4, SlotDoneCounters
<1> QED BY <1>3, <1>4

\* The counter read again is at least the largest so far.
LEMMA TakeCounters ==
    ASSUME IInv, CountersOK, TakeSlot
    PROVE  CountersOK'
<1> USE SchedulerAssumption
<1> DEFINE k == Cur.curTask
           l == Load(Cur, "scan", 0)
           b == Pick(l, Counter[Tasks[k]], k)
<1>0. /\ Counter \in [Task -> Int] /\ Tasks \in [Slot -> Task \union {NoTask}]
      /\ Cur \in Activation /\ Cur.at = "take" /\ k \in Slot /\ Cur.largestCounter \in Int
      /\ UNCHANGED << Tasks, State, Counter >>
  BY CurFacts DEF IInv, TypeOK, TakeSlot, Activation, WellFormed
<1>1. \A j \in Slot : TaskAlive(Tasks[j]) => Tasks[j] \in Task /\ Counter[Tasks[j]] \in Int
  BY <1>0 DEF TaskAlive
<1>2. TaskAlive(Tasks[k]) /\ Counter[Tasks[k]] >= Cur.largestCounter
  BY <1>0 DEF CountersOK, IInv, TableOK
<1>3. NextSlot(b)
  BY DEF TakeSlot
<1>4. l \in Activation /\ l.fn = Cur.fn /\ l.caller = Cur.caller /\ l.curTask = k
  <2>1. "scan" \in Place /\ 0 \in Int
    BY Names
  <2> QED BY <1>0, <2>1, LoadFields
<1> HIDE DEF l
<1>5. /\ b \in Activation /\ b.fn = Cur.fn /\ b.caller = Cur.caller /\ b.curTask = k
      /\ b.largestCounter = Counter[Tasks[k]]
  <2>1. Counter[Tasks[k]] \in Int
    BY <1>0, <1>1, <1>2
  <2>2. /\ b \in Activation /\ b.fn = l.fn /\ b.caller = l.caller /\ b.curTask = l.curTask
        /\ b.largestCounter = Counter[Tasks[k]]
    BY <1>0, <1>4, <2>1, PickFields
  <2> QED BY <1>4, <2>2
<1> HIDE DEF b
<1>6. ASSUME NEW j \in Slot, j <= k, TaskAlive(Tasks[j]) PROVE Counter[Tasks[j]] <= b.largestCounter
  <2>1. CASE j < k
    <3>1. Counter[Tasks[j]] <= Cur.largestCounter
      BY <1>0, <1>6, <2>1 DEF CountersOK
    <3> QED BY <1>0, <1>1, <1>2, <1>5, <1>6, <3>1
  <2>2. CASE j = k
    BY <1>1, <1>5, <1>6, <2>2
  <2>3. j < k \/ j = k
    BY <1>0, <1>6 DEF Slot
  <2> QED BY <2>1, <2>2, <2>3
<1> QED BY <1>0, <1>3, <1>5, <1>6, SlotDoneCounters

\* Its second loop: a counter is reset once, from zero or below.
LEMMA ResetCounters ==
    ASSUME IInv, TableFilled, CountersOK, ResetSlot
    PROVE  CountersOK'
<1> USE SchedulerAssumption
<1> DEFINE k == Cur.curTask
           r == Tasks[k]
<1>0. /\ Counter \in [Task -> Int] /\ Tasks \in [Slot -> Task \union {NoTask}]
      /\ Cur \in Activation /\ Cur.at = "reset" /\ k \in Slot
      /\ UNCHANGED << Tasks, State >>
  BY CurFacts DEF IInv, TypeOK, ResetSlot
<1>1. Counter' = IF r = NoTask THEN Counter ELSE [Counter EXCEPT ![r] = CounterAfterReset(Counter[r])]
  BY DEF ResetSlot
<1>2. \A t \in Task : t # r => Counter'[t] = Counter[t]
  BY <1>0, <1>1
<1>3. ASSUME TaskAlive(r) PROVE Counter'[r] <= Priority
  <2>1. r \in Task /\ r # NoTask /\ Counter[r] \in Int /\ Counter[r] <= 0
    <3>1. r # NoTask /\ Counter[r] <= 0
      BY <1>0, <1>3 DEF CountersOK, TaskAlive, Slot
    <3> QED BY <1>0, <3>1
  <2>2. Counter'[r] = CounterAfterReset(Counter[r])
    BY <1>0, <1>1, <2>1
  <2> HIDE DEF r
  <2> QED BY <2>1, <2>2 DEF CounterAfterReset
<1>4. RunningCounterBounded'
  <2> SUFFICES ASSUME NEW t \in Task, State[t] = "Running" PROVE Counter'[t] <= Priority
    BY <1>0 DEF RunningCounterBounded
  <2>1. CASE t = r
    BY <1>3, <2>1 DEF TaskAlive
  <2>2. CASE t # r
    BY <1>2, <2>2 DEF CountersOK, RunningCounterBounded
  <2> QED BY <2>1, <2>2
<1>5. \/ Cur' = At("schedule", "scan", Cur.caller)
      \/ Cur' = Index(Cur, "reset", k + 1)
  BY ContinueLands DEF ResetSlot
<1>6. CASE Cur' = At("schedule", "scan", Cur.caller)
  <2>1. Cur'.at = "scan" /\ Cur'.curTask = 0
    BY <1>6 DEF At
  <2>2. \A j \in Slot : ~(j < 0)
    BY DEF Slot
  <2> QED BY <1>4, <2>1, <2>2 DEF CountersOK
<1>7. CASE Cur' = Index(Cur, "reset", k + 1)
  <2>1. Cur'.at = "reset" /\ Cur'.curTask = k + 1
    BY <1>0, <1>7 DEF Index, Activation
  <2>2. ASSUME NEW j \in Slot, j >= k + 1, TaskAlive(Tasks[j]) PROVE Counter'[Tasks[j]] <= 0
    <3>1. j # k /\ j >= k /\ Tasks[j] # NoTask /\ Tasks[j] \in Task
      BY <1>0, <2>2 DEF Slot, TaskAlive
    <3>2. Tasks[j] # r
      BY <1>0, <3>1 DEF TableFilled
    <3> QED BY <1>0, <1>2, <2>2, <3>1, <3>2 DEF CountersOK
  <2> QED BY <1>0, <1>4, <2>1, <2>2 DEF CountersOK, TaskAlive
<1> QED BY <1>5, <1>6, <1>7

LEMMA CountersInductive ==
    ASSUME IInv, TableFilled, CountersOK, [Next]_vars
    PROVE  CountersOK'
<1> USE SchedulerAssumption
<1>0. /\ Counter \in [Task -> Int] /\ Priority \in Int /\ 0 <= Priority
      /\ onCpu \in Task /\ pCurrentTask \in Task
      /\ Tasks \in [Slot -> Task \union {NoTask}]
  BY DEF IInv, TypeOK
<1>1. CASE SameCounters
  BY <1>0, <1>1, SameCountersPlaces, BoundKept
<1>2. CASE UNCHANGED vars
  BY <1>2 DEF vars, CountersOK, RunningCounterBounded, Cur, TaskAlive
<1>3. CASE TickReturns
  <2>1. /\ UNCHANGED << Tasks, State, onCpu, context >>
        /\ Counter' = [Counter EXCEPT ![pCurrentTask] = @ - 1]
    BY <1>3 DEF TickReturns
  <2>2. Cur' = Cur /\ (Cur.largestCounter \in Int)
    BY <2>1, CurFacts DEF Cur, Activation
  <2>3. \A t \in Task : Counter'[t] \in Int /\ Counter[t] \in Int /\ Counter'[t] <= Counter[t]
    BY <1>0, <2>1
  <2>4. \A t : TaskAlive(t)' <=> TaskAlive(t)
    BY <2>1 DEF TaskAlive
  <2>5. RunningCounterBounded'
    BY <1>0, <2>1, <2>3 DEF CountersOK, RunningCounterBounded
  <2>6. ASSUME Cur.at \in {"scan", "take"}, NEW j \in Slot, j < Cur.curTask, TaskAlive(Tasks[j])
        PROVE  Counter'[Tasks[j]] <= Cur.largestCounter
    <3>1. Tasks[j] \in Task /\ Counter[Tasks[j]] <= Cur.largestCounter
      BY <1>0, <2>6 DEF CountersOK, TaskAlive
    <3> QED BY <2>2, <2>3, <3>1
  <2>7. ASSUME Cur.at = "reset", NEW j \in Slot, j >= Cur.curTask, TaskAlive(Tasks[j])
        PROVE  Counter'[Tasks[j]] <= 0
    <3>1. Tasks[j] \in Task /\ Counter[Tasks[j]] <= 0
      BY <1>0, <2>7 DEF CountersOK, TaskAlive
    <3> QED BY <2>3, <3>1
  <2>8. ASSUME Cur.at = "take"
        PROVE  /\ Counter'[Tasks[Cur.curTask]] >= Cur.largestCounter
               /\ Counter'[pCurrentTask] # Cur.reg
    <3>1. Counter[pCurrentTask] = Cur.reg
      BY <1>3, <2>8 DEF TickReturns, TicksOnce
    <3>2. Counter[Tasks[Cur.curTask]] > Cur.largestCounter
      BY <2>8, <3>1 DEF CountersOK
    <3>3. Tasks[Cur.curTask] \in Task
      <4>1. Cur.curTask \in Slot /\ Tasks[Cur.curTask] # NoTask
        BY <2>8, CurFacts DEF IInv, TableOK, TaskAlive
      <4> QED BY <1>0, <4>1
    <3>4. Counter'[Tasks[Cur.curTask]] >= Counter[Tasks[Cur.curTask]] - 1
      BY <1>0, <2>1, <3>3
    <3>5. Counter'[pCurrentTask] = Counter[pCurrentTask] - 1
      BY <1>0, <2>1
    <3> QED BY <1>0, <2>2, <2>3, <3>1, <3>2, <3>3, <3>4, <3>5
  <2>9. pCurrentTask' = pCurrentTask
    BY <1>3 DEF TickReturns
  <2> QED BY <2>1, <2>2, <2>4, <2>5, <2>6, <2>7, <2>8, <2>9 DEF CountersOK, TaskAlive
<1>4. CASE TickPreempts \/ Schedule
  <2>1. Counter' = [Counter EXCEPT ![pCurrentTask] = 0] /\ State' = State
    BY <1>4 DEF TickPreempts, Schedule
  <2>2. Cur'.at = "disableLoad"
    BY <1>4, TickLands, ScheduleLands
  <2> QED BY <1>0, <2>1, <2>2, BoundKept
<1>5. CASE FlagZombie
  <2>1. /\ Counter' = Counter /\ Cur'.at = "enableLoad"
        /\ \A t \in Task : State'[t] = "Running" => State[t] = "Running"
    BY <1>5, CopyLands DEF FlagZombie, IInv, TypeOK
  <2> QED BY <1>0, <2>1, BoundKept
<1>6. CASE SetupTask
  <2>1. Counter' = [Counter EXCEPT ![Cur.task] = Priority] /\ State' = State /\ Cur'.at = "number"
    BY <1>6, SetupLands DEF SetupTask
  <2>2. Counter' \in [Task -> Int] /\ \A t \in Task : Counter'[t] = Counter[t] \/ Counter'[t] = Priority
    BY <1>0, <2>1
  <2>3. \A t \in Task : Counter'[t] <= Counter[t] \/ Counter'[t] <= Priority
    BY <1>0, <2>2
  <2> QED BY <2>1, <2>2, <2>3, BoundKept
<1>7. CASE ScanSlot
  BY <1>7, ScanCounters
<1>8. CASE ResetSlot
  BY <1>8, ResetCounters
<1>9. CASE TakeSlot
  BY <1>9, TakeCounters
<1> QED
  BY <1>1, <1>2, <1>3, <1>4, <1>5, <1>6, <1>7, <1>8, <1>9
     DEF Next, KernelStep, UserStep, Tick, SameCounters

-----------------------------------------------------------------------------
(***************************************************************************)
(* A zombie only goes on to be switched away from.                         *)
(***************************************************************************)
LeavingExit(c) == c.fn = "exit" /\ c.at \in {"enableLoad", "enableStore", "call"}

LeavingSchedule(c) ==
    c.fn = "schedule" /\ c.at \in {"disableLoad", "disableStore", "scan", "take", "reset",
                                   "switch", "setpgd", "cpu"}

ZombieLeaves == State[onCpu] = "Zombie" => LeavingExit(Cur) \/ LeavingSchedule(Cur)

LEMMA ZombieInductive ==
    ASSUME IInv, ZombieLeaves, [Next]_vars
    PROVE  ZombieLeaves'
<1>0. IInv' /\ WellFormed(Cur') /\ onCpu \in Task /\ pCurrentTask \in Task /\ WellFormed(Cur)
  <2>1. IInv'
    BY Inductive
  <2>2. onCpu' \in Task /\ Cur' = context'[onCpu'] /\ StacksOK'
    BY <2>1 DEF IInv, TypeOK, Cur
  <2>3. WellFormed(Cur')
    BY <2>2 DEF StacksOK, WellFormed
  <2> QED BY <2>1, <2>3, CurFacts
<1>1. CASE UNCHANGED vars \/ TickReturns
  BY <1>1 DEF vars, TickReturns, ZombieLeaves, Cur, LeavingExit, LeavingSchedule
<1>2. CASE cpu_switch_to
  <2>1. State' = State /\ State[onCpu'] = "Running"
    BY <1>2, SwitchLands DEF cpu_switch_to
  <2> QED BY <2>1 DEF ZombieLeaves
<1>3. CASE TickPreempts
  BY <1>3, TickLands DEF ZombieLeaves, LeavingSchedule
<1>4. CASE FlagZombie
  <2>1. Cur'.at = "enableLoad" /\ Cur'.fn = "exit"
    BY <1>0, <1>4, CopyLands DEF FlagZombie, SameCall, WellFormed
  <2> QED BY <2>1 DEF ZombieLeaves, LeavingExit
<1>5. CASE \/ PreemptDisableLoad \/ PreemptDisableStore \/ PreemptEnableLoad \/ PreemptEnableStore
           \/ Schedule \/ ScanSlot \/ TakeSlot \/ ResetSlot \/ SwitchTo \/ SetPageGlobalDirectory
  <2>1. State' = State /\ onCpu' = onCpu
    <3>1. PlainStep
      BY <1>5 DEF PlainStep, QuietStep
    <3>2. onCpu' = onCpu
      BY <3>1, PlainStacks
    <3> QED BY <1>5, <3>2
            DEF PreemptDisableLoad, PreemptDisableStore, PreemptEnableLoad, PreemptEnableStore,
                Schedule, ScanSlot, TakeSlot, NextSlot, ResetSlot, SwitchTo, SetPageGlobalDirectory
  <2>2. SUFFICES ASSUME State[onCpu] = "Zombie", LeavingExit(Cur) \/ LeavingSchedule(Cur)
                 PROVE  LeavingExit(Cur') \/ LeavingSchedule(Cur')
    BY <2>1 DEF ZombieLeaves
  <2>3. CASE PreemptDisableLoad
    BY <2>2, <2>3, GuardLands DEF PreemptDisableLoad, SameCall, LeavingExit, LeavingSchedule
  <2>4. CASE PreemptDisableStore
    BY <1>0, <2>2, <2>4, GuardLands
       DEF PreemptDisableStore, SameCall, LeavingExit, LeavingSchedule, WellFormed
  <2>5. CASE PreemptEnableLoad
    BY <2>2, <2>5, GuardLands DEF PreemptEnableLoad, SameCall, LeavingExit, LeavingSchedule
  <2>6. CASE PreemptEnableStore
    BY <2>2, <2>6, GuardLands DEF PreemptEnableStore, LeavingExit, LeavingSchedule
  <2>7. CASE Schedule
    BY <2>7, ScheduleLands DEF LeavingSchedule
  <2>8. CASE ScanSlot \/ TakeSlot \/ ResetSlot \/ SwitchTo \/ SetPageGlobalDirectory
    BY <1>0, <2>8, ScheduleLands
       DEF ScanSlot, TakeSlot, ResetSlot, SwitchTo, SetPageGlobalDirectory, SameCall, LeavingSchedule, WellFormed
  <2> QED BY <1>5, <2>3, <2>4, <2>5, <2>6, <2>7, <2>8
<1>6. CASE SwitchToSame
  <2>1. State' = State /\ onCpu' = onCpu /\ Cur.at = "switch" /\ pCurrentTask = Tasks[Cur.taskToResume]
    BY <1>6 DEF SwitchToSame, Continue
  <2>2. State[onCpu] = "Running"
    BY <2>1, CurFacts DEF IInv, TableOK, TaskAlive
  <2> QED BY <2>1, <2>2 DEF ZombieLeaves
<1>7. CASE \/ AllocateTask \/ AllocateTaskFails \/ CopyMemory \/ SetupTask \/ NumberTask \/ PublishTask
           \/ CreateKernelProcess \/ MoveToUserMode \/ MoveToUserModeSetPGD
           \/ DisableIrq \/ ReturnToUser \/ ReturnFromTick \/ UserStep
  <2>1. ~LeavingExit(Cur) /\ ~LeavingSchedule(Cur)
    BY <1>7 DEF LeavingExit, LeavingSchedule, InUserMode, UserStep,
         AllocateTask, AllocateTaskFails, CopyMemory, SetupTask, NumberTask, PublishTask,
         CreateKernelProcess, MoveToUserMode, MoveToUserModeSetPGD, DisableIrq, ReturnToUser,
         ReturnFromTick, SystemCallFork, SystemCallExit, DataAbortError, UnknownException
  <2>2. State' = State /\ onCpu' = onCpu
    BY <1>7 DEF UserStep, Continue, Goto,
         AllocateTask, AllocateTaskFails, CopyMemory, SetupTask, NumberTask, PublishTask,
         CreateKernelProcess, MoveToUserMode, MoveToUserModeSetPGD, DisableIrq, ReturnToUser,
         ReturnFromTick, SystemCallFork, SystemCallExit, DataAbortError, UnknownException
  <2> QED BY <2>1, <2>2 DEF ZombieLeaves
<1> QED
  BY <1>1, <1>2, <1>3, <1>4, <1>5, <1>6, <1>7 DEF Next, KernelStep, Tick

-----------------------------------------------------------------------------
(***************************************************************************)
(* The theorems.                                                           *)
(***************************************************************************)
SInv == IInv /\ TableFilled /\ StackShape /\ TablesLoaded /\ CountersOK /\ ZombieLeaves

LEMMA SInitial == Init => SInv
<1> SUFFICES ASSUME Init PROVE SInv
  OBVIOUS
<1> USE SchedulerAssumption
<1>1. IInv
  BY Initial
<1> DEFINE run == At("kmain", "run", "none")
           none == At("none", "none", "none")
<1>2. /\ onCpu = InitTask /\ Cur = run
      /\ \A t \in Task : context[t] = IF t = InitTask THEN run ELSE none
      /\ \A t \in Task : frames[t] = << >> /\ State[t] = "Running" /\ Counter[t] = 0
      /\ PGD[InitTask] = NoTask /\ ttbr0 = NoTask /\ NumberOfTasks = 1
      /\ Tasks = [i \in Slot |-> IF i = 0 THEN InitTask ELSE NoTask]
  BY DEF Init, Cur
<1>3. run.fn = "kmain" /\ run.at = "run" /\ run.caller = "none"
      /\ none.fn = "none" /\ none.at = "none" /\ none.caller = "none"
  BY DEF At
<1> HIDE DEF run, none
<1>4. TableFilled
  BY <1>2, <1>3 DEF TableFilled, PublishedCount, Slot
<1>5. StackShape
  BY <1>2, <1>3 DEF StackShape, Role, MadeByTick
<1>6. TablesLoaded
  BY <1>2, <1>3 DEF TablesLoaded
<1>7. CountersOK
  BY <1>2, <1>3 DEF CountersOK, RunningCounterBounded
<1>8. ZombieLeaves
  BY <1>2 DEF ZombieLeaves
<1> QED BY <1>1, <1>4, <1>5, <1>6, <1>7, <1>8 DEF SInv

\* The whole invariant holds in every state the scheduler can reach.
THEOREM SchedulerInvariance == Spec => []SInv
<1>1. SInv /\ [Next]_vars => SInv'
  BY Inductive, TableInductive, ShapeInductive, TablesInductive, CountersInductive, ZombieInductive
     DEF SInv
<1> QED BY <1>1, SInitial, PTL DEF Spec

\* A process ID names one task, and the array of tasks has no gap below the number
\* of tasks created: CopyProcess's increment and its store are under one guard.
THEOREM ProcessIDs == Spec => []ProcessIDsUnique
<1>1. SInv => ProcessIDsUnique
  BY DEF SInv, TableFilled, PublishedCount, ProcessIDsUnique
<1> QED BY <1>1, SchedulerInvariance, PTL

\* CopyProcess never stores beyond the array, however many tasks there are, as
\* long as no more TaskStructs than slots fit in the memory.
THEOREM SlotForNewTask == Spec => []NewTaskHasSlot
<1>1. SInv => NewTaskHasSlot
  <2> SUFFICES ASSUME SInv, Cur.at = "publish" PROVE Cur.curTask \in Slot
    BY DEF NewTaskHasSlot
  <2>1. PublishedCount < NumberOfTasksC /\ PublishedCount = Cur.curTask /\ PublishedCount \in 1 .. NumberOfTasksC
    BY RoomForOne DEF SInv, TableFilled, PublishedCount
  <2> QED BY <2>1, SchedulerAssumption DEF Slot
<1> QED BY <1>1, SchedulerInvariance, PTL

\* A task that can be scheduled never has more than Priority ticks left, whatever
\* ticks come while ScheduleImpl looks for a task or resets the counters.
THEOREM CountersBounded == Spec => []RunningCounterBounded
<1>1. SInv => RunningCounterBounded
  BY DEF SInv, CountersOK
<1> QED BY <1>1, SchedulerInvariance, PTL

\* User code, and the copy of user memory in a fork, use the page tables of the
\* task that owns the CPU: SwitchTo loads them before the stack is changed.
THEOREM OwnTables == Spec => []UserRunsOnOwnTables
<1>1. SInv => UserRunsOnOwnTables
  <2> SUFFICES ASSUME SInv, InUserMode \/ Cur.at = "memory" PROVE ttbr0 = PGD[onCpu]
    BY DEF UserRunsOnOwnTables
  <2>1. /\ onCpu \in Task /\ Cur = context[onCpu] /\ Cur.at \in {"run", "memory"}
        /\ WellFormed(Cur) /\ Role(onCpu, Cur) /\ (frames[onCpu] # << >> => MadeByTick(Cur))
        /\ Cur.fn \in {"user", "copy"}
    BY CurFacts DEF SInv, StackShape, Cur, InUserMode, WellFormed
  <2>2. ~MadeByTick(Cur)
    BY <2>1 DEF MadeByTick, Role
  <2>3. frames[onCpu] = << >>
    BY <2>1, <2>2
  <2>4. ~Loading(onCpu)
    BY <2>1, <2>3 DEF Loading
  <2> QED BY <2>1, <2>4 DEF SInv, TablesLoaded
<1> QED BY <1>1, SchedulerInvariance, PTL

(***************************************************************************)
(* The refinement.                                                         *)
(***************************************************************************)
\* The abstract array is what TaskSwitching calls table.
PublishedTable == [n \in 1 .. PublishedCount |-> Tasks[n - 1]]

Exited == {t \in Task : State[t] = "Zombie"}

\* The tasks in the abstract array are those in Tasks.
LEMMA InTablePublished ==
    ASSUME SInv, NEW t \in Task
    PROVE  /\ PublishedTable \in Seq(Task) /\ Len(PublishedTable) = PublishedCount
           /\ Switching!InTable(t) <=> Published(t)
<1> USE SchedulerAssumption
<1> DEFINE k == PublishedCount
<1>1. /\ k \in 1 .. NumberOfTasksC /\ Tasks \in [Slot -> Task \union {NoTask}]
      /\ \A i \in Slot : Tasks[i] # NoTask <=> i < k
  BY DEF SInv, TableFilled, IInv, TypeOK
<1> HIDE DEF k
<1>2. \A n \in 1 .. k : n - 1 \in Slot /\ Tasks[n - 1] \in Task
  BY <1>1 DEF Slot
<1>3. PublishedTable \in Seq(Task) /\ Len(PublishedTable) = k
  BY <1>1, <1>2 DEF PublishedTable, k
<1>4. \A n \in 1 .. k : PublishedTable[n] = Tasks[n - 1]
  BY DEF PublishedTable, k
<1>5. Switching!InTable(t) <=> \E n \in 1 .. k : Tasks[n - 1] = t
  BY <1>3, <1>4 DEF Switching!InTable, PublishedTable, k
<1>6. (\E n \in 1 .. k : Tasks[n - 1] = t) => Published(t)
  BY <1>2 DEF Published
<1>7. ASSUME Published(t) PROVE \E n \in 1 .. k : Tasks[n - 1] = t
  <2>1. PICK i \in Slot : Tasks[i] = t
    BY <1>7 DEF Published
  <2>2. i < k /\ i \in Nat
    BY <1>1, <2>1 DEF Slot
  <2>3. i + 1 \in 1 .. k /\ (i + 1) - 1 = i
    BY <1>1, <2>2
  <2> QED BY <2>1, <2>3
<1> QED BY <1>3, <1>5, <1>6, <1>7 DEF k

\* Storing the new task in Tasks is the abstract Create.
LEMMA PublishCreates ==
    ASSUME SInv, SInv', PublishTask
    PROVE  Switching!Create
<1> USE SchedulerAssumption
<1> DEFINE k == PublishedCount
           t == Cur.task
<1>1. /\ Cur.at = "publish" /\ Cur'.at = "enableLoad" /\ t \in Task /\ onCpu' = onCpu
      /\ NumberOfTasks' = NumberOfTasks /\ State' = State /\ Cur.fn = "copy"
      /\ NumberOfTasks \in Nat /\ Cur.curTask = k
      /\ Tasks' = [Tasks EXCEPT ![Cur.curTask] = t] /\ Tasks \in [Slot -> Task \union {NoTask}]
  <2>1. Cur.at = "publish" /\ Cur'.at = "enableLoad"
    BY CopyLands DEF SInv, PublishTask
  <2> QED BY <2>1, CurFacts DEF SInv, TableFilled, PublishTask, PublishedCount, WellFormed,
                                IInv, TypeOK, Continue
<1>2. PublishedCount' = k + 1 /\ k \in 1 .. NumberOfTasksC /\ k \in Slot
  <2>1. k \in 1 .. NumberOfTasksC /\ k < NumberOfTasksC
    BY <1>1, RoomForOne DEF SInv, TableFilled
  <2>2. PublishedCount' = k + 1
    BY <1>1 DEF PublishedCount
  <2> QED BY <2>1, <2>2 DEF Slot
<1> HIDE DEF k, t
<1>3. onCpu \notin Exited
  BY <1>1 DEF SInv, ZombieLeaves, LeavingExit, LeavingSchedule, Exited
<1>4. ~Switching!InTable(t)
  <2>1. ~Published(t)
    BY <1>1 DEF SInv, TableFilled, t
  <2> QED BY <1>1, <2>1, InTablePublished
<1>5. PublishedTable' = Append(PublishedTable, t)
  <2> DEFINE p == Append(PublishedTable, t)
  <2>1. PublishedTable' = [n \in 1 .. k + 1 |-> Tasks'[n - 1]]
    BY <1>2 DEF PublishedTable
  <2>2. PublishedTable \in Seq(Task) /\ Len(PublishedTable) = k
    BY <1>1, InTablePublished DEF k
  <2>3. /\ p \in Seq(Task) /\ Len(p) = k + 1 /\ p[k + 1] = t
        /\ \A n \in 1 .. k : p[n] = PublishedTable[n]
    BY <1>1, <2>2
  <2>4. PublishedTable' \in Seq(Task) /\ Len(PublishedTable') = k + 1
    <3>1. \A n \in 1 .. k + 1 : Tasks'[n - 1] \in Task
      <4> TAKE n \in 1 .. k + 1
      <4>1. n - 1 \in Slot /\ n - 1 < k + 1 /\ Tasks' \in [Slot -> Task \union {NoTask}]
        BY <1>1, <1>2 DEF Slot
      <4>2. Tasks'[n - 1] # NoTask
        BY <1>2, <4>1 DEF SInv, TableFilled
      <4> QED BY <4>1, <4>2
    <3>2. k + 1 \in Nat
      BY <1>2
    <3> QED BY <2>1, <3>1, <3>2
  <2>5. \A n \in 1 .. k + 1 : Tasks'[n - 1] = p[n]
    <3> TAKE n \in 1 .. k + 1
    <3>1. CASE n = k + 1
      BY <1>1, <1>2, <2>3, <3>1
    <3>2. CASE n # k + 1
      <4>1. n \in 1 .. k /\ n - 1 \in Slot /\ n - 1 # k
        BY <1>2, <3>2 DEF Slot
      <4>2. PublishedTable[n] = Tasks[n - 1]
        BY <4>1 DEF PublishedTable, k
      <4> QED BY <1>1, <2>3, <3>2, <4>1, <4>2
    <3> QED BY <3>1, <3>2
  <2>6. \A n \in 1 .. Len(p) : p[n] = PublishedTable'[n]
    BY <2>1, <2>3, <2>5
  <2>7. p \in Seq(Task) /\ PublishedTable' \in Seq(Task) /\ Len(p) = Len(PublishedTable')
    BY <2>3, <2>4
  <2> HIDE DEF p
  <2>8. p = PublishedTable'
    BY <2>6, <2>7, SeqEqual
  <2> QED BY <2>8 DEF p
<1>6. Exited' = Exited /\ onCpu' = onCpu
  BY <1>1 DEF Exited
<1> QED BY <1>1, <1>3, <1>4, <1>5, <1>6 DEF Switching!Create, PublishedTable, Exited

\* Flagging the running task is the abstract Exit.
LEMMA FlagExits ==
    ASSUME SInv, FlagZombie
    PROVE  Switching!Exit \/ UNCHANGED << PublishedTable, Exited, onCpu >>
<1>1. /\ Cur.at = "flag" /\ Cur.fn = "exit" /\ Cur'.at = "enableLoad"
      /\ onCpu \in Task /\ pCurrentTask = onCpu /\ State \in [Task -> {"Running", "Zombie"}]
      /\ UNCHANGED << Tasks, NumberOfTasks, onCpu >>
  BY CopyLands, CurFacts DEF SInv, FlagZombie, WellFormed, IInv, TypeOK, Goto, Continue
<1>2. UNCHANGED << PublishedTable, onCpu >>
  BY <1>1 DEF PublishedTable, PublishedCount
<1>3. onCpu \notin Exited /\ onCpu # InitTask
  BY <1>1 DEF SInv, ZombieLeaves, LeavingExit, LeavingSchedule, Exited, StackShape, Role, Cur
<1>4. State' = State \/ State' = [State EXCEPT ![onCpu] = "Zombie"]
  BY <1>1 DEF FlagZombie
<1>5. Exited' = Exited \/ Exited' = Exited \union {onCpu}
  BY <1>1, <1>4 DEF Exited
<1> QED BY <1>2, <1>3, <1>5 DEF Switching!Exit, PublishedTable, Exited

\* The change of stacks is the abstract Dispatch.
LEMMA SwitchDispatches ==
    ASSUME SInv, cpu_switch_to
    PROVE  Switching!Dispatch
<1>1. /\ Cur.at = "cpu" /\ Cur.task \in Task /\ onCpu' = Cur.task /\ State[Cur.task] = "Running"
      /\ Cur'.at = "enableLoad" /\ UNCHANGED << Tasks, NumberOfTasks, State >>
  BY SwitchLands DEF SInv, cpu_switch_to
<1>2. Switching!InTable(Cur.task)
  BY <1>1, InTablePublished DEF SInv, TableFilled
<1>3. UNCHANGED << PublishedTable, Exited >>
  BY <1>1 DEF PublishedTable, PublishedCount, Exited
<1>4. Cur.task \in Task \ Exited
  BY <1>1 DEF Exited
<1> QED BY <1>1, <1>2, <1>3, <1>4 DEF Switching!Dispatch, PublishedTable, Exited

\* The steps that change nothing that TaskSwitching sees.
LEMMA OthersStutter ==
    ASSUME SInv, [Next]_vars, ~PublishTask, ~FlagZombie, ~cpu_switch_to
    PROVE  UNCHANGED << PublishedTable, Exited, onCpu >>
<1>1. UNCHANGED << Tasks, State, onCpu >>
  BY DEF Next, KernelStep, UserStep, Tick, vars, Continue, Goto,
         PreemptDisableLoad, PreemptDisableStore, PreemptEnableLoad, PreemptEnableStore,
         Schedule, ScanSlot, TakeSlot, NextSlot, ResetSlot, SwitchToSame, SwitchTo, SetPageGlobalDirectory,
         AllocateTask, AllocateTaskFails, CopyMemory, SetupTask, NumberTask,
         CreateKernelProcess, MoveToUserMode, MoveToUserModeSetPGD,
         DisableIrq, ReturnToUser, ReturnFromTick, SystemCallFork, SystemCallExit,
         DataAbortError, UnknownException, TickReturns, TickPreempts
<1>2. PublishedCount' = PublishedCount
  <2>1. CASE NumberTask
    <3>1. Cur.at = "number" /\ Cur'.at = "publish" /\ NumberOfTasks' = NumberOfTasks + 1 /\ NumberOfTasks \in Nat
      BY <2>1, CopyLands DEF SInv, NumberTask, IInv, TypeOK
    <3> QED BY <3>1 DEF PublishedCount
  <2>2. CASE ~NumberTask
    <3>1. NumberOfTasks' = NumberOfTasks
      BY <2>2 DEF Next, KernelStep, UserStep, Tick, vars,
         PreemptDisableLoad, PreemptDisableStore, PreemptEnableLoad, PreemptEnableStore,
         Schedule, ScanSlot, TakeSlot, NextSlot, ResetSlot, SwitchToSame, SwitchTo, SetPageGlobalDirectory,
         AllocateTask, AllocateTaskFails, CopyMemory, SetupTask,
         CreateKernelProcess, MoveToUserMode, MoveToUserModeSetPGD,
         DisableIrq, ReturnToUser, ReturnFromTick, SystemCallFork, SystemCallExit,
         DataAbortError, UnknownException, TickReturns, TickPreempts
    <3>2. Cur.at = "publish" <=> Cur'.at = "publish"
      <4>1. CASE UNCHANGED vars \/ TickReturns
        BY <4>1 DEF vars, TickReturns, Cur
      <4>2. CASE QuietStep
        BY <4>2, QuietPlaces DEF SInv
      <4>3. CASE SwitchTo \/ SetPageGlobalDirectory
        BY <4>3, ScheduleLands DEF SInv, SwitchTo, SetPageGlobalDirectory
      <4>4. CASE SetupTask
        BY <4>4, SetupLands DEF SInv, SetupTask
      <4>5. CASE ReturnFromTick
        BY <4>5, ReturnLands DEF SInv, ReturnFromTick, Interruptible, GuardHeld
      <4>6. CASE TickPreempts
        BY <4>6, TickLands, TickOutsideGuard DEF SInv, GuardHeld
      <4> QED BY <2>2, <4>1, <4>2, <4>3, <4>4, <4>5, <4>6, StepKinds DEF PlainStep
    <3> QED BY <3>1, <3>2 DEF PublishedCount
  <2> QED BY <2>1, <2>2
<1> QED BY <1>1, <1>2 DEF PublishedTable, Exited

\* The scheduler implements TaskSwitching: whatever ticks come between two steps of
\* the kernel, tasks are numbered for good in the order of their creation, only the
\* running task creates or exits, and the CPU goes to created tasks that have not exited.
THEOREM Refinement == Spec => ImplementsTaskSwitching
<1>1. Init => Switching!Init
  <2> SUFFICES ASSUME Init PROVE Switching!Init
    OBVIOUS
  <2>1. onCpu = InitTask /\ NumberOfTasks = 1 /\ Cur.at # "publish"
    BY SchedulerAssumption DEF Init, Cur, At
  <2>2. PublishedCount = 1 /\ 0 \in Slot /\ Tasks[0] = InitTask
    BY <2>1, SchedulerAssumption DEF PublishedCount, Init, Slot
  <2>3. PublishedTable = << InitTask >>
    <3>1. PublishedTable = [n \in 1 .. 1 |-> Tasks[n - 1]]
      BY <2>2 DEF PublishedTable
    <3>2. << InitTask >> = [n \in 1 .. 1 |-> InitTask]
      OBVIOUS
    <3>3. \A n \in 1 .. 1 : Tasks[n - 1] = InitTask
      BY <2>2
    <3> QED BY <3>1, <3>2, <3>3
  <2>4. Exited = {}
    BY DEF Exited, Init
  <2> QED BY <2>1, <2>3, <2>4 DEF Switching!Init, PublishedTable, Exited
<1>2. SInv /\ SInv' /\ [Next]_vars => [Switching!Next]_(Switching!switchVars)
  <2> SUFFICES ASSUME SInv, SInv', [Next]_vars
               PROVE  Switching!Next \/ UNCHANGED << PublishedTable, Exited, onCpu >>
    BY DEF Switching!switchVars, PublishedTable, Exited
  <2>1. CASE PublishTask
    BY <2>1, PublishCreates DEF Switching!Next
  <2>2. CASE FlagZombie
    BY <2>2, FlagExits DEF Switching!Next
  <2>3. CASE cpu_switch_to
    BY <2>3, SwitchDispatches DEF Switching!Next
  <2> QED BY <2>1, <2>2, <2>3, OthersStutter
<1> QED
  BY <1>1, <1>2, SchedulerInvariance, PTL DEF Spec, ImplementsTaskSwitching, Switching!Spec
=============================================================================
