------------------------------ MODULE Scheduler ------------------------------
(***************************************************************************)
(* The scheduler of CranberryOS (kernel/Scheduler.cpp, kernel/Scheduler.S  *)
(* and the parts of kernel/ExceptionVectors.S that enter and leave it) on  *)
(* its single core, at the granularity at which a timer interrupt can come *)
(* between two accesses to the shared scheduling state.                    *)
(*                                                                         *)
(* The kernel has one stack per task.  A stack holds one activation per    *)
(* exception that is being served on it: `context[t]' is the newest one    *)
(* (the CPU registers while t owns the CPU, the saved CPUContext while it  *)
(* does not) and `frames[t]' the older ones, which kernel_entry pushed     *)
(* when a timer interrupt came.  An activation is described by the         *)
(* function it is in (fn), the place in it (at), where that function       *)
(* returns to (caller) and the local variables that are still needed.      *)
(***************************************************************************)
EXTENDS Integers, Sequences, FiniteSets

CONSTANTS
    Task,               \* the TaskStructs: InitTask and one for each page given to a task
    InitTask,           \* the task that runs kmain
    NoTask,             \* nullptr
    NumberOfTasksC,     \* length of the Tasks array
    Priority,           \* TaskStruct::Priority: InitTask's default, inherited by every task
    AllocationMayFail,  \* whether the page allocator may run out of pages
    MinCounter,         \* bound: a guarded task is not ticked below this Counter
    MaxCounter,         \* bound: where the Counter of a zombie stops growing
    MaxNesting,         \* bound: interrupted activations on one kernel stack
    MaxGuardTicks       \* bound: timer ticks between two releases of a guard

ASSUME SchedulerAssumption ==
    /\ InitTask \in Task
    /\ NoTask \notin Task
    \* A created task occupies a page, and the first one takes at least five more
    \* for its code and page tables: of the 64 pages at most 59 hold a TaskStruct.
    /\ IsFiniteSet(Task) /\ Cardinality(Task) <= NumberOfTasksC
    /\ NumberOfTasksC \in Nat \ {0}
    /\ Priority \in Nat \ {0}
    /\ AllocationMayFail \in BOOLEAN
    /\ MinCounter \in Int /\ MinCounter < 0
    /\ MaxCounter \in Nat /\ MaxCounter > 2 * Priority
    /\ MaxNesting \in Nat \ {0}
    /\ MaxGuardTicks \in Nat

VARIABLES
    Tasks,          \* the Tasks array: slot -> TaskStruct or nullptr
    NumberOfTasks,  \* the number of tasks ever created; the next process ID
    State,          \* TaskStruct::State
    Counter,        \* TaskStruct::Counter
    PreemptCount,   \* TaskStruct::PreemptCount
    PGD,            \* TaskStruct::MemoryState.PageGlobalDirectory: NoTask (null) or the task whose tables it names
    pCurrentTask,   \* the task the scheduler regards as running
    onCpu,          \* the task whose kernel stack sp points into
    context,        \* newest activation on each kernel stack
    frames,         \* activations below it, oldest first
    ttbr0,          \* TTBR0_EL1: the PageGlobalDirectory the MMU translates with
    irq,            \* TRUE while DAIF.I is clear: interrupts are enabled
    guardTicks      \* ticks since a guard was last released (for MaxGuardTicks only)

vars == << Tasks, NumberOfTasks, State, Counter, PreemptCount, PGD, pCurrentTask,
           onCpu, context, frames, ttbr0, irq, guardTicks >>

-----------------------------------------------------------------------------
(***************************************************************************)
(* Activations.                                                            *)
(***************************************************************************)
Slot == 0 .. NumberOfTasksC - 1

Function == {"none", "kmain", "kproc", "user", "copy", "exit", "schedule", "fork", "tick"}

Place == {"none", "run", "call", "hang", "halt", "loadpgd",
          "disableLoad", "disableStore", "enableLoad", "enableStore",
          "alloc", "memory", "setup", "number", "publish", "flag",
          "scan", "take", "reset", "switch", "setpgd", "cpu", "mask", "eret"}

Activation ==
    [fn : Function, at : Place, caller : Function,
     reg : Int,                   \* the value loaded by a ++ or -- of PreemptCount; at "take",
                                  \* pCurrentTask's Counter at the comparison (for TicksOnce)
     curTask : Nat,               \* ScheduleImpl's loop index, CopyProcess's processID
     largestCounter : Int,        \* ScheduleImpl's local
     taskToResume : Slot,         \* ScheduleImpl's local
     task : Task \union {NoTask}] \* CopyProcess's pnewTask, SwitchTo's apNextTask

\* An activation at a place of a function that needs none of the locals.
At(fn, at, caller) ==
    [fn |-> fn, at |-> at, caller |-> caller, reg |-> 0, curTask |-> 0,
     largestCounter |-> -1, taskToResume |-> 0, task |-> NoTask]

\* c at another place, and with a local variable that is set on the way.
Move(c, at) == [c EXCEPT !.at = at]
Load(c, at, n) == [c EXCEPT !.at = at, !.reg = n]
Index(c, at, i) == [c EXCEPT !.at = at, !.curTask = i]
Hold(c, at, t) == [c EXCEPT !.at = at, !.task = t]
Pick(c, n, i) == [c EXCEPT !.largestCounter = n, !.taskToResume = i]

\* The places between a guard's construction and its destruction; for a new
\* task, the places up to schedule_tail.
GuardHeld(c) ==
    c.at \in {"alloc", "memory", "setup", "number", "publish", "flag", "scan", "take",
              "reset", "switch", "setpgd", "cpu", "enableLoad", "enableStore"}

Cur == context[onCpu]

\* The running activation moves on to c, on the same stack.
Continue(c) ==
    /\ context' = [context EXCEPT ![onCpu] = c]
    /\ UNCHANGED << onCpu, frames >>

\* ... and only its place changes.
Goto(at) == Continue(Move(Cur, at))

Created(t) == context[t].at # "none"

TaskAlive(t) == t # NoTask /\ State[t] = "Running"

-----------------------------------------------------------------------------
(***************************************************************************)
(* kmain has enabled interrupts and is about to create the first process.  *)
(***************************************************************************)
Init ==
    /\ Tasks = [i \in Slot |-> IF i = 0 THEN InitTask ELSE NoTask]
    /\ NumberOfTasks = 1
    /\ State = [t \in Task |-> "Running"]
    /\ Counter = [t \in Task |-> 0]
    /\ PreemptCount = [t \in Task |-> 0]
    /\ PGD = [t \in Task |-> NoTask]
    /\ pCurrentTask = InitTask
    /\ onCpu = InitTask
    /\ context = [t \in Task |-> IF t = InitTask THEN At("kmain", "run", "none")
                                                 ELSE At("none", "none", "none")]
    /\ frames = [t \in Task |-> << >>]
    /\ ttbr0 = NoTask
    /\ irq = TRUE
    /\ guardTicks = 0

-----------------------------------------------------------------------------
(***************************************************************************)
(* DisablePreemptingInScope.  ++ and -- of PreemptCount are a load and a   *)
(* store, and an interrupt may come in between.                            *)
(***************************************************************************)
AfterDisable(c) ==
    CASE c.fn = "schedule" -> At("schedule", "scan", c.caller)
      [] c.fn = "copy"     -> At("copy", "alloc", c.caller)
      [] c.fn = "exit"     -> At("exit", "flag", c.caller)

\* Mutant: a constructor that loads the count and stores nothing more than it loaded.
DisabledCountForgotten(n) == n

DisabledCount(n) == n + 1

PreemptDisableLoad ==
    /\ Cur.at = "disableLoad"
    /\ Continue(Load(Cur, "disableStore", PreemptCount[pCurrentTask]))
    /\ UNCHANGED << Tasks, NumberOfTasks, State, Counter, PreemptCount, PGD,
                    pCurrentTask, ttbr0, irq, guardTicks >>

PreemptDisableStore ==
    /\ Cur.at = "disableStore"
    /\ PreemptCount' = [PreemptCount EXCEPT ![pCurrentTask] = DisabledCount(Cur.reg)]
    /\ Continue(AfterDisable(Cur))
    /\ UNCHANGED << Tasks, NumberOfTasks, State, Counter, PGD,
                    pCurrentTask, ttbr0, irq, guardTicks >>

\* Where the destructor of a guard (or schedule_tail) lets the code go on:
\* ScheduleImpl returns to its caller, CopyProcess to kmain or to the system
\* call, ExitProcess goes on to Schedule, a new task to its process function or
\* to ret_to_user.
AfterEnable(c) ==
    CASE c.fn = "schedule" /\ c.caller = "kmain" -> At("kmain", "call", "none")
      [] c.fn = "schedule" /\ c.caller = "exit"  -> At("user", "mask", "none")
      [] c.fn = "schedule" /\ c.caller = "tick"  -> At("tick", "mask", "none")
      [] c.fn = "copy" /\ c.caller = "kmain"     ->
             At("kmain", IF c.task = NoTask THEN "hang" ELSE "call", "none")
      [] c.fn = "copy" /\ c.caller = "user"      -> At("user", "mask", "none")
      [] c.fn = "exit"                           -> At("exit", "call", "user")
      [] c.fn = "fork" /\ c.caller = "kproc"     -> At("kproc", "run", "none")
      [] c.fn = "fork" /\ c.caller = "user"      -> At("user", "mask", "none")

PreemptEnableLoad ==
    /\ Cur.at = "enableLoad"
    /\ Continue(Load(Cur, "enableStore", PreemptCount[pCurrentTask]))
    /\ UNCHANGED << Tasks, NumberOfTasks, State, Counter, PreemptCount, PGD,
                    pCurrentTask, ttbr0, irq, guardTicks >>

PreemptEnableStore ==
    /\ Cur.at = "enableStore"
    /\ PreemptCount' = [PreemptCount EXCEPT ![pCurrentTask] = Cur.reg - 1]
    /\ Continue(AfterEnable(Cur))
    /\ guardTicks' = 0
    /\ UNCHANGED << Tasks, NumberOfTasks, State, Counter, PGD,
                    pCurrentTask, ttbr0, irq >>

-----------------------------------------------------------------------------
(***************************************************************************)
(* ScheduleImpl, one slot of the Tasks array per step.                     *)
(***************************************************************************)
Schedule ==
    /\ Cur.at = "call" /\ Cur.fn \in {"kmain", "exit"}
    /\ Counter' = [Counter EXCEPT ![pCurrentTask] = 0]
    /\ Continue(At("schedule", "disableLoad", Cur.fn))
    /\ UNCHANGED << Tasks, NumberOfTasks, State, PreemptCount, PGD,
                    pCurrentTask, ttbr0, irq, guardTicks >>

\* Mutant: the loop ends before the last slot.
LastSlotTooEarly(i) == i = NumberOfTasksC - 2

LastSlot(i) == i = NumberOfTasksC - 1

\* Mutant: the State of a task is not looked at.
EligibleIgnoringState(t, largest) == t # NoTask /\ Counter[t] > largest

Eligible(t, largest) == TaskAlive(t) /\ Counter[t] > largest

\* Mutant: a task needs more than one tick left to be found.
FoundAboveOne(largest) == largest > 1

FoundTask(largest) == largest > 0

\* On to the next slot, or out of the loop.
NextSlot(c) ==
    \/ /\ ~LastSlot(c.curTask)
       /\ Continue(Index(c, "scan", c.curTask + 1))
    \/ /\ LastSlot(c.curTask) /\ FoundTask(c.largestCounter)
       /\ Continue(Pick(At("schedule", "switch", c.caller), -1, c.taskToResume))
    \/ /\ LastSlot(c.curTask) /\ ~FoundTask(c.largestCounter)
       /\ Continue(At("schedule", "reset", c.caller))

ScanSlot ==
    /\ Cur.at = "scan"
    /\ IF Eligible(Tasks[Cur.curTask], Cur.largestCounter)
       THEN Continue(Load(Cur, "take", Counter[pCurrentTask]))
       ELSE NextSlot(Cur)
    /\ UNCHANGED << Tasks, NumberOfTasks, State, Counter, PreemptCount, PGD,
                    pCurrentTask, ttbr0, irq, guardTicks >>

\* largestCounter = ptask->Counter reads the Counter again: a tick since the comparison
\* may have decremented it.
TakeSlot ==
    /\ Cur.at = "take"
    /\ NextSlot(Pick(Load(Cur, "scan", 0), Counter[Tasks[Cur.curTask]], Cur.curTask))
    /\ UNCHANGED << Tasks, NumberOfTasks, State, Counter, PreemptCount, PGD,
                    pCurrentTask, ttbr0, irq, guardTicks >>

\* Mutant: the reset forgets to add the priority.
CounterUnchangedByReset(n) == n

\* (Counter / 1) + Priority.  The load and the store are one step: a tick in
\* between only decrements this Counter, and the store then hides it, which is
\* the step without the tick.  MaxCounter stops the growth of a zombie only.
CounterAfterReset(n) == IF n + Priority > MaxCounter THEN MaxCounter ELSE n + Priority

ResetSlot ==
    /\ Cur.at = "reset"
    /\ LET t == Tasks[Cur.curTask]
       IN  Counter' = IF t = NoTask THEN Counter
                      ELSE [Counter EXCEPT ![t] = CounterAfterReset(Counter[t])]
    /\ Continue(IF LastSlot(Cur.curTask)
                THEN At("schedule", "scan", Cur.caller)
                ELSE Index(Cur, "reset", Cur.curTask + 1))
    /\ UNCHANGED << Tasks, NumberOfTasks, State, PreemptCount, PGD,
                    pCurrentTask, ttbr0, irq, guardTicks >>

(***************************************************************************)
(* SwitchTo.  From the assignment to pCurrentTask until sp changes in      *)
(* cpu_switch_to, pCurrentTask is not the task whose stack is in use.      *)
(***************************************************************************)
SwitchToSame ==
    /\ Cur.at = "switch"
    /\ pCurrentTask = Tasks[Cur.taskToResume]
    /\ Continue(At("schedule", "enableLoad", Cur.caller))
    /\ UNCHANGED << Tasks, NumberOfTasks, State, Counter, PreemptCount, PGD,
                    pCurrentTask, ttbr0, irq, guardTicks >>

SwitchTo ==
    /\ Cur.at = "switch"
    /\ pCurrentTask # Tasks[Cur.taskToResume]
    /\ pCurrentTask' = Tasks[Cur.taskToResume]
    /\ Continue(Hold(At("schedule", "setpgd", Cur.caller), "setpgd", Tasks[Cur.taskToResume]))
    /\ UNCHANGED << Tasks, NumberOfTasks, State, Counter, PreemptCount, PGD,
                    ttbr0, irq, guardTicks >>

\* Mutant: SwitchTo without its call of SetPageGlobalDirectory.
KeptPageGlobalDirectory == ttbr0

NextPageGlobalDirectory == PGD[pCurrentTask]

SetPageGlobalDirectory ==
    /\ Cur.at = "setpgd"
    /\ ttbr0' = NextPageGlobalDirectory
    /\ Goto("cpu")
    /\ UNCHANGED << Tasks, NumberOfTasks, State, Counter, PreemptCount, PGD,
                    pCurrentTask, irq, guardTicks >>

\* The previous task is saved at the return from cpu_switch_to, where the
\* destructor of ScheduleImpl's guard follows; the next one goes on where it
\* was saved, or at ret_from_fork.
cpu_switch_to ==
    /\ Cur.at = "cpu"
    /\ context' = [context EXCEPT ![onCpu] = At("schedule", "enableLoad", Cur.caller)]
    /\ onCpu' = Cur.task
    /\ UNCHANGED << Tasks, NumberOfTasks, State, Counter, PreemptCount, PGD,
                    pCurrentTask, frames, ttbr0, irq, guardTicks >>

-----------------------------------------------------------------------------
(***************************************************************************)
(* CopyProcess.                                                            *)
(***************************************************************************)
\* AllocateKernelPage and the construction of the TaskStruct in the page.  The
\* allocator hands out a page that no task uses.
AllocateTask ==
    /\ Cur.at = "alloc"
    /\ \E t \in Task :
         /\ ~Created(t)
         /\ Continue(Hold(Cur, IF Cur.caller = "user" THEN "memory" ELSE "setup", t))
    /\ UNCHANGED << Tasks, NumberOfTasks, State, Counter, PreemptCount, PGD,
                    pCurrentTask, ttbr0, irq, guardTicks >>

AllocateTaskFails ==
    /\ Cur.at = "alloc"
    /\ AllocationMayFail \/ \A t \in Task : Created(t)
    /\ Goto("enableLoad")
    /\ UNCHANGED << Tasks, NumberOfTasks, State, Counter, PreemptCount, PGD,
                    pCurrentTask, ttbr0, irq, guardTicks >>

\* CopyVirtualMemory, whose result CopyProcess drops: the first page it maps
\* creates the page tables of the new task, and when that page cannot be had
\* the task is created with none.
CopyMemory ==
    /\ Cur.at = "memory"
    /\ \E pgd \in {PGD[pCurrentTask]} \union (IF AllocationMayFail THEN {NoTask} ELSE {}) :
         PGD' = [PGD EXCEPT ![Cur.task] = IF pgd = NoTask THEN NoTask ELSE Cur.task]
    /\ Goto("setup")
    /\ UNCHANGED << Tasks, NumberOfTasks, State, Counter, PreemptCount,
                    pCurrentTask, ttbr0, irq, guardTicks >>

\* Mutant: the new task starts with preemption enabled.
NewPreemptCountZero == 0

NewPreemptCount == 1

SetupTask ==
    /\ Cur.at = "setup"
    /\ Counter' = [Counter EXCEPT ![Cur.task] = Priority]
    /\ PreemptCount' = [PreemptCount EXCEPT ![Cur.task] = NewPreemptCount]
    /\ context' = [context EXCEPT
                     ![onCpu] = Move(Cur, "number"),
                     ![Cur.task] = At("fork", "enableLoad",
                                      IF Cur.caller = "kmain" THEN "kproc" ELSE "user")]
    /\ UNCHANGED << Tasks, NumberOfTasks, State, PGD,
                    pCurrentTask, onCpu, frames, ttbr0, irq, guardTicks >>

\* Mutant: ++NumberOfTasks in place of NumberOfTasks++.
IncrementedNumberOfTasks == NumberOfTasks + 1

NextProcessID == NumberOfTasks

NumberTask ==
    /\ Cur.at = "number"
    /\ NumberOfTasks' = NumberOfTasks + 1
    /\ Continue(Index(Cur, "publish", NextProcessID))
    /\ UNCHANGED << Tasks, State, Counter, PreemptCount, PGD,
                    pCurrentTask, ttbr0, irq, guardTicks >>

PublishTask ==
    /\ Cur.at = "publish"
    /\ Tasks' = [Tasks EXCEPT ![Cur.curTask] = Cur.task]
    /\ Continue(Index(Cur, "enableLoad", 0))
    /\ UNCHANGED << NumberOfTasks, State, Counter, PreemptCount, PGD,
                    pCurrentTask, ttbr0, irq, guardTicks >>

-----------------------------------------------------------------------------
(***************************************************************************)
(* ExitProcess up to its call of Schedule.                                 *)
(***************************************************************************)
FlagZombie ==
    /\ Cur.at = "flag"
    /\ State' = [State EXCEPT ![pCurrentTask] =
                   IF \E i \in Slot : Tasks[i] = pCurrentTask THEN "Zombie" ELSE @]
    /\ Goto("enableLoad")
    /\ UNCHANGED << Tasks, NumberOfTasks, Counter, PreemptCount, PGD,
                    pCurrentTask, ttbr0, irq, guardTicks >>

-----------------------------------------------------------------------------
(***************************************************************************)
(* kmain, the kernel process and user mode.                                *)
(***************************************************************************)
\* kmain creates the kernel process.
CreateKernelProcess ==
    /\ Cur.fn = "kmain" /\ Cur.at = "run"
    /\ Continue(At("copy", "disableLoad", "kmain"))
    /\ UNCHANGED << Tasks, NumberOfTasks, State, Counter, PreemptCount, PGD,
                    pCurrentTask, ttbr0, irq, guardTicks >>

\* KernelProcess: MoveToUserMode maps the code page, which creates the page
\* tables.  When there is no page it only says so, and goes to user mode too.
MoveToUserMode ==
    /\ Cur.fn = "kproc" /\ Cur.at = "run"
    /\ \/ /\ PGD' = [PGD EXCEPT ![pCurrentTask] = pCurrentTask]
          /\ Goto("loadpgd")
       \/ /\ AllocationMayFail
          /\ Continue(At("user", "mask", "none"))
          /\ UNCHANGED PGD
    /\ UNCHANGED << Tasks, NumberOfTasks, State, Counter, PreemptCount,
                    pCurrentTask, ttbr0, irq, guardTicks >>

MoveToUserModeSetPGD ==
    /\ Cur.fn = "kproc" /\ Cur.at = "loadpgd"
    /\ ttbr0' = PGD[pCurrentTask]
    /\ Continue(At("user", "mask", "none"))
    /\ UNCHANGED << Tasks, NumberOfTasks, State, Counter, PreemptCount, PGD,
                    pCurrentTask, irq, guardTicks >>

\* A system call: sync_el0_64 saves the registers and el0_svc enables
\* interrupts before it calls the handler.
InUserMode == Cur.fn = "user" /\ Cur.at = "run"

SystemCallFork ==
    /\ InUserMode /\ ttbr0 # NoTask
    /\ Continue(At("copy", "disableLoad", "user"))
    /\ UNCHANGED << Tasks, NumberOfTasks, State, Counter, PreemptCount, PGD,
                    pCurrentTask, ttbr0, irq, guardTicks >>

SystemCallExit ==
    /\ InUserMode /\ ttbr0 # NoTask
    /\ Continue(At("exit", "disableLoad", "user"))
    /\ UNCHANGED << Tasks, NumberOfTasks, State, Counter, PreemptCount, PGD,
                    pCurrentTask, ttbr0, irq, guardTicks >>

\* What a program may do wrong at any time.  A data abort that do_mem_abort does not
\* serve (no page, or no translation fault) and an unknown system call: err_hang with
\* interrupts enabled, so that ticks still take the CPU from the task and give it back.
DataAbortError ==
    /\ InUserMode /\ ttbr0 # NoTask
    /\ Goto("hang")
    /\ UNCHANGED << Tasks, NumberOfTasks, State, Counter, PreemptCount, PGD,
                    pCurrentTask, ttbr0, irq, guardTicks >>

\* Any other synchronous exception (an undefined instruction, an instruction abort):
\* err_hang with interrupts masked, which nothing ends.  It is all that a task
\* without page tables can do.
UnknownException ==
    /\ InUserMode
    /\ Goto("halt")
    /\ irq' = FALSE
    /\ UNCHANGED << Tasks, NumberOfTasks, State, Counter, PreemptCount, PGD,
                    pCurrentTask, ttbr0, guardTicks >>

-----------------------------------------------------------------------------
(***************************************************************************)
(* The return from an exception: disable_irq, then kernel_exit.            *)
(***************************************************************************)
DisableIrq ==
    /\ Cur.at = "mask"
    /\ irq' = FALSE
    /\ Goto("eret")
    /\ UNCHANGED << Tasks, NumberOfTasks, State, Counter, PreemptCount, PGD,
                    pCurrentTask, ttbr0, guardTicks >>

ReturnToUser ==
    /\ Cur.at = "eret" /\ Cur.fn = "user"
    /\ Goto("run")
    /\ irq' = TRUE
    /\ UNCHANGED << Tasks, NumberOfTasks, State, Counter, PreemptCount, PGD,
                    pCurrentTask, ttbr0, guardTicks >>

ReturnFromTick ==
    /\ Cur.at = "eret" /\ Cur.fn = "tick"
    /\ LET n == Len(frames[onCpu])
       IN  /\ context' = [context EXCEPT ![onCpu] = frames[onCpu][n]]
           /\ frames' = [frames EXCEPT ![onCpu] = SubSeq(@, 1, n - 1)]
    /\ irq' = TRUE
    /\ UNCHANGED << Tasks, NumberOfTasks, State, Counter, PreemptCount, PGD,
                    pCurrentTask, onCpu, ttbr0, guardTicks >>

(***************************************************************************)
(* TimerTick.  Up to its call of enable_irq it runs with interrupts        *)
(* masked, so nothing comes in between.                                    *)
(***************************************************************************)
\* Mutant: TimerTick preempts the task whatever its PreemptCount is.
TickKeepsTaskIgnoringGuard == Counter[pCurrentTask] - 1 > 0

TickKeepsTask == Counter[pCurrentTask] - 1 > 0 \/ PreemptCount[pCurrentTask] > 0

\* Bound: the timer does not fire twice between two reads of a Counter that follow
\* each other in ScheduleImpl.  HandleIRQ re-arms it a fifth of a second ahead.
TicksOnce == Cur.at = "take" => Counter[pCurrentTask] = Cur.reg

TickReturns ==
    /\ irq
    /\ TickKeepsTask
    /\ TicksOnce
    /\ PreemptCount[pCurrentTask] > 0 => Counter[pCurrentTask] > MinCounter
    /\ PreemptCount[pCurrentTask] > 0 => guardTicks < MaxGuardTicks
    /\ guardTicks' = IF PreemptCount[pCurrentTask] > 0 THEN guardTicks + 1 ELSE guardTicks
    /\ Counter' = [Counter EXCEPT ![pCurrentTask] = @ - 1]
    /\ UNCHANGED << Tasks, NumberOfTasks, State, PreemptCount, PGD,
                    pCurrentTask, onCpu, context, frames, ttbr0, irq >>

\* Mutant: TimerTick without its call of enable_irq.
IrqStaysMasked == FALSE

IrqWhileScheduling == TRUE

TickPreempts ==
    /\ irq
    /\ ~TickKeepsTask
    /\ Len(frames[onCpu]) < MaxNesting
    /\ Counter' = [Counter EXCEPT ![pCurrentTask] = 0]
    /\ frames' = [frames EXCEPT ![onCpu] = Append(@, context[onCpu])]
    /\ context' = [context EXCEPT ![onCpu] = At("schedule", "disableLoad", "tick")]
    /\ irq' = IrqWhileScheduling
    /\ UNCHANGED << Tasks, NumberOfTasks, State, PreemptCount, PGD,
                    pCurrentTask, onCpu, ttbr0, guardTicks >>

Tick == TickReturns \/ TickPreempts

-----------------------------------------------------------------------------
\* What kernel code does on its own ...
KernelStep ==
    \/ PreemptDisableLoad \/ PreemptDisableStore
    \/ PreemptEnableLoad \/ PreemptEnableStore
    \/ Schedule \/ ScanSlot \/ TakeSlot \/ ResetSlot
    \/ SwitchToSame \/ SwitchTo \/ SetPageGlobalDirectory \/ cpu_switch_to
    \/ AllocateTask \/ AllocateTaskFails \/ CopyMemory \/ SetupTask
    \/ NumberTask \/ PublishTask \/ FlagZombie
    \/ CreateKernelProcess \/ MoveToUserMode \/ MoveToUserModeSetPGD
    \/ DisableIrq \/ ReturnToUser \/ ReturnFromTick

\* ... and what a user program may or may not do.
UserStep == SystemCallFork \/ SystemCallExit \/ DataAbortError \/ UnknownException

Next == KernelStep \/ UserStep \/ Tick

Spec == Init /\ [][Next]_vars

\* The core does not stop executing kernel code; the timer fires again and
\* again, since HandleIRQ re-arms it on every interrupt; and a user program
\* does not call Fork forever: User::Process calls it once and then loops.
\* (A tick in the middle of CopyProcess does not preempt, so a program that
\* did nothing but fork could keep the CPU.)
FairSpec ==
    /\ Spec
    /\ WF_vars(KernelStep)
    /\ WF_vars(Tick)
    /\ <>[][~SystemCallFork]_vars

-----------------------------------------------------------------------------
(***************************************************************************)
(* Properties.                                                             *)
(***************************************************************************)
\* Every variable has its type, and the loops of ScheduleImpl stay inside Tasks.
TypeOK ==
    /\ Tasks \in [Slot -> Task \union {NoTask}]
    /\ NumberOfTasks \in Nat
    /\ State \in [Task -> {"Running", "Zombie"}]
    /\ Counter \in [Task -> Int]
    /\ PreemptCount \in [Task -> Int]
    /\ PGD \in [Task -> Task \union {NoTask}]
    /\ pCurrentTask \in Task
    /\ onCpu \in Task
    /\ context \in [Task -> Activation]
    /\ \A t \in Task : context[t].at \in {"scan", "take", "reset"} => context[t].curTask \in Slot
    /\ frames \in [Task -> Seq(Activation)]
    /\ ttbr0 \in Task \union {NoTask}
    /\ irq \in BOOLEAN
    /\ guardTicks \in Nat

Published(t) == \E i \in Slot : Tasks[i] = t

\* DisablePreemptingInScope nests correctly on every kernel stack: a task's
\* PreemptCount is 1 exactly while its newest activation holds a guard, and no
\* interrupted activation below holds one (so the count never reaches 2, and
\* every decrement finds the increment it undoes).
GuardDiscipline ==
    \A t \in Task :
        /\ PreemptCount[t] = IF GuardHeld(context[t]) THEN 1 ELSE 0
        /\ \A i \in 1 .. Len(frames[t]) : ~GuardHeld(frames[t][i])

\* A task that does not own the CPU cannot be preempted: it waits inside
\* ScheduleImpl or before schedule_tail with its PreemptCount set.  SwitchTo
\* relies on it when it sets pCurrentTask before the stack is switched.
SuspendedInsideGuard ==
    \A t \in Task \ {onCpu} :
        Created(t) => PreemptCount[t] > 0 /\ context[t].at = "enableLoad"

\* pCurrentTask is the task whose stack is in use, except in SwitchTo's window;
\* GetTargetStateMemoryForTask(pCurrentTask) and the counters rely on it.
CurrentOwnsStack ==
    Cur.at \notin {"setpgd", "cpu"} => pCurrentTask = onCpu

\* The Tasks array is filled from the front without a gap, by one CopyProcess
\* at a time: process IDs are never given twice and no task is lost.
ProcessIDsUnique ==
    /\ \A i, j \in Slot : Tasks[i] # NoTask /\ Tasks[i] = Tasks[j] => i = j
    /\ \A i \in Slot : Tasks[i] # NoTask <=>
          i < IF Cur.at = "publish" THEN NumberOfTasks - 1 ELSE NumberOfTasks

\* CopyProcess stores the new task without looking at the length of Tasks; that
\* it stays inside is due to the number of pages a TaskStruct can live in.
NewTaskHasSlot == Cur.at = "publish" => Cur.curTask \in Slot

\* Whenever user code runs, or CopyVirtualMemory reads user memory, the MMU
\* translates with the page tables of the task that owns the CPU.
UserRunsOnOwnTables ==
    InUserMode \/ Cur.at = "memory" => ttbr0 = PGD[onCpu]

\* A task that can be scheduled never has more than Priority ticks left: a
\* reset only happens when every running task has used up its time.
RunningCounterBounded ==
    \A t \in Task : State[t] = "Running" => Counter[t] <= Priority

\* Interrupts are masked only on the way out of an exception (and in the halt of
\* an unknown exception): every task is switched away from and resumed with
\* interrupts enabled, although DAIF is not part of the saved context.
IrqMaskedOnlyAtReturn == irq = (Cur.at \notin {"eret", "halt"})

\* The CPU is never given to a zombie.
ZombieNeverResumed ==
    [][onCpu' # onCpu => State[onCpu'] = "Running"]_vars

\* The machine has stopped: err_hang with interrupts masked.
Halted == Cur.at = "halt"

\* Every task that has been published and has not exited gets the CPU again and
\* again, also from a task that hangs with interrupts enabled, unless a program
\* takes an unknown exception: that halts the machine for all.
RunningTaskRuns ==
    \A t \in Task :
        Published(t) /\ State[t] = "Running" ~> onCpu = t \/ Halted

\* ScheduleImpl ends: its loop does not go on resetting counters forever.
SchedulingEnds == Cur.at \in {"scan", "take"} ~> ~GuardHeld(Cur)

\* The scheduler implements TaskSwitching: an entry of Tasks counts from the
\* moment CopyProcess has stored it.
PublishedCount == IF Cur.at = "publish" THEN NumberOfTasks - 1 ELSE NumberOfTasks

Switching ==
    INSTANCE TaskSwitching WITH
        table  <- [n \in 1 .. PublishedCount |-> Tasks[n - 1]],
        exited <- {t \in Task : State[t] = "Zombie"},
        cpu    <- onCpu

\* Every behaviour of the scheduler is one of TaskSwitching: a process ID is
\* given to one task for good, only the running task creates or exits, and
\* what is dispatched has been created and has not exited.
ImplementsTaskSwitching == Switching!Spec

(***************************************************************************)
(* What comments in the code say, and the code does not do.                *)
(***************************************************************************)
\* "Negative for any error" (SystemCall.cpp:20): a fork that returns a process
\* ID has copied the memory of its caller.
ForkReportsErrors ==
    Cur.fn = "copy" /\ Cur.caller = "user" /\ Cur.at = "enableStore" /\ Cur.task # NoTask
        => PGD[Cur.task] # NoTask
=============================================================================
