--------------------------- MODULE ExceptionVectors ---------------------------
(***************************************************************************)
(* The exception vectors (kernel/ExceptionVectors.S) and the registers     *)
(* that there is one of on the core: ELR_EL1, SPSR_EL1, SP_EL0, ESR_EL1,   *)
(* FAR_EL1 and DAIF.  Every exception overwrites some of them, so a        *)
(* handler that enables interrupts must have saved what it still needs.    *)
(*                                                                         *)
(* The scheduler is reduced to what matters here: it may hand the CPU to   *)
(* any task that exists and has not exited, and some code is guarded from  *)
(* that (see module Scheduler).                                            *)
(***************************************************************************)
EXTENDS Integers, Sequences, FiniteSets

CONSTANTS
    Task, InitTask, FirstTask,  \* FirstTask has been prepared by MoveToUserMode
    NoTask,
    UserStack,   \* the stack pointers that user programs set
    Addr,        \* the pages that user programs touch
    LastPC,      \* bound: instructions of a user program
    MaxNesting   \* bound: frames on a kernel stack

SYSCALL_COUNT == 3

ASSUME VectorsAssumption ==
    /\ InitTask \in Task /\ FirstTask \in Task \ {InitTask}
    /\ NoTask \notin [pc : 0 .. LastPC, sp : UserStack \union {0, 2},
                      x0 : -1 .. Cardinality(Task) - 1, number : 0 .. SYSCALL_COUNT]
    /\ IsFiniteSet(Task)
    /\ UserStack \subseteq Nat
    /\ Addr \subseteq Nat \ {0}
    /\ LastPC \in Nat /\ MaxNesting \in Nat \ {0}

VARIABLES
    cpu,     \* the task whose kernel stack is in use
    pc,      \* the program counter: a place in the kernel, or a user address
    x,       \* the registers: x0, the system call number, far_el1 and esr_el1 once read
    sp_el0, elr_el1, spsr_el1, esr_el1, far_el1,
    irq,     \* DAIF.I is clear
    stack,   \* the frames of kernel_entry on each kernel stack, oldest first
    context, \* TaskStruct::Context of the tasks that wait in cpu_switch_to
    mapped,  \* the pages that the page tables of each task map
    serving  \* (history) the call or data abort that each task is in the kernel for

registers == << sp_el0, elr_el1, spsr_el1, esr_el1, far_el1 >>

vars == << cpu, pc, x, registers, irq, stack, context, mapped, serving >>

-----------------------------------------------------------------------------
\* In user mode n is the address.  The places in the kernel: after enable_irq in
\* el0_svc and el0_da, a system call, do_mem_abort, handle_invalid_entry, before
\* and after disable_irq, the second half of kernel_exit, ScheduleImpl.
Place == {"user", "none", "svc", "call", "copy", "ret", "da", "abort", "report", "hang",
          "mask0", "mask1", "exit0", "exit1", "eret", "fork", "kmain",
          "schedule", "schedule0", "schedule1", "exited"}

Address == [at : Place, n : 0 .. LastPC]

At(place) == [at |-> place, n |-> 0]
User(n) == [at |-> "user", n |-> n]

Level(address) == IF address.at = "user" THEN "EL0" ELSE "EL1"

Registers == [x0 : -1 .. Cardinality(Task) - 1, number : 0 .. SYSCALL_COUNT, address : Addr \union {0},
              cause : {"none", "svc", "dabt"}]

NoRegisters == [x0 |-> 0, number |-> 0, address |-> 0, cause |-> "none"]

\* MoveToUserMode starts a program with StackPointer 2; 0 is for no stack.
Stack == UserStack \union {0, 2}

Frame == [x : Registers, sp : Stack, elr : Address, spsr : {"EL0", "EL1"}]

Nothing == [cause |-> "none", address |-> 0]

Top == stack[cpu][Len(stack[cpu])]

Created(t) == context[t].pc.at # "none" \/ t = cpu

\* DisablePreemptingInScope is alive, or a new task has not run schedule_tail.
Guarded == pc.at \in {"copy", "schedule", "schedule0", "schedule1", "exited", "fork"}

-----------------------------------------------------------------------------
Init ==
    /\ cpu = InitTask
    /\ pc = At("kmain")
    /\ x = NoRegisters
    /\ sp_el0 = 0 /\ elr_el1 = At("kmain") /\ spsr_el1 = "EL1"
    /\ esr_el1 = "none" /\ far_el1 = 0
    /\ irq = TRUE
    /\ stack = [t \in Task |-> IF t = FirstTask
                   THEN << [x |-> NoRegisters, sp |-> 2, elr |-> User(0), spsr |-> "EL0"] >>
                   ELSE << >>]
    /\ context = [t \in Task |->
                     [pc |-> At(IF t = FirstTask THEN "fork" ELSE "none"), x |-> NoRegisters]]
    /\ mapped = [t \in Task |-> {}]
    /\ serving = [t \in Task |-> Nothing]

-----------------------------------------------------------------------------
(***************************************************************************)
(* kernel_entry and kernel_exit.                                           *)
(***************************************************************************)
\* The hardware and kernel_entry: between the two nothing can come, since an
\* exception masks interrupts.  The EL1 stack pointer in a frame is never used.
KernelEntry(regs, address) ==
    /\ elr_el1' = address
    /\ spsr_el1' = Level(address)
    /\ stack' = [stack EXCEPT ![cpu] = Append(@,
           [x |-> regs, sp |-> IF Level(address) = "EL0" THEN sp_el0 ELSE 0,
            elr |-> address, spsr |-> Level(address)])]

\* Mutant: kernel_exit 0 does not restore sp_el0.
KeptStackPointer == sp_el0

RestoredStackPointer == IF pc.at = "exit0" THEN Top.sp ELSE sp_el0

KernelExitLoad ==
    /\ pc.at \in {"exit0", "exit1"}
    /\ sp_el0' = RestoredStackPointer
    /\ elr_el1' = Top.elr
    /\ spsr_el1' = Top.spsr
    /\ pc' = At("eret")
    /\ UNCHANGED << cpu, x, esr_el1, far_el1, irq, stack, context, mapped, serving >>

\* Mutant: the stack pointer is left at the frame.
NotPopped(frames) == frames

Popped(frames) == SubSeq(frames, 1, Len(frames) - 1)

KernelExitEret ==
    /\ pc.at = "eret"
    /\ x' = Top.x
    /\ stack' = [stack EXCEPT ![cpu] = Popped(@)]
    /\ pc' = elr_el1
    /\ irq' = TRUE
    /\ UNCHANGED << cpu, registers, context, mapped, serving >>

\* Mutant: a return without its call of disable_irq.
IrqStaysEnabled == TRUE

IrqAtReturn == FALSE

\* TimerTick's disable_irq after ScheduleImpl, el0_da's, and ret_to_user's.
DisableIrq ==
    /\ pc.at \in {"mask0", "mask1"}
    /\ irq' = IrqAtReturn
    /\ pc' = At(IF pc.at = "mask0" THEN "exit0" ELSE "exit1")
    /\ UNCHANGED << cpu, x, registers, stack, context, mapped, serving >>

-----------------------------------------------------------------------------
(***************************************************************************)
(* System calls.                                                           *)
(***************************************************************************)
InUserMode == pc.at = "user"

UserInstruction ==
    /\ InUserMode /\ pc.n < LastPC
    /\ \E sp \in UserStack : sp_el0' = sp
    /\ pc' = User(pc.n + 1)
    /\ UNCHANGED << cpu, x, elr_el1, spsr_el1, esr_el1, far_el1, irq, stack, context,
                    mapped, serving >>

\* sync_el0_64 and el0_svc up to enable_irq.
el0_svc ==
    /\ InUserMode /\ pc.n < LastPC
    /\ \E n \in 0 .. SYSCALL_COUNT :
         /\ x' = [x EXCEPT !.number = n]
         /\ KernelEntry([x EXCEPT !.number = n], User(pc.n + 1))
    /\ esr_el1' = "svc"
    /\ irq' = TRUE
    /\ pc' = At("svc")
    /\ serving' = [serving EXCEPT ![cpu] = [cause |-> "svc", address |-> 0]]
    /\ UNCHANGED << cpu, sp_el0, far_el1, context, mapped >>

InRange(n) == n < SYSCALL_COUNT

CheckNumber ==
    /\ pc.at = "svc"
    /\ pc' = At(IF InRange(x.number) THEN "call" ELSE "report")
    /\ UNCHANGED << cpu, x, registers, irq, stack, context, mapped, serving >>

\* SystemCallWrite returns nothing: x0 is whatever its last instruction left.
SystemCallWrite ==
    /\ pc.at = "call" /\ x.number = 0
    /\ \E n \in {0, 1} : x' = [x EXCEPT !.x0 = n]
    /\ pc' = At("ret")
    /\ UNCHANGED << cpu, registers, irq, stack, context, mapped, serving >>

SystemCallFork ==
    /\ pc.at = "call" /\ x.number = 1
    /\ pc' = At("copy")
    /\ UNCHANGED << cpu, x, registers, irq, stack, context, mapped, serving >>

\* Mutant: the registers of the child are not set to 0.
SameResult(frame) == frame

ChildResult(frame) == [frame EXCEPT !.x.x0 = 0]

ProcessID == Cardinality({t \in Task : Created(t)})

\* CopyProcess takes the frame at the far end of the running task's stack.
CopyProcess ==
    /\ pc.at = "copy"
    /\ \/ \E t \in Task :
            /\ ~Created(t)
            /\ stack' = [stack EXCEPT ![t] = << ChildResult(stack[cpu][1]) >>]
            /\ context' = [context EXCEPT ![t] = [pc |-> At("fork"), x |-> NoRegisters]]
            /\ mapped' = [mapped EXCEPT ![t] = mapped[cpu]]
            /\ x' = [x EXCEPT !.x0 = ProcessID]
       \/ x' = [x EXCEPT !.x0 = -1] /\ UNCHANGED << stack, context, mapped >>
    /\ pc' = At("ret")
    /\ UNCHANGED << cpu, registers, irq, serving >>

SystemCallExit ==
    /\ pc.at = "call" /\ x.number = 2
    /\ pc' = At("exited")
    /\ UNCHANGED << cpu, x, registers, irq, stack, context, mapped, serving >>

ret_from_syscall ==
    /\ pc.at = "ret"
    /\ irq' = IrqAtReturn
    /\ stack' = [stack EXCEPT ![cpu][Len(stack[cpu])].x.x0 = x.x0]
    /\ pc' = At("exit0")
    /\ serving' = [serving EXCEPT ![cpu] = Nothing]
    /\ UNCHANGED << cpu, x, registers, context, mapped >>

-----------------------------------------------------------------------------
(***************************************************************************)
(* Data aborts.                                                            *)
(***************************************************************************)
\* sync_el0_64 and el0_da up to enable_irq.
DataAbort ==
    /\ InUserMode
    /\ \E a \in Addr \ mapped[cpu] :
         /\ far_el1' = a
         /\ serving' = [serving EXCEPT ![cpu] = [cause |-> "dabt", address |-> a]]
    /\ KernelEntry(x, pc)
    /\ esr_el1' = "dabt"
    /\ irq' = TRUE
    /\ pc' = At("da")
    /\ UNCHANGED << cpu, x, sp_el0, context, mapped >>

el0_da ==
    /\ pc.at = "da"
    /\ x' = [x EXCEPT !.address = far_el1, !.cause = esr_el1]
    /\ pc' = At("abort")
    /\ UNCHANGED << cpu, registers, irq, stack, context, mapped, serving >>

\* Without a page, or if the syndrome is not that of a translation fault, the
\* abort is not handled.
do_mem_abort ==
    /\ pc.at = "abort"
    /\ \/ /\ x.cause = "dabt"
          /\ mapped' = [mapped EXCEPT ![cpu] = @ \union {x.address}]
          /\ serving' = [serving EXCEPT ![cpu] = Nothing]
          /\ pc' = At("mask0")
       \/ pc' = At("report") /\ UNCHANGED << mapped, serving >>
    /\ UNCHANGED << cpu, x, registers, irq, stack, context >>

\* handle_invalid_entry reads esr_el1 and elr_el1 and goes to err_hang; the frame
\* that it pushes before is never used.
handle_invalid_entry ==
    /\ pc.at = "report"
    /\ pc' = At("hang")
    /\ UNCHANGED << cpu, x, registers, irq, stack, context, mapped, serving >>

-----------------------------------------------------------------------------
(***************************************************************************)
(* Timer interrupts and task switches.                                     *)
(***************************************************************************)
\* A tick that does not preempt: kernel_entry, handle_irq and kernel_exit with
\* interrupts masked, so that only elr_el1 and spsr_el1 show it.
TickReturns ==
    /\ irq
    /\ elr_el1' = pc
    /\ spsr_el1' = Level(pc)
    /\ UNCHANGED << cpu, pc, x, sp_el0, esr_el1, far_el1, irq, stack, context, mapped, serving >>

\* One that does: TimerTick enables interrupts and calls ScheduleImpl.
TickPreempts ==
    /\ irq /\ ~Guarded
    /\ Len(stack[cpu]) < MaxNesting
    /\ KernelEntry(x, pc)
    /\ x' = NoRegisters
    /\ pc' = At(IF Level(pc) = "EL0" THEN "schedule0" ELSE "schedule1")
    /\ UNCHANGED << cpu, sp_el0, esr_el1, far_el1, irq, context, mapped, serving >>

\* kmain's loop.
Schedule ==
    /\ pc.at = "kmain"
    /\ pc' = At("schedule")
    /\ UNCHANGED << cpu, x, registers, irq, stack, context, mapped, serving >>

\* Where ScheduleImpl returns to.
AfterSchedule(address) ==
    CASE address.at = "schedule"  -> At("kmain")
      [] address.at = "schedule0" -> At("mask0")
      [] address.at = "schedule1" -> At("mask1")
      [] address.at = "exited"    -> At("exited")

ScheduleImpl ==
    /\ pc.at \in {"schedule", "schedule0", "schedule1", "exited"}
    /\ LET left == [context EXCEPT ![cpu] = [pc |-> AfterSchedule(pc), x |-> x]]
       IN  \E t \in Task :
             /\ Created(t) /\ left[t].pc.at # "exited"
             /\ cpu' = t
             /\ pc' = left[t].pc
             /\ x' = left[t].x
             /\ context' = left
    /\ UNCHANGED << registers, irq, stack, mapped, serving >>

\* schedule_tail, and on to ret_to_user.
ret_from_fork ==
    /\ pc.at = "fork"
    /\ pc' = At("mask0")
    /\ UNCHANGED << cpu, x, registers, irq, stack, context, mapped, serving >>

-----------------------------------------------------------------------------
Next ==
    \/ KernelExitLoad \/ KernelExitEret \/ DisableIrq
    \/ UserInstruction \/ el0_svc \/ CheckNumber \/ SystemCallWrite \/ SystemCallFork
    \/ CopyProcess \/ SystemCallExit \/ ret_from_syscall
    \/ DataAbort \/ el0_da \/ do_mem_abort \/ handle_invalid_entry
    \/ TickReturns \/ TickPreempts \/ Schedule \/ ScheduleImpl \/ ret_from_fork

Spec == Init /\ [][Next]_vars

-----------------------------------------------------------------------------
(***************************************************************************)
(* Properties.                                                             *)
(***************************************************************************)
\* Every variable has its type.
TypeOK ==
    /\ cpu \in Task
    /\ pc \in Address
    /\ x \in Registers
    /\ sp_el0 \in Stack /\ elr_el1 \in Address /\ spsr_el1 \in {"EL0", "EL1"}
    /\ esr_el1 \in {"none", "svc", "dabt"} /\ far_el1 \in Addr \union {0}
    /\ irq \in BOOLEAN
    /\ stack \in [Task -> Seq(Frame)]
    /\ context \in [Task -> [pc : Address, x : Registers]]
    /\ mapped \in [Task -> SUBSET Addr]
    /\ serving \in [Task -> [cause : {"none", "svc", "dabt"}, address : Addr \union {0}]]

\* The kernel stack of a task is empty in user mode, and otherwise the first
\* frame on it, and no other, is of an exception from user mode: CopyProcess and
\* MoveToUserMode take the state of a user process from that place.
FirstFrameIsUser ==
    /\ InUserMode => stack[cpu] = << >>
    /\ \A t \in Task : \A i \in 1 .. Len(stack[t]) :
          (stack[t][i].spsr = "EL0") <=> (i = 1 /\ t # InitTask)

\* When eret is executed, elr_el1 and spsr_el1 still are those of the frame that
\* kernel_exit restores: no other exception has come since they were loaded.
EretReturnsToFrame ==
    pc.at = "eret" => elr_el1 = Top.elr /\ spsr_el1 = Top.spsr

\* The machine of a task, as UserMachine sees it: the registers of the core while
\* it is in user mode, the first frame on its kernel stack while it is not.
Machine(t) ==
    IF t = cpu /\ InUserMode
    THEN [pc |-> pc.n, sp |-> sp_el0, x0 |-> x.x0, number |-> x.number]
    ELSE IF stack[t] = << >> THEN NoTask
    ELSE LET frame == stack[t][1]
         IN  [pc |-> frame.elr.n, sp |-> frame.sp, x0 |-> frame.x.x0, number |-> frame.x.number]

UserTask == Task \ {InitTask}

\* A system call has returned when ret_from_syscall has stored its result.
Calling == {t \in UserTask : serving[t].cause = "svc"}

UserMachines ==
    INSTANCE UserMachine WITH
        Task <- UserTask, Stack <- UserStack, Number <- 0 .. SYSCALL_COUNT,
        Result <- -1 .. Cardinality(Task) - 1,
        user <- [t \in UserTask |-> Machine(t)], calling <- Calling

\* Each user program sees a machine of its own: whatever interrupts, faults and
\* task switches come in between, it goes on where it was, with its registers
\* and stack pointer; the child of a fork goes on where its parent called.
ImplementsUserMachine == UserMachines!Spec

(***************************************************************************)
(* What comments in the code say, and the code does not do.                *)
(***************************************************************************)
\* "load the faulting virtual address into argument 1", "load the syndrome
\* information for the fault into argument 2" (ExceptionVectors.S:190-191).
AbortArguments ==
    pc.at = "abort" => x.address = serving[cpu].address /\ x.cause = "dabt"
=============================================================================
