----------------------- MODULE ExceptionVectorsProofs -----------------------
(***************************************************************************)
(* That the kernel stacks of ExceptionVectors always hold the frames that  *)
(* CopyProcess, MoveToUserMode and kernel_exit take them for, for any      *)
(* number of tasks, programs of any length and frames of any depth.        *)
(***************************************************************************)
EXTENDS ExceptionVectors, FiniteSetTheorems, SequenceTheorems, TLAPS

(***************************************************************************)
(* The invariant.                                                          *)
(***************************************************************************)
\* TypeOK but for mapped and serving, which no other variable depends on.
StateTypes ==
    /\ cpu \in Task /\ pc \in Address /\ x \in Registers
    /\ sp_el0 \in Stack /\ elr_el1 \in Address /\ spsr_el1 \in {"EL0", "EL1"}
    /\ esr_el1 \in {"none", "svc", "dabt"} /\ far_el1 \in Addr \union {0}
    /\ irq \in BOOLEAN
    /\ stack \in [Task -> Seq(Frame)]
    /\ context \in [Task -> [pc : Address, x : Registers]]

\* Between disable_irq and eret interrupts are masked.
Masked == {"exit0", "exit1", "eret"}

\* Where kmain's task can be, and which of these places are inside an interrupt.
KmainPlace == {"kmain", "schedule", "schedule1", "mask1", "exit1", "eret"}

InsideTick == {"schedule1", "mask1", "exit1", "eret"}

\* A frame at index i of the stack of t.
FrameOK(t, i, frame) ==
    /\ frame.spsr = Level(frame.elr)
    /\ frame.elr.at \notin Masked
    /\ frame.spsr = "EL0" <=> i = 1 /\ t # InitTask
    /\ t = InitTask => frame.elr.at \in KmainPlace /\ (frame.elr.at \in InsideTick => i > 1)

FramesOK == \A t \in Task : \A i \in 1 .. Len(stack[t]) : FrameOK(t, i, stack[t][i])

\* A task at an address with the frames s: a user process is either in user mode or
\* has the frame of the exception by which it left it.
Standing(t, address, s) ==
    IF t = InitTask
    THEN address.at \in KmainPlace /\ (address.at \in InsideTick => s # << >>)
    ELSE address.at = "user" <=> s = << >>

WaitsAt == {"none", "fork", "kmain", "mask0", "mask1", "exited"}

TasksOK ==
    /\ Standing(cpu, pc, stack[cpu])
    /\ \A t \in Task \ {cpu} :
         /\ context[t].pc.at \in WaitsAt
         /\ context[t].pc.at # "none" => Standing(t, context[t].pc, stack[t])
    /\ cpu # InitTask => context[InitTask].pc.at # "none"

VectorsInv ==
    StateTypes /\ FramesOK /\ TasksOK /\ (pc.at \in Masked => ~irq) /\ EretReturnsToFrame

-----------------------------------------------------------------------------
(***************************************************************************)
(* The frames.                                                             *)
(***************************************************************************)
LEMMA PlaceTypes ==
    /\ \A place \in Place : At(place) \in Address /\ At(place).at = place
    /\ \A n \in 0 .. LastPC : User(n) \in Address /\ User(n).at = "user"
    /\ \A address \in Address : Level(address) \in {"EL0", "EL1"}
                                /\ (Level(address) = "EL0" <=> address.at = "user")
<1>1. \A place \in Place : At(place) \in Address /\ At(place).at = place
  BY VectorsAssumption DEF At, Address
<1>2. \A n \in 0 .. LastPC : User(n) \in Address /\ User(n).at = "user"
  BY DEF User, Address, Place
<1> QED
  BY <1>1, <1>2 DEF Level

\* A user process that is not in user mode, and kmain inside a tick, have a frame.
LEMMA HasFrame ==
    ASSUME VectorsInv,
           pc.at # "user", pc.at \in KmainPlace => pc.at \in InsideTick
    PROVE  /\ stack[cpu] \in Seq(Frame) /\ Len(stack[cpu]) \in Nat \ {0}
           /\ Top \in Frame /\ FrameOK(cpu, Len(stack[cpu]), Top)
<1>1. stack[cpu] \in Seq(Frame) /\ stack[cpu] # << >>
  BY DEF VectorsInv, StateTypes, TasksOK, Standing
<1>2. Len(stack[cpu]) \in Nat \ {0}
  BY <1>1
<1>3. Top \in Frame
  BY <1>1, <1>2 DEF Top
<1>4. FrameOK(cpu, Len(stack[cpu]), Top)
  BY <1>2 DEF VectorsInv, FramesOK, StateTypes, Top
<1> QED
  BY <1>1, <1>2, <1>3, <1>4

\* A step that moves only the running task, and no frame.
LEMMA QuietStep ==
    ASSUME VectorsInv, StateTypes',
           UNCHANGED << cpu, stack, context >>,
           Standing(cpu, pc', stack[cpu]),
           pc'.at \in Masked => ~irq',
           EretReturnsToFrame'
    PROVE  VectorsInv'
<1>1. FramesOK'
  BY DEF VectorsInv, FramesOK, FrameOK
<1>2. TasksOK'
  BY DEF VectorsInv, TasksOK, Standing
<1> QED
  BY <1>1, <1>2 DEF VectorsInv

\* kernel_entry where the running task may be interrupted.
LEMMA PushStep ==
    ASSUME VectorsInv, NEW regs \in Registers, NEW address \in Address,
           Standing(cpu, address, stack[cpu]), address.at \notin Masked,
           KernelEntry(regs, address), UNCHANGED << cpu, context >>
    PROVE  /\ stack' \in [Task -> Seq(Frame)]
           /\ FramesOK'
           /\ elr_el1' \in Address /\ spsr_el1' \in {"EL0", "EL1"}
           /\ stack'[cpu] # << >>
           /\ \A t \in Task \ {cpu} : stack'[t] = stack[t]
<1> DEFINE frame == [x |-> regs, sp |-> IF Level(address) = "EL0" THEN sp_el0 ELSE 0,
                     elr |-> address, spsr |-> Level(address)]
<1>1. cpu \in Task /\ stack \in [Task -> Seq(Frame)] /\ stack[cpu] \in Seq(Frame)
  BY DEF VectorsInv, StateTypes
<1>2. Level(address) \in {"EL0", "EL1"} /\ (Level(address) = "EL0" <=> address.at = "user")
  BY PlaceTypes
<1>3. frame \in Frame
  BY <1>2 DEF VectorsInv, StateTypes, Frame, Stack
<1>4. stack' = [stack EXCEPT ![cpu] = Append(@, frame)]
      /\ elr_el1' = address /\ spsr_el1' = Level(address)
  BY DEF KernelEntry
<1> HIDE DEF frame
<1>5. /\ stack'[cpu] = Append(stack[cpu], frame)
      /\ stack' \in [Task -> Seq(Frame)]
      /\ \A t \in Task \ {cpu} : stack'[t] = stack[t]
  BY <1>1, <1>3, <1>4
<1>6. FrameOK(cpu, Len(stack[cpu]) + 1, frame)
  <2>1. Len(stack[cpu]) \in Nat /\ (stack[cpu] = << >> <=> Len(stack[cpu]) = 0)
    BY <1>1
  <2>2. frame.elr = address /\ frame.spsr = Level(address)
    BY DEF frame
  <2>3. CASE cpu = InitTask
    BY <1>2, <2>1, <2>2, <2>3 DEF FrameOK, Standing, KmainPlace
  <2>4. CASE cpu # InitTask
    BY <1>2, <2>1, <2>2, <2>4 DEF FrameOK, Standing
  <2> QED
    BY <2>3, <2>4
<1>7. FramesOK'
  <2> SUFFICES ASSUME NEW t \in Task, NEW i \in 1 .. Len(stack'[t])
               PROVE  FrameOK(t, i, stack'[t][i])
    BY DEF FramesOK, FrameOK
  <2>1. CASE t # cpu
    BY <1>5, <2>1 DEF VectorsInv, FramesOK
  <2>2. CASE t = cpu /\ i # Len(stack[cpu]) + 1
    <3>1. i \in 1 .. Len(stack[cpu]) /\ stack'[t][i] = stack[t][i]
      BY <1>1, <1>3, <1>5, <2>2
    <3> QED
      BY <2>2, <3>1 DEF VectorsInv, FramesOK
  <2>3. CASE t = cpu /\ i = Len(stack[cpu]) + 1
    <3>1. stack'[t][i] = frame
      BY <1>1, <1>3, <1>5, <2>3
    <3> QED
      BY <1>6, <2>3, <3>1
  <2> QED
    BY <2>1, <2>2, <2>3
<1>8. stack'[cpu] # << >>
  BY <1>1, <1>3, <1>5
<1> QED
  BY <1>2, <1>4, <1>5, <1>7, <1>8

\* There is a user process besides kmain's task, so 0 and 1 are results of calls.
LEMMA TaskCount == Cardinality(Task) \in Nat /\ Cardinality(Task) >= 2
<1>1. Cardinality(Task) \in Nat /\ IsFiniteSet(Task)
  BY VectorsAssumption, FS_CardinalityType
<1>2. IsFiniteSet({InitTask}) /\ Cardinality({InitTask}) = 1
  BY FS_Singleton
<1>3. {InitTask} \in SUBSET Task /\ {InitTask} # Task
  BY VectorsAssumption
<1>4. 1 <= Cardinality(Task) /\ Cardinality(Task) # 1
  BY <1>1, <1>2, <1>3, FS_Subset
<1> QED
  BY <1>1, <1>4

LEMMA NoRegistersType == NoRegisters \in Registers
BY TaskCount DEF NoRegisters, Registers, SYSCALL_COUNT

\* The process ID of a new task is positive and one that a result can have.
LEMMA ProcessIDInRange ==
    ASSUME cpu \in Task, NEW t \in Task, ~Created(t)
    PROVE  ProcessID \in 1 .. Cardinality(Task) - 1
<1> DEFINE created == {u \in Task : Created(u)}
<1>1. IsFiniteSet(Task \ {t}) /\ Cardinality(Task \ {t}) = Cardinality(Task) - 1
  BY VectorsAssumption, FS_RemoveElement
<1>2. created \in SUBSET (Task \ {t}) /\ cpu \in created
  BY DEF Created
<1>3. IsFiniteSet(created) /\ Cardinality(created) <= Cardinality(Task) - 1
  BY <1>1, <1>2, FS_Subset
<1>4. Cardinality(created) \in Nat /\ Cardinality(created) # 0
  BY <1>2, <1>3, FS_CardinalityType, FS_EmptySet
<1>5. ProcessID = Cardinality(created)
  BY DEF ProcessID
<1> HIDE DEF created
<1> QED
  BY <1>3, <1>4, <1>5, TaskCount

-----------------------------------------------------------------------------
(***************************************************************************)
(* Each step keeps the invariant.                                          *)
(***************************************************************************)
LEMMA InitHolds == Init => VectorsInv
<1> SUFFICES ASSUME Init PROVE VectorsInv
  OBVIOUS
<1> DEFINE first == [x |-> NoRegisters, sp |-> 2, elr |-> User(0), spsr |-> "EL0"]
<1>1. NoRegisters \in Registers
  BY NoRegistersType
<1>2. User(0) \in Address /\ User(0).at = "user" /\ Level(User(0)) = "EL0"
  BY VectorsAssumption, PlaceTypes
<1>3. first \in Frame
  BY <1>1, <1>2 DEF Frame, Stack
<1> HIDE DEF first
<1>4. stack = [t \in Task |-> IF t = FirstTask THEN << first >> ELSE << >>]
  BY DEF Init, first
<1>5. stack \in [Task -> Seq(Frame)]
  BY <1>3, <1>4
<1>6. /\ At("kmain") \in Address /\ At("kmain").at = "kmain"
      /\ At("fork") \in Address /\ At("fork").at = "fork"
      /\ At("none") \in Address /\ At("none").at = "none"
  BY PlaceTypes DEF Place
<1>7. context \in [Task -> [pc : Address, x : Registers]]
  BY <1>1, <1>6 DEF Init
<1>8. StateTypes
  BY VectorsAssumption, <1>1, <1>5, <1>6, <1>7 DEF Init, StateTypes, Stack
<1>9. FramesOK
  <2> SUFFICES ASSUME NEW t \in Task, NEW i \in 1 .. Len(stack[t])
               PROVE  FrameOK(t, i, stack[t][i])
    BY DEF FramesOK
  <2>1. t = FirstTask /\ i = 1 /\ stack[t][i] = first
    BY <1>4
  <2>2. first.elr = User(0) /\ first.spsr = "EL0"
    BY DEF first
  <2> QED
    BY VectorsAssumption, <1>2, <2>1, <2>2 DEF FrameOK, Masked
<1>10. TasksOK
  <2>1. Standing(cpu, pc, stack[cpu])
    BY <1>6 DEF Init, Standing, KmainPlace, InsideTick
  <2>2. ASSUME NEW t \in Task \ {cpu}
        PROVE  /\ context[t].pc.at \in WaitsAt
               /\ context[t].pc.at # "none" => Standing(t, context[t].pc, stack[t])
    <3>1. CASE t = FirstTask
      BY <1>4, <1>6, <2>2, <3>1 DEF Init, WaitsAt, Standing
    <3>2. CASE t # FirstTask
      BY <1>6, <2>2, <3>2 DEF Init, WaitsAt
    <3> QED
      BY <3>1, <3>2
  <2> QED
    BY <2>1, <2>2 DEF Init, TasksOK
<1> QED
  BY <1>6, <1>8, <1>9, <1>10 DEF Init, VectorsInv, Masked, EretReturnsToFrame

LEMMA KernelExitLoadKeeps == VectorsInv /\ KernelExitLoad => VectorsInv'
<1> SUFFICES ASSUME VectorsInv, KernelExitLoad PROVE VectorsInv'
  OBVIOUS
<1>1. At("eret") \in Address /\ At("eret").at = "eret"
  BY PlaceTypes DEF Place
<1>2. Top \in Frame /\ stack[cpu] # << >> /\ Standing(cpu, pc', stack[cpu])
  <2>1. Top \in Frame /\ Len(stack[cpu]) \in Nat \ {0}
    BY HasFrame DEF KernelExitLoad, KmainPlace, InsideTick
  <2>2. cpu = InitTask => pc.at \in KmainPlace
    BY DEF VectorsInv, TasksOK, Standing
  <2> QED
    BY <1>1, <2>1 DEF KernelExitLoad, Standing, KmainPlace
<1>3. StateTypes'
  BY <1>1, <1>2 DEF VectorsInv, StateTypes, KernelExitLoad, RestoredStackPointer, Frame
<1>4. ~irq'
  BY DEF VectorsInv, KernelExitLoad, Masked
<1>5. EretReturnsToFrame'
  BY DEF EretReturnsToFrame, KernelExitLoad, Top
<1> QED
  BY <1>2, <1>3, <1>4, <1>5, QuietStep DEF KernelExitLoad

\* The steps that change neither a frame, nor the saved state, nor who runs, and go
\* on outside kernel_exit.
LEMMA MoveKeeps ==
    ASSUME VectorsInv, StateTypes',
           UNCHANGED << cpu, stack, context >>,
           pc'.at \notin Masked,
           pc'.at = "user" => pc.at = "user",
           pc.at = "user" => pc'.at = "user",
           pc.at \in KmainPlace => pc'.at \in KmainPlace /\ (pc'.at \in InsideTick => pc.at \in InsideTick)
    PROVE  VectorsInv'
<1>1. Standing(cpu, pc', stack[cpu])
  BY DEF VectorsInv, TasksOK, Standing
<1>2. EretReturnsToFrame'
  BY DEF EretReturnsToFrame, Masked
<1> QED
  BY <1>1, <1>2, QuietStep

LEMMA MovesKeep ==
    VectorsInv /\ (\/ UserInstruction \/ CheckNumber \/ SystemCallWrite \/ SystemCallFork
                   \/ SystemCallExit \/ el0_da \/ do_mem_abort \/ handle_invalid_entry
                   \/ Schedule \/ ret_from_fork)
    => VectorsInv'
<1> SUFFICES ASSUME VectorsInv,
                    \/ UserInstruction \/ CheckNumber \/ SystemCallWrite \/ SystemCallFork
                    \/ SystemCallExit \/ el0_da \/ do_mem_abort \/ handle_invalid_entry
                    \/ Schedule \/ ret_from_fork
             PROVE  VectorsInv'
  OBVIOUS
<1> USE DEF VectorsInv, StateTypes
<1>1. CASE UserInstruction
  <2>1. pc'.at = "user" /\ pc.at = "user" /\ pc' \in Address
    BY <1>1, VectorsAssumption, PlaceTypes DEF UserInstruction, InUserMode, Address
  <2>2. StateTypes'
    BY <1>1, <2>1 DEF UserInstruction, Stack
  <2> QED
    BY <1>1, <2>1, <2>2, MoveKeeps DEF UserInstruction, Masked, KmainPlace
<1>2. CASE CheckNumber
  <2>1. pc.at = "svc" /\ pc'.at \in {"call", "report"} /\ pc' \in Address
    BY <1>2, PlaceTypes DEF CheckNumber, Place
  <2>2. StateTypes'
    BY <1>2, <2>1 DEF CheckNumber, registers
  <2> QED
    BY <1>2, <2>1, <2>2, MoveKeeps DEF CheckNumber, Masked, KmainPlace
<1>3. CASE SystemCallWrite
  <2>1. pc.at = "call" /\ pc'.at = "ret" /\ pc' \in Address
    BY <1>3, PlaceTypes DEF SystemCallWrite, Place
  <2>2. x' \in Registers
    <3>1. PICK n \in {0, 1} : x' = [x EXCEPT !.x0 = n]
      BY <1>3 DEF SystemCallWrite
    <3>2. n \in -1 .. Cardinality(Task) - 1 /\ x \in Registers
      BY TaskCount
    <3> QED
      BY <3>1, <3>2 DEF Registers
  <2>3. StateTypes'
    BY <1>3, <2>1, <2>2 DEF SystemCallWrite, registers
  <2> QED
    BY <1>3, <2>1, <2>3, MoveKeeps DEF SystemCallWrite, Masked, KmainPlace
<1>4. CASE SystemCallFork
  <2>1. pc.at = "call" /\ pc'.at = "copy" /\ pc' \in Address
    BY <1>4, PlaceTypes DEF SystemCallFork, Place
  <2>2. StateTypes'
    BY <1>4, <2>1 DEF SystemCallFork, registers
  <2> QED
    BY <1>4, <2>1, <2>2, MoveKeeps DEF SystemCallFork, Masked, KmainPlace
<1>5. CASE SystemCallExit
  <2>1. pc.at = "call" /\ pc'.at = "exited" /\ pc' \in Address
    BY <1>5, PlaceTypes DEF SystemCallExit, Place
  <2>2. StateTypes'
    BY <1>5, <2>1 DEF SystemCallExit, registers
  <2> QED
    BY <1>5, <2>1, <2>2, MoveKeeps DEF SystemCallExit, Masked, KmainPlace
<1>6. CASE el0_da
  <2>1. pc.at = "da" /\ pc'.at = "abort" /\ pc' \in Address
    BY <1>6, PlaceTypes DEF el0_da, Place
  <2>2. x' \in Registers
    BY <1>6 DEF el0_da, Registers
  <2>3. StateTypes'
    BY <1>6, <2>1, <2>2 DEF el0_da, registers
  <2> QED
    BY <1>6, <2>1, <2>3, MoveKeeps DEF el0_da, Masked, KmainPlace
<1>7. CASE do_mem_abort
  <2>1. pc.at = "abort" /\ pc'.at \in {"mask0", "report"} /\ pc' \in Address
    BY <1>7, PlaceTypes DEF do_mem_abort, Place
  <2>2. StateTypes'
    BY <1>7, <2>1 DEF do_mem_abort, registers
  <2> QED
    BY <1>7, <2>1, <2>2, MoveKeeps DEF do_mem_abort, Masked, KmainPlace
<1>8. CASE handle_invalid_entry
  <2>1. pc.at = "report" /\ pc'.at = "hang" /\ pc' \in Address
    BY <1>8, PlaceTypes DEF handle_invalid_entry, Place
  <2>2. StateTypes'
    BY <1>8, <2>1 DEF handle_invalid_entry, registers
  <2> QED
    BY <1>8, <2>1, <2>2, MoveKeeps DEF handle_invalid_entry, Masked, KmainPlace
<1>9. CASE Schedule
  <2>1. pc.at = "kmain" /\ pc'.at = "schedule" /\ pc' \in Address
    BY <1>9, PlaceTypes DEF Schedule, Place
  <2>2. StateTypes'
    BY <1>9, <2>1 DEF Schedule, registers
  <2> QED
    BY <1>9, <2>1, <2>2, MoveKeeps DEF Schedule, Masked, KmainPlace, InsideTick
<1>10. CASE ret_from_fork
  <2>1. pc.at = "fork" /\ pc'.at = "mask0" /\ pc' \in Address
    BY <1>10, PlaceTypes DEF ret_from_fork, Place
  <2>2. StateTypes'
    BY <1>10, <2>1 DEF ret_from_fork, registers
  <2> QED
    BY <1>10, <2>1, <2>2, MoveKeeps DEF ret_from_fork, Masked, KmainPlace
<1> QED
  BY <1>1, <1>2, <1>3, <1>4, <1>5, <1>6, <1>7, <1>8, <1>9, <1>10

LEMMA DisableIrqKeeps == VectorsInv /\ DisableIrq => VectorsInv'
<1> SUFFICES ASSUME VectorsInv, DisableIrq PROVE VectorsInv'
  OBVIOUS
<1>1. /\ pc'.at \in {"exit0", "exit1"} /\ pc' \in Address
      /\ pc.at = "mask0" => pc'.at = "exit0"
      /\ pc.at = "mask1" => pc'.at = "exit1"
  BY PlaceTypes DEF DisableIrq, Place
<1>2. StateTypes'
  BY <1>1 DEF VectorsInv, StateTypes, DisableIrq, IrqAtReturn, registers
<1>3. Standing(cpu, pc', stack[cpu])
  <2>1. pc.at \in {"mask0", "mask1"}
    BY DEF DisableIrq
  <2>2. CASE cpu = InitTask
    BY <1>1, <2>1, <2>2 DEF VectorsInv, TasksOK, Standing, KmainPlace, InsideTick
  <2>3. CASE cpu # InitTask
    BY <1>1, <2>1, <2>3 DEF VectorsInv, TasksOK, Standing
  <2> QED
    BY <2>2, <2>3
<1>4. ~irq' /\ EretReturnsToFrame'
  BY <1>1 DEF DisableIrq, IrqAtReturn, EretReturnsToFrame
<1> QED
  BY <1>2, <1>3, <1>4, QuietStep DEF DisableIrq

\* A tick may overwrite elr_el1 and spsr_el1 only where nothing needs them.
LEMMA TickReturnsKeeps == VectorsInv /\ TickReturns => VectorsInv'
<1> SUFFICES ASSUME VectorsInv, TickReturns PROVE VectorsInv'
  OBVIOUS
<1>1. StateTypes'
  BY PlaceTypes DEF VectorsInv, StateTypes, TickReturns
<1>2. pc'.at \notin Masked
  BY DEF VectorsInv, TickReturns
<1> QED
  BY <1>1, <1>2, MoveKeeps DEF TickReturns

LEMMA PushesKeep == VectorsInv /\ (el0_svc \/ DataAbort \/ TickPreempts) => VectorsInv'
<1> SUFFICES ASSUME VectorsInv, el0_svc \/ DataAbort \/ TickPreempts PROVE VectorsInv'
  OBVIOUS
<1>1. /\ pc \in Address /\ pc.at \notin Masked /\ Standing(cpu, pc, stack[cpu])
      /\ UNCHANGED << cpu, context >> /\ cpu \in Task /\ x \in Registers
  BY DEF VectorsInv, StateTypes, TasksOK, el0_svc, DataAbort, TickPreempts, InUserMode, Masked
<1>2. /\ stack' \in [Task -> Seq(Frame)] /\ FramesOK'
      /\ elr_el1' \in Address /\ spsr_el1' \in {"EL0", "EL1"}
      /\ stack'[cpu] # << >>
      /\ \A t \in Task \ {cpu} : stack'[t] = stack[t]
      /\ x' \in Registers
  <2>1. CASE el0_svc
    <3>1. PICK n \in 0 .. SYSCALL_COUNT :
             /\ x' = [x EXCEPT !.number = n]
             /\ KernelEntry([x EXCEPT !.number = n], User(pc.n + 1))
      BY <2>1 DEF el0_svc
    <3>2. x' \in Registers /\ KernelEntry(x', User(pc.n + 1))
      BY <1>1, <3>1 DEF Registers
    <3>3. pc.n + 1 \in 0 .. LastPC
      BY <1>1, <2>1, VectorsAssumption DEF el0_svc, Address
    <3>4. User(pc.n + 1) \in Address /\ User(pc.n + 1).at = "user"
      BY <3>3, PlaceTypes
    <3>5. Standing(cpu, User(pc.n + 1), stack[cpu]) /\ User(pc.n + 1).at \notin Masked
      BY <1>1, <2>1, <3>4 DEF el0_svc, InUserMode, Standing, KmainPlace, Masked
    <3> QED
      BY <1>1, <3>2, <3>4, <3>5, PushStep
  <2>2. CASE DataAbort
    BY <1>1, <2>2, PushStep DEF DataAbort
  <2>3. CASE TickPreempts
    <3>1. NoRegisters \in Registers
      BY NoRegistersType
    <3> QED
      BY <1>1, <2>3, <3>1, PushStep DEF TickPreempts
  <2> QED
    BY <2>1, <2>2, <2>3
<1>3. /\ pc' \in Address /\ pc'.at \in {"svc", "da", "schedule0", "schedule1"}
      /\ cpu = InitTask => pc'.at = "schedule1"
  <2>1. cpu = InitTask => pc.at \in KmainPlace
    BY <1>1 DEF Standing
  <2>2. CASE el0_svc \/ DataAbort
    BY <2>1, <2>2, PlaceTypes DEF el0_svc, DataAbort, InUserMode, KmainPlace, Place
  <2>3. CASE TickPreempts
    BY <1>1, <2>1, <2>3, PlaceTypes DEF TickPreempts, KmainPlace, Place
  <2> QED
    BY <2>2, <2>3
<1>4. StateTypes'
  <2>1. /\ esr_el1' \in {"none", "svc", "dabt"} /\ far_el1' \in Addr \union {0}
        /\ irq' \in BOOLEAN /\ sp_el0' = sp_el0
    BY DEF VectorsInv, StateTypes, el0_svc, DataAbort, TickPreempts
  <2> QED
    BY <1>1, <1>2, <1>3, <2>1 DEF VectorsInv, StateTypes
<1>5. TasksOK'
  BY <1>1, <1>2, <1>3 DEF VectorsInv, TasksOK, Standing, KmainPlace
<1> QED
  BY <1>2, <1>3, <1>4, <1>5 DEF VectorsInv, Masked, EretReturnsToFrame

LEMMA KernelExitEretKeeps == VectorsInv /\ KernelExitEret => VectorsInv'
<1> SUFFICES ASSUME VectorsInv, KernelExitEret PROVE VectorsInv'
  OBVIOUS
<1> DEFINE s == stack[cpu]
           rest == Popped(s)
<1>1. /\ s \in Seq(Frame) /\ Len(s) \in Nat \ {0}
      /\ Top \in Frame /\ FrameOK(cpu, Len(s), Top)
  BY HasFrame DEF KernelExitEret, KmainPlace, InsideTick
<1>2. /\ rest \in Seq(Frame) /\ Len(rest) = Len(s) - 1
      /\ \A i \in 1 .. Len(rest) : rest[i] = s[i]
  BY <1>1 DEF Popped
<1>3. rest = << >> <=> Len(s) = 1
  <2> HIDE DEF rest
  <2>1. Len(s) \in Nat \ {0} /\ rest \in Seq(Frame) /\ Len(rest) = Len(s) - 1
    BY <1>1, <1>2
  <2>2. rest = << >> <=> Len(rest) = 0
    BY <2>1, EmptySeq
  <2> QED
    BY <2>1, <2>2
<1>4. cpu \in Task /\ stack \in [Task -> Seq(Frame)] /\ cpu' = cpu /\ context' = context
  BY DEF VectorsInv, StateTypes, KernelExitEret
<1>5. stack' = [stack EXCEPT ![cpu] = rest]
  BY DEF KernelExitEret
<1> HIDE DEF rest
<1>6. /\ stack' \in [Task -> Seq(Frame)] /\ stack'[cpu] = rest
      /\ \A t \in Task \ {cpu} : stack'[t] = stack[t]
  BY <1>2, <1>4, <1>5
<1>7. pc' = Top.elr /\ x' = Top.x /\ pc' \in Address /\ x' \in Registers
  BY <1>1 DEF VectorsInv, EretReturnsToFrame, KernelExitEret, Frame
<1>8. StateTypes'
  BY <1>4, <1>6, <1>7 DEF VectorsInv, StateTypes, KernelExitEret, registers
<1>9. FramesOK'
  <2> SUFFICES ASSUME NEW t \in Task, NEW i \in 1 .. Len(stack'[t])
               PROVE  FrameOK(t, i, stack'[t][i])
    BY DEF FramesOK, FrameOK
  <2>1. i \in 1 .. Len(stack[t]) /\ stack'[t][i] = stack[t][i]
    BY <1>1, <1>2, <1>6
  <2> QED
    BY <2>1 DEF VectorsInv, FramesOK
<1>10. Standing(cpu, pc', rest)
  <2>1. Level(Top.elr) = "EL0" <=> Top.elr.at = "user"
    BY DEF Level
  <2>2. CASE cpu = InitTask
    <3>1. pc'.at \in KmainPlace /\ (pc'.at \in InsideTick => Len(s) # 1)
      <4>1. pc'.at \in KmainPlace /\ (pc'.at \in InsideTick => Len(s) > 1)
        BY <1>1, <1>7, <2>2 DEF FrameOK
      <4>2. Len(s) > 1 => Len(s) # 1
        <5>1. \A n \in Nat : n > 1 => n # 1
          OBVIOUS
        <5> QED
          BY <1>1, <5>1
      <4> QED
        BY <4>1, <4>2
    <3>2. pc'.at \in InsideTick => rest # << >>
      BY <1>3, <3>1 DEF InsideTick
    <3> QED
      BY <2>2, <3>1, <3>2 DEF Standing
  <2>3. CASE cpu # InitTask
    BY <1>1, <1>3, <1>7, <2>1, <2>3 DEF Standing, FrameOK
  <2> QED
    BY <2>2, <2>3
<1>11. TasksOK'
  BY <1>4, <1>6, <1>10 DEF VectorsInv, TasksOK, Standing
<1>12. pc'.at \notin Masked
  BY <1>1, <1>7 DEF FrameOK
<1> QED
  BY <1>8, <1>9, <1>11, <1>12 DEF VectorsInv, Masked, EretReturnsToFrame

\* The child of a fork starts with one frame, that of its parent's call.
LEMMA CopyProcessKeeps == VectorsInv /\ CopyProcess => VectorsInv'
<1> SUFFICES ASSUME VectorsInv, CopyProcess PROVE VectorsInv'
  OBVIOUS
<1>1. /\ pc.at = "copy" /\ pc' = At("ret") /\ pc' \in Address /\ pc'.at = "ret"
      /\ cpu' = cpu /\ UNCHANGED << registers, irq, serving >>
  BY PlaceTypes DEF CopyProcess, Place
<1>2. cpu # InitTask
  BY <1>1 DEF VectorsInv, TasksOK, Standing, KmainPlace
<1>3. /\ stack[cpu] \in Seq(Frame) /\ Len(stack[cpu]) \in Nat \ {0}
      /\ cpu \in Task /\ x \in Registers
  BY <1>1, HasFrame DEF KmainPlace, VectorsInv, StateTypes
<1>4. CASE \E t \in Task :
            /\ ~Created(t)
            /\ stack' = [stack EXCEPT ![t] = << ChildResult(stack[cpu][1]) >>]
            /\ context' = [context EXCEPT ![t] = [pc |-> At("fork"), x |-> NoRegisters]]
            /\ mapped' = [mapped EXCEPT ![t] = mapped[cpu]]
            /\ x' = [x EXCEPT !.x0 = ProcessID]
  <2>1. PICK t \in Task :
            /\ ~Created(t)
            /\ stack' = [stack EXCEPT ![t] = << ChildResult(stack[cpu][1]) >>]
            /\ context' = [context EXCEPT ![t] = [pc |-> At("fork"), x |-> NoRegisters]]
            /\ x' = [x EXCEPT !.x0 = ProcessID]
    BY <1>4
  <2>2. t # cpu /\ t # InitTask
    BY <1>2, <2>1 DEF Created, VectorsInv, TasksOK
  <2> DEFINE child == ChildResult(stack[cpu][1])
  <2>3. stack[cpu][1] \in Frame /\ FrameOK(cpu, 1, stack[cpu][1])
    <3>1. 1 \in 1 .. Len(stack[cpu])
      BY <1>3
    <3> QED
      BY <1>3, <3>1 DEF VectorsInv, FramesOK
  <2>4. child \in Frame /\ child.spsr = stack[cpu][1].spsr /\ child.elr = stack[cpu][1].elr
    BY <2>3, TaskCount DEF ChildResult, Frame, Registers
  <2>5. FrameOK(t, 1, child)
    BY <1>2, <2>2, <2>3, <2>4 DEF FrameOK
  <2> HIDE DEF child
  <2>6. stack' = [stack EXCEPT ![t] = << child >>]
    BY <2>1 DEF child
  <2>7. /\ stack' \in [Task -> Seq(Frame)] /\ stack'[t] = << child >>
        /\ \A u \in Task \ {t} : stack'[u] = stack[u]
    BY <2>4, <2>6 DEF VectorsInv, StateTypes
  <2>8. << child >> # << >> /\ Len(<< child >>) = 1 /\ << child >>[1] = child
    OBVIOUS
  <2>9. /\ context' \in [Task -> [pc : Address, x : Registers]]
        /\ context'[t].pc.at = "fork"
        /\ \A u \in Task \ {t} : context'[u] = context[u]
    <3>1. At("fork") \in Address /\ At("fork").at = "fork" /\ NoRegisters \in Registers
      BY PlaceTypes, NoRegistersType DEF Place
    <3> QED
      BY <2>1, <3>1 DEF VectorsInv, StateTypes
  <2>10. x' \in Registers
    <3>1. ProcessID \in -1 .. Cardinality(Task) - 1
      BY <1>3, <2>1, ProcessIDInRange, TaskCount
    <3> HIDE DEF ProcessID
    <3> QED
      BY <1>3, <2>1, <3>1 DEF Registers
  <2>11. StateTypes'
    BY <1>1, <2>7, <2>9, <2>10 DEF VectorsInv, StateTypes, registers
  <2>12. FramesOK'
    <3> SUFFICES ASSUME NEW u \in Task, NEW i \in 1 .. Len(stack'[u])
                 PROVE  FrameOK(u, i, stack'[u][i])
      BY DEF FramesOK, FrameOK
    <3>1. CASE u = t
      <4>1. stack'[u] = << child >>
        BY <2>7, <3>1
      <4>2. i = 1 /\ stack'[u][i] = child
        BY <2>8, <4>1
      <4> QED
        BY <2>5, <3>1, <4>2
    <3>2. CASE u # t
      BY <2>7, <3>2 DEF VectorsInv, FramesOK
    <3> QED
      BY <3>1, <3>2
  <2>13. TasksOK'
    <3>1. Standing(cpu, pc', stack'[cpu])
      BY <1>1, <1>2, <1>3, <2>2, <2>7 DEF VectorsInv, TasksOK, Standing
    <3>2. ASSUME NEW u \in Task \ {cpu}
          PROVE  /\ context'[u].pc.at \in WaitsAt
                 /\ context'[u].pc.at # "none" => Standing(u, context'[u].pc, stack'[u])
      <4>1. CASE u = t
        BY <2>2, <2>7, <2>8, <2>9, <4>1 DEF WaitsAt, Standing
      <4>2. CASE u # t
        BY <2>7, <2>9, <4>2 DEF VectorsInv, TasksOK
      <4> QED
        BY <4>1, <4>2
    <3>3. context'[InitTask].pc.at # "none"
      BY VectorsAssumption, <1>2, <2>2, <2>9 DEF VectorsInv, TasksOK
    <3> QED
      BY <1>1, <3>1, <3>2, <3>3 DEF TasksOK, Standing
  <2> QED
    BY <1>1, <2>11, <2>12, <2>13 DEF VectorsInv, Masked, EretReturnsToFrame
<1>5. CASE x' = [x EXCEPT !.x0 = -1] /\ UNCHANGED << stack, context, mapped >>
  <2>1. x' \in Registers
    BY <1>3, <1>5, TaskCount DEF Registers
  <2>2. StateTypes'
    BY <1>1, <1>5, <2>1 DEF VectorsInv, StateTypes, registers
  <2> QED
    BY <1>1, <1>5, <2>2, MoveKeeps DEF Masked, KmainPlace
<1> QED
  BY <1>4, <1>5 DEF CopyProcess

LEMMA RetFromSyscallKeeps == VectorsInv /\ ret_from_syscall => VectorsInv'
<1> SUFFICES ASSUME VectorsInv, ret_from_syscall PROVE VectorsInv'
  OBVIOUS
<1>1. /\ pc.at = "ret" /\ pc' \in Address /\ pc'.at = "exit0" /\ ~irq' /\ irq' \in BOOLEAN
      /\ UNCHANGED << cpu, x, registers, context, mapped >>
  BY PlaceTypes DEF ret_from_syscall, Place, IrqAtReturn
<1>2. cpu # InitTask
  BY <1>1 DEF VectorsInv, TasksOK, Standing, KmainPlace
<1>3. /\ stack[cpu] \in Seq(Frame) /\ Len(stack[cpu]) \in Nat \ {0}
      /\ Top \in Frame /\ cpu \in Task /\ x \in Registers
  BY <1>1, HasFrame DEF KmainPlace, VectorsInv, StateTypes
<1> DEFINE n == Len(stack[cpu])
           frame == [Top EXCEPT !.x.x0 = x.x0]
           s == [stack[cpu] EXCEPT ![n] = frame]
<1>4. frame \in Frame /\ frame.spsr = Top.spsr /\ frame.elr = Top.elr
  BY <1>3 DEF Frame, Registers
<1>5. stack' = [stack EXCEPT ![cpu] = s]
  BY DEF ret_from_syscall, Top
<1> HIDE DEF frame
<1>6. /\ s \in Seq(Frame) /\ Len(s) = n /\ s[n] = frame
      /\ \A i \in 1 .. n : i # n => s[i] = stack[cpu][i]
  BY <1>3, <1>4, ExceptSeq
<1> HIDE DEF s
<1>7. /\ stack' \in [Task -> Seq(Frame)] /\ stack'[cpu] = s
      /\ \A t \in Task \ {cpu} : stack'[t] = stack[t]
  BY <1>3, <1>5, <1>6 DEF VectorsInv, StateTypes
<1>8. s # << >>
  BY <1>3, <1>6
<1>9. StateTypes'
  BY <1>1, <1>7 DEF VectorsInv, StateTypes, registers
<1>10. FramesOK'
  <2> SUFFICES ASSUME NEW t \in Task, NEW i \in 1 .. Len(stack'[t])
               PROVE  FrameOK(t, i, stack'[t][i])
    BY DEF FramesOK, FrameOK
  <2>1. CASE t = cpu /\ i = n
    <3>1. FrameOK(cpu, n, Top)
      BY <1>3 DEF VectorsInv, FramesOK, Top
    <3> QED
      BY <1>4, <1>6, <1>7, <2>1, <3>1 DEF FrameOK
  <2>2. CASE ~(t = cpu /\ i = n)
    <3>1. i \in 1 .. Len(stack[t]) /\ stack'[t][i] = stack[t][i]
      BY <1>6, <1>7, <2>2
    <3> QED
      BY <3>1 DEF VectorsInv, FramesOK
  <2> QED
    BY <2>1, <2>2
<1>11. TasksOK'
  BY <1>1, <1>2, <1>7, <1>8 DEF VectorsInv, TasksOK, Standing
<1> QED
  BY <1>1, <1>9, <1>10, <1>11 DEF VectorsInv, Masked, EretReturnsToFrame

\* ScheduleImpl leaves a task where it may wait and goes on with one that waits there.
LEMMA ScheduleImplKeeps == VectorsInv /\ ScheduleImpl => VectorsInv'
<1> SUFFICES ASSUME VectorsInv, ScheduleImpl PROVE VectorsInv'
  OBVIOUS
<1> DEFINE after == AfterSchedule(pc)
           left == [context EXCEPT ![cpu] = [pc |-> after, x |-> x]]
<1>1. PICK t \in Task :
         /\ Created(t) /\ left[t].pc.at # "exited"
         /\ cpu' = t /\ pc' = left[t].pc /\ x' = left[t].x /\ context' = left
  BY DEF ScheduleImpl
<1>2. /\ cpu \in Task /\ x \in Registers /\ context \in [Task -> [pc : Address, x : Registers]]
      /\ UNCHANGED << registers, irq, stack, mapped, serving >>
  BY DEF VectorsInv, StateTypes, ScheduleImpl
<1>3. /\ after \in Address /\ after.at \in WaitsAt \ {"none"}
      /\ pc.at = "schedule"  => after.at = "kmain"
      /\ pc.at = "schedule0" => after.at = "mask0"
      /\ pc.at = "schedule1" => after.at = "mask1"
      /\ pc.at = "exited"    => after.at = "exited"
  <2>1. /\ At("kmain") \in Address /\ At("kmain").at = "kmain"
        /\ At("mask0") \in Address /\ At("mask0").at = "mask0"
        /\ At("mask1") \in Address /\ At("mask1").at = "mask1"
        /\ At("exited") \in Address /\ At("exited").at = "exited"
    BY PlaceTypes DEF Place
  <2>2. /\ pc.at = "schedule"  => after = At("kmain")
        /\ pc.at = "schedule0" => after = At("mask0")
        /\ pc.at = "schedule1" => after = At("mask1")
        /\ pc.at = "exited"    => after = At("exited")
    BY DEF AfterSchedule
  <2> QED
    BY <2>1, <2>2 DEF ScheduleImpl, WaitsAt
<1>4. Standing(cpu, after, stack[cpu])
  <2>1. pc.at \in {"schedule", "schedule0", "schedule1", "exited"} /\ Standing(cpu, pc, stack[cpu])
    BY DEF VectorsInv, TasksOK, ScheduleImpl
  <2>2. CASE cpu = InitTask
    BY <1>3, <2>1, <2>2 DEF Standing, KmainPlace, InsideTick
  <2>3. CASE cpu # InitTask
    BY <1>3, <2>1, <2>3 DEF Standing
  <2> QED
    BY <2>2, <2>3
<1> HIDE DEF after
<1>5. ASSUME NEW u \in Task
      PROVE  /\ left[u] \in [pc : Address, x : Registers]
             /\ left[u].pc.at \in WaitsAt
             /\ left[u].pc.at # "none" => Standing(u, left[u].pc, stack[u])
  BY <1>2, <1>3, <1>4 DEF VectorsInv, TasksOK
<1>6. left[t].pc.at # "none"
  BY <1>1, <1>2, <1>3 DEF Created
<1>7. left[InitTask].pc.at # "none"
  BY VectorsAssumption, <1>2, <1>3 DEF VectorsInv, TasksOK
<1>8. left \in [Task -> [pc : Address, x : Registers]]
  BY <1>2, <1>3
<1> HIDE DEF left
<1>9. StateTypes'
  BY <1>1, <1>2, <1>5, <1>8 DEF VectorsInv, StateTypes, registers
<1>10. FramesOK'
  BY <1>2 DEF VectorsInv, FramesOK, FrameOK
<1>11. TasksOK'
  BY <1>1, <1>2, <1>5, <1>6, <1>7 DEF TasksOK, Standing
<1>12. pc'.at \notin Masked
  BY <1>1, <1>5 DEF WaitsAt, Masked
<1> QED
  BY <1>9, <1>10, <1>11, <1>12 DEF VectorsInv, Masked, EretReturnsToFrame

LEMMA StutterKeeps == VectorsInv /\ UNCHANGED vars => VectorsInv'
<1> SUFFICES ASSUME VectorsInv, UNCHANGED vars PROVE VectorsInv'
  OBVIOUS
<1>1. StateTypes'
  BY DEF VectorsInv, StateTypes, vars, registers
<1>2. Standing(cpu, pc', stack[cpu]) /\ (pc'.at \in Masked => ~irq')
  BY DEF VectorsInv, TasksOK, vars
<1>3. EretReturnsToFrame'
  BY DEF VectorsInv, EretReturnsToFrame, Top, vars, registers
<1> QED
  BY <1>1, <1>2, <1>3, QuietStep DEF vars

LEMMA VectorsNext == VectorsInv /\ [Next]_vars => VectorsInv'
BY KernelExitLoadKeeps, KernelExitEretKeeps, DisableIrqKeeps, MovesKeep, PushesKeep,
   CopyProcessKeeps, RetFromSyscallKeeps, TickReturnsKeeps, ScheduleImplKeeps, StutterKeeps
   DEF Next

-----------------------------------------------------------------------------
(***************************************************************************)
(* The theorems.                                                           *)
(***************************************************************************)
\* VectorsInv is an inductive invariant of ExceptionVectors.S.
THEOREM VectorsInvariance == Spec => []VectorsInv
BY InitHolds, VectorsNext, PTL DEF Spec

\* CopyProcess and MoveToUserMode find the state of a user process where
\* GetTargetStateMemoryForTask says: however kernel_entry, system calls, faults, ticks and
\* task switches interleave, and however deep the frames are, the first frame on a kernel
\* stack and no other is of an exception from user mode.
THEOREM FirstFrame == Spec => []FirstFrameIsUser
<1>1. VectorsInv => FirstFrameIsUser
  <2> SUFFICES ASSUME VectorsInv PROVE FirstFrameIsUser
    OBVIOUS
  <2>1. InUserMode => stack[cpu] = << >>
    BY DEF VectorsInv, TasksOK, Standing, InUserMode, KmainPlace
  <2>2. \A t \in Task : \A i \in 1 .. Len(stack[t]) :
           (stack[t][i].spsr = "EL0") <=> (i = 1 /\ t # InitTask)
    BY DEF VectorsInv, FramesOK, FrameOK
  <2> QED
    BY <2>1, <2>2 DEF FirstFrameIsUser
<1> QED
  BY VectorsInvariance, <1>1, PTL

\* Between the loads of elr_el1 and spsr_el1 in kernel_exit and its eret no other
\* exception changes them, because every way there has called disable_irq.
THEOREM EretReturns == Spec => []EretReturnsToFrame
<1>1. VectorsInv => EretReturnsToFrame
  BY DEF VectorsInv
<1> QED
  BY VectorsInvariance, <1>1, PTL

-----------------------------------------------------------------------------
(***************************************************************************)
(* That ExceptionVectors.S gives each user program a machine of its own    *)
(* (module UserMachine).  The invariant adds to VectorsInv where each task *)
(* and each interrupted frame goes on.                                     *)
(***************************************************************************)
Cause == {"none", "svc", "dabt"}

\* The places that only an interrupt of the kernel leads to, above another frame.
Nested == {"schedule1", "mask1", "exit1"}

\* The places of a user task that is not in a system call.
NotCalling == {"user", "da", "abort", "mask0", "exit0", "schedule0", "fork"}

\* A user task goes on at an address with the registers regs and n frames, in the
\* kernel for the given cause; number is that in the first frame.
Situated(address, regs, n, cause, number) ==
    /\ address.at = "user" => n = 0
    /\ address.at \in Nested => n >= 2
    /\ address.at \notin Nested \union {"user", "eret"} => n = 1
    /\ address.at \in {"svc", "call"} => cause = "svc" /\ regs.number = number
    /\ address.at = "copy" => cause = "svc" /\ number = 1
    /\ address.at = "ret" => cause = "svc" /\ (number = 1 => regs.x0 # 0)
    /\ address.at \in NotCalling => cause # "svc"
    /\ address.at = "eret" /\ n = 1 => cause # "svc"

\* The task t would go on at an address, above the first n frames of its stack.
Goes(t, address, regs, n) ==
    Situated(address, regs, n, serving[t].cause, stack[t][1].x.number)

\* It goes on somewhere, and what its frames interrupted goes on after that.
UserOK(t) ==
    /\ t = cpu => Goes(t, pc, x, Len(stack[t]))
    /\ t # cpu /\ context[t].pc.at # "none" =>
          Goes(t, context[t].pc, context[t].x, Len(stack[t]))
    /\ t # cpu /\ context[t].pc.at = "none" => stack[t] = << >> /\ serving[t].cause # "svc"
    /\ \A i \in 2 .. Len(stack[t]) : Goes(t, stack[t][i].elr, stack[t][i].x, i - 1)

\* sp_el0 is restored when kernel_exit returns to user mode.
StackPointerReady ==
    pc.at = "eret" /\ cpu # InitTask /\ Len(stack[cpu]) = 1 => sp_el0 = Top.sp

UsersInv ==
    /\ VectorsInv
    /\ serving \in [Task -> [cause : Cause, address : Addr \union {0}]]
    /\ \A t \in UserTask : UserOK(t)
    /\ StackPointerReady

-----------------------------------------------------------------------------
(***************************************************************************)
(* Each step keeps it.                                                     *)
(***************************************************************************)
LEMMA UsersInit == Init => UsersInv
<1> SUFFICES ASSUME Init PROVE UsersInv
  OBVIOUS
<1>1. VectorsInv
  BY InitHolds
<1>2. serving \in [Task -> [cause : Cause, address : Addr \union {0}]]
  BY DEF Init, Nothing, Cause
<1>3. \A t \in Task : serving[t].cause # "svc"
  BY DEF Init, Nothing
<1>4. StackPointerReady
  BY DEF Init, StackPointerReady
<1>5. ASSUME NEW t \in UserTask
      PROVE  UserOK(t)
  <2>1. t # cpu /\ t \in Task
    BY <1>5 DEF Init, UserTask
  <2>2. CASE t = FirstTask
    <3>1. Len(stack[t]) = 1 /\ context[t].pc.at = "fork"
      BY <2>1, <2>2, PlaceTypes DEF Init, Place
    <3> QED
      BY <1>3, <2>1, <3>1 DEF UserOK, Goes, Situated, Nested, NotCalling
  <2>3. CASE t # FirstTask
    <3>1. stack[t] = << >> /\ Len(stack[t]) = 0 /\ context[t].pc.at = "none"
      BY <2>1, <2>3, PlaceTypes DEF Init, Place
    <3> QED
      BY <1>3, <2>1, <3>1 DEF UserOK
  <2> QED
    BY <2>2, <2>3
<1> QED
  BY <1>1, <1>2, <1>4, <1>5 DEF UsersInv

\* A step in which only the running task moves, and no frame.
LEMMA MoveUser ==
    ASSUME UsersInv, VectorsInv',
           UNCHANGED << cpu, stack, context, serving >>,
           cpu \in UserTask => Goes(cpu, pc', x', Len(stack[cpu])),
           StackPointerReady'
    PROVE  UsersInv'
<1> SUFFICES ASSUME NEW t \in UserTask PROVE UserOK(t)'
  BY DEF UsersInv
<1>1. CASE t = cpu
  BY <1>1 DEF UsersInv, UserOK, Goes
<1>2. CASE t # cpu
  BY <1>2 DEF UsersInv, UserOK, Goes
<1> QED
  BY <1>1, <1>2

\* What holds of the task that runs.
LEMMA Running ==
    ASSUME UsersInv
    PROVE  /\ cpu \in Task /\ stack[cpu] \in Seq(Frame) /\ Len(stack[cpu]) \in Nat
           /\ x \in Registers /\ pc \in Address
           /\ cpu \in UserTask <=> cpu # InitTask
           /\ cpu \in UserTask => Goes(cpu, pc, x, Len(stack[cpu]))
<1>1. cpu \in Task /\ stack[cpu] \in Seq(Frame) /\ x \in Registers /\ pc \in Address
  BY DEF UsersInv, VectorsInv, StateTypes
<1> QED
  BY <1>1 DEF UsersInv, UserOK, UserTask

LEMMA UserMovesKeep ==
    UsersInv /\ VectorsInv' /\ (\/ UserInstruction \/ CheckNumber \/ SystemCallWrite \/ SystemCallFork
                                \/ SystemCallExit \/ el0_da \/ handle_invalid_entry \/ Schedule
                                \/ ret_from_fork \/ DisableIrq \/ TickReturns)
    => UsersInv'
<1> SUFFICES ASSUME UsersInv, VectorsInv',
                    \/ UserInstruction \/ CheckNumber \/ SystemCallWrite \/ SystemCallFork
                    \/ SystemCallExit \/ el0_da \/ handle_invalid_entry \/ Schedule
                    \/ ret_from_fork \/ DisableIrq \/ TickReturns
             PROVE  UsersInv'
  OBVIOUS
<1> USE Running DEF Goes, Situated, Nested, NotCalling
<1>1. CASE UserInstruction
  <2>1. pc'.at = "user"
    BY <1>1 DEF UserInstruction, User
  <2> QED
    BY <1>1, <2>1, MoveUser DEF UserInstruction, InUserMode, StackPointerReady
<1>2. CASE CheckNumber
  <2>1. pc.at = "svc" /\ pc'.at \in {"call", "report"}
    BY <1>2 DEF CheckNumber, At
  <2> QED
    BY <1>2, <2>1, MoveUser DEF CheckNumber, StackPointerReady
<1>3. CASE SystemCallWrite
  <2>1. pc.at = "call" /\ x.number = 0 /\ pc'.at = "ret"
    BY <1>3 DEF SystemCallWrite, At
  <2> QED
    BY <1>3, <2>1, MoveUser DEF SystemCallWrite, StackPointerReady
<1>4. CASE SystemCallFork
  <2>1. pc.at = "call" /\ x.number = 1 /\ pc'.at = "copy"
    BY <1>4 DEF SystemCallFork, At
  <2> QED
    BY <1>4, <2>1, MoveUser DEF SystemCallFork, StackPointerReady
<1>5. CASE SystemCallExit
  <2>1. pc.at = "call" /\ pc'.at = "exited"
    BY <1>5 DEF SystemCallExit, At
  <2> QED
    BY <1>5, <2>1, MoveUser DEF SystemCallExit, StackPointerReady
<1>6. CASE el0_da
  <2>1. pc.at = "da" /\ pc'.at = "abort"
    BY <1>6 DEF el0_da, At
  <2> QED
    BY <1>6, <2>1, MoveUser DEF el0_da, StackPointerReady
<1>7. CASE handle_invalid_entry
  <2>1. pc.at = "report" /\ pc'.at = "hang"
    BY <1>7 DEF handle_invalid_entry, At
  <2> QED
    BY <1>7, <2>1, MoveUser DEF handle_invalid_entry, StackPointerReady
<1>8. CASE Schedule
  <2>1. pc.at = "kmain" /\ pc'.at = "schedule"
    BY <1>8 DEF Schedule, At
  <2> QED
    BY <1>8, <2>1, MoveUser DEF Schedule, StackPointerReady
<1>9. CASE ret_from_fork
  <2>1. pc.at = "fork" /\ pc'.at = "mask0"
    BY <1>9 DEF ret_from_fork, At
  <2> QED
    BY <1>9, <2>1, MoveUser DEF ret_from_fork, StackPointerReady
<1>10. CASE DisableIrq
  <2>1. \/ pc.at = "mask0" /\ pc'.at = "exit0"
        \/ pc.at = "mask1" /\ pc'.at = "exit1"
    BY <1>10 DEF DisableIrq, At
  <2> QED
    BY <1>10, <2>1, MoveUser DEF DisableIrq, StackPointerReady
<1>11. CASE TickReturns
  <2>1. pc' = pc /\ pc.at # "eret"
    BY <1>11 DEF TickReturns, UsersInv, VectorsInv, Masked
  <2> QED
    BY <1>11, <2>1, MoveUser DEF TickReturns, StackPointerReady
<1> QED
  BY <1>1, <1>2, <1>3, <1>4, <1>5, <1>6, <1>7, <1>8, <1>9, <1>10, <1>11

\* do_mem_abort ends no system call: the task has come by a data abort.
LEMMA AbortKeeps == UsersInv /\ VectorsInv' /\ do_mem_abort => UsersInv'
<1> SUFFICES ASSUME UsersInv, VectorsInv', do_mem_abort PROVE UsersInv'
  OBVIOUS
<1>1. /\ pc.at = "abort" /\ pc'.at \in {"mask0", "report"} /\ UNCHANGED << cpu, x, stack, context >>
      /\ serving' = [serving EXCEPT ![cpu] = Nothing] \/ serving' = serving
  BY DEF do_mem_abort, At
<1>2. serving' \in [Task -> [cause : Cause, address : Addr \union {0}]]
  BY <1>1, Running DEF UsersInv, Nothing, Cause
<1>3. ASSUME NEW t \in UserTask PROVE UserOK(t)'
  <2>1. CASE t = cpu
    <3>1. Goes(t, pc, x, Len(stack[t])) /\ t \in Task
      BY <2>1, Running
    <3>2. Len(stack[t]) = 1 /\ serving[t].cause # "svc"
      BY <1>1, <3>1 DEF Goes, Situated, Nested, NotCalling
    <3>3. serving'[t].cause # "svc"
      BY <1>1, <3>1, <3>2 DEF Nothing, UsersInv
    <3> QED
      BY <1>1, <2>1, <3>2, <3>3 DEF UserOK, Goes, Situated, Nested, NotCalling
  <2>2. CASE t # cpu
    <3>1. serving'[t] = serving[t]
      BY <1>1, <2>2 DEF UsersInv, UserTask
    <3> QED
      BY <1>1, <2>2, <3>1 DEF UsersInv, UserOK, Goes
  <2> QED
    BY <2>1, <2>2
<1>4. StackPointerReady'
  BY <1>1 DEF StackPointerReady
<1> QED
  BY <1>2, <1>3, <1>4 DEF UsersInv

LEMMA NotOne == \A n \in Nat : n >= 2 => n # 1
OBVIOUS

LEMMA TwoOrMore == \A n \in Nat \ {0} : n # 1 => n \in 2 .. n /\ 1 \in 1 .. n - 1
OBVIOUS

LEMMA ExitLoadKeeps == UsersInv /\ VectorsInv' /\ KernelExitLoad => UsersInv'
<1> SUFFICES ASSUME UsersInv, VectorsInv', KernelExitLoad PROVE UsersInv'
  OBVIOUS
<1>1. pc'.at = "eret" /\ pc.at \in {"exit0", "exit1"} /\ UNCHANGED << cpu, x, stack, context, serving >>
  BY DEF KernelExitLoad, At
<1>2. ASSUME cpu \in UserTask
      PROVE  /\ Goes(cpu, pc', x', Len(stack[cpu]))
             /\ Len(stack[cpu]) = 1 => pc.at = "exit0"
  <2>1. Goes(cpu, pc, x, Len(stack[cpu])) /\ Len(stack[cpu]) \in Nat
    BY <1>2, Running
  <2>2. CASE pc.at = "exit0"
    BY <1>1, <2>1, <2>2 DEF Goes, Situated, Nested, NotCalling
  <2>3. CASE pc.at = "exit1"
    <3>1. Len(stack[cpu]) >= 2
      BY <2>1, <2>3 DEF Goes, Situated, Nested
    <3>2. Len(stack[cpu]) # 1
      BY <2>1, <3>1, NotOne
    <3> QED
      BY <1>1, <3>2 DEF Goes, Situated, Nested, NotCalling
  <2> QED
    BY <1>1, <2>2, <2>3
<1>3. StackPointerReady'
  <2> SUFFICES ASSUME cpu # InitTask, Len(stack[cpu]) = 1 PROVE sp_el0' = Top.sp
    BY <1>1 DEF StackPointerReady, Top
  <2> QED
    BY <1>2, Running DEF KernelExitLoad, RestoredStackPointer
<1> QED
  BY <1>1, <1>2, <1>3, MoveUser

\* kernel_entry: what was interrupted goes on after the new frame.
LEMMA UserPush ==
    ASSUME UsersInv, VectorsInv', NEW frame,
           stack' = [stack EXCEPT ![cpu] = Append(@, frame)],
           stack'[cpu] \in Seq(Frame),
           UNCHANGED << cpu, context >>,
           serving' \in [Task -> [cause : Cause, address : Addr \union {0}]],
           \A t \in Task \ {cpu} : serving'[t] = serving[t],
           pc'.at # "eret",
           cpu \in UserTask /\ Len(stack[cpu]) = 0 =>
               Situated(pc', x', 1, serving'[cpu].cause, frame.x.number),
           cpu \in UserTask /\ Len(stack[cpu]) # 0 =>
               /\ serving'[cpu] = serving[cpu] /\ pc'.at = "schedule1"
               /\ frame.elr = pc /\ frame.x = x
    PROVE  UsersInv'
<1> SUFFICES ASSUME NEW t \in UserTask PROVE UserOK(t)'
  BY DEF UsersInv, StackPointerReady
<1>1. stack \in [Task -> Seq(Frame)] /\ cpu \in Task /\ t \in Task
  BY DEF UsersInv, VectorsInv, StateTypes, UserTask
<1>2. CASE t # cpu
  <2>1. stack'[t] = stack[t] /\ serving'[t] = serving[t]
    BY <1>1, <1>2
  <2> QED
    BY <1>2, <2>1 DEF UsersInv, UserOK, Goes
<1>3. CASE t = cpu
  <2> DEFINE s == stack[t]
             n == Len(s)
  <2>1. /\ s \in Seq(Frame) /\ n \in Nat /\ stack'[t] = Append(s, frame)
    BY <1>1, <1>3
  <2>2. /\ Len(stack'[t]) = n + 1 /\ stack'[t][n + 1] = frame
        /\ \A i \in 1 .. n : stack'[t][i] = s[i]
    BY <2>1
  <2>3. /\ Goes(t, pc, x, n)
        /\ \A i \in 2 .. n : Goes(t, s[i].elr, s[i].x, i - 1)
    BY <1>3 DEF UsersInv, UserOK
  <2>4. CASE n = 0
    <3>1. /\ Len(stack'[t]) = 1 /\ stack'[t][1] = frame
          /\ Situated(pc', x', 1, serving'[t].cause, frame.x.number)
      BY <1>3, <2>2, <2>4
    <3>2. Goes(t, pc, x, Len(stack[t]))'
      BY <3>1 DEF Goes
    <3>3. \A i \in 2 .. Len(stack'[t]) : FALSE
      <4>1. \A i \in 2 .. 1 : FALSE
        OBVIOUS
      <4>2. Len(stack'[t]) = 1
        BY <3>1
      <4> QED
        BY ONLY <4>1, <4>2
    <3> QED
      BY <1>3, <3>2, <3>3 DEF UserOK
  <2>5. CASE n # 0
    <3>1. /\ serving'[t] = serving[t] /\ pc'.at = "schedule1"
          /\ frame.elr = pc /\ frame.x = x
      BY <1>3, <2>5
    <3>2. 1 \in 1 .. n /\ n + 1 >= 2 /\ n + 1 # 1
      BY <2>1, <2>5
    <3>3. stack'[t][1] = s[1]
      BY <2>2, <3>2
    <3>4. Goes(t, pc, x, Len(stack[t]))'
      BY <2>2, <3>1, <3>2 DEF Goes, Situated, Nested, NotCalling
    <3>5. ASSUME NEW i \in 2 .. n + 1
          PROVE  Goes(t, stack[t][i].elr, stack[t][i].x, i - 1)'
      <4>1. CASE i = n + 1
        <5>1. stack'[t][i].elr = pc /\ stack'[t][i].x = x /\ i - 1 = n
          BY <2>1, <2>2, <3>1, <4>1
        <5> QED
          BY <2>3, <3>1, <3>3, <5>1 DEF Goes
      <4>2. CASE i # n + 1
        <5>1. i \in 2 .. n /\ stack'[t][i] = s[i]
          BY <2>1, <2>2, <4>2
        <5> QED
          BY <2>3, <3>1, <3>3, <5>1 DEF Goes
      <4> QED
        BY <4>1, <4>2
    <3> QED
      BY <1>3, <2>2, <3>4, <3>5 DEF UserOK
  <2> QED
    BY <2>4, <2>5
<1> QED
  BY <1>2, <1>3

LEMMA UserPushesKeep == UsersInv /\ VectorsInv' /\ (el0_svc \/ DataAbort \/ TickPreempts) => UsersInv'
<1> SUFFICES ASSUME UsersInv, VectorsInv', el0_svc \/ DataAbort \/ TickPreempts PROVE UsersInv'
  OBVIOUS
<1>1. /\ UNCHANGED << cpu, context >> /\ cpu \in Task /\ stack'[cpu] \in Seq(Frame)
      /\ cpu \in UserTask <=> cpu # InitTask
      /\ cpu \in UserTask => Goes(cpu, pc, x, Len(stack[cpu]))
      /\ Len(stack[cpu]) \in Nat
      /\ serving \in [Task -> [cause : Cause, address : Addr \union {0}]]
  <2>1. cpu' = cpu /\ stack' \in [Task -> Seq(Frame)]
    BY DEF el0_svc, DataAbort, TickPreempts, VectorsInv, StateTypes
  <2> QED
    BY <2>1, Running DEF el0_svc, DataAbort, TickPreempts, UsersInv
<1>2. CASE el0_svc
  <2>1. PICK n \in 0 .. SYSCALL_COUNT :
           /\ x' = [x EXCEPT !.number = n]
           /\ KernelEntry([x EXCEPT !.number = n], User(pc.n + 1))
    BY <1>2 DEF el0_svc
  <2> DEFINE frame == [x |-> x', sp |-> IF Level(User(pc.n + 1)) = "EL0" THEN sp_el0 ELSE 0,
                       elr |-> User(pc.n + 1), spsr |-> Level(User(pc.n + 1))]
  <2>2. stack' = [stack EXCEPT ![cpu] = Append(@, frame)] /\ frame.x = x'
    BY <2>1 DEF KernelEntry
  <2> HIDE DEF frame
  <2>3. pc.at = "user" /\ pc'.at = "svc" /\ serving' = [serving EXCEPT ![cpu] = [cause |-> "svc", address |-> 0]]
    BY <1>2 DEF el0_svc, InUserMode, At
  <2>4. /\ serving' \in [Task -> [cause : Cause, address : Addr \union {0}]]
        /\ serving'[cpu].cause = "svc" /\ \A t \in Task \ {cpu} : serving'[t] = serving[t]
    BY <1>1, <2>3 DEF Cause
  <2>5. cpu \in UserTask => Len(stack[cpu]) = 0
    BY <1>1, <2>3 DEF Goes, Situated
  <2>6. Situated(pc', x', 1, serving'[cpu].cause, frame.x.number)
    BY <2>2, <2>3, <2>4 DEF Situated, Nested, NotCalling
  <2> QED
    BY <1>1, <2>2, <2>3, <2>4, <2>5, <2>6, UserPush
<1>3. CASE DataAbort \/ TickPreempts
  <2> DEFINE frame == [x |-> x, sp |-> IF Level(pc) = "EL0" THEN sp_el0 ELSE 0,
                       elr |-> pc, spsr |-> Level(pc)]
  <2>1. stack' = [stack EXCEPT ![cpu] = Append(@, frame)] /\ frame.x = x /\ frame.elr = pc
    BY <1>3 DEF DataAbort, TickPreempts, KernelEntry
  <2> HIDE DEF frame
  <2>2. CASE DataAbort
    <3>1. PICK a \in Addr : serving' = [serving EXCEPT ![cpu] = [cause |-> "dabt", address |-> a]]
      BY <2>2 DEF DataAbort
    <3>2. pc.at = "user" /\ pc'.at = "da"
      BY <2>2 DEF DataAbort, InUserMode, At
    <3>3. /\ serving' \in [Task -> [cause : Cause, address : Addr \union {0}]]
          /\ serving'[cpu].cause = "dabt" /\ \A t \in Task \ {cpu} : serving'[t] = serving[t]
      BY <1>1, <3>1 DEF Cause
    <3>4. cpu \in UserTask => Len(stack[cpu]) = 0
      BY <1>1, <3>2 DEF Goes, Situated
    <3>5. Situated(pc', x', 1, serving'[cpu].cause, frame.x.number)
      BY <3>2, <3>3 DEF Situated, Nested, NotCalling
    <3> QED
      BY <1>1, <2>1, <3>2, <3>3, <3>4, <3>5, UserPush
  <2>3. CASE TickPreempts
    <3>1. serving' = serving /\ pc'.at = (IF pc.at = "user" THEN "schedule0" ELSE "schedule1")
      BY <2>3 DEF TickPreempts, At, Level
    <3>2. cpu \in UserTask => (pc.at = "user" <=> Len(stack[cpu]) = 0)
      BY <1>1 DEF UsersInv, VectorsInv, TasksOK, Standing
    <3>3. cpu \in UserTask /\ Len(stack[cpu]) = 0 =>
             Situated(pc', x', 1, serving'[cpu].cause, frame.x.number)
      BY <1>1, <3>1, <3>2 DEF Goes, Situated, Nested, NotCalling
    <3> QED
      BY <1>1, <2>1, <3>1, <3>2, <3>3, UserPush
  <2> QED
    BY <1>3, <2>2, <2>3
<1> QED
  BY <1>2, <1>3

\* eret: the task goes on where the frame says.
LEMMA UserPopKeeps == UsersInv /\ VectorsInv' /\ KernelExitEret => UsersInv'
<1> SUFFICES ASSUME UsersInv, VectorsInv', KernelExitEret PROVE UsersInv'
  OBVIOUS
<1>1. /\ pc.at = "eret" /\ UNCHANGED << cpu, context, serving, sp_el0 >>
      /\ pc' = Top.elr /\ x' = Top.x /\ stack' = [stack EXCEPT ![cpu] = Popped(@)]
  BY DEF KernelExitEret, registers, UsersInv, VectorsInv, EretReturnsToFrame
<1>2. /\ stack[cpu] \in Seq(Frame) /\ Len(stack[cpu]) \in Nat \ {0}
      /\ FrameOK(cpu, Len(stack[cpu]), Top) /\ cpu \in Task /\ stack \in [Task -> Seq(Frame)]
  BY <1>1, HasFrame DEF KmainPlace, InsideTick, UsersInv, VectorsInv, StateTypes
<1>3. pc'.at # "eret"
  BY <1>1, <1>2 DEF FrameOK, Masked
<1> SUFFICES ASSUME NEW t \in UserTask PROVE UserOK(t)'
  BY <1>1, <1>3 DEF UsersInv, StackPointerReady
<1>4. CASE t # cpu
  <2>1. stack'[t] = stack[t]
    BY <1>1, <1>2, <1>4 DEF UserTask
  <2> QED
    BY <1>1, <1>4, <2>1 DEF UsersInv, UserOK, Goes
<1>5. CASE t = cpu
  <2> DEFINE s == stack[t]
             n == Len(s)
  <2>1. /\ s \in Seq(Frame) /\ n \in Nat \ {0} /\ stack'[t] = SubSeq(s, 1, n - 1) /\ Top = s[n]
    BY <1>1, <1>2, <1>5 DEF Popped, Top
  <2>2. Len(stack'[t]) = n - 1 /\ \A i \in 1 .. n - 1 : stack'[t][i] = s[i]
    BY <2>1
  <2>3. /\ Goes(t, pc, x, n)
        /\ \A i \in 2 .. n : Goes(t, s[i].elr, s[i].x, i - 1)
    BY <1>5 DEF UsersInv, UserOK
  <2>4. CASE n = 1
    <3>1. pc'.at = "user"
      BY <1>1, <1>2, <1>5, <2>4, PlaceTypes DEF FrameOK, Level, UserTask
    <3>2. Len(stack'[t]) = 0 /\ serving'[t].cause # "svc"
      BY <1>1, <2>2, <2>3, <2>4 DEF Goes, Situated
    <3>3. \A i \in 2 .. Len(stack'[t]) : FALSE
      <4>1. \A i \in 2 .. 0 : FALSE
        OBVIOUS
      <4> QED
        BY ONLY <3>2, <4>1
    <3>4. Goes(t, pc, x, Len(stack[t]))'
      BY <3>1, <3>2 DEF Goes, Situated, Nested, NotCalling
    <3> QED
      BY <1>1, <1>5, <3>3, <3>4 DEF UserOK
  <2>5. CASE n # 1
    <3>1. n \in 2 .. n /\ 1 \in 1 .. n - 1
      BY <2>1, <2>5, TwoOrMore
    <3>2. stack'[t][1] = s[1] /\ serving' = serving
      BY <1>1, <2>2, <3>1
    <3>3. Goes(t, pc, x, Len(stack[t]))'
      BY <1>1, <2>1, <2>2, <2>3, <3>1, <3>2 DEF Goes
    <3>4. ASSUME NEW i \in 2 .. n - 1
          PROVE  Goes(t, stack[t][i].elr, stack[t][i].x, i - 1)'
      <4>1. stack'[t][i] = s[i] /\ i \in 2 .. n
        BY <2>1, <2>2
      <4> QED
        BY <2>3, <3>2, <4>1 DEF Goes
    <3> QED
      BY <1>1, <1>5, <2>2, <3>3, <3>4 DEF UserOK
  <2> QED
    BY <2>4, <2>5
<1> QED
  BY <1>4, <1>5

LEMMA UserCopyKeeps == UsersInv /\ VectorsInv' /\ CopyProcess => UsersInv'
<1> SUFFICES ASSUME UsersInv, VectorsInv', CopyProcess PROVE UsersInv'
  OBVIOUS
<1>1. /\ pc.at = "copy" /\ pc'.at = "ret" /\ UNCHANGED << cpu, serving >>
  BY DEF CopyProcess, At
<1>2. /\ cpu \in Task /\ cpu \in UserTask /\ Goes(cpu, pc, x, Len(stack[cpu]))
      /\ stack \in [Task -> Seq(Frame)] /\ x \in Registers
      /\ context \in [Task -> [pc : Address, x : Registers]]
  <2>1. cpu # InitTask
    BY <1>1 DEF UsersInv, VectorsInv, TasksOK, Standing, KmainPlace
  <2> QED
    BY <2>1, Running DEF UsersInv, VectorsInv, StateTypes
<1>3. Len(stack[cpu]) = 1 /\ serving[cpu].cause = "svc"
  BY <1>1, <1>2 DEF Goes, Situated, Nested
<1>4. x'.x0 # 0
  BY <1>2, ProcessIDInRange, TaskCount DEF CopyProcess, Registers
<1>5. CASE UNCHANGED << stack, context >>
  <2>1. Goes(cpu, pc', x', Len(stack[cpu]))
    BY <1>1, <1>3, <1>4 DEF Goes, Situated, Nested, NotCalling
  <2> QED
    BY <1>1, <1>5, <2>1, MoveUser DEF StackPointerReady
<1>6. CASE ~UNCHANGED << stack, context >>
  <2>1. PICK u \in Task :
            /\ ~Created(u)
            /\ stack' = [stack EXCEPT ![u] = << ChildResult(stack[cpu][1]) >>]
            /\ context' = [context EXCEPT ![u] = [pc |-> At("fork"), x |-> NoRegisters]]
    BY <1>6 DEF CopyProcess
  <2>2. u # cpu /\ context[u].pc.at = "none"
    BY <2>1 DEF Created
  <2>3. stack'[u] = << ChildResult(stack[cpu][1]) >> /\ context'[u].pc.at = "fork"
    BY <1>2, <2>1 DEF At
  <2>4. Len(stack'[u]) = 1
    <3> DEFINE child == ChildResult(stack[cpu][1])
    <3>1. stack'[u] = << child >>
      BY <2>3
    <3> HIDE DEF child
    <3> QED
      BY <3>1
  <2>5. ASSUME NEW t \in UserTask PROVE UserOK(t)'
    <3>1. t \in Task
      BY DEF UserTask
    <3>2. CASE t = u
      <4>1. t # cpu /\ serving'[t].cause # "svc"
        BY <1>1, <2>2, <3>2 DEF UsersInv, UserOK
      <4>2. \A i \in 2 .. Len(stack'[t]) : FALSE
        <5>1. \A i \in 2 .. 1 : FALSE
          OBVIOUS
        <5>2. Len(stack'[t]) = 1
          BY <2>4, <3>2
        <5> QED
          BY ONLY <5>1, <5>2
      <4>3. Goes(t, context[t].pc, context[t].x, Len(stack[t]))'
        BY <2>3, <2>4, <3>2, <4>1 DEF Goes, Situated, Nested, NotCalling
      <4> QED
        BY <1>1, <2>3, <3>2, <4>1, <4>2, <4>3 DEF UserOK
    <3>3. CASE t # u
      <4>1. stack'[t] = stack[t] /\ context'[t] = context[t] /\ serving' = serving
        BY <1>1, <1>2, <2>1, <3>1, <3>3
      <4>2. CASE t = cpu
        <5>1. Goes(t, pc, x, Len(stack[t]))'
          BY <1>1, <1>3, <1>4, <4>1, <4>2 DEF Goes, Situated, Nested, NotCalling
        <5> QED
          BY <1>1, <4>1, <4>2, <5>1 DEF UsersInv, UserOK, Goes
      <4>3. CASE t # cpu
        BY <1>1, <4>1, <4>3 DEF UsersInv, UserOK, Goes
      <4> QED
        BY <4>2, <4>3
    <3> QED
      BY <3>2, <3>3
  <2>6. StackPointerReady'
    BY <1>1 DEF StackPointerReady
  <2> QED
    BY <1>1, <2>5, <2>6 DEF UsersInv
<1> QED
  BY <1>5, <1>6

LEMMA UserReturnKeeps == UsersInv /\ VectorsInv' /\ ret_from_syscall => UsersInv'
<1> SUFFICES ASSUME UsersInv, VectorsInv', ret_from_syscall PROVE UsersInv'
  OBVIOUS
<1>1. /\ pc.at = "ret" /\ pc'.at = "exit0" /\ UNCHANGED << cpu, x, context >>
      /\ serving' = [serving EXCEPT ![cpu] = Nothing]
      /\ \A t \in Task \ {cpu} : stack'[t] = stack[t]
  BY DEF ret_from_syscall, At, UsersInv, VectorsInv, StateTypes
<1>2. /\ cpu \in Task /\ stack \in [Task -> Seq(Frame)]
      /\ cpu \in UserTask /\ Goes(cpu, pc, x, Len(stack[cpu]))
  <2>1. cpu # InitTask
    BY <1>1 DEF UsersInv, VectorsInv, TasksOK, Standing, KmainPlace
  <2> QED
    BY <2>1, Running DEF UsersInv, VectorsInv, StateTypes
<1>3. serving' \in [Task -> [cause : Cause, address : Addr \union {0}]]
      /\ serving'[cpu].cause # "svc" /\ \A t \in Task \ {cpu} : serving'[t] = serving[t]
  BY <1>1, <1>2 DEF UsersInv, Nothing, Cause
<1>4. Len(stack[cpu]) = 1
  BY <1>1, <1>2 DEF Goes, Situated, Nested
<1>5. Len(stack'[cpu]) = 1
  <2> DEFINE s == [stack[cpu] EXCEPT ![1].x.x0 = x.x0]
  <2>1. stack'[cpu] = s
    BY <1>2, <1>4 DEF ret_from_syscall
  <2> QED
    BY <1>2, <1>4, <2>1
<1>6. ASSUME NEW t \in UserTask PROVE UserOK(t)'
  <2>1. CASE t = cpu
    <3>1. \A i \in 2 .. Len(stack'[t]) : FALSE
      <4>1. \A i \in 2 .. 1 : FALSE
        OBVIOUS
      <4> QED
        BY ONLY <1>5, <2>1, <4>1
    <3>2. Goes(t, pc, x, Len(stack[t]))'
      BY <1>1, <1>3, <1>5, <2>1 DEF Goes, Situated, Nested, NotCalling
    <3> QED
      BY <1>1, <2>1, <3>1, <3>2 DEF UserOK
  <2>2. CASE t # cpu
    <3>1. stack'[t] = stack[t] /\ serving'[t] = serving[t] /\ context' = context
      BY <1>1, <1>3, <2>2 DEF UserTask
    <3> QED
      BY <1>1, <2>2, <3>1 DEF UsersInv, UserOK, Goes
  <2> QED
    BY <2>1, <2>2
<1>7. StackPointerReady'
  BY <1>1 DEF StackPointerReady
<1> QED
  BY <1>3, <1>6, <1>7 DEF UsersInv

LEMMA UserScheduleKeeps == UsersInv /\ VectorsInv' /\ ScheduleImpl => UsersInv'
<1> SUFFICES ASSUME UsersInv, VectorsInv', ScheduleImpl PROVE UsersInv'
  OBVIOUS
<1> DEFINE after == AfterSchedule(pc)
           left == [context EXCEPT ![cpu] = [pc |-> after, x |-> x]]
<1>1. PICK u \in Task :
         /\ Created(u) /\ cpu' = u /\ pc' = left[u].pc /\ x' = left[u].x /\ context' = left
  BY DEF ScheduleImpl
<1>2. /\ cpu \in Task /\ context \in [Task -> [pc : Address, x : Registers]]
      /\ UNCHANGED << stack, serving >>
  BY DEF UsersInv, VectorsInv, StateTypes, ScheduleImpl
<1>3. \/ pc.at = "schedule" /\ after.at = "kmain"
      \/ pc.at = "schedule0" /\ after.at = "mask0"
      \/ pc.at = "schedule1" /\ after.at = "mask1"
      \/ pc.at = "exited" /\ after.at = "exited"
  <2>1. pc.at \in {"schedule", "schedule0", "schedule1", "exited"}
    BY DEF ScheduleImpl
  <2> QED
    BY <2>1 DEF AfterSchedule, At
<1>4. cpu \in UserTask => Goes(cpu, after, x, Len(stack[cpu]))
  <2>1. cpu \in UserTask => Goes(cpu, pc, x, Len(stack[cpu]))
    BY Running
  <2> QED
    BY <1>3, <2>1 DEF Goes, Situated, Nested, NotCalling
<1> HIDE DEF after
<1>5. ASSUME NEW t \in UserTask PROVE UserOK(t)'
  <2>1. t \in Task /\ serving' = serving /\ stack' = stack
    BY <1>2 DEF UserTask
  <2>2. /\ left[t].pc.at # "none" => Goes(t, left[t].pc, left[t].x, Len(stack[t]))
        /\ left[t].pc.at = "none" => stack[t] = << >> /\ serving[t].cause # "svc"
    <3>1. CASE t = cpu
      <4>1. left[t].pc = after /\ left[t].x = x
        BY <1>2, <3>1
      <4> QED
        BY <1>3, <1>4, <3>1, <4>1
    <3>2. CASE t # cpu
      <4>1. left[t] = context[t]
        BY <1>2, <3>2, <2>1
      <4> QED
        BY <3>2, <4>1 DEF UsersInv, UserOK
    <3> QED
      BY <3>1, <3>2
  <2>3. \A i \in 2 .. Len(stack[t]) : Goes(t, stack[t][i].elr, stack[t][i].x, i - 1)
    BY DEF UsersInv, UserOK
  <2>4. t = u => left[t].pc.at # "none"
    BY <1>1, <1>2, <1>3 DEF Created
  <2> HIDE DEF left
  <2> QED
    BY <1>1, <2>1, <2>2, <2>3, <2>4 DEF UserOK, Goes
<1>6. StackPointerReady'
  <2>1. pc'.at # "eret"
    <3>1. CASE u = cpu
      BY <1>1, <1>2, <1>3, <3>1
    <3>2. CASE u # cpu
      BY <1>1, <1>2, <3>2 DEF UsersInv, VectorsInv, TasksOK, WaitsAt
    <3> QED
      BY <3>1, <3>2
  <2> QED
    BY <2>1 DEF StackPointerReady
<1> QED
  BY <1>2, <1>5, <1>6 DEF UsersInv

LEMMA UserStutters == UsersInv /\ VectorsInv' /\ UNCHANGED vars => UsersInv'
<1> SUFFICES ASSUME UsersInv, VectorsInv', UNCHANGED vars PROVE UsersInv'
  OBVIOUS
<1>1. StackPointerReady'
  BY DEF UsersInv, StackPointerReady, Top, vars, registers
<1> QED
  BY <1>1, Running, MoveUser DEF vars

LEMMA UsersNext == UsersInv /\ [Next]_vars => UsersInv'
<1> SUFFICES ASSUME UsersInv, [Next]_vars PROVE UsersInv'
  OBVIOUS
<1>1. VectorsInv'
  BY VectorsNext DEF UsersInv
<1> QED
  BY <1>1, UserMovesKeep, AbortKeeps, ExitLoadKeeps, UserPushesKeep, UserPopKeeps, UserCopyKeeps,
     UserReturnKeeps, UserScheduleKeeps, UserStutters DEF Next

\* UsersInv is an inductive invariant.
THEOREM UsersInvariance == Spec => []UsersInv
BY UsersInit, UsersNext, PTL DEF Spec

-----------------------------------------------------------------------------
(***************************************************************************)
(* Each step is one of UserMachine or changes nothing that it has.         *)
(***************************************************************************)
Machines == [t \in UserTask |-> Machine(t)]

\* The machine that a frame holds.
Held(frame) == [pc |-> frame.elr.n, sp |-> frame.sp, x0 |-> frame.x.x0, number |-> frame.x.number]

\* A machine is not NoTask.
LEMMA MachineIsNotNoTask ==
    ASSUME NEW frame \in Frame
    PROVE  Held(frame) # NoTask
<1>1. Held(frame) \in [pc : 0 .. LastPC, sp : Stack, x0 : -1 .. Cardinality(Task) - 1,
                       number : 0 .. SYSCALL_COUNT]
  BY DEF Held, Frame, Address, Registers
<1> QED
  BY <1>1, VectorsAssumption DEF Stack

\* What a task in user mode has in the registers, one that is not has in its first frame.
LEMMA MachineForms ==
    ASSUME NEW t \in UserTask
    PROVE  /\ t = cpu /\ pc.at = "user" =>
                 Machine(t) = [pc |-> pc.n, sp |-> sp_el0, x0 |-> x.x0, number |-> x.number]
           /\ ~(t = cpu /\ pc.at = "user") /\ stack[t] # << >> => Machine(t) = Held(stack[t][1])
           /\ ~(t = cpu /\ pc.at = "user") /\ stack[t] = << >> => Machine(t) = NoTask
BY DEF Machine, InUserMode, Held

\* In the kernel the frames are all there is of the machines.
LEMMA KernelStutters ==
    ASSUME pc.at # "user", pc'.at # "user", stack' = stack,
           \A t \in UserTask : serving'[t].cause = "svc" <=> serving[t].cause = "svc"
    PROVE  Machines' = Machines /\ Calling' = Calling
BY DEF Machines, Machine, InUserMode, Calling

LEMMA KernelStepsStutter ==
    ASSUME UsersInv,
           \/ CheckNumber \/ SystemCallWrite \/ SystemCallFork \/ SystemCallExit
           \/ el0_da \/ do_mem_abort \/ handle_invalid_entry \/ Schedule
           \/ ret_from_fork \/ DisableIrq \/ KernelExitLoad \/ ScheduleImpl
    PROVE  Machines' = Machines /\ Calling' = Calling
<1>1. pc.at # "user" /\ stack' = stack
  BY DEF CheckNumber, SystemCallWrite, SystemCallFork, SystemCallExit, el0_da, do_mem_abort,
         handle_invalid_entry, Schedule, ret_from_fork, DisableIrq, KernelExitLoad, ScheduleImpl
<1>2. pc'.at # "user"
  <2>1. CASE ScheduleImpl
    <3>1. PICK u \in Task :
             /\ Created(u)
             /\ pc' = [context EXCEPT ![cpu] = [pc |-> AfterSchedule(pc), x |-> x]][u].pc
      BY <2>1 DEF ScheduleImpl
    <3>2. context \in [Task -> [pc : Address, x : Registers]]
      BY DEF UsersInv, VectorsInv, StateTypes
    <3>3. CASE u = cpu
      BY <2>1, <3>1, <3>2, <3>3 DEF AfterSchedule, At, ScheduleImpl
    <3>4. CASE u # cpu
      BY <3>1, <3>2, <3>4 DEF UsersInv, VectorsInv, TasksOK, WaitsAt
    <3> QED
      BY <3>3, <3>4
  <2>2. CASE ~ScheduleImpl
    BY <2>2 DEF CheckNumber, SystemCallWrite, SystemCallFork, SystemCallExit, el0_da, do_mem_abort,
           handle_invalid_entry, Schedule, ret_from_fork, DisableIrq, KernelExitLoad, At
  <2> QED
    BY <2>1, <2>2
<1>3. \A t \in UserTask : serving'[t].cause = "svc" <=> serving[t].cause = "svc"
  <2>1. CASE do_mem_abort
    <3>1. cpu \in UserTask => serving[cpu].cause # "svc"
      BY <2>1, Running DEF do_mem_abort, Goes, Situated, NotCalling
    <3>2. serving' = serving \/ serving' = [serving EXCEPT ![cpu] = Nothing]
      BY <2>1 DEF do_mem_abort
    <3> QED
      BY <3>1, <3>2 DEF UsersInv, Nothing, UserTask
  <2>2. CASE ~do_mem_abort
    BY <2>2 DEF CheckNumber, SystemCallWrite, SystemCallFork, SystemCallExit, el0_da,
           handle_invalid_entry, Schedule, ret_from_fork, DisableIrq, KernelExitLoad, ScheduleImpl
  <2> QED
    BY <2>1, <2>2
<1> QED
  BY <1>1, <1>2, <1>3, KernelStutters

\* A fault or a tick saves the machine of the program that it interrupts.
LEMMA EntriesStutter ==
    ASSUME UsersInv, UsersInv', DataAbort \/ TickPreempts \/ TickReturns
    PROVE  Machines' = Machines /\ Calling' = Calling
<1>1. CASE TickReturns
  BY <1>1 DEF TickReturns, Machines, Machine, InUserMode, Calling
<1>2. CASE DataAbort \/ TickPreempts
  <2> DEFINE frame == [x |-> x, sp |-> IF Level(pc) = "EL0" THEN sp_el0 ELSE 0,
                       elr |-> pc, spsr |-> Level(pc)]
  <2>1. /\ stack' = [stack EXCEPT ![cpu] = Append(@, frame)] /\ cpu' = cpu
        /\ pc'.at # "user"
    BY <1>2 DEF DataAbort, TickPreempts, KernelEntry, At
  <2>2. pc.at = "user" => Held(frame) = [pc |-> pc.n, sp |-> sp_el0, x0 |-> x.x0, number |-> x.number]
    BY DEF Held, Level
  <2> HIDE DEF frame
  <2>3. /\ stack \in [Task -> Seq(Frame)] /\ stack' \in [Task -> Seq(Frame)] /\ cpu \in Task
        /\ serving \in [Task -> [cause : Cause, address : Addr \union {0}]]
    BY DEF UsersInv, VectorsInv, StateTypes
  <2>4. ASSUME NEW t \in UserTask PROVE Machine(t)' = Machine(t)
    <3>1. t \in Task
      BY DEF UserTask
    <3>2. CASE t # cpu
      BY <2>1, <2>3, <3>1, <3>2 DEF Machine, InUserMode
    <3>3. CASE t = cpu
      <4>1. stack[t] \in Seq(Frame) /\ stack'[t] = Append(stack[t], frame)
        BY <2>1, <2>3, <3>1, <3>3
      <4>2. stack'[t] # << >>
        BY <4>1
      <4>3. Machine(t)' = Held(stack'[t][1])
        BY <2>1, <4>2 DEF Machine, InUserMode, Held
      <4>4. pc.at = "user" <=> stack[t] = << >>
        BY <3>3 DEF UsersInv, VectorsInv, TasksOK, Standing, UserTask
      <4>5. CASE pc.at = "user"
        <5>1. stack'[t][1] = frame
          BY <4>1, <4>4, <4>5
        <5> QED
          BY <2>2, <3>3, <4>3, <4>5, <5>1 DEF Machine, InUserMode
      <4>6. CASE pc.at # "user"
        <5>1. 1 \in 1 .. Len(stack[t])
          BY <4>1, <4>4, <4>6
        <5>2. stack'[t][1] = stack[t][1]
          BY <4>1, <5>1
        <5> QED
          BY <4>3, <4>4, <4>6, <5>2, MachineForms
      <4> QED
        BY <4>5, <4>6
    <3> QED
      BY <3>2, <3>3
  <2>5. \A t \in UserTask : serving'[t].cause = "svc" <=> serving[t].cause = "svc"
    <3>1. CASE DataAbort
      <4>1. PICK a \in Addr : serving' = [serving EXCEPT ![cpu] = [cause |-> "dabt", address |-> a]]
        BY <3>1 DEF DataAbort
      <4>2. cpu \in UserTask => serving[cpu].cause # "svc"
        BY <3>1, Running DEF DataAbort, InUserMode, Goes, Situated, NotCalling
      <4> QED
        BY <2>3, <4>1, <4>2 DEF UserTask
    <3>2. CASE TickPreempts
      BY <3>2 DEF TickPreempts
    <3> QED
      BY <1>2, <3>1, <3>2
  <2> QED
    BY <2>4, <2>5 DEF Machines, Calling
<1> QED
  BY <1>1, <1>2

\* kernel_exit gives the program its machine back.
LEMMA ExitStutters ==
    ASSUME UsersInv, UsersInv', KernelExitEret
    PROVE  Machines' = Machines /\ Calling' = Calling
<1>1. /\ pc.at = "eret" /\ UNCHANGED << cpu, serving, sp_el0 >>
      /\ pc' = Top.elr /\ x' = Top.x /\ stack' = [stack EXCEPT ![cpu] = Popped(@)]
  BY DEF KernelExitEret, registers, UsersInv, VectorsInv, EretReturnsToFrame
<1>2. /\ stack[cpu] \in Seq(Frame) /\ Len(stack[cpu]) \in Nat \ {0}
      /\ cpu \in Task /\ stack \in [Task -> Seq(Frame)]
  BY <1>1, HasFrame DEF KmainPlace, InsideTick, UsersInv, VectorsInv, StateTypes
<1>3. ASSUME NEW t \in UserTask PROVE Machine(t)' = Machine(t)
  <2>1. CASE t # cpu
    <3>1. stack'[t] = stack[t]
      BY <1>1, <1>2, <2>1 DEF UserTask
    <3> QED
      BY <1>1, <2>1, <3>1 DEF Machine, InUserMode
  <2>2. CASE t = cpu
    <3> DEFINE s == stack[t]
               n == Len(s)
    <3>1. /\ s \in Seq(Frame) /\ n \in Nat \ {0} /\ stack'[t] = SubSeq(s, 1, n - 1) /\ Top = s[n]
          /\ s # << >>
      BY <1>1, <1>2, <2>2 DEF Popped, Top
    <3>2. Machine(t) = Held(s[1])
      BY <1>1, <3>1, MachineForms
    <3>3. pc'.at = "user" <=> stack'[t] = << >>
      BY <1>1, <2>2 DEF UsersInv, VectorsInv, TasksOK, Standing, UserTask
    <3>4. CASE n = 1
      <4>1. stack'[t] = << >>
        BY <3>1, <3>4
      <4>2. sp_el0 = Top.sp
        BY <1>1, <2>2, <3>4 DEF UsersInv, StackPointerReady, UserTask
      <4>3. Machine(t)' = [pc |-> Top.elr.n, sp |-> Top.sp, x0 |-> Top.x.x0, number |-> Top.x.number]
        BY <1>1, <2>2, <3>3, <4>1, <4>2 DEF Machine, InUserMode
      <4> QED
        BY <3>1, <3>2, <3>4, <4>3 DEF Held
    <3>5. CASE n # 1
      <4>1. 1 \in 1 .. n - 1
        BY <3>1, <3>5, TwoOrMore
      <4>2. stack'[t][1] = s[1] /\ stack'[t] # << >>
        <5>1. Len(stack'[t]) = n - 1 /\ \A i \in 1 .. n - 1 : stack'[t][i] = s[i]
          BY <3>1
        <5>2. Len(stack'[t]) # 0
          BY <3>1, <4>1, <5>1
        <5> QED
          BY <4>1, <5>1, <5>2
      <4> QED
        BY <3>2, <3>3, <4>2 DEF Machine, InUserMode, Held
    <3> QED
      BY <3>4, <3>5
  <2> QED
    BY <2>1, <2>2
<1> QED
  BY <1>1, <1>3 DEF Machines, Calling

LEMMA MachinesInit == Init => UserMachines!Init
<1> SUFFICES ASSUME Init PROVE UserMachines!Init
  OBVIOUS
<1> DEFINE frame == [x |-> NoRegisters, sp |-> 2, elr |-> User(0), spsr |-> "EL0"]
<1>1. ASSUME NEW t \in UserTask
      PROVE  /\ Machine(t) = IF t = FirstTask
                    THEN [pc |-> 0, sp |-> 2, x0 |-> 0, number |-> 0] ELSE NoTask
             /\ serving[t].cause # "svc"
  <2>1. t \in Task /\ t # cpu /\ serving[t].cause = "none"
    BY DEF Init, UserTask, Nothing
  <2>2. CASE t = FirstTask
    <3>1. stack[t] = << frame >>
      BY <2>1, <2>2 DEF Init
    <3>2. stack[t] # << >> /\ stack[t][1] = frame
      BY <3>1
    <3> QED
      BY <2>1, <2>2, <3>2, MachineForms DEF Held, User, NoRegisters
  <2>3. CASE t # FirstTask
    BY <2>1, <2>3, MachineForms DEF Init
  <2> QED
    BY <2>1, <2>2, <2>3
<1>2. FirstTask \in UserTask
  BY VectorsAssumption DEF UserTask
<1> QED
  BY <1>1, <1>2 DEF UserMachines!Init, Calling

\* A program in user mode is a user task's, which is in no system call.
LEMMA ProgramRuns ==
    ASSUME UsersInv, pc.at = "user"
    PROVE  /\ cpu \in UserTask /\ cpu \notin Calling
           /\ Machines[cpu] = [pc |-> pc.n, sp |-> sp_el0, x0 |-> x.x0, number |-> x.number]
           /\ Machines[cpu] # NoTask
<1>1. cpu \in UserTask
  BY DEF UsersInv, VectorsInv, StateTypes, TasksOK, Standing, KmainPlace, UserTask
<1>2. cpu \notin Calling
  BY <1>1, Running DEF Calling, Goes, Situated, NotCalling
<1> DEFINE frame == [x |-> x, sp |-> sp_el0, elr |-> pc, spsr |-> "EL0"]
<1>3. frame \in Frame
  BY DEF UsersInv, VectorsInv, StateTypes, Frame
<1>4. Held(frame) = [pc |-> pc.n, sp |-> sp_el0, x0 |-> x.x0, number |-> x.number]
  BY DEF Held
<1> HIDE DEF frame
<1>5. Machines[cpu] = Held(frame)
  BY <1>1, <1>4, MachineForms DEF Machines
<1> QED
  BY <1>1, <1>2, <1>3, <1>4, <1>5, MachineIsNotNoTask

LEMMA InstructionMaps ==
    ASSUME UsersInv, UserInstruction
    PROVE  UserMachines!Next
<1>1. PICK sp \in UserStack : sp_el0' = sp
  BY DEF UserInstruction
<1>2. /\ pc.at = "user" /\ pc'.at = "user" /\ pc'.n = pc.n + 1
      /\ UNCHANGED << cpu, x, stack, serving >>
  BY DEF UserInstruction, InUserMode, User
<1>3. /\ cpu \in UserTask /\ cpu \notin Calling /\ Machines[cpu] # NoTask
      /\ Machines[cpu] = [pc |-> pc.n, sp |-> sp_el0, x0 |-> x.x0, number |-> x.number]
  BY <1>2, ProgramRuns
<1>4. \A t \in UserTask \ {cpu} : Machine(t)' = Machine(t)
  BY <1>2 DEF Machine, InUserMode
<1>5. Machine(cpu)' = [pc |-> pc.n + 1, sp |-> sp, x0 |-> x.x0, number |-> x.number]
  BY <1>1, <1>2 DEF Machine, InUserMode
<1>6. \A t \in UserTask : t # cpu => Machine(t)' = Machines[t]
  BY <1>4 DEF Machines
<1>7. Machines' = [Machines EXCEPT ![cpu].pc = @ + 1, ![cpu].sp = sp]
  <2> DEFINE m == [pc |-> pc.n, sp |-> sp_el0, x0 |-> x.x0, number |-> x.number]
  <2>1. Machine(cpu)' = [Machines[cpu] EXCEPT !.pc = @ + 1, !.sp = sp]
    <3>1. [m EXCEPT !.pc = @ + 1, !.sp = sp] = [pc |-> pc.n + 1, sp |-> sp, x0 |-> x.x0, number |-> x.number]
      <4> DEFINE next == [pc |-> pc.n + 1, sp |-> sp_el0, x0 |-> x.x0, number |-> x.number]
      <4>1. [m EXCEPT !.pc = @ + 1] = next
        OBVIOUS
      <4>2. [next EXCEPT !.sp = sp] = [pc |-> pc.n + 1, sp |-> sp, x0 |-> x.x0, number |-> x.number]
        OBVIOUS
      <4>3. [m EXCEPT !.pc = @ + 1, !.sp = sp] = [[m EXCEPT !.pc = @ + 1] EXCEPT !.sp = sp]
        OBVIOUS
      <4> QED
        BY <4>1, <4>2, <4>3
    <3>2. Machines[cpu] = m
      BY <1>3
    <3> HIDE DEF m
    <3> QED
      BY <1>5, <3>1, <3>2
  <2>2. Machines' = [Machines EXCEPT ![cpu] = [Machines[cpu] EXCEPT !.pc = @ + 1, !.sp = sp]]
    BY <1>2, <1>3, <1>6, <2>1 DEF Machines
  <2> QED
    BY <1>3, <2>2 DEF Machines
<1>8. Calling' = Calling
  BY <1>2 DEF Calling
<1>9. UserMachines!Instruction(cpu)
  BY <1>3, <1>7, <1>8 DEF UserMachines!Instruction, Machines
<1> QED
  BY <1>3, <1>9 DEF UserMachines!Next

LEMMA CallMaps ==
    ASSUME UsersInv, UsersInv', el0_svc
    PROVE  UserMachines!Next
<1>1. PICK n \in 0 .. SYSCALL_COUNT :
         /\ x' = [x EXCEPT !.number = n]
         /\ KernelEntry([x EXCEPT !.number = n], User(pc.n + 1))
  BY DEF el0_svc
<1>2. /\ pc.at = "user" /\ pc'.at = "svc" /\ cpu' = cpu
      /\ serving' = [serving EXCEPT ![cpu] = [cause |-> "svc", address |-> 0]]
  BY DEF el0_svc, InUserMode, At
<1>3. /\ cpu \in UserTask /\ cpu \notin Calling /\ Machines[cpu] # NoTask
      /\ Machines[cpu] = [pc |-> pc.n, sp |-> sp_el0, x0 |-> x.x0, number |-> x.number]
  BY <1>2, ProgramRuns
<1>4. /\ cpu \in Task /\ stack \in [Task -> Seq(Frame)] /\ x \in Registers /\ stack[cpu] = << >>
      /\ serving \in [Task -> [cause : Cause, address : Addr \union {0}]]
  BY <1>2, <1>3 DEF UsersInv, VectorsInv, StateTypes, TasksOK, Standing, UserTask
<1> DEFINE frame == [x |-> [x EXCEPT !.number = n], sp |-> IF Level(User(pc.n + 1)) = "EL0" THEN sp_el0 ELSE 0,
                     elr |-> User(pc.n + 1), spsr |-> Level(User(pc.n + 1))]
<1>5. stack' = [stack EXCEPT ![cpu] = Append(@, frame)]
  BY <1>1 DEF KernelEntry
<1>6. Held(frame) = [pc |-> pc.n + 1, sp |-> sp_el0, x0 |-> x.x0, number |-> n]
  BY <1>4 DEF Held, Level, User, Registers
<1> HIDE DEF frame
<1>7. stack'[cpu] = << frame >> /\ \A t \in Task \ {cpu} : stack'[t] = stack[t]
  BY <1>4, <1>5
<1>8. stack'[cpu] # << >> /\ stack'[cpu][1] = frame
  BY <1>7
<1>9. Machine(cpu)' = [pc |-> pc.n + 1, sp |-> sp_el0, x0 |-> x.x0, number |-> n]
  BY <1>2, <1>6, <1>8 DEF Machine, InUserMode, Held
<1>10. \A t \in UserTask : t # cpu => Machine(t)' = Machines[t]
  BY <1>2, <1>7 DEF Machines, Machine, InUserMode, UserTask
<1>11. Machines' = [Machines EXCEPT ![cpu].pc = @ + 1, ![cpu].number = n]
  <2> DEFINE m == [pc |-> pc.n, sp |-> sp_el0, x0 |-> x.x0, number |-> x.number]
  <2>1. Machine(cpu)' = [Machines[cpu] EXCEPT !.pc = @ + 1, !.number = n]
    <3>1. [m EXCEPT !.pc = @ + 1, !.number = n] = [pc |-> pc.n + 1, sp |-> sp_el0, x0 |-> x.x0, number |-> n]
      <4> DEFINE next == [pc |-> pc.n + 1, sp |-> sp_el0, x0 |-> x.x0, number |-> x.number]
      <4>1. [m EXCEPT !.pc = @ + 1] = next
        OBVIOUS
      <4>2. [next EXCEPT !.number = n] = [pc |-> pc.n + 1, sp |-> sp_el0, x0 |-> x.x0, number |-> n]
        OBVIOUS
      <4>3. [m EXCEPT !.pc = @ + 1, !.number = n] = [[m EXCEPT !.pc = @ + 1] EXCEPT !.number = n]
        OBVIOUS
      <4> QED
        BY <4>1, <4>2, <4>3
    <3>2. Machines[cpu] = m
      BY <1>3
    <3> HIDE DEF m
    <3> QED
      BY <1>9, <3>1, <3>2
  <2>2. Machines' = [Machines EXCEPT ![cpu] = [Machines[cpu] EXCEPT !.pc = @ + 1, !.number = n]]
    BY <1>2, <1>3, <1>10, <2>1 DEF Machines
  <2> QED
    BY <1>3, <2>2 DEF Machines
<1>12. Calling' = Calling \union {cpu}
  BY <1>2, <1>3, <1>4 DEF Calling, UserTask
<1>13. UserMachines!Call(cpu)
  BY <1>3, <1>11, <1>12 DEF UserMachines!Call, Machines
<1> QED
  BY <1>3, <1>13 DEF UserMachines!Next

LEMMA ForkMaps ==
    ASSUME UsersInv, UsersInv', CopyProcess
    PROVE  UserMachines!Next \/ (Machines' = Machines /\ Calling' = Calling)
<1>1. /\ pc.at = "copy" /\ pc'.at = "ret" /\ UNCHANGED << cpu, serving >> /\ Calling' = Calling
  BY DEF CopyProcess, At, Calling
<1>2. /\ cpu \in UserTask /\ Goes(cpu, pc, x, Len(stack[cpu]))
      /\ stack \in [Task -> Seq(Frame)]
  <2>1. cpu # InitTask
    BY <1>1 DEF UsersInv, VectorsInv, TasksOK, Standing, KmainPlace
  <2> QED
    BY <2>1, Running DEF UsersInv, VectorsInv, StateTypes
<1>3. cpu \in Calling /\ stack[cpu] # << >> /\ stack[cpu][1] \in Frame
  <2>1. Len(stack[cpu]) = 1 /\ stack[cpu] \in Seq(Frame) /\ cpu \in Calling
    BY <1>1, <1>2 DEF Goes, Situated, Nested, Calling, UserTask
  <2>2. 1 \in 1 .. Len(stack[cpu])
    BY <2>1
  <2> QED
    BY <2>1, <2>2
<1>4. Machines[cpu] = Held(stack[cpu][1]) /\ Machines[cpu].number = 1
  <2>1. Machines[cpu] = Held(stack[cpu][1])
    BY <1>1, <1>2, <1>3, MachineForms DEF Machines
  <2> QED
    BY <1>1, <1>2, <2>1 DEF Held, Goes, Situated
<1>5. CASE stack' = stack
  BY <1>1, <1>5 DEF Machines, Machine, InUserMode
<1>6. CASE stack' # stack
  <2>1. PICK u \in Task :
            /\ ~Created(u)
            /\ stack' = [stack EXCEPT ![u] = << ChildResult(stack[cpu][1]) >>]
    BY <1>6 DEF CopyProcess
  <2>2. u # cpu /\ context[u].pc.at = "none"
    BY <2>1 DEF Created
  <2>3. u \in UserTask
    BY <1>2, <2>2 DEF UsersInv, VectorsInv, TasksOK, UserTask
  <2>4. Machines[u] = NoTask
    <3>1. stack[u] = << >>
      BY <2>2, <2>3 DEF UsersInv, UserOK
    <3> QED
      BY <2>2, <2>3, <3>1, MachineForms DEF Machines
  <2> DEFINE child == ChildResult(stack[cpu][1])
  <2>5. Held(child) = [Held(stack[cpu][1]) EXCEPT !.x0 = 0]
    BY <1>3 DEF Held, ChildResult, Frame, Registers
  <2> HIDE DEF child
  <2>6. stack'[u] = << child >> /\ \A t \in Task \ {u} : stack'[t] = stack[t]
    BY <1>2, <2>1 DEF child
  <2>7. stack'[u] # << >> /\ stack'[u][1] = child
    BY <2>6
  <2>8. Machine(u)' = [Machines[cpu] EXCEPT !.x0 = 0]
    BY <1>1, <1>4, <2>5, <2>7 DEF Machine, InUserMode, Held
  <2>9. \A t \in UserTask : t # u => Machine(t)' = Machines[t]
    BY <1>1, <2>6 DEF Machines, Machine, InUserMode, UserTask
  <2>10. Machines' = [Machines EXCEPT ![u] = [Machines[cpu] EXCEPT !.x0 = 0]]
    BY <2>3, <2>8, <2>9 DEF Machines
  <2>11. UserMachines!Fork(cpu)
    BY <1>1, <1>3, <1>4, <2>3, <2>4, <2>10
       DEF UserMachines!Fork, UserMachines!Forking, Machines
  <2> QED
    BY <1>2, <2>11 DEF UserMachines!Next
<1> QED
  BY <1>5, <1>6

LEMMA ReturnMaps ==
    ASSUME UsersInv, UsersInv', ret_from_syscall
    PROVE  UserMachines!Next
<1>1. /\ pc.at = "ret" /\ pc'.at = "exit0" /\ UNCHANGED << cpu, x >>
      /\ serving' = [serving EXCEPT ![cpu] = Nothing]
  BY DEF ret_from_syscall, At
<1>2. /\ cpu \in UserTask /\ cpu \in Task /\ Goes(cpu, pc, x, Len(stack[cpu]))
      /\ stack \in [Task -> Seq(Frame)] /\ x \in Registers
      /\ serving \in [Task -> [cause : Cause, address : Addr \union {0}]]
  <2>1. cpu # InitTask
    BY <1>1 DEF UsersInv, VectorsInv, TasksOK, Standing, KmainPlace
  <2> QED
    BY <2>1, Running DEF UsersInv, VectorsInv, StateTypes
<1>3. /\ Len(stack[cpu]) = 1 /\ cpu \in Calling
      /\ stack[cpu][1].x.number = 1 => x.x0 # 0
  BY <1>1, <1>2 DEF Goes, Situated, Nested, Calling
<1>4. 1 \in 1 .. Len(stack[cpu]) /\ stack[cpu] # << >> /\ stack[cpu][1] \in Frame
  <2>1. 1 \in 1 .. Len(stack[cpu]) /\ stack[cpu] \in Seq(Frame)
    BY <1>2, <1>3
  <2> QED
    BY <1>3, <2>1
<1>5. Machines[cpu] = Held(stack[cpu][1])
  BY <1>1, <1>2, <1>4, MachineForms DEF Machines
<1> DEFINE frame == [stack[cpu][1] EXCEPT !.x.x0 = x.x0]
           s == [stack[cpu] EXCEPT ![1] = frame]
<1>6. stack' = [stack EXCEPT ![cpu] = s]
  BY <1>3 DEF ret_from_syscall
<1>7. Held(frame) = [Held(stack[cpu][1]) EXCEPT !.x0 = x.x0]
  BY <1>4 DEF Held, Frame, Registers
<1> HIDE DEF frame
<1>8. s[1] = frame /\ Len(s) = 1
  BY <1>2, <1>3, <1>4
<1> HIDE DEF s
<1>9. stack'[cpu] = s /\ \A t \in Task \ {cpu} : stack'[t] = stack[t]
  BY <1>2, <1>6
<1>10. Machine(cpu)' = [Machines[cpu] EXCEPT !.x0 = x.x0]
  <2>1. stack'[cpu] # << >> /\ stack'[cpu][1] = frame
    BY <1>8, <1>9
  <2> QED
    BY <1>1, <1>5, <1>7, <2>1 DEF Machine, InUserMode, Held
<1>11. \A t \in UserTask : t # cpu => Machine(t)' = Machines[t]
  BY <1>1, <1>9 DEF Machines, Machine, InUserMode, UserTask
<1>12. Machines' = [Machines EXCEPT ![cpu].x0 = x.x0]
  BY <1>1, <1>2, <1>10, <1>11 DEF Machines
<1>13. Calling' = Calling \ {cpu}
  BY <1>1, <1>2 DEF Calling, Nothing, UserTask
<1>14. x.x0 \in -1 .. Cardinality(Task) - 1
  BY <1>2 DEF Registers
<1>15. Machines[cpu].number = 1 => x.x0 # 0
  BY <1>3, <1>5 DEF Held
<1>16. UserMachines!Return(cpu)
  BY <1>3, <1>12, <1>13, <1>14, <1>15 DEF UserMachines!Return, UserMachines!Forking, Machines
<1> QED
  BY <1>2, <1>16 DEF UserMachines!Next

\* ExceptionVectors.S implements UserMachine: whatever faults, ticks and task switches
\* come between two instructions of a program, or in the middle of its system calls, it
\* goes on where it was with its registers and stack pointer, and finds in x0 the result
\* of its own call, which of fork is 0 in the child only.
THEOREM Isolation == Spec => ImplementsUserMachine
<1>1. UsersInv /\ UsersInv' /\ [Next]_vars => [UserMachines!Next]_(UserMachines!machineVars)
  <2> SUFFICES ASSUME UsersInv, UsersInv', [Next]_vars
               PROVE  UserMachines!Next \/ (Machines' = Machines /\ Calling' = Calling)
    BY DEF UserMachines!machineVars, Machines
  <2>1. CASE UNCHANGED vars
    BY <2>1 DEF vars, registers, Machines, Machine, InUserMode, Calling
  <2> QED
    BY <2>1, KernelStepsStutter, EntriesStutter, ExitStutters, InstructionMaps, CallMaps,
       ForkMaps, ReturnMaps DEF Next
<1> QED
  BY <1>1, MachinesInit, UsersInvariance, PTL
     DEF Spec, ImplementsUserMachine, UserMachines!Spec
=============================================================================
