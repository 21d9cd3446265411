# CranberryOS in TLA+

CranberryOS is a small operating system for the Raspberry Pi 3, written in C++
with an assembly layer, that runs on one core: it boots from EL1 or EL2, builds page
tables, moves itself to virtual addresses, starts a timer and a preemptive
scheduler, and runs a user process that forks. This directory specifies it in
TLA+, checks the specifications with TLC, and proves theorems with TLAPS: about the
scheduler and what it promises to tasks, the exception vectors and the machine that
each program sees, the memory manager, the timer, the boot with its page tables and
registers, the console, formatted output, the listing of the device tree, and the bit
fields of registers and page tables. Every safety property that a passing run checks is
a theorem as well; the four liveness properties are model-checked only. Paths below are
relative to the repository (`src/kernel/...`).

What makes this code hard is that the kernel can be interrupted nearly
everywhere. System calls, data aborts and the scheduler itself run with interrupts
enabled; a timer tick enables interrupts again in the middle of its own handling
and may switch tasks there. Whether that is safe depends on a counter per task
(`PreemptCount`) that is itself changed by a load and a store, on which registers
have been saved by then, and on what each task may be in the middle of. None of
it is reached by the repository's unit tests: `src/kernel/UnitTests/Framework.cpp:205-209`
lists Scheduler, SystemCall, TaskStructs and Timer among what has no test.

## 1. Inventory

| Component | State | Operations | What must be right |
|---|---|---|---|
| Scheduler (`Scheduler.cpp/.h/.S`, `TaskStructs.h`) | `Tasks`, `NumberOfTasks`, `pCurrentTask`; per task `State`, `Counter`, `PreemptCount`, the saved context, the kernel stack | `Schedule`, `ScheduleImpl`, `SwitchTo`, `cpu_switch_to`, `TimerTick`, `CopyProcess`, `MoveToUserMode`, `ExitProcess`, `schedule_tail` | guards nest although their count can be interrupted; a task off the CPU is protected; process IDs are unique; zombies never run; every running task runs again, unless a program halts the machine |
| Exception vectors and system calls (`ExceptionVectors.S`, `SystemCall.*`) | `ELR_EL1`, `SPSR_EL1`, `SP_EL0`, `ESR_EL1`, `FAR_EL1`, DAIF; the frames on the kernel stacks | `kernel_entry`, `kernel_exit`, `el0_svc`, `el0_da`, `irq_el1h`, `irq_el0_64`, `ret_from_fork` | a program finds its registers as it left them whatever runs in between; a handler uses the registers of its own exception |
| Memory manager (`MemoryManager.*`) | the bitset of pages, the page tables, `MemoryState` of each task | `GetFreePage`, `MapTable`, `MapPage`, `AllocateUserPage`, `CopyVirtualMemory`, `do_mem_abort` | a page has one use; tables and books agree; a fork copies; memory is private |
| Timer and interrupt dispatch (`Timer.*`, `ExceptionVectorHandlers.*`) | the system timer's counter, compare register and match bit; the interrupt controller; the callback | `RegisterCallback`, `HandleIRQ`, `handle_irq`, `EnableInterruptController` | armed for a point that is still ahead; no tick twice; ticks keep coming |
| Boot page tables (`AArch64/Boot/MMU.cpp`, `MemoryPageTables.h`) | the tables in `_pg_dir`, a bump allocator, the MMU | `CreatePageTables`, `InsertEntriesForMemoryRange`, `EnableMMU`, the move to virtual addresses | 8 MB are enough; each page translates to what it should; code and stack are mapped at each step |
| Boot entry and exception levels (`AArch64/Boot/Start.S`, `Boot.cpp`, `ExceptionLevel.cpp`) | the exception level, `HCR_EL2`, `SPSR_EL2`, ... | `SwitchToEL1`, `SwitchFromEL2ToEL1`, `boot_kernel` | arrives at EL1 with interrupts masked and nothing left of what the firmware set |
| Descriptors and system registers (`MemoryDescriptor.*`, `SystemRegisters.*`) | 64-bit values | constructors, getters and setters of bit fields, `Entry::Visit` | fields do not overlap; get after set; reserved bits stay; a descriptor is visited as what it is |
| `kmain` and static initialization (`Main.cpp`) | what is ready for interrupts; what the constructors stored | `CallStaticConstructors`, the statements of `kmain`, `CallStaticDestructors` | the order: the console before it prints, vectors, timer and controller before interrupts; constructors are called, and nothing else |
| Mini UART (`MiniUart.*`) | the peripheral's registers and its FIFO | `Init`, `SendString`, `Send` (a poll and a write) | configured in the order the hardware wants; each task's characters in order, none dropped that need not be |
| Formatted output (`Print.*`, `PointerTypes.cpp`) | a parser's state, a buffer and its end | `FormatImpl`, `OutputInteger`, the two output functors | any format, however it ends, means what the comments say; a buffer is terminated inside |
| Device tree (`Peripherals/DeviceTree.*`) | a cursor into the blob, an indentation | `ParseDeviceTree`, `OutputDeviceTree` and its functions for tokens and values | the listing is the tree; no read outside the blob |
| User program (`user_Program.cpp`) | - | fork and loop | what it relies on is in the rows above |
| Kernel stdlib (`bitset`, `cstring`), pointer types and utilities, unit tests, build files | little or none | wrappers, pure functions, stubs for the compiler | |

How they interact: `boot_kernel` builds the page tables, goes to EL1 and to virtual
addresses, and jumps to `kmain`, which calls the static constructors, initializes
the UART, and prints through the formatter to the end. It registers
`Scheduler::TimerTick` with the timer, enables the controller and interrupts, may
list the device tree, runs the unit tests, creates the kernel process with
`CopyProcess`, and then calls `Schedule` for ever. The kernel process maps and
copies the user program (`MoveToUserMode`, with the memory manager) and falls
through `ret_to_user`. From then on the kernel is entered only through the
vectors: a system call reaches `CopyProcess`, `ExitProcess` or the UART; a data
abort reaches `do_mem_abort`; the timer's interrupt reaches `TimerTick` through
`handle_irq` and `Timer::HandleIRQ`, and may call `ScheduleImpl`. The components
share memory (`Tasks`, the `TaskStruct`s, the page bitset, the page tables) and
the registers there is one of per core, and nothing else: no messages, no other
cores, no persistent storage, so there is no crash to recover from.

`PROJECT.json` lists all components with their status, and under `hazards` what
is hard to test in this code, line by line, with the properties that would catch
it going wrong.

## 2. Modules

| Module | What it is |
|---|---|
| `Scheduler` | the scheduler, interruptible between any two accesses to its shared state |
| `TaskSwitching` | abstract: tasks are created, exit, are dispatched. `Scheduler` implements it |
| `SchedulerProofs` | the inductive invariant and the theorems of the guards; on top of it the refinement, and what the task table and counters promise |
| `MCScheduler`, `MCSchedulerProofs` | instances for TLC |
| `ExceptionVectors` | the vectors and the registers of the core |
| `UserMachine` | abstract: each program has a machine to itself. `ExceptionVectors` implements it |
| `ExceptionVectorsProofs` | the inductive invariant of the frames, and on top of it the refinement |
| `MCExceptionVectors` | instance for TLC |
| `MemoryManager`, `MCMemoryManager` | allocator, page tables, faults and forks |
| `MemoryManagerProofs` | its inductive invariant and theorems |
| `SystemTimer` | the timer, its driver and the dispatch (checked directly, without an MC module) |
| `SystemTimerProofs` | its inductive invariant and theorems, with what it takes to count in a circle |
| `BootPageTables` | building and switching to the kernel's page tables |
| `AddressSpace` | abstract: a map that grows page by page. `BootPageTables` implements it |
| `BootProofs` | the inductive invariant of `BootPageTables`, its theorems, and the refinement |
| `BootKernel` | `boot_kernel` from its first statement to `kmain`, register by register, around `BootPageTables` |
| `FormattedOutput` | formats, integers and buffers, with what the comments say of them |
| `MiniUart` | the console: `Init` and tasks that send strings |
| `DeviceTree`, `DeviceTreeBlob` | the walk over a blob; blobs as the Devicetree specification lays them out, and what their listing should be |
| `DeviceTreeProofs` | the layout of a blob, what the walk reads of it, and the invariant of the walk |
| `KernelMain` | `kmain`, composed of `FormattedOutput`, `MiniUart`, `DeviceTreeBlob` and `BootKernel` |
| `KernelMainProofs` | that the console keeps the order; that the kernel, whatever else it does, implements `MiniUart` and `BootPageTables`; what the registers hold at each place of the boot; which interrupts are masked when; that the listing is the tree and the walk stays in the blob; that formats mean what they say |
| `MCKernelMain` | instance for TLC, of the composition and of each of its parts |
| `SystemRegisters` | the classes of registers and descriptors as tables of bit fields |
| `RegisterFields` | a value of any of them under any sequence of setters |
| `RegisterFieldsProofs` | its inductive invariant and theorems |
| `MCRegisterFields` | inputs for TLC |

`KernelMain` is a composition: the kernel from its entry to tasks that print, in
one state space. The others are layered by assumption and guarantee rather than by
one large composition. `Scheduler` assumes that ticks keep coming, which `SystemTimer`
shows (`TicksKeepComing`), and that an allocated page is unused, which
`MemoryManager` shows as long as faults are not concurrent (and refutes when they
are, run `memory_race`). `ExceptionVectors` and `MemoryManager` assume of the
scheduler that it hands the CPU only to tasks that exist and have not exited, and
not while a guard is held: `ZombieNeverResumed`, `ImplementsTaskSwitching` and
`SuspendedInsideGuard` of `Scheduler`. `MemoryManager` assumes that user code runs
on its own tables: `UserRunsOnOwnTables` of `Scheduler`. `KernelMain` lets ticks hand
the core from any task to any other, as `RunningTaskRuns` and `TicksKeepComing` allow
as long as no program halts the machine.

### Scheduler

Each kernel stack is a stack of *activations*: one record per exception being
served, with the function (`fn`), the place in it (`at`), where it returns to
(`caller`) and the locals still needed. `context[t]` is the newest activation of
task `t`, which stands for the CPU registers while `t` owns the CPU and for
`TaskStruct::Context` while it does not; `frames[t]` are those below, pushed by
`kernel_entry` when a tick preempts. `pCurrentTask` and `onCpu` (where `sp`
points) are two variables because the code changes them at different
instructions (`SwitchTo`, then `cpu_switch_to`), with interrupts enabled. `ttbr0`
is a third.

`PreemptCount++` and `--` are a load and a store (`PreemptDisableLoad`,
`PreemptDisableStore`, ...). `ScheduleImpl` looks at one slot per step, in both
its loops, and a tick may come between any two. Where the first loop takes a task, it
compares its `Counter` (`ScanSlot`) and reads it again (`TakeSlot`), and the tick in
between may have decremented it. `CopyProcess` is `AllocateTask` to
`PublishTask`, with `NumberOfTasks++` apart from the store into `Tasks`. A tick is
one action up to the point where `TimerTick` returns or enables interrupts, since
until then they are masked; from there `TickPreempts` has pushed an activation of
`ScheduleImpl` and the interruptible steps go on on top of it.

What a program may do wrong it may do at any time, and the code answers it in two ways.
A data abort that `do_mem_abort` does not serve and an unknown system call
(`DataAbortError`) end in `err_hang` after `enable_irq`
(`ExceptionVectors.S:178-195`): the task hangs there for good, but ticks still take
the CPU from it and give it back. Any other synchronous exception, such as an undefined
instruction or an instruction abort (`UnknownException`), goes to `err_hang` straight
from `sync_el0_64`, with interrupts masked: one program stops the machine for all. It is
also all that a task without page tables can do (a `MoveToUserMode` that could not get
its page).

### ExceptionVectors

The state is the registers themselves. `KernelEntry` is the hardware's exception
entry and `kernel_entry` together, since interrupts are masked until after it;
`kernel_exit` is two steps, because `elr_el1` and `spsr_el1` are loaded before the
`eret` that uses them. `TickReturns` is a tick that does not preempt: all that is
left of it is that `elr_el1` and `spsr_el1` have changed. `serving` is a history
variable: what each task is in the kernel for, to compare with what the handler
reads. The scheduler is reduced to "any task that exists and has not exited".
The vectors that only report (`handle_invalid_entry` for the unused entries of the
table) hang the core at once and are represented by `handle_invalid_entry`.

### MemoryManager

`GetFreePage` is `TestPage`, `LoadWord`, `StoreWord` and `ClearPage`: the loop's
test of one bit, the read-modify-write of the word it is in, and the clearing.
`memory` holds the tables word by word, so that a table at the wrong address is
seen in what it overwrites, and `data` what a user page holds. `MapDirectory` to
`MapTableEntry` walk the four levels of `MapPage`. `act[t]` is what each task is
doing, so that tasks preempted in the middle of `do_mem_abort` are in the state.
`Guarded` is `CopyProcess`'s `DisablePreemptingInScope`, which `do_mem_abort` and
`MoveToUserMode` do not have. `OtherDataAbort` is the error that `do_mem_abort` returns
for anything but a translation fault. `VA` is within the 48 bits that the tables index;
`do_mem_abort` does not look whether a fault was above them, and `MapPage` would drop the
bits above and replace the entry of a page within, which is left out. Frame 0 is physical address 0: what
`GetFreePage` returns when it fails, and what the code then uses as a table.

### SystemTimer

The counter, the compare register and the match bit are the hardware (external, as
the driver uses it); the match is by equality, so that a compare value written too
late matches a whole turn of the counter later (71 minutes on the hardware).
`kmain` is what is left of the initialization; the steps of `handle_irq` and
`HandleIRQ` are actions of their own, with time passing in between.

### BootPageTables

One action per step of the walk of `InsertPageTable` for each page of each of the
five ranges, then `EnableMMU`, the jump to a virtual address and the move of the
stack pointer. `Translation` is the walk the MMU makes from `_pg_dir`.

### SystemRegisters and RegisterFields

A `std::bitset<64>` is the set of the positions of its ones, which keeps the width
and needs no arithmetic beyond that of positions. `WriteMultiBitValue` and
`ReadMultiBitValue` are translated from `Utils.h`; a class is a record of its
fields, each with its mask, its shift and the values its setter can be given, and
the bits its constructor sets. A `bool` flag is a field of one bit, a byte of
`MAIR_EL1` a field of eight. Setters of addresses take any address, which the code
cuts with the mask. `RegisterFields` makes a value, by the constructor or from bits
read, and calls its setters in any order.

`TypeOf` is all that `Entry::Visit` looks at. The comment at
`MemoryDescriptor.h:231` calls a Fault "any descriptor where the lowest bit is 0",
while `IsType` compares both bits, as its unit test demands: an entry that ends in `10` is
passed to no functor, and the caller of `Visit` is not told. `ReadAs("Fault")` has both
kinds of faults, and `VisitedAsItself` says of each what becomes of it: every other
entry is visited as what it is. The kernel writes no entry that ends in `10`, and clears
its tables before it uses them.

### BootKernel

One action per statement of `SwitchToEL1`, `SwitchToPageTable` and `EnableMMU`; the
page tables in between and the moves afterwards are the actions of
`BootPageTables`, of whose `EnableMMU` the last barrier is now the moment.
`register` is what was written to the system registers and `seen` what the
processor goes by: a write is seen at any later moment, at the next barrier or
exception return at the latest. `With` is a constructor followed by setters, by the
tables of `SystemRegisters`.

### KernelMain

One action per statement of `kmain`, in order. `CallStaticConstructors` and
`CallStaticDestructors` are the loop over words that both are, with the bound that
the code computes; `.fini_array` follows `.init_array` in `link.ld`, and what follows
both is no code, so that a call there may return or not. `ready` collects what a tick
needs to find, and `DAIF` is that of `BootKernel`: interrupts are masked from the
firmware on until `enable_irq`. From `schedule` on, tasks send strings while ticks
(`Tick`) take the core from one another.

### FormattedOutput

Pure operators over any set of characters that has those the code compares with or
writes (`CharactersAssumption`) and any width of an integer. `Remaining` is what the
loop of `OutputInteger` has left after each division. `ParseCharacter` is the body of
`FormatImpl`'s loop as a function of its state, `FormatImpl` its recursion over the
format; an output functor is a record of its size and what it took, and whether it took
all of it. An argument is what its `DataWrapper` holds. Pointers are formatted to a buffer that is a format in its turn,
as in `PointerTypes.cpp`. `Meaning` is the reference: the text that a
sequence of pieces stands for, according to the comments of `Print.h` and
`UnitTests/PrintTests.cpp`, and `NumbersReadBack` that a numeral has its value. `IsText`,
`IsElement` and `IsUnfinished` say which sources a piece and an unfinished end can have:
all that the parser reads as one, with any characters where it skips them.

### MiniUart

`InitPuts` is the sequence of `Init`'s writes; a write to a register of the UART
comes to nothing while it is not enabled in the `Enables` register, as the BCM2837
has it. `Poll` is the loop of `Send` when it ends, `WriteCharacter` the write behind
it, with a tick possible in between. A character that is written to a full FIFO is
dropped (`lost`). `interrupted` is a history variable: the characters whose sender
lost the core between poll and write, the only ones that may be dropped.

### DeviceTree and DeviceTreeBlob

`DeviceTree` is the walk, token by token, over any sequence of bytes: integers are
the bytes that a little-endian load finds, swapped by `BEToNative32` and the others
as in the code; `read` is the set of bytes that a step looks at. `DeviceTreeBlob` is
the other side: `Blob` lays a tree out as the Devicetree specification does, and
`TreeListing` is what a listing of it should show, written from the tree and not from
its bytes. `IsFlattened` says which trees a blob can hold: nodes nested in one root,
properties with any bytes as values, any number of reservations, an `FDT_END`, an unknown
token or nothing behind the last item, all of a size that 31 bits count, and no deeper
than the indentation counts.

## 3. Runs

Passing runs:

| Run | What it shows | States, time |
|---|---|---|
| `scheduler_safety` | all safety properties of `Scheduler`, its inductive invariant `IInv` (with the type invariant), and that it implements `TaskSwitching`, with three tasks, allocation failures, programs that go wrong and ticks everywhere | 1.6 M, 1.5 min |
| `scheduler_liveness` | each running task gets the CPU again and again, also from tasks that hang, unless a program halts the machine; and `ScheduleImpl` ends | 780 K, 2-3 min |
| `vectors_safety` | frames match their exceptions, returns go where they should, and each program sees a machine of its own (`UserMachine`) | 1.8 M, 2 min |
| `memory_safety` | one use per page, no page lost, tables agree with books, forks copy, memory is private, up to the exhaustion of the pages, when programs do not fault while other tasks exist | 147 K, 15 s |
| `system_timer` | from any state the firmware may leave: the callback is set in time, the timer is always armed for a point at most one interval ahead, ticks are spaced and keep coming | 12 K, 3 s |
| `boot_kernel` | the kernel from its entry to tasks that print. Every boot from EL1 or EL2 gets there (`Boots`): the exception return arrives at EL1, the page allocator does not run out, translations are exact, the MMU goes by nothing that is not set yet, code and stack are mapped at each step, the kernel reaches all its memory, nothing is left of what the firmware set, and the map grows page by page (`AddressSpace`). No interrupt comes in before there are vectors, a callback and a controller. What `kmain` prints reads as documented, the listing of a device tree is the tree and the walk stays inside the blob, and the console keeps what each task sends in order | 14 K, 2-3 min |
| `register_fields` | in each class of register and descriptor, getters return what was set last, reserved bits and types stay, and an entry is visited as what it is, but for the faults of the finding below | 25 K, 5 s |

Runs that find what a comment says violated by the code; each is a `finding`, and the last comes from a passing run whose property states what the code does:

| Run | What the code does |
|---|---|
| `scheduler_fork_errors` | `CopyProcess` drops the result of `CopyVirtualMemory`: a fork whose copy failed returns a process ID (`Scheduler.cpp:453`, `SystemCall.cpp:20`) |
| `vectors_abort` | `el0_da` enables interrupts before it reads `far_el1` and `esr_el1`, which another task's exception may have overwritten (`ExceptionVectors.S:189-191`) |
| `memory_race` | `GetFreePage` called from two data aborts at once gives the same page to both (`MemoryManager.cpp:65-67`) |
| `memory_tables` | `MapTable` uses the null page as a table when none is left (`MemoryManager.cpp:117`) |
| `static_init` | `CallStaticConstructors` counts bytes where it should count pointers, so that it goes on into `.fini_array` and behind: the destructors run before the unit tests look for what the constructors stored (`Main.cpp:50`) |
| `register_fields` | an entry with type bits `10`, a fault by the comments of `MemoryDescriptor.h:231` and `:264`, is passed to no functor by `Entry::Visit` (`MemoryDescriptor.h:260`) |

Two more comments are not exact: `Scheduler.cpp:343-345` says that a counter stops at
"2 * priority", but the reset adds to the counters of zombies as well, which nobody
uses and which grow by the priority with every reset.
`RunningCounterBounded` therefore speaks of tasks that have not exited, and nothing is
claimed of a zombie's counter, which `MaxCounter` stops in the model. And
`Print.h:326` and `:346` say that format specifications are not supported, while
`FormatImpl` has them and `UnitTests/PrintTests.cpp` tests them; what braces with other
characters between them mean (`{:Ba}`, `}a}`) is said by the code only, and
`FormattedOutput` takes it from there.

The properties of the passing runs state what holds in spite of these; where one
had to be restricted for them, its comment says so (`TablesAvailable`,
`ConcurrentFaults`).

`CHECK_DEADLOCK FALSE` is set where the system really stops: a task in
`err_hang` after an unknown exception has interrupts masked for good (`Scheduler`,
and so `MemoryManager`'s "halt"), `handle_invalid_entry` hangs
(`ExceptionVectors`), a kernel ends in `Panic` when it is entered at EL3, at the end of
`kmain`, lost behind `.fini_array`, or, in the model, with everything sent and shown
(`KernelMain`), and a class without fields has no setters (`RegisterFields`).
Only `system_timer` checks deadlock.

## 4. Bounds

* `Scheduler`: `MinCounter` bounds how far ticks drive the counter of a guarded
  task below zero, `MaxGuardTicks` how many ticks come while one guard is held,
  `MaxCounter` where a zombie's counter stops, `MaxNesting` how deep interrupted
  activations stack up. Two ticks per guard suffice for a tick on each side of
  every load/store pair and for a reset that is undone, after which `ScheduleImpl`
  goes around again. Stacks are one interrupted activation deep: that guards and
  masking keep deeper ones in order as well is what the proofs show, for any depth.
  Three tasks give one that runs, one suspended inside `ScheduleImpl` and one being
  created or exiting. In the liveness run allocation for a
  new task does not fail; programs may hang and halt the machine in it at any time.
  `TicksOnce` bounds both runs: the timer does not fire twice between the two reads of
  a Counter that follow each other in `ScheduleImpl`, since `HandleIRQ` has just armed it
  200 ms ahead.
* `ExceptionVectors`: programs of two instructions, one user page, frames two deep
  (the user's exception and a tick in it, the most the guards permit: a tick that
  preempts a tick would have to come outside any guard, between `ScheduleImpl` and
  `disable_irq`; the bound cuts the third). `vectors_abort` uses two
  pages, so that one task's address differs from the other's.
* `MemoryManager`: tables of two entries still have four levels; the three
  addresses share all tables (0 and 1) and only the directory (15). 26 pages hold
  three processes with two pages that share their tables (21), run out at a user page
  of the third copy when they do not (0 and 15), and at a table with all three; after
  that (`TablesAvailable` is false) nothing is claimed. `memory_tables` has only 4.
  No program touches more than three pages, so that `UserPages` and `KernelPages`
  (16 entries each, without a check) are not overrun: that hazard is listed and not modelled. `ConcurrentFaults` is
  FALSE in the passing run: `user_Program.cpp` touches its code and stack before
  its fork, and what its tasks touch later has been copied.
* `SystemTimer`: a counter of four bits with an interval of 6, so that every
  residue of the counter at the wrap is met. `MaxDelay` bounds the time from a match
  to the callback and from the read of the counter to the write of the compare
  register; it is less than the interval of 200 ms.
* `BootPageTables` and `BootKernel`: pages of 2 bytes and tables of 4 entries; three sizes
  of the image, so that it ends on the first, second and last page of a block;
  `BootPageTablesAssumption` states what the layout in `link.ld` must satisfy. The
  memory of the tables starts out as entries that look valid, the registers full of
  zeros or of ones (`FirmwareWords`), at any level (`FirmwareLevels`). Writes become
  visible late only during `EnableMMU` (`WriteIsSeen`): until the exception return
  nothing depends on when, and `CPACR_EL1` and `SCTLR_EL1` are not used in between.
* `FormattedOutput`: all formats of up to two of ten pieces (text, both kinds of
  braces, elements in several formats, characters that the parser skips) with each of
  five unfinished ends: every state of the parser is left by every class of character,
  and what comes first can leave a state behind for what comes second. Five lists of
  arguments, with too few, with texts that look like formats, null strings and
  pointers; buffers of 1, 4 and 9 characters, so that they are full before, in and
  behind an element. Integers of 8 bits, each of them in each base. The
  proofs are for any of these.
* `MiniUart`: two tasks with strings of 2 and 1 in a FIFO of 1, so that either may fill
  it between the other's poll and its write, and both may do so in turn. The proofs are
  for any number of tasks, strings and FIFO.
* `DeviceTree`: trees of up to eleven items, three deep, with names and values of
  every length modulo 4 (and none), values with and without the end of a string,
  lists, integers, and values whose type does not fit their name; none or two
  reservations, one of them from address 0; blocks that are cut off or end in an unknown
  token; other magic numbers and versions. `IndentLevels` is far from what they reach.
  The proofs are for any tree that can be flattened.
* `CallStaticConstructors`: the two elements that `Framework.cpp` puts into
  `.init_array` and its one in `.fini_array`, with pointers of 8 bytes.
* `RegisterFields`: what is read is all ones or every other bit (`ReadWord`),
  addresses are single bits at the ends of the fields, none and all
  (`GivenAddress`); the proofs hold for any. The tables themselves have no
  parameter, so that TLC's evaluation of `LayoutAssumption` is exhaustive.

Symmetry is used only in runs without liveness, for tasks that are
interchangeable until the allocator hands them out.

## 5. Fairness

`Scheduler!FairSpec`: `WF(KernelStep)`, since the core goes on executing kernel
code; `WF(Tick)`, since `HandleIRQ` arms the timer again on every interrupt and
interrupts are enabled whenever kernel code runs for long (`SystemTimer`'s
`TicksKeepComing` and `IrqMaskedOnlyAtReturn`); and `<>[]` no `SystemCallFork`:
`User::Process` forks once, and a program that did nothing but fork could keep the
CPU, because ticks in `CopyProcess` do not preempt. A machine that a program has halted
is fair to nobody; `RunningTaskRuns` says so. User programs have no
fairness: they may run for ever without calling the kernel, and others must get
the CPU nevertheless.

`SystemTimer!FairSpec`: weak fairness of the counter, of taking an interrupt that
is pending and not masked, of kmain's and the handler's steps, and of
`kernel_exit`. Nothing makes the code mask interrupts.

`KernelMain!KernelSpec`: `WF(Statement)` of the boot and `WF(KernelStatement)` of
`kmain`. One core runs, interrupts are masked until `enable_irq`
(`InterruptsWaitForHandlers`), and nothing waits. When a write is seen on its own is
left open. Once tasks run: `WF(Transmit)`, the UART's own clock; `WF(Tick(w))`,
since ticks keep coming (`TicksKeepComing`) and every running task is dispatched
again and again (`RunningTaskRuns`, the tasks of `KernelMain` halting nothing); and `SF(SendString(w))`: a task goes on whenever
it has the core, but the core is taken away again and again, and the FIFO may be full
each time it is polled but not for ever.

## 6. What is proved

`SchedulerProofs` proves, for any finite set of tasks, any priority, any depth of
nesting and any number of ticks, from `SchedulerAssumption` alone:

* `Invariance`: `Spec => []IInv`;
* `TypeCorrect` (`TypeOK`, with the loop indices inside `Tasks`);
* `GuardsNest` (`GuardDiscipline`);
* `SuspendedGuarded` (`SuspendedInsideGuard`);
* `CurrentOwns` (`CurrentOwnsStack`);
* `IrqMasking` (`IrqMaskedOnlyAtReturn`);
* `ZombiesStayOff` (`ZombieNeverResumed`, an action property).

None of the safety invariants is inductive as it stands. `GuardDiscipline` says
that the count is 1 exactly while the newest activation holds a guard; to see that
a store preserves it one must know what the load before it found (`LoadedCount`),
that the count stored to is the one that was loaded from although a tick may have
switched tasks in between (`OwnerOK`: outside `SwitchTo`'s window `pCurrentTask`
owns the stack, inside it a guard is held), which function can be at which place
(`WellFormed`), and that what a tick leaves below it on a stack holds no guard and
will find an activation to return to (`Interruptible`, `MadeByTick`). `TableOK`
adds that what is chosen from the array is alive until it is switched to, which
needs that no task exits while another is in `ScheduleImpl`. `IInv` is the
conjunction of these with `TypeOK`; the run `scheduler_safety` checks it on an
instance.

`Advance` and `Continued` are the lemmas that carry the proof: nearly every action
moves the running activation to another place of the same stack, and they say
once what follows for the stacks. `Inductive` then has one step per action, where
only the facts about the new place are left; `cpu_switch_to`, `TickPreempts`,
`ReturnFromTick` and the creation of a task are proved at length.

`RegisterFieldsProofs` proves, for any words read and any addresses given, from
`InputsAssumption` and `LayoutAssumption`:

* `GettersCorrect` (`GettersReturnLast`);
* `OtherBitsUntouched` (`OtherBitsKept`).

`LayoutAssumption` says that the fields of each class lie inside the word and apart
from each other, from the constructor's bits and from a descriptor's type. It speaks
of constant tables only, and TLC evaluates it; the proofs add what follows for the
two functions of `Utils.h`: `ReadWritten` (a field reads what was written to it, cut
to its mask, although both shift), `ReadOther` (a field that is apart reads as
before) and `WriteInField`. The invariant `FieldsInv` is the two properties with
`TypeOK`, without which a mask could leave the word.

`EntriesVisited` (`VisitedAsItself`) follows from it: a descriptor has the type of its
class when it is made (`MadeTyped`), no field reaches the two bits of the type
(`TypeIsNoField`), and at each level the types that are looked at differ
(`VisitedByType`).

`SchedulerProofs` goes on from `IInv`. The invariant `SInv` adds `TableFilled` (the
array is filled from the front, and whoever is creating a task is the only one),
`StackShape` (which functions can be below which), `TablesLoaded` (where `ttbr0`
is that of the running task, and where it may still be another's), `CountersOK`, and
`ZombieLeaves`. From `SchedulerAssumption` alone, it proves

* `Refinement` (`ImplementsTaskSwitching`): initial states map to initial states, and
  each step is a step of `TaskSwitching` or none. `InTablePublished` ties the set of
  created tasks to the array, `PublishCreates`, `FlagExits` and `SwitchDispatches` are
  the three actions that are seen, `OthersStutter` all the others;
* `ProcessIDs` (`ProcessIDsUnique`) and `SlotForNewTask` (`NewTaskHasSlot`): no second
  creator comes between `NumberOfTasks++` and the store;
* `OwnTables` (`UserRunsOnOwnTables`);
* `CountersBounded` (`RunningCounterBounded`).

`ExceptionVectorsProofs`, for any tasks, programs, pages and depth of frames, from
`VectorsAssumption`:

* `FirstFrame` (`FirstFrameIsUser`);
* `EretReturns` (`EretReturnsToFrame`).

`VectorsInv` is `StateTypes`, `FramesOK` (what the frames on a stack can be, from the
first one up), `TasksOK` (a user process has a frame exactly while it is in the
kernel, and where each can be) and that the core is masked inside `kernel_exit`: a
tick can only come where interrupts are enabled, and the places where they are not
are those between the loads of `elr_el1` and `spsr_el1` and the `eret`.

The same module shows the refinement, `Isolation` (`ImplementsUserMachine`):
each step of the vectors is a program's own instruction, its call, its fork, its
return, or nothing that any program can see. `UsersInv` adds to `VectorsInv` where
each task and each interrupted frame goes on (`Situated`, `Goes`), that the call being
served is the one that was made, and that `sp_el0` holds the program's stack pointer
when an `eret` goes back to it (`StackPointerReady`).

`SystemTimerProofs`, for any width of the counter, interval and `MaxDelay`, from
`SystemTimerAssumption`:

* `CallbackSet` (`CallbackIsSet`);
* `Armed` (`ArmedWithinInterval`);
* `TicksApart` (`TicksSpaced`).

`TimerInv` is `TypeOK` with `SetupInv` (what is set at which statement of `kmain`),
`ReadInv` (how far the counter is from the value that was read) and `ArmedInv` (how far
the compare register is ahead, and what a match bit says of it). The lemmas about
`Later` and `Distance` carry it over the wrap of the counter.

`MemoryManagerProofs`, for any number of tasks and pages, tables of any number of
entries, any addresses and any of the places where pages run out, from
`MemoryManagerAssumption` and `ConcurrentFaults = FALSE`:

* `MemoryInvariance`: `Spec => []IInv`, and `MemoryTypes`;
* `OneUsePerPage` (`PagesHaveOneUse`);
* `BitsetIsExact` (`BitsetExact`);
* `TablesAndBooks` (`TablesMatchBooks`);
* `ForkCopies` (`ForkCopiesMemory`);
* `PrivateMemory` (`MemoryIsPrivate`, an action property);
* `FailsOnlyWhenFull`: `GetFreePage` returns 0 only when every page is in use. It is
  stated in the proof module only, and holds whether tables have run out or not. Its
  invariant, on top of `IInv`, is `Scanning`: what the loop has passed is in use, and the
  word to be stored is not stale.

The assumption that faults are not concurrent is needed: without it two data aborts
take the same page (run `memory_race`), and `PagesHaveOneUse` is false. But for
`FailsOnlyWhenFull`, nothing is claimed after a page table could not be allocated
(`TablesAvailable`), from where on the code uses physical address 0 as a table. `IInv`
is `Types /\ Control /\ (TablesAvailable => Good)`; `Good` consists of `Books` (no page
is listed twice, in one list or in two; the bit of a page is set exactly if it is listed
or on its way), `Choosing` (the page that `GetFreePage` has chosen is in no use before it
is marked, and the word it stores is that of the bitset), `Untouched` (a task that is not
made yet has no pages), `Trees` (from each directory the tables form a tree: no two
entries name the same frame, the frames of a task's tree are those in its `KernelPages`
and `UserPages`, and a frame that is no table holds no entries), `Mapped` (the entries
of the last level are `UserPages`), `Walking` (the walk of `MapPage` is where the walk of
the MMU would be) and `Copying` (how far `CopyVirtualMemory` has come, and that the pages
behind it equal the parent's). That a page has one use is what makes the rest inductive:
a store to one frame leaves the walk through all others as it was (`Trees`), and a tree
that shares no frame with another is untouched by it. The lemmas about linking a table
or a page into a tree carry the proof.

`BootProofs`, for pages, tables, devices and an image of any size that satisfies
`BootPageTablesAssumption` (the layout of `link.ld`), whatever was in the memory of the
tables:

* `BootInvariance`: `Spec => []IInv`, and `BootTypes`;
* `EveryPageAtHome` (`TranslationsExact`);
* `CodeAndStackStayMapped` (`CodeAndStackMapped`);
* `KmainReachesItsMemory` (`KernelReachesItsMemory`);
* `BootImplementsMap` (`ImplementsAddressSpace`), the refinement: inserting a page is
  the step of `AddressSpace`, all others stutter.

That a page is mapped to its home is not inductive: a store at level 3 changes the
translation of an address only if the walk for it ends in that table, and an entry
changes that of all addresses of its span. `TreeOK` gives each table allocated so far
a level and the first address it stands for; each entry is a fault, or a table of the
next level for the right addresses, or at level 3 a page at home. From that the walk
for any address can be computed (`WalkIs`, `WalkAbove`), and inserting a page or a
table changes it for one page or none (`WalkWithPage`, `WalkWithTable`). `Walking` says
that the table at hand is the one that the MMU would reach for the page being entered;
`Ranges` that the five ranges are entered in order, a page at a time; `Complete` that
those behind are mapped. `KernelReachesItsMemory` then needs that the ranges leave no
page out at their seams, although the loop ends before a range's `End`: it is the last
address of a page, and no page begins there.

`KernelMainProofs` proves `ConsoleOrder` (`ConsoleKeepsOrder`) for any number of tasks
and any strings, from `MiniUartAssumption`. `UartInv` needs that the UART is
configured when the last write of `Init` is done, whatever was in its registers
(`Configured`), that nothing is sent before (`InitFirst`), and that a task that polled
and has kept the core still finds room (`RoomIsKept`). It goes on to the kernel as a
whole, `KernelSpec`:

* `KernelIsUart`: the kernel from its first instruction on implements `MiniUart`, and
  with that `KernelConsoleOrder`;
* `KernelIsBoot`: it implements `BootPageTables`, and with that `KernelAddressSpace`,
  the four properties above;
* `HandlersFirst` (`InterruptsWaitForHandlers`);
* `MMUFindsItsTables` (`TranslationReady`);
* `KmainStartsClean` (`ReadyForKmain`).

The last three hold for any place of the image below 2 GB, any words that the firmware
left, any level that it may start the kernel at, and writes that become visible in any
order, from `BootKernelAssumption`. `KernelInv` is the invariant: `Written` says of each
register from which statement on it holds what was written last; `Seen` that the MMU is
off in what the processor goes by until all else that it depends on has been seen;
`Levels` and `Places` which exception level, and which step of the page tables, each
statement is at; and `Masked` what is set up for interrupts at each place in `kmain`. The
masks after the exception return are those of `SPSR_EL2`, so that `Masked` rests on
`Written`. What the words mean is computed in lemmas about the fields of each class
(`HCRBits`, `SPSRBits`, ..., `ReturnRead`, `LevelsRead`, `AttributesRead`, `TableBaseRead`):
that the mask of `BADDR`, which cuts the lowest bit, cuts nothing needs that `_pg_dir` is
at an even address.

`DeviceTreeProofs` is about one walk, over the blob of any tree that satisfies
`IsFlattened`. It goes from the bytes up: how long a joined sequence is and where its
parts are (`JoinedIs`, `StoredJoined`); where in the blob the blocks are, and in them each
name, value and string; that the integers which the walk loads and swaps there are those
that were laid out; that `StrLen`, and the recursion over the strings of a list, stop at the
zeros the layout has put there and at no byte behind. `WalkKnows` is the invariant: the
walk is at the header, at a reservation, at the token of an item, or done; the cursor is
where the layout has that item; the indentation is its depth; the listing so far is the
listing of all that is in front of it; and what the last step read is inside the blob. There
is one lemma per token, and `WalkKeeps` puts them together. `KernelMainProofs` takes it to
`KernelSpec` with `DumpInv`:

* `ListingIsTheTree` (`DumpIsTheTree`);
* `WalkReadsTheBlob` (`WalkStaysInside`).

The second also needs that what is inside the blob is mapped wherever the firmware has put
it: that is `MemoryIsMapped`, from `KernelInv` and from the image's being in the first block of
memory, as `link.ld` has it (`Start < L2BlockSize` in `KernelMainAssumption`). Not covered are blobs that no tree flattens to: the walk trusts the
firmware, as the code does.

Formatted output is proved in `KernelMainProofs` as well, from `CharactersAssumption`,
`WordBitsAssumption` and `FormatsAssumption`:

* `FormatMeans`: a format of any number of pieces with any unfinished end, any list of
  arguments, and any size of the output; what was written is the `Meaning`, as far as there
  is room;
* `FormatsMeanWhatTheySay` (`FormatsAsDocumented`), which follows with the terminator of
  a buffer, and with `NumbersReadBack` for integers of any width in every base.

For numerals, `RemainingIs` and `NumberOfDigitsEnds` say that the array of digits is
long enough in every base, and `DigitsReadBack` that the digits, read from the first on,
give at each place what the loop had left there. For formats, `Boundary` is what the parser's
state is between two pieces: the output shows the text so far (`OutputShows`: all of it, or
its beginning and no success), and unless it has failed the parser is at `OutputCharacter`,
with the default format set again and so many elements written. `TextParsed`, `ElementParsed` and `TailParsed` carry it over
a piece and over the end; `FailedParsed` says that nothing is written after the output has
failed. A pointer's text is formatted to a buffer first and that buffer read as a format:
`PointerBufferIs` and `PlainFormat` say that the buffer holds all of it, and no braces.

These proofs are inductions over the length of a sequence. The library's induction
theorems take an operator as a parameter, which the provers cannot instantiate; instead a
set of numbers is shown to be empty because it has no least element (`LeastNumber`, from
`NatLessThanWellFounded`), and a function that is defined by recursion is shown to exist and
to satisfy its equation once (`Recursion`).

Only model-checked: the liveness properties (`RunningTaskRuns`, `SchedulingEnds`,
`TicksKeepComing`, `Boots`), since liveness under fairness, and `ENABLED`, are out of this
prover's reach. That the 8 MB of `_pg_dir` suffice is part of `Boots`, and depends on the
numbers in `link.ld`; the theorems about the boot hold whether the allocator panics or not.
No module declares a RECURSIVE operator.

## 7. Not modelled, and why

* The number of bytes on a kernel stack, and the lengths of `UserPages` and
  `KernelPages`: listed as hazards without a property.
* Caches, TLB invalidation, and barriers other than those of `EnableMMU`: not
  visible at this level.
* `Start.S`: the parking of the other cores and the clearing of `.bss`, whose size is
  rounded down to words (listed as a hazard).
* `namespace LocalTimer` and `MiniUART::Receive` (nothing calls them), `FreePage`
  (commented out), `GetSystemCounterClockFrequencyHz` (reads a register).
* The texts of `Panic` and of the vectors that report: the model ends there.
* The unit tests, but for the static function and object whose construction they
  test; build files; the stubs of the C++ runtime; `bitset` but for the store that
  `GetFreePage` makes through its reference.
* An interrupt source other than the timer: the kernel enables none. The hazard at
  `ExceptionVectorHandlers.cpp:75` is what would happen otherwise.

## 8. Plan

Done so far, in this order: `Scheduler` with its proofs, `MemoryManager`,
`ExceptionVectors`, `SystemTimer`, `BootPageTables`, `SystemRegisters` and
`RegisterFields` with their proofs, `BootKernel`; then `FormattedOutput`, `MiniUart`,
`DeviceTree` and `KernelMain` around them, and the proofs of the console, of the
timer, of the scheduler's refinement, of the vectors and of their refinement.

The proofs of the memory manager, of the boot page tables and of the registers and
interrupts of the boot followed, then those of the device tree and of the formatter. With
them every safety property of a passing run has its theorem. Last, when `GetFreePage`
fails.

Next, proofs: `Scheduler`'s `CopyProcess` against the guarantees of `MemoryManager`.

Next, models: the lengths of `UserPages` and `KernelPages`, with what follows them in
`TaskStruct`; the bytes of a kernel stack; `bitset` as a class against the set that it
stands for.
