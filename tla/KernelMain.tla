------------------------------ MODULE KernelMain ------------------------------
(***************************************************************************)
(* kmain (kernel/Main.cpp), from the jump of boot_kernel to its loop: the  *)
(* static constructors, the devices in the order in which it sets them up, *)
(* what it prints, and the tasks that print once it schedules.             *)
(***************************************************************************)
EXTENDS BootKernel, FormattedOutput, DeviceTreeBlob, MiniUart

CONSTANTS
    InitArray, FiniArray,   \* the functions in .init_array and .fini_array
    PointerBytes,           \* sizeof(uintptr_t)
    OUTPUT_DEVICE_TREE,     \* whether it is defined
    Trees                   \* the device trees that the firmware may leave

\* link.ld has the image in the first block of memory.
ASSUME KernelMainAssumption ==
    /\ Start < L2BlockSize
    /\ PointerBytes \in Nat \ {0}
    /\ OUTPUT_DEVICE_TREE \in BOOLEAN
    /\ \A tree \in Trees : IsFlattened(tree)

VARIABLES
    kmain,                 \* the place in kmain
    curFunc,               \* local of CallStaticConstructors and -Destructors
    StaticFunctionTarget,  \* what StaticConstructor and StaticDestructor set
    StaticObjectTarget,    \* and GlobalObject's constructor and destructor
    ready,                 \* what has been set up for interrupts
    dtb                    \* the tree that the firmware has flattened

kernelVars ==
    << kmain, curFunc, StaticFunctionTarget, StaticObjectTarget, ready, dtb, walkVars, uartVars >>

allVars == << bootVars, kernelVars >>

KernelInit ==
    /\ BootInit /\ TreeInit /\ UartInit
    /\ kmain = "constructors" /\ curFunc = 0
    /\ StaticFunctionTarget = 0 /\ StaticObjectTarget = 0
    /\ ready = {}
    /\ dtb = << >>

-----------------------------------------------------------------------------
(***************************************************************************)
(* Static constructors and destructors.                                    *)
(***************************************************************************)
StaticObjectInitialized == 10
StaticObjectDestructed == -10

\* link.ld has .fini_array behind .init_array, and behind both .rodata.
Functions == InitArray \o FiniArray

Call(function) ==
    /\ StaticFunctionTarget' = CASE function = "StaticConstructor" -> StaticObjectInitialized
                                 [] function = "StaticDestructor"  -> StaticObjectDestructed
                                 [] OTHER -> StaticFunctionTarget
    /\ StaticObjectTarget' = IF function = "GlobalObject" THEN StaticObjectInitialized
                                                          ELSE StaticObjectTarget

\* What follows the arrays is no function: calling it may return, or not.
CallRodata(place) ==
    /\ kmain' \in {place, "lost"}
    /\ UNCHANGED << StaticFunctionTarget, StaticObjectTarget >>

\* The loop over the words from the one after "first" on.
CallWords(place, first, arraySize, next) ==
    /\ kmain = place
    /\ IF curFunc < arraySize
       THEN /\ IF first + curFunc < Len(Functions)
               THEN Call(Functions[first + curFunc + 1]) /\ kmain' = place
               ELSE CallRodata(place)
            /\ curFunc' = curFunc + 1
       ELSE /\ kmain' = next
            /\ curFunc' = 0
            /\ UNCHANGED << StaticFunctionTarget, StaticObjectTarget >>
    /\ UNCHANGED << bootVars, ready, dtb, walkVars, uartVars >>

\* The loops count to the difference of two addresses, which is in bytes.
CallStaticConstructors ==
    CallWords("constructors", 0, Len(InitArray) * PointerBytes, "console")

CallStaticDestructors ==
    CallWords("destructors", Len(InitArray), Len(FiniArray) * PointerBytes, "exited")

-----------------------------------------------------------------------------
(***************************************************************************)
(* The statements of kmain.                                                *)
(***************************************************************************)
InitConsole ==
    /\ kmain = "console"
    /\ PutNext
    /\ kmain' = IF puts' = NumberOfPuts THEN "vectors" ELSE kmain
    /\ UNCHANGED << bootVars, curFunc, StaticFunctionTarget, StaticObjectTarget, ready, dtb, walkVars >>

\* A call after which what it sets up is ready for interrupts.
SetUp(what, next) ==
    /\ kmain = what
    /\ ready' = ready \union {what}
    /\ kmain' = next
    /\ UNCHANGED << bootVars, curFunc, StaticFunctionTarget, StaticObjectTarget, dtb, walkVars, uartVars >>

irq_vector_init == SetUp("vectors", "timer")
InitTimer == SetUp("timer", "controller")
EnableInterruptController == SetUp("controller", "enable_irq")

enable_irq ==
    /\ kmain = "enable_irq"
    /\ DAIF' = DAIF \ {"I"}
    /\ kmain' = "print"
    /\ UNCHANGED << vars, entryLevel, boot, el, spsel, aarch64, register, seen, curFunc,
                    StaticFunctionTarget, StaticObjectTarget, ready, dtb, walkVars, uartVars >>

\* A statement that leaves no trace but what it prints.
Goto(place, next) ==
    /\ kmain = place
    /\ kmain' = next
    /\ UNCHANGED << bootVars, curFunc, StaticFunctionTarget, StaticObjectTarget, ready, dtb,
                    walkVars, uartVars >>

PrintParameters == Goto("print", IF OUTPUT_DEVICE_TREE THEN "dtb" ELSE "tests")

DumpDeviceTree ==
    /\ kmain = "dtb"
    /\ \/ \E tree \in Trees : ParseDeviceTree(Blob(tree)) /\ dtb' = tree /\ kmain' = kmain
       \/ WalkNext /\ UNCHANGED << dtb, kmain >>
       \/ WalkReturns /\ dtb' = << >> /\ kmain' = "tests"
    /\ UNCHANGED << bootVars, curFunc, StaticFunctionTarget, StaticObjectTarget, ready, uartVars >>

RunUnitTests == Goto("tests", "create")

CopyProcess == Goto("create", "schedule") \/ Goto("create", "destructors")

KernelStatement ==
    \/ CallStaticConstructors
    \/ InitConsole
    \/ irq_vector_init \/ InitTimer \/ EnableInterruptController \/ enable_irq
    \/ PrintParameters \/ DumpDeviceTree \/ RunUnitTests
    \/ CopyProcess \/ CallStaticDestructors

\* The tasks that kmain schedules send their strings while ticks take the core
\* from one another.
Scheduled(Action) ==
    /\ kmain = "schedule"
    /\ Action
    /\ UNCHANGED << bootVars, kmain, curFunc, StaticFunctionTarget, StaticObjectTarget, ready, dtb, walkVars >>

Tick(w) == "I" \notin DAIF /\ Preempt(w)

KernelNext ==
    \/ BootNext /\ UNCHANGED kernelVars
    \/ step = "kmain" /\ KernelStatement
    \/ Scheduled(Transmit)
    \/ \E w \in Writers : Scheduled(SendString(w)) \/ Scheduled(Tick(w))

\* One core runs, and nothing interrupts it until kmain schedules; then ticks come
\* for ever, no task is left out, and each goes on when it has the core and the
\* transmitter has room.
KernelSpec ==
    /\ KernelInit
    /\ [][KernelNext]_allVars
    /\ WF_allVars(Statement /\ UNCHANGED kernelVars)
    /\ WF_allVars(step = "kmain" /\ KernelStatement)
    /\ WF_allVars(Scheduled(Transmit))
    /\ \A w \in Writers :
         WF_allVars(Scheduled(Tick(w))) /\ SF_allVars(Scheduled(SendString(w)))

-----------------------------------------------------------------------------
(***************************************************************************)
(* Properties.                                                             *)
(***************************************************************************)
\* There are no exception vectors before kmain, and without the timer's callback
\* or the controller a tick would find nobody: no interrupt may come in before all
\* three are there, at EL2, after the return to EL1, or in kmain.  Other exceptions
\* stay masked.
InterruptsWaitForHandlers ==
    \/ DAIF = Interrupts
    \/ DAIF = Interrupts \ {"I"} /\ ready = {"vectors", "timer", "controller"}

\* What kmain prints: every format that is put together from pieces, whatever its
\* end, comes out as Print.h and the unit tests say, on the UART in full and in a
\* buffer as far as it fits in front of the terminator; and a number that is read
\* back is the number.
FormatsAsDocumented == kmain = "print" => FormatsMean /\ NumbersReadBack

\* The listing of a tree shows all of it, in order: the indentation of each line
\* is the depth of its node, integers have their bytes the right way round, and
\* values whose type does not fit the name are shown as bytes.  A blob of another
\* kind or version is left alone, and a tree that is cut off is shown up to there.
DumpIsTheTree == kmain = "dtb" /\ walk = "done" => listing = TreeListing(dtb)

\* The walk takes every length and offset from the blob, and checks none but the
\* end of the structure block: in a tree as the firmware flattens it, and in one
\* that is cut off, it reads the blob only, although it looks for the ends of
\* strings in values that need not be strings.  Wherever the firmware has put
\* the blob in memory, it is mapped at the address that kmain adds the offset to.
WalkStaysInside ==
    kmain = "dtb" =>
        /\ read \subseteq 0 .. Len(blob) - 1
        /\ \A pa \in VirtualPage : pa < DeviceBaseAddress => Mapped(ToVA(pa))

\* As the comment at CallStaticConstructors says, the constructors are called, and
\* the unit test expects to see what StaticConstructor stored.
StaticConstruction == kmain = "tests" => StaticFunctionTarget = StaticObjectInitialized

\* From EL1 and from EL2 every boot gets to kmain, whatever the registers held:
\* the level is taken right, and the 8 MB of link.ld are enough however many
\* pages the ranges have.  From there on kmain ends because it has no memory for
\* a task or was lost in .rodata, or the tasks run until all they send has been
\* shown.
Boots ==
    (entryLevel \in {1, 2}) ~>
        \/ kmain \in {"lost", "exited"}
        \/ kmain = "schedule" /\ sent = StringLength /\ shown = Len(accepted)
=============================================================================
