--------------------------- MODULE BootPageTables ---------------------------
(***************************************************************************)
(* How the kernel gets its own address space (kernel/AArch64/Boot/MMU.cpp  *)
(* and boot_kernel in kernel/AArch64/Boot/Boot.cpp): four levels of page   *)
(* tables are built in the memory from _pg_dir on, the MMU is switched on  *)
(* while code and stack are still at their physical addresses, and both    *)
(* then move to the kernel's virtual addresses.                            *)
(*                                                                         *)
(* Addresses are numbers, with PageSize of them in a page.  The upper half *)
(* of the virtual addresses is the lower one plus an offset that the table *)
(* indexes do not see (bits 48 and up), and both halves are translated by  *)
(* the same tables.  An entry that is not a fault means a table at levels  *)
(* 0 to 2 and a page at level 3, which have the same encoding; nothing     *)
(* here makes an entry for a block.                                        *)
(***************************************************************************)
EXTENDS Integers, Sequences

CONSTANTS
    PageSize,
    PointersPerTable,
    Start,              \* _start: the beginning of the kernel image
    CodePages,          \* what the image may take up to _pg_dir (chosen by Init)
    PgDirPages,         \* pages from _pg_dir to _pg_dir_end, where the image ends
    DeviceBaseAddress,
    DeviceSize,
    MaxPageCount        \* pages of the memory manager, behind the kernel's last block

\* What an entry of a table of each level stands for.
Span(lvl) ==
    CASE lvl = 3 -> PageSize
      [] lvl = 2 -> PageSize * PointersPerTable
      [] lvl = 1 -> PageSize * PointersPerTable * PointersPerTable
      [] lvl = 0 -> PageSize * PointersPerTable * PointersPerTable * PointersPerTable

KernelVirtualAddressOffset == Span(0) * PointersPerTable
L2BlockSize == PageSize * PointersPerTable

DeviceMAIRIndex == 0
NormalMAIRIndex == 1

\* Mutant: the start is not rounded.
NoBlockStart(p, size) == p

CalculateBlockStart(p, size) == p - (p % size)
CalculateBlockEnd(p, size) == p - (p % size) + size - 1

PgDir(code) == Start + code * PageSize
KernelImageEnd(code) == PgDir(code) + PgDirPages * PageSize
KernelBasePA == CalculateBlockStart(Start, L2BlockSize)
KernelEndPA(code) == CalculateBlockEnd(KernelImageEnd(code), L2BlockSize)
DeviceEndPA == DeviceBaseAddress + DeviceSize - 1

ASSUME BootPageTablesAssumption ==
    /\ PageSize \in Nat /\ PageSize > 1
    /\ PointersPerTable \in Nat /\ PointersPerTable > 1
    \* As in link.ld: the image starts on a page, and not on a block: the stack
    \* is below it.
    /\ Start \in Nat /\ Start % PageSize = 0 /\ Start % L2BlockSize # 0
    /\ CodePages \subseteq Nat \ {0}
    /\ PgDirPages \in Nat \ {0}
    \* The devices are blocks at the end of what the tables are needed for, and
    \* the pages of the memory manager fit before them.
    /\ DeviceBaseAddress \in Nat /\ DeviceBaseAddress % L2BlockSize = 0
    /\ DeviceSize \in Nat \ {0} /\ DeviceSize % PageSize = 0
    /\ DeviceEndPA < KernelVirtualAddressOffset
    /\ MaxPageCount \in Nat \ {0}
    /\ \A code \in CodePages :
         KernelEndPA(code) + MaxPageCount * PageSize < DeviceBaseAddress

VARIABLES
    code,     \* the size of this kernel's image up to _pg_dir
    ranges,   \* the calls of InsertEntriesForMemoryRange left to do, as their parameters
    curVA,    \* locals of InsertEntriesForMemoryRange
    curPA,
    level,    \* the level of the table at hand
    table,    \* and its address
    Current,  \* of the PageBumpAllocator
    memory,   \* the contents of the pages from _pg_dir on
    step,     \* the place in boot_kernel
    mmu,      \* SCTLR_EL1.M
    MAIR,     \* MAIR_EL1
    pc, sp    \* where code runs, and the stack below it

vars == << code, ranges, curVA, curPA, level, table, Current, memory, step,
           mmu, MAIR, pc, sp >>

-----------------------------------------------------------------------------
Fault == [address |-> -1, attrIndx |-> 0]

Descriptor(address, attrIndx) == [address |-> address, attrIndx |-> attrIndx]

TablePage(n) == {PgDir(n) + i * PageSize : i \in 0 .. PgDirPages - 1}

TableIndex(lvl, va) == (va \div Span(lvl)) % PointersPerTable

EmptyTable == [i \in 0 .. PointersPerTable - 1 |-> Fault]

\* Whatever was in memory before: here, entries that look valid.
UsedTable(n) ==
    [i \in 0 .. PointersPerTable - 1 |-> [address |-> PgDir(n), attrIndx |-> DeviceMAIRIndex]]

MemoryRange(begin, end, pa, mair) == [begin |-> begin, end |-> end, pa |-> pa, mair |-> mair]

ToVA(pa) == pa + KernelVirtualAddressOffset

\* Mutant: the last address of the kernel's block in place of the next one.
LastOfKernelPA(n) == KernelEndPA(n)

StartOfExtraPA(n) == KernelEndPA(n) + 1

\* Mutant: the memory between the kernel and the devices is not mapped.
NoExtraRanges(n) ==
    << MemoryRange(KernelBasePA, KernelEndPA(n), KernelBasePA, NormalMAIRIndex),
       MemoryRange(DeviceBaseAddress, DeviceEndPA, DeviceBaseAddress, DeviceMAIRIndex),
       MemoryRange(ToVA(KernelBasePA), ToVA(KernelEndPA(n)), KernelBasePA, NormalMAIRIndex),
       MemoryRange(ToVA(DeviceBaseAddress), ToVA(DeviceEndPA), DeviceBaseAddress, DeviceMAIRIndex) >>

\* CreatePageTables: the kernel and the devices at their physical addresses,
\* both again for the kernel's virtual addresses, and what is in between.
MemoryRanges(n) ==
    << MemoryRange(KernelBasePA, KernelEndPA(n), KernelBasePA, NormalMAIRIndex),
       MemoryRange(DeviceBaseAddress, DeviceEndPA, DeviceBaseAddress, DeviceMAIRIndex),
       MemoryRange(ToVA(KernelBasePA), ToVA(KernelEndPA(n)), KernelBasePA, NormalMAIRIndex),
       MemoryRange(ToVA(DeviceBaseAddress), ToVA(DeviceEndPA), DeviceBaseAddress, DeviceMAIRIndex),
       MemoryRange(ToVA(KernelEndPA(n)) + 1, ToVA(DeviceBaseAddress) - 1, StartOfExtraPA(n), NormalMAIRIndex) >>

Init ==
    /\ code \in CodePages
    /\ ranges = MemoryRanges(code)
    /\ curVA = Head(ranges).begin
    /\ curPA = Head(ranges).pa
    /\ level = 0
    /\ table = PgDir(code)
    /\ Current = PgDir(code)
    /\ memory = [p \in TablePage(code) |-> UsedTable(code)]
    /\ step = "root"
    /\ mmu = FALSE
    /\ MAIR = [i \in {DeviceMAIRIndex, NormalMAIRIndex} |-> "none"]
    /\ pc = Start
    /\ sp = Start

-----------------------------------------------------------------------------
(***************************************************************************)
(* PageBumpAllocator::Allocate zeroes the page it returns, or panics.      *)
(***************************************************************************)
\* Mutant: the page is not zeroed.
NotCleared(contents) == contents

Cleared(contents) == EmptyTable

HasPage == Current < KernelImageEnd(code)

AllocateRoot ==
    /\ step = "root"
    /\ step' = IF HasPage THEN "insert" ELSE "panic"
    /\ table' = Current
    /\ Current' = Current + PageSize
    /\ memory' = IF HasPage THEN [memory EXCEPT ![Current] = Cleared(@)] ELSE memory
    /\ UNCHANGED << code, ranges, curVA, curPA, level, mmu, MAIR, pc, sp >>

-----------------------------------------------------------------------------
(***************************************************************************)
(* InsertEntriesForMemoryRange: for each page of the range InsertPageTable *)
(* goes through levels 0 to 2, and the entry is set at level 3.            *)
(***************************************************************************)
\* Mutant: a table is taken to be missing when it is there.
AlwaysMissing(entry) == TRUE

Missing(entry) == entry = Fault

EntryForVA == memory[table][TableIndex(level, curVA)]

\* GetOrInsertPageDescriptor, visiting a Fault.
InsertTable ==
    /\ step = "insert" /\ level < 3
    /\ Missing(EntryForVA)
    /\ IF HasPage
       THEN /\ memory' = [memory EXCEPT
                    ![Current] = Cleared(@),
                    ![table][TableIndex(level, curVA)] = Descriptor(Current, 0)]
            /\ table' = Current
            /\ Current' = Current + PageSize
            /\ level' = level + 1
            /\ step' = step
       ELSE /\ step' = "panic"
            /\ UNCHANGED << memory, table, Current, level >>
    /\ UNCHANGED << code, ranges, curVA, curPA, mmu, MAIR, pc, sp >>

\* ... and visiting a Table.
FollowTable ==
    /\ step = "insert" /\ level < 3
    /\ ~Missing(EntryForVA)
    /\ table' = EntryForVA.address
    /\ level' = level + 1
    /\ UNCHANGED << code, ranges, curVA, curPA, Current, memory, step, mmu, MAIR, pc, sp >>

\* The End of an InclusiveMemoryRange is its last address, and the loop's test
\* is curVA < End: every page is seen, since no page starts at its End.
RangeDone(va, end) == va >= end

InsertPage ==
    /\ step = "insert" /\ level = 3
    /\ memory' = [memory EXCEPT
            ![table][TableIndex(3, curVA)] = Descriptor(curPA, Head(ranges).mair)]
    /\ level' = 0
    /\ table' = PgDir(code)
    /\ IF ~RangeDone(curVA + PageSize, Head(ranges).end)
       THEN /\ curVA' = curVA + PageSize
            /\ curPA' = curPA + PageSize
            /\ UNCHANGED << ranges, step >>
       ELSE /\ ranges' = Tail(ranges)
            /\ IF Tail(ranges) = << >>
               THEN /\ step' = "enable"
                    /\ UNCHANGED << curVA, curPA >>
               ELSE /\ curVA' = Head(Tail(ranges)).begin
                    /\ curPA' = Head(Tail(ranges)).pa
                    /\ step' = step
    /\ UNCHANGED << code, Current, mmu, MAIR, pc, sp >>

-----------------------------------------------------------------------------
(***************************************************************************)
(* boot_kernel: EnableMMU, the jump to a virtual address, and the move of  *)
(* the stack pointer.                                                      *)
(***************************************************************************)
EnableMMU ==
    /\ step = "enable"
    /\ MAIR' = [MAIR EXCEPT ![DeviceMAIRIndex] = "device", ![NormalMAIRIndex] = "normal"]
    /\ mmu' = TRUE
    /\ step' = "jump"
    /\ UNCHANGED << code, ranges, curVA, curPA, level, table, Current, memory, pc, sp >>

JumpToKernelVA ==
    /\ step = "jump"
    /\ pc' = ToVA(pc)
    /\ step' = "stack"
    /\ UNCHANGED << code, ranges, curVA, curPA, level, table, Current, memory, mmu, MAIR, sp >>

AdjustStack ==
    /\ step = "stack"
    /\ sp' = ToVA(sp)
    /\ step' = "kmain"
    /\ UNCHANGED << code, ranges, curVA, curPA, level, table, Current, memory, mmu, MAIR, pc >>

Next ==
    \/ AllocateRoot \/ InsertTable \/ FollowTable \/ InsertPage
    \/ EnableMMU \/ JumpToKernelVA \/ AdjustStack

Spec == Init /\ [][Next]_vars

-----------------------------------------------------------------------------
(***************************************************************************)
(* Properties.                                                             *)
(***************************************************************************)
DescriptorType == [address : -1 .. KernelVirtualAddressOffset - 1, attrIndx : {0, 1}]

\* Every variable has its type.
TypeOK ==
    /\ code \in CodePages
    /\ curVA \in 0 .. 2 * KernelVirtualAddressOffset
    /\ curPA \in 0 .. KernelVirtualAddressOffset
    /\ level \in 0 .. 3
    /\ table \in TablePage(code)
    /\ Current \in PgDir(code) .. KernelImageEnd(code)
    /\ memory \in [TablePage(code) -> [0 .. PointersPerTable - 1 -> DescriptorType]]
    /\ step \in {"root", "insert", "panic", "enable", "jump", "stack", "kmain"}
    /\ mmu \in BOOLEAN
    /\ MAIR \in [{DeviceMAIRIndex, NormalMAIRIndex} -> {"none", "device", "normal"}]
    /\ pc \in Nat /\ sp \in Nat

\* What the MMU finds when it walks from the table that EnableMMU installs,
\* which is _pg_dir and not the page that CreatePageTables calls rootPage.
Descend(entry, lvl, va) ==
    IF entry.address \in DOMAIN memory
    THEN memory[entry.address][TableIndex(lvl, va)]
    ELSE Fault

Translation(va) ==
    LET entry0 == memory[PgDir(code)][TableIndex(0, va)]
        entry1 == Descend(entry0, 1, va)
        entry2 == Descend(entry1, 2, va)
    IN  Descend(entry2, 3, va)

VirtualPage == {n * PageSize : n \in 0 .. (2 * KernelVirtualAddressOffset) \div PageSize - 1}

PhysicalAddress(va) == va % KernelVirtualAddressOffset

IsDevice(pa) == pa \in DeviceBaseAddress .. DeviceEndPA

\* Until AllocateRoot nothing has been installed, and nothing is translated.
Mapped(va) == step # "root" /\ Translation(va) # Fault

\* What a page should translate to: itself or, in the upper half, the address
\* below it, as device memory if the devices are there and else as normal memory.
Home(va) ==
    Descriptor(PhysicalAddress(va),
               IF IsDevice(PhysicalAddress(va)) THEN DeviceMAIRIndex ELSE NormalMAIRIndex)

\* A page that is mapped is mapped to its home, in both halves.
TranslationsExact ==
    step # "root" =>
        \A va \in VirtualPage :
            LET translation == Translation(va)
            IN  translation # Fault => translation = Home(va)

\* From the moment the MMU is on, the code that runs and the top of the stack
\* below it are mapped as normal memory, before and after each moves up.
Reachable(va) ==
    LET t == Translation(va - (va % PageSize))
    IN  t # Fault /\ MAIR[t.attrIndx] = "normal"

CodeAndStackMapped == mmu => Reachable(pc) /\ Reachable(sp - 1)

\* When kmain starts, the upper half reaches the page tables, every page that
\* the memory manager will hand out, and every device register.
KernelMemory ==
    TablePage(code)
      \union {KernelEndPA(code) + 1 + i * PageSize : i \in 0 .. MaxPageCount - 1}
      \union {p \in VirtualPage : IsDevice(p)}

KernelReachesItsMemory ==
    step = "kmain" => \A pa \in KernelMemory : Mapped(ToVA(pa))

\* The two halves share their tables, so a step maps a page in both: the map of
\* the lower half grows as AddressSpace says.  Entering a page again for the
\* upper half changes nothing.
LowerHalf == {va \in VirtualPage : va < KernelVirtualAddressOffset}

Mapping ==
    INSTANCE AddressSpace WITH
        VirtualPage <- LowerHalf,
        Home        <- Home,
        Unmapped    <- Fault,
        mapping     <- [va \in LowerHalf |-> IF Mapped(va) THEN Translation(va) ELSE Fault]

\* Building the tables maps one page after the other: no step makes a page
\* appear that was not entered, or changes one that was.
ImplementsAddressSpace == Mapping!Spec
=============================================================================
