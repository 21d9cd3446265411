------------------------------ MODULE BootKernel ------------------------------
(***************************************************************************)
(* boot_kernel from its first statement to kmain: the switch to exception  *)
(* level 1 (kernel/AArch64/Boot/ExceptionLevel.cpp), CreatePageTables as   *)
(* in BootPageTables, and EnableMMU (kernel/AArch64/Boot/MMU.cpp) register *)
(* by register.                                                            *)
(*                                                                         *)
(* A write to a system register is seen by what it controls at some later  *)
(* moment: on its own, or at the next barrier or exception return at the   *)
(* latest.                                                                 *)
(***************************************************************************)
EXTENDS BootPageTables

R == INSTANCE SystemRegisters

CONSTANTS
    FirmwareLevels,    \* the exception levels the firmware may start the kernel at
    FirmwareWords      \* what it may have left in the registers

ASSUME BootKernelAssumption ==
    /\ FirmwareLevels \subseteq {1, 2, 3}
    /\ FirmwareWords \subseteq R!Word
    \* Tables start at even addresses, which fit the numbers that SystemRegisters takes.
    /\ PageSize % 2 = 0
    /\ \A n \in CodePages : KernelImageEnd(n) <= 2147483647

VARIABLES
    entryLevel,\* the level the firmware started the kernel at
    boot,      \* the place in boot_kernel, around that of BootPageTables
    el,        \* CurrentEL
    spsel,     \* 1 if the level uses its own stack pointer
    aarch64,   \* the execution state
    DAIF,      \* the interrupts that are masked
    register,  \* what was written to each system register
    seen       \* what the processor goes by

cpuVars == << entryLevel, boot, el, spsel, aarch64, DAIF, register, seen >>

bootVars == << vars, cpuVars >>

Register ==
    {"HCR_EL2", "SPSR_EL2", "CPTR_EL2", "HSTR_EL2", "SCTLR_EL1", "CPACR_EL1",
     "TTBR0_EL1", "TTBR1_EL1", "MAIR_EL1", "TCR_EL1"}

Interrupts == {"D", "A", "I", "F"}

\* The value of a class after setters were called: field names and values.
With(class, values) ==
    LET fields == class.fields
        set == DOMAIN values
    IN  (class.constructed \ UNION {R!FieldBits(fields[n]) : n \in set})
          \union UNION {R!SetField({}, fields[n], values[n]) : n \in set}

-----------------------------------------------------------------------------
(***************************************************************************)
(* The firmware starts the kernel with interrupts masked, little-endian    *)
(* and with the MMU of EL1 off; SwitchToEL1 relies on that until it writes *)
(* SCTLR_EL1, which it does after the exception return.                    *)
(***************************************************************************)
BootInit ==
    /\ Init
    /\ boot = "level"
    /\ entryLevel \in FirmwareLevels
    /\ el = entryLevel
    /\ spsel = 1
    /\ aarch64 = TRUE
    /\ DAIF = Interrupts
    /\ \E w \in FirmwareWords :
         register = [[r \in Register |-> w] EXCEPT !["SCTLR_EL1"] = w \ {0, 25}]
    /\ seen = register

\* CurrentEL holds the level in bits 2 and 3.
CurrentEL == R!Shifted(R!Bits(el), 2)

GetCurrentExceptionLevel(word) == R!Number(R!ReadMultiBitValue(word, R!Bits(3), 2))

CheckLevel ==
    /\ boot = "level"
    /\ LET initialExceptionLevel == GetCurrentExceptionLevel(CurrentEL)
       IN  boot' = CASE initialExceptionLevel = 1 -> "sctlr"
                     [] initialExceptionLevel = 2 -> "hcr"
                     [] OTHER -> "panic"
    /\ UNCHANGED << vars, entryLevel, el, spsel, aarch64, DAIF, register, seen >>

\* The msr of register r, and the place after it.
Write(r, value, next) ==
    /\ register' = [register EXCEPT ![r] = value]
    /\ boot' = next
    /\ UNCHANGED << vars, entryLevel, el, spsel, aarch64, DAIF, seen >>

WriteHCR == boot = "hcr" /\ Write("HCR_EL2", With(R!HCR_EL2, [RW |-> {0}]), "spsr")

KernelMode == R!Mode.EL1h

\* Mutant: IRQs are not masked.
MaskedWithoutIRQ == [D |-> {0}, A |-> {0}, I |-> {}, F |-> {0}]

MaskedInterrupts == [D |-> {0}, A |-> {0}, I |-> {0}, F |-> {0}]

WriteSPSR ==
    /\ boot = "spsr"
    /\ Write("SPSR_EL2",
             With(R!SPSR_EL2, [name \in Interrupts \union {"M"} |->
                                 IF name = "M" THEN KernelMode ELSE MaskedInterrupts[name]]),
             "cptr")

WriteCPTR == boot = "cptr" /\ Write("CPTR_EL2", With(R!CPTR_EL2, << >>), "hstr")

WriteHSTR == boot = "hstr" /\ Write("HSTR_EL2", With(R!HSTR_EL2, << >>), "eret")

\* sp_el1 gets the value of sp, elr_el2 the address of el1_entry; eret takes
\* the level, its stack pointer and the masks from SPSR_EL2.
ExceptionReturn ==
    /\ boot = "eret"
    /\ LET spsr == register["SPSR_EL2"]
           mode == R!GetField(spsr, R!SPSR_EL2.fields.M)
       IN  /\ el' = R!Number(R!ReadMultiBitValue(mode, R!Bits(3), 2))
           /\ spsel' = IF 0 \in mode THEN 1 ELSE 0
           /\ DAIF' = {name \in Interrupts : R!GetField(spsr, R!SPSR_EL2.fields[name]) # {}}
    /\ aarch64' = (R!GetField(register["HCR_EL2"], R!HCR_EL2.fields.RW) # {})
    /\ seen' = register
    /\ boot' = "sctlr"
    /\ UNCHANGED << vars, entryLevel, register >>

\* Mutant: without the bits that are reserved as ones.
ClearedSCTLR == {}

ConstructedSCTLR == With(R!SCTLR_EL1, << >>)

WriteSCTLR == boot = "sctlr" /\ Write("SCTLR_EL1", ConstructedSCTLR, "cpacr")

WriteCPACR ==
    /\ boot = "cpacr"
    /\ Write("CPACR_EL1", With(R!CPACR_EL1, [FPEN |-> R!FPENTraps.TrapNone]), "tables")

-----------------------------------------------------------------------------
CreatePageTables ==
    /\ boot = "tables"
    /\ AllocateRoot \/ InsertTable \/ FollowTable \/ InsertPage
    /\ boot' = IF step' = "enable" THEN "ttbr0" ELSE IF step' = "panic" THEN "panic" ELSE boot
    /\ UNCHANGED << entryLevel, el, spsel, aarch64, DAIF, register, seen >>

\* SwitchToPageTable
TableBase == With(R!TTBRn_EL1, [BADDR |-> R!Bits(PgDir(code))])

WriteTTBR0 == boot = "ttbr0" /\ Write("TTBR0_EL1", TableBase, "ttbr1")

WriteTTBR1 == boot = "ttbr1" /\ Write("TTBR1_EL1", TableBase, "mair")

WriteMAIR ==
    /\ boot = "mair"
    /\ Write("MAIR_EL1",
             With(R!MAIR_EL1,
                  [name \in {R!AttributeName(DeviceMAIRIndex), R!AttributeName(NormalMAIRIndex)} |->
                     IF name = R!AttributeName(DeviceMAIRIndex) THEN R!DeviceMemory
                                                                ELSE R!NormalMemory]),
             "tcr")

LowAddressBits == 48

WriteTCR ==
    /\ boot = "tcr"
    /\ Write("TCR_EL1",
             With(R!TCR_EL1,
                  [T0SZ |-> R!EncodedSize(LowAddressBits), TG0 |-> R!T0Granule.Size4kb,
                   T1SZ |-> R!EncodedSize(LowAddressBits), TG1 |-> R!T1Granule.Size4kb]),
             "barrier")

\* Mutant: no barrier before the MMU is switched on.
NothingSeen == seen

AllSeen == register

InstructionBarrier ==
    /\ boot = "barrier"
    /\ seen' = AllSeen
    /\ boot' = "mmu"
    /\ UNCHANGED << vars, entryLevel, el, spsel, aarch64, DAIF, register >>

\* SCTLR_EL1 is read, and M set in what was read.
SwitchMMUOn ==
    boot = "mmu"
      /\ Write("SCTLR_EL1", R!SetField(register["SCTLR_EL1"], R!SCTLR_EL1.fields.M, {0}), "on")

\* The second barrier, from which on the MMU is surely on.
MMUIsOn ==
    /\ boot = "on"
    /\ EnableMMU
    /\ seen' = register
    /\ boot' = "move"
    /\ UNCHANGED << entryLevel, el, spsel, aarch64, DAIF, register >>

MoveUp ==
    /\ boot = "move"
    /\ JumpToKernelVA \/ AdjustStack
    /\ UNCHANGED cpuVars

Statement ==
    \/ CheckLevel
    \/ WriteHCR \/ WriteSPSR \/ WriteCPTR \/ WriteHSTR \/ ExceptionReturn
    \/ WriteSCTLR \/ WriteCPACR
    \/ CreatePageTables
    \/ WriteTTBR0 \/ WriteTTBR1 \/ WriteMAIR \/ WriteTCR \/ InstructionBarrier
    \/ SwitchMMUOn \/ MMUIsOn \/ MoveUp

\* A write takes effect without a barrier.  Nothing before EnableMMU depends on
\* when that is.
WriteIsSeen(r) ==
    /\ boot \in {"ttbr0", "ttbr1", "mair", "tcr", "barrier", "mmu", "on"}
    /\ seen[r] # register[r]
    /\ seen' = [seen EXCEPT ![r] = register[r]]
    /\ UNCHANGED << vars, entryLevel, boot, el, spsel, aarch64, DAIF, register >>

BootNext == Statement \/ \E r \in Register : WriteIsSeen(r)

-----------------------------------------------------------------------------
(***************************************************************************)
(* Properties.                                                             *)
(***************************************************************************)
\* The variables have their types at every place in boot_kernel.
BootTypeOK ==
    /\ TypeOK
    /\ boot \in {"level", "hcr", "spsr", "cptr", "hstr", "eret", "sctlr", "cpacr", "tables",
                 "ttbr0", "ttbr1", "mair", "tcr", "barrier", "mmu", "on", "move", "panic"}
    /\ entryLevel \in FirmwareLevels
    /\ el \in 0 .. 3 /\ spsel \in {0, 1} /\ aarch64 \in BOOLEAN
    /\ DAIF \subseteq Interrupts
    /\ register \in [Register -> R!Word] /\ seen \in [Register -> R!Word]

MMUOn == R!GetField(seen["SCTLR_EL1"], R!SCTLR_EL1.fields.M) # {}

\* How many levels of tables of 512 entries the processor walks.
WalkedLevels(size, granule4kb, granule) ==
    IF granule = granule4kb THEN (R!DecodedSize(size) - 12) \div 9 ELSE 0

\* From the first moment the MMU may be on, it walks four levels from _pg_dir
\* in both halves, and an entry's AttrIndx means what CreatePageTables meant.
TranslationReady ==
    MMUOn =>
        /\ el = 1 /\ step \in {"enable", "jump", "stack", "kmain"}
        /\ \A r \in {"TTBR0_EL1", "TTBR1_EL1"} :
             R!GetField(seen[r], R!TTBRn_EL1.fields.BADDR) = R!Bits(PgDir(code))
        /\ LET Get(name) == R!GetField(seen["TCR_EL1"], R!TCR_EL1.fields[name])
           IN  /\ WalkedLevels(Get("T0SZ"), R!T0Granule.Size4kb, Get("TG0")) = 4
               /\ WalkedLevels(Get("T1SZ"), R!T1Granule.Size4kb, Get("TG1")) = 4
        /\ R!GetField(seen["MAIR_EL1"], R!Attribute(DeviceMAIRIndex)) = R!DeviceMemory
        /\ R!GetField(seen["MAIR_EL1"], R!Attribute(NormalMAIRIndex)) = R!NormalMemory

\* When kmain runs the core is at EL1, in AArch64 and on the stack pointer that
\* exceptions will use, and nothing the firmware left in the registers matters:
\* switching the MMU on kept what SwitchToEL1 wrote to reserved bits, and neither
\* level traps floating point, unless a hypervisor does that stays at EL2.
ReadyForKmain ==
    step = "kmain" =>
        /\ el = 1 /\ spsel = 1 /\ aarch64
        /\ seen["SCTLR_EL1"] = R!SCTLR_EL1.constructed \union {0}
        /\ R!GetField(seen["CPACR_EL1"], R!CPACR_EL1.fields.FPEN) = R!FPENTraps.TrapNone
        /\ entryLevel = 2 =>
             /\ seen["CPTR_EL2"] = R!CPTR_EL2.constructed
             /\ seen["HSTR_EL2"] = {}
=============================================================================
