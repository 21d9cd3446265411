-------------------------- MODULE SystemRegisters --------------------------
(***************************************************************************)
(* The 64-bit values the kernel gives to the processor: the system         *)
(* registers of kernel/AArch64/SystemRegisters.{h,cpp} and the entries of  *)
(* the page tables of kernel/AArch64/MemoryDescriptor.{h,cpp}.             *)
(*                                                                         *)
(* A std::bitset is the set of the positions of its ones.  A class is its  *)
(* table of fields, and the bits that its default constructor sets.        *)
(***************************************************************************)
EXTENDS Integers

Bit == 0 .. 63

Word == SUBSET Bit

\* The bits of a number that needs no more than 31 of them, and the number that
\* the bits of a field of no more than 8 stand for.
PowersOfTwo ==
    << 1, 2, 4, 8, 16, 32, 64, 128, 256, 512, 1024, 2048, 4096, 8192, 16384, 32768, 65536,
       131072, 262144, 524288, 1048576, 2097152, 4194304, 8388608, 16777216, 33554432,
       67108864, 134217728, 268435456, 536870912, 1073741824 >>

Bits(n) == {i \in 0 .. 30 : (n \div PowersOfTwo[i + 1]) % 2 = 1}

Number(bits) == CHOOSE n \in 0 .. 255 : Bits(n) = bits

Shifted(bits, shift) == {i + shift : i \in bits} \intersect Bit

-----------------------------------------------------------------------------
(***************************************************************************)
(* kernel/Utils.h                                                          *)
(***************************************************************************)
\* Mutant: the old value is not cleared.
OrMultiBitValue(bitset, value, mask, shift) ==
    bitset \union Shifted(value \intersect mask, shift)

\* Mutant: what is cleared is the mask before it is shifted.
ClearUnshifted(bitset, value, mask, shift) ==
    (bitset \ mask) \union Shifted(value \intersect mask, shift)

WriteMultiBitValue(bitset, value, mask, shift) ==
    (bitset \ Shifted(mask, shift)) \union Shifted(value \intersect mask, shift)

ReadMultiBitValue(bitset, mask, shift) ==
    {i - shift : i \in bitset \intersect Shifted(mask, shift)}

-----------------------------------------------------------------------------
(***************************************************************************)
(* Fields: their mask, how far it is shifted, and the bits of the values   *)
(* their setter is given.  A flag is a field of one bit.                   *)
(***************************************************************************)
Mask(width) == 0 .. width - 1

Field(mask, shift, values) == [mask |-> mask, shift |-> shift, values |-> values]

Flag(index) == Field(Mask(1), index, {Bits(0), Bits(1)})

Enumerators(enum) == {enum[name] : name \in DOMAIN enum}

Class(constructed, fields) == [constructed |-> constructed, fields |-> fields]

SetField(bitset, f, value) == WriteMultiBitValue(bitset, value, f.mask, f.shift)

GetField(bitset, f) == ReadMultiBitValue(bitset, f.mask, f.shift)

-----------------------------------------------------------------------------
(***************************************************************************)
(* The system registers.                                                   *)
(***************************************************************************)
FPENTraps ==
    [TrapAll |-> Bits(0), TrapEL0 |-> Bits(1), TrapAll2 |-> Bits(2), TrapNone |-> Bits(3)]

CPACR_EL1 == Class({}, [FPEN |-> Field(Mask(2), 20, Enumerators(FPENTraps))])

CPTR_EL2 == Class(0 .. 7 \union {8, 9, 12, 13}, [TFP |-> Flag(10)])

HCR_EL2 == Class({}, [RW |-> Flag(31)])

HSTR_EL2 == Class({}, << >>)

\* MAIR_EL1 keeps an array of bytes; memcpy makes the first the lowest of the
\* register.
AttributeCount == 8

NormalMemory == Bits(68)
DeviceMemory == Bits(0)

AttributeName(index) ==
    << "Attr0", "Attr1", "Attr2", "Attr3", "Attr4", "Attr5", "Attr6", "Attr7" >>[index + 1]

Attribute(index) == Field(Mask(8), 8 * index, {NormalMemory, DeviceMemory})

MAIR_EL1 ==
    Class({}, [name \in {AttributeName(i) : i \in 0 .. AttributeCount - 1} |->
                 Attribute(CHOOSE i \in 0 .. AttributeCount - 1 : AttributeName(i) = name)])

SCTLR_EL1 == Class({7, 8, 11, 20, 22, 23, 28, 29}, [M |-> Flag(0)])

Mode ==
    [EL0t |-> Bits(0), EL1t |-> Bits(4), EL1h |-> Bits(5), EL2t |-> Bits(8), EL2h |-> Bits(9)]

SPSR_EL2 ==
    Class({}, [M |-> Field(Mask(4), 0, Enumerators(Mode)),
               F |-> Flag(6), I |-> Flag(7), A |-> Flag(8), D |-> Flag(9)])

\* TnSZ holds the number of address bits that are not used.
TotalAddrBits == 64

EncodedSize(bits) == Bits(TotalAddrBits - bits)

DecodedSize(value) == TotalAddrBits - Number(value)

T0Granule == [Size4kb |-> Bits(0), Size64kb |-> Bits(1), Size16kb |-> Bits(2)]
T1Granule == [Size16kb |-> Bits(1), Size4kb |-> Bits(2), Size64kb |-> Bits(3)]

\* Address sizes the processor can be given: 25 bits, the kernel's 48, and 52.
AddressSizes == {EncodedSize(bits) : bits \in {25, 48, 52}}

TCR_EL1 ==
    Class({}, [T0SZ |-> Field(Mask(6), 0, AddressSizes),
               TG0  |-> Field(Mask(2), 14, Enumerators(T0Granule)),
               T1SZ |-> Field(Mask(6), 16, AddressSizes),
               TG1  |-> Field(Mask(2), 30, Enumerators(T1Granule))])

\* Addresses are stored where they are, with a mask and no shift.  Their
\* setters are given any address.
Address(mask) == Field(mask, 0, {})

TTBRn_EL1 == Class({}, [BADDR |-> Address(1 .. 47)])

-----------------------------------------------------------------------------
(***************************************************************************)
(* The entries of page tables.                                             *)
(***************************************************************************)
\* Mutant: the lowest bit alone is the type, and tells Blocks from nothing.
TypeOfLowestBit(bitset) == bitset \intersect {0}

TypeOf(bitset) == bitset \intersect {0, 1}

FaultType == {}
BlockType == {0}
TableType == {0, 1}
PageType == {0, 1}

AccessPermissions ==
    [KernelRWUserNone |-> Bits(0), KernelRWUserRW |-> Bits(1),
     KernelROUserNone |-> Bits(2), KernelROUserRO |-> Bits(3)]

\* AttrIndx is given an index of MAIR_EL1.
AttrIndxField == Field(Mask(3), 2, {Bits(i) : i \in 0 .. AttributeCount - 1})
APField == Field(Mask(2), 6, Enumerators(AccessPermissions))

BlockT(addressMask) ==
    Class(BlockType, [AttrIndx |-> AttrIndxField, AP |-> APField, AF |-> Flag(10),
                      Address |-> Address(addressMask)])

L1Block == BlockT(30 .. 47)
L2Block == BlockT(21 .. 47)

Fault == Class(FaultType, << >>)

Table == Class(TableType, [Address |-> Address(12 .. 47)])

Page ==
    Class(PageType, [AttrIndx |-> AttrIndxField, AP |-> APField, AF |-> Flag(10),
                     Address |-> Address(12 .. 47)])

\* What Entry::Visit calls its functor with, at each level of the tables.
View == [level \in 0 .. 3 |->
    CASE level = 0 -> << "Fault", "Table" >>
      [] level = 1 -> << "Fault", "Table", "L1Block" >>
      [] level = 2 -> << "Fault", "Table", "L2Block" >>
      [] level = 3 -> << "Fault", "Page" >>]

Type == [Fault |-> FaultType, Table |-> TableType, Page |-> PageType,
         L1Block |-> BlockType, L2Block |-> BlockType]

IsType(name, bitset) == TypeOf(bitset) = Type[name]

\* The descriptors whose test succeeds before any other's.
Visited(level, bitset) ==
    {View[level][i] : i \in
        {i \in DOMAIN View[level] :
            /\ IsType(View[level][i], bitset)
            /\ \A j \in 1 .. i - 1 : ~IsType(View[level][j], bitset)}}

-----------------------------------------------------------------------------
Classes ==
    [CPACR_EL1 |-> CPACR_EL1, CPTR_EL2 |-> CPTR_EL2, HCR_EL2 |-> HCR_EL2,
     HSTR_EL2 |-> HSTR_EL2, MAIR_EL1 |-> MAIR_EL1, SCTLR_EL1 |-> SCTLR_EL1,
     SPSR_EL2 |-> SPSR_EL2, TCR_EL1 |-> TCR_EL1, TTBRn_EL1 |-> TTBRn_EL1,
     Fault |-> Fault, Table |-> Table, Page |-> Page,
     L1Block |-> L1Block, L2Block |-> L2Block]

FieldBits(f) == Shifted(f.mask, f.shift)

ClassBits(class) == UNION {FieldBits(class.fields[name]) : name \in DOMAIN class.fields}
=============================================================================
