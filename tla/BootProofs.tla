------------------------------ MODULE BootProofs ------------------------------
(***************************************************************************)
(* Theorems about the boot, for any sizes of pages, tables and the image,  *)
(* wherever it is and whatever was in memory and in the registers.         *)
(***************************************************************************)
EXTENDS BootKernel, TLAPS

Seqs == INSTANCE SequenceTheorems

Slot == 0 .. PointersPerTable - 1

Aligned(x) == x % PageSize = 0

\* The addresses that one table of a level stands for, and where in them an
\* address is.
Covers(lvl) == Span(lvl) * PointersPerTable

Base(lvl, va) == PhysicalAddress(va) - (va % Covers(lvl))

-----------------------------------------------------------------------------
(***************************************************************************)
(* Arithmetic.                                                             *)
(***************************************************************************)
LEMMA DivMod ==
    ASSUME NEW x \in Nat, NEW d \in Nat \ {0}
    PROVE  x = (x \div d) * d + (x % d) /\ x % d \in 0 .. d - 1 /\ x \div d \in Nat
<1>1. x = (x \div d) * d + (x % d)
  OBVIOUS
<1>2. x % d \in 0 .. d - 1
  OBVIOUS
<1>3. x \div d \in Nat
  OBVIOUS
<1> QED BY <1>1, <1>2, <1>3

LEMMA Quotient ==
    ASSUME NEW d \in Nat \ {0}, NEW q \in Nat, NEW r \in 0 .. d - 1
    PROVE  (q * d + r) \div d = q /\ (q * d + r) % d = r
  OBVIOUS

\* A digit of a number, in a base that is the product of two.
LEMMA TwoDigits ==
    ASSUME NEW x \in Nat, NEW d \in Nat \ {0}, NEW n \in Nat \ {0}
    PROVE  x % (d * n) = ((x \div d) % n) * d + (x % d)
<1>1. PICK q \in Nat, r \in 0 .. d - 1 : q = x \div d /\ r = x % d /\ x = q * d + r
  BY DivMod
<1>2. PICK a \in Nat, b \in 0 .. n - 1 : a = q \div n /\ b = q % n /\ q = a * n + b
  <2>1. q = (q \div n) * n + (q % n) /\ q % n \in 0 .. n - 1 /\ q \div n \in Nat
    BY <1>1, DivMod
  <2> QED BY <2>1
<1>3. d * n \in Nat \ {0}
  OBVIOUS
<1>4. b * d + r \in 0 .. d * n - 1
  <2>1. b * d \in Nat /\ b * d <= (n - 1) * d
    BY <1>2
  <2>2. (n - 1) * d = d * n - d
    OBVIOUS
  <2> QED BY <1>1, <1>3, <2>1, <2>2
<1>5. x = a * (d * n) + (b * d + r)
  <2>1. q * d = (a * n + b) * d
    BY <1>2
  <2>2. (a * n + b) * d = (a * n) * d + b * d
    BY <1>2
  <2>3. (a * n) * d = a * (d * n)
    BY <1>2
  <2> QED BY <1>1, <1>2, <2>1, <2>2, <2>3
<1>6. x % (d * n) = b * d + r
  BY <1>2, <1>3, <1>4, <1>5, Quotient
<1> QED BY <1>1, <1>2, <1>6

LEMMA Sizes ==
    /\ PageSize \in Nat \ {0} /\ PageSize > 1 /\ PointersPerTable \in Nat \ {0}
    /\ \A l \in 0 .. 3 : Span(l) \in Nat \ {0} /\ Covers(l) \in Nat \ {0}
    /\ Span(3) = PageSize /\ \A l \in 0 .. 2 : Span(l) = Covers(l + 1)
    /\ Covers(0) = KernelVirtualAddressOffset /\ Covers(3) = L2BlockSize
<1> DEFINE P == PageSize
           N == PointersPerTable
<1>1. P \in Nat \ {0} /\ P > 1 /\ N \in Nat \ {0}
  BY BootPageTablesAssumption
<1>2. /\ Span(3) = P /\ Span(2) = P * N /\ Span(1) = P * N * N /\ Span(0) = P * N * N * N
      /\ Covers(3) = P * N /\ Covers(2) = P * N * N /\ Covers(1) = P * N * N * N
      /\ Covers(0) = Span(0) * N
  BY DEF Span, Covers
<1> HIDE DEF P, N
<1>3. P * N \in Nat \ {0}
  BY <1>1
<1>4. P * N * N \in Nat \ {0}
  BY <1>1, <1>3
<1>5. P * N * N * N \in Nat \ {0}
  BY <1>1, <1>4
<1>6. Covers(0) \in Nat \ {0}
  BY <1>1, <1>2, <1>5
<1>7. \A l \in 0 .. 3 : Span(l) \in Nat \ {0} /\ Covers(l) \in Nat \ {0}
  <2>1. \A l \in 0 .. 3 : l = 0 \/ l = 1 \/ l = 2 \/ l = 3
    OBVIOUS
  <2> QED BY <1>1, <1>2, <1>3, <1>4, <1>5, <1>6, <2>1
<1>8. \A l \in 0 .. 2 : Span(l) = Covers(l + 1)
  <2>1. \A l \in 0 .. 2 : l = 0 \/ l = 1 \/ l = 2
    OBVIOUS
  <2> QED BY <1>2, <2>1
<1> QED BY <1>1, <1>2, <1>7, <1>8 DEF P, N, KernelVirtualAddressOffset, L2BlockSize, Covers

LEMMA SlotOf ==
    ASSUME NEW va \in Nat, NEW l \in 0 .. 3
    PROVE  /\ TableIndex(l, va) \in Slot
           /\ va % Covers(l) = TableIndex(l, va) * Span(l) + (va % Span(l))
<1>1. Span(l) \in Nat \ {0} /\ PointersPerTable \in Nat \ {0}
  BY Sizes
<1>2. va \div Span(l) \in Nat
  BY <1>1, DivMod
<1>3. TableIndex(l, va) \in Slot
  BY <1>1, <1>2, DivMod DEF TableIndex, Slot
<1> QED BY <1>1, <1>3, TwoDigits DEF TableIndex, Covers

\* The walk goes from an address's base at one level to that at the next.
LEMMA BaseOf ==
    ASSUME NEW va \in Nat
    PROVE  /\ PhysicalAddress(va) \in 0 .. KernelVirtualAddressOffset - 1
           /\ \A l \in 0 .. 3 : Base(l, va) \in Int
           /\ Base(0, va) = 0
           /\ \A l \in 0 .. 2 : Base(l + 1, va) = Base(l, va) + TableIndex(l, va) * Span(l)
           /\ Aligned(va) => PhysicalAddress(va) = Base(3, va) + TableIndex(3, va) * Span(3)
<1>m. \A d \in Nat \ {0} : va % d \in 0 .. d - 1 /\ va % d \in Nat
  BY DivMod
<1>1. PhysicalAddress(va) \in 0 .. KernelVirtualAddressOffset - 1
  <2>1. KernelVirtualAddressOffset \in Nat \ {0}
    BY Sizes, 0 \in 0 .. 3
  <2> QED BY <2>1, <1>m DEF PhysicalAddress
<1>2. \A l \in 0 .. 3 : va % Covers(l) \in Nat
  BY Sizes, <1>m
<1>3. \A l \in 0 .. 3 : /\ TableIndex(l, va) \in Slot
                        /\ va % Covers(l) = TableIndex(l, va) * Span(l) + (va % Span(l))
  BY SlotOf
<1>4. Base(0, va) = 0
  BY <1>1, Sizes DEF Base, PhysicalAddress
<1>5. ASSUME NEW l \in 0 .. 3 PROVE TableIndex(l, va) * Span(l) \in Int /\ va % Span(l) \in Int
  <2>1. PICK i \in Nat, s \in Nat \ {0} : i = TableIndex(l, va) /\ s = Span(l)
    BY <1>3, Sizes DEF Slot
  <2>2. i * s \in Int /\ va % s \in Int
    BY <1>m
  <2> QED BY <2>1, <2>2
<1>6. ASSUME NEW l \in 0 .. 2 PROVE Base(l + 1, va) = Base(l, va) + TableIndex(l, va) * Span(l)
  <2>1. PICK s \in Int : s = TableIndex(l, va) * Span(l)
    BY <1>5
  <2>2. va % Covers(l) = s + (va % Covers(l + 1))
    BY <1>3, <2>1, Sizes
  <2>3. va % Covers(l) \in Int /\ va % Covers(l + 1) \in Int /\ PhysicalAddress(va) \in Int
    BY <1>1, <1>2
  <2> QED BY <2>1, <2>2, <2>3 DEF Base
<1>7. ASSUME Aligned(va) PROVE PhysicalAddress(va) = Base(3, va) + TableIndex(3, va) * Span(3)
  <2>1. PICK s \in Int : s = TableIndex(3, va) * Span(3)
    BY <1>5
  <2>2. va % Covers(3) = s
    BY <1>3, <1>7, <2>1, Sizes DEF Aligned
  <2>3. PhysicalAddress(va) \in Int
    BY <1>1
  <2> QED BY <2>1, <2>2, <2>3 DEF Base
<1> QED BY <1>1, <1>2, <1>4, <1>6, <1>7 DEF Base

LEMMA Multiple ==
    ASSUME NEW x \in Nat, NEW d \in Nat \ {0}
    PROVE  x % d = 0 <=> \E q \in Nat : x = q * d
<1>1. ASSUME x % d = 0 PROVE \E q \in Nat : x = q * d
  <2>1. x = (x \div d) * d + (x % d) /\ x \div d \in Nat
    BY DivMod
  <2>2. x = (x \div d) * d
    BY <1>1, <2>1
  <2> QED BY <2>1, <2>2
<1>2. ASSUME NEW q \in Nat, x = q * d PROVE x % d = 0
  <2>1. (q * d + 0) % d = 0
    BY Quotient
  <2> QED BY <1>2, <2>1
<1> QED BY <1>1, <1>2

LEMMA MultipleSum ==
    ASSUME NEW x \in Nat, NEW y \in Nat, NEW d \in Nat \ {0}, x % d = 0, y % d = 0
    PROVE  (x + y) % d = 0
<1>1. PICK q \in Nat, r \in Nat : x = q * d /\ y = r * d
  BY Multiple
<1>2. x + y = (q + r) * d /\ q + r \in Nat /\ x + y \in Nat
  BY <1>1
<1> QED BY <1>2, Multiple

LEMMA MultiplesApart ==
    ASSUME NEW x \in Nat, NEW y \in Nat, NEW d \in Nat \ {0}, x % d = 0, y % d = 0, x < y
    PROVE  x + d <= y /\ (y - x) % d = 0
<1>1. PICK q \in Nat, r \in Nat : x = q * d /\ y = r * d
  BY Multiple
<1>2. q < r
  <2>1. CASE r <= q
    <3>1. r * d <= q * d
      BY <1>1, <2>1
    <3> QED BY <1>1, <3>1
  <2> QED BY <1>1, <2>1
<1>3. PICK k \in Nat : r = q + 1 + k
  <2>1. r - q - 1 \in Nat /\ r = q + 1 + (r - q - 1)
    BY <1>2
  <2> QED BY <2>1
<1>4. y = x + (1 + k) * d /\ (1 + k) * d = d + k * d /\ k * d \in Nat
  BY <1>1, <1>3
<1>5. y - x = (1 + k) * d /\ 1 + k \in Nat /\ y - x \in Nat
  BY <1>4
<1>6. (y - x) % d = 0
  BY <1>5, Multiple
<1> QED BY <1>4, <1>6

LEMMA Rounded ==
    ASSUME NEW x \in Nat, NEW d \in Nat \ {0}
    PROVE  /\ CalculateBlockStart(x, d) \in 0 .. x /\ CalculateBlockStart(x, d) % d = 0
           /\ CalculateBlockEnd(x, d) \in Nat /\ x <= CalculateBlockEnd(x, d)
           /\ (CalculateBlockEnd(x, d) + 1) % d = 0
<1>1. PICK q \in Nat, r \in 0 .. d - 1 : q = x \div d /\ r = x % d /\ x = q * d + r
  BY DivMod
<1>2. PICK m \in Nat : m = q * d
  BY <1>1
<1>3. CalculateBlockStart(x, d) = m /\ CalculateBlockEnd(x, d) + 1 = m + d
      /\ CalculateBlockEnd(x, d) = m + d - 1
  BY <1>1, <1>2 DEF CalculateBlockStart, CalculateBlockEnd
<1>4. m % d = 0
  BY <1>2, Multiple
<1>5. d % d = 0
  BY Quotient, d = 1 * d + 0
<1>6. (m + d) % d = 0
  BY <1>4, <1>5, MultipleSum
<1> QED BY <1>1, <1>2, <1>3, <1>4, <1>6

LEMMA BlockIsAligned ==
    ASSUME NEW x \in Nat, x % L2BlockSize = 0
    PROVE  Aligned(x)
<1>1. PICK d \in Nat \ {0}, n \in Nat \ {0} : d = PageSize /\ n = PointersPerTable
  BY Sizes
<1>2. x % (d * n) = ((x \div d) % n) * d + (x % d)
  BY TwoDigits
<1>3. x % d \in Nat /\ x \div d \in Nat
  <2>1. x % d \in 0 .. d - 1 /\ x \div d \in Nat
    BY DivMod
  <2> QED BY <2>1
<1>4. (x \div d) % n \in Nat
  BY <1>3, DivMod
<1>5. ((x \div d) % n) * d \in Nat
  BY <1>4
<1> QED BY <1>1, <1>2, <1>3, <1>5 DEF Aligned, L2BlockSize

-----------------------------------------------------------------------------
(***************************************************************************)
(* The layout of link.ld, and the ranges of CreatePageTables.              *)
(***************************************************************************)
LEMMA Lengths ==
    ASSUME NEW q \in Nat
    PROVE  q * PageSize \in Nat /\ Aligned(q * PageSize)
<1>1. PICK d \in Nat \ {0} : d = PageSize
  BY Sizes
<1>2. q * d \in Nat
  OBVIOUS
<1> QED BY <1>1, <1>2, Multiple DEF Aligned

LEMMA ImageLayout ==
    ASSUME NEW n \in CodePages
    PROVE  /\ Start \in Nat /\ PageSize <= Start /\ Aligned(Start)
           /\ PgDir(n) \in Nat /\ Start < PgDir(n) /\ Aligned(PgDir(n))
           /\ KernelImageEnd(n) \in Nat /\ PgDir(n) + PageSize <= KernelImageEnd(n)
           /\ Aligned(KernelImageEnd(n))
<1>1. /\ Start \in Nat /\ Aligned(Start) /\ Start # 0
      /\ n \in Nat \ {0} /\ PgDirPages \in Nat \ {0}
  <2>1. L2BlockSize \in Nat \ {0}
    BY Sizes, 3 \in 0 .. 3
  <2>2. 0 % L2BlockSize = 0
    BY <2>1
  <2> QED BY <2>2, BootPageTablesAssumption DEF Aligned
<1>2. PICK d \in Nat \ {0} : d = PageSize
  BY Sizes
<1>3. /\ n * d \in Nat /\ d <= n * d /\ Aligned(n * d)
      /\ PgDirPages * d \in Nat /\ d <= PgDirPages * d /\ Aligned(PgDirPages * d)
  <2>1. \A q \in Nat \ {0} : q * d \in Nat /\ d <= q * d
    BY <1>2
  <2> QED BY <1>1, <1>2, <2>1, Lengths
<1>4. PgDir(n) = Start + n * d /\ KernelImageEnd(n) = PgDir(n) + PgDirPages * d
  BY <1>2 DEF PgDir, KernelImageEnd
<1>5. PgDir(n) \in Nat /\ Start < PgDir(n) /\ Aligned(PgDir(n))
  <2>1. PICK l \in Nat \ {0} : l = n * d /\ l % d = 0
    BY <1>2, <1>3 DEF Aligned
  <2>2. (Start + l) % d = 0
    <3>1. Start \in Nat /\ Start % d = 0
      BY <1>1, <1>2 DEF Aligned
    <3> QED BY <2>1, <3>1, MultipleSum
  <2> QED BY <1>1, <1>2, <1>4, <2>1, <2>2 DEF Aligned
<1>6. KernelImageEnd(n) \in Nat /\ PgDir(n) + d <= KernelImageEnd(n) /\ Aligned(KernelImageEnd(n))
  <2>1. PICK l \in Nat : l = PgDirPages * d /\ d <= l /\ l % d = 0
    BY <1>2, <1>3 DEF Aligned
  <2>2. PICK g \in Nat : g = PgDir(n) /\ g % d = 0
    BY <1>2, <1>5 DEF Aligned
  <2>3. (g + l) % d = 0
    BY <2>1, <2>2, MultipleSum
  <2> QED BY <1>2, <1>4, <2>1, <2>2, <2>3 DEF Aligned
<1>7. PageSize <= Start
  <2>1. 0 % d = 0
    BY <1>2
  <2> QED BY <1>1, <1>2, <2>1, MultiplesApart DEF Aligned
<1> QED BY <1>1, <1>2, <1>5, <1>6, <1>7

LEMMA OffsetAligned == KernelVirtualAddressOffset \in Nat /\ Aligned(KernelVirtualAddressOffset)
<1>1. PICK d \in Nat \ {0} : d = PageSize
  BY Sizes
<1>2. PICK s \in Nat \ {0}, m \in Nat \ {0}, k \in Nat \ {0} :
        s = Span(0) /\ m = PointersPerTable /\ k = PageSize * PointersPerTable * PointersPerTable
  BY Sizes, 0 \in 0 .. 3, 1 \in 0 .. 3 DEF Span
<1>3. PICK q \in Nat : q = PointersPerTable * PointersPerTable * PointersPerTable
  BY <1>2
<1>4. KernelVirtualAddressOffset = (q * m) * PageSize
  <2>1. PICK p \in Nat : p = PageSize
    BY <1>1
  <2>2. s = p * m * m * m
    BY <1>2, <2>1 DEF Span
  <2>3. (p * m * m * m) * m = ((m * m * m) * m) * p
    OBVIOUS
  <2> QED BY <1>2, <1>3, <2>1, <2>2, <2>3 DEF KernelVirtualAddressOffset
<1> QED BY <1>2, <1>3, <1>4, Lengths

\* The kernel's block, the memory manager's pages and the devices, in this order,
\* in one half.
LEMMA MemoryLayout ==
    ASSUME NEW n \in CodePages
    PROVE  /\ KernelBasePA \in Nat /\ Aligned(KernelBasePA) /\ KernelBasePA + PageSize <= Start
           /\ KernelEndPA(n) \in Nat /\ KernelImageEnd(n) <= KernelEndPA(n)
           /\ Aligned(KernelEndPA(n) + 1)
           /\ DeviceBaseAddress \in Nat /\ Aligned(DeviceBaseAddress)
           /\ MaxPageCount * PageSize \in Nat /\ PageSize <= MaxPageCount * PageSize
           /\ KernelEndPA(n) + 1 + MaxPageCount * PageSize <= DeviceBaseAddress
           /\ DeviceEndPA \in Nat /\ DeviceBaseAddress + PageSize <= DeviceEndPA + 1
           /\ Aligned(DeviceEndPA + 1) /\ DeviceEndPA < KernelVirtualAddressOffset
           /\ KernelVirtualAddressOffset \in Nat /\ Aligned(KernelVirtualAddressOffset)
<1>1. PICK d \in Nat \ {0}, b \in Nat \ {0} : d = PageSize /\ b = L2BlockSize
  BY Sizes, 3 \in 0 .. 3
<1>2. KernelBasePA \in Nat /\ Aligned(KernelBasePA) /\ KernelBasePA + PageSize <= Start
  <2>1. KernelBasePA \in 0 .. Start /\ KernelBasePA % b = 0
    BY <1>1, ImageLayout, Rounded DEF KernelBasePA
  <2>2. KernelBasePA # Start
    BY <1>1, <2>1, BootPageTablesAssumption
  <2>3. KernelBasePA \in Nat /\ Start \in Nat /\ Start % d = 0
    BY <1>1, <2>1, ImageLayout DEF Aligned
  <2>4. KernelBasePA % d = 0
    BY <1>1, <2>1, <2>3, BlockIsAligned DEF Aligned
  <2>5. KernelBasePA < Start
    BY <2>1, <2>2, <2>3
  <2> QED BY <1>1, <2>3, <2>4, <2>5, MultiplesApart DEF Aligned
<1>3. /\ KernelEndPA(n) \in Nat /\ KernelImageEnd(n) <= KernelEndPA(n)
      /\ Aligned(KernelEndPA(n) + 1)
  <2>1. /\ KernelEndPA(n) \in Nat /\ KernelImageEnd(n) <= KernelEndPA(n)
        /\ (KernelEndPA(n) + 1) % b = 0
    BY <1>1, ImageLayout, Rounded DEF KernelEndPA
  <2>2. KernelEndPA(n) + 1 \in Nat
    BY <2>1
  <2> QED BY <1>1, <2>1, <2>2, BlockIsAligned
<1>4. DeviceBaseAddress \in Nat /\ Aligned(DeviceBaseAddress)
  BY BootPageTablesAssumption, BlockIsAligned
<1>5. MaxPageCount * d \in Nat /\ d <= MaxPageCount * d
  <2>1. MaxPageCount \in Nat \ {0}
    BY BootPageTablesAssumption
  <2> QED BY <2>1
<1>6. KernelEndPA(n) + 1 + MaxPageCount * PageSize <= DeviceBaseAddress
  <2>1. KernelEndPA(n) + MaxPageCount * d < DeviceBaseAddress
    BY <1>1, BootPageTablesAssumption
  <2> QED BY <1>1, <1>3, <1>4, <1>5, <2>1
<1>7. /\ DeviceEndPA \in Nat /\ DeviceBaseAddress + PageSize <= DeviceEndPA + 1
      /\ Aligned(DeviceEndPA + 1)
  <2>1. DeviceSize \in Nat \ {0} /\ DeviceSize % d = 0
    BY <1>1, BootPageTablesAssumption
  <2>2. 0 % d = 0
    OBVIOUS
  <2>3. d <= DeviceSize
    BY <2>1, <2>2, MultiplesApart
  <2>4. DeviceEndPA + 1 = DeviceBaseAddress + DeviceSize /\ DeviceEndPA \in Nat
    BY <1>4, <2>1 DEF DeviceEndPA
  <2>5. (DeviceBaseAddress + DeviceSize) % d = 0
    BY <1>1, <1>4, <2>1, MultipleSum DEF Aligned
  <2> QED BY <1>1, <1>4, <2>1, <2>3, <2>4, <2>5 DEF Aligned
<1>8. DeviceEndPA < KernelVirtualAddressOffset
  BY BootPageTablesAssumption
<1>9. KernelVirtualAddressOffset \in Nat /\ Aligned(KernelVirtualAddressOffset)
  BY OffsetAligned
<1> QED BY <1>1, <1>2, <1>3, <1>4, <1>5, <1>6, <1>7, <1>8, <1>9

\* A range enters whole pages, each at its home.
RangeOK(r) ==
    /\ r.begin \in Nat /\ Aligned(r.begin)
    /\ r.end \in Nat /\ Aligned(r.end + 1)
    /\ r.begin + PageSize <= r.end + 1 /\ r.end < 2 * KernelVirtualAddressOffset
    /\ r.pa \in Nat
    /\ \A va \in r.begin .. r.end :
         /\ PhysicalAddress(va) = r.pa + (va - r.begin)
         /\ r.mair = IF IsDevice(PhysicalAddress(va)) THEN DeviceMAIRIndex ELSE NormalMAIRIndex

LEMMA BothHalves ==
    ASSUME NEW x \in 0 .. KernelVirtualAddressOffset - 1
    PROVE  PhysicalAddress(x) = x /\ PhysicalAddress(x + KernelVirtualAddressOffset) = x
<1>1. PICK o \in Nat \ {0} : o = KernelVirtualAddressOffset
  BY Sizes, 0 \in 0 .. 3
<1>2. (0 * o + x) % o = x /\ (1 * o + x) % o = x
  BY <1>1, Quotient
<1>3. 0 * o + x = x /\ 1 * o + x = x + o
  BY <1>1
<1> QED BY <1>1, <1>2, <1>3 DEF PhysicalAddress

LEMMA RangeInHalf ==
    ASSUME NEW n \in CodePages,
           NEW b \in Nat, NEW e \in Nat, Aligned(b), Aligned(e + 1), b + PageSize <= e + 1,
           e < KernelVirtualAddressOffset, NEW m,
           \A pa \in b .. e : m = IF IsDevice(pa) THEN DeviceMAIRIndex ELSE NormalMAIRIndex
    PROVE  RangeOK(MemoryRange(b, e, b, m)) /\ RangeOK(MemoryRange(ToVA(b), ToVA(e), b, m))
<1>1. PICK o \in Nat, d \in Nat \ {0} :
        o = KernelVirtualAddressOffset /\ d = PageSize /\ o % d = 0
  BY Sizes, MemoryLayout DEF Aligned
<1>2. \A pa \in b .. e : PhysicalAddress(pa) = pa /\ PhysicalAddress(pa + o) = pa
  BY <1>1, BothHalves
<1>3. RangeOK(MemoryRange(b, e, b, m))
  <2>1. \A pa \in b .. e : pa = b + (pa - b)
    OBVIOUS
  <2> QED BY <1>1, <1>2, <2>1 DEF RangeOK, MemoryRange
<1>4. RangeOK(MemoryRange(ToVA(b), ToVA(e), b, m))
  <2>1. (b + o) % d = 0 /\ (e + 1 + o) % d = 0
    <3>1. PICK f \in Nat : f = e + 1 /\ f % d = 0
      BY <1>1 DEF Aligned
    <3>2. b % d = 0
      BY <1>1 DEF Aligned
    <3>3. (b + o) % d = 0 /\ (f + o) % d = 0
      BY <1>1, <3>1, <3>2, MultipleSum
    <3> QED BY <3>1, <3>3
  <2>2. b + o \in Nat /\ e + o \in Nat /\ (e + o) + 1 = e + 1 + o /\ e + o < 2 * o
        /\ (b + o) + d <= (e + o) + 1
    BY <1>1
  <2>3. ASSUME NEW va \in b + o .. e + o
        PROVE  /\ PhysicalAddress(va) = b + (va - (b + o))
               /\ m = IF IsDevice(PhysicalAddress(va)) THEN DeviceMAIRIndex ELSE NormalMAIRIndex
    <3>1. PICK pa \in b .. e : va = pa + o
      <4>1. va - o \in b .. e /\ va = (va - o) + o
        BY <1>1
      <4> QED BY <4>1
    <3>2. pa = b + (va - (b + o))
      BY <1>1, <3>1
    <3> QED BY <1>2, <3>1, <3>2
  <2>4. Aligned(b + o) /\ Aligned((e + o) + 1)
    BY <1>1, <2>1, <2>2 DEF Aligned
  <2> QED BY <1>1, <2>2, <2>3, <2>4 DEF RangeOK, MemoryRange, ToVA
<1> QED BY <1>3, <1>4

LEMMA RangesOK ==
    ASSUME NEW n \in CodePages, NEW k \in 1 .. 5
    PROVE  RangeOK(MemoryRanges(n)[k])
<1>1. PICK base \in Nat, end \in Nat, dev \in Nat, last \in Nat, o \in Nat, d \in Nat :
        /\ base = KernelBasePA /\ end = KernelEndPA(n)
        /\ dev = DeviceBaseAddress /\ last = DeviceEndPA
        /\ o = KernelVirtualAddressOffset /\ d = PageSize
  BY MemoryLayout, Sizes
<1>2. /\ Aligned(base) /\ Aligned(end + 1) /\ Aligned(dev) /\ Aligned(last + 1)
      /\ base + d <= end + 1 /\ end + 1 + d <= dev /\ dev + d <= last + 1 /\ last < o
  <2>1. PICK m \in Nat : m = MaxPageCount * PageSize /\ d <= m
    BY <1>1, MemoryLayout
  <2>2. end + 1 + m <= dev
    BY <1>1, <2>1, MemoryLayout
  <2>3. KernelImageEnd(n) \in Nat /\ PgDir(n) \in Nat /\ Start \in Nat
        /\ base + d <= Start /\ Start < PgDir(n) /\ PgDir(n) + d <= KernelImageEnd(n)
        /\ KernelImageEnd(n) <= end
    BY <1>1, ImageLayout, MemoryLayout
  <2> QED BY <1>1, <2>1, <2>2, <2>3, MemoryLayout
<1>3. \A pa \in Nat : IsDevice(pa) <=> dev <= pa /\ pa <= last
  BY <1>1 DEF IsDevice
<1>4. /\ \A pa \in base .. end : ~IsDevice(pa)
      /\ \A pa \in end + 1 .. dev - 1 : ~IsDevice(pa)
      /\ \A pa \in dev .. last : IsDevice(pa)
  BY <1>1, <1>2, <1>3
<1>5. /\ RangeOK(MemoryRange(base, end, base, NormalMAIRIndex))
      /\ RangeOK(MemoryRange(ToVA(base), ToVA(end), base, NormalMAIRIndex))
  BY <1>1, <1>2, <1>4, RangeInHalf
<1>6. /\ RangeOK(MemoryRange(dev, last, dev, DeviceMAIRIndex))
      /\ RangeOK(MemoryRange(ToVA(dev), ToVA(last), dev, DeviceMAIRIndex))
  BY <1>1, <1>2, <1>4, RangeInHalf
<1>7. RangeOK(MemoryRange(ToVA(end) + 1, ToVA(dev) - 1, end + 1, NormalMAIRIndex))
  <2>1. dev - 1 \in Nat /\ end + 1 \in Nat /\ (dev - 1) + 1 = dev
        /\ (end + 1) + d <= (dev - 1) + 1 /\ dev - 1 < o
    BY <1>1, <1>2
  <2>2. RangeOK(MemoryRange(ToVA(end + 1), ToVA(dev - 1), end + 1, NormalMAIRIndex))
    BY <1>1, <1>2, <1>4, <2>1, RangeInHalf
  <2>3. ToVA(end + 1) = ToVA(end) + 1 /\ ToVA(dev - 1) = ToVA(dev) - 1
    BY <1>1, <2>1 DEF ToVA
  <2> QED BY <2>2, <2>3
<1>8. k = 1 \/ k = 2 \/ k = 3 \/ k = 4 \/ k = 5
  OBVIOUS
<1> QED BY <1>1, <1>5, <1>6, <1>7, <1>8 DEF MemoryRanges, StartOfExtraPA

-----------------------------------------------------------------------------
(***************************************************************************)
(* Pages.                                                                  *)
(***************************************************************************)
LEMMA AlignedIs ==
    ASSUME NEW x \in Nat, Aligned(x)
    PROVE  x \div PageSize \in Nat /\ x = (x \div PageSize) * PageSize
<1>1. PICK d \in Nat \ {0} : d = PageSize
  BY Sizes
<1>2. x = (x \div d) * d + (x % d) /\ x \div d \in Nat
  BY DivMod
<1> QED BY <1>1, <1>2 DEF Aligned

LEMMA AlignedApart ==
    ASSUME NEW x \in Nat, NEW y \in Nat, Aligned(x), Aligned(y), x < y
    PROVE  x + PageSize <= y
  BY Sizes, MultiplesApart DEF Aligned

LEMMA AlignedNext ==
    ASSUME NEW x \in Nat, Aligned(x)
    PROVE  x + PageSize \in Nat /\ Aligned(x + PageSize)
<1>1. PICK d \in Nat \ {0} : d = PageSize
  BY Sizes
<1>2. d % d = 0
  BY Quotient, d = 1 * d + 0
<1>3. (x + d) % d = 0
  BY <1>1, <1>2, MultipleSum DEF Aligned
<1> QED BY <1>1, <1>3 DEF Aligned

LEMMA AlignedSum ==
    ASSUME NEW x \in Nat, NEW y \in Nat, Aligned(x), Aligned(y)
    PROVE  x + y \in Nat /\ Aligned(x + y)
<1>1. PICK d \in Nat \ {0} : d = PageSize
  BY Sizes
<1>2. x % d = 0 /\ y % d = 0
  BY <1>1 DEF Aligned
<1>3. (x + y) % d = 0
  BY <1>2, MultipleSum
<1> QED BY <1>1, <1>3 DEF Aligned

LEMMA TablePages ==
    ASSUME NEW n \in CodePages
    PROVE  /\ PgDir(n) \in TablePage(n)
           /\ \A p \in TablePage(n) :
                p \in Nat /\ Aligned(p) /\ PgDir(n) <= p /\ p + PageSize <= KernelImageEnd(n)
           /\ \A p \in Nat :
                Aligned(p) /\ PgDir(n) <= p /\ p < KernelImageEnd(n) => p \in TablePage(n)
<1>1. PICK d \in Nat \ {0}, g \in Nat, c \in Nat \ {0} :
        d = PageSize /\ g = PgDir(n) /\ c = PgDirPages
  BY Sizes, ImageLayout, BootPageTablesAssumption
<1>2. KernelImageEnd(n) = g + c * d
  BY <1>1 DEF KernelImageEnd
<1>3. PgDir(n) \in TablePage(n)
  <2>1. 0 \in 0 .. c - 1 /\ g + 0 * d = g
    BY <1>1
  <2> QED BY <1>1, <2>1 DEF TablePage
<1>4. ASSUME NEW p \in TablePage(n)
      PROVE  p \in Nat /\ Aligned(p) /\ PgDir(n) <= p /\ p + PageSize <= KernelImageEnd(n)
  <2>1. PICK i \in 0 .. c - 1 : p = g + i * d
    BY <1>1 DEF TablePage
  <2>2. i * d \in Nat /\ (i + 1) * d <= c * d /\ (i + 1) * d = i * d + d /\ c * d \in Nat
    <3>1. i + 1 <= c /\ i \in Nat
      OBVIOUS
    <3>2. \A a, b \in Nat : a <= b => a * d <= b * d
      OBVIOUS
    <3>3. (i + 1) * d <= c * d
      BY <3>1, <3>2
    <3> QED BY <3>1, <3>3
  <2>3. (i * d) % d = 0 /\ g % d = 0
    <3>1. PICK s \in Nat : s = i * d
      BY <2>2
    <3>2. s % d = 0
      BY <3>1, Multiple
    <3>3. g % d = 0
      BY <1>1, ImageLayout DEF Aligned
    <3> QED BY <3>1, <3>2, <3>3
  <2>4. (g + i * d) % d = 0
    <3>1. PICK s \in Nat : s = i * d
      BY <2>2
    <3> QED BY <2>3, <3>1, MultipleSum
  <2> QED BY <1>1, <1>2, <2>1, <2>2, <2>4 DEF Aligned
<1>5. ASSUME NEW p \in Nat, Aligned(p), PgDir(n) <= p, p < KernelImageEnd(n)
      PROVE  p \in TablePage(n)
  <2>1. PICK q \in Nat, r \in Nat : p = q * d /\ g = r * d
    <3>1. p % d = 0 /\ g % d = 0
      BY <1>1, <1>5, ImageLayout DEF Aligned
    <3> QED BY <3>1, Multiple
  <2>2. r * d <= q * d /\ q * d < r * d + c * d
    BY <1>1, <1>2, <1>5, <2>1
  <2>3. r <= q
    <3>1. CASE q < r
      <4>1. PICK k \in Nat : r = q + 1 + k
        <5>1. r - q - 1 \in Nat /\ r = q + 1 + (r - q - 1)
          BY <3>1
        <5> QED BY <5>1
      <4>2. r * d = q * d + d + k * d /\ k * d \in Nat /\ q * d \in Nat
        BY <4>1
      <4> QED BY <2>2, <4>2
    <3> QED BY <3>1
  <2>4. q < r + c
    <3>1. CASE r + c <= q
      <4>1. PICK k \in Nat : q = r + c + k
        <5>1. q - r - c \in Nat /\ q = r + c + (q - r - c)
          BY <3>1
        <5> QED BY <5>1
      <4>2. q * d = r * d + c * d + k * d /\ k * d \in Nat /\ r * d \in Nat /\ c * d \in Nat
        BY <4>1
      <4> QED BY <2>2, <4>2
    <3> QED BY <3>1
  <2>5. q - r \in 0 .. c - 1 /\ q * d = r * d + (q - r) * d
    BY <2>3, <2>4
  <2> QED BY <1>1, <2>1, <2>5 DEF TablePage
<1> QED BY <1>3, <1>4, <1>5

LEMMA VirtualPages ==
    /\ \A va \in VirtualPage :
         va \in Nat /\ Aligned(va) /\ va < 2 * KernelVirtualAddressOffset
    /\ \A va \in Nat : Aligned(va) /\ va < 2 * KernelVirtualAddressOffset => va \in VirtualPage
<1>1. PICK d \in Nat \ {0}, o \in Nat \ {0} :
        d = PageSize /\ o = KernelVirtualAddressOffset
  BY Sizes, 0 \in 0 .. 3
<1>2. PICK w \in Nat : w = 2 * o
  OBVIOUS
<1>3. w = (w \div d) * d + (w % d) /\ w % d \in 0 .. d - 1 /\ w \div d \in Nat
  BY DivMod
<1>4. PICK c \in Nat : c = w \div d
  BY <1>3
<1>5. \A va : va \in VirtualPage <=> \E i \in 0 .. c - 1 : va = i * d
  BY <1>1, <1>2, <1>4 DEF VirtualPage
<1>6. ASSUME NEW va \in VirtualPage
      PROVE  va \in Nat /\ Aligned(va) /\ va < 2 * KernelVirtualAddressOffset
  <2>1. PICK i \in 0 .. c - 1 : va = i * d
    BY <1>5
  <2>2. i * d \in Nat /\ i * d + d <= c * d
    <3>1. i + 1 <= c /\ i \in Nat
      OBVIOUS
    <3>2. \A a, b \in Nat : a <= b => a * d <= b * d
      OBVIOUS
    <3>3. (i + 1) * d <= c * d /\ (i + 1) * d = i * d + d
      BY <3>1, <3>2
    <3> QED BY <3>1, <3>3
  <2>3. c * d <= w
    BY <1>3, <1>4
  <2> QED BY <1>1, <1>2, <2>1, <2>2, <2>3, Multiple DEF Aligned
<1>7. ASSUME NEW va \in Nat, Aligned(va), va < 2 * KernelVirtualAddressOffset
      PROVE  va \in VirtualPage
  <2>1. PICK q \in Nat : va = q * d
    BY <1>1, <1>7, AlignedIs
  <2>2. q < c
    <3>1. CASE c < q
      <4>1. PICK k \in Nat : q = c + 1 + k
        <5>1. q - c - 1 \in Nat /\ q = c + 1 + (q - c - 1)
          BY <3>1
        <5> QED BY <5>1
      <4>2. q * d = c * d + d + k * d /\ k * d \in Nat /\ c * d \in Nat
        BY <4>1
      <4> QED BY <1>1, <1>2, <1>3, <1>4, <1>7, <2>1, <4>2
    <3>2. CASE q = c
      <4>1. w % d # 0
        BY <1>1, <1>2, <1>3, <1>4, <1>7, <2>1, <3>2
      <4>2. (o + o) % d = 0 /\ w = o + o
        <5>1. o % d = 0
          BY <1>1, OffsetAligned DEF Aligned
        <5>2. o \in Nat
          OBVIOUS
        <5>3. (o + o) % d = 0
          BY <5>1, <5>2, MultipleSum
        <5>4. w = o + o
          BY <1>2
        <5> QED BY <5>3, <5>4
      <4> QED BY <4>1, <4>2
    <3> QED BY <3>1, <3>2
  <2> QED BY <1>5, <2>1, <2>2
<1> QED BY <1>6, <1>7

-----------------------------------------------------------------------------
(***************************************************************************)
(* The walk of the MMU, in a value m of memory.                            *)
(***************************************************************************)
\* Two addresses that translate to one place are walked alike.
LEMMA SameWalk ==
    ASSUME NEW va \in Nat
    PROVE  /\ PhysicalAddress(va) \in Nat
           /\ \A l \in 0 .. 3 : TableIndex(l, PhysicalAddress(va)) = TableIndex(l, va)
           /\ Aligned(va) => Aligned(PhysicalAddress(va))
<1>1. PICK pa \in Nat : pa = PhysicalAddress(va)
  BY BaseOf
<1> DEFINE Alike(l) == pa % Covers(l) = va % Covers(l)
<1>2. ASSUME NEW l \in 0 .. 3, Alike(l)
      PROVE  TableIndex(l, pa) = TableIndex(l, va) /\ pa % Span(l) = va % Span(l)
  <2>1. PICK s \in Nat \ {0} : s = Span(l)
    BY Sizes
  <2>2. PICK i \in Nat, j \in Nat : i = TableIndex(l, va) /\ j = TableIndex(l, pa)
    <3>1. TableIndex(l, va) \in Slot /\ TableIndex(l, pa) \in Slot
      BY SlotOf
    <3> QED BY <3>1 DEF Slot
  <2>3. va % s \in 0 .. s - 1 /\ pa % s \in 0 .. s - 1
    BY DivMod
  <2>4. i * s + (va % s) = j * s + (pa % s)
    BY <1>2, <2>1, <2>2, SlotOf
  <2>5. (i * s + (va % s)) \div s = i /\ (j * s + (pa % s)) \div s = j
    BY <2>3, Quotient
  <2>6. (i * s + (va % s)) % s = va % s /\ (j * s + (pa % s)) % s = pa % s
    BY <2>3, Quotient
  <2> QED BY <2>1, <2>2, <2>4, <2>5, <2>6
<1>3. Alike(0)
  <2>1. PICK o \in Nat \ {0} : o = KernelVirtualAddressOffset /\ Covers(0) = o
    BY Sizes, 0 \in 0 .. 3
  <2>2. pa \in 0 .. o - 1 /\ pa = va % o
    BY <1>1, <2>1, BaseOf DEF PhysicalAddress
  <2>3. (0 * o + pa) % o = pa
    BY <2>2, Quotient
  <2>4. 0 * o + pa = pa
    OBVIOUS
  <2> QED BY <2>1, <2>2, <2>3, <2>4
<1>4. \A l \in 0 .. 2 : Alike(l) => Alike(l + 1)
  <2>1. \A l \in 0 .. 2 : l \in 0 .. 3 /\ Span(l) = Covers(l + 1)
    BY Sizes
  <2> QED BY <1>2, <2>1
<1>5. Alike(0) /\ Alike(1) /\ Alike(2) /\ Alike(3)
  <2>1. 0 \in 0 .. 2 /\ 1 \in 0 .. 2 /\ 2 \in 0 .. 2 /\ 0 + 1 = 1 /\ 1 + 1 = 2 /\ 2 + 1 = 3
    OBVIOUS
  <2> HIDE DEF Alike
  <2> QED BY <1>3, <1>4, <2>1
<1>6. \A l \in 0 .. 3 : Alike(l)
  <2>1. \A l \in 0 .. 3 : l = 0 \/ l = 1 \/ l = 2 \/ l = 3
    OBVIOUS
  <2> HIDE DEF Alike
  <2> QED BY <1>5, <2>1
<1>7. Aligned(va) => Aligned(pa)
  <2>1. pa % Span(3) = va % Span(3)
    BY <1>2, <1>5
  <2> QED BY <2>1, Sizes DEF Aligned
<1> QED BY <1>1, <1>2, <1>6, <1>7

LEMMA HomeOf ==
    ASSUME NEW va \in Nat
    PROVE  Home(PhysicalAddress(va)) = Home(va)
<1>1. PhysicalAddress(PhysicalAddress(va)) = PhysicalAddress(va)
  BY BaseOf, BothHalves
<1> QED BY <1>1 DEF Home

Typed(m, n) == m \in [TablePage(n) -> [Slot -> DescriptorType]]

Link(m, e, l, va) == IF e.address \in DOMAIN m THEN m[e.address][TableIndex(l, va)] ELSE Fault

W0(m, n, va) == m[PgDir(n)][TableIndex(0, va)]
W1(m, n, va) == Link(m, W0(m, n, va), 1, va)
W2(m, n, va) == Link(m, W1(m, n, va), 2, va)
W3(m, n, va) == Link(m, W2(m, n, va), 3, va)

LEMMA TranslationIs == \A va : Translation(va) = W3(memory, code, va)
  BY DEF Translation, Descend, W3, W2, W1, W0, Link

\* Each table has a level and the base of its addresses, and its entries are faults,
\* tables of the next level, or pages at their homes.
Grown(m, n, cur, lv, base) ==
    /\ lv \in [TablePage(n) -> 0 .. 3] /\ base \in [TablePage(n) -> Int]
    /\ PgDir(n) < cur /\ lv[PgDir(n)] = 0 /\ base[PgDir(n)] = 0
    /\ \A f \in TablePage(n) : \A i \in Slot :
         f < cur /\ m[f][i] # Fault =>
           IF lv[f] = 3
           THEN m[f][i] = Home(base[f] + i * Span(3))
           ELSE /\ m[f][i].address \in TablePage(n) /\ m[f][i].address < cur
                /\ lv[m[f][i].address] = lv[f] + 1
                /\ base[m[f][i].address] = base[f] + i * Span(lv[f])

\* The walk for an address gets to table f at level l.
OnPath(n, cur, lv, base, l, f, va) ==
    f \in TablePage(n) /\ f < cur /\ lv[f] = l /\ base[f] = Base(l, va)

LEMMA OneStep ==
    ASSUME NEW n \in CodePages, NEW m, NEW cur, NEW lv, NEW base, Grown(m, n, cur, lv, base),
           NEW va \in Nat, NEW l \in 0 .. 2, NEW f, OnPath(n, cur, lv, base, l, f, va),
           m[f][TableIndex(l, va)] # Fault
    PROVE  OnPath(n, cur, lv, base, l + 1, m[f][TableIndex(l, va)].address, va)
<1>1. PICK i \in Slot : i = TableIndex(l, va)
  BY SlotOf
<1>2. /\ m[f][i].address \in TablePage(n) /\ m[f][i].address < cur
      /\ lv[m[f][i].address] = l + 1
      /\ base[m[f][i].address] = Base(l, va) + i * Span(l)
  BY <1>1 DEF Grown, OnPath
<1>3. Base(l + 1, va) = Base(l, va) + i * Span(l)
  BY <1>1, BaseOf
<1> QED BY <1>1, <1>2, <1>3 DEF OnPath

LEMMA AtHome ==
    ASSUME NEW n \in CodePages, NEW m, NEW cur, NEW lv, NEW base, Grown(m, n, cur, lv, base),
           NEW va \in Nat, Aligned(va), NEW f, OnPath(n, cur, lv, base, 3, f, va),
           m[f][TableIndex(3, va)] # Fault
    PROVE  m[f][TableIndex(3, va)] = Home(va)
<1>1. PICK i \in Slot : i = TableIndex(3, va)
  BY SlotOf
<1>2. m[f][i] = Home(Base(3, va) + i * Span(3))
  BY <1>1 DEF Grown, OnPath
<1>3. PhysicalAddress(va) = Base(3, va) + i * Span(3)
  BY <1>1, BaseOf
<1> QED BY <1>1, <1>2, <1>3, HomeOf

LEMMA FaultIs == ASSUME NEW n \in CodePages PROVE Fault.address \notin TablePage(n)
  BY TablePages DEF Fault

\* The entry that the walk finds at a level.
Walked(m, n, l, va) ==
    IF l = 0 THEN W0(m, n, va) ELSE IF l = 1 THEN W1(m, n, va)
    ELSE IF l = 2 THEN W2(m, n, va) ELSE W3(m, n, va)

\* The walk gets to table f at level l.
Reach(m, n, l, f, va) ==
    IF l = 0 THEN f = PgDir(n)
             ELSE Walked(m, n, l - 1, va) # Fault /\ f = Walked(m, n, l - 1, va).address

LEMMA StepLevels ==
    ASSUME NEW m, NEW n, NEW va
    PROVE  /\ Walked(m, n, 0, va) = m[PgDir(n)][TableIndex(0, va)]
           /\ \A l \in 0 .. 2 : Walked(m, n, l + 1, va) = Link(m, Walked(m, n, l, va), l + 1, va)
           /\ Reach(m, n, 0, PgDir(n), va)
           /\ \A f : Reach(m, n, 0, f, va) => f = PgDir(n)
           /\ \A l \in 0 .. 2 : \A f :
                Reach(m, n, l + 1, f, va) <=>
                  Walked(m, n, l, va) # Fault /\ f = Walked(m, n, l, va).address
<1>1. Walked(m, n, 0, va) = m[PgDir(n)][TableIndex(0, va)]
  BY DEF Walked, W0
<1>2. ASSUME NEW l \in 0 .. 2
      PROVE  Walked(m, n, l + 1, va) = Link(m, Walked(m, n, l, va), l + 1, va)
  <2>1. l = 0 \/ l = 1 \/ l = 2
    OBVIOUS
  <2> QED BY <2>1 DEF Walked, W1, W2, W3
<1>3. ASSUME NEW l \in 0 .. 2, NEW f
      PROVE  Reach(m, n, l + 1, f, va) <=>
               Walked(m, n, l, va) # Fault /\ f = Walked(m, n, l, va).address
  <2>1. l + 1 # 0 /\ (l + 1) - 1 = l
    OBVIOUS
  <2> QED BY <2>1 DEF Reach
<1> QED BY <1>1, <1>2, <1>3 DEF Reach

\* What holds at level 0, and at a level if it does at the one before.
LEMMA WalkIs ==
    ASSUME NEW n \in CodePages, NEW m, Typed(m, n), NEW cur, NEW lv, NEW base,
           Grown(m, n, cur, lv, base), NEW va \in Nat, NEW k \in 0 .. 3
    PROVE  /\ (\E f : Reach(m, n, k, f, va)) \/ Walked(m, n, k, va) = Fault
           /\ \A f : Reach(m, n, k, f, va) =>
                /\ OnPath(n, cur, lv, base, k, f, va)
                /\ Walked(m, n, k, va) = m[f][TableIndex(k, va)]
<1> DEFINE Is(l) ==
      /\ (\E f : Reach(m, n, l, f, va)) \/ Walked(m, n, l, va) = Fault
      /\ \A f : Reach(m, n, l, f, va) =>
           /\ OnPath(n, cur, lv, base, l, f, va)
           /\ Walked(m, n, l, va) = m[f][TableIndex(l, va)]
<1>1. DOMAIN m = TablePage(n) /\ Fault.address \notin TablePage(n)
  BY FaultIs DEF Typed
<1>2. OnPath(n, cur, lv, base, 0, PgDir(n), va)
  BY TablePages, BaseOf DEF OnPath, Grown
<1>3. Is(0)
  BY <1>2, StepLevels
<1>4. ASSUME NEW l \in 0 .. 2, Is(l)
      PROVE  Is(l + 1)
  <2>1. PICK e : e = Walked(m, n, l, va) /\ Walked(m, n, l + 1, va) = Link(m, e, l + 1, va)
    BY StepLevels
  <2>2. \A f : Reach(m, n, l + 1, f, va) <=> e # Fault /\ f = e.address
    BY <2>1, StepLevels
  <2>3. CASE e = Fault
    <3>1. Walked(m, n, l + 1, va) = Fault
      BY <1>1, <2>1, <2>3 DEF Link
    <3> QED BY <2>2, <2>3, <3>1
  <2>4. CASE e # Fault
    <3>1. PICK f : Reach(m, n, l, f, va)
      BY <1>4, <2>1, <2>4
    <3>2. OnPath(n, cur, lv, base, l, f, va) /\ e = m[f][TableIndex(l, va)]
      BY <1>4, <2>1, <3>1
    <3>3. OnPath(n, cur, lv, base, l + 1, e.address, va)
      BY <2>4, <3>2, OneStep
    <3>4. e.address \in DOMAIN m
      BY <1>1, <3>3 DEF OnPath
    <3>5. Link(m, e, l + 1, va) = m[e.address][TableIndex(l + 1, va)]
      BY <3>4 DEF Link
    <3> HIDE DEF Is
    <3>6. /\ Reach(m, n, l + 1, e.address, va)
          /\ \A f2 : Reach(m, n, l + 1, f2, va) => f2 = e.address
      BY <2>2, <2>4
    <3> QED BY <2>1, <3>3, <3>5, <3>6 DEF Is
  <2> QED BY <2>3, <2>4
<1> HIDE DEF Is
<1>5. 0 \in 0 .. 2 /\ 1 \in 0 .. 2 /\ 2 \in 0 .. 2 /\ 0 + 1 = 1 /\ 1 + 1 = 2 /\ 2 + 1 = 3
  OBVIOUS
<1>6. Is(0) /\ Is(1) /\ Is(2) /\ Is(3)
  BY <1>3, <1>4, <1>5
<1>7. k = 0 \/ k = 1 \/ k = 2 \/ k = 3
  OBVIOUS
<1>8. Is(k)
  BY <1>6, <1>7
<1> QED BY <1>8 DEF Is

LEMMA WalkExact ==
    ASSUME NEW n \in CodePages, NEW m, Typed(m, n), NEW cur, NEW lv, NEW base,
           Grown(m, n, cur, lv, base), NEW va \in Nat, Aligned(va), Walked(m, n, 3, va) # Fault
    PROVE  Walked(m, n, 3, va) = Home(va)
<1>1. PICK f : OnPath(n, cur, lv, base, 3, f, va) /\ Walked(m, n, 3, va) = m[f][TableIndex(3, va)]
  BY WalkIs, 3 \in 0 .. 3
<1> QED BY <1>1, AtHome

\* m2 is m but for entry j of table t and the pages from cur on.
Enters(m, m2, n, cur, t, j, entry) ==
    /\ t \in TablePage(n) /\ t < cur /\ j \in Slot /\ m2[t][j] = entry
    /\ \A f \in TablePage(n) : \A i \in Slot : f < cur /\ ~(f = t /\ i = j) => m2[f][i] = m[f][i]

\* As long as the walk does not get to the level of t it sees no difference.
LEMMA WalkAbove ==
    ASSUME NEW n \in CodePages, NEW m, Typed(m, n), NEW cur, NEW lv, NEW base,
           Grown(m, n, cur, lv, base), NEW m2, Typed(m2, n), NEW t, NEW j, NEW entry,
           Enters(m, m2, n, cur, t, j, entry), NEW va \in Nat, NEW k \in 0 .. 3, k < lv[t]
    PROVE  Walked(m2, n, k, va) = Walked(m, n, k, va)
<1> DEFINE Same(l) == l < lv[t] => Walked(m2, n, l, va) = Walked(m, n, l, va)
<1>1. DOMAIN m2 = TablePage(n) /\ DOMAIN m = TablePage(n) /\ Fault.address \notin TablePage(n)
  BY FaultIs DEF Typed
<1>2. ASSUME NEW l \in 0 .. 3, l < lv[t], NEW f, OnPath(n, cur, lv, base, l, f, va)
      PROVE  f \in TablePage(n) /\ m2[f][TableIndex(l, va)] = m[f][TableIndex(l, va)]
  <2>1. TableIndex(l, va) \in Slot
    BY SlotOf
  <2>2. f \in TablePage(n) /\ f < cur /\ f # t
    BY <1>2 DEF OnPath
  <2> QED BY <2>1, <2>2 DEF Enters
<1>3. lv[t] \in 0 .. 3
  BY DEF Grown, Enters
<1>4. Same(0)
  <2> HAVE 0 < lv[t]
  <2>1. OnPath(n, cur, lv, base, 0, PgDir(n), va)
    BY TablePages, BaseOf DEF OnPath, Grown
  <2>2. m2[PgDir(n)][TableIndex(0, va)] = m[PgDir(n)][TableIndex(0, va)]
    BY <1>2, <2>1, 0 \in 0 .. 3
  <2> QED BY <2>2, StepLevels
<1>5. ASSUME NEW l \in 0 .. 2, Same(l)
      PROVE  Same(l + 1)
  <2> HAVE l + 1 < lv[t]
  <2>0. l + 1 \in 0 .. 3 /\ l \in 0 .. 3
    OBVIOUS
  <2>1. PICK e : /\ e = Walked(m, n, l, va) /\ e = Walked(m2, n, l, va)
                 /\ Walked(m, n, l + 1, va) = Link(m, e, l + 1, va)
                 /\ Walked(m2, n, l + 1, va) = Link(m2, e, l + 1, va)
    BY <1>3, <1>5, StepLevels
  <2>2. CASE e.address \in DOMAIN m
    <3>1. Reach(m, n, l + 1, e.address, va)
      BY <1>1, <2>1, <2>2, StepLevels
    <3>2. OnPath(n, cur, lv, base, l + 1, e.address, va)
      BY <2>0, <3>1, WalkIs
    <3>3. m2[e.address][TableIndex(l + 1, va)] = m[e.address][TableIndex(l + 1, va)]
      BY <1>2, <2>0, <3>2
    <3> QED BY <1>1, <2>1, <2>2, <3>3 DEF Link
  <2>3. CASE e.address \notin DOMAIN m
    BY <1>1, <2>1, <2>3 DEF Link
  <2> QED BY <2>2, <2>3
<1> HIDE DEF Same
<1>6. 0 \in 0 .. 2 /\ 1 \in 0 .. 2 /\ 2 \in 0 .. 2 /\ 0 + 1 = 1 /\ 1 + 1 = 2 /\ 2 + 1 = 3
  OBVIOUS
<1>7. Same(0) /\ Same(1) /\ Same(2) /\ Same(3)
  BY <1>4, <1>5, <1>6
<1>8. k = 0 \/ k = 1 \/ k = 2 \/ k = 3
  OBVIOUS
<1>9. Same(k)
  BY <1>7, <1>8
<1> QED BY <1>9 DEF Same

\* A page entered where the walk for c gets to: what translates to the same
\* place as c changes, and nothing else.
LEMMA WalkWithPage ==
    ASSUME NEW n \in CodePages, NEW m, Typed(m, n), NEW cur, NEW lv, NEW base,
           Grown(m, n, cur, lv, base), NEW m2, Typed(m2, n), NEW t, NEW c \in Nat, Aligned(c),
           NEW entry, Enters(m, m2, n, cur, t, TableIndex(3, c), entry),
           Reach(m, n, 3, t, c), NEW va \in Nat, Aligned(va)
    PROVE  Walked(m2, n, 3, va) = IF PhysicalAddress(va) = PhysicalAddress(c)
                                  THEN entry ELSE Walked(m, n, 3, va)
<1>1. DOMAIN m2 = TablePage(n) /\ DOMAIN m = TablePage(n) /\ Fault.address \notin TablePage(n)
  BY FaultIs DEF Typed
<1>2. OnPath(n, cur, lv, base, 3, t, c) /\ 3 \in 0 .. 3 /\ 2 \in 0 .. 2 /\ 2 + 1 = 3
  BY WalkIs
<1>3. ASSUME NEW v \in Nat
      PROVE  /\ Walked(m2, n, 2, v) = Walked(m, n, 2, v)
             /\ Walked(m, n, 3, v) = Link(m, Walked(m, n, 2, v), 3, v)
             /\ Walked(m2, n, 3, v) = Link(m2, Walked(m, n, 2, v), 3, v)
  <2>1. 2 \in 0 .. 3 /\ 2 < lv[t]
    BY <1>2 DEF OnPath
  <2>2. Walked(m2, n, 2, v) = Walked(m, n, 2, v)
    BY <2>1, WalkAbove
  <2> QED BY <1>2, <2>2, StepLevels
<1>4. Walked(m2, n, 3, c) = entry
  <2>1. Walked(m, n, 2, c).address = t
    BY <1>2, StepLevels
  <2> QED BY <1>1, <1>3, <2>1 DEF Link, Enters
<1>5. ASSUME PhysicalAddress(va) = PhysicalAddress(c)
      PROVE  Walked(m2, n, 3, va) = Walked(m2, n, 3, c)
  <2>1. \A l \in 0 .. 3 : TableIndex(l, va) = TableIndex(l, c)
    BY <1>5, SameWalk
  <2>2. TableIndex(0, va) = TableIndex(0, c) /\ TableIndex(1, va) = TableIndex(1, c)
        /\ TableIndex(2, va) = TableIndex(2, c) /\ TableIndex(3, va) = TableIndex(3, c)
    BY <2>1
  <2>3. W0(m2, n, va) = W0(m2, n, c)
    BY <2>2 DEF W0
  <2>4. W1(m2, n, va) = W1(m2, n, c)
    BY <2>2, <2>3 DEF W1, Link
  <2>5. W2(m2, n, va) = W2(m2, n, c)
    BY <2>2, <2>4 DEF W2, Link
  <2>6. W3(m2, n, va) = W3(m2, n, c)
    BY <2>2, <2>5 DEF W3, Link
  <2> QED BY <2>6 DEF Walked
<1>6. ASSUME PhysicalAddress(va) # PhysicalAddress(c)
      PROVE  Walked(m2, n, 3, va) = Walked(m, n, 3, va)
  <2>1. PICK e : e = Walked(m, n, 2, va)
    OBVIOUS
  <2>2. CASE e.address \in DOMAIN m
    <3>1. Reach(m, n, 3, e.address, va)
      BY <1>1, <1>2, <2>1, <2>2, StepLevels
    <3>2. OnPath(n, cur, lv, base, 3, e.address, va)
      BY <1>2, <3>1, WalkIs
    <3>3. ~(e.address = t /\ TableIndex(3, va) = TableIndex(3, c))
      <4>1. SUFFICES ASSUME e.address = t, TableIndex(3, va) = TableIndex(3, c)
                     PROVE  FALSE
        OBVIOUS
      <4>2. Base(3, va) = Base(3, c)
        BY <1>2, <3>2, <4>1 DEF OnPath
      <4>3. PhysicalAddress(va) = Base(3, va) + TableIndex(3, va) * Span(3)
        BY BaseOf
      <4>4. PhysicalAddress(c) = Base(3, c) + TableIndex(3, c) * Span(3)
        BY BaseOf
      <4> QED BY <1>6, <4>1, <4>2, <4>3, <4>4
    <3>4. TableIndex(3, va) \in Slot /\ e.address \in TablePage(n) /\ e.address < cur
      BY <1>2, <3>2, SlotOf DEF OnPath
    <3>5. m2[e.address][TableIndex(3, va)] = m[e.address][TableIndex(3, va)]
      BY <3>3, <3>4 DEF Enters
    <3> QED BY <1>1, <1>3, <2>1, <2>2, <3>5 DEF Link
  <2>3. CASE e.address \notin DOMAIN m
    BY <1>1, <1>3, <2>1, <2>3 DEF Link
  <2> QED BY <2>2, <2>3
<1> QED BY <1>4, <1>5, <1>6

\* A new, empty table behind an entry that was a fault: nothing translates
\* differently, and the walk that was at the fault gets to the new table.
LEMMA WalkWithTable ==
    ASSUME NEW n \in CodePages, NEW m, Typed(m, n), NEW cur \in TablePage(n), NEW lv, NEW base,
           Grown(m, n, cur, lv, base), NEW m2, Typed(m2, n), NEW t, NEW j, NEW k \in 0 .. 2,
           lv[t] = k, m[t][j] = Fault, m2[cur] = EmptyTable,
           Enters(m, m2, n, cur, t, j, Descriptor(cur, 0)), NEW va \in Nat
    PROVE  /\ Walked(m2, n, 3, va) = Walked(m, n, 3, va)
           /\ Reach(m, n, k, t, va) /\ TableIndex(k, va) = j => Reach(m2, n, k + 1, cur, va)
<1> DEFINE New == Descriptor(cur, 0)
           Was(l) == Walked(m2, n, l, va) = Walked(m, n, l, va)
           Ends(l) == Walked(m2, n, l, va) = Fault /\ Walked(m, n, l, va) = Fault
           Opens(l) == Walked(m2, n, l, va) = New /\ Walked(m, n, l, va) = Fault
           Follows(l) == Was(l) \/ (l = k /\ Opens(l))
<1>1. DOMAIN m2 = TablePage(n) /\ DOMAIN m = TablePage(n) /\ Fault.address \notin TablePage(n)
  BY FaultIs DEF Typed
<1>2. New # Fault /\ New.address = cur
  BY <1>1 DEF Descriptor, Fault
<1>3. \A l \in 0 .. 3 : Link(m2, New, l, va) = Fault /\ Link(m2, Fault, l, va) = Fault
                        /\ Link(m, Fault, l, va) = Fault
  <2>1. \A l \in 0 .. 3 : m2[cur][TableIndex(l, va)] = Fault
    BY SlotOf DEF EmptyTable, Slot
  <2> QED BY <1>1, <1>2, <2>1 DEF Link
<1>4. ASSUME NEW l \in 0 .. 3, NEW f, OnPath(n, cur, lv, base, l, f, va)
      PROVE  /\ f \in TablePage(n)
             /\ IF f = t /\ TableIndex(l, va) = j
                THEN m2[f][TableIndex(l, va)] = New /\ m[f][TableIndex(l, va)] = Fault /\ l = k
                ELSE m2[f][TableIndex(l, va)] = m[f][TableIndex(l, va)]
  <2>1. TableIndex(l, va) \in Slot /\ f \in TablePage(n) /\ f < cur /\ lv[f] = l
    BY <1>4, SlotOf DEF OnPath
  <2> QED BY <2>1 DEF Enters
<1>5. Follows(0)
  <2>1. OnPath(n, cur, lv, base, 0, PgDir(n), va)
    BY TablePages, BaseOf DEF OnPath, Grown
  <2>2. /\ Walked(m2, n, 0, va) = m2[PgDir(n)][TableIndex(0, va)]
        /\ Walked(m, n, 0, va) = m[PgDir(n)][TableIndex(0, va)]
    BY StepLevels
  <2> HIDE DEF New
  <2> QED BY <1>4, <2>1, <2>2, 0 \in 0 .. 3
<1>6. ASSUME NEW l \in 0 .. 2, Follows(l)
      PROVE  Follows(l + 1)
  <2>0. l + 1 \in 0 .. 3 /\ l \in 0 .. 3
    OBVIOUS
  <2>1. /\ Walked(m, n, l + 1, va) = Link(m, Walked(m, n, l, va), l + 1, va)
        /\ Walked(m2, n, l + 1, va) = Link(m2, Walked(m2, n, l, va), l + 1, va)
    BY StepLevels
  <2>2. CASE Opens(l)
    BY <1>3, <2>0, <2>1, <2>2
  <2>3. CASE Was(l)
    <3>1. PICK e : e = Walked(m, n, l, va)
      OBVIOUS
    <3>2. CASE e.address \in DOMAIN m
      <4>1. Reach(m, n, l + 1, e.address, va)
        BY <1>1, <3>1, <3>2, StepLevels
      <4>2. OnPath(n, cur, lv, base, l + 1, e.address, va)
        BY <2>0, <4>1, WalkIs
      <4>3. /\ Walked(m, n, l + 1, va) = m[e.address][TableIndex(l + 1, va)]
            /\ Walked(m2, n, l + 1, va) = m2[e.address][TableIndex(l + 1, va)]
        BY <1>1, <2>1, <2>3, <3>1, <3>2 DEF Link
      <4> HIDE DEF New
      <4> QED BY <1>4, <2>0, <4>2, <4>3
    <3>3. CASE e.address \notin DOMAIN m
      BY <1>1, <2>1, <2>3, <3>1, <3>3 DEF Link
    <3> QED BY <3>2, <3>3
  <2> QED BY <1>6, <2>2, <2>3
<1> HIDE DEF New, Follows
<1>7. 0 \in 0 .. 2 /\ 1 \in 0 .. 2 /\ 2 \in 0 .. 2 /\ 0 + 1 = 1 /\ 1 + 1 = 2 /\ 2 + 1 = 3
  OBVIOUS
<1>8. Follows(0) /\ Follows(1) /\ Follows(2) /\ Follows(3)
  BY <1>5, <1>6, <1>7
<1>9. Was(3)
  BY <1>8 DEF Follows
<1>10. ASSUME Reach(m, n, k, t, va), TableIndex(k, va) = j
       PROVE  Reach(m2, n, k + 1, cur, va)
  <2>0. k \in 0 .. 3
    OBVIOUS
  <2>1. Walked(m, n, k, va) = Fault
    BY <1>10, <2>0, WalkIs
  <2>2. Walked(m2, n, k, va) = New
    <3>1. CASE k = 0
      <4>1. Reach(m, n, 0, t, va) /\ TableIndex(0, va) = j
        BY <1>10, <3>1
      <4>2. t = PgDir(n)
        BY <4>1 DEF Reach
      <4>3. Walked(m2, n, 0, va) = m2[t][j]
        BY <4>1, <4>2 DEF Walked, W0
      <4> QED BY <3>1, <4>3 DEF Enters, New
    <3>2. CASE k # 0
      <4>1. PICK l \in 0 .. 2 : k = l + 1 /\ l \in 0 .. 3 /\ l < k
        <5>1. k = 0 + 1 \/ k = 1 + 1
          BY <3>2
        <5>2. 0 \in 0 .. 2 /\ 0 \in 0 .. 3 /\ 1 \in 0 .. 2 /\ 1 \in 0 .. 3
          OBVIOUS
        <5>3. (k = 0 + 1 => 0 < k) /\ (k = 1 + 1 => 1 < k)
          OBVIOUS
        <5> QED BY <5>1, <5>2, <5>3, Zenon
      <4>2. Walked(m2, n, l, va) = Walked(m, n, l, va)
        BY <4>1, WalkAbove
      <4>3. Walked(m, n, l, va).address = t
        BY <1>10, <4>1, StepLevels
      <4>4. Walked(m2, n, k, va) = Link(m2, Walked(m, n, l, va), k, va)
        BY <4>1, <4>2, StepLevels
      <4> QED BY <1>1, <1>10, <4>3, <4>4 DEF Link, Enters, New
    <3> QED BY <3>1, <3>2
  <2> QED BY <1>2, <2>2, StepLevels
<1> QED BY <1>9, <1>10

LEMMA UpTo ==
    ASSUME NEW n \in CodePages, NEW cur \in TablePage(n), NEW f \in TablePage(n)
    PROVE  /\ f < cur + PageSize <=> (f < cur \/ f = cur)
           /\ cur \in Nat /\ cur < cur + PageSize
<1>1. f \in Nat /\ Aligned(f) /\ cur \in Nat /\ Aligned(cur) /\ PageSize \in Nat \ {0}
  BY TablePages, Sizes
<1>2. cur < f => cur + PageSize <= f
  BY <1>1, AlignedApart
<1> QED BY <1>1, <1>2

LEMMA GrownWithTable ==
    ASSUME NEW n \in CodePages, NEW m, NEW cur \in TablePage(n), NEW lv, NEW base,
           Grown(m, n, cur, lv, base), NEW m2, NEW t, NEW j, NEW k \in 0 .. 2,
           lv[t] = k, m2[cur] = EmptyTable, Enters(m, m2, n, cur, t, j, Descriptor(cur, 0))
    PROVE  \E lv2, base2 : Grown(m2, n, cur + PageSize, lv2, base2)
<1>1. PICK s \in Nat : s = Span(k)
  BY Sizes
<1>2. PICK b : b = base[t] + j * s /\ b \in Int
  <2>1. j \in Nat /\ base[t] \in Int
    BY DEF Slot, Enters, Grown
  <2>2. j * s \in Int
    BY <2>1
  <2> QED BY <2>1, <2>2
<1>3. PICK lv2 : /\ lv2 \in [TablePage(n) -> 0 .. 3]
                 /\ \A f \in TablePage(n) : lv2[f] = IF f = cur THEN k + 1 ELSE lv[f]
  <2> DEFINE h == [f \in TablePage(n) |-> IF f = cur THEN k + 1 ELSE lv[f]]
  <2>1. h \in [TablePage(n) -> 0 .. 3]
    BY DEF Grown
  <2>2. \A f \in TablePage(n) : h[f] = IF f = cur THEN k + 1 ELSE lv[f]
    OBVIOUS
  <2> HIDE DEF h
  <2> QED BY <2>1, <2>2
<1>4. PICK base2 : /\ base2 \in [TablePage(n) -> Int]
                   /\ \A f \in TablePage(n) : base2[f] = IF f = cur THEN b ELSE base[f]
  <2> DEFINE h == [f \in TablePage(n) |-> IF f = cur THEN b ELSE base[f]]
  <2>1. h \in [TablePage(n) -> Int]
    BY <1>2 DEF Grown
  <2>2. \A f \in TablePage(n) : h[f] = IF f = cur THEN b ELSE base[f]
    OBVIOUS
  <2> HIDE DEF h
  <2> QED BY <2>1, <2>2
<1>5. PgDir(n) \in TablePage(n) /\ PgDir(n) < cur /\ PgDir(n) \in Nat
  BY TablePages DEF Grown
<1>6. cur \in Nat /\ cur < cur + PageSize /\ cur + PageSize \in Nat
  BY UpTo, Sizes
<1>7. lv2[PgDir(n)] = 0 /\ base2[PgDir(n)] = 0
  BY <1>3, <1>4, <1>5, <1>6 DEF Grown
<1>8. ASSUME NEW f \in TablePage(n), NEW i \in Slot, f < cur + PageSize, m2[f][i] # Fault
      PROVE  IF lv2[f] = 3
             THEN m2[f][i] = Home(base2[f] + i * Span(3))
             ELSE /\ m2[f][i].address \in TablePage(n) /\ m2[f][i].address < cur + PageSize
                  /\ lv2[m2[f][i].address] = lv2[f] + 1
                  /\ base2[m2[f][i].address] = base2[f] + i * Span(lv2[f])
  <2>1. f # cur
    BY <1>8 DEF EmptyTable, Slot
  <2>2. f < cur /\ f \in Nat
    BY <1>8, <2>1, UpTo, TablePages
  <2>3. lv2[f] = lv[f] /\ base2[f] = base[f]
    BY <1>3, <1>4, <2>1
  <2>4. CASE f = t /\ i = j
    <3>1. m2[f][i].address = cur
      BY <2>4 DEF Enters, Descriptor
    <3>2. lv2[cur] = k + 1 /\ base2[cur] = b /\ k # 3
      BY <1>3, <1>4
    <3> QED BY <1>1, <1>2, <1>6, <2>3, <2>4, <3>1, <3>2
  <2>5. CASE ~(f = t /\ i = j)
    <3>1. PICK e : e = m[f][i] /\ m2[f][i] = e /\ e # Fault
      BY <1>8, <2>2, <2>5 DEF Enters
    <3>2. IF lv[f] = 3
          THEN e = Home(base[f] + i * Span(3))
          ELSE /\ e.address \in TablePage(n) /\ e.address < cur
               /\ lv[e.address] = lv[f] + 1
               /\ base[e.address] = base[f] + i * Span(lv[f])
      BY <2>2, <3>1 DEF Grown
    <3>3. CASE lv[f] = 3
      BY <2>3, <3>1, <3>2, <3>3
    <3>4. CASE lv[f] # 3
      <4>1. PICK a \in TablePage(n) : a = e.address /\ a < cur /\ a \in Nat
        BY <3>2, <3>4, TablePages
      <4>2. a < cur + PageSize /\ a # cur
        BY <1>6, <4>1, Sizes
      <4>3. lv2[a] = lv[a] /\ base2[a] = base[a]
        BY <1>3, <1>4, <4>2
      <4> QED BY <2>3, <3>1, <3>2, <3>4, <4>1, <4>2, <4>3
    <3> QED BY <3>3, <3>4
  <2> QED BY <2>4, <2>5
<1>9. PgDir(n) < cur + PageSize
  BY <1>5, <1>6
<1>10. Grown(m2, n, cur + PageSize, lv2, base2)
  BY <1>3, <1>4, <1>7, <1>8, <1>9 DEF Grown
<1> QED BY <1>10

LEMMA GrownWithPage ==
    ASSUME NEW n \in CodePages, NEW m, NEW cur, NEW lv, NEW base,
           Grown(m, n, cur, lv, base), NEW m2, NEW t, NEW c \in Nat, Aligned(c),
           OnPath(n, cur, lv, base, 3, t, c),
           Enters(m, m2, n, cur, t, TableIndex(3, c), Home(c))
    PROVE  Grown(m2, n, cur, lv, base)
<1>1. PICK j \in Slot : j = TableIndex(3, c)
  BY SlotOf, 3 \in 0 .. 3
<1>2. Home(c) = Home(base[t] + j * Span(3)) /\ lv[t] = 3
  <2>1. PhysicalAddress(c) = Base(3, c) + j * Span(3)
    BY <1>1, BaseOf
  <2>2. Home(PhysicalAddress(c)) = Home(c)
    BY HomeOf
  <2> QED BY <2>1, <2>2 DEF OnPath
<1>3. ASSUME NEW f \in TablePage(n), NEW i \in Slot, f < cur, m2[f][i] # Fault
      PROVE  IF lv[f] = 3
             THEN m2[f][i] = Home(base[f] + i * Span(3))
             ELSE /\ m2[f][i].address \in TablePage(n) /\ m2[f][i].address < cur
                  /\ lv[m2[f][i].address] = lv[f] + 1
                  /\ base[m2[f][i].address] = base[f] + i * Span(lv[f])
  <2>1. CASE f = t /\ i = j
    BY <1>1, <1>2, <2>1 DEF Enters
  <2>2. CASE ~(f = t /\ i = j)
    <3>1. m2[f][i] = m[f][i]
      BY <1>1, <1>3, <2>2 DEF Enters
    <3> QED BY <1>3, <3>1 DEF Grown
  <2> QED BY <2>1, <2>2
<1> QED BY <1>3 DEF Grown

LEMMA FaultTyped == Fault \in DescriptorType /\ EmptyTable \in [Slot -> DescriptorType]
<1>1. KernelVirtualAddressOffset \in Nat \ {0}
  BY Sizes, 0 \in 0 .. 3
<1>2. Fault \in DescriptorType
  BY <1>1 DEF Fault, DescriptorType
<1> QED BY <1>2 DEF EmptyTable, Slot

WithTable(m, cur, t, j) == [m EXCEPT ![cur] = EmptyTable, ![t][j] = Descriptor(cur, 0)]

WithEntry(m, t, j, entry) == [m EXCEPT ![t][j] = entry]

LEMMA EnterTable ==
    ASSUME NEW n \in CodePages, NEW m, Typed(m, n), NEW cur \in TablePage(n),
           NEW t \in TablePage(n), t < cur, NEW j \in Slot, NEW m2,
           m2 = WithTable(m, cur, t, j),
           cur < KernelVirtualAddressOffset
    PROVE  /\ Typed(m2, n) /\ m2[cur] = EmptyTable
           /\ Enters(m, m2, n, cur, t, j, Descriptor(cur, 0))
<1>1. cur \in Nat /\ t # cur
  <2>1. cur \in Nat /\ t \in Nat
    BY TablePages
  <2> QED BY <2>1
<1>2. Descriptor(cur, 0) \in DescriptorType
  BY <1>1, OffsetAligned DEF Descriptor, DescriptorType
<1>3. /\ m2 = [f \in TablePage(n) |->
                IF f = t THEN [m[t] EXCEPT ![j] = Descriptor(cur, 0)]
                ELSE IF f = cur THEN EmptyTable ELSE m[f]]
  BY <1>1 DEF Typed, WithTable
<1>4. \A f \in TablePage(n) : m[f] \in [Slot -> DescriptorType]
  BY DEF Typed
<1>5. [m[t] EXCEPT ![j] = Descriptor(cur, 0)] \in [Slot -> DescriptorType]
  BY <1>2, <1>4
<1>6. Typed(m2, n)
  BY <1>3, <1>4, <1>5, FaultTyped DEF Typed
<1>7. m2[cur] = EmptyTable
  BY <1>1, <1>3
<1>8. m2[t][j] = Descriptor(cur, 0)
  BY <1>3, <1>4
<1>9. ASSUME NEW f \in TablePage(n), NEW i \in Slot, f < cur, ~(f = t /\ i = j)
      PROVE  m2[f][i] = m[f][i]
  <2>1. f # cur
    BY <1>9, TablePages
  <2> QED BY <1>3, <1>4, <1>9, <2>1
<1> QED BY <1>6, <1>7, <1>8, <1>9 DEF Enters

LEMMA EnterPage ==
    ASSUME NEW n \in CodePages, NEW m, Typed(m, n), NEW cur,
           NEW t \in TablePage(n), t < cur, NEW j \in Slot, NEW entry \in DescriptorType, NEW m2,
           m2 = WithEntry(m, t, j, entry)
    PROVE  Typed(m2, n) /\ Enters(m, m2, n, cur, t, j, entry)
<1>1. \A f \in TablePage(n) : m[f] \in [Slot -> DescriptorType]
  BY DEF Typed
<1>2. m2 = [f \in TablePage(n) |-> IF f = t THEN [m[t] EXCEPT ![j] = entry] ELSE m[f]]
  BY DEF Typed, WithEntry
<1>3. Typed(m2, n)
  BY <1>1, <1>2 DEF Typed
<1> QED BY <1>1, <1>2, <1>3 DEF Enters

-----------------------------------------------------------------------------
(***************************************************************************)
(* The inductive invariant of Spec.                                        *)
(***************************************************************************)
RangeSet == [begin : Nat, end : Nat, pa : Nat, mair : {DeviceMAIRIndex, NormalMAIRIndex}]

InRange(n, k, va) == va \in MemoryRanges(n)[k].begin .. MemoryRanges(n)[k].end

\* rs is what is left of the ranges.
Left(n, rs) ==
    /\ rs \in Seq(RangeSet) /\ Len(rs) <= 5
    /\ \A i \in 1 .. Len(rs) : rs[i] = MemoryRanges(n)[5 - Len(rs) + i]

\* The loop over the pages of a range is at c, which goes to address pa.
Entering(rs, c, pa) ==
    /\ Len(rs) > 0
    /\ c \in Head(rs).begin .. Head(rs).end /\ Aligned(c)
    /\ pa = Head(rs).pa + (c - Head(rs).begin)

\* With len ranges left the ones before are mapped, and the next one up to c.
Entered(m, n, len, c) ==
    \A k \in 1 .. 5 : \A va \in Nat :
        Aligned(va) /\ InRange(n, k, va) /\ (k + len <= 5 \/ (k + len = 6 /\ va < c)) =>
          Walked(m, n, 3, va) # Fault

Control ==
    /\ Aligned(Current)
    /\ step = "root" => Current = PgDir(code) /\ level = 0 /\ table = PgDir(code)
    /\ mmu <=> step \in {"jump", "stack", "kmain"}
    /\ mmu => MAIR[NormalMAIRIndex] = "normal"
    /\ pc = IF step \in {"stack", "kmain"} THEN ToVA(Start) ELSE Start
    /\ sp = IF step = "kmain" THEN ToVA(Start) ELSE Start

Ranges ==
    /\ Left(code, ranges)
    /\ step \in {"root", "insert"} => Entering(ranges, curVA, curPA)
    /\ step = "root" => Len(ranges) = 5 /\ curVA = MemoryRanges(code)[1].begin
    /\ step \in {"enable", "jump", "stack", "kmain"} => Len(ranges) = 0

TreeOK == step # "root" => \E lv, base : Grown(memory, code, Current, lv, base)

Walking == step = "insert" => Reach(memory, code, level, table, curVA)

Complete == Entered(memory, code, Len(ranges), curVA)

IInv == TypeOK /\ Control /\ Ranges /\ TreeOK /\ Walking /\ Complete

LEMMA RangesTyped ==
    ASSUME NEW n \in CodePages
    PROVE  /\ MemoryRanges(n) \in Seq(RangeSet) /\ Len(MemoryRanges(n)) = 5
           /\ \A k \in 1 .. 5 : MemoryRanges(n)[k] \in RangeSet /\ RangeOK(MemoryRanges(n)[k])
<1>1. \A k \in 1 .. 5 : RangeOK(MemoryRanges(n)[k])
  BY RangesOK
<1>2. ASSUME NEW k \in 1 .. 5
      PROVE  MemoryRanges(n)[k] \in RangeSet
  <2>1. PICK b, e, p, i : MemoryRanges(n)[k] = MemoryRange(b, e, p, i) /\ i \in {DeviceMAIRIndex, NormalMAIRIndex}
    <3>1. k = 1 \/ k = 2 \/ k = 3 \/ k = 4 \/ k = 5
      OBVIOUS
    <3> QED BY <3>1 DEF MemoryRanges
  <2>2. b \in Nat /\ e \in Nat /\ p \in Nat
    BY <1>1, <2>1 DEF RangeOK, MemoryRange
  <2> QED BY <2>1, <2>2 DEF MemoryRange, RangeSet
<1>3. MemoryRanges(n) = << MemoryRanges(n)[1], MemoryRanges(n)[2], MemoryRanges(n)[3],
                           MemoryRanges(n)[4], MemoryRanges(n)[5] >>
  BY DEF MemoryRanges
<1>4. 1 \in 1 .. 5 /\ 2 \in 1 .. 5 /\ 3 \in 1 .. 5 /\ 4 \in 1 .. 5 /\ 5 \in 1 .. 5
  OBVIOUS
<1>5. PICK a \in RangeSet, b \in RangeSet, c \in RangeSet, d \in RangeSet, e \in RangeSet :
        MemoryRanges(n) = << a, b, c, d, e >>
  BY <1>2, <1>3, <1>4, Zenon
<1>6. MemoryRanges(n) \in Seq(RangeSet) /\ Len(MemoryRanges(n)) = 5
  BY <1>5
<1> QED BY <1>1, <1>2, <1>6

\* The range at hand is one of the five.
LEMMA HeadLeft ==
    ASSUME NEW n \in CodePages, NEW rs, Left(n, rs), Len(rs) > 0
    PROVE  /\ Len(rs) \in 1 .. 5 /\ Head(rs) = MemoryRanges(n)[6 - Len(rs)]
           /\ Head(rs) \in RangeSet /\ RangeOK(Head(rs))
           /\ Left(n, Tail(rs)) /\ Len(Tail(rs)) = Len(rs) - 1
           /\ Tail(rs) = << >> <=> Len(Tail(rs)) = 0
<1>0. rs \in Seq(RangeSet) /\ Len(rs) \in Nat /\ Len(rs) <= 5
  <2>1. rs \in Seq(RangeSet) /\ Len(rs) <= 5
    BY DEF Left
  <2> QED BY <2>1, Seqs!LenProperties
<1>1. PICK len \in 1 .. 5 : len = Len(rs)
  <2>1. PICK l \in Nat : l = Len(rs)
    BY <1>0
  <2>2. l <= 5 /\ l > 0
    BY <1>0, <2>1
  <2>3. l \in 1 .. 5
    BY <2>2
  <2> QED BY <2>1, <2>3
<1>2. rs # << >> /\ Head(rs) = rs[1]
  <2>1. rs # << >>
    BY <1>0, <1>1, Seqs!EmptySeq
  <2> QED BY <1>0, <2>1
<1>3. rs[1] = MemoryRanges(n)[6 - len] /\ 6 - len \in 1 .. 5
  <2>1. 1 \in 1 .. len /\ 5 - len + 1 = 6 - len /\ 6 - len \in 1 .. 5
    OBVIOUS
  <2> QED BY <1>1, <2>1 DEF Left
<1>4. /\ Tail(rs) \in Seq(RangeSet) /\ Len(Tail(rs)) = len - 1
      /\ \A i \in 1 .. len - 1 : Tail(rs)[i] = rs[i + 1]
  BY <1>0, <1>1, <1>2, Seqs!HeadTailProperties
<1>5. Left(n, Tail(rs))
  <2>1. ASSUME NEW i \in 1 .. len - 1
        PROVE  Tail(rs)[i] = MemoryRanges(n)[5 - (len - 1) + i]
    <3>1. i + 1 \in 1 .. len /\ 5 - len + (i + 1) = 5 - (len - 1) + i
      OBVIOUS
    <3>2. rs[i + 1] = MemoryRanges(n)[5 - len + (i + 1)]
      BY <1>1, <3>1 DEF Left
    <3> QED BY <1>4, <3>1, <3>2
  <2>2. len - 1 <= 5
    OBVIOUS
  <2> QED BY <1>4, <2>1, <2>2 DEF Left
<1>6. Tail(rs) = << >> <=> Len(Tail(rs)) = 0
  BY <1>4, Seqs!EmptySeq
<1>7. Head(rs) \in RangeSet /\ RangeOK(Head(rs))
  BY <1>2, <1>3, RangesTyped
<1> QED BY <1>1, <1>2, <1>3, <1>4, <1>5, <1>6, <1>7

\* What is entered is a page at its home.
LEMMA EntersHome ==
    ASSUME NEW n \in CodePages, NEW rs, Left(n, rs), NEW c, NEW pa, Entering(rs, c, pa)
    PROVE  /\ c \in Nat /\ Aligned(c) /\ c < 2 * KernelVirtualAddressOffset
           /\ pa = PhysicalAddress(c) /\ pa \in 0 .. KernelVirtualAddressOffset - 1
           /\ Descriptor(pa, Head(rs).mair) = Home(c)
           /\ Home(c) \in DescriptorType /\ Home(c) # Fault
<1>1. PICK r : r = Head(rs) /\ r \in RangeSet /\ RangeOK(r)
  BY HeadLeft DEF Entering
<1>2. c \in r.begin .. r.end /\ Aligned(c) /\ pa = r.pa + (c - r.begin)
      /\ r.begin \in Nat /\ r.end \in Nat /\ r.end < 2 * KernelVirtualAddressOffset
  BY <1>1 DEF Entering, RangeOK
<1>3. c \in Nat /\ c < 2 * KernelVirtualAddressOffset
  BY <1>2, OffsetAligned
<1>4. /\ PhysicalAddress(c) = pa
      /\ r.mair = IF IsDevice(PhysicalAddress(c)) THEN DeviceMAIRIndex ELSE NormalMAIRIndex
  BY <1>1, <1>2 DEF RangeOK
<1>5. pa \in 0 .. KernelVirtualAddressOffset - 1
  BY <1>3, <1>4, BaseOf
<1>6. Descriptor(pa, r.mair) = Home(c)
  BY <1>4 DEF Home
<1>7. Descriptor(pa, r.mair) \in DescriptorType /\ Descriptor(pa, r.mair) # Fault
  <2>1. r.mair \in {0, 1}
    BY <1>4 DEF DeviceMAIRIndex, NormalMAIRIndex
  <2>2. pa # -1 /\ pa \in -1 .. KernelVirtualAddressOffset - 1
    BY <1>5, OffsetAligned
  <2> QED BY <2>1, <2>2 DEF Descriptor, DescriptorType, Fault
<1> QED BY <1>1, <1>2, <1>3, <1>4, <1>5, <1>6, <1>7

LEMMA NothingEntered ==
    ASSUME NEW n \in CodePages, NEW m
    PROVE  Entered(m, n, 5, MemoryRanges(n)[1].begin)
<1>1. PICK b \in Nat : b = MemoryRanges(n)[1].begin
  BY RangesTyped, 1 \in 1 .. 5 DEF RangeSet
<1>2. ASSUME NEW k \in 1 .. 5, NEW va \in Nat, InRange(n, k, va),
             k + 5 <= 5 \/ (k + 5 = 6 /\ va < b)
      PROVE  FALSE
  <2>1. k = 1 /\ va < b
    BY <1>2
  <2>2. va \in b .. MemoryRanges(n)[1].end
    BY <1>1, <1>2, <2>1 DEF InRange
  <2>3. MemoryRanges(n)[1].end \in Nat
    BY RangesTyped, 1 \in 1 .. 5 DEF RangeSet
  <2> QED BY <2>1, <2>2, <2>3
<1> QED BY <1>1, <1>2 DEF Entered

THEOREM BootPageTablesInit == Init => IInv
<1> SUFFICES ASSUME Init PROVE IInv
  OBVIOUS
<1> USE DEF Init
<1>1. code \in CodePages /\ ranges = MemoryRanges(code) /\ step = "root"
  OBVIOUS
<1>2. /\ PgDir(code) \in Nat /\ Aligned(PgDir(code)) /\ Start \in Nat
      /\ KernelImageEnd(code) \in Nat /\ PgDir(code) + PageSize <= KernelImageEnd(code)
      /\ PageSize \in Nat
  BY <1>1, ImageLayout, Sizes
<1>3. Left(code, ranges)
  <2>1. ranges \in Seq(RangeSet) /\ Len(ranges) = 5
    BY <1>1, RangesTyped
  <2>2. 5 <= 5 /\ \A i \in 1 .. 5 : 5 - 5 + i = i
    OBVIOUS
  <2> QED BY <1>1, <2>1, <2>2 DEF Left
<1>4. Entering(ranges, curVA, curPA)
  <2>1. PICK r : r = Head(ranges) /\ RangeOK(r) /\ Len(ranges) = 5
    BY <1>1, <1>3, HeadLeft, RangesTyped
  <2>2. r.begin \in r.begin .. r.end /\ r.pa = r.pa + (r.begin - r.begin)
    BY <2>1, Sizes DEF RangeOK
  <2> QED BY <2>1, <2>2 DEF Entering, RangeOK
<1>5. UsedTable(code) \in [Slot -> DescriptorType]
  <2>1. PgDir(code) < KernelVirtualAddressOffset
    BY <1>1, <1>2, MemoryLayout
  <2>2. [address |-> PgDir(code), attrIndx |-> DeviceMAIRIndex] \in DescriptorType
    BY <1>2, <2>1, OffsetAligned DEF DescriptorType, DeviceMAIRIndex
  <2> QED BY <2>2 DEF UsedTable, Slot
<1>6. TypeOK
  <2>1. curVA \in 0 .. 2 * KernelVirtualAddressOffset /\ curPA \in 0 .. KernelVirtualAddressOffset
    BY <1>1, <1>3, <1>4, EntersHome, OffsetAligned
  <2>2. memory \in [TablePage(code) -> [0 .. PointersPerTable - 1 -> DescriptorType]]
    BY <1>5 DEF Slot
  <2>3. table \in TablePage(code) /\ Current \in PgDir(code) .. KernelImageEnd(code)
    BY <1>1, <1>2, TablePages
  <2>4. MAIR \in [{DeviceMAIRIndex, NormalMAIRIndex} -> {"none", "device", "normal"}]
    OBVIOUS
  <2>5. level \in 0 .. 3 /\ pc \in Nat /\ sp \in Nat
    BY <1>2
  <2>6. mmu \in BOOLEAN
    BY Zenon
  <2> QED BY <1>1, <2>1, <2>2, <2>3, <2>4, <2>5, <2>6 DEF TypeOK
<1>7. Control
  <2>1. step \notin {"jump", "stack", "kmain"}
    OBVIOUS
  <2>2. ~mmu
    OBVIOUS
  <2> QED BY <1>2, <2>1, <2>2 DEF Control
<1>8. Len(ranges) = 5 /\ curVA = MemoryRanges(code)[1].begin
  BY <1>1, <1>3, <1>4, HeadLeft, RangesTyped
<1>9. Complete
  BY <1>1, <1>8, NothingEntered DEF Complete
<1> QED BY <1>1, <1>3, <1>4, <1>6, <1>7, <1>8, <1>9 DEF IInv, Ranges, TreeOK, Walking

\* What every step needs to know of the state.
LEMMA State ==
    ASSUME IInv
    PROVE  /\ code \in CodePages /\ Typed(memory, code) /\ table \in TablePage(code)
           /\ level \in 0 .. 3 /\ Current \in Nat /\ Aligned(Current)
           /\ PgDir(code) <= Current /\ Current <= KernelImageEnd(code)
           /\ KernelImageEnd(code) \in Nat /\ KernelImageEnd(code) < KernelVirtualAddressOffset
           /\ curVA \in 0 .. 2 * KernelVirtualAddressOffset
           /\ curPA \in 0 .. KernelVirtualAddressOffset
           /\ pc \in Nat /\ sp \in Nat /\ mmu \in BOOLEAN
<1>1. TypeOK /\ Control
  BY DEF IInv
<1>2. code \in CodePages
  BY <1>1 DEF TypeOK
<1>3. PgDir(code) \in Nat /\ KernelImageEnd(code) \in Nat
  BY <1>2, ImageLayout
<1>4. KernelImageEnd(code) < KernelVirtualAddressOffset
  BY <1>2, <1>3, MemoryLayout, Sizes
<1>5. Current \in PgDir(code) .. KernelImageEnd(code)
  BY <1>1 DEF TypeOK
<1>6. Aligned(Current)
  BY <1>1 DEF Control
<1>7. Typed(memory, code)
  BY <1>1 DEF TypeOK, Typed, Slot
<1>8. level \in 0 .. 3 /\ curVA \in 0 .. 2 * KernelVirtualAddressOffset
      /\ curPA \in 0 .. KernelVirtualAddressOffset /\ table \in TablePage(code)
      /\ pc \in Nat /\ sp \in Nat /\ mmu \in BOOLEAN
  BY <1>1 DEF TypeOK
<1> QED BY <1>2, <1>3, <1>4, <1>5, <1>6, <1>7, <1>8

LEMMA PageOfCurrent ==
    ASSUME IInv, HasPage
    PROVE  /\ Current \in TablePage(code) /\ Current < KernelVirtualAddressOffset
           /\ Current + PageSize \in PgDir(code) .. KernelImageEnd(code)
           /\ Aligned(Current + PageSize)
<1>1. PICK n \in CodePages, cur \in Nat : n = code /\ cur = Current
  BY State
<1>2. /\ Aligned(cur) /\ PgDir(n) <= cur /\ cur < KernelImageEnd(n)
      /\ KernelImageEnd(n) < KernelVirtualAddressOffset /\ KernelVirtualAddressOffset \in Nat
  BY <1>1, State, OffsetAligned DEF HasPage
<1>3. cur \in TablePage(n)
  BY <1>2, TablePages
<1>4. PgDir(n) \in Nat /\ KernelImageEnd(n) \in Nat /\ cur + PageSize <= KernelImageEnd(n)
  BY <1>3, ImageLayout, TablePages
<1>5. cur + PageSize \in Nat /\ Aligned(cur + PageSize) /\ PageSize \in Nat
  BY <1>2, AlignedNext, Sizes
<1> QED BY <1>1, <1>2, <1>3, <1>4, <1>5

LEMMA RootStep == IInv /\ AllocateRoot => IInv'
<1> SUFFICES ASSUME IInv, AllocateRoot PROVE IInv'
  OBVIOUS
<1> USE DEF AllocateRoot
<1>1. TypeOK /\ Control /\ Ranges
  BY DEF IInv
<1>2. Current = PgDir(code) /\ level = 0 /\ step = "root"
  BY <1>1 DEF Control
<1>3. HasPage
  <2>1. PgDir(code) \in Nat /\ PgDir(code) + PageSize <= KernelImageEnd(code)
        /\ KernelImageEnd(code) \in Nat /\ PageSize \in Nat \ {0}
    BY State, ImageLayout, Sizes
  <2> QED BY <1>2, <2>1 DEF HasPage
<1>4. PICK n, m, m2 :
        /\ n \in CodePages /\ n = code /\ m = memory /\ m2 = memory' /\ Typed(m, n)
        /\ m2 = [m EXCEPT ![PgDir(n)] = EmptyTable] /\ code' = n
        /\ PgDir(n) \in TablePage(n)
  BY <1>2, <1>3, State, TablePages DEF Cleared
<1>5. Typed(m2, n) /\ m2[PgDir(n)] = EmptyTable
  BY <1>4, FaultTyped DEF Typed
<1>6. step' = "insert" /\ table' = PgDir(n) /\ Current' = PgDir(n) + PageSize
  BY <1>2, <1>3, <1>4
<1>7. TypeOK'
  <2>1. Current' \in PgDir(n) .. KernelImageEnd(n)
    BY <1>2, <1>3, <1>4, PageOfCurrent
  <2>2. memory' \in [TablePage(code) -> [0 .. PointersPerTable - 1 -> DescriptorType]]'
    BY <1>4, <1>5 DEF Typed, Slot
  <2> QED BY <1>1, <1>4, <1>6, <2>1, <2>2 DEF TypeOK
<1>8. Control'
  <2>1. Aligned(PgDir(n) + PageSize)
    BY <1>2, <1>3, <1>4, PageOfCurrent
  <2> QED BY <1>1, <1>2, <1>6, <2>1 DEF Control
<1>9. Ranges'
  BY <1>1, <1>2, <1>4, <1>6 DEF Ranges
<1>10. TreeOK'
  <2>1. PICK lv : lv = [f \in TablePage(n) |-> 0]
    OBVIOUS
  <2>2. /\ lv \in [TablePage(n) -> 0 .. 3] /\ lv \in [TablePage(n) -> Int]
        /\ lv[PgDir(n)] = 0
    BY <1>4, <2>1
  <2>3. ASSUME NEW f \in TablePage(n), NEW i \in Slot, f < PgDir(n) + PageSize
        PROVE  m2[f][i] = Fault
    <3>1. f = PgDir(n)
      <4>0. n \in CodePages
        BY <1>4
      <4>1. f \in Nat /\ PgDir(n) \in Nat /\ PgDir(n) <= f
        BY <4>0, TablePages, ImageLayout
      <4>2. f < PgDir(n) \/ f = PgDir(n)
        BY <1>4, <2>3, UpTo
      <4> QED BY <4>1, <4>2
    <3> QED BY <1>5, <3>1 DEF EmptyTable, Slot
  <2>4. PgDir(n) < PgDir(n) + PageSize
    BY <1>4, UpTo
  <2>5. Grown(m2, n, PgDir(n) + PageSize, lv, lv)
    BY <2>2, <2>3, <2>4 DEF Grown
  <2> QED BY <1>4, <1>6, <2>5 DEF TreeOK
<1>11. Walking'
  BY <1>2, <1>4, <1>6, StepLevels DEF Walking
<1>12. Complete'
  <2>1. Len(ranges) = 5 /\ curVA = MemoryRanges(n)[1].begin
    BY <1>1, <1>2, <1>4 DEF Ranges
  <2> QED BY <1>4, <2>1, NothingEntered DEF Complete
<1> QED BY <1>7, <1>8, <1>9, <1>10, <1>11, <1>12 DEF IInv

\* What the steps that do not touch the tables leave alone.
LEMMA LaterStep == IInv /\ (EnableMMU \/ JumpToKernelVA \/ AdjustStack) => IInv'
<1> SUFFICES ASSUME IInv, EnableMMU \/ JumpToKernelVA \/ AdjustStack PROVE IInv'
  OBVIOUS
<1>1. /\ step \in {"enable", "jump", "stack"} /\ step' \in {"jump", "stack", "kmain"}
      /\ UNCHANGED << code, ranges, curVA, curPA, level, table, Current, memory >>
  BY DEF EnableMMU, JumpToKernelVA, AdjustStack
<1>2. TypeOK /\ Control /\ Ranges /\ TreeOK /\ Complete
  BY DEF IInv
<1>3. Start \in Nat /\ ToVA(Start) \in Nat
  BY State, ImageLayout, OffsetAligned DEF ToVA
<1>4. /\ pc' = IF step' \in {"stack", "kmain"} THEN ToVA(Start) ELSE Start
      /\ sp' = IF step' = "kmain" THEN ToVA(Start) ELSE Start
  BY <1>2 DEF EnableMMU, JumpToKernelVA, AdjustStack, Control
<1>5. /\ mmu' = TRUE /\ MAIR'[NormalMAIRIndex] = "normal"
      /\ MAIR' \in [{DeviceMAIRIndex, NormalMAIRIndex} -> {"none", "device", "normal"}]
  BY <1>2 DEF EnableMMU, JumpToKernelVA, AdjustStack, Control, TypeOK
<1>6. TypeOK'
  <2>1. mmu' \in BOOLEAN
    BY <1>5, Zenon
  <2>2. pc' \in Nat /\ sp' \in Nat
    BY <1>3, <1>4
  <2> QED BY <1>1, <1>2, <1>5, <2>1, <2>2 DEF TypeOK
<1>7. Control'
  <2>1. mmu'
    BY <1>5
  <2> QED BY <1>1, <1>2, <1>4, <1>5, <2>1 DEF Control
<1>8. Ranges'
  BY <1>1, <1>2 DEF Ranges
<1>9. TreeOK'
  BY <1>1, <1>2 DEF TreeOK
<1>10. Walking'
  BY <1>1 DEF Walking
<1>11. Complete'
  BY <1>1, <1>2 DEF Complete
<1> QED BY <1>6, <1>7, <1>8, <1>9, <1>10, <1>11 DEF IInv

\* The walk for the page to enter is at the table at hand.
LEMMA AtTable ==
    ASSUME IInv, step = "insert"
    PROVE  /\ curVA \in Nat /\ Aligned(curVA) /\ curPA = PhysicalAddress(curVA)
           /\ Descriptor(curPA, Head(ranges).mair) = Home(curVA)
           /\ Home(curVA) \in DescriptorType /\ Home(curVA) # Fault
           /\ TableIndex(level, curVA) \in Slot
           /\ Reach(memory, code, level, table, curVA)
           /\ Walked(memory, code, level, curVA) = EntryForVA
           /\ \E lv, base :
                /\ Grown(memory, code, Current, lv, base)
                /\ OnPath(code, Current, lv, base, level, table, curVA)
<1>1. code \in CodePages /\ Typed(memory, code) /\ level \in 0 .. 3
  BY State
<1>2. Left(code, ranges) /\ Entering(ranges, curVA, curPA)
  BY DEF IInv, Ranges
<1>3. /\ curVA \in Nat /\ Aligned(curVA) /\ curPA = PhysicalAddress(curVA)
      /\ Descriptor(curPA, Head(ranges).mair) = Home(curVA)
      /\ Home(curVA) \in DescriptorType /\ Home(curVA) # Fault
  BY <1>1, <1>2, EntersHome
<1>4. Reach(memory, code, level, table, curVA)
  BY DEF IInv, Walking
<1>5. PICK lv, base : Grown(memory, code, Current, lv, base)
  BY DEF IInv, TreeOK
<1>6. /\ OnPath(code, Current, lv, base, level, table, curVA)
      /\ Walked(memory, code, level, curVA) = EntryForVA
  BY <1>1, <1>3, <1>4, <1>5, WalkIs DEF EntryForVA
<1>7. TableIndex(level, curVA) \in Slot
  BY <1>1, <1>3, SlotOf
<1> QED BY <1>3, <1>4, <1>5, <1>6, <1>7

LEMMA FollowStep == IInv /\ FollowTable => IInv'
<1> SUFFICES ASSUME IInv, FollowTable PROVE IInv'
  OBVIOUS
<1>1. /\ step = "insert" /\ level < 3 /\ EntryForVA # Fault
      /\ table' = EntryForVA.address /\ level' = level + 1
      /\ UNCHANGED << code, ranges, curVA, curPA, Current, memory, step, mmu, MAIR, pc, sp >>
  BY DEF FollowTable, Missing
<1>2. TypeOK /\ Control /\ Ranges /\ TreeOK /\ Complete
  BY DEF IInv
<1>3. /\ code \in CodePages /\ Typed(memory, code) /\ level \in 0 .. 2 /\ level + 1 \in 0 .. 3
      /\ curVA \in Nat
  BY <1>1, State
<1>4. Reach(memory, code, level + 1, table', curVA)
  BY <1>1, <1>3, AtTable, StepLevels
<1>5. table' \in TablePage(code)
  <2>1. PICK lv, base : Grown(memory, code, Current, lv, base)
    BY <1>1, <1>2 DEF TreeOK
  <2>2. OnPath(code, Current, lv, base, level + 1, table', curVA)
    BY <1>3, <1>4, <2>1, WalkIs
  <2> QED BY <2>2 DEF OnPath
<1>6. TypeOK'
  BY <1>1, <1>2, <1>3, <1>5 DEF TypeOK
<1>7. Control'
  BY <1>1, <1>2 DEF Control
<1>8. Ranges'
  BY <1>1, <1>2 DEF Ranges
<1>9. TreeOK'
  BY <1>1, <1>2 DEF TreeOK
<1>10. Walking'
  BY <1>1, <1>4 DEF Walking
<1>11. Complete'
  BY <1>1, <1>2 DEF Complete
<1> QED BY <1>6, <1>7, <1>8, <1>9, <1>10, <1>11 DEF IInv

\* A table that is put in does not change what anything translates to.
LEMMA TableInserted ==
    ASSUME IInv, InsertTable, HasPage
    PROVE  /\ Typed(memory', code)
           /\ \E lv, base : Grown(memory', code, Current + PageSize, lv, base)
           /\ Reach(memory', code, level + 1, Current, curVA)
           /\ \A va \in Nat : Walked(memory', code, 3, va) = Walked(memory, code, 3, va)
<1>1. PICK n, m, m2, cur, t, k, va :
        /\ n \in CodePages /\ cur \in TablePage(n) /\ t \in TablePage(n) /\ k \in 0 .. 2
        /\ va \in Nat /\ n = code /\ m = memory /\ m2 = memory' /\ cur = Current /\ t = table /\ k = level
        /\ va = curVA /\ Typed(m, n) /\ cur < KernelVirtualAddressOffset
  <2>1. level \in 0 .. 2
    BY State DEF InsertTable
  <2>2. step = "insert"
    BY DEF InsertTable
  <2>3. curVA \in Nat
    BY <2>2, AtTable
  <2>4. code \in CodePages /\ table \in TablePage(code) /\ Typed(memory, code)
    BY State
  <2>5. Current \in TablePage(code) /\ Current < KernelVirtualAddressOffset
    BY PageOfCurrent
  <2> QED BY <2>1, <2>3, <2>4, <2>5, Zenon
<1>2. PICK j \in Slot : j = TableIndex(k, va)
  BY <1>1, SlotOf, k \in 0 .. 3
<1>3. m2 = WithTable(m, cur, t, j) /\ m[t][j] = Fault
  BY <1>1, <1>2 DEF InsertTable, Cleared, Missing, EntryForVA, WithTable
<1>4. PICK lv, base : Grown(m, n, cur, lv, base) /\ OnPath(n, cur, lv, base, k, t, va)
  <2>1. step = "insert"
    BY DEF InsertTable
  <2> QED BY <1>1, <2>1, AtTable
<1>5. t < cur /\ lv[t] = k
  BY <1>4 DEF OnPath
<1>6. Typed(m2, n) /\ m2[cur] = EmptyTable /\ Enters(m, m2, n, cur, t, j, Descriptor(cur, 0))
  BY <1>1, <1>3, <1>5, EnterTable
<1>7. \E lv2, base2 : Grown(m2, n, cur + PageSize, lv2, base2)
  BY <1>1, <1>4, <1>5, <1>6, GrownWithTable
<1>8. \A v \in Nat : Walked(m2, n, 3, v) = Walked(m, n, 3, v)
  <2>1. /\ n \in CodePages /\ Typed(m, n) /\ Typed(m2, n) /\ cur \in TablePage(n)
        /\ k \in 0 .. 2 /\ lv[t] = k /\ m[t][j] = Fault
    BY <1>1, <1>3, <1>5, <1>6
  <2>2. Grown(m, n, cur, lv, base) /\ m2[cur] = EmptyTable
        /\ Enters(m, m2, n, cur, t, j, Descriptor(cur, 0))
    BY <1>4, <1>6
  <2> TAKE v \in Nat
  <2> QED BY <2>1, <2>2, WalkWithTable
<1>9. Reach(m2, n, k + 1, cur, va)
  <2>1. Reach(m, n, k, t, va)
    <3>1. step = "insert"
      BY DEF InsertTable
    <3> QED BY <1>1, <3>1, AtTable
  <2> QED BY <1>1, <1>2, <1>3, <1>4, <1>5, <1>6, <2>1, WalkWithTable
<1> QED BY <1>1, <1>6, <1>7, <1>8, <1>9

LEMMA TableStep == IInv /\ InsertTable => IInv'
<1> SUFFICES ASSUME IInv, InsertTable PROVE IInv'
  OBVIOUS
<1>1. /\ step = "insert" /\ level \in 0 .. 3 /\ level < 3
      /\ UNCHANGED << code, ranges, curVA, curPA, mmu, MAIR, pc, sp >>
  BY State DEF InsertTable
<1>2. TypeOK /\ Control /\ Ranges /\ TreeOK /\ Complete
  BY DEF IInv
<1>3. CASE HasPage
  <2>1. /\ table' = Current /\ Current' = Current + PageSize /\ level' = level + 1
        /\ step' = "insert"
    BY <1>1, <1>3 DEF InsertTable
  <2>2. /\ Typed(memory', code)
        /\ \E lv, base : Grown(memory', code, Current + PageSize, lv, base)
        /\ Reach(memory', code, level + 1, Current, curVA)
        /\ \A va \in Nat : Walked(memory', code, 3, va) = Walked(memory, code, 3, va)
    BY <1>3, TableInserted
  <2>3. /\ Current \in TablePage(code) /\ Aligned(Current + PageSize)
        /\ Current + PageSize \in PgDir(code) .. KernelImageEnd(code)
    BY <1>3, PageOfCurrent
  <2>4. TypeOK'
    <3>1. memory' \in [TablePage(code) -> [0 .. PointersPerTable - 1 -> DescriptorType]]
      BY <2>2 DEF Typed, Slot
    <3> QED BY <1>1, <1>2, <2>1, <2>3, <3>1 DEF TypeOK
  <2>5. Control'
    BY <1>1, <1>2, <2>1, <2>3 DEF Control
  <2>6. Ranges'
    BY <1>1, <1>2, <2>1 DEF Ranges
  <2>7. TreeOK'
    BY <1>1, <2>1, <2>2 DEF TreeOK
  <2>8. Walking'
    BY <1>1, <2>1, <2>2 DEF Walking
  <2>9. Complete'
    BY <1>1, <1>2, <2>2 DEF Complete, Entered
  <2> QED BY <2>4, <2>5, <2>6, <2>7, <2>8, <2>9 DEF IInv
<1>4. CASE ~HasPage
  <2>1. step' = "panic" /\ UNCHANGED << memory, table, Current, level >>
    BY <1>4 DEF InsertTable
  <2>2. TypeOK'
    BY <1>1, <1>2, <2>1 DEF TypeOK
  <2>3. Control'
    BY <1>1, <1>2, <2>1 DEF Control
  <2>4. Ranges'
    BY <1>1, <1>2, <2>1 DEF Ranges
  <2>5. TreeOK'
    BY <1>1, <1>2, <2>1 DEF TreeOK
  <2>6. Walking' /\ Complete'
    BY <1>1, <1>2, <2>1 DEF Walking, Complete
  <2> QED BY <2>2, <2>3, <2>4, <2>5, <2>6 DEF IInv
<1> QED BY <1>3, <1>4

\* m2 maps what m does, and c.
Maps(m, m2, n, c) ==
    \A va \in Nat : Aligned(va) /\ (Walked(m, n, 3, va) # Fault \/ va = c) =>
        Walked(m2, n, 3, va) # Fault

\* The loops over the pages and the ranges: what is entered is entered in order.
LEMMA NextPage ==
    ASSUME NEW n \in CodePages, NEW rs, Left(n, rs), NEW c, NEW pa, Entering(rs, c, pa),
           NEW m, NEW m2, Entered(m, n, Len(rs), c),
           Maps(m, m2, n, c),
           c + PageSize < Head(rs).end
    PROVE  Entered(m2, n, Len(rs), c + PageSize) /\ Entering(rs, c + PageSize, pa + PageSize)
<1>1. PICK d \in Nat \ {0} : d = PageSize
  BY Sizes
<1>2. PICK len \in 1 .. 5 : len = Len(rs)
  BY HeadLeft DEF Entering
<1>3. c \in Nat /\ Aligned(c) /\ pa \in Nat
  BY EntersHome, OffsetAligned
<1>4. Aligned(c + d) /\ c + d \in Nat
  BY <1>1, <1>3, AlignedNext
<1>5. Entering(rs, c + d, pa + d)
  <2>1. PICK b \in Nat, e \in Nat, p \in Nat : b = Head(rs).begin /\ e = Head(rs).end /\ p = Head(rs).pa
    BY HeadLeft DEF Entering, RangeSet
  <2>2. b <= c /\ pa = p + (c - b)
    BY <2>1, <1>3 DEF Entering
  <2>3. c + d < e
    BY <1>1, <2>1
  <2>4. c + d \in b .. e /\ pa + d = p + ((c + d) - b)
    BY <1>3, <2>2, <2>3
  <2> QED BY <1>2, <1>4, <2>1, <2>4 DEF Entering
<1>6. ASSUME NEW k \in 1 .. 5, NEW va \in Nat, Aligned(va), InRange(n, k, va),
             k + len <= 5 \/ (k + len = 6 /\ va < c + d)
      PROVE  Walked(m2, n, 3, va) # Fault
  <2>1. CASE k + len <= 5 \/ (k + len = 6 /\ va < c)
    BY <1>2, <1>6, <2>1 DEF Entered, Maps
  <2>2. CASE ~(k + len <= 5 \/ (k + len = 6 /\ va < c))
    <3>1. ~(c < va)
      <4>1. c < va => c + d <= va
        BY <1>1, <1>3, <1>6, AlignedApart
      <4> QED BY <1>1, <1>3, <1>6, <2>2, <4>1
    <3>2. va = c
      BY <1>3, <1>6, <2>2, <3>1
    <3> QED BY <1>6, <3>2 DEF Maps
  <2> QED BY <2>1, <2>2
<1> QED BY <1>1, <1>2, <1>5, <1>6 DEF Entered

LEMMA NextRange ==
    ASSUME NEW n \in CodePages, NEW rs, Left(n, rs), NEW c, NEW pa, Entering(rs, c, pa),
           NEW m, NEW m2, Entered(m, n, Len(rs), c),
           Maps(m, m2, n, c),
           ~(c + PageSize < Head(rs).end),
           NEW c2, Len(rs) > 1 => c2 = Head(Tail(rs)).begin
    PROVE  /\ Entered(m2, n, Len(rs) - 1, c2)
           /\ Len(rs) > 1 => Entering(Tail(rs), Head(Tail(rs)).begin, Head(Tail(rs)).pa)
<1>1. PICK d \in Nat \ {0} : d = PageSize /\ d > 1
  BY Sizes
<1>2. PICK len \in 1 .. 5 : len = Len(rs) /\ Head(rs) = MemoryRanges(n)[6 - len]
  BY HeadLeft DEF Entering
<1>3. c \in Nat /\ Aligned(c)
  BY EntersHome, OffsetAligned
<1>4. PICK e \in Nat : e = Head(rs).end /\ Aligned(e + 1) /\ e <= c + d
  <2>1. PICK e \in Nat : e = Head(rs).end /\ Aligned(e + 1)
    BY HeadLeft DEF Entering, RangeOK
  <2> QED BY <1>1, <1>3, <2>1
<1>5. ASSUME len > 1
      PROVE  /\ Entering(Tail(rs), c2, Head(Tail(rs)).pa)
             /\ c2 \in Nat /\ c2 = MemoryRanges(n)[7 - len].begin
  <2>1. /\ Left(n, Tail(rs)) /\ Len(Tail(rs)) = len - 1
    BY <1>2, HeadLeft DEF Entering
  <2>2. Len(Tail(rs)) > 0 /\ 6 - (len - 1) = 7 - len
    BY <1>5, <2>1
  <2>3. PICK r : /\ r = Head(Tail(rs)) /\ RangeOK(r) /\ r = MemoryRanges(n)[7 - len]
    <3>1. PICK q, l : q = Tail(rs) /\ l = Len(q) /\ l = len - 1 /\ Left(n, q) /\ l > 0
      BY <2>1, <2>2
    <3>2. Head(q) = MemoryRanges(n)[6 - Len(q)] /\ RangeOK(Head(q))
      BY <3>1, HeadLeft
    <3> QED BY <2>2, <3>1, <3>2
  <2>4. r.begin \in r.begin .. r.end /\ r.pa = r.pa + (r.begin - r.begin) /\ r.begin \in Nat
    <3>1. PICK b \in Nat, z \in Nat, p \in Nat : b = r.begin /\ z = r.end /\ p = r.pa /\ b + d <= z + 1
      BY <1>1, <2>3 DEF RangeOK
    <3>2. b \in b .. z /\ p = p + (b - b)
      BY <3>1
    <3> QED BY <3>1, <3>2
  <2>5. c2 = r.begin
    BY <1>2, <1>5, <2>3
  <2> QED BY <2>2, <2>3, <2>4, <2>5 DEF Entering, RangeOK
<1>6. ASSUME NEW k \in 1 .. 5, NEW va \in Nat, Aligned(va), InRange(n, k, va),
             k + (len - 1) <= 5 \/ (k + (len - 1) = 6 /\ va < c2)
      PROVE  Walked(m2, n, 3, va) # Fault
  <2>1. CASE k + len <= 5 \/ (k + len = 6 /\ va < c)
    BY <1>2, <1>6, <2>1 DEF Entered, Maps
  <2>2. CASE k + len = 6 /\ ~(va < c)
    <3>1. k = 6 - len
      BY <2>2
    <3>2. va <= e
      BY <1>2, <1>4, <1>6, <3>1 DEF InRange
    <3>3. ~(c < va)
      <4>1. SUFFICES ASSUME c < va PROVE FALSE
        OBVIOUS
      <4>2. c + d <= va
        BY <1>1, <1>3, <1>6, <4>1, AlignedApart
      <4>3. va = e /\ va < e + 1
        BY <1>1, <1>3, <1>4, <3>2, <4>2
      <4>4. e + 1 \in Nat /\ Aligned(e + 1)
        BY <1>4
      <4>5. va + d <= e + 1
        BY <1>1, <1>6, <4>3, <4>4, AlignedApart
      <4> QED BY <1>1, <4>3, <4>5
    <3>4. va = c
      BY <1>3, <1>6, <2>2, <3>3
    <3> QED BY <1>6, <3>4 DEF Maps
  <2>3. CASE k + (len - 1) = 6 /\ va < c2
    <3>1. len > 1 /\ k = 7 - len
      BY <2>3
    <3>2. c2 \in Nat /\ c2 = MemoryRanges(n)[k].begin
      BY <1>5, <3>1
    <3>3. va \in c2 .. MemoryRanges(n)[k].end
      BY <1>6, <3>2 DEF InRange
    <3> QED BY <2>3, <3>2, <3>3
  <2> QED BY <1>6, <2>1, <2>2, <2>3
<1> QED BY <1>2, <1>5, <1>6 DEF Entered

LEMMA PageEntered ==
    ASSUME IInv, InsertPage
    PROVE  /\ Typed(memory', code)
           /\ \E lv, base : Grown(memory', code, Current, lv, base)
           /\ \A va \in Nat : Aligned(va) =>
                Walked(memory', code, 3, va) =
                  IF PhysicalAddress(va) = PhysicalAddress(curVA) THEN Home(curVA)
                  ELSE Walked(memory, code, 3, va)
<1>1. PICK n, m, m2, cur, t, c :
        /\ n \in CodePages /\ cur = Current /\ t \in TablePage(n) /\ c \in Nat /\ Aligned(c)
        /\ n = code /\ m = memory /\ m2 = memory' /\ t = table /\ c = curVA /\ Typed(m, n)
        /\ Home(c) \in DescriptorType /\ Reach(m, n, 3, t, c)
  <2>1. step = "insert" /\ level = 3
    BY DEF InsertPage
  <2>2. curVA \in Nat /\ Aligned(curVA) /\ Home(curVA) \in DescriptorType
        /\ Reach(memory, code, 3, table, curVA)
    BY <2>1, AtTable
  <2>3. code \in CodePages /\ table \in TablePage(code) /\ Typed(memory, code)
    BY State
  <2> QED BY <2>2, <2>3, Zenon
<1>2. PICK lv, base : Grown(m, n, cur, lv, base) /\ OnPath(n, cur, lv, base, 3, t, c)
  <2>1. step = "insert" /\ level = 3
    BY DEF InsertPage
  <2> QED BY <1>1, <2>1, AtTable
<1>3. PICK j \in Slot : j = TableIndex(3, c)
  BY <1>1, SlotOf, 3 \in 0 .. 3
<1>4. m2 = WithEntry(m, t, j, Home(c))
  <2>1. step = "insert" /\ level = 3
    BY DEF InsertPage
  <2>2. Descriptor(curPA, Head(ranges).mair) = Home(c)
    BY <1>1, <2>1, AtTable
  <2> QED BY <1>1, <1>3, <2>2 DEF InsertPage, WithEntry
<1>5. t < cur
  BY <1>2 DEF OnPath
<1>6. Typed(m2, n) /\ Enters(m, m2, n, cur, t, TableIndex(3, c), Home(c))
  BY <1>1, <1>3, <1>4, <1>5, EnterPage
<1>7. Grown(m2, n, cur, lv, base)
  BY <1>1, <1>2, <1>6, GrownWithPage
<1>8. ASSUME NEW va \in Nat, Aligned(va)
      PROVE  Walked(m2, n, 3, va) = IF PhysicalAddress(va) = PhysicalAddress(c)
                                    THEN Home(c) ELSE Walked(m, n, 3, va)
  <2>1. n \in CodePages /\ Typed(m, n) /\ Grown(m, n, cur, lv, base) /\ Typed(m2, n)
        /\ c \in Nat /\ Aligned(c) /\ Reach(m, n, 3, t, c)
        /\ Enters(m, m2, n, cur, t, TableIndex(3, c), Home(c))
    BY <1>1, <1>2, <1>6
  <2> QED BY <1>8, <2>1, WalkWithPage
<1> QED BY <1>1, <1>6, <1>7, <1>8

LEMMA PageStep == IInv /\ InsertPage => IInv'
<1> SUFFICES ASSUME IInv, InsertPage PROVE IInv'
  OBVIOUS
<1>1. /\ step = "insert" /\ level' = 0 /\ table' = PgDir(code)
      /\ UNCHANGED << code, Current, mmu, MAIR, pc, sp >>
  BY DEF InsertPage
<1>2. TypeOK /\ Control /\ Ranges /\ Complete
  BY DEF IInv
<1>3. PICK n, m, m2, rs, c, pa :
        /\ n \in CodePages /\ n = code /\ m = memory /\ m2 = memory' /\ rs = ranges
        /\ c = curVA /\ pa = curPA /\ Left(n, rs) /\ Entering(rs, c, pa)
        /\ Entered(m, n, Len(rs), c)
  <2>1. Left(code, ranges) /\ Entering(ranges, curVA, curPA) /\ Entered(memory, code, Len(ranges), curVA)
    BY <1>1, <1>2 DEF Ranges, Complete
  <2>2. code \in CodePages
    BY State
  <2> QED BY <2>1, <2>2, Zenon
<1>4. /\ Typed(m2, n) /\ \E lv, base : Grown(m2, n, Current, lv, base)
      /\ \A va \in Nat : Aligned(va) =>
           Walked(m2, n, 3, va) = IF PhysicalAddress(va) = PhysicalAddress(c) THEN Home(c)
                                  ELSE Walked(m, n, 3, va)
  BY <1>3, PageEntered
<1>5. Maps(m, m2, n, c)
  <2>1. Home(c) # Fault
    BY <1>3, EntersHome
  <2> QED BY <1>4, <2>1 DEF Maps
<1>6. PgDir(n) \in TablePage(n) /\ code' = n /\ code = n
  BY <1>1, <1>3, TablePages
<1>7. ASSUME NEW st, NEW rs2, NEW c2, NEW pa2,
             st = step' /\ rs2 = ranges' /\ c2 = curVA' /\ pa2 = curPA',
             st \in {"insert", "enable"}, Left(n, rs2), Entered(m2, n, Len(rs2), c2),
             st = "insert" => Entering(rs2, c2, pa2),
             st = "enable" => Len(rs2) = 0 /\ c2 = c /\ pa2 = pa
      PROVE  IInv'
  <2>1. c2 \in 0 .. 2 * KernelVirtualAddressOffset /\ pa2 \in 0 .. KernelVirtualAddressOffset
    <3>1. CASE st = "insert"
      BY <1>3, <1>7, <3>1, EntersHome, OffsetAligned
    <3>2. CASE st = "enable"
      BY <1>3, <1>7, <3>2, State
    <3> QED BY <1>7, <3>1, <3>2
  <2>2. memory' \in [TablePage(n) -> [0 .. PointersPerTable - 1 -> DescriptorType]]
    BY <1>3, <1>4 DEF Typed, Slot
  <2>3. TypeOK'
    BY <1>1, <1>2, <1>6, <1>7, <2>1, <2>2 DEF TypeOK
  <2>4. Control'
    <3>1. step' \notin {"root", "jump", "stack", "kmain"}
      BY <1>7
    <3>2. Aligned(Current) /\ ~mmu /\ pc = Start /\ sp = Start
      BY <1>1, <1>2 DEF Control
    <3>3. ~mmu'
      BY <1>1, <3>2, Zenon
    <3> QED BY <1>1, <3>1, <3>2, <3>3 DEF Control
  <2>5. Ranges'
    BY <1>6, <1>7 DEF Ranges
  <2>6. TreeOK'
    BY <1>1, <1>3, <1>4, <1>6 DEF TreeOK
  <2>7. Walking'
    BY <1>1, <1>6, StepLevels DEF Walking
  <2>8. Complete'
    BY <1>3, <1>6, <1>7 DEF Complete
  <2> QED BY <2>3, <2>4, <2>5, <2>6, <2>7, <2>8 DEF IInv
<1>7a. c + PageSize \in Nat /\ Head(rs).end \in Nat
  <2>1. n \in CodePages /\ Left(n, rs) /\ Entering(rs, c, pa)
    BY <1>3
  <2>2. c \in Nat
    BY <2>1, EntersHome
  <2>3. Head(rs) \in RangeSet
    BY <2>1, HeadLeft DEF Entering
  <2> QED BY <2>2, <2>3, Sizes DEF RangeSet
<1>8. CASE c + PageSize < Head(rs).end
  <2>1. ranges' = rs /\ step' = "insert" /\ curVA' = c + PageSize /\ curPA' = pa + PageSize
    <3>1. ~RangeDone(curVA + PageSize, Head(ranges).end)
      <4>1. c + PageSize \in Nat /\ Head(rs).end \in Nat
        BY <1>7a
      <4> QED BY <1>3, <1>8, <4>1 DEF RangeDone
    <3> QED BY <1>1, <1>3, <3>1 DEF InsertPage
  <2>2. Entered(m2, n, Len(rs), c + PageSize) /\ Entering(rs, c + PageSize, pa + PageSize)
    <3>1. n \in CodePages /\ Left(n, rs) /\ Entering(rs, c, pa) /\ Entered(m, n, Len(rs), c)
      BY <1>3
    <3> QED BY <1>5, <1>8, <3>1, NextPage
  <2> QED BY <1>3, <1>7, <2>1, <2>2
<1>9. CASE ~(c + PageSize < Head(rs).end)
  <2>1. PICK len \in 1 .. 5 : len = Len(rs) /\ Left(n, Tail(rs)) /\ Len(Tail(rs)) = len - 1
                              /\ (Tail(rs) = << >> <=> len - 1 = 0)
    BY <1>3, HeadLeft DEF Entering
  <2>2. /\ ranges' = Tail(rs)
        /\ IF Tail(rs) = << >>
           THEN step' = "enable" /\ curVA' = c /\ curPA' = pa
           ELSE /\ step' = "insert" /\ curVA' = Head(Tail(rs)).begin
                /\ curPA' = Head(Tail(rs)).pa
    <3>1. RangeDone(curVA + PageSize, Head(ranges).end)
      <4>1. c + PageSize \in Nat /\ Head(rs).end \in Nat
        BY <1>7a
      <4> QED BY <1>3, <1>9, <4>1 DEF RangeDone
    <3> QED BY <1>1, <1>3, <3>1 DEF InsertPage
  <2>3. PICK c2 : c2 = curVA'
    OBVIOUS
  <2>4. len > 1 => c2 = Head(Tail(rs)).begin
    BY <2>1, <2>2, <2>3
  <2>5. /\ Entered(m2, n, Len(rs) - 1, c2)
        /\ Len(rs) > 1 => Entering(Tail(rs), Head(Tail(rs)).begin, Head(Tail(rs)).pa)
    <3>1. n \in CodePages /\ Left(n, rs) /\ Entering(rs, c, pa) /\ Entered(m, n, Len(rs), c)
      BY <1>3
    <3>2. Len(rs) > 1 => c2 = Head(Tail(rs)).begin
      BY <2>1, <2>4
    <3> QED BY <1>5, <1>9, <3>1, <3>2, NextRange
  <2>6. Left(n, ranges') /\ Entered(m2, n, Len(ranges'), c2)
    BY <2>1, <2>2, <2>5
  <2>7. CASE len = 1
    <3>1. Tail(rs) = << >> /\ Len(ranges') = 0
      BY <2>1, <2>2, <2>7
    <3>2. step' = "enable" /\ c2 = c /\ curPA' = pa
      BY <2>2, <2>3, <3>1
    <3> QED BY <1>7, <2>3, <2>6, <3>1, <3>2
  <2>8. CASE len > 1
    <3>1. Tail(rs) # << >>
      BY <2>1, <2>8
    <3>2. step' = "insert" /\ c2 = Head(Tail(rs)).begin /\ curPA' = Head(Tail(rs)).pa
      BY <2>2, <2>3, <3>1
    <3>3. Entering(ranges', c2, curPA')
      BY <2>1, <2>2, <2>5, <2>8, <3>2
    <3> QED BY <1>7, <2>3, <2>6, <3>2, <3>3
  <2> QED BY <2>1, <2>7, <2>8
<1> QED BY <1>8, <1>9

-----------------------------------------------------------------------------
(***************************************************************************)
(* The theorems.                                                           *)
(***************************************************************************)
LEMMA BootPageTablesNext == IInv /\ [Next]_vars => IInv'
<1> SUFFICES ASSUME IInv, [Next]_vars PROVE IInv'
  OBVIOUS
<1>1. CASE AllocateRoot
  BY <1>1, RootStep
<1>2. CASE InsertTable
  BY <1>2, TableStep
<1>3. CASE FollowTable
  BY <1>3, FollowStep
<1>4. CASE InsertPage
  BY <1>4, PageStep
<1>5. CASE EnableMMU \/ JumpToKernelVA \/ AdjustStack
  BY <1>5, LaterStep
<1>6. CASE UNCHANGED vars
  BY <1>6 DEF vars, IInv, TypeOK, Control, Ranges, TreeOK, Walking, Complete
<1> QED BY <1>1, <1>2, <1>3, <1>4, <1>5, <1>6 DEF Next

\* The invariant holds throughout boot_kernel, wherever the image is, whatever
\* its size, and whatever is in the memory of the page tables.
THEOREM BootInvariance == Spec => []IInv
<1> QED BY BootPageTablesInit, BootPageTablesNext, PTL DEF Spec

\* Building the tables and moving up keep every variable in its type: no table
\* is read or written outside the pages from _pg_dir on.
THEOREM BootTypes == Spec => []TypeOK
<1>1. IInv => TypeOK
  BY DEF IInv
<1> QED BY <1>1, BootInvariance, PTL

LEMMA StateTranslations ==
    ASSUME IInv, step # "root", NEW va \in Nat, Aligned(va), Translation(va) # Fault
    PROVE  Translation(va) = Home(va)
<1>1. PICK lv, base : Grown(memory, code, Current, lv, base)
  BY DEF IInv, TreeOK
<1>2. Translation(va) = Walked(memory, code, 3, va)
  BY TranslationIs DEF Walked
<1>3. code \in CodePages /\ Typed(memory, code)
  BY State
<1> QED BY <1>1, <1>2, <1>3, WalkExact

\* InsertEntriesForMemoryRange maps a page to its home or not at all, in both
\* halves and at any moment: sharing the tables mixes nothing up.
THEOREM EveryPageAtHome == Spec => []TranslationsExact
<1>1. IInv => TranslationsExact
  BY VirtualPages, StateTranslations DEF TranslationsExact
<1> QED BY <1>1, BootInvariance, PTL

\* When the loop over the ranges is done, each page of each range is at home.
LEMMA StateComplete ==
    ASSUME IInv, step \in {"enable", "jump", "stack", "kmain"},
           NEW k \in 1 .. 5, NEW va \in Nat, Aligned(va), InRange(code, k, va)
    PROVE  Translation(va) # Fault /\ Translation(va) = Home(va)
<1>1. Entered(memory, code, 0, curVA)
  BY DEF IInv, Ranges, Complete
<1>2. k + 0 <= 5
  OBVIOUS
<1>3. Walked(memory, code, 3, va) # Fault
  BY <1>1, <1>2 DEF Entered
<1>4. Translation(va) # Fault
  BY <1>3, TranslationIs DEF Walked
<1>5. step # "root"
  OBVIOUS
<1> QED BY <1>4, <1>5, StateTranslations

\* The five ranges, as sets of addresses.
LEMMA RangeIs ==
    ASSUME NEW n \in CodePages, NEW va
    PROVE  /\ InRange(n, 1, va) <=> va \in KernelBasePA .. KernelEndPA(n)
           /\ InRange(n, 3, va) <=> va \in ToVA(KernelBasePA) .. ToVA(KernelEndPA(n))
           /\ InRange(n, 4, va) <=> va \in ToVA(DeviceBaseAddress) .. ToVA(DeviceEndPA)
           /\ InRange(n, 5, va) <=> va \in ToVA(KernelEndPA(n)) + 1 .. ToVA(DeviceBaseAddress) - 1
  BY DEF InRange, MemoryRanges, MemoryRange

\* The page below an aligned address.
LEMMA PageBelow ==
    ASSUME NEW x \in Nat, Aligned(x)
    PROVE  /\ x - (x % PageSize) = x
           /\ PageSize <= x => /\ x - PageSize \in Nat /\ Aligned(x - PageSize)
                               /\ (x - 1) - ((x - 1) % PageSize) = x - PageSize
<1>1. PICK d \in Nat \ {0} : d = PageSize /\ d > 1
  BY Sizes
<1>2. x % d = 0
  BY <1>1 DEF Aligned
<1>3. ASSUME d <= x
      PROVE  /\ x - d \in Nat /\ (x - d) % d = 0
             /\ (x - 1) - ((x - 1) % d) = x - d
  <2>1. PICK y \in Nat : y = x - d
    <3>1. x - d \in Nat
      BY <1>3
    <3> QED BY <3>1
  <2>2. x = y + d /\ y % d \in 0 .. d - 1
    BY <2>1, DivMod
  <2>3. y % d = 0
    <3>1. PICK q \in Nat : x = q * d
      BY <1>2, Multiple
    <3>2. q # 0
      BY <1>3, <3>1
    <3>3. PICK p \in Nat : q = p + 1
      <4>1. q - 1 \in Nat /\ q = (q - 1) + 1
        BY <3>2
      <4> QED BY <4>1
    <3>4. y = p * d
      BY <2>2, <3>1, <3>3
    <3> QED BY <3>4, Multiple
  <2>4. PICK p \in Nat : y = p * d
    BY <2>3, Multiple
  <2>5. d - 1 \in 0 .. d - 1 /\ x - 1 = p * d + (d - 1)
    BY <1>1, <2>2, <2>4
  <2>6. (x - 1) % d = d - 1
    BY <2>5, Quotient
  <2> QED BY <2>1, <2>2, <2>3, <2>6
<1> QED BY <1>1, <1>2, <1>3 DEF Aligned

\* With the kernel's block mapped, so are the page at _start and the one below,
\* as normal memory and in both halves.
LEMMA ImageReachable ==
    ASSUME IInv, mmu, NEW x \in {Start, ToVA(Start)}
    PROVE  Reachable(x) /\ Reachable(x - 1)
<1>1. PICK n, d, b, e, o :
        /\ n = code /\ n \in CodePages /\ d = PageSize /\ d \in Nat \ {0} /\ d > 1
        /\ b = KernelBasePA /\ b \in Nat /\ e = KernelEndPA(n) /\ e \in Nat
        /\ o = KernelVirtualAddressOffset /\ o \in Nat
  BY State, MemoryLayout, Sizes
<1>2. /\ Start \in Nat /\ Aligned(Start) /\ b + d <= Start /\ Start <= e
      /\ Aligned(o) /\ e < DeviceBaseAddress /\ DeviceBaseAddress \in Nat
      /\ DeviceEndPA < o /\ DeviceEndPA \in Nat /\ DeviceBaseAddress < DeviceEndPA + 1
  <2>1. n \in CodePages
    BY <1>1
  <2>2. /\ Start < PgDir(n) /\ PgDir(n) + PageSize <= KernelImageEnd(n)
        /\ PgDir(n) \in Nat /\ KernelImageEnd(n) \in Nat
    BY <2>1, ImageLayout
  <2>3. KernelImageEnd(n) <= KernelEndPA(n) /\ KernelEndPA(n) + 1 + MaxPageCount * PageSize <= DeviceBaseAddress
        /\ MaxPageCount * PageSize \in Nat
    BY <2>1, MemoryLayout
  <2>4. DeviceBaseAddress \in Nat /\ DeviceEndPA \in Nat /\ DeviceBaseAddress + PageSize <= DeviceEndPA + 1
    BY <2>1, MemoryLayout
  <2>5. Start \in Nat /\ Aligned(Start) /\ KernelBasePA + PageSize <= Start /\ DeviceEndPA < o /\ Aligned(o)
    BY <1>1, <2>1, ImageLayout, MemoryLayout
  <2> QED BY <1>1, <2>2, <2>3, <2>4, <2>5
<1>3. step \in {"enable", "jump", "stack", "kmain"} /\ MAIR[NormalMAIRIndex] = "normal"
  BY Zenon DEF IInv, Control
<1>4. ASSUME NEW y \in Nat, Aligned(y), y \in b .. e \/ (y - o \in b .. e)
      PROVE  LET t == Translation(y) IN t # Fault /\ MAIR[t.attrIndx] = "normal"
  <2>1. PICK z \in b .. e : PhysicalAddress(y) = z
    <3>1. CASE y \in b .. e
      <4>1. y \in 0 .. o - 1
        BY <1>1, <1>2, <3>1
      <4> QED BY <1>1, <3>1, <4>1, BothHalves
    <3>2. CASE y - o \in b .. e
      <4>1. y - o \in 0 .. o - 1 /\ y = (y - o) + o
        BY <1>1, <1>2, <3>2
      <4>2. PICK z \in 0 .. o - 1 : z = y - o /\ y = z + o
        BY <4>1
      <4> QED BY <1>1, <3>2, <4>2, BothHalves
    <3> QED BY <1>4, <3>1, <3>2
  <2>2. ~IsDevice(PhysicalAddress(y))
    BY <1>1, <1>2, <2>1 DEF IsDevice
  <2>3. Home(y).attrIndx = NormalMAIRIndex
    BY <2>2 DEF Home, Descriptor
  <2>4. PICK k \in 1 .. 5 : InRange(n, k, y)
    <3>1. CASE y \in b .. e
      BY <1>1, <3>1, RangeIs, 1 \in 1 .. 5
    <3>2. CASE y - o \in b .. e
      <4>1. y \in b + o .. e + o
        BY <1>1, <3>2
      <4> QED BY <1>1, <4>1, RangeIs, 3 \in 1 .. 5 DEF ToVA
    <3> QED BY <1>4, <3>1, <3>2
  <2>5. Translation(y) # Fault /\ Translation(y) = Home(y)
    BY <1>1, <1>3, <1>4, <2>4, StateComplete
  <2> QED BY <1>3, <2>3, <2>5
<1>5. x \in Nat /\ Aligned(x) /\ d <= x /\ (x - d = Start - d \/ x - d = Start - d + o)
  <2>1. CASE x = Start
    BY <1>1, <1>2, <2>1
  <2>2. CASE x = ToVA(Start)
    <3>1. Start + o \in Nat /\ Aligned(Start + o)
      BY <1>1, <1>2, AlignedSum
    <3> QED BY <1>1, <1>2, <2>2, <3>1 DEF ToVA
  <2> QED BY <2>1, <2>2
<1>6. /\ x - (x % PageSize) = x
      /\ x - d \in Nat /\ Aligned(x - d) /\ (x - 1) - ((x - 1) % PageSize) = x - d
  BY <1>1, <1>5, PageBelow
<1>7. (x \in b .. e \/ x - o \in b .. e) /\ (x - d \in b .. e \/ (x - d) - o \in b .. e)
  BY <1>1, <1>2, <1>5 DEF ToVA
<1>8. Reachable(x)
  BY <1>4, <1>5, <1>6, <1>7 DEF Reachable
<1>9. Reachable(x - 1)
  BY <1>4, <1>6, <1>7 DEF Reachable
<1> QED BY <1>8, <1>9

\* From EnableMMU on, before and after pc and sp move to the upper half, the
\* code and the stack translate to normal memory.
THEOREM CodeAndStackStayMapped == Spec => []CodeAndStackMapped
<1>1. IInv => CodeAndStackMapped
  <2> SUFFICES ASSUME IInv, mmu PROVE Reachable(pc) /\ Reachable(sp - 1)
    BY DEF CodeAndStackMapped
  <2>1. pc \in {Start, ToVA(Start)} /\ sp \in {Start, ToVA(Start)}
    BY DEF IInv, Control
  <2> QED BY <2>1, ImageReachable
<1> QED BY <1>1, BootInvariance, PTL

\* kmain reaches the tables, all that the memory manager hands out, and the
\* devices: no page of them was left out, and no panic for a lack of tables
\* lets kmain start.
THEOREM KmainReachesItsMemory == Spec => []KernelReachesItsMemory
<1>1. IInv => KernelReachesItsMemory
  <2> SUFFICES ASSUME IInv, step = "kmain", NEW pa \in KernelMemory
               PROVE  Mapped(ToVA(pa))
    BY DEF KernelReachesItsMemory
  <2>1. PICK n, d, e, dev, last, o :
          /\ n = code /\ n \in CodePages /\ d = PageSize /\ d \in Nat \ {0}
          /\ e = KernelEndPA(n) /\ e \in Nat /\ dev = DeviceBaseAddress /\ dev \in Nat
          /\ last = DeviceEndPA /\ last \in Nat
          /\ o = KernelVirtualAddressOffset /\ o \in Nat /\ Aligned(o) /\ last < o
    BY State, MemoryLayout, Sizes
  <2>2. PICK k \in 1 .. 5 : pa \in Nat /\ Aligned(pa) /\ InRange(n, k, pa + o)
    <3>1. CASE pa \in TablePage(n)
      <4>1. pa \in Nat /\ Aligned(pa) /\ PgDir(n) <= pa /\ pa + PageSize <= KernelImageEnd(n)
        BY <2>1, <3>1, TablePages
      <4>2. KernelBasePA \in Nat /\ KernelBasePA + PageSize <= Start /\ Start < PgDir(n)
            /\ Start \in Nat /\ PgDir(n) \in Nat /\ KernelImageEnd(n) \in Nat
            /\ KernelImageEnd(n) <= e
        BY <2>1, ImageLayout, MemoryLayout
      <4>3. pa + o \in KernelBasePA + o .. e + o
        BY <2>1, <4>1, <4>2
      <4> QED BY <2>1, <4>1, <4>3, RangeIs, 3 \in 1 .. 5 DEF ToVA
    <3>2. CASE pa \in {KernelEndPA(n) + 1 + i * PageSize : i \in 0 .. MaxPageCount - 1}
      <4>1. PICK i \in 0 .. MaxPageCount - 1 : pa = e + 1 + i * d
        BY <2>1, <3>2
      <4>2. MaxPageCount \in Nat /\ i \in Nat /\ i + 1 <= MaxPageCount
        BY BootPageTablesAssumption
      <4>3. i * d \in Nat /\ Aligned(i * d)
        BY <2>1, <4>2, Lengths
      <4>4. e + 1 + MaxPageCount * d <= dev /\ Aligned(e + 1) /\ e + 1 \in Nat
        BY <2>1, MemoryLayout
      <4>5. Aligned((e + 1) + i * d)
        <5>1. PICK w \in Nat : w = i * d
          BY <4>3
        <5> QED BY <4>3, <4>4, <5>1, AlignedSum
      <4>6. PICK m \in Nat, j \in Nat : m = MaxPageCount /\ m = i + 1 + j
        <5>1. MaxPageCount - (i + 1) \in Nat /\ MaxPageCount = i + 1 + (MaxPageCount - (i + 1))
          BY <4>2
        <5> QED BY <4>2, <5>1
      <4>7. m * d = i * d + d + j * d /\ j * d \in Nat
        BY <2>1, <4>2, <4>6
      <4>8. pa \in Nat /\ e + 1 <= pa /\ pa < dev
        BY <2>1, <4>1, <4>3, <4>4, <4>6, <4>7
      <4>9. pa + o \in (e + o) + 1 .. (dev + o) - 1
        BY <2>1, <4>8
      <4> QED BY <2>1, <4>1, <4>5, <4>8, <4>9, RangeIs, 5 \in 1 .. 5 DEF ToVA
    <3>3. CASE pa \in {p \in VirtualPage : IsDevice(p)}
      <4>1. pa \in Nat /\ Aligned(pa) /\ pa \in dev .. last
        BY <2>1, <3>3, VirtualPages DEF IsDevice
      <4>2. pa + o \in dev + o .. last + o
        BY <2>1, <4>1
      <4> QED BY <2>1, <4>1, <4>2, RangeIs, 4 \in 1 .. 5 DEF ToVA
    <3> QED BY <2>1, <3>1, <3>2, <3>3 DEF KernelMemory
  <2>3. pa + o \in Nat /\ Aligned(pa + o)
    BY <2>1, <2>2, AlignedSum
  <2>4. step \in {"enable", "jump", "stack", "kmain"} /\ step # "root"
    OBVIOUS
  <2>5. Translation(pa + o) # Fault
    BY <2>1, <2>2, <2>3, <2>4, StateComplete
  <2> QED BY <2>1, <2>4, <2>5 DEF Mapped, ToVA
<1> QED BY <1>1, BootInvariance, PTL

-----------------------------------------------------------------------------
(***************************************************************************)
(* Refinement of AddressSpace.                                             *)
(***************************************************************************)
\* What the map of AddressSpace is in a state.
Now(va) == IF Mapped(va) THEN Translation(va) ELSE Fault

LEMMA LowerPage ==
    ASSUME NEW va \in LowerHalf
    PROVE  va \in Nat /\ Aligned(va) /\ PhysicalAddress(va) = va
<1>1. va \in Nat /\ Aligned(va) /\ va < KernelVirtualAddressOffset
  BY VirtualPages DEF LowerHalf
<1>2. va \in 0 .. KernelVirtualAddressOffset - 1
  BY <1>1, OffsetAligned
<1> QED BY <1>1, <1>2, BothHalves

\* Only InsertPage changes the map, and at the page that curVA is at home in.
LEMMA MapsOnePage ==
    ASSUME IInv, IInv', InsertPage
    PROVE  \E w \in LowerHalf :
             /\ Now(w)' = Home(w) /\ (Now(w) = Fault \/ Now(w) = Home(w))
             /\ \A va \in LowerHalf \ {w} : Now(va)' = Now(va)
<1>1. step = "insert" /\ step' # "root" /\ code' = code
  BY DEF InsertPage
<1>2. PICK c, w, o : /\ c = curVA /\ c \in Nat /\ Aligned(c) /\ w = PhysicalAddress(c)
                     /\ o = KernelVirtualAddressOffset /\ o \in Nat
  BY <1>1, AtTable, OffsetAligned
<1>3. w \in LowerHalf
  <2>1. w \in 0 .. o - 1 /\ Aligned(w)
    BY <1>2, BaseOf, SameWalk
  <2>2. w \in Nat /\ w < 2 * KernelVirtualAddressOffset /\ w < KernelVirtualAddressOffset
    BY <1>2, <2>1
  <2> QED BY <2>1, <2>2, VirtualPages DEF LowerHalf
<1>4. Home(w) = Home(c)
  BY <1>2, HomeOf
<1>5. ASSUME NEW va \in Nat
      PROVE  /\ Now(va) = Walked(memory, code, 3, va)
             /\ Now(va)' = Walked(memory', code, 3, va)
  <2>1. Now(va) = W3(memory, code, va)
    BY <1>1 DEF Now, Mapped, Translation, Descend, W3, W2, W1, W0, Link
  <2>2. Now(va)' = W3(memory', code, va)
    BY <1>1 DEF Now, Mapped, Translation, Descend, W3, W2, W1, W0, Link
  <2> QED BY <2>1, <2>2 DEF Walked
<1>6. \A va \in Nat : Aligned(va) =>
        Walked(memory', code, 3, va) = IF PhysicalAddress(va) = w THEN Home(w)
                                       ELSE Walked(memory, code, 3, va)
  BY <1>2, <1>4, PageEntered
<1>7. Now(w)' = Home(w)
  BY <1>3, <1>5, <1>6, LowerPage
<1>8. Now(w) = Fault \/ Now(w) = Home(w)
  <2>1. w \in Nat /\ Aligned(w) /\ step # "root"
    BY <1>1, <1>3, LowerPage
  <2> QED BY <2>1, StateTranslations DEF Now
<1>9. ASSUME NEW va \in LowerHalf \ {w}
      PROVE  Now(va)' = Now(va)
  <2>1. va \in Nat /\ Aligned(va) /\ PhysicalAddress(va) # w
    BY <1>9, LowerPage
  <2> QED BY <1>5, <1>6, <2>1
<1> QED BY <1>3, <1>7, <1>8, <1>9

\* The other steps leave the map as it is.
LEMMA MapsNothing ==
    ASSUME IInv, IInv', [Next]_vars, ~InsertPage, NEW va \in LowerHalf
    PROVE  Now(va)' = Now(va)
<1>0. va \in Nat /\ Aligned(va)
  BY LowerPage
<1>1. CASE AllocateRoot
  <2>1. step = "root" /\ code' = code
    BY <1>1 DEF AllocateRoot
  <2>2. Now(va) = Fault
    BY <2>1 DEF Now, Mapped
  <2>3. Now(va)' = Fault
    <3>1. PICK m, n : m = memory' /\ n = code' /\ n \in CodePages /\ m[PgDir(n)] = EmptyTable
                      /\ Typed(m, n)
      <4>1. Current = PgDir(code)
        BY <2>1 DEF IInv, Control
      <4>2. HasPage
        <5>1. PgDir(code) \in Nat /\ PgDir(code) + PageSize <= KernelImageEnd(code)
              /\ KernelImageEnd(code) \in Nat /\ PageSize \in Nat \ {0}
          BY State, ImageLayout, Sizes
        <5> QED BY <4>1, <5>1 DEF HasPage
      <4>3. /\ code \in CodePages /\ Typed(memory, code) /\ PgDir(code) \in TablePage(code)
        BY State, TablePages
      <4>4. memory' = [memory EXCEPT ![PgDir(code)] = EmptyTable]
        BY <1>1, <4>1, <4>2 DEF AllocateRoot, Cleared
      <4>5. memory'[PgDir(code)] = EmptyTable /\ Typed(memory', code)
        BY <4>3, <4>4, FaultTyped DEF Typed
      <4> QED BY <2>1, <4>3, <4>5, Zenon
    <3>2. m[PgDir(n)][TableIndex(0, va)] = Fault
      BY <1>0, <3>1, SlotOf, 0 \in 0 .. 3 DEF EmptyTable, Slot
    <3>3. Fault.address \notin DOMAIN m
      BY <3>1, FaultIs DEF Typed
    <3>4. W3(m, n, va) = Fault
      BY <3>2, <3>3 DEF W3, W2, W1, W0, Link
    <3>5. Translation(va)' = W3(m, n, va)
      BY <3>1 DEF Translation, Descend, W3, W2, W1, W0, Link
    <3> QED BY <3>4, <3>5 DEF Now
  <2> QED BY <2>2, <2>3
<1>2. CASE InsertTable
  <2>1. step = "insert" /\ step' # "root" /\ code' = code
    BY <1>2 DEF InsertTable
  <2>2. Now(va) = W3(memory, code, va) /\ Now(va)' = W3(memory', code, va)
    BY <2>1 DEF Now, Mapped, Translation, Descend, W3, W2, W1, W0, Link
  <2>3. CASE HasPage
    <3>1. Walked(memory', code, 3, va) = Walked(memory, code, 3, va)
      BY <1>0, <1>2, <2>3, TableInserted
    <3> QED BY <2>2, <3>1 DEF Walked
  <2>4. CASE ~HasPage
    BY <1>2, <2>2, <2>4 DEF InsertTable
  <2> QED BY <2>3, <2>4
<1>3. CASE UNCHANGED << code, memory >> /\ step # "root" /\ step' # "root"
  BY <1>3 DEF Now, Mapped, Translation, Descend
<1>4. CASE UNCHANGED vars
  BY <1>4 DEF vars, Now, Mapped, Translation, Descend
<1>5. CASE FollowTable \/ EnableMMU \/ JumpToKernelVA \/ AdjustStack
  BY <1>3, <1>5 DEF FollowTable, EnableMMU, JumpToKernelVA, AdjustStack
<1> QED BY <1>1, <1>2, <1>4, <1>5 DEF Next

\* boot_kernel builds the map of AddressSpace: one page after the other, each
\* for ever, and no other page is touched on the way, whatever tables the walk
\* has to allocate.
THEOREM BootImplementsMap == Spec => ImplementsAddressSpace
<1> DEFINE map == [va \in LowerHalf |-> Now(va)]
<1>1. Init => Mapping!Init
  <2> SUFFICES ASSUME Init PROVE \A va \in LowerHalf : Now(va) = Fault
    BY DEF Mapping!Init, Now
  <2> QED BY DEF Init, Now, Mapped
<1>2. IInv /\ IInv' /\ [Next]_vars => [Mapping!Map]_map
  <2> SUFFICES ASSUME IInv, IInv', [Next]_vars PROVE [Mapping!Map]_map
    OBVIOUS
  <2>1. CASE InsertPage
    <3>1. PICK w \in LowerHalf :
            /\ Now(w)' = Home(w) /\ (Now(w) = Fault \/ Now(w) = Home(w))
            /\ \A va \in LowerHalf \ {w} : Now(va)' = Now(va)
      BY <2>1, MapsOnePage
    <3>2. CASE Now(w) = Fault
      <4>1. Mapping!Map
        BY <3>1, <3>2 DEF Mapping!Map, Now
      <4> QED BY <4>1
    <3>3. CASE Now(w) = Home(w)
      <4>1. \A va \in LowerHalf : Now(va)' = Now(va)
        BY <3>1, <3>3
      <4>2. map' = map
        BY <4>1
      <4> QED BY <4>2
    <3> QED BY <3>1, <3>2, <3>3
  <2>2. CASE ~InsertPage
    <3>1. \A va \in LowerHalf : Now(va)' = Now(va)
      BY <2>2, MapsNothing
    <3>2. map' = map
      BY <3>1
    <3> QED BY <3>2
  <2> QED BY <2>1, <2>2
<1> QED BY <1>1, <1>2, BootInvariance, PTL DEF Spec, ImplementsAddressSpace, Mapping!Spec, Now

=============================================================================
