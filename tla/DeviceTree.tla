------------------------------ MODULE DeviceTree ------------------------------
(***************************************************************************)
(* ParseDeviceTree (kernel/Peripherals/DeviceTree.cpp), which kmain calls  *)
(* if OUTPUT_DEVICE_TREE is defined: it walks over the flattened tree that *)
(* the firmware left in memory and prints what it finds.                   *)
(*                                                                         *)
(* A byte is a number, a character is its byte, and an integer is the      *)
(* sequence of its bytes, the least significant first, as a little-endian  *)
(* load finds them.  What is printed is a sequence of lines: how far a     *)
(* line is indented, what it says, and the texts and integers it shows.    *)
(***************************************************************************)
EXTENDS Integers, Sequences

CONSTANTS
    DTBAddress,       \* where the firmware put the blob
    IndentLevels,     \* the values that the count of the indentation can take (2^32)
    StringListNames,  \* the names of properties that PrettyPrintValue knows:
    StringNames,      \* those of a list of strings, of a string,
    UInt32Names       \* and of an integer of 32 bits

\* The Devicetree specification has a blob start at a multiple of 8 bytes.
ASSUME DeviceTreeAssumption ==
    /\ DTBAddress \in Nat /\ DTBAddress % 8 = 0
    /\ IndentLevels \in Nat \ {0}
    /\ StringListNames \cap (StringNames \union UInt32Names) = {}
    /\ StringNames \cap UInt32Names = {}

VARIABLES
    blob,         \* the bytes at DTBAddress
    walk,         \* the function that ParseDeviceTree is in
    cursor,       \* pcurEntry or pcurToken, as an offset into the blob
    indentLevel,
    listing,      \* what was printed
    read          \* the bytes that the last step has read

walkVars == << blob, walk, cursor, indentLevel, listing, read >>

-----------------------------------------------------------------------------
(***************************************************************************)
(* Memory and integers.                                                    *)
(***************************************************************************)
\* Behind the blob there is memory, too.
Byte(at) == IF at < Len(blob) THEN blob[at + 1] ELSE 0

Load(at, size) == [k \in 1 .. size |-> Byte(at + k - 1)]

Bytes(from, size) == from .. from + size - 1

BEToNative16(n) == << n[2], n[1] >>

\* The high half becomes the low half, and the other way round.
BEToNative32(n) == BEToNative16(SubSeq(n, 3, 4)) \o BEToNative16(SubSeq(n, 1, 2))

BEToNative64(n) == BEToNative32(SubSeq(n, 5, 8)) \o BEToNative32(SubSeq(n, 1, 4))

\* The number of an offset or a length.
NumberOf(n) == n[1] + 256 * n[2] + 65536 * n[3] + 16777216 * n[4]

UInt32At(at) == BEToNative32(Load(at, 4))

UInt64At(at) == BEToNative64(Load(at, 8))

StrLen(at) == CHOOSE n \in 0 .. Len(blob) :
                 Byte(at + n) = 0 /\ \A k \in 0 .. n - 1 : Byte(at + k) # 0

StringAt(at) == Load(at, StrLen(at))

StringBytes(at) == Bytes(at, StrLen(at) + 1)

AlignPointer(at, alignment) ==
    at + ((alignment - ((DTBAddress + at) % alignment)) % alignment)

\* fdt_header
HeaderSize == 40

HeaderField == [magic |-> 0, totalsize |-> 4, off_dt_struct |-> 8, off_dt_strings |-> 12,
                off_mem_rsvmap |-> 16, version |-> 20, last_comp_version |-> 24,
                boot_cpuid_phys |-> 28, size_dt_strings |-> 32, size_dt_struct |-> 36]

Header(name) == UInt32At(HeaderField[name])

Field(name) == NumberOf(Header(name))

ExpectedMagic == << 237, 254, 13, 208 >>
ExpectedVersion == 17

-----------------------------------------------------------------------------
(***************************************************************************)
(* What is printed.                                                        *)
(***************************************************************************)
Line(indent, says, shows) == << [indent |-> indent, says |-> says, shows |-> shows] >>

\* OutputHeader
OutputHeader ==
    Line(0, "header",
         << Header("magic"), Header("totalsize"), Header("off_dt_struct"),
            Header("size_dt_struct"), Header("off_dt_strings"), Header("size_dt_strings"),
            Header("off_mem_rsvmap"), Header("version"), Header("last_comp_version"),
            Header("boot_cpuid_phys") >>)

\* A value as it is printed, and the bytes that are read for it.
Value(says, shows, reads) == [says |-> says, shows |-> shows, reads |-> reads]

PrettyPrintUnknownValue(at, len) == Value("unknown", << Load(at, len) >>, Bytes(at, len))

PrettyPrintUInt32(at, len) ==
    IF len # 4 THEN PrettyPrintUnknownValue(at, len)
               ELSE Value("integer", << UInt32At(at) >>, Bytes(at, 4))

PrettyPrintString(at, len) ==
    LET value == IF len # StrLen(at) + 1 THEN PrettyPrintUnknownValue(at, len)
                 ELSE Value("string", << StringAt(at) >>, {})
    IN  [value EXCEPT !.reads = @ \union StringBytes(at)]

\* The strings from offset curOffset on; the last may end behind the value.
PrettyPrintStringList(at, len) ==
    LET after[curOffset \in 0 .. Len(blob) + 1] ==
            IF curOffset >= len
            THEN Value(IF curOffset # len THEN "bad list" ELSE "list", << >>, {})
            ELSE LET rest == after[curOffset + StrLen(at + curOffset) + 1]
                 IN  Value(rest.says, << StringAt(at + curOffset) >> \o rest.shows,
                           StringBytes(at + curOffset) \union rest.reads)
    IN  after[0]

PrettyPrintValue(name, at, len) ==
    CASE name \in StringListNames -> PrettyPrintStringList(at, len)
      [] name \in StringNames     -> PrettyPrintString(at, len)
      [] name \in UInt32Names     -> PrettyPrintUInt32(at, len)
      [] OTHER                    -> PrettyPrintUnknownValue(at, len)

-----------------------------------------------------------------------------
(***************************************************************************)
(* ParseDeviceTree and OutputMemoryReservationMap.                         *)
(***************************************************************************)
TreeInit ==
    /\ blob = << >> /\ walk = "none"
    /\ cursor = 0 /\ indentLevel = 0
    /\ listing = << >> /\ read = {}

\* The call, for what the firmware left.
ParseDeviceTree(bytes) ==
    /\ walk = "none"
    /\ blob' = bytes
    /\ walk' = "header"
    /\ UNCHANGED << cursor, indentLevel, listing, read >>

CheckHeader ==
    /\ walk = "header"
    /\ read' = Bytes(0, HeaderSize)
    /\ CASE Header("magic") # ExpectedMagic ->
              /\ listing' = Line(0, "magic mismatch", << Header("magic") >>)
              /\ walk' = "done" /\ cursor' = cursor
         [] Header("magic") = ExpectedMagic
              /\ (Field("version") < ExpectedVersion \/ Field("last_comp_version") > ExpectedVersion) ->
              /\ listing' = Line(0, "version check failed",
                                 << Header("version"), Header("last_comp_version") >>)
              /\ walk' = "done" /\ cursor' = cursor
         [] OTHER ->
              /\ listing' = OutputHeader
              /\ walk' = "reservations" /\ cursor' = Field("off_mem_rsvmap")
    /\ UNCHANGED << blob, indentLevel >>

ZeroInteger == [k \in 1 .. 8 |-> 0]

OutputMemoryReservation ==
    /\ walk = "reservations"
    /\ LET address == UInt64At(cursor)
           size    == UInt64At(cursor + 8)
       IN  IF address = ZeroInteger /\ size = ZeroInteger
           THEN /\ walk' = "tokens" /\ cursor' = Field("off_dt_struct") /\ indentLevel' = 0
                /\ listing' = listing
           ELSE /\ listing' = listing \o Line(0, "reservation", << address, size >>)
                /\ cursor' = cursor + 16
                /\ UNCHANGED << walk, indentLevel >>
    /\ read' = Bytes(cursor, 16)
    /\ UNCHANGED blob

-----------------------------------------------------------------------------
(***************************************************************************)
(* OutputDeviceTree: the token that is next decides what is behind it.     *)
(***************************************************************************)
FDT_BEGIN_NODE == << 1, 0, 0, 0 >>
FDT_END_NODE   == << 2, 0, 0, 0 >>
FDT_PROP       == << 3, 0, 0, 0 >>
FDT_NOP        == << 4, 0, 0, 0 >>
FDT_END        == << 9, 0, 0, 0 >>

EndOfTokens == Field("off_dt_struct") + Field("size_dt_struct")

\* Mutant: only a token behind the end ends the walk.
BehindEnd(next) == next > EndOfTokens

RanOff(next) == next >= EndOfTokens

\* A token was dealt with: lines to print, where its data ends, and what was read.
Continue(lines, next, reads) ==
    /\ cursor' = next
    /\ IF RanOff(next)
       THEN /\ listing' = listing \o lines \o Line(0, "ran off the end", << >>)
            /\ walk' = "done"
       ELSE /\ listing' = listing \o lines
            /\ walk' = walk
    /\ read' = Bytes(cursor, 4) \union reads
    /\ blob' = blob

NextIs(token) == walk = "tokens" /\ UInt32At(cursor) = token

\* The token, and behind it the data of OutputBeginNode and the others.
ExtraData == cursor + 4

OutputBeginNode ==
    /\ NextIs(FDT_BEGIN_NODE)
    /\ Continue(Line(indentLevel, "begin", << StringAt(ExtraData) >>),
                AlignPointer(ExtraData + StrLen(ExtraData) + 1, 4), StringBytes(ExtraData))
    /\ indentLevel' = (indentLevel + 1) % IndentLevels

\* Mutant: the line is printed before the count goes down.
IndentedBefore == indentLevel

IndentedAfter == (indentLevel - 1) % IndentLevels

OutputEndNode ==
    /\ NextIs(FDT_END_NODE)
    /\ Continue(Line(IndentedAfter, "end", << >>), ExtraData, {})
    /\ indentLevel' = (indentLevel - 1) % IndentLevels

OutputProp ==
    /\ NextIs(FDT_PROP)
    /\ LET len   == NumberOf(UInt32At(ExtraData))
           pname == Field("off_dt_strings") + NumberOf(UInt32At(ExtraData + 4))
           at    == ExtraData + 8
           value == IF len = 0 THEN Value("flag", << >>, {})
                    ELSE PrettyPrintValue(StringAt(pname), at, len)
       IN  Continue(Line(indentLevel, value.says, << StringAt(pname) >> \o value.shows),
                    AlignPointer(at + len, 4),
                    Bytes(ExtraData, 8) \union StringBytes(pname) \union value.reads)
    /\ UNCHANGED indentLevel

OutputNop ==
    /\ NextIs(FDT_NOP)
    /\ Continue(<< >>, ExtraData, {})
    /\ UNCHANGED indentLevel

Finish(lines) ==
    /\ walk' = "done"
    /\ listing' = listing \o lines
    /\ cursor' = ExtraData
    /\ read' = Bytes(cursor, 4)
    /\ UNCHANGED << blob, indentLevel >>

OutputEnd == NextIs(FDT_END) /\ Finish(<< >>)

UnknownToken ==
    /\ walk = "tokens"
    /\ UInt32At(cursor) \notin {FDT_BEGIN_NODE, FDT_END_NODE, FDT_PROP, FDT_NOP, FDT_END}
    /\ Finish(Line(0, "unknown token", << UInt32At(cursor) >>))

OutputDeviceTree ==
    \/ OutputBeginNode \/ OutputEndNode \/ OutputProp \/ OutputNop \/ OutputEnd \/ UnknownToken

WalkNext == CheckHeader \/ OutputMemoryReservation \/ OutputDeviceTree

\* ParseDeviceTree returns, and nothing is left of its locals.
WalkReturns ==
    /\ walk = "done"
    /\ blob' = << >> /\ walk' = "returned"
    /\ cursor' = 0 /\ indentLevel' = 0
    /\ listing' = << >> /\ read' = {}
=============================================================================
