---------------------------- MODULE DeviceTreeBlob ----------------------------
(***************************************************************************)
(* Flattened device trees: what the Devicetree specification (chapter 5),  *)
(* which kernel/Peripherals/DeviceTree.cpp cites, has the firmware leave   *)
(* in memory, and what a listing of such a tree should show.               *)
(*                                                                         *)
(* A tree is written down in the order in which it is flattened: the       *)
(* beginnings and ends of its nodes, with their properties in between.     *)
(***************************************************************************)
EXTENDS DeviceTree, FiniteSets

SeqsExt == INSTANCE SequencesExt

Item(token, name, value) == [token |-> token, name |-> name, value |-> value]

Begin(name)       == Item("begin", name, << >>)
End               == Item("end", << >>, << >>)
Prop(name, value) == Item("prop", name, value)
Nop               == Item("nop", << >>, << >>)

\* A tree with what else is in its blob.  The structure block ends with FDT_END,
\* with another token, or without any if it is cut off.
Tree(items, ending, reservations, magic, version, lastCompatible) ==
    [items |-> items, ending |-> ending, reservations |-> reservations,
     magic |-> magic, version |-> version, lastCompatible |-> lastCompatible]

-----------------------------------------------------------------------------
(***************************************************************************)
(* The blob.  Integers are stored with the most significant byte first.    *)
(***************************************************************************)
BigEndian(n) == << n \div 16777216, (n \div 65536) % 256, (n \div 256) % 256, n % 256 >>

Zeros(n) == [k \in 1 .. n |-> 0]

Padded(bytes, alignment) == bytes \o Zeros((alignment - (Len(bytes) % alignment)) % alignment)

Concatenated(Part(_), count) == SeqsExt!FlattenSeq([k \in 1 .. count |-> Part(k)])

\* The strings block has the names of all properties, in order.
StringsBefore(items, k) ==
    Concatenated(LAMBDA j : IF items[j].token = "prop" THEN items[j].name \o << 0 >> ELSE << >>,
                 k - 1)

ItemBytes(items, k) ==
    LET item == items[k]
    IN  CASE item.token = "begin" -> BigEndian(1) \o Padded(item.name \o << 0 >>, 4)
          [] item.token = "end"   -> BigEndian(2)
          [] item.token = "prop"  -> BigEndian(3) \o BigEndian(Len(item.value))
                                       \o BigEndian(Len(StringsBefore(items, k)))
                                       \o Padded(item.value, 4)
          [] item.token = "nop"   -> BigEndian(4)

Ending(tree) == CASE tree.ending = "end"     -> BigEndian(9)
                  [] tree.ending = "unknown" -> BigEndian(5)
                  [] tree.ending = "none"    -> << >>

StructureBlock(tree) ==
    Concatenated(LAMBDA k : ItemBytes(tree.items, k), Len(tree.items)) \o Ending(tree)

StringsBlock(tree) == StringsBefore(tree.items, Len(tree.items) + 1)

ReservationBlock(tree) == SeqsExt!FlattenSeq(tree.reservations) \o Zeros(16)

\* The fields of the header, in the order in which OutputHeader shows them.
Layout(tree) ==
    LET off_mem_rsvmap == 40
        off_dt_struct  == off_mem_rsvmap + Len(ReservationBlock(tree))
        off_dt_strings == off_dt_struct + Len(StructureBlock(tree))
    IN  [totalsize |-> off_dt_strings + Len(StringsBlock(tree)),
         off_dt_struct |-> off_dt_struct, size_dt_struct |-> Len(StructureBlock(tree)),
         off_dt_strings |-> off_dt_strings, size_dt_strings |-> Len(StringsBlock(tree)),
         off_mem_rsvmap |-> off_mem_rsvmap,
         version |-> tree.version, last_comp_version |-> tree.lastCompatible,
         boot_cpuid_phys |-> 0]

Blob(tree) ==
    LET layout == Layout(tree)
    IN  tree.magic \o BigEndian(layout.totalsize) \o BigEndian(layout.off_dt_struct)
          \o BigEndian(layout.off_dt_strings) \o BigEndian(layout.off_mem_rsvmap)
          \o BigEndian(layout.version) \o BigEndian(layout.last_comp_version)
          \o BigEndian(layout.boot_cpuid_phys) \o BigEndian(layout.size_dt_strings)
          \o BigEndian(layout.size_dt_struct)
          \o ReservationBlock(tree) \o StructureBlock(tree) \o StringsBlock(tree)

-----------------------------------------------------------------------------
(***************************************************************************)
(* The listing.                                                            *)
(***************************************************************************)
\* How many nodes have begun and not ended.
Depth(items, k) ==
    LET places(token) == {j \in 1 .. k : items[j].token = token}
    IN  Cardinality(places("begin")) - Cardinality(places("end"))

\* The places where the strings of a value end: at their zeros, and the last one at
\* the end of the value if that is not a zero.
Ends(value) == {k \in DOMAIN value : value[k] = 0 \/ k = Len(value)}

EndsUpTo(value, k) == {e \in Ends(value) : e <= k}

EndOf(value, n) == CHOOSE k \in Ends(value) : Cardinality(EndsUpTo(value, k)) = n

Strings(value) ==
    [n \in 1 .. Cardinality(Ends(value)) |->
       LET end   == EndOf(value, n)
           start == IF n = 1 THEN 1 ELSE EndOf(value, n - 1) + 1
       IN  SubSeq(value, start, IF value[end] = 0 THEN end - 1 ELSE end)]

Terminated0(value) == value[Len(value)] = 0

\* What is said of a property, and what is shown of its value.
Shows(name, value) ==
    LET unknown == << "unknown", << value >> >>
    IN  CASE value = << >> -> << "flag", << >> >>
          [] value # << >> /\ name \in StringListNames ->
               << IF Terminated0(value) THEN "list" ELSE "bad list", Strings(value) >>
          [] value # << >> /\ name \in StringNames ->
               IF Terminated0(value) /\ Len(Strings(value)) = 1
               THEN << "string", Strings(value) >> ELSE unknown
          [] value # << >> /\ name \in UInt32Names ->
               IF Len(value) = 4 THEN << "integer", << SeqsExt!Reverse(value) >> >> ELSE unknown
          [] OTHER -> unknown

ItemLines(items, k) ==
    LET item == items[k]
    IN  CASE item.token = "begin" -> Line(Depth(items, k) - 1, "begin", << item.name >>)
          [] item.token = "end"   -> Line(Depth(items, k), "end", << >>)
          [] item.token = "prop"  -> LET shows == Shows(item.name, item.value)
                                     IN  Line(Depth(items, k), shows[1], << item.name >> \o shows[2])
          [] item.token = "nop"   -> << >>

HeaderLine(tree) ==
    LET layout == Layout(tree)
        Native(n) == SeqsExt!Reverse(BigEndian(n))
    IN  Line(0, "header",
             << ExpectedMagic, Native(layout.totalsize), Native(layout.off_dt_struct),
                Native(layout.size_dt_struct), Native(layout.off_dt_strings),
                Native(layout.size_dt_strings), Native(layout.off_mem_rsvmap),
                Native(layout.version), Native(layout.last_comp_version),
                Native(layout.boot_cpuid_phys) >>)

EndingLine(tree) == CASE tree.ending = "end"     -> << >>
                      [] tree.ending = "unknown" -> Line(0, "unknown token", << << 5, 0, 0, 0 >> >>)
                      [] tree.ending = "none"    -> Line(0, "ran off the end", << >>)

TreeListing(tree) ==
    CASE tree.magic # SeqsExt!Reverse(ExpectedMagic) ->
           Line(0, "magic mismatch", << SeqsExt!Reverse(tree.magic) >>)
      [] tree.magic = SeqsExt!Reverse(ExpectedMagic) /\ ~(17 \in tree.lastCompatible .. tree.version) ->
           Line(0, "version check failed",
                << SeqsExt!Reverse(BigEndian(tree.version)), SeqsExt!Reverse(BigEndian(tree.lastCompatible)) >>)
      [] OTHER ->
           HeaderLine(tree)
             \o Concatenated(LAMBDA k : Line(0, "reservation",
                                             << SeqsExt!Reverse(SubSeq(tree.reservations[k], 1, 8)),
                                                SeqsExt!Reverse(SubSeq(tree.reservations[k], 9, 16)) >>),
                             Len(tree.reservations))
             \o Concatenated(LAMBDA k : ItemLines(tree.items, k), Len(tree.items))
             \o EndingLine(tree)

-----------------------------------------------------------------------------
(***************************************************************************)
(* The trees that a firmware flattens.                                     *)
(***************************************************************************)
Octet == 0 .. 255
Text  == Seq(1 .. 255)

\* The nodes nest, and all is inside the root.
IsTree(items) ==
    /\ Len(items) > 1
    /\ \A k \in 1 .. Len(items) - 1 : Depth(items, k) > 0
    /\ Depth(items, Len(items)) = 0

Reservation == [1 .. 16 -> Octet] \ {Zeros(16)}

\* What a blob says of itself is a number of 31 bits: it is in the memory of the
\* machine, as is what it describes.
Number == {n \in Nat : n <= 2147483647}

\* A tree that a blob can hold, and that is no deeper than the indentation counts.
IsFlattened(tree) ==
    /\ tree \in [items          : Seq([token : {"begin", "end", "prop", "nop"},
                                       name : Text, value : Seq(Octet)]),
                  ending         : {"end", "unknown", "none"},
                  reservations   : Seq(Reservation),
                  magic          : [1 .. 4 -> Octet],
                  version        : Number,
                  lastCompatible : Number]
    /\ IsTree(tree.items)
    /\ Layout(tree).totalsize \in Number
    /\ \A k \in 1 .. Len(tree.items) : Depth(tree.items, k) < IndentLevels
=============================================================================
