--------------------------- MODULE RegisterFields ---------------------------
(***************************************************************************)
(* A value of one of the classes of SystemRegisters: made by its           *)
(* constructor, or read from a register or a table where any bits may be   *)
(* set, and then changed by any sequence of its setters.                   *)
(***************************************************************************)
EXTENDS SystemRegisters

CONSTANTS
    ReadWord,    \* what a register or an entry may hold when it is read
    GivenAddress \* the addresses that setters are given

ASSUME InputsAssumption == ReadWord \subseteq Word /\ GivenAddress \subseteq Word

\* The tables of SystemRegisters have no parameter: TLC checks this for good.
\* The fields of a class are inside the word and apart from each other, from
\* the bits that the constructor sets and, in a descriptor, from its type.  What
\* the constructor of a descriptor sets is its type.
ASSUME LayoutAssumption ==
    \A c \in DOMAIN Classes :
        /\ Classes[c].constructed \in Word
        /\ c \in DOMAIN Type => Classes[c].constructed = Type[c]
        /\ \A n \in DOMAIN Classes[c].fields :
             LET f == Classes[c].fields[n]
             IN  /\ f.mask \in Word /\ f.shift \in Bit
                 /\ \A i \in f.mask : i + f.shift \in Bit
                 /\ \A value \in f.values : value \subseteq f.mask
                 /\ FieldBits(f) \intersect Classes[c].constructed = {}
                 /\ c \in DOMAIN Type => FieldBits(f) \intersect {0, 1} = {}
                 /\ \A m \in DOMAIN Classes[c].fields \ {n} :
                      FieldBits(f) \intersect FieldBits(Classes[c].fields[m]) = {}

VARIABLES
    class,     \* the name of its class
    made,      \* the bits it was made with
    bitset,    \* RegisterValue, Attributes or DescriptorBits
    last       \* what each field was last set to

vars == << class, made, bitset, last >>

Fields == Classes[class].fields

\* A value is made by the constructor, or from bits that were read: of a system
\* register any, of an entry those that passed the test of its type.  A fault is
\* any word of a table whose bit 0 is clear (MemoryDescriptor.h:231 and 264), also
\* one that Fault::IsType refuses; it has no setters, and bitset stands for the word.
ReadAs(c) ==
    CASE c = "Fault" -> {(w \ {0, 1}) \union b : w \in ReadWord, b \in {{}, {1}}}
      [] c \in DOMAIN Type \ {"Fault"} -> {Type[c] \union (w \ {0, 1}) : w \in ReadWord}
      [] OTHER -> ReadWord

Made(c) == {Classes[c].constructed} \union ReadAs(c)

Init ==
    /\ class \in DOMAIN Classes
    /\ made \in Made(class)
    /\ bitset = made
    /\ last = [name \in DOMAIN Fields |-> GetField(made, Fields[name])]

Inputs(f) == IF f.values = {} THEN GivenAddress ELSE f.values

Set(name) == \E value \in Inputs(Fields[name]) :
    /\ bitset' = SetField(bitset, Fields[name], value)
    /\ last' = [last EXCEPT ![name] = value \intersect Fields[name].mask]
    /\ UNCHANGED << class, made >>

Next == \E name \in DOMAIN Fields : Set(name)

Spec == Init /\ [][Next]_vars

-----------------------------------------------------------------------------
(***************************************************************************)
(* Properties.                                                             *)
(***************************************************************************)
\* No setter writes outside the 64 bits, and no getter returns more than its
\* field holds.
TypeOK ==
    /\ class \in DOMAIN Classes
    /\ made \in Word
    /\ bitset \in Word
    /\ last \in [DOMAIN Fields -> Word]
    /\ \A name \in DOMAIN Fields : last[name] \subseteq Fields[name].mask

\* Every getter returns what its setter was last given, cut to the field, and
\* whatever the other setters were given since.
GettersReturnLast == \A name \in DOMAIN Fields : GetField(bitset, Fields[name]) = last[name]

\* The bits that belong to no field stay as they were, as the reserved bits of
\* a register must (SystemRegisters.h: "preserve value (read-modify-write)").
OtherBitsKept == bitset \ ClassBits(Classes[class]) = made \ ClassBits(Classes[class])

\* An entry is visited as what it is, at each level its class can be used at,
\* and as nothing else; TypeOf is all that Entry::Visit looks at.  A fault whose
\* bit 1 is set is visited as nothing: the comments of MemoryDescriptor.h (231 and
\* 264-265) count it as a fault, Fault::IsType and its test (UnitTests/AArch64/MemoryDescriptorTests.cpp:53)
\* do not, and the caller of Visit is not told.
VisitedAsItself ==
    \A level \in 0 .. 3 :
        class \in {View[level][i] : i \in DOMAIN View[level]} =>
           Visited(level, bitset) = IF class = "Fault" /\ 1 \in bitset THEN {} ELSE {class}
=============================================================================
