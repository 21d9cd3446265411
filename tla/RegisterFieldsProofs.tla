------------------------ MODULE RegisterFieldsProofs ------------------------
(***************************************************************************)
(* What the setters and getters of SystemRegisters promise, proved for any *)
(* sequence of calls on a value of any class, with any inputs.             *)
(***************************************************************************)
EXTENDS RegisterFields, TLAPS

\* What is read from a field is what was written to it, cut to the mask.
LEMMA ReadWritten ==
    ASSUME NEW w, NEW value, NEW mask \in Word, NEW shift \in Bit,
           \A i \in mask : i + shift \in Bit
    PROVE  ReadMultiBitValue(WriteMultiBitValue(w, value, mask, shift), mask, shift)
             = value \intersect mask
<1> DEFINE written == WriteMultiBitValue(w, value, mask, shift)
<1>1. written \intersect Shifted(mask, shift) = Shifted(value \intersect mask, shift)
  BY DEF WriteMultiBitValue, Shifted
<1>2. Shifted(value \intersect mask, shift) = {i + shift : i \in value \intersect mask}
  BY DEF Shifted
<1>3. \A i \in value \intersect mask : i \in Int /\ shift \in Int /\ (i + shift) - shift = i
  <2>1. \A i \in value \intersect mask : i \in Bit
    BY DEF Word
  <2> QED
    BY <2>1 DEF Bit
<1>4. {j - shift : j \in {i + shift : i \in value \intersect mask}} = value \intersect mask
  <2>1. ASSUME NEW x \in {j - shift : j \in {i + shift : i \in value \intersect mask}}
        PROVE  x \in value \intersect mask
    <3>1. PICK i \in value \intersect mask : x = (i + shift) - shift
      OBVIOUS
    <3> QED
      BY <1>3, <3>1
  <2>2. ASSUME NEW x \in value \intersect mask
        PROVE  x \in {j - shift : j \in {i + shift : i \in value \intersect mask}}
    <3>1. x = (x + shift) - shift /\ x + shift \in {i + shift : i \in value \intersect mask}
      BY <1>3
    <3> QED
      BY <3>1
  <2> QED
    BY <2>1, <2>2
<1> QED
  BY <1>1, <1>2, <1>4 DEF ReadMultiBitValue

\* A field that shares no bit with the one that is written reads as before.
LEMMA ReadOther ==
    ASSUME NEW w, NEW value, NEW mask, NEW shift, NEW mask2, NEW shift2,
           Shifted(mask, shift) \intersect Shifted(mask2, shift2) = {}
    PROVE  ReadMultiBitValue(WriteMultiBitValue(w, value, mask, shift), mask2, shift2)
             = ReadMultiBitValue(w, mask2, shift2)
<1>1. Shifted(value \intersect mask, shift) \subseteq Shifted(mask, shift)
  BY DEF Shifted
<1>2. WriteMultiBitValue(w, value, mask, shift) \intersect Shifted(mask2, shift2)
        = w \intersect Shifted(mask2, shift2)
  BY <1>1 DEF WriteMultiBitValue
<1> QED
  BY <1>2 DEF ReadMultiBitValue

\* A setter changes bits of its field only, and leaves a word.
LEMMA WriteInField ==
    ASSUME NEW w \in Word, NEW value, NEW mask, NEW shift
    PROVE  /\ WriteMultiBitValue(w, value, mask, shift) \in Word
           /\ WriteMultiBitValue(w, value, mask, shift) \ Shifted(mask, shift)
                = w \ Shifted(mask, shift)
BY DEF WriteMultiBitValue, Shifted, Word

\* What a getter returns is inside its mask.
LEMMA ReadInMask ==
    ASSUME NEW w \in Word, NEW mask \in Word, NEW shift \in Bit
    PROVE  ReadMultiBitValue(w, mask, shift) \subseteq mask
<1>1. ASSUME NEW x \in ReadMultiBitValue(w, mask, shift) PROVE x \in mask
  <2>1. PICK i \in mask : x = (i + shift) - shift
    BY DEF ReadMultiBitValue, Shifted
  <2>2. i \in Int /\ shift \in Int
    BY DEF Word, Bit
  <2> QED
    BY <2>1, <2>2
<1> QED
  BY <1>1

\* The part of LayoutAssumption that the proofs use.
LEMMA Layout ==
    ASSUME NEW c \in DOMAIN Classes, NEW n \in DOMAIN Classes[c].fields
    PROVE  LET f == Classes[c].fields[n]
           IN  /\ f.mask \in Word /\ f.shift \in Bit
               /\ \A i \in f.mask : i + f.shift \in Bit
               /\ \A m \in DOMAIN Classes[c].fields \ {n} :
                    FieldBits(f) \intersect FieldBits(Classes[c].fields[m]) = {}
BY LayoutAssumption

\* Whatever a value is made from is a word.
LEMMA MadeIsWord ==
    ASSUME NEW c \in DOMAIN Classes PROVE Made(c) \subseteq Word
<1>1. Classes[c].constructed \in Word
  BY LayoutAssumption
<1>2. ReadWord \subseteq Word
  BY InputsAssumption
<1>3. ASSUME c \in DOMAIN Type PROVE Type[c] \subseteq Bit
  BY <1>3, {0, 1} \subseteq Bit DEF Type, FaultType, TableType, PageType, BlockType, Bit
<1>4. ReadAs(c) \subseteq Word
  <2>1. {1} \subseteq Bit
    BY DEF Bit
  <2>2. CASE c = "Fault"
    BY <1>2, <2>1, <2>2 DEF ReadAs, Word
  <2>3. CASE c # "Fault"
    BY <1>2, <1>3, <2>3 DEF ReadAs, Word
  <2> QED
    BY <2>2, <2>3
<1> QED
  BY <1>1, <1>4 DEF Made

-----------------------------------------------------------------------------
\* The inductive invariant.
FieldsInv == TypeOK /\ GettersReturnLast /\ OtherBitsKept

\* It holds of a value just made, by a constructor or from bits that were read.
LEMMA FieldsInit == Init => FieldsInv
<1> SUFFICES ASSUME Init PROVE FieldsInv
  OBVIOUS
<1>1. class \in DOMAIN Classes /\ made \in Word /\ bitset = made
  BY MadeIsWord DEF Init
<1>2. \A n \in DOMAIN Fields :
        /\ Fields[n].mask \in Word /\ Fields[n].shift \in Bit
        /\ last[n] = GetField(made, Fields[n])
  BY <1>1, Layout DEF Init, Fields
<1>3. ASSUME NEW n \in DOMAIN Fields
      PROVE  last[n] \subseteq Fields[n].mask /\ last[n] \in Word
  <2>1. last[n] \subseteq Fields[n].mask
    BY <1>1, <1>2, ReadInMask DEF GetField
  <2> QED
    BY <1>2, <2>1 DEF Word
<1>4. TypeOK
  <2>1. last \in [DOMAIN Fields -> Word]
    BY <1>3 DEF Init
  <2> QED
    BY <1>1, <1>3, <2>1 DEF TypeOK
<1>5. GettersReturnLast
  BY <1>1, <1>2 DEF GettersReturnLast
<1>6. OtherBitsKept
  BY <1>1 DEF OtherBitsKept
<1> QED
  BY <1>4, <1>5, <1>6 DEF FieldsInv

\* Every setter keeps it.
LEMMA FieldsNext == FieldsInv /\ [Next]_vars => FieldsInv'
<1> SUFFICES ASSUME FieldsInv, [Next]_vars PROVE FieldsInv'
  OBVIOUS
<1>1. CASE UNCHANGED vars
  BY <1>1 DEF vars, FieldsInv, TypeOK, GettersReturnLast, OtherBitsKept, Fields
<1>2. ASSUME NEW name \in DOMAIN Fields, Set(name) PROVE FieldsInv'
  <2>1. PICK value \in Inputs(Fields[name]) :
          /\ bitset' = SetField(bitset, Fields[name], value)
          /\ last' = [last EXCEPT ![name] = value \intersect Fields[name].mask]
          /\ class' = class /\ made' = made
    BY <1>2 DEF Set
  <2> DEFINE f == Fields[name]
  <2>2. class \in DOMAIN Classes /\ bitset \in Word /\ last \in [DOMAIN Fields -> Word]
    BY DEF FieldsInv, TypeOK
  <2>3. Fields' = Fields
    BY <2>1 DEF Fields
  <2>4. /\ f.mask \in Word /\ f.shift \in Bit
        /\ \A i \in f.mask : i + f.shift \in Bit
        /\ \A m \in DOMAIN Fields \ {name} : FieldBits(f) \intersect FieldBits(Fields[m]) = {}
    BY <2>2, Layout DEF Fields
  <2>5. /\ bitset' \in Word
        /\ bitset' \ FieldBits(f) = bitset \ FieldBits(f)
    BY <2>1, <2>2, WriteInField DEF SetField, FieldBits
  <2>6. last'[name] = value \intersect f.mask
    BY <2>1, <2>2
  <2>7. \A m \in DOMAIN Fields \ {name} : last'[m] = last[m]
    BY <2>1, <2>2
  <2>8. TypeOK'
    <3>1. value \intersect f.mask \in Word
      BY <2>4 DEF Word
    <3>2. last' \in [DOMAIN Fields -> Word]
      BY <2>1, <2>2, <3>1
    <3>3. \A m \in DOMAIN Fields : last'[m] \subseteq Fields[m].mask
      BY <2>6, <2>7 DEF FieldsInv, TypeOK
    <3> QED
      BY <2>1, <2>2, <2>3, <2>5, <3>2, <3>3 DEF FieldsInv, TypeOK
  <2>9. GettersReturnLast'
    <3>1. GetField(bitset', f) = last'[name]
      <4>1. ReadMultiBitValue(WriteMultiBitValue(bitset, value, f.mask, f.shift), f.mask, f.shift)
              = value \intersect f.mask
        BY <2>4, ReadWritten
      <4> QED
        BY <2>1, <2>6, <4>1 DEF GetField, SetField
    <3>2. ASSUME NEW m \in DOMAIN Fields \ {name} PROVE GetField(bitset', Fields[m]) = last'[m]
      <4>1. GetField(bitset', Fields[m]) = GetField(bitset, Fields[m])
        BY <2>1, <2>4, ReadOther DEF GetField, SetField, FieldBits
      <4> QED
        BY <2>7, <4>1 DEF FieldsInv, GettersReturnLast
    <3> QED
      BY <2>3, <3>1, <3>2 DEF GettersReturnLast
  <2>10. OtherBitsKept'
    <3>1. FieldBits(f) \subseteq ClassBits(Classes[class])
      BY DEF ClassBits, Fields
    <3>2. bitset' \ ClassBits(Classes[class]) = bitset \ ClassBits(Classes[class])
      BY <2>5, <3>1
    <3> QED
      BY <2>1, <3>2 DEF FieldsInv, OtherBitsKept
  <2> QED
    BY <2>8, <2>9, <2>10 DEF FieldsInv
<1> QED
  BY <1>1, <1>2 DEF Next

\* Hence it holds after every sequence of calls of setters.
THEOREM FieldsInvariance == Spec => []FieldsInv
<1> QED
  BY FieldsInit, FieldsNext, PTL DEF Spec

\* A getter returns what its setter was last given, in every class, whatever
\* calls and inputs came in between (SystemRegisters.cpp, MemoryDescriptor.cpp).
THEOREM GettersCorrect == Spec => []GettersReturnLast
<1>1. FieldsInv => GettersReturnLast
  BY DEF FieldsInv
<1> QED
  BY <1>1, FieldsInvariance, PTL

\* No setter changes a bit outside the fields: what a register's reserved bits
\* or an entry's type were when the value was made they still are.
THEOREM OtherBitsUntouched == Spec => []OtherBitsKept
<1>1. FieldsInv => OtherBitsKept
  BY DEF FieldsInv
<1> QED
  BY <1>1, FieldsInvariance, PTL
-----------------------------------------------------------------------------
\* What is an entry of class c: it has the type of the class, or it is a fault
\* that Fault::IsType refuses.
Typed(c, w) == IsType(c, w) \/ (c = "Fault" /\ TypeOf(w) = {1})

\* A descriptor has its type from the start, from its constructor or from the test
\* that it passed.
LEMMA MadeTyped ==
    ASSUME NEW c \in DOMAIN Classes, c \in DOMAIN Type, NEW w \in Made(c)
    PROVE  Typed(c, w)
<1>1. CASE w = Classes[c].constructed
  <2>1. Classes[c].constructed = Type[c]
    BY LayoutAssumption
  <2> QED
    BY <1>1, <2>1 DEF Typed, IsType, TypeOf, Type, FaultType, TableType, PageType, BlockType
<1>2. CASE c = "Fault" /\ w \in ReadAs(c)
  <2>1. PICK r \in ReadWord, b \in {{}, {1}} : w = (r \ {0, 1}) \union b
    BY <1>2 DEF ReadAs
  <2>2. TypeOf(w) = b
    BY <2>1 DEF TypeOf
  <2>3. Type["Fault"] = {}
    BY DEF Type, FaultType
  <2> QED
    BY <1>2, <2>1, <2>2, <2>3 DEF Typed, IsType
<1>3. CASE c # "Fault" /\ w \in ReadAs(c)
  <2>1. PICK r \in ReadWord : w = Type[c] \union (r \ {0, 1})
    BY <1>3 DEF ReadAs
  <2>2. Type[c] \subseteq {0, 1}
    BY DEF Type, FaultType, TableType, PageType, BlockType
  <2> QED
    BY <2>1, <2>2 DEF Typed, IsType, TypeOf
<1> QED
  BY <1>1, <1>2, <1>3 DEF Made

\* No field of a descriptor is in the bits of its type.
LEMMA TypeIsNoField ==
    ASSUME NEW c \in DOMAIN Classes, c \in DOMAIN Type
    PROVE  ClassBits(Classes[c]) \intersect {0, 1} = {}
<1>1. \A n \in DOMAIN Classes[c].fields :
        FieldBits(Classes[c].fields[n]) \intersect {0, 1} = {}
  BY LayoutAssumption
<1> QED
  BY <1>1 DEF ClassBits

\* What has the type of a class is visited as that class, at each level where
\* the class occurs: the types that are looked at before are others.
LEMMA VisitedByType ==
    ASSUME NEW level \in 0 .. 3, NEW c, NEW w, IsType(c, w),
           c \in {View[level][i] : i \in DOMAIN View[level]}
    PROVE  Visited(level, w) = {c}
<1> DEFINE view == View[level]
<1>1. \/ view = << "Fault", "Table" >>
      \/ view = << "Fault", "Table", "L1Block" >>
      \/ view = << "Fault", "Table", "L2Block" >>
      \/ view = << "Fault", "Page" >>
  BY DEF View
<1>2. \A i, j \in DOMAIN view : Type[view[i]] = Type[view[j]] => i = j
  <2>1. {} # {0} /\ {} # {0, 1} /\ {0} # {0, 1}
    OBVIOUS
  <2> QED
    BY <1>1, <2>1 DEF Type, FaultType, TableType, PageType, BlockType
<1>3. PICK k \in DOMAIN view : c = view[k]
  OBVIOUS
<1>4. \A i \in DOMAIN view : IsType(view[i], w) <=> i = k
  BY <1>2, <1>3 DEF IsType
<1>5. \A i \in DOMAIN view : 1 .. i - 1 \subseteq DOMAIN view /\ i \notin 1 .. i - 1
  BY <1>1
<1>6. {i \in DOMAIN view :
         IsType(view[i], w) /\ \A j \in 1 .. i - 1 : ~IsType(view[j], w)} = {k}
  BY <1>4, <1>5
<1> QED
  BY <1>3, <1>6 DEF Visited

\* What has the type of no class is visited as none.
LEMMA VisitedAsNone ==
    ASSUME NEW level \in 0 .. 3, NEW w, TypeOf(w) = {1}
    PROVE  Visited(level, w) = {}
<1>1. View[level] \in {<< "Fault", "Table" >>, << "Fault", "Table", "L1Block" >>,
                       << "Fault", "Table", "L2Block" >>, << "Fault", "Page" >>}
  BY DEF View
<1>2. \A i \in DOMAIN View[level] : View[level][i] \in DOMAIN Type
  BY <1>1 DEF Type
<1>3. \A name \in DOMAIN Type : Type[name] # {1}
  <2>1. {} # {1} /\ {0} # {1} /\ {0, 1} # {1}
    OBVIOUS
  <2> QED
    BY <2>1 DEF Type, FaultType, TableType, PageType, BlockType
<1> QED
  BY <1>2, <1>3 DEF Visited, IsType

\* A value keeps what it was made with, which has its type.
LEMMA TypesInit == Init => (class \in DOMAIN Type => Typed(class, made))
BY MadeTyped DEF Init

LEMMA TypesNext ==
    (class \in DOMAIN Type => Typed(class, made)) /\ [Next]_vars
        => (class \in DOMAIN Type => Typed(class, made))'
BY DEF Next, Set, vars

\* An entry of a page table stays visited as what it is, whatever its setters are
\* given: the types are told apart by the two bits that no setter reaches
\* (MemoryDescriptor.h: Entry::Visit).  Of all words, only one with bit 0 clear and
\* bit 1 set is visited as nothing.
THEOREM EntriesVisited == Spec => []VisitedAsItself
<1>1. ASSUME FieldsInv, class \in DOMAIN Type => Typed(class, made)
      PROVE  VisitedAsItself
  <2> SUFFICES ASSUME NEW level \in 0 .. 3,
                      class \in {View[level][i] : i \in DOMAIN View[level]}
               PROVE  Visited(level, bitset) =
                        IF class = "Fault" /\ 1 \in bitset THEN {} ELSE {class}
    BY DEF VisitedAsItself
  <2>1. class \in DOMAIN Type
    <3>1. View[level] \in {<< "Fault", "Table" >>, << "Fault", "Table", "L1Block" >>,
                           << "Fault", "Table", "L2Block" >>, << "Fault", "Page" >>}
      BY DEF View
    <3> QED
      BY <3>1 DEF Type
  <2>2. TypeOf(bitset) = TypeOf(made)
    <3>1. ClassBits(Classes[class]) \intersect {0, 1} = {}
      BY <1>1, <2>1, TypeIsNoField DEF FieldsInv, TypeOK
    <3> QED
      BY <1>1, <3>1 DEF FieldsInv, OtherBitsKept, TypeOf
  <2>3. CASE IsType(class, bitset)
    <3>1. class = "Fault" => 1 \notin bitset
      BY <2>3 DEF IsType, TypeOf, Type, FaultType
    <3> QED
      BY <2>3, <3>1, VisitedByType
  <2>4. CASE class = "Fault" /\ TypeOf(bitset) = {1}
    <3>1. 1 \in bitset
      BY <2>4 DEF TypeOf
    <3> QED
      BY <2>4, <3>1, VisitedAsNone
  <2> QED
    BY <1>1, <2>1, <2>2, <2>3, <2>4 DEF Typed, IsType
<1> QED
  BY <1>1, FieldsInvariance, TypesInit, TypesNext, PTL DEF Spec
=============================================================================
