----------------------------- MODULE MCKernelMain -----------------------------
(***************************************************************************)
(* Small instances of KernelMain for TLC: tables of four entries, and 64   *)
(* pages of physical memory in use, of 256; every level and registers full *)
(* of zeros or of ones; numbers of 8 bits; and device trees of up to       *)
(* eleven items.                                                           *)
(***************************************************************************)
EXTENDS KernelMain

\* Kernel images that end where a block ends, on its second and its last page.
MCCodePages == {1, 2, 4}

MCFirmwareWords == {{}, R!Bit}

\* The UART is off, and all that Init does not know is on.
MCFirmwareIO == {[r \in IORegister |-> IF r = "Enables" THEN {} ELSE 0 .. 29]}

MCStringLength == [w \in Writers |-> IF w = FirstWriter THEN 2 ELSE 1]

\* What UnitTests/Framework.cpp has, whose object has no destructor in the array.
MCInitArray == << "StaticConstructor", "GlobalObject" >>
MCFiniArray == << "StaticDestructor" >>

-----------------------------------------------------------------------------
(***************************************************************************)
(* Formats.                                                                *)
(***************************************************************************)
MCCharacters ==
    {"{", ":", "}", "d", "b", "B", "o", "x", "X", "P", "V", "c",
     "0", "1", "2", "3", "4", "5", "6", "7", "8", "9",
     "A", "C", "D", "E", "F", "a", "e", "f"}

MCPieces ==
    {Piece(<< "a" >>, << "a" >>),
     Piece(<< "{", "{" >>, << "{" >>),
     Piece(<< "}", "}" >>, << "}" >>),
     Piece(<< "}", "a", "}" >>, << "}" >>),
     Element(<< "{", "}" >>, "d"),
     Element(<< "{", ":", "}" >>, "d"),
     Element(<< "{", "a", "}" >>, "d"),
     Element(<< "{", ":", "x", "}" >>, "x"),
     Element(<< "{", ":", "B", "a", "}" >>, "B"),
     Element(<< "{", ":", "c", "}" >>, "c")}

MCUnfinishedTails == {<< >>, << "{" >>, << "}" >>, << "{", ":" >>, << "{", ":", "x" >>}

\* No arguments, too few, and texts that look like formats.
MCArgumentLists ==
    {<< >>,
     << Integer(0) >>,
     << String(<< "{", "}" >>), Integer(202) >>,
     << NullString, Pointer("V", 255) >>,
     << Pointer("P", 255), Integer(7) >>}

-----------------------------------------------------------------------------
(***************************************************************************)
(* Device trees.  Names and texts are short, for all lengths modulo 4.     *)
(***************************************************************************)
MCStringListNames == {<< 1 >>}
MCStringNames == {<< 2, 2 >>}
MCUInt32Names == {<< 3, 3, 3 >>}
OtherName == << 4, 4, 4, 4 >>

Root == << >>
ShortNode == << 5 >>
LongNode == << 6, 7, 8 >>

\* None, texts with and without an end, several, and integers.
MCValues ==
    {<< >>, << 0 >>, << 5 >>, << 5, 0 >>, << 5, 0, 6 >>, << 5, 0, 6, 0 >>, << 5, 6, 0, 0 >>,
     << 5, 6, 7, 8 >>, << 0, 0, 1, 200 >>}

MCProps ==
    {Prop(name, value) : name \in MCStringListNames \union MCStringNames
                                    \union MCUInt32Names \union {OtherName},
                         value \in MCValues}

Magic == << 208, 13, 254, 237 >>

OneReservation == << 0, 0, 0, 0, 1, 2, 3, 4, 0, 0, 0, 0, 5, 0, 0, 0 >>
FromZero       == << 0, 0, 0, 0, 0, 0, 0, 0, 0, 0, 0, 0, 0, 0, 0, 1 >>

Smallest == << Begin(Root), End >>

Largest ==
    << Begin(Root), Prop(OtherName, << 5 >>), Nop,
         Begin(ShortNode), Prop(<< 1 >>, << 5, 0, 6, 0 >>), End,
         Begin(LongNode), Begin(ShortNode), End, End,
       End >>

MCTrees ==
    {Tree(<< Begin(Root), prop, End >>, "end", << >>, Magic, 17, 16) : prop \in MCProps}
      \union {Tree(Largest, ending, reservations, Magic, 17, 16) :
                ending \in {"end", "unknown", "none"},
                reservations \in {<< >>, << FromZero, OneReservation >>}}
      \union {Tree(Smallest, ending, << >>, Magic, 17, 16) : ending \in {"end", "none"}}
      \union {Tree(Smallest, "end", << >>, Magic, versions[1], versions[2]) :
                versions \in {<< 16, 16 >>, << 17, 17 >>, << 18, 17 >>, << 18, 18 >>}}
      \union {Tree(Smallest, "end", << >>, << 1, 2, 3, 4 >>, 17, 16)}
=============================================================================
