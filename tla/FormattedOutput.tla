--------------------------- MODULE FormattedOutput ---------------------------
(***************************************************************************)
(* Formatted output (kernel/Print.cpp, kernel/Print.h) and the printing of *)
(* pointers on top of it (kernel/PointerTypes.cpp).                        *)
(*                                                                         *)
(* A string is a sequence of characters, without the terminator.  Output   *)
(* goes to a functor that takes characters until it has no room left: the  *)
(* functor of a buffer, or that of the mini UART, which has no limit.      *)
(***************************************************************************)
EXTENDS Integers, Sequences, FiniteSets

Chars == INSTANCE SequencesExt

CONSTANTS
    Characters,      \* char
    WordBits,        \* bits of an integer (64 for uint64_t)
    Pieces,          \* what formats are put together from in the properties
    UnfinishedTails, \* and how they may break off
    ArgumentLists,
    BufferSizes

Open  == "{"
Close == "}"

\* The characters that the code compares with or writes.
ASSUME CharactersAssumption ==
    {Open, ":", Close, "d", "b", "B", "o", "x", "X", "P", "V",
     "0", "1", "2", "3", "4", "5", "6", "7", "8", "9",
     "A", "B", "C", "D", "E", "F", "a", "b", "c", "d", "e", "f"} \subseteq Characters

ASSUME WordBitsAssumption == WordBits \in Nat \ {0} /\ WordBits % 4 = 0

PowerOfTwo == LET power[n \in 0 .. WordBits] == IF n = 0 THEN 1 ELSE 2 * power[n - 1]
              IN  power

\* The values of an integer.
Numbers == 0 .. PowerOfTwo[WordBits] - 1

-----------------------------------------------------------------------------
(***************************************************************************)
(* Integers.                                                               *)
(***************************************************************************)
ConvertOutputFormat(format) ==
    [Base        |-> CASE format \in {"b", "B"} -> 2
                       [] format = "o"          -> 8
                       [] format \in {"x", "X"} -> 16
                       [] OTHER                 -> 10,
     IsUppercase |-> format \in {"B", "X"}]

DigitToChar(digit, uppercase) ==
    IF digit < 10 THEN << "0", "1", "2", "3", "4", "5", "6", "7", "8", "9" >>[digit + 1]
    ELSE IF uppercase THEN << "A", "B", "C", "D", "E", "F" >>[digit - 9]
                      ELSE << "a", "b", "c", "d", "e", "f" >>[digit - 9]

OutputIntegerPrefix(format, isZero) ==
    CASE format \in {"b", "B", "x", "X"} -> << "0", format >>
      [] format = "o" /\ ~isZero         -> << "0" >>
      [] OTHER                           -> << >>

\* The length of the array of digits.
maxDigits == WordBits

\* remainingValue, after each number of divisions.
Remaining(value, base) ==
    LET remaining[n \in 0 .. maxDigits] == IF n = 0 THEN value ELSE remaining[n - 1] \div base
    IN  remaining

\* The loop divides until nothing is left, or the array is full.
NumberOfDigits(value, base) ==
    CHOOSE n \in 0 .. maxDigits :
        /\ Remaining(value, base)[n] = 0 \/ n = maxDigits
        /\ \A m \in 0 .. n - 1 : Remaining(value, base)[m] > 0

Digit(value, base, i) == Remaining(value, base)[i] % base

\* Mutant: the digits in the order in which they are found.
ReversedDigits(value, format) ==
    LET outputFormat == ConvertOutputFormat(format)
    IN  [i \in 1 .. NumberOfDigits(value, outputFormat.Base) |->
           DigitToChar(Digit(value, outputFormat.Base, i - 1), outputFormat.IsUppercase)]

\* The digits are found from the least significant on, and written the other
\* way round.
Digits(value, format) ==
    LET outputFormat   == ConvertOutputFormat(format)
        numberOfDigits == NumberOfDigits(value, outputFormat.Base)
    IN  [i \in 1 .. numberOfDigits |->
           DigitToChar(Digit(value, outputFormat.Base, numberOfDigits - i),
                       outputFormat.IsUppercase)]

OutputInteger(value, format) ==
    OutputIntegerPrefix(format, value = 0) \o IF value = 0 THEN << "0" >> ELSE Digits(value, format)

-----------------------------------------------------------------------------
(***************************************************************************)
(* Output functors: WriteChar fails when a buffer is full.  Every caller   *)
(* stops at the first character that fails, so a text is written up to     *)
(* there.                                                                  *)
(***************************************************************************)
NoLimit == -1

Functor(size) == [size |-> size, written |-> << >>, success |-> TRUE]

WriteText(output, text) ==
    LET room == output.size - Len(output.written)
    IN  IF output.size = NoLimit \/ Len(text) <= room
        THEN [output EXCEPT !.written = @ \o text, !.success = TRUE]
        ELSE [output EXCEPT !.written = @ \o SubSeq(text, 1, room), !.success = FALSE]

\* Arguments, as their DataWrapper classes hold them.
Integer(value)   == [type |-> "integer", value |-> value]
String(text)     == [type |-> "string", text |-> text]
NullString       == [type |-> "null"]
Pointer(kind, a) == [type |-> "pointer", kind |-> kind, address |-> a]  \* "P" or "V"

\* What the integers and strings, which ignore the format, write.
PlainData(argument, format) ==
    CASE argument.type = "integer" -> OutputInteger(argument.value, format)
      [] argument.type = "string"  -> argument.text
      [] argument.type = "null"    -> << >>

-----------------------------------------------------------------------------
(***************************************************************************)
(* FormatImpl: its state, and what it does with the next character.  It is *)
(* given what OutputDataImpl writes for each argument in each format, and  *)
(* whether that reports a failure ("wrappers").                            *)
(***************************************************************************)
ParseStart(output) ==
    [state |-> "OutputCharacter", format |-> "d", element |-> 0, output |-> output]

Placeholder(element) == << Open >> \o OutputInteger(element, "d") \o << Close >>

OutputElement(wrappers, parse, format) ==
    LET wrapper == wrappers[parse.element + 1]
        written == WriteText(parse.output, wrapper.writes[format])
    IN  [state   |-> "OutputCharacter",
         format  |-> "d",
         element |-> parse.element + 1,
         output  |-> IF parse.element < Len(wrappers)
                     THEN [written EXCEPT !.success = @ \/ ~wrapper.reports]
                     ELSE WriteText(parse.output, Placeholder(parse.element))]

OutputCharacter(parse, char) ==
    [parse EXCEPT !.state = "OutputCharacter", !.output = WriteText(@, << char >>)]

\* Any other character in braces, and after a lone close brace, is skipped.
ParseCharacter(wrappers, parse, char) ==
    CASE parse.state = "OutputCharacter" /\ char = Open -> [parse EXCEPT !.state = "OpenBrace"]
      [] parse.state = "OutputCharacter" /\ char = Close ->
            [parse EXCEPT !.state = "EscapedCloseBrace"]
      [] parse.state = "OutputCharacter" /\ char \notin {Open, Close} -> OutputCharacter(parse, char)
      [] parse.state = "OpenBrace" /\ char = Open -> OutputCharacter(parse, char)
      [] parse.state = "OpenBrace" /\ char = ":" -> [parse EXCEPT !.state = "FormatString"]
      [] parse.state \in {"OpenBrace", "FormatString"} /\ char = Close ->
            OutputElement(wrappers, parse, "d")
      [] parse.state = "CloseBrace" /\ char = Close ->
            OutputElement(wrappers, parse, parse.format)
      [] parse.state = "EscapedCloseBrace" /\ char = Close -> OutputCharacter(parse, char)
      [] parse.state = "FormatString" /\ char # Close ->
            [parse EXCEPT !.format = char, !.state = "CloseBrace"]
      [] OTHER -> parse

\* The loop ends when the output fails.
ParseNext(wrappers, parse, char) ==
    IF parse.output.success THEN ParseCharacter(wrappers, parse, char) ELSE parse

FormatImpl(output, format, wrappers) ==
    LET parse[n \in 0 .. Len(format)] ==
          IF n = 0 THEN ParseStart(output) ELSE ParseNext(wrappers, parse[n - 1], format[n])
    IN  parse[Len(format)].output

\* FormatToBuffer: the terminator comes after what was written, or over the last
\* character of the buffer.
Terminated(size, written) ==
    SubSeq(written, 1, IF Len(written) < size THEN Len(written) ELSE size - 1)

\* The buffer of the pointers: char buffer[20] for 64 bits.
PointerBufferSize == WordBits \div 4 + 4

\* A pointer is formatted to a buffer, and the buffer is a format string in its
\* turn.
PointerData(argument) ==
    LET address == [writes |-> [x |-> PlainData(Integer(argument.address), "x")], reports |-> TRUE]
        buffer  == Terminated(PointerBufferSize,
                              FormatImpl(Functor(PointerBufferSize),
                                         << argument.kind, Open, ":", "x", Close >>,
                                         << address >>).written)
    IN  FormatImpl(Functor(NoLimit), buffer, << >>).written

\* Whether there was room for a pointer is not reported.
OutputDataImpl(argument, formats) ==
    [writes  |-> [f \in formats |-> IF argument.type = "pointer" THEN PointerData(argument)
                                                                ELSE PlainData(argument, f)],
     reports |-> argument.type # "pointer"]

FormatVararg(output, format, arguments) ==
    FormatImpl(output, format,
               [i \in DOMAIN arguments |->
                  OutputDataImpl(arguments[i], {"d"} \union {format[k] : k \in DOMAIN format})])

FormatToMiniUART(format, arguments) == FormatVararg(Functor(NoLimit), format, arguments).written

FormatToBuffer(size, format, arguments) ==
    Terminated(size, FormatVararg(Functor(size), format, arguments).written)

-----------------------------------------------------------------------------
(***************************************************************************)
(* What the comments of Print.h and the unit tests say of formatting, for  *)
(* formats that are put together from pieces.                              *)
(***************************************************************************)
\* A piece stands for a text, or for the next argument in some format.
Piece(source, text)    == [source |-> source, stands |-> "text", text |-> text]
Element(source, format) == [source |-> source, stands |-> "element", format |-> format]

\* No character from first to last is one of those.
Without(text, first, last, chars) == \A i \in first .. last : text[i] \notin chars

\* What follows a lone open brace is skipped, up to the colon.
IsColon(text, k) == text[k] = ":" /\ Without(text, 2, k - 1, {Open, ":", Close})

\* A character that is no brace, or two braces, with what is skipped between them.
IsText(piece) ==
    LET source == piece.source
        last   == Len(piece.source)
    IN  /\ piece \in [source : Seq(Characters), stands : {"text"}, text : Seq(Characters)]
        /\ \/ last = 1 /\ source[1] \notin {Open, Close} /\ piece.text = source
           \/ /\ last > 1 /\ source[1] = Open /\ source[last] = Open /\ piece.text = << Open >>
              /\ Without(source, 2, last - 1, {Open, ":", Close})
           \/ /\ last > 1 /\ source[1] = Close /\ source[last] = Close /\ piece.text = << Close >>
              /\ Without(source, 2, last - 1, {Close})

\* Braces around nothing that counts, or around a colon and the character behind it.
IsElement(piece) ==
    LET source == piece.source
        last   == Len(piece.source)
    IN  /\ piece \in [source : Seq(Characters), stands : {"element"}, format : Characters]
        /\ last > 1 /\ source[1] = Open /\ source[last] = Close
        /\ \/ piece.format = "d" /\ Without(source, 2, last - 1, {Open, ":", Close})
           \/ \E k \in 2 .. last - 1 :
                /\ IsColon(source, k) /\ Without(source, k + 1, last - 1, {Close})
                /\ piece.format = IF k + 1 = last THEN "d" ELSE source[k + 1]

\* A brace that is not closed, or nothing.
IsUnfinished(tail) ==
    LET last == Len(tail)
    IN  /\ tail \in Seq(Characters)
        /\ \/ last = 0
           \/ last > 0 /\ tail[1] = Close /\ Without(tail, 2, last, {Close})
           \/ last > 0 /\ tail[1] = Open /\ Without(tail, 2, last, {Open, ":", Close})
           \/ /\ last > 0 /\ tail[1] = Open
              /\ \E k \in 2 .. last : IsColon(tail, k) /\ Without(tail, k + 1, last, {Close})

Argument ==
    [type : {"integer"}, value : Numbers]
      \union [type : {"string"}, text : Seq(Characters)]
      \union {NullString}
      \union [type : {"pointer"}, kind : {"P", "V"}, address : Numbers]

ASSUME FormatsAssumption ==
    /\ \A piece \in Pieces : IsText(piece) \/ IsElement(piece)
    /\ \A tail \in UnfinishedTails : IsUnfinished(tail)
    /\ ArgumentLists \subseteq Seq(Argument)
    /\ BufferSizes \subseteq Nat \ {0}

\* A number that is read back: the digits behind the prefix, the first not zero.
DigitValue(char) == CHOOSE d \in 0 .. 15 : char \in {DigitToChar(d, TRUE), DigitToChar(d, FALSE)}

ReadBack(text, base) ==
    LET value[n \in 0 .. Len(text)] ==
          IF n = 0 THEN 0 ELSE value[n - 1] * base + DigitValue(text[n])
    IN  value[Len(text)]

IsNumeral(text, value, format) ==
    LET prefix == OutputIntegerPrefix(format, value = 0)
        digits == SubSeq(text, Len(prefix) + 1, Len(text))
    IN  /\ Len(text) > Len(prefix) /\ SubSeq(text, 1, Len(prefix)) = prefix
        /\ \A i \in DOMAIN digits :
             DigitValue(digits[i]) < ConvertOutputFormat(format).Base
        /\ ReadBack(digits, ConvertOutputFormat(format).Base) = value
        /\ digits[1] = "0" => digits = << "0" >>

\* The text of an argument.
Shown(argument, format) ==
    CASE argument.type = "integer" -> OutputInteger(argument.value, format)
      [] argument.type = "string"  -> argument.text
      [] argument.type = "null"    -> << >>
      [] argument.type = "pointer" ->
           << argument.kind >> \o OutputInteger(argument.address, "x")

Source(pieces) == Chars!FlattenSeq([i \in 1 .. Len(pieces) |-> pieces[i].source])

\* The text that a sequence of pieces stands for; an element that is missing
\* shows as its number in braces.
Meaning(pieces, arguments) ==
    LET elementsBefore(i) == Cardinality({j \in 1 .. i - 1 : pieces[j].stands = "element"})
        text(i) == IF pieces[i].stands = "text" THEN pieces[i].text
                   ELSE IF elementsBefore(i) < Len(arguments)
                   THEN Shown(arguments[elementsBefore(i) + 1], pieces[i].format)
                   ELSE Placeholder(elementsBefore(i))
    IN  Chars!FlattenSeq([i \in 1 .. Len(pieces) |-> text(i)])

CutTo(text, length) == SubSeq(text, 1, IF Len(text) < length THEN Len(text) ELSE length)

FormatsMean ==
    \A pieces \in UNION {[1 .. n -> Pieces] : n \in 0 .. 2}, tail \in UnfinishedTails,
       arguments \in ArgumentLists :
        LET format  == Source(pieces) \o tail
            meaning == Meaning(pieces, arguments)
        IN  /\ FormatToMiniUART(format, arguments) = meaning
            /\ \A size \in BufferSizes :
                 FormatToBuffer(size, format, arguments) = CutTo(meaning, size - 1)

NumbersReadBack ==
    \A value \in Numbers, format \in {"b", "B", "o", "x", "X", "d", "c"} :
        IsNumeral(OutputInteger(value, format), value, format)
=============================================================================
