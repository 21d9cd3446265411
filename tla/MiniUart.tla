------------------------------- MODULE MiniUart -------------------------------
(***************************************************************************)
(* The mini UART (kernel/MiniUart.cpp): its initialization, register by    *)
(* register, and SendString, called by several tasks at once.  Nothing     *)
(* keeps the tick from preempting a task between the two accesses of Send: *)
(* the poll of the line status and the write of the character.             *)
(*                                                                         *)
(* A character is known by who sends it and its place in the string.  A    *)
(* register holds the set of its bits that are one.                        *)
(***************************************************************************)
EXTENDS Naturals, Sequences

CONSTANTS
    Writers,       \* the tasks that send a string
    FirstWriter,   \* the one that has the core first
    StringLength,  \* and the length of the string of each
    FifoSize,      \* characters that the transmitter holds (8 on the BCM2837)
    FirmwareIO     \* what the firmware may have left in the registers

UartRegister ==
    {"InterruptEnable", "LineControl", "ModemControl", "AdditionalControl", "BaudRate"}

IORegister ==
    UartRegister \union {"FunctionSelect1", "PullUpDown", "PullUpDownClock0", "Enables"}

ASSUME MiniUartAssumption ==
    /\ FirstWriter \in Writers
    /\ StringLength \in [Writers -> Nat]
    /\ FifoSize \in Nat \ {0}
    /\ FirmwareIO \subseteq [IORegister -> SUBSET (0 .. 31)]

VARIABLES
    io,           \* the peripheral's registers
    puts,         \* how many of Init's writes are done
    running,      \* the task that has the core
    sent,         \* how far SendString is, for each task (its local i)
    polled,       \* whether the task is behind the loop of Send
    accepted,     \* the characters that the transmitter took, in order
    shown,        \* how many of those have reached the terminal
    lost,         \* the characters that came to nothing
    interrupted   \* the characters whose sender lost the core in Send

uartVars == << io, puts, running, sent, polled, accepted, shown, lost, interrupted >>

-----------------------------------------------------------------------------
(***************************************************************************)
(* Init.                                                                   *)
(***************************************************************************)
\* Three bits for each pin from 10 on; 2 is alt5.
Selector(current) == (((current \ (12 .. 14)) \union {13}) \ (15 .. 17)) \union {16}

\* Mutant: the UART is enabled last.
EnabledLast(selector) ==
    << << "FunctionSelect1", Selector(selector) >>,
       << "PullUpDown", {} >>, << "PullUpDownClock0", {14, 15} >>, << "PullUpDownClock0", {} >>,
       << "AdditionalControl", {} >>, << "InterruptEnable", {} >>,
       << "LineControl", {0, 1} >>, << "ModemControl", {} >>, << "BaudRate", {1, 2, 3, 8} >>,
       << "Enables", {0} >>, << "AdditionalControl", {0, 1} >> >>

InitPuts(selector) ==
    << << "FunctionSelect1", Selector(selector) >>,
       << "PullUpDown", {} >>, << "PullUpDownClock0", {14, 15} >>, << "PullUpDownClock0", {} >>,
       << "Enables", {0} >>, << "AdditionalControl", {} >>, << "InterruptEnable", {} >>,
       << "LineControl", {0, 1} >>, << "ModemControl", {} >>, << "BaudRate", {1, 2, 3, 8} >>,
       << "AdditionalControl", {0, 1} >> >>

NumberOfPuts == 11

\* The registers of the UART cannot be written before it is enabled.
Put(r, bits) == IF r \in UartRegister /\ 0 \notin io["Enables"] THEN io ELSE [io EXCEPT ![r] = bits]

UartInit ==
    /\ io \in FirmwareIO
    /\ puts = 0
    /\ running = FirstWriter
    /\ sent = [w \in Writers |-> 0]
    /\ polled = [w \in Writers |-> FALSE]
    /\ accepted = << >> /\ shown = 0
    /\ lost = {} /\ interrupted = {}

PutNext ==
    /\ puts < NumberOfPuts
    /\ LET put == InitPuts(io["FunctionSelect1"])[puts + 1]
       IN  io' = Put(put[1], put[2])
    /\ puts' = puts + 1
    /\ UNCHANGED << running, sent, polled, accepted, shown, lost, interrupted >>

-----------------------------------------------------------------------------
(***************************************************************************)
(* Send and SendString.                                                    *)
(***************************************************************************)
HasRoom == Len(accepted) - shown < FifoSize

\* Bit 5 of the line status.
TransmitterEmpty == HasRoom

TransmitterOn == 0 \in io["Enables"] /\ 1 \in io["AdditionalControl"]

Poll(w) ==
    /\ puts = NumberOfPuts
    /\ running = w /\ ~polled[w] /\ sent[w] < StringLength[w]
    /\ TransmitterEmpty
    /\ polled' = [polled EXCEPT ![w] = TRUE]
    /\ UNCHANGED << io, puts, running, sent, accepted, shown, lost, interrupted >>

\* A character is dropped if there is no room for it, and the loop of SendString
\* goes on.
WriteCharacter(w) ==
    /\ running = w /\ polled[w]
    /\ IF HasRoom /\ TransmitterOn
       THEN accepted' = Append(accepted, << w, sent[w] >>) /\ lost' = lost
       ELSE lost' = lost \union {<< w, sent[w] >>} /\ accepted' = accepted
    /\ polled' = [polled EXCEPT ![w] = FALSE]
    /\ sent' = [sent EXCEPT ![w] = @ + 1]
    /\ UNCHANGED << io, puts, running, shown, interrupted >>

\* What the comments of Init say of the line: pins 14 and 15 belong to the UART,
\* 8 bits, 115200 baud.
LineAgrees ==
    /\ io["FunctionSelect1"] \cap (12 .. 17) = {13, 16}
    /\ io["LineControl"] = {0, 1}
    /\ io["BaudRate"] = {1, 2, 3, 8}

Transmit ==
    /\ shown < Len(accepted)
    /\ shown' = shown + 1
    /\ lost' = IF LineAgrees THEN lost ELSE lost \union {accepted[shown + 1]}
    /\ UNCHANGED << io, puts, running, sent, polled, accepted, interrupted >>

\* A tick gives the core to another task.
Preempt(w) ==
    /\ running # w
    /\ running' = w
    /\ interrupted' = IF polled[running] THEN interrupted \union {<< running, sent[running] >>}
                                         ELSE interrupted
    /\ UNCHANGED << io, puts, sent, polled, accepted, shown, lost >>

SendString(w) == Poll(w) \/ WriteCharacter(w)

UartNext == PutNext \/ Transmit \/ \E w \in Writers : SendString(w) \/ Preempt(w)

UartSpec == UartInit /\ [][UartNext]_uartVars

-----------------------------------------------------------------------------
(***************************************************************************)
(* Properties.                                                             *)
(***************************************************************************)
Character == Writers \X Nat

UartTypeOK ==
    /\ io \in [IORegister -> SUBSET (0 .. 31)]
    /\ puts \in 0 .. NumberOfPuts
    /\ running \in Writers
    /\ sent \in [Writers -> Nat] /\ polled \in [Writers -> BOOLEAN]
    /\ accepted \in Seq(Character) /\ shown \in 0 .. Len(accepted)
    /\ lost \subseteq Character /\ interrupted \subseteq Character

\* SendString as the terminal sees it: the characters of one task come in the
\* order in which it sends them, each once, whatever other tasks send in
\* between; and none is dropped but those whose sender lost the core between its
\* poll and its write, when others may have filled the transmitter.
ConsoleKeepsOrder ==
    /\ \A m, n \in 1 .. Len(accepted) :
         m < n /\ accepted[m][1] = accepted[n][1] => accepted[m][2] < accepted[n][2]
    /\ \A w \in Writers : \A k \in 0 .. StringLength[w] - 1 :
         k < sent[w] <=> << w, k >> \in lost \/ \E n \in 1 .. Len(accepted) : accepted[n] = << w, k >>
    /\ lost \subseteq interrupted
=============================================================================
