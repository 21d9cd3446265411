--------------------------- MODULE KernelMainProofs ---------------------------
(***************************************************************************)
(* Theorems about the kernel as a whole.  The console keeps what tasks     *)
(* send in order, for any tasks, any strings and any size of the           *)
(* transmitter: first for MiniUart alone, then for the kernel, every step  *)
(* of which is one of MiniUart or leaves the console alone.  What          *)
(* BootProofs shows of the page tables holds of the kernel in the same     *)
(* way.  Then what the registers hold at each place of the boot, that no   *)
(* interrupt comes before there is a handler, that kmain lists the tree    *)
(* and reads nothing but the blob, and that formats mean what they say.    *)
(***************************************************************************)
EXTENDS KernelMain, BootProofs, DeviceTreeProofs

\* What Init has written by now stays in the registers.
Configured ==
    /\ puts >= 1 => io["FunctionSelect1"] \cap (12 .. 17) = {13, 16}
    /\ puts >= 5 => 0 \in io["Enables"]
    /\ puts >= 8 => io["LineControl"] = {0, 1}
    /\ puts >= 10 => io["BaudRate"] = {1, 2, 3, 8}
    /\ puts >= 11 => io["AdditionalControl"] = {0, 1}

\* Nothing is sent before the end of Init.
InitFirst == puts < NumberOfPuts => accepted = << >> /\ \A w \in Writers : ~polled[w]

InsideString ==
    \A w \in Writers :
        /\ sent[w] <= StringLength[w]
        /\ polled[w] => sent[w] < StringLength[w]

\* A task that is behind its poll, and has had the core since, finds the room
\* that it saw.
RoomIsKept ==
    \A w \in Writers :
        polled[w] /\ << w, sent[w] >> \notin interrupted => running = w /\ HasRoom

AcceptedWasSent == \A n \in 1 .. Len(accepted) : accepted[n][2] < sent[accepted[n][1]]

UartInv ==
    /\ UartTypeOK /\ Configured /\ InitFirst /\ InsideString /\ RoomIsKept /\ AcceptedWasSent
    /\ ConsoleKeepsOrder

-----------------------------------------------------------------------------
LEMMA UartStart == ASSUME UartInit PROVE UartInv
<1> USE MiniUartAssumption DEF UartInit
<1>1. UartTypeOK
  <2>1. io \in [IORegister -> SUBSET (0 .. 31)]
    OBVIOUS
  <2>4. puts \in 0 .. NumberOfPuts
    BY DEF NumberOfPuts
  <2>2. accepted \in Seq(Character) /\ shown \in 0 .. Len(accepted)
    OBVIOUS
  <2>3. running \in Writers /\ sent \in [Writers -> Nat] /\ polled \in [Writers -> BOOLEAN]
    OBVIOUS
  <2> QED BY <2>1, <2>2, <2>3, <2>4 DEF UartTypeOK
<1>2. Configured /\ InitFirst /\ InsideString /\ RoomIsKept /\ AcceptedWasSent
  BY DEF Configured, InitFirst, InsideString, RoomIsKept, AcceptedWasSent, NumberOfPuts
<1>3. ConsoleKeepsOrder
  BY DEF ConsoleKeepsOrder
<1> QED BY <1>1, <1>2, <1>3 DEF UartInv

-----------------------------------------------------------------------------
\* Init's writes, by their number: an enabled UART takes what is put into it.
LEMMA PutConfigures ==
    ASSUME UartInv, PutNext
    PROVE  io' \in [IORegister -> SUBSET (0 .. 31)] /\ Configured'
<1> DEFINE S == io["FunctionSelect1"]
           P == InitPuts(S)
<1>1. /\ io \in [IORegister -> SUBSET (0 .. 31)] /\ Configured
      /\ puts \in 0 .. 10 /\ puts' = puts + 1
      /\ io' = Put(P[puts + 1][1], P[puts + 1][2])
  <2>1. io \in [IORegister -> SUBSET (0 .. 31)] /\ Configured /\ puts \in 0 .. 11
    BY DEF UartInv, UartTypeOK, NumberOfPuts
  <2>2. puts \in 0 .. 10 /\ puts' = puts + 1
    BY <2>1 DEF PutNext, NumberOfPuts
  <2>3. io' = Put(P[puts + 1][1], P[puts + 1][2])
    BY DEF PutNext
  <2> QED BY <2>1, <2>2, <2>3
<1>2. Selector(S) \in SUBSET (0 .. 31) /\ Selector(S) \cap (12 .. 17) = {13, 16}
  BY <1>1 DEF Selector, IORegister, UartRegister
<1>3. /\ P[1] = << "FunctionSelect1", Selector(S) >> /\ P[2] = << "PullUpDown", {} >>
      /\ P[3] = << "PullUpDownClock0", {14, 15} >> /\ P[4] = << "PullUpDownClock0", {} >>
      /\ P[5] = << "Enables", {0} >> /\ P[6] = << "AdditionalControl", {} >>
      /\ P[7] = << "InterruptEnable", {} >> /\ P[8] = << "LineControl", {0, 1} >>
      /\ P[9] = << "ModemControl", {} >> /\ P[10] = << "BaudRate", {1, 2, 3, 8} >>
      /\ P[11] = << "AdditionalControl", {0, 1} >>
  BY DEF InitPuts
<1> HIDE DEF P
<1>4. \/ puts = 0 \/ puts = 1 \/ puts = 2 \/ puts = 3 \/ puts = 4 \/ puts = 5
      \/ puts = 6 \/ puts = 7 \/ puts = 8 \/ puts = 9 \/ puts = 10
  BY <1>1
<1>5. CASE puts = 0
  BY <1>1, <1>2, <1>3, <1>5 DEF Put, Configured, IORegister, UartRegister
<1>6. CASE puts \in {1, 2, 3}
  BY <1>1, <1>3, <1>6 DEF Put, Configured, IORegister, UartRegister
<1>7. CASE puts \in {4, 5, 6}
  BY <1>1, <1>3, <1>7 DEF Put, Configured, IORegister, UartRegister
<1>8. CASE puts \in {7, 8}
  BY <1>1, <1>3, <1>8 DEF Put, Configured, IORegister, UartRegister
<1>9. CASE puts \in {9, 10}
  BY <1>1, <1>3, <1>9 DEF Put, Configured, IORegister, UartRegister
<1> QED BY <1>4, <1>5, <1>6, <1>7, <1>8, <1>9

-----------------------------------------------------------------------------
LEMMA PutKeeps == ASSUME UartInv, PutNext PROVE UartInv'
<1>1. io' \in [IORegister -> SUBSET (0 .. 31)] /\ Configured'
  BY PutConfigures
<1>2. puts' \in 0 .. NumberOfPuts
  BY DEF UartInv, UartTypeOK, PutNext, NumberOfPuts
<1>3. UNCHANGED << running, sent, polled, accepted, shown, lost, interrupted >>
  BY DEF PutNext
<1>4. accepted = << >> /\ \A w \in Writers : ~polled[w]
  BY DEF PutNext, UartInv, InitFirst
<1>5. UartTypeOK'
  BY <1>1, <1>2, <1>3 DEF UartInv, UartTypeOK
<1>6. (InitFirst /\ InsideString /\ RoomIsKept /\ AcceptedWasSent)'
  BY <1>3, <1>4 DEF UartInv, InitFirst, InsideString, RoomIsKept, AcceptedWasSent, HasRoom
<1>7. ConsoleKeepsOrder'
  BY <1>3 DEF UartInv, ConsoleKeepsOrder
<1> QED BY <1>1, <1>5, <1>6, <1>7 DEF UartInv

LEMMA PollKeeps == ASSUME UartInv, NEW w \in Writers, Poll(w) PROVE UartInv'
<1> USE MiniUartAssumption DEF UartInv, UartTypeOK, Poll
<1>1. UartTypeOK' /\ Configured'
  BY DEF Configured
<1>2. InitFirst'
  BY DEF InitFirst, NumberOfPuts
<1>5. AcceptedWasSent' /\ ConsoleKeepsOrder'
  BY DEF AcceptedWasSent, ConsoleKeepsOrder
<1>3. InsideString'
  BY DEF InsideString
<1>4. RoomIsKept'
  BY DEF RoomIsKept, TransmitterEmpty, HasRoom
<1> QED BY <1>1, <1>2, <1>3, <1>4, <1>5

LEMMA PreemptKeeps == ASSUME UartInv, NEW w \in Writers, Preempt(w) PROVE UartInv'
<1> USE MiniUartAssumption DEF UartInv, UartTypeOK, Preempt
<1>1. interrupted \subseteq interrupted' /\ interrupted' \subseteq Character
  BY DEF Character
<1>2. UartTypeOK' /\ Configured'
  BY <1>1 DEF Configured
<1>3. InitFirst' /\ InsideString' /\ AcceptedWasSent' /\ ConsoleKeepsOrder'
  BY <1>1, ZenonT(60) DEF InitFirst, InsideString, AcceptedWasSent, ConsoleKeepsOrder
<1>4. RoomIsKept'
  BY <1>1 DEF RoomIsKept, HasRoom
<1> QED BY <1>2, <1>3, <1>4

\* What has left the transmitter makes room, and the line is as Init set it.
LEMMA TransmitKeeps == ASSUME UartInv, Transmit PROVE UartInv'
<1> USE MiniUartAssumption DEF UartInv, UartTypeOK, Transmit
<1>1. puts = NumberOfPuts
  BY DEF InitFirst, NumberOfPuts
<1>2. LineAgrees
  BY <1>1 DEF LineAgrees, Configured, NumberOfPuts
<1>3. lost' = lost /\ shown' \in 0 .. Len(accepted)
  BY <1>2
<1>4. UartTypeOK' /\ Configured'
  BY <1>3 DEF Configured
<1>5. InitFirst' /\ InsideString' /\ AcceptedWasSent' /\ ConsoleKeepsOrder'
  BY <1>3, ZenonT(60) DEF InitFirst, InsideString, AcceptedWasSent, ConsoleKeepsOrder
<1>6. RoomIsKept'
  BY DEF RoomIsKept, HasRoom
<1> QED BY <1>4, <1>5, <1>6

-----------------------------------------------------------------------------
LEMMA WriteKeeps == ASSUME UartInv, NEW w \in Writers, WriteCharacter(w) PROVE UartInv'
<1> DEFINE c == << w, sent[w] >>
<1>1. /\ UartTypeOK /\ Configured /\ InitFirst /\ InsideString /\ RoomIsKept
      /\ AcceptedWasSent /\ ConsoleKeepsOrder
  BY DEF UartInv
<1>2. /\ running = w /\ polled[w] /\ polled' = [polled EXCEPT ![w] = FALSE]
      /\ sent' = [sent EXCEPT ![w] = @ + 1]
      /\ UNCHANGED << io, puts, running, shown, interrupted >>
  BY DEF WriteCharacter
<1>3. c \in Character /\ sent[w] \in Nat /\ sent[w] < StringLength[w]
  BY <1>1, <1>2 DEF UartTypeOK, Character, InsideString
<1>3a. \A v \in Writers : sent[v] \in Nat /\ sent'[v] \in Nat /\ sent[v] <= sent'[v]
  BY <1>1, <1>2 DEF UartTypeOK
<1>4. TransmitterOn
  <2>1. puts = NumberOfPuts
    BY <1>1, <1>2 DEF InitFirst, UartTypeOK, NumberOfPuts
  <2> QED BY <1>1, <2>1 DEF Configured, TransmitterOn, NumberOfPuts
<1>5. \/ accepted' = Append(accepted, c) /\ lost' = lost
      \/ accepted' = accepted /\ lost' = lost \union {c} /\ c \in interrupted
  BY <1>1, <1>2, <1>4 DEF WriteCharacter, RoomIsKept
<1>6. /\ accepted \in Seq(Character) /\ accepted' \in Seq(Character)
      /\ Len(accepted') \in {Len(accepted), Len(accepted) + 1}
      /\ \A n \in 1 .. Len(accepted) : accepted'[n] = accepted[n]
      /\ \A n \in 1 .. Len(accepted') : n \notin 1 .. Len(accepted) => accepted'[n] = c
  <2>1. accepted \in Seq(Character)
    BY <1>1 DEF UartTypeOK
  <2>2. CASE accepted' = accepted
    BY <2>1, <2>2
  <2>3. CASE accepted' = Append(accepted, c)
    BY <1>3, <2>1, <2>3
  <2> QED BY <1>5, <2>2, <2>3
<1>7. UartTypeOK' /\ Configured'
  <2>1. shown' \in 0 .. Len(accepted')
    BY <1>1, <1>2, <1>6 DEF UartTypeOK
  <2>2. lost' \subseteq Character
    BY <1>1, <1>3, <1>5 DEF UartTypeOK
  <2>3. sent' \in [Writers -> Nat] /\ polled' \in [Writers -> BOOLEAN]
    BY <1>1, <1>2 DEF UartTypeOK
  <2>4. UartTypeOK'
    BY <1>1, <1>2, <1>6, <2>1, <2>2, <2>3 DEF UartTypeOK
  <2> QED BY <1>1, <1>2, <2>4 DEF Configured
<1>8. InitFirst' /\ InsideString'
  <2>1. InitFirst'
    <3>1. ~(puts < NumberOfPuts)
      BY <1>1, <1>2 DEF InitFirst
    <3> QED BY <1>2, <3>1 DEF InitFirst
  <2>2. InsideString'
    <3> SUFFICES ASSUME NEW v \in Writers
                 PROVE  /\ sent'[v] <= StringLength[v]
                        /\ polled'[v] => sent'[v] < StringLength[v]
      BY DEF InsideString
    <3>1. CASE v = w
      <4>1. sent'[w] = sent[w] + 1 /\ StringLength[w] \in Nat
        BY <1>1, <1>2, MiniUartAssumption DEF UartTypeOK
      <4>2. ~polled'[w]
        BY <1>1, <1>2 DEF UartTypeOK
      <4> QED BY <1>3, <3>1, <4>1, <4>2
    <3>2. CASE v # w
      BY <1>1, <1>2, <3>2 DEF UartTypeOK, InsideString
    <3> QED BY <3>1, <3>2
  <2> QED BY <2>1, <2>2
<1>9. RoomIsKept'
  <2> SUFFICES ASSUME NEW v \in Writers, polled'[v], << v, sent'[v] >> \notin interrupted'
               PROVE  running' = v /\ HasRoom'
    BY DEF RoomIsKept
  <2>1. v # w
    BY <1>1, <1>2 DEF UartTypeOK
  <2> QED BY <1>1, <1>2, <2>1 DEF UartTypeOK, RoomIsKept
<1>10. AcceptedWasSent'
  <2> SUFFICES ASSUME NEW n \in 1 .. Len(accepted')
               PROVE  accepted'[n][2] < sent'[accepted'[n][1]]
    BY DEF AcceptedWasSent
  <2>1. CASE n \in 1 .. Len(accepted)
    <3>1. accepted[n] \in Character /\ accepted'[n] = accepted[n]
      BY <1>6, <2>1
    <3>2. accepted[n][2] < sent[accepted[n][1]]
      BY <1>1, <2>1 DEF AcceptedWasSent
    <3>3. accepted[n][1] \in Writers /\ accepted[n][2] \in Nat
      BY <3>1 DEF Character
    <3> QED BY <1>3a, <3>1, <3>2, <3>3
  <2>2. CASE n \notin 1 .. Len(accepted)
    BY <1>1, <1>2, <1>3, <1>6, <2>2 DEF UartTypeOK
  <2> QED BY <2>1, <2>2
<1>11. ConsoleKeepsOrder'
  <2>1. ASSUME NEW m \in 1 .. Len(accepted'), NEW n \in 1 .. Len(accepted'),
               m < n, accepted'[m][1] = accepted'[n][1]
        PROVE  accepted'[m][2] < accepted'[n][2]
    <3>1. m \in 1 .. Len(accepted) /\ accepted'[m] = accepted[m]
      BY <1>6, <2>1
    <3>2. CASE n \in 1 .. Len(accepted)
      BY <1>1, <1>6, <2>1, <3>1, <3>2 DEF ConsoleKeepsOrder
    <3>3. CASE n \notin 1 .. Len(accepted)
      BY <1>1, <1>3, <1>6, <2>1, <3>1, <3>3 DEF AcceptedWasSent
    <3> QED BY <3>2, <3>3
  <2>2. ASSUME NEW v \in Writers, NEW k \in 0 .. StringLength[v] - 1
        PROVE  k < sent'[v] <=> \/ << v, k >> \in lost'
                                \/ \E n \in 1 .. Len(accepted') : accepted'[n] = << v, k >>
    <3>1. k < sent[v] <=> \/ << v, k >> \in lost
                          \/ \E n \in 1 .. Len(accepted) : accepted[n] = << v, k >>
      BY <1>1 DEF ConsoleKeepsOrder
    <3>2. k < sent'[v] <=> k < sent[v] \/ << v, k >> = c
      BY <1>1, <1>2, <1>3, MiniUartAssumption DEF UartTypeOK
    <3>3. /\ << v, k >> \in lost' \/ (\E n \in 1 .. Len(accepted') : accepted'[n] = << v, k >>)
          <=> \/ << v, k >> \in lost
              \/ \E n \in 1 .. Len(accepted) : accepted[n] = << v, k >>
              \/ << v, k >> = c
      <4>1. CASE accepted' = accepted /\ lost' = lost \union {c}
        BY <4>1
      <4>2. CASE accepted' = Append(accepted, c) /\ lost' = lost
        <5>1. /\ Len(accepted') = Len(accepted) + 1 /\ Len(accepted) \in Nat
              /\ accepted'[Len(accepted) + 1] = c
          BY <1>3, <1>6, <4>2
        <5>2. 1 .. Len(accepted') = (1 .. Len(accepted)) \union {Len(accepted) + 1}
          BY <5>1
        <5> HIDE DEF c
        <5>3. (\E n \in 1 .. Len(accepted') : accepted'[n] = << v, k >>)
              <=> \/ \E n \in 1 .. Len(accepted) : accepted[n] = << v, k >>
                  \/ << v, k >> = c
          BY <1>6, <5>1, <5>2
        <5> QED BY <4>2, <5>3
      <4> QED BY <1>5, <4>1, <4>2
    <3> QED BY <3>1, <3>2, <3>3
  <2>3. lost' \subseteq interrupted'
    BY <1>1, <1>2, <1>5 DEF ConsoleKeepsOrder
  <2> QED BY <2>1, <2>2, <2>3 DEF ConsoleKeepsOrder
<1> QED BY <1>7, <1>8, <1>9, <1>10, <1>11 DEF UartInv

-----------------------------------------------------------------------------
LEMMA UartInductive == ASSUME UartInv, [UartNext]_uartVars PROVE UartInv'
<1>1. CASE UNCHANGED uartVars
  <2> USE <1>1 DEF uartVars, UartInv
  <2>1. UartTypeOK' /\ Configured'
    BY DEF UartTypeOK, Configured
  <2>2. InitFirst' /\ InsideString' /\ AcceptedWasSent'
    BY DEF InitFirst, InsideString, AcceptedWasSent
  <2>3. RoomIsKept' /\ ConsoleKeepsOrder'
    BY DEF RoomIsKept, ConsoleKeepsOrder, HasRoom
  <2> QED BY <2>1, <2>2, <2>3
<1>2. CASE PutNext
  BY <1>2, PutKeeps
<1>3. CASE Transmit
  BY <1>3, TransmitKeeps
<1>4. ASSUME NEW w \in Writers, SendString(w) PROVE UartInv'
  BY <1>4, PollKeeps, WriteKeeps DEF SendString
<1>5. ASSUME NEW w \in Writers, Preempt(w) PROVE UartInv'
  BY <1>5, PreemptKeeps
<1> QED BY <1>1, <1>2, <1>3, <1>4, <1>5 DEF UartNext

\* The characters of each task arrive in order, each once, and only those are lost
\* whose sender a tick has interrupted in Send.
THEOREM ConsoleOrder == UartSpec => []ConsoleKeepsOrder
<1>1. UartInit => UartInv
  BY UartStart
<1>2. UartInv /\ [UartNext]_uartVars => UartInv'
  BY UartInductive
<1>3. UartInv => ConsoleKeepsOrder
  BY DEF UartInv
<1> QED BY <1>1, <1>2, <1>3, PTL DEF UartSpec

-----------------------------------------------------------------------------
LEMMA ScheduledIsUart ==
    ASSUME Scheduled(Transmit) \/ \E w \in Writers : Scheduled(SendString(w)) \/ Scheduled(Tick(w))
    PROVE  UartNext
  BY DEF Scheduled, Tick, UartNext

\* Init of the UART is the only statement of kmain that touches it.
LEMMA StatementIsUart ==
    ASSUME KernelStatement
    PROVE  PutNext \/ UNCHANGED uartVars
<1>1. CASE CallStaticConstructors
  BY <1>1 DEF CallStaticConstructors, CallWords
<1>2. CASE InitConsole
  BY <1>2 DEF InitConsole
<1>3. CASE irq_vector_init \/ InitTimer \/ EnableInterruptController
  BY <1>3 DEF irq_vector_init, InitTimer, EnableInterruptController, SetUp
<1>4. CASE enable_irq
  BY <1>4 DEF enable_irq
<1>5. CASE PrintParameters \/ RunUnitTests \/ CopyProcess
  BY <1>5 DEF PrintParameters, RunUnitTests, CopyProcess, Goto
<1>6. CASE DumpDeviceTree
  BY <1>6 DEF DumpDeviceTree
<1>7. CASE CallStaticDestructors
  BY <1>7 DEF CallStaticDestructors, CallWords
<1> QED BY <1>1, <1>2, <1>3, <1>4, <1>5, <1>6, <1>7 DEF KernelStatement

LEMMA StepIsUart == ASSUME [KernelNext]_allVars PROVE [UartNext]_uartVars
<1>1. CASE UNCHANGED allVars
  BY <1>1 DEF allVars, kernelVars
<1>2. CASE BootNext /\ UNCHANGED kernelVars
  BY <1>2 DEF kernelVars
<1>3. CASE step = "kmain" /\ KernelStatement
  BY <1>3, StatementIsUart DEF UartNext
<1>4. CASE Scheduled(Transmit) \/ \E w \in Writers : Scheduled(SendString(w)) \/ Scheduled(Tick(w))
  BY <1>4, ScheduledIsUart
<1> QED BY <1>1, <1>2, <1>3, <1>4 DEF KernelNext

\* The kernel, from its first instruction on, implements MiniUart: whatever it
\* does, its console is initialized once, in order, and before anything is sent.
THEOREM KernelIsUart == KernelSpec => UartSpec
<1>1. KernelInit => UartInit
  BY DEF KernelInit
<1>2. [KernelNext]_allVars => [UartNext]_uartVars
  BY StepIsUart
<1> QED BY <1>1, <1>2, PTL DEF KernelSpec, UartSpec

\* What the tasks of the kernel send is shown in the order in which each sends it.
THEOREM KernelConsoleOrder == KernelSpec => []ConsoleKeepsOrder
  BY KernelIsUart, ConsoleOrder, PTL
-----------------------------------------------------------------------------
(***************************************************************************)
(* The page tables.  Every step of the kernel is one of BootPageTables or  *)
(* leaves its variables alone, so that what BootProofs shows of the tables *)
(* holds of the kernel, with all that happens around them.                 *)
(***************************************************************************)
LEMMA StatementIsBoot ==
    ASSUME Statement
    PROVE  Next \/ UNCHANGED vars
<1>1. CASE CheckLevel \/ WriteHCR \/ WriteSPSR \/ WriteCPTR \/ WriteHSTR
  BY <1>1 DEF CheckLevel, WriteHCR, WriteSPSR, WriteCPTR, WriteHSTR, Write
<1>2. CASE ExceptionReturn \/ WriteSCTLR \/ WriteCPACR \/ InstructionBarrier \/ SwitchMMUOn
  BY <1>2 DEF ExceptionReturn, WriteSCTLR, WriteCPACR, InstructionBarrier, SwitchMMUOn, Write
<1>3. CASE WriteTTBR0 \/ WriteTTBR1 \/ WriteMAIR \/ WriteTCR
  BY <1>3 DEF WriteTTBR0, WriteTTBR1, WriteMAIR, WriteTCR, Write
<1>4. CASE CreatePageTables \/ MMUIsOn \/ MoveUp
  BY <1>4 DEF CreatePageTables, MMUIsOn, MoveUp, Next
<1> QED BY <1>1, <1>2, <1>3, <1>4 DEF Statement

LEMMA StatementOfKmain ==
    ASSUME KernelStatement
    PROVE  /\ UNCHANGED << vars, entryLevel, boot, el, spsel, aarch64, register, seen >>
           /\ enable_irq \/ UNCHANGED DAIF
<1> USE DEF bootVars, cpuVars
<1>1. CASE CallStaticConstructors
  BY <1>1 DEF CallStaticConstructors, CallWords
<1>2. CASE InitConsole
  BY <1>2 DEF InitConsole
<1>3. CASE irq_vector_init \/ InitTimer \/ EnableInterruptController
  BY <1>3 DEF irq_vector_init, InitTimer, EnableInterruptController, SetUp
<1>4. CASE enable_irq
  BY <1>4 DEF enable_irq
<1>5. CASE PrintParameters \/ RunUnitTests \/ CopyProcess
  BY <1>5 DEF PrintParameters, RunUnitTests, CopyProcess, Goto
<1>6. CASE DumpDeviceTree
  BY <1>6 DEF DumpDeviceTree
<1>7. CASE CallStaticDestructors
  BY <1>7 DEF CallStaticDestructors, CallWords
<1> QED BY <1>1, <1>2, <1>3, <1>4, <1>5, <1>6, <1>7 DEF KernelStatement

LEMMA StepIsBoot == ASSUME [KernelNext]_allVars PROVE [Next]_vars
<1>1. CASE UNCHANGED allVars
  BY <1>1 DEF allVars, bootVars
<1>2. CASE BootNext /\ UNCHANGED kernelVars
  BY <1>2, StatementIsBoot DEF BootNext, WriteIsSeen
<1>3. CASE step = "kmain" /\ KernelStatement
  BY <1>3, StatementOfKmain
<1>4. CASE Scheduled(Transmit) \/ \E w \in Writers : Scheduled(SendString(w)) \/ Scheduled(Tick(w))
  BY <1>4 DEF Scheduled, bootVars
<1> QED BY <1>1, <1>2, <1>3, <1>4 DEF KernelNext

\* The kernel builds its page tables as BootPageTables says: whatever it writes to
\* registers, and whatever kmain and its tasks do later, touches none of them.
THEOREM KernelIsBoot == KernelSpec => Spec
<1>1. KernelInit => Init
  BY DEF KernelInit, BootInit
<1>2. [KernelNext]_allVars => [Next]_vars
  BY StepIsBoot
<1> QED BY <1>1, <1>2, PTL DEF KernelSpec, Spec

\* From its first instruction to its last, the kernel's tables translate each page
\* to its home, code and stack stay mapped, kmain reaches its memory, and the map
\* only grows.
THEOREM KernelAddressSpace ==
    KernelSpec =>
        /\ [](TranslationsExact /\ CodeAndStackMapped /\ KernelReachesItsMemory)
        /\ ImplementsAddressSpace
  BY KernelIsBoot, EveryPageAtHome, CodeAndStackStayMapped, KmainReachesItsMemory,
     BootImplementsMap, PTL

-----------------------------------------------------------------------------
(***************************************************************************)
(* What the boot writes to system registers, bit by bit.                   *)
(***************************************************************************)
LEMMA BitsOfNumbers ==
    /\ R!Bits(0) = {} /\ R!Bits(1) = {0} /\ R!Bits(2) = {1} /\ R!Bits(3) = {0, 1}
    /\ R!Bits(5) = {0, 2} /\ R!Bits(16) = {4} /\ R!Bits(68) = {2, 6}
<1> USE DEF R!Bits, R!PowersOfTwo
<1>1. R!Bits(0) = {} /\ R!Bits(1) = {0}
  OBVIOUS
<1>2. R!Bits(2) = {1} /\ R!Bits(3) = {0, 1}
  OBVIOUS
<1>3. R!Bits(5) = {0, 2}
  OBVIOUS
<1>4. R!Bits(16) = {4}
  OBVIOUS
<1>5. R!Bits(68) = {2, 6}
  OBVIOUS
<1> HIDE DEF R!Bits, R!PowersOfTwo
<1> QED BY <1>1, <1>2, <1>3, <1>4, <1>5

\* Two numbers of eight bits that have the same bits are the same.
LEMMA BitsDetermineNumber ==
    ASSUME NEW n \in 0 .. 255, NEW m \in 0 .. 255, R!Bits(n) = R!Bits(m)
    PROVE  n = m
<1>1. \A i \in 0 .. 30 : (n \div R!PowersOfTwo[i + 1]) % 2 = 1
                           <=> (m \div R!PowersOfTwo[i + 1]) % 2 = 1
  BY DEF R!Bits
<1>2. (n \div 1) % 2 = 1 <=> (m \div 1) % 2 = 1
  BY <1>1 DEF R!PowersOfTwo
<1>3. (n \div 2) % 2 = 1 <=> (m \div 2) % 2 = 1
  BY <1>1 DEF R!PowersOfTwo
<1>4. (n \div 4) % 2 = 1 <=> (m \div 4) % 2 = 1
  BY <1>1 DEF R!PowersOfTwo
<1>5. (n \div 8) % 2 = 1 <=> (m \div 8) % 2 = 1
  BY <1>1 DEF R!PowersOfTwo
<1>6. (n \div 16) % 2 = 1 <=> (m \div 16) % 2 = 1
  BY <1>1 DEF R!PowersOfTwo
<1>7. (n \div 32) % 2 = 1 <=> (m \div 32) % 2 = 1
  BY <1>1 DEF R!PowersOfTwo
<1>8. (n \div 64) % 2 = 1 <=> (m \div 64) % 2 = 1
  BY <1>1 DEF R!PowersOfTwo
<1>9. (n \div 128) % 2 = 1 <=> (m \div 128) % 2 = 1
  BY <1>1 DEF R!PowersOfTwo
<1> QED BY <1>2, <1>3, <1>4, <1>5, <1>6, <1>7, <1>8, <1>9, SMTT(60)

LEMMA NumberOfBits == ASSUME NEW n \in 0 .. 255 PROVE R!Number(R!Bits(n)) = n
  BY BitsDetermineNumber DEF R!Number

LEMMA ShiftedMask ==
    ASSUME NEW width \in Nat, NEW shift \in Nat, width + shift <= 64
    PROVE  R!Shifted(0 .. width - 1, shift) = shift .. shift + width - 1
<1>1. ASSUME NEW j \in shift .. shift + width - 1
      PROVE  j \in R!Shifted(0 .. width - 1, shift)
  <2>1. j - shift \in 0 .. width - 1 /\ j = (j - shift) + shift /\ j \in R!Bit
    BY DEF R!Bit
  <2> QED BY <2>1 DEF R!Shifted
<1>2. ASSUME NEW j \in R!Shifted(0 .. width - 1, shift)
      PROVE  j \in shift .. shift + width - 1
  BY <1>2 DEF R!Shifted
<1> QED BY <1>1, <1>2

\* Where a value is that a setter puts into an empty word.
FieldAt(width, shift, value) == {i + shift : i \in value \intersect (0 .. width - 1)}

LEMMA FieldSet ==
    ASSUME NEW width \in Nat, NEW shift \in Nat, width + shift <= 64, NEW values, NEW value
    PROVE  R!SetField({}, R!Field(R!Mask(width), shift, values), value)
             = FieldAt(width, shift, value)
  BY DEF R!SetField, R!Field, R!Mask, R!WriteMultiBitValue, R!Shifted, R!Bit, FieldAt

LEMMA FieldGet ==
    ASSUME NEW width \in Nat, NEW shift \in Nat, width + shift <= 64, NEW values, NEW bits
    PROVE  R!GetField(bits, R!Field(R!Mask(width), shift, values))
             = {i \in 0 .. width - 1 : i + shift \in bits}
<1> DEFINE moved == R!Shifted(0 .. width - 1, shift)
<1>1. moved = shift .. shift + width - 1
  BY ShiftedMask
<1>2. R!GetField(bits, R!Field(R!Mask(width), shift, values))
        = {i - shift : i \in bits \intersect moved}
  BY DEF R!GetField, R!Field, R!Mask, R!ReadMultiBitValue
<1> HIDE DEF moved
<1>3. ASSUME NEW j \in {i - shift : i \in bits \intersect moved}
      PROVE  j \in {i \in 0 .. width - 1 : i + shift \in bits}
  <2>1. PICK i \in bits \intersect moved : j = i - shift
    BY <1>3
  <2>2. j \in 0 .. width - 1 /\ j + shift = i
    BY <1>1, <2>1
  <2> QED BY <2>1, <2>2
<1>4. ASSUME NEW j \in {i \in 0 .. width - 1 : i + shift \in bits}
      PROVE  j \in {i - shift : i \in bits \intersect moved}
  <2>1. j + shift \in bits \intersect moved /\ j = (j + shift) - shift
    BY <1>1
  <2> QED BY <2>1
<1> QED BY <1>2, <1>3, <1>4

LEMMA FieldBitsAre ==
    ASSUME NEW width \in Nat, NEW shift \in Nat, width + shift <= 64, NEW values
    PROVE  R!FieldBits(R!Field(R!Mask(width), shift, values)) = shift .. shift + width - 1
<1>1. R!FieldBits(R!Field(R!Mask(width), shift, values)) = R!Shifted(0 .. width - 1, shift)
  BY DEF R!FieldBits, R!Field, R!Mask
<1>2. R!Shifted(0 .. width - 1, shift) = shift .. shift + width - 1
  BY ShiftedMask
<1> QED BY <1>1, <1>2

\* The values with which the setters are called.
HCRWord == With(R!HCR_EL2, [RW |-> {0}])

SPSRValues ==
    [name \in Interrupts \union {"M"} |->
        IF name = "M" THEN KernelMode ELSE MaskedInterrupts[name]]

SPSRWord == With(R!SPSR_EL2, SPSRValues)

CPACRWord == With(R!CPACR_EL1, [FPEN |-> R!FPENTraps.TrapNone])

MAIRValues ==
    [name \in {R!AttributeName(DeviceMAIRIndex), R!AttributeName(NormalMAIRIndex)} |->
        IF name = R!AttributeName(DeviceMAIRIndex) THEN R!DeviceMemory ELSE R!NormalMemory]

MAIRWord == With(R!MAIR_EL1, MAIRValues)

TCRValues ==
    [T0SZ |-> R!EncodedSize(LowAddressBits), TG0 |-> R!T0Granule.Size4kb,
     T1SZ |-> R!EncodedSize(LowAddressBits), TG1 |-> R!T1Granule.Size4kb]

TCRWord == With(R!TCR_EL1, TCRValues)

LEMMA HCRBits == HCRWord = {31}
<1>1. R!FieldBits(R!HCR_EL2.fields.RW) = {31}
  BY FieldBitsAre DEF R!HCR_EL2, R!Class, R!Flag
<1>2. R!SetField({}, R!HCR_EL2.fields.RW, {0}) = {31}
  BY FieldSet DEF R!HCR_EL2, R!Class, R!Flag, FieldAt
<1> QED BY <1>1, <1>2 DEF HCRWord, With, R!HCR_EL2, R!Class

LEMMA TrapBits ==
    /\ With(R!CPTR_EL2, << >>) = R!CPTR_EL2.constructed
    /\ With(R!HSTR_EL2, << >>) = {}
    /\ With(R!SCTLR_EL1, << >>) = R!SCTLR_EL1.constructed
    /\ R!CPTR_EL2.constructed \subseteq R!Bit
    /\ R!SCTLR_EL1.constructed = {7, 8, 11, 20, 22, 23, 28, 29}
<1>1. With(R!HSTR_EL2, << >>) = {}
  BY DEF With, R!HSTR_EL2, R!Class
<1>2. With(R!CPTR_EL2, << >>) = R!CPTR_EL2.constructed
  BY DEF With
<1>3. With(R!SCTLR_EL1, << >>) = R!SCTLR_EL1.constructed
  BY DEF With
<1>4. R!CPTR_EL2.constructed \subseteq R!Bit
  BY DEF R!CPTR_EL2, R!Class, R!Bit
<1>5. R!SCTLR_EL1.constructed = {7, 8, 11, 20, 22, 23, 28, 29}
  BY DEF R!SCTLR_EL1, R!Class
<1> QED BY <1>1, <1>2, <1>3, <1>4, <1>5

\* EL1h, with all four masks.
LEMMA SPSRBits == SPSRWord = {0, 2, 6, 7, 8, 9}
<1> DEFINE fields == R!SPSR_EL2.fields
<1>1. /\ DOMAIN SPSRValues = {"M", "D", "A", "I", "F"}
      /\ SPSRValues["M"] = {0, 2}
      /\ \A name \in Interrupts : SPSRValues[name] = {0}
  BY BitsOfNumbers DEF SPSRValues, Interrupts, KernelMode, MaskedInterrupts, R!Mode
<1>2. R!SetField({}, fields["M"], {0, 2}) = {0, 2}
  BY FieldSet DEF R!SPSR_EL2, R!Class, FieldAt
<1>3. R!SetField({}, fields["F"], {0}) = {6} /\ R!SetField({}, fields["I"], {0}) = {7}
  BY FieldSet DEF R!SPSR_EL2, R!Class, R!Flag, FieldAt
<1>4. R!SetField({}, fields["A"], {0}) = {8} /\ R!SetField({}, fields["D"], {0}) = {9}
  BY FieldSet DEF R!SPSR_EL2, R!Class, R!Flag, FieldAt
<1>5. SPSRWord = UNION {R!SetField({}, fields[n], SPSRValues[n]) : n \in DOMAIN SPSRValues}
  BY DEF SPSRWord, With, R!SPSR_EL2, R!Class
<1> HIDE DEF fields
<1> QED BY <1>1, <1>2, <1>3, <1>4, <1>5 DEF Interrupts

LEMMA CPACRBits == CPACRWord = {20, 21}
<1>1. R!FPENTraps.TrapNone = {0, 1}
  BY BitsOfNumbers DEF R!FPENTraps
<1>2. R!SetField({}, R!CPACR_EL1.fields.FPEN, {0, 1}) = {20, 21}
  <2>1. R!CPACR_EL1.fields.FPEN = R!Field(R!Mask(2), 20, R!Enumerators(R!FPENTraps))
    BY DEF R!CPACR_EL1, R!Class
  <2>2. FieldAt(2, 20, {0, 1}) = {20, 21}
    BY DEF FieldAt
  <2> QED BY <2>1, <2>2, FieldSet
<1>3. CPACRWord = UNION {R!SetField({}, R!CPACR_EL1.fields.FPEN, {0, 1})}
  BY <1>1 DEF CPACRWord, With, R!CPACR_EL1, R!Class
<1> QED BY <1>2, <1>3

LEMMA MAIRBits ==
    /\ R!DeviceMemory = {} /\ R!NormalMemory = {2, 6}
    /\ MAIRWord = {10, 14}
<1>1. R!DeviceMemory = {} /\ R!NormalMemory = {2, 6}
  BY BitsOfNumbers DEF R!DeviceMemory, R!NormalMemory
<1>2. /\ R!AttributeName(DeviceMAIRIndex) = "Attr0"
      /\ R!AttributeName(NormalMAIRIndex) = "Attr1"
  BY DEF R!AttributeName, DeviceMAIRIndex, NormalMAIRIndex
<1>3. /\ R!MAIR_EL1.fields["Attr0"] = R!Attribute(0)
      /\ R!MAIR_EL1.fields["Attr1"] = R!Attribute(1)
  <2>1. \A i \in 0 .. R!AttributeCount - 1 : R!AttributeName(i) = "Attr0" => i = 0
    BY DEF R!AttributeName, R!AttributeCount
  <2>2. \A i \in 0 .. R!AttributeCount - 1 : R!AttributeName(i) = "Attr1" => i = 1
    BY DEF R!AttributeName, R!AttributeCount
  <2>3. R!AttributeName(0) = "Attr0" /\ R!AttributeName(1) = "Attr1"
        /\ 0 \in 0 .. R!AttributeCount - 1 /\ 1 \in 0 .. R!AttributeCount - 1
    BY DEF R!AttributeName, R!AttributeCount
  <2>4. /\ (CHOOSE i \in 0 .. R!AttributeCount - 1 : R!AttributeName(i) = "Attr0") = 0
        /\ (CHOOSE i \in 0 .. R!AttributeCount - 1 : R!AttributeName(i) = "Attr1") = 1
    BY <2>1, <2>2, <2>3
  <2> QED BY <2>3, <2>4 DEF R!MAIR_EL1, R!Class
<1>4. R!SetField({}, R!Attribute(0), {}) = {} /\ R!SetField({}, R!Attribute(1), {2, 6}) = {10, 14}
  <2>1. \A i \in {0, 1} :
          R!Attribute(i) = R!Field(R!Mask(8), 8 * i, {R!NormalMemory, R!DeviceMemory})
    BY DEF R!Attribute
  <2>2. FieldAt(8, 8 * 0, {}) = {}
    BY DEF FieldAt
  <2>3. FieldAt(8, 8 * 1, {2, 6}) = {10, 14}
    BY DEF FieldAt
  <2> QED BY <2>1, <2>2, <2>3, FieldSet
<1>5. /\ DOMAIN MAIRValues = {"Attr0", "Attr1"}
      /\ MAIRValues["Attr0"] = {} /\ MAIRValues["Attr1"] = {2, 6}
  BY <1>1, <1>2 DEF MAIRValues
<1>6. MAIRWord = UNION {R!SetField({}, R!MAIR_EL1.fields[n], MAIRValues[n]) :
                          n \in DOMAIN MAIRValues}
  BY DEF MAIRWord, With, R!MAIR_EL1, R!Class
<1> QED BY <1>1, <1>3, <1>4, <1>5, <1>6

LEMMA TCRBits == TCRWord = {4, 20, 31}
<1> DEFINE fields == R!TCR_EL1.fields
<1>1. R!EncodedSize(LowAddressBits) = {4}
  BY BitsOfNumbers DEF R!EncodedSize, LowAddressBits, R!TotalAddrBits
<1>2. R!T0Granule.Size4kb = {} /\ R!T1Granule.Size4kb = {1}
  BY BitsOfNumbers DEF R!T0Granule, R!T1Granule
<1>3. /\ DOMAIN TCRValues = {"T0SZ", "TG0", "T1SZ", "TG1"}
      /\ TCRValues["T0SZ"] = {4} /\ TCRValues["TG0"] = {}
      /\ TCRValues["T1SZ"] = {4} /\ TCRValues["TG1"] = {1}
  BY <1>1, <1>2 DEF TCRValues
<1>4. R!SetField({}, fields["T0SZ"], {4}) = {4} /\ R!SetField({}, fields["TG0"], {}) = {}
  BY FieldSet DEF R!TCR_EL1, R!Class, FieldAt
<1>5. R!SetField({}, fields["T1SZ"], {4}) = {20} /\ R!SetField({}, fields["TG1"], {1}) = {31}
  BY FieldSet DEF R!TCR_EL1, R!Class, FieldAt
<1>6. TCRWord = UNION {R!SetField({}, fields[n], TCRValues[n]) : n \in DOMAIN TCRValues}
  BY DEF TCRWord, With, R!TCR_EL1, R!Class
<1> HIDE DEF fields
<1> QED BY <1>3, <1>4, <1>5, <1>6

\* What the processor and the code make of them.
LEMMA FlagM ==
    ASSUME NEW bits
    PROVE  /\ R!GetField(bits, R!SCTLR_EL1.fields.M) # {} <=> 0 \in bits
           /\ R!SetField(bits, R!SCTLR_EL1.fields.M, {0}) = bits \union {0}
<1>1. R!SCTLR_EL1.fields.M = R!Field(R!Mask(1), 0, {R!Bits(0), R!Bits(1)})
  BY DEF R!SCTLR_EL1, R!Class, R!Flag
<1>2. R!GetField(bits, R!SCTLR_EL1.fields.M) = {i \in 0 .. 1 - 1 : i + 0 \in bits}
  BY <1>1, FieldGet
<1>3. R!SetField(bits, R!SCTLR_EL1.fields.M, {0}) = bits \union {0}
  BY <1>1 DEF R!SetField, R!Field, R!Mask, R!WriteMultiBitValue, R!Shifted, R!Bit
<1> QED BY <1>2, <1>3

\* The level is read as it is, in CurrentEL and in SPSR_EL2.
LEMMA LevelRead ==
    ASSUME NEW n \in {1, 2, 3}
    PROVE  R!Number(R!ReadMultiBitValue(R!Shifted(R!Bits(n), 2), R!Bits(3), 2)) = n
<1>1. R!Bits(n) \subseteq {0, 1} /\ R!Bits(3) = {0, 1}
  BY BitsOfNumbers
<1>2. R!ReadMultiBitValue(R!Shifted(R!Bits(n), 2), R!Bits(3), 2) = R!Bits(n)
  <2> DEFINE b == R!Bits(n)
  <2> HIDE DEF b
  <2>1. b \subseteq {0, 1}
    BY <1>1 DEF b
  <2>2. R!Shifted({0, 1}, 2) = {2, 3} /\ R!Shifted(b, 2) = {i \in {2, 3} : i - 2 \in b}
    BY <2>1 DEF R!Shifted, R!Bit
  <2>3. R!Shifted(b, 2) \intersect R!Shifted({0, 1}, 2) = {i \in {2, 3} : i - 2 \in b}
    BY <2>2
  <2>4. {i - 2 : i \in {j \in {2, 3} : j - 2 \in b}} = b
    <3>1. ASSUME NEW k \in b PROVE k + 2 \in {j \in {2, 3} : j - 2 \in b} /\ k = (k + 2) - 2
      BY <2>1
    <3> QED BY <3>1
  <2>5. R!ReadMultiBitValue(R!Shifted(b, 2), {0, 1}, 2) = b
    BY <2>3, <2>4 DEF R!ReadMultiBitValue
  <2> QED BY <1>1, <2>5 DEF b
<1> QED BY <1>2, NumberOfBits

LEMMA ReturnRead ==
    /\ R!GetField(HCRWord, R!HCR_EL2.fields.RW) # {}
    /\ LET mode == R!GetField(SPSRWord, R!SPSR_EL2.fields.M)
       IN  R!Number(R!ReadMultiBitValue(mode, R!Bits(3), 2)) = 1 /\ 0 \in mode
    /\ {name \in Interrupts : R!GetField(SPSRWord, R!SPSR_EL2.fields[name]) # {}} = Interrupts
<1>1. R!GetField(HCRWord, R!HCR_EL2.fields.RW) # {}
  <2>1. R!HCR_EL2.fields.RW = R!Field(R!Mask(1), 31, {R!Bits(0), R!Bits(1)})
    BY DEF R!HCR_EL2, R!Class, R!Flag
  <2>2. R!GetField(HCRWord, R!HCR_EL2.fields.RW) = {i \in 0 .. 1 - 1 : i + 31 \in {31}}
    BY <2>1, FieldGet, HCRBits
  <2> QED BY <2>2
<1>2. R!GetField(SPSRWord, R!SPSR_EL2.fields.M) = {0, 2}
  <2>1. R!SPSR_EL2.fields.M = R!Field(R!Mask(4), 0, R!Enumerators(R!Mode))
    BY DEF R!SPSR_EL2, R!Class
  <2>2. R!GetField(SPSRWord, R!SPSR_EL2.fields.M)
          = {i \in 0 .. 4 - 1 : i + 0 \in {0, 2, 6, 7, 8, 9}}
    BY <2>1, FieldGet, SPSRBits
  <2> QED BY <2>2
<1>3. R!Number(R!ReadMultiBitValue({0, 2}, R!Bits(3), 2)) = 1
  <2>1. R!Bits(3) = {0, 1} /\ R!Bits(1) = {0}
    BY BitsOfNumbers
  <2>2. R!ReadMultiBitValue({0, 2}, {0, 1}, 2) = {0}
    BY DEF R!ReadMultiBitValue, R!Shifted, R!Bit
  <2>3. R!Number(R!Bits(1)) = 1
    BY NumberOfBits
  <2> QED BY <2>1, <2>2, <2>3
<1>4. ASSUME NEW name \in Interrupts
      PROVE  R!GetField(SPSRWord, R!SPSR_EL2.fields[name]) # {}
  <2>1. PICK index \in {6, 7, 8, 9} : R!SPSR_EL2.fields[name] = R!Flag(index)
    BY DEF R!SPSR_EL2, R!Class, Interrupts
  <2>2. R!GetField(SPSRWord, R!Flag(index)) = {i \in 0 .. 1 - 1 : i + index \in SPSRWord}
    BY FieldGet DEF R!Flag
  <2>3. 0 + index \in SPSRWord
    BY SPSRBits
  <2> QED BY <2>1, <2>2, <2>3
<1> QED BY <1>1, <1>2, <1>3, <1>4

LEMMA TrapsRead == R!GetField(CPACRWord, R!CPACR_EL1.fields.FPEN) = R!FPENTraps.TrapNone
<1>1. R!FPENTraps.TrapNone = {0, 1}
  BY BitsOfNumbers DEF R!FPENTraps
<1>2. R!CPACR_EL1.fields.FPEN = R!Field(R!Mask(2), 20, R!Enumerators(R!FPENTraps))
  BY DEF R!CPACR_EL1, R!Class
<1>3. R!GetField(CPACRWord, R!CPACR_EL1.fields.FPEN) = {i \in 0 .. 2 - 1 : i + 20 \in {20, 21}}
  BY <1>2, FieldGet, CPACRBits
<1> QED BY <1>1, <1>3

LEMMA AttributesRead ==
    /\ R!GetField(MAIRWord, R!Attribute(DeviceMAIRIndex)) = R!DeviceMemory
    /\ R!GetField(MAIRWord, R!Attribute(NormalMAIRIndex)) = R!NormalMemory
<1>1. \A i \in {0, 1} : R!Attribute(i) = R!Field(R!Mask(8), 8 * i, {R!NormalMemory, R!DeviceMemory})
  BY DEF R!Attribute
<1>2. R!GetField(MAIRWord, R!Attribute(0)) = {i \in 0 .. 8 - 1 : i + 0 \in {10, 14}}
  BY <1>1, FieldGet, MAIRBits
<1>3. R!GetField(MAIRWord, R!Attribute(1)) = {i \in 0 .. 8 - 1 : i + 8 \in {10, 14}}
  BY <1>1, FieldGet, MAIRBits
<1> QED BY <1>2, <1>3, MAIRBits DEF DeviceMAIRIndex, NormalMAIRIndex

LEMMA LevelsRead ==
    LET Get(name) == R!GetField(TCRWord, R!TCR_EL1.fields[name])
    IN  /\ WalkedLevels(Get("T0SZ"), R!T0Granule.Size4kb, Get("TG0")) = 4
        /\ WalkedLevels(Get("T1SZ"), R!T1Granule.Size4kb, Get("TG1")) = 4
<1> DEFINE Get(name) == R!GetField(TCRWord, R!TCR_EL1.fields[name])
<1>1. /\ R!TCR_EL1.fields["T0SZ"] = R!Field(R!Mask(6), 0, R!AddressSizes)
      /\ R!TCR_EL1.fields["TG0"] = R!Field(R!Mask(2), 14, R!Enumerators(R!T0Granule))
      /\ R!TCR_EL1.fields["T1SZ"] = R!Field(R!Mask(6), 16, R!AddressSizes)
      /\ R!TCR_EL1.fields["TG1"] = R!Field(R!Mask(2), 30, R!Enumerators(R!T1Granule))
  BY DEF R!TCR_EL1, R!Class
<1>2. /\ Get("T0SZ") = {i \in 0 .. 6 - 1 : i + 0 \in {4, 20, 31}}
      /\ Get("TG0") = {i \in 0 .. 2 - 1 : i + 14 \in {4, 20, 31}}
      /\ Get("T1SZ") = {i \in 0 .. 6 - 1 : i + 16 \in {4, 20, 31}}
      /\ Get("TG1") = {i \in 0 .. 2 - 1 : i + 30 \in {4, 20, 31}}
  BY <1>1, FieldGet, TCRBits
<1>3. Get("T0SZ") = {4} /\ Get("TG0") = {} /\ Get("T1SZ") = {4} /\ Get("TG1") = {1}
  <2> HIDE DEF Get
  <2>1. Get("T0SZ") = {4} /\ Get("TG0") = {}
    BY <1>2
  <2>2. Get("T1SZ") = {4} /\ Get("TG1") = {1}
    BY <1>2
  <2> QED BY <2>1, <2>2
<1>4. R!T0Granule.Size4kb = {} /\ R!T1Granule.Size4kb = {1}
  BY BitsOfNumbers DEF R!T0Granule, R!T1Granule
<1>5. R!DecodedSize({4}) = 48
  <2>1. R!Number({4}) = 16
    <3>1. R!Bits(16) = {4}
      BY BitsOfNumbers
    <3> QED BY <3>1, NumberOfBits
  <2> QED BY <2>1 DEF R!DecodedSize, R!TotalAddrBits
<1> HIDE DEF Get
<1>6. (48 - 12) \div 9 = 4
  OBVIOUS
<1>7. /\ WalkedLevels(Get("T0SZ"), R!T0Granule.Size4kb, Get("TG0")) = 4
      /\ WalkedLevels(Get("T1SZ"), R!T1Granule.Size4kb, Get("TG1")) = 4
  BY <1>3, <1>4, <1>5, <1>6 DEF WalkedLevels
<1> QED BY <1>7 DEF Get

\* _pg_dir is at an even address, so that the mask of BADDR cuts nothing.
LEMMA TableBaseRead ==
    ASSUME code \in CodePages
    PROVE  /\ R!GetField(TableBase, R!TTBRn_EL1.fields.BADDR) = R!Bits(PgDir(code))
           /\ TableBase \subseteq R!Bit
<1> DEFINE base == R!Bits(PgDir(code))
<1>1. 0 \notin base
  <2>1. PICK g \in Nat : g = PgDir(code) /\ g % PageSize = 0
    BY ImageLayout DEF Aligned
  <2>2. PICK s \in Nat \ {0} : s = PageSize /\ s % 2 = 0
    BY BootPageTablesAssumption, BootKernelAssumption
  <2>3. g = (g \div s) * s + (g % s) /\ g \div s \in Nat
    BY <2>1, <2>2, DivMod
  <2>4. PICK a \in Nat, b \in Nat : g = a * s /\ s = b * 2
    <3>1. g = (g \div s) * s
      BY <2>1, <2>2, <2>3
    <3>2. s = (s \div 2) * 2 /\ s \div 2 \in Nat
      BY <2>2
    <3> QED BY <2>3, <3>1, <3>2
  <2>5. g = (a * b) * 2 /\ a * b \in Nat
    BY <2>4
  <2>6. g % 2 = 0
    BY <2>5
  <2> QED BY <2>1, <2>6 DEF R!Bits, R!PowersOfTwo
<1>2. base \subseteq 1 .. 30
  BY <1>1 DEF R!Bits
<1> HIDE DEF base
<1>3. base \intersect (1 .. 47) = base /\ base \intersect R!Shifted(1 .. 47, 0) = base
  <2>1. \A i \in base : i \in 1 .. 47 /\ i \in R!Bit /\ i = i + 0
    BY <1>2 DEF R!Bit
  <2>2. \A i \in base : i \in R!Shifted(1 .. 47, 0)
    BY <2>1 DEF R!Shifted
  <2> QED BY <2>1, <2>2
<1>4. {i + 0 : i \in base} = base /\ {i - 0 : i \in base} = base
  <2>1. \A i \in base : i + 0 = i /\ i - 0 = i
    BY <1>2
  <2> QED BY <2>1
<1>5. R!SetField({}, R!Address(1 .. 47), base) = base
  <2>1. R!Shifted(base, 0) = base
    BY <1>2, <1>4 DEF R!Shifted, R!Bit
  <2> QED BY <1>3, <2>1 DEF R!SetField, R!Address, R!Field, R!WriteMultiBitValue
<1>6. TableBase = base
  <2>1. R!TTBRn_EL1.fields = [BADDR |-> R!Address(1 .. 47)] /\ R!TTBRn_EL1.constructed = {}
    BY DEF R!TTBRn_EL1, R!Class
  <2>2. TableBase = With(R!TTBRn_EL1, [BADDR |-> base])
    BY DEF TableBase, base
  <2> QED BY <1>5, <2>1, <2>2 DEF With
<1>7. R!GetField(base, R!TTBRn_EL1.fields.BADDR) = base
  <2>1. R!TTBRn_EL1.fields.BADDR = R!Address(1 .. 47)
    BY DEF R!TTBRn_EL1, R!Class
  <2>2. R!GetField(base, R!Address(1 .. 47)) = {i - 0 : i \in base}
    BY <1>3 DEF R!GetField, R!Address, R!Field, R!ReadMultiBitValue
  <2> QED BY <1>4, <2>1, <2>2
<1>8. TableBase \subseteq R!Bit
  BY <1>2, <1>6 DEF R!Bit
<1> QED BY <1>6, <1>7, <1>8 DEF base

-----------------------------------------------------------------------------
(***************************************************************************)
(* What has been written, and what the processor goes by, at each place in *)
(* boot_kernel.                                                            *)
(***************************************************************************)
AfterMMU == {"on", "move"}
AfterBarrier == {"mmu"} \union AfterMMU
AfterTCR == {"barrier"} \union AfterBarrier
AfterMAIR == {"tcr"} \union AfterTCR
AfterTTBR1 == {"mair"} \union AfterMAIR
AfterTTBR0 == {"ttbr1"} \union AfterTTBR1
AfterTables == {"ttbr0"} \union AfterTTBR0
AfterCPACR == {"tables"} \union AfterTables
AfterSCTLR == {"cpacr"} \union AfterCPACR
AtEL1 == {"sctlr"} \union AfterSCTLR
AfterHSTR == {"eret"} \union AtEL1
AfterCPTR == {"hstr"} \union AfterHSTR
AfterSPSR == {"cptr"} \union AfterCPTR
AfterHCR == {"spsr"} \union AfterSPSR

\* Where BootPageTables is meanwhile.
Places ==
    /\ boot \in AfterTables \ {"move"} <=> step = "enable"
    /\ boot = "move" <=> step \in {"jump", "stack", "kmain"}

Levels ==
    /\ boot = "level" => el = entryLevel
    /\ boot \in {"hcr", "spsr", "cptr", "hstr", "eret"} => entryLevel = 2
    /\ boot \in AtEL1 => el = 1
    /\ spsel = 1 /\ aarch64

\* What has been written stays, until SCTLR_EL1 is written once more.
Written ==
    /\ entryLevel = 2 =>
         /\ boot \in AfterHCR => register["HCR_EL2"] = HCRWord
         /\ boot \in AfterSPSR => register["SPSR_EL2"] = SPSRWord
         /\ boot \in AfterCPTR => register["CPTR_EL2"] = R!CPTR_EL2.constructed
         /\ boot \in AfterHSTR => register["HSTR_EL2"] = {}
    /\ boot \in AfterSCTLR \ AfterMMU => register["SCTLR_EL1"] = R!SCTLR_EL1.constructed
    /\ boot \in AfterMMU => register["SCTLR_EL1"] = R!SCTLR_EL1.constructed \union {0}
    /\ boot \in AfterCPACR => register["CPACR_EL1"] = CPACRWord
    /\ boot \in AfterTTBR0 => register["TTBR0_EL1"] = TableBase
    /\ boot \in AfterTTBR1 => register["TTBR1_EL1"] = TableBase
    /\ boot \in AfterMAIR => register["MAIR_EL1"] = MAIRWord
    /\ boot \in AfterTCR => register["TCR_EL1"] = TCRWord

\* The MMU is off, or all that it goes by has been seen.
Seen ==
    /\ boot \notin AfterMMU => 0 \notin register["SCTLR_EL1"] /\ 0 \notin seen["SCTLR_EL1"]
    /\ boot \in {"mmu", "on"} =>
         \A r \in Register \ {"SCTLR_EL1"} : seen[r] = register[r]
    /\ boot = "move" => seen = register

BootInv == IInv /\ BootTypeOK /\ Places /\ Levels /\ Written /\ Seen

LEMMA Words ==
    /\ HCRWord \in R!Word /\ SPSRWord \in R!Word /\ CPACRWord \in R!Word
    /\ MAIRWord \in R!Word /\ TCRWord \in R!Word
    /\ R!CPTR_EL2.constructed \in R!Word
    /\ R!SCTLR_EL1.constructed \in R!Word
    /\ R!SCTLR_EL1.constructed \union {0} \in R!Word
    /\ 0 \notin R!SCTLR_EL1.constructed
    /\ {} \in R!Word
<1>1. HCRWord \in R!Word /\ SPSRWord \in R!Word /\ CPACRWord \in R!Word
  BY HCRBits, SPSRBits, CPACRBits DEF R!Word, R!Bit
<1>2. MAIRWord \in R!Word /\ TCRWord \in R!Word
  BY MAIRBits, TCRBits DEF R!Word, R!Bit
<1>3. /\ R!CPTR_EL2.constructed \in R!Word /\ R!SCTLR_EL1.constructed \in R!Word
      /\ R!SCTLR_EL1.constructed \union {0} \in R!Word /\ 0 \notin R!SCTLR_EL1.constructed
  BY TrapBits DEF R!Word, R!Bit
<1> QED BY <1>1, <1>2, <1>3 DEF R!Word

LEMMA FirmwareRegisters ==
    ASSUME NEW w \in R!Word, NEW registers,
           registers = [[r \in Register |-> w] EXCEPT !["SCTLR_EL1"] = w \ {0, 25}]
    PROVE  registers \in [Register -> R!Word] /\ 0 \notin registers["SCTLR_EL1"]
<1> DEFINE filled == [r \in Register |-> w]
<1>1. w \ {0, 25} \in R!Word
  BY DEF R!Word
<1>2. filled \in [Register -> R!Word]
  OBVIOUS
<1>3. registers = [filled EXCEPT !["SCTLR_EL1"] = w \ {0, 25}] /\ "SCTLR_EL1" \in Register
  BY DEF Register
<1> HIDE DEF filled
<1>4. PICK v \in R!Word : v = w \ {0, 25} /\ registers = [filled EXCEPT !["SCTLR_EL1"] = v]
  BY <1>1, <1>3
<1>5. registers \in [Register -> R!Word] /\ registers["SCTLR_EL1"] = v
  BY <1>2, <1>3, <1>4
<1> QED BY <1>4, <1>5

LEMMA BootStarts == BootInit => BootInv
<1> SUFFICES ASSUME BootInit PROVE BootInv
  OBVIOUS
<1>1. IInv /\ TypeOK
  BY BootPageTablesInit DEF BootInit, IInv
<1>2. PICK w \in FirmwareWords :
        register = [[r \in Register |-> w] EXCEPT !["SCTLR_EL1"] = w \ {0, 25}]
  BY DEF BootInit
<1>3. register \in [Register -> R!Word] /\ 0 \notin register["SCTLR_EL1"] /\ seen = register
  <2>1. w \in R!Word
    BY BootKernelAssumption
  <2>2. register \in [Register -> R!Word] /\ 0 \notin register["SCTLR_EL1"]
    BY <1>2, <2>1, FirmwareRegisters
  <2> QED BY <2>2 DEF BootInit
<1>4. boot = "level" /\ el = entryLevel /\ entryLevel \in {1, 2, 3} /\ step = "root"
  BY BootKernelAssumption DEF BootInit, Init
<1>5. BootTypeOK
  BY <1>1, <1>3, <1>4 DEF BootTypeOK, BootInit
<1>6. Places /\ Levels
  BY <1>4 DEF BootInit, Places, Levels, AtEL1, AfterSCTLR, AfterCPACR, AfterTables, AfterTTBR0,
              AfterTTBR1, AfterMAIR, AfterTCR, AfterBarrier, AfterMMU
<1>7. Written
  BY <1>4 DEF Written, AfterHCR, AfterSPSR, AfterCPTR, AfterHSTR, AtEL1, AfterSCTLR, AfterCPACR,
              AfterTables, AfterTTBR0, AfterTTBR1, AfterMAIR, AfterTCR, AfterBarrier, AfterMMU
<1>8. Seen
  BY <1>3, <1>4 DEF Seen, AfterMMU
<1> QED BY <1>1, <1>5, <1>6, <1>7, <1>8 DEF BootInv

\* A statement that writes a register changes nothing else.
LEMMA Writing ==
    ASSUME BootInv, NEW r \in Register, NEW value \in R!Word,
           NEW next \in AfterHCR, Write(r, value, next)
    PROVE  /\ IInv' /\ BootTypeOK'
           /\ register'[r] = value
           /\ \A q \in Register \ {r} : register'[q] = register[q]
           /\ boot' = next
           /\ UNCHANGED << step, code, entryLevel, el, spsel, aarch64, DAIF, seen >>
<1>1. /\ UNCHANGED << vars, entryLevel, el, spsel, aarch64, DAIF, seen >>
      /\ boot' = next /\ register' = [register EXCEPT ![r] = value]
  BY DEF Write
<1>2. IInv' /\ TypeOK'
  BY <1>1, BootPageTablesNext DEF BootInv, IInv
<1>3. register' \in [Register -> R!Word] /\ register'[r] = value
      /\ \A q \in Register \ {r} : register'[q] = register[q]
  BY <1>1 DEF BootInv, BootTypeOK
<1>4. BootTypeOK'
  BY <1>1, <1>2, <1>3 DEF BootInv, BootTypeOK, AfterHCR, AfterSPSR, AfterCPTR, AfterHSTR, AtEL1,
       AfterSCTLR, AfterCPACR, AfterTables, AfterTTBR0, AfterTTBR1, AfterMAIR, AfterTCR,
       AfterBarrier, AfterMMU
<1> QED BY <1>1, <1>2, <1>3, <1>4 DEF vars

LEMMA WritesKeep ==
    ASSUME BootInv,
           WriteHCR \/ WriteSPSR \/ WriteCPTR \/ WriteHSTR \/ WriteSCTLR \/ WriteCPACR
             \/ WriteTTBR0 \/ WriteTTBR1 \/ WriteMAIR \/ WriteTCR \/ SwitchMMUOn
    PROVE  BootInv' /\ DAIF' = DAIF
<1> USE DEF AfterHCR, AfterSPSR, AfterCPTR, AfterHSTR, AtEL1, AfterSCTLR, AfterCPACR, AfterTables,
            AfterTTBR0, AfterTTBR1, AfterMAIR, AfterTCR, AfterBarrier, AfterMMU, Register
<1>0. Places /\ Levels /\ Written /\ Seen
  BY DEF BootInv
<1>1. TableBase \in R!Word
  BY TableBaseRead DEF BootInv, IInv, TypeOK, R!Word
<1>2. CASE WriteHCR
  <2>1. boot = "hcr" /\ Write("HCR_EL2", HCRWord, "spsr")
    BY <1>2 DEF WriteHCR, HCRWord
  <2>2. /\ IInv' /\ BootTypeOK' /\ register'["HCR_EL2"] = HCRWord /\ boot' = "spsr"
        /\ \A q \in Register \ {"HCR_EL2"} : register'[q] = register[q]
        /\ UNCHANGED << step, code, entryLevel, el, spsel, aarch64, DAIF, seen >>
    BY <1>1, <2>1, Writing, Words
  <2>3. TableBase' = TableBase
    BY <2>2 DEF TableBase, PgDir
  <2>4. Places' /\ Levels'
    BY <1>0, <2>1, <2>2 DEF Places, Levels
  <2>5. Written'
    BY <1>0, <2>1, <2>2, <2>3 DEF Written
  <2>6. Seen'
    BY <1>0, <2>1, <2>2, Words DEF Seen
  <2> QED BY <2>2, <2>4, <2>5, <2>6 DEF BootInv
<1>3. CASE WriteSPSR
  <2>1. boot = "spsr" /\ Write("SPSR_EL2", SPSRWord, "cptr")
    BY <1>3 DEF WriteSPSR, SPSRWord, SPSRValues
  <2>2. /\ IInv' /\ BootTypeOK' /\ register'["SPSR_EL2"] = SPSRWord /\ boot' = "cptr"
        /\ \A q \in Register \ {"SPSR_EL2"} : register'[q] = register[q]
        /\ UNCHANGED << step, code, entryLevel, el, spsel, aarch64, DAIF, seen >>
    BY <1>1, <2>1, Writing, Words
  <2>3. TableBase' = TableBase
    BY <2>2 DEF TableBase, PgDir
  <2>4. Places' /\ Levels'
    BY <1>0, <2>1, <2>2 DEF Places, Levels
  <2>5. Written'
    BY <1>0, <2>1, <2>2, <2>3 DEF Written
  <2>6. Seen'
    BY <1>0, <2>1, <2>2, Words DEF Seen
  <2> QED BY <2>2, <2>4, <2>5, <2>6 DEF BootInv
<1>4. CASE WriteCPTR
  <2>1. boot = "cptr" /\ Write("CPTR_EL2", R!CPTR_EL2.constructed, "hstr")
    BY <1>4, TrapBits DEF WriteCPTR
  <2>2. /\ IInv' /\ BootTypeOK' /\ register'["CPTR_EL2"] = R!CPTR_EL2.constructed /\ boot' = "hstr"
        /\ \A q \in Register \ {"CPTR_EL2"} : register'[q] = register[q]
        /\ UNCHANGED << step, code, entryLevel, el, spsel, aarch64, DAIF, seen >>
    BY <1>1, <2>1, Writing, Words
  <2>3. TableBase' = TableBase
    BY <2>2 DEF TableBase, PgDir
  <2>4. Places' /\ Levels'
    BY <1>0, <2>1, <2>2 DEF Places, Levels
  <2>5. Written'
    BY <1>0, <2>1, <2>2, <2>3 DEF Written
  <2>6. Seen'
    BY <1>0, <2>1, <2>2, Words DEF Seen
  <2> QED BY <2>2, <2>4, <2>5, <2>6 DEF BootInv
<1>5. CASE WriteHSTR
  <2>1. boot = "hstr" /\ Write("HSTR_EL2", {}, "eret")
    BY <1>5, TrapBits DEF WriteHSTR
  <2>2. /\ IInv' /\ BootTypeOK' /\ register'["HSTR_EL2"] = {} /\ boot' = "eret"
        /\ \A q \in Register \ {"HSTR_EL2"} : register'[q] = register[q]
        /\ UNCHANGED << step, code, entryLevel, el, spsel, aarch64, DAIF, seen >>
    BY <1>1, <2>1, Writing, Words
  <2>3. TableBase' = TableBase
    BY <2>2 DEF TableBase, PgDir
  <2>4. Places' /\ Levels'
    BY <1>0, <2>1, <2>2 DEF Places, Levels
  <2>5. Written'
    BY <1>0, <2>1, <2>2, <2>3 DEF Written
  <2>6. Seen'
    BY <1>0, <2>1, <2>2, Words DEF Seen
  <2> QED BY <2>2, <2>4, <2>5, <2>6 DEF BootInv
<1>6. CASE WriteSCTLR
  <2>1. boot = "sctlr" /\ Write("SCTLR_EL1", R!SCTLR_EL1.constructed, "cpacr")
    BY <1>6, TrapBits DEF WriteSCTLR, ConstructedSCTLR
  <2>2. /\ IInv' /\ BootTypeOK' /\ boot' = "cpacr"
        /\ register'["SCTLR_EL1"] = R!SCTLR_EL1.constructed
        /\ \A q \in Register \ {"SCTLR_EL1"} : register'[q] = register[q]
        /\ UNCHANGED << step, code, entryLevel, el, spsel, aarch64, DAIF, seen >>
    BY <1>1, <2>1, Writing, Words
  <2>3. TableBase' = TableBase
    BY <2>2 DEF TableBase, PgDir
  <2>4. Places' /\ Levels'
    BY <1>0, <2>1, <2>2 DEF Places, Levels
  <2>5. Written'
    BY <1>0, <2>1, <2>2, <2>3 DEF Written
  <2>6. Seen'
    BY <1>0, <2>1, <2>2, Words DEF Seen
  <2> QED BY <2>2, <2>4, <2>5, <2>6 DEF BootInv
<1>7. CASE WriteCPACR
  <2>1. boot = "cpacr" /\ Write("CPACR_EL1", CPACRWord, "tables")
    BY <1>7 DEF WriteCPACR, CPACRWord
  <2>2. /\ IInv' /\ BootTypeOK' /\ register'["CPACR_EL1"] = CPACRWord /\ boot' = "tables"
        /\ \A q \in Register \ {"CPACR_EL1"} : register'[q] = register[q]
        /\ UNCHANGED << step, code, entryLevel, el, spsel, aarch64, DAIF, seen >>
    BY <1>1, <2>1, Writing, Words
  <2>3. TableBase' = TableBase
    BY <2>2 DEF TableBase, PgDir
  <2>4. Places' /\ Levels'
    BY <1>0, <2>1, <2>2 DEF Places, Levels
  <2>5. Written'
    BY <1>0, <2>1, <2>2, <2>3 DEF Written
  <2>6. Seen'
    BY <1>0, <2>1, <2>2, Words DEF Seen
  <2> QED BY <2>2, <2>4, <2>5, <2>6 DEF BootInv
<1>8. CASE WriteTTBR0
  <2>1. boot = "ttbr0" /\ Write("TTBR0_EL1", TableBase, "ttbr1")
    BY <1>8 DEF WriteTTBR0
  <2>2. /\ IInv' /\ BootTypeOK' /\ register'["TTBR0_EL1"] = TableBase /\ boot' = "ttbr1"
        /\ \A q \in Register \ {"TTBR0_EL1"} : register'[q] = register[q]
        /\ UNCHANGED << step, code, entryLevel, el, spsel, aarch64, DAIF, seen >>
    BY <1>1, <2>1, Writing, Words
  <2>3. TableBase' = TableBase
    BY <2>2 DEF TableBase, PgDir
  <2>4. Places' /\ Levels'
    BY <1>0, <2>1, <2>2 DEF Places, Levels
  <2>5. Written'
    BY <1>0, <2>1, <2>2, <2>3 DEF Written
  <2>6. Seen'
    BY <1>0, <2>1, <2>2, Words DEF Seen
  <2> QED BY <2>2, <2>4, <2>5, <2>6 DEF BootInv
<1>9. CASE WriteTTBR1
  <2>1. boot = "ttbr1" /\ Write("TTBR1_EL1", TableBase, "mair")
    BY <1>9 DEF WriteTTBR1
  <2>2. /\ IInv' /\ BootTypeOK' /\ register'["TTBR1_EL1"] = TableBase /\ boot' = "mair"
        /\ \A q \in Register \ {"TTBR1_EL1"} : register'[q] = register[q]
        /\ UNCHANGED << step, code, entryLevel, el, spsel, aarch64, DAIF, seen >>
    BY <1>1, <2>1, Writing, Words
  <2>3. TableBase' = TableBase
    BY <2>2 DEF TableBase, PgDir
  <2>4. Places' /\ Levels'
    BY <1>0, <2>1, <2>2 DEF Places, Levels
  <2>5. Written'
    BY <1>0, <2>1, <2>2, <2>3 DEF Written
  <2>6. Seen'
    BY <1>0, <2>1, <2>2, Words DEF Seen
  <2> QED BY <2>2, <2>4, <2>5, <2>6 DEF BootInv
<1>10. CASE WriteMAIR
  <2>1. boot = "mair" /\ Write("MAIR_EL1", MAIRWord, "tcr")
    BY <1>10 DEF WriteMAIR, MAIRWord, MAIRValues
  <2>2. /\ IInv' /\ BootTypeOK' /\ register'["MAIR_EL1"] = MAIRWord /\ boot' = "tcr"
        /\ \A q \in Register \ {"MAIR_EL1"} : register'[q] = register[q]
        /\ UNCHANGED << step, code, entryLevel, el, spsel, aarch64, DAIF, seen >>
    BY <1>1, <2>1, Writing, Words
  <2>3. TableBase' = TableBase
    BY <2>2 DEF TableBase, PgDir
  <2>4. Places' /\ Levels'
    BY <1>0, <2>1, <2>2 DEF Places, Levels
  <2>5. Written'
    BY <1>0, <2>1, <2>2, <2>3 DEF Written
  <2>6. Seen'
    BY <1>0, <2>1, <2>2, Words DEF Seen
  <2> QED BY <2>2, <2>4, <2>5, <2>6 DEF BootInv
<1>11. CASE WriteTCR
  <2>1. boot = "tcr" /\ Write("TCR_EL1", TCRWord, "barrier")
    BY <1>11 DEF WriteTCR, TCRWord, TCRValues
  <2>2. /\ IInv' /\ BootTypeOK' /\ register'["TCR_EL1"] = TCRWord /\ boot' = "barrier"
        /\ \A q \in Register \ {"TCR_EL1"} : register'[q] = register[q]
        /\ UNCHANGED << step, code, entryLevel, el, spsel, aarch64, DAIF, seen >>
    BY <1>1, <2>1, Writing, Words
  <2>3. TableBase' = TableBase
    BY <2>2 DEF TableBase, PgDir
  <2>4. Places' /\ Levels'
    BY <1>0, <2>1, <2>2 DEF Places, Levels
  <2>5. Written'
    BY <1>0, <2>1, <2>2, <2>3 DEF Written
  <2>6. Seen'
    BY <1>0, <2>1, <2>2, Words DEF Seen
  <2> QED BY <2>2, <2>4, <2>5, <2>6 DEF BootInv
<1>12. CASE SwitchMMUOn
  <2>1. boot = "mmu" /\ Write("SCTLR_EL1", R!SCTLR_EL1.constructed \union {0}, "on")
    <3>1. boot = "mmu"
      BY <1>12 DEF SwitchMMUOn
    <3>2. register["SCTLR_EL1"] = R!SCTLR_EL1.constructed
      BY <1>0, <3>1 DEF Written
    <3>3. R!SetField(register["SCTLR_EL1"], R!SCTLR_EL1.fields.M, {0})
            = R!SCTLR_EL1.constructed \union {0}
      BY <3>2, FlagM
    <3> QED BY <1>12, <3>1, <3>3 DEF SwitchMMUOn
  <2>2. /\ IInv' /\ BootTypeOK' /\ boot' = "on"
        /\ register'["SCTLR_EL1"] = R!SCTLR_EL1.constructed \union {0}
        /\ \A q \in Register \ {"SCTLR_EL1"} : register'[q] = register[q]
        /\ UNCHANGED << step, code, entryLevel, el, spsel, aarch64, DAIF, seen >>
    BY <1>1, <2>1, Writing, Words
  <2>3. TableBase' = TableBase
    BY <2>2 DEF TableBase, PgDir
  <2>4. Places' /\ Levels'
    BY <1>0, <2>1, <2>2 DEF Places, Levels
  <2>5. Written'
    BY <1>0, <2>1, <2>2, <2>3 DEF Written
  <2>6. Seen'
    BY <1>0, <2>1, <2>2, Words DEF Seen
  <2> QED BY <2>2, <2>4, <2>5, <2>6 DEF BootInv
<1> QED BY <1>2, <1>3, <1>4, <1>5, <1>6, <1>7, <1>8, <1>9, <1>10, <1>11, <1>12

LEMMA CheckLevelKeeps == ASSUME BootInv, CheckLevel PROVE BootInv' /\ DAIF' = DAIF
<1> USE DEF AfterHCR, AfterSPSR, AfterCPTR, AfterHSTR, AtEL1, AfterSCTLR, AfterCPACR, AfterTables,
            AfterTTBR0, AfterTTBR1, AfterMAIR, AfterTCR, AfterBarrier, AfterMMU
<1>0. Places /\ Levels /\ Written /\ Seen
  BY DEF BootInv
<1>1. /\ boot = "level"
      /\ UNCHANGED << vars, entryLevel, el, spsel, aarch64, DAIF, register, seen >>
  BY DEF CheckLevel
<1>2. el = entryLevel /\ el \in {1, 2, 3}
  BY <1>0, <1>1, BootKernelAssumption DEF Levels, BootInv, BootTypeOK
<1>3. GetCurrentExceptionLevel(CurrentEL) = el
  BY <1>2, LevelRead DEF GetCurrentExceptionLevel, CurrentEL
<1>4. boot' = CASE el = 1 -> "sctlr" [] el = 2 -> "hcr" [] OTHER -> "panic"
  BY <1>3 DEF CheckLevel
<1>5. \/ el = 1 /\ boot' = "sctlr"
      \/ el = 2 /\ boot' = "hcr"
      \/ boot' = "panic"
  BY <1>2, <1>4
<1>6. IInv' /\ BootTypeOK'
  <2>1. IInv'
    BY <1>1, BootPageTablesNext DEF BootInv
  <2> QED BY <1>1, <1>5, <2>1 DEF BootInv, BootTypeOK, IInv
<1>7. step' = step /\ code' = code
  BY <1>1 DEF vars
<1>8. Places' /\ Levels'
  BY <1>0, <1>1, <1>2, <1>5, <1>7 DEF Places, Levels
<1>9. Written'
  BY <1>1, <1>2, <1>5 DEF Written
<1>10. Seen'
  BY <1>0, <1>1, <1>5 DEF Seen
<1> QED BY <1>1, <1>6, <1>8, <1>9, <1>10 DEF BootInv

\* The exception return arrives at EL1, with everything masked as it was.
LEMMA ExceptionReturnKeeps ==
    ASSUME BootInv, DAIF = Interrupts, ExceptionReturn
    PROVE  BootInv' /\ DAIF' = DAIF
<1> USE DEF AfterHCR, AfterSPSR, AfterCPTR, AfterHSTR, AtEL1, AfterSCTLR, AfterCPACR, AfterTables,
            AfterTTBR0, AfterTTBR1, AfterMAIR, AfterTCR, AfterBarrier, AfterMMU
<1>0. Places /\ Levels /\ Written /\ Seen
  BY DEF BootInv
<1>1. /\ boot = "eret" /\ boot' = "sctlr" /\ seen' = register
      /\ UNCHANGED << vars, entryLevel, register >>
  BY DEF ExceptionReturn
<1>2. register["SPSR_EL2"] = SPSRWord /\ register["HCR_EL2"] = HCRWord /\ entryLevel = 2
  BY <1>0, <1>1 DEF Levels, Written
<1>3. el' = 1 /\ spsel' = 1 /\ aarch64' /\ DAIF' = Interrupts
  <2>1. el' = 1 /\ spsel' = 1
    BY <1>2, ReturnRead DEF ExceptionReturn
  <2>2. aarch64'
    BY <1>2, ReturnRead DEF ExceptionReturn
  <2>3. DAIF' = Interrupts
    BY <1>2, ReturnRead DEF ExceptionReturn
  <2> QED BY <2>1, <2>2, <2>3
<1>4. aarch64' \in BOOLEAN
  BY DEF ExceptionReturn
<1>5. IInv' /\ BootTypeOK'
  <2>1. IInv'
    BY <1>1, BootPageTablesNext DEF BootInv
  <2> QED BY <1>1, <1>3, <1>4, <2>1 DEF BootInv, BootTypeOK, IInv
<1>6. step' = step /\ code' = code
  BY <1>1 DEF vars
<1>7. Places' /\ Levels'
  BY <1>0, <1>1, <1>3, <1>6 DEF Places, Levels
<1>8. Written'
  BY <1>0, <1>1 DEF Written
<1>9. Seen'
  BY <1>0, <1>1 DEF Seen
<1> QED BY <1>3, <1>5, <1>7, <1>8, <1>9 DEF BootInv

LEMMA CreatePageTablesKeeps == ASSUME BootInv, CreatePageTables PROVE BootInv' /\ DAIF' = DAIF
<1> USE DEF AfterHCR, AfterSPSR, AfterCPTR, AfterHSTR, AtEL1, AfterSCTLR, AfterCPACR, AfterTables,
            AfterTTBR0, AfterTTBR1, AfterMAIR, AfterTCR, AfterBarrier, AfterMMU
<1>0. Places /\ Levels /\ Written /\ Seen
  BY DEF BootInv
<1>1. /\ boot = "tables" /\ UNCHANGED << entryLevel, el, spsel, aarch64, DAIF, register, seen >>
      /\ boot' = IF step' = "enable" THEN "ttbr0" ELSE IF step' = "panic" THEN "panic" ELSE boot
      /\ AllocateRoot \/ InsertTable \/ FollowTable \/ InsertPage
  BY DEF CreatePageTables
<1>2. IInv'
  BY <1>1, BootPageTablesNext DEF BootInv, Next
<1>3. step' \in {"insert", "enable", "panic"}
  BY <1>1 DEF AllocateRoot, InsertTable, FollowTable, InsertPage
<1>4. BootTypeOK'
  BY <1>1, <1>2 DEF BootInv, BootTypeOK, IInv
<1>5. Places' /\ Levels'
  BY <1>0, <1>1, <1>3 DEF Places, Levels
<1>6. Written'
  BY <1>0, <1>1 DEF Written
<1>7. Seen'
  BY <1>0, <1>1 DEF Seen
<1> QED BY <1>1, <1>2, <1>4, <1>5, <1>6, <1>7 DEF BootInv

LEMMA BarriersKeep == ASSUME BootInv, InstructionBarrier \/ MMUIsOn PROVE BootInv' /\ DAIF' = DAIF
<1> USE DEF AfterHCR, AfterSPSR, AfterCPTR, AfterHSTR, AtEL1, AfterSCTLR, AfterCPACR, AfterTables,
            AfterTTBR0, AfterTTBR1, AfterMAIR, AfterTCR, AfterBarrier, AfterMMU
<1>0. Places /\ Levels /\ Written /\ Seen
  BY DEF BootInv
<1>1. /\ seen' = register /\ UNCHANGED << entryLevel, el, spsel, aarch64, DAIF, register >>
      /\ \/ boot = "barrier" /\ boot' = "mmu" /\ UNCHANGED vars
         \/ boot = "on" /\ boot' = "move" /\ EnableMMU
  BY DEF InstructionBarrier, MMUIsOn, AllSeen
<1>2. IInv'
  BY <1>1, BootPageTablesNext DEF BootInv, Next
<1>3. code' = code /\ (boot = "barrier" => step' = step) /\ (boot = "on" => step' = "jump")
  BY <1>1 DEF vars, EnableMMU
<1>4. TableBase' = TableBase
  BY <1>3 DEF TableBase, PgDir
<1>5. BootTypeOK'
  BY <1>1, <1>2 DEF BootInv, BootTypeOK, IInv
<1>6. Places' /\ Levels'
  BY <1>0, <1>1, <1>3 DEF Places, Levels
<1>7. Written'
  BY <1>0, <1>1, <1>4 DEF Written
<1>8. Seen'
  BY <1>0, <1>1 DEF Seen
<1> QED BY <1>1, <1>2, <1>5, <1>6, <1>7, <1>8 DEF BootInv

LEMMA MoveUpKeeps == ASSUME BootInv, MoveUp PROVE BootInv' /\ DAIF' = DAIF /\ step # "kmain"
<1> USE DEF AfterHCR, AfterSPSR, AfterCPTR, AfterHSTR, AtEL1, AfterSCTLR, AfterCPACR, AfterTables,
            AfterTTBR0, AfterTTBR1, AfterMAIR, AfterTCR, AfterBarrier, AfterMMU
<1>0. Places /\ Levels /\ Written /\ Seen
  BY DEF BootInv
<1>1. /\ boot = "move"
      /\ JumpToKernelVA \/ AdjustStack
      /\ UNCHANGED << entryLevel, boot, el, spsel, aarch64, DAIF, register, seen >>
  BY DEF MoveUp, cpuVars
<1>2. IInv'
  BY <1>1, BootPageTablesNext DEF BootInv, Next
<1>3. code' = code /\ step \in {"jump", "stack"} /\ step' \in {"stack", "kmain"}
  BY <1>1 DEF JumpToKernelVA, AdjustStack
<1>4. TableBase' = TableBase
  BY <1>3 DEF TableBase, PgDir
<1>5. BootTypeOK'
  BY <1>1, <1>2 DEF BootInv, BootTypeOK, IInv
<1>6. Places' /\ Levels'
  BY <1>0, <1>1, <1>3 DEF Places, Levels
<1>7. Written'
  BY <1>0, <1>1, <1>4 DEF Written
<1>8. Seen'
  BY <1>0, <1>1 DEF Seen
<1> QED BY <1>1, <1>2, <1>3, <1>5, <1>6, <1>7, <1>8 DEF BootInv

\* A write that is seen early is of the value that the register keeps.
LEMMA WriteIsSeenKeeps ==
    ASSUME BootInv, NEW r \in Register, WriteIsSeen(r)
    PROVE  BootInv' /\ DAIF' = DAIF /\ step # "kmain"
<1> USE DEF AfterHCR, AfterSPSR, AfterCPTR, AfterHSTR, AtEL1, AfterSCTLR, AfterCPACR, AfterTables,
            AfterTTBR0, AfterTTBR1, AfterMAIR, AfterTCR, AfterBarrier, AfterMMU
<1>0. Places /\ Levels /\ Written /\ Seen /\ BootTypeOK
  BY DEF BootInv
<1>1. /\ boot \in {"ttbr0", "ttbr1", "mair", "tcr", "barrier", "mmu", "on"}
      /\ seen' = [seen EXCEPT ![r] = register[r]]
      /\ UNCHANGED << vars, entryLevel, boot, el, spsel, aarch64, DAIF, register >>
  BY DEF WriteIsSeen
<1>2. IInv'
  BY <1>1, BootPageTablesNext DEF BootInv
<1>3. /\ seen' \in [Register -> R!Word]
      /\ \A q \in Register : seen'[q] = seen[q] \/ (q = r /\ seen'[q] = register[q])
  BY <1>0, <1>1 DEF BootTypeOK
<1>4. BootTypeOK'
  BY <1>1, <1>2, <1>3 DEF BootInv, BootTypeOK, IInv
<1>5. code' = code /\ step' = step
  BY <1>1 DEF vars
<1>6. TableBase' = TableBase
  BY <1>5 DEF TableBase, PgDir
<1>7. Places' /\ Levels' /\ step # "kmain"
  BY <1>0, <1>1, <1>5 DEF Places, Levels
<1>8. Written'
  BY <1>0, <1>1, <1>6 DEF Written
<1>9. Seen'
  <2>1. "SCTLR_EL1" \in Register
    BY DEF Register
  <2> QED BY <1>0, <1>1, <1>3, <2>1 DEF Seen
<1> QED BY <1>1, <1>2, <1>4, <1>7, <1>8, <1>9 DEF BootInv

LEMMA BootKeeps ==
    ASSUME BootInv, DAIF = Interrupts \/ step = "kmain", BootNext
    PROVE  BootInv' /\ DAIF' = DAIF /\ step # "kmain"
<1>0. Places
  BY DEF BootInv
<1> USE DEF Places, AfterTables, AfterTTBR0, AfterTTBR1, AfterMAIR, AfterTCR, AfterBarrier, AfterMMU
<1>1. CASE CheckLevel
  BY <1>0, <1>1, CheckLevelKeeps DEF CheckLevel
<1>2. CASE ExceptionReturn
  <2>1. boot = "eret"
    BY <1>2 DEF ExceptionReturn
  <2>2. step # "kmain"
    BY <1>0, <2>1
  <2> QED BY <1>2, <2>2, ExceptionReturnKeeps
<1>3. CASE CreatePageTables
  BY <1>0, <1>3, CreatePageTablesKeeps DEF CreatePageTables
<1>4. CASE InstructionBarrier \/ MMUIsOn
  BY <1>0, <1>4, BarriersKeep DEF InstructionBarrier, MMUIsOn
<1>5. CASE MoveUp
  BY <1>5, MoveUpKeeps
<1>6. CASE WriteHCR \/ WriteSPSR \/ WriteCPTR \/ WriteHSTR \/ WriteSCTLR \/ WriteCPACR
             \/ WriteTTBR0 \/ WriteTTBR1 \/ WriteMAIR \/ WriteTCR \/ SwitchMMUOn
  <2>1. BootInv' /\ DAIF' = DAIF
    BY <1>6, WritesKeep
  <2>2. boot # "move"
    BY <1>6 DEF WriteHCR, WriteSPSR, WriteCPTR, WriteHSTR, WriteSCTLR, WriteCPACR, WriteTTBR0,
                WriteTTBR1, WriteMAIR, WriteTCR, SwitchMMUOn
  <2> QED BY <1>0, <2>1, <2>2
<1>7. ASSUME NEW r \in Register, WriteIsSeen(r)
      PROVE  BootInv' /\ DAIF' = DAIF /\ step # "kmain"
  BY <1>7, WriteIsSeenKeeps
<1> QED BY <1>1, <1>2, <1>3, <1>4, <1>5, <1>6, <1>7 DEF BootNext, Statement

\* Nothing else that happens changes what BootInv is about.
LEMMA BootStays ==
    ASSUME BootInv, UNCHANGED << vars, entryLevel, boot, el, spsel, aarch64, register, seen >>,
           DAIF' \subseteq Interrupts
    PROVE  BootInv'
<1>1. IInv'
  BY BootPageTablesNext DEF BootInv
<1>2. code' = code /\ step' = step
  BY DEF vars
<1>3. TableBase' = TableBase
  BY <1>2 DEF TableBase, PgDir
<1>4. BootTypeOK'
  BY <1>1 DEF BootInv, BootTypeOK, IInv
<1>5. Places' /\ Levels' /\ Seen'
  BY <1>2 DEF BootInv, Places, Levels, Seen
<1>6. Written'
  BY <1>3 DEF BootInv, Written
<1> QED BY <1>1, <1>4, <1>5, <1>6 DEF BootInv

LEMMA BootReady == BootInv => TranslationReady /\ ReadyForKmain
<1> SUFFICES ASSUME BootInv PROVE TranslationReady /\ ReadyForKmain
  OBVIOUS
<1> USE DEF AfterHCR, AfterSPSR, AfterCPTR, AfterHSTR, AtEL1, AfterSCTLR, AfterCPACR, AfterTables,
            AfterTTBR0, AfterTTBR1, AfterMAIR, AfterTCR, AfterBarrier, AfterMMU
<1>0. Places /\ Levels /\ Written /\ Seen
  BY DEF BootInv
<1>1. ASSUME MMUOn
      PROVE  /\ el = 1 /\ step \in {"enable", "jump", "stack", "kmain"}
             /\ seen["TTBR0_EL1"] = TableBase /\ seen["TTBR1_EL1"] = TableBase
             /\ seen["TCR_EL1"] = TCRWord /\ seen["MAIR_EL1"] = MAIRWord
  <2>1. 0 \in seen["SCTLR_EL1"]
    BY <1>1, FlagM DEF MMUOn
  <2>2. boot \in {"on", "move"}
    BY <1>0, <2>1 DEF Seen
  <2>3. el = 1 /\ step \in {"enable", "jump", "stack", "kmain"}
    BY <1>0, <2>2 DEF Places, Levels
  <2>4. \A r \in Register \ {"SCTLR_EL1"} : seen[r] = register[r]
    BY <1>0, <2>2 DEF Seen
  <2>5. /\ register["TTBR0_EL1"] = TableBase /\ register["TTBR1_EL1"] = TableBase
        /\ register["TCR_EL1"] = TCRWord /\ register["MAIR_EL1"] = MAIRWord
    BY <1>0, <2>2 DEF Written
  <2> QED BY <2>3, <2>4, <2>5 DEF Register
<1>2. TranslationReady
  <2>1. code \in CodePages
    BY DEF BootInv, IInv, TypeOK
  <2>2. R!GetField(TableBase, R!TTBRn_EL1.fields.BADDR) = R!Bits(PgDir(code))
    BY <2>1, TableBaseRead
  <2> QED BY <1>1, <2>2, AttributesRead, LevelsRead DEF TranslationReady
<1>3. ASSUME step = "kmain"
      PROVE  /\ el = 1 /\ spsel = 1 /\ aarch64
             /\ seen["SCTLR_EL1"] = R!SCTLR_EL1.constructed \union {0}
             /\ R!GetField(seen["CPACR_EL1"], R!CPACR_EL1.fields.FPEN) = R!FPENTraps.TrapNone
             /\ entryLevel = 2 =>
                  /\ seen["CPTR_EL2"] = R!CPTR_EL2.constructed
                  /\ seen["HSTR_EL2"] = {}
  <2>1. boot = "move" /\ seen = register
    BY <1>0, <1>3 DEF Places, Seen
  <2>2. el = 1 /\ spsel = 1 /\ aarch64
    BY <1>0, <2>1 DEF Levels
  <2>3. /\ register["SCTLR_EL1"] = R!SCTLR_EL1.constructed \union {0}
        /\ register["CPACR_EL1"] = CPACRWord
        /\ entryLevel = 2 =>
             /\ register["CPTR_EL2"] = R!CPTR_EL2.constructed
             /\ register["HSTR_EL2"] = {}
    BY <1>0, <2>1 DEF Written
  <2> QED BY <2>1, <2>2, <2>3, TrapsRead
<1>4. ReadyForKmain
  BY <1>3 DEF ReadyForKmain
<1> QED BY <1>2, <1>4

-----------------------------------------------------------------------------
(***************************************************************************)
(* Interrupts.                                                             *)
(***************************************************************************)
Handlers == {"vectors", "timer", "controller"}

\* What is set up, and what is masked, at each place in kmain.  A destructor may be
\* lost in .rodata with interrupts enabled, a constructor before anything is ready.
Masked ==
    /\ step # "kmain" => kmain = "constructors"
    /\ \/ kmain \in {"constructors", "console", "vectors"} /\ ready = {} /\ DAIF = Interrupts
       \/ kmain = "timer" /\ ready = {"vectors"} /\ DAIF = Interrupts
       \/ kmain = "controller" /\ ready = {"vectors", "timer"} /\ DAIF = Interrupts
       \/ kmain = "enable_irq" /\ ready = Handlers /\ DAIF = Interrupts
       \/ /\ kmain \in {"print", "dtb", "tests", "create", "schedule", "destructors", "exited"}
          /\ ready = Handlers /\ DAIF = Interrupts \ {"I"}
       \/ kmain = "lost" /\ InterruptsWaitForHandlers

KernelInv == BootInv /\ Masked

LEMMA KernelStarts == KernelInit => KernelInv
<1> SUFFICES ASSUME KernelInit PROVE KernelInv
  OBVIOUS
<1>1. BootInv
  BY BootStarts DEF KernelInit
<1>2. DAIF = Interrupts /\ kmain = "constructors" /\ ready = {}
  BY DEF KernelInit, BootInit
<1> QED BY <1>1, <1>2 DEF KernelInv, Masked

LEMMA KernelBoots == ASSUME KernelInv, BootNext, UNCHANGED kernelVars PROVE KernelInv'
<1>1. kmain' = kmain /\ ready' = ready
  BY DEF kernelVars
<1>2. DAIF = Interrupts \/ step = "kmain"
  BY DEF KernelInv, Masked
<1>3. BootInv' /\ DAIF' = DAIF /\ step # "kmain"
  BY <1>2, BootKeeps DEF KernelInv
<1>4. Masked'
  BY <1>1, <1>3 DEF KernelInv, Masked, InterruptsWaitForHandlers
<1> QED BY <1>3, <1>4 DEF KernelInv

LEMMA KernelRuns == ASSUME KernelInv, step = "kmain", KernelStatement PROVE KernelInv'
<1>1. /\ UNCHANGED << vars, entryLevel, boot, el, spsel, aarch64, register, seen >>
      /\ enable_irq \/ UNCHANGED DAIF
  BY StatementOfKmain
<1>2. step' = "kmain"
  BY <1>1 DEF vars
<1>3. DAIF' \subseteq Interrupts
  BY <1>1 DEF enable_irq, KernelInv, BootInv, BootTypeOK
<1>4. BootInv'
  BY <1>1, <1>3, BootStays DEF KernelInv
<1>0. Masked
  BY DEF KernelInv
<1>5. CASE CallStaticConstructors
  <2>1. /\ kmain = "constructors" /\ kmain' \in {"constructors", "console", "lost"}
        /\ ready' = ready /\ DAIF' = DAIF
    BY <1>5 DEF CallStaticConstructors, CallWords, CallRodata, bootVars, cpuVars
  <2>2. Masked'
    BY <1>0, <1>2, <2>1 DEF Masked, InterruptsWaitForHandlers
  <2> QED BY <1>4, <2>2 DEF KernelInv
<1>6. CASE InitConsole
  <2>1. kmain = "console" /\ kmain' \in {"console", "vectors"} /\ ready' = ready /\ DAIF' = DAIF
    BY <1>6 DEF InitConsole, bootVars, cpuVars
  <2>2. Masked'
    BY <1>0, <1>2, <2>1 DEF Masked, InterruptsWaitForHandlers
  <2> QED BY <1>4, <2>2 DEF KernelInv
<1>7. CASE irq_vector_init \/ InitTimer \/ EnableInterruptController
  <2>1. /\ DAIF' = DAIF /\ ready' = ready \union {kmain}
        /\ \/ kmain = "vectors" /\ kmain' = "timer"
           \/ kmain = "timer" /\ kmain' = "controller"
           \/ kmain = "controller" /\ kmain' = "enable_irq"
    BY <1>7 DEF irq_vector_init, InitTimer, EnableInterruptController, SetUp, bootVars, cpuVars
  <2>2. Masked'
    BY <1>0, <1>2, <2>1 DEF Masked, Handlers, InterruptsWaitForHandlers
  <2> QED BY <1>4, <2>2 DEF KernelInv
<1>8. CASE enable_irq
  <2>1. /\ kmain = "enable_irq" /\ kmain' = "print" /\ ready' = ready /\ DAIF' = DAIF \ {"I"}
    BY <1>8 DEF enable_irq
  <2>2. Masked'
    BY <1>0, <1>2, <2>1 DEF Masked, InterruptsWaitForHandlers
  <2> QED BY <1>4, <2>2 DEF KernelInv
<1>9. CASE PrintParameters \/ RunUnitTests \/ CopyProcess
  <2>1. /\ kmain \in {"print", "tests", "create"}
        /\ kmain' \in {"dtb", "tests", "create", "schedule", "destructors"}
        /\ ready' = ready /\ DAIF' = DAIF
    BY <1>9 DEF PrintParameters, RunUnitTests, CopyProcess, Goto, bootVars, cpuVars
  <2>2. Masked'
    BY <1>0, <1>2, <2>1 DEF Masked, InterruptsWaitForHandlers
  <2> QED BY <1>4, <2>2 DEF KernelInv
<1>10. CASE DumpDeviceTree
  <2>1. kmain = "dtb" /\ kmain' \in {"dtb", "tests"} /\ ready' = ready /\ DAIF' = DAIF
    BY <1>10 DEF DumpDeviceTree, bootVars, cpuVars
  <2>2. Masked'
    BY <1>0, <1>2, <2>1 DEF Masked, InterruptsWaitForHandlers
  <2> QED BY <1>4, <2>2 DEF KernelInv
<1>11. CASE CallStaticDestructors
  <2>1. /\ kmain = "destructors" /\ kmain' \in {"destructors", "exited", "lost"}
        /\ ready' = ready /\ DAIF' = DAIF
    BY <1>11 DEF CallStaticDestructors, CallWords, CallRodata, bootVars, cpuVars
  <2>2. Masked'
    BY <1>0, <1>2, <2>1 DEF Masked, Handlers, InterruptsWaitForHandlers
  <2> QED BY <1>4, <2>2 DEF KernelInv
<1> QED BY <1>5, <1>6, <1>7, <1>8, <1>9, <1>10, <1>11 DEF KernelStatement

LEMMA KernelWaits ==
    ASSUME KernelInv, UNCHANGED << bootVars, kmain, ready >>
    PROVE  KernelInv'
<1>1. UNCHANGED << vars, entryLevel, boot, el, spsel, aarch64, register, seen, DAIF, step >>
  BY DEF bootVars, cpuVars, vars
<1>2. BootInv'
  BY <1>1, BootStays DEF KernelInv, BootInv, BootTypeOK
<1>3. Masked'
  BY <1>1 DEF KernelInv, Masked, InterruptsWaitForHandlers
<1> QED BY <1>2, <1>3 DEF KernelInv

LEMMA KernelInductive == KernelInv /\ [KernelNext]_allVars => KernelInv'
<1> SUFFICES ASSUME KernelInv, [KernelNext]_allVars PROVE KernelInv'
  OBVIOUS
<1>1. CASE BootNext /\ UNCHANGED kernelVars
  BY <1>1, KernelBoots
<1>2. CASE step = "kmain" /\ KernelStatement
  BY <1>2, KernelRuns
<1>3. CASE Scheduled(Transmit) \/ \E w \in Writers : Scheduled(SendString(w)) \/ Scheduled(Tick(w))
  <2>1. UNCHANGED << bootVars, kmain, ready >>
    BY <1>3 DEF Scheduled
  <2> QED BY <2>1, KernelWaits
<1>4. CASE UNCHANGED allVars
  <2>1. UNCHANGED << bootVars, kmain, ready >>
    BY <1>4 DEF allVars, kernelVars
  <2> QED BY <2>1, KernelWaits
<1> QED BY <1>1, <1>2, <1>3, <1>4 DEF KernelNext

THEOREM KernelInvariance == KernelSpec => []KernelInv
<1> QED BY KernelStarts, KernelInductive, PTL DEF KernelSpec

\* No interrupt comes in before vectors, callback and controller are there,
\* whatever masks the exception return installs and whatever the constructors do.
THEOREM HandlersFirst == KernelSpec => []InterruptsWaitForHandlers
<1>1. KernelInv => InterruptsWaitForHandlers
  BY DEF KernelInv, Masked, Handlers, InterruptsWaitForHandlers
<1> QED BY <1>1, KernelInvariance, PTL

\* From the first moment the MMU may be on, it walks four levels of tables from
\* _pg_dir, wherever the image is and in whatever order writes become visible.
THEOREM MMUFindsItsTables == KernelSpec => []TranslationReady
<1>1. KernelInv => TranslationReady
  BY BootReady DEF KernelInv
<1> QED BY <1>1, KernelInvariance, PTL

\* kmain starts at EL1 with nothing left of what the firmware had in registers.
THEOREM KmainStartsClean == KernelSpec => []ReadyForKmain
<1>1. KernelInv => ReadyForKmain
  BY BootReady DEF KernelInv
<1> QED BY <1>1, KernelInvariance, PTL
-----------------------------------------------------------------------------
(***************************************************************************)
(* The listing of the device tree.                                         *)
(***************************************************************************)
\* ParseDeviceTree is not at work, or it is in the blob of a tree and where
\* DeviceTreeProofs has it.
DumpInv ==
    \/ walk \in {"none", "returned"} /\ read = {}
    \/ /\ walk \notin {"none", "returned"}
       /\ dtb \in Trees /\ blob = Blob(dtb) /\ WalkKnows(dtb)

LEMMA WalkStays ==
    ASSUME DumpInv, UNCHANGED << walkVars, dtb >>
    PROVE  DumpInv'
<1>1. UNCHANGED << blob, walk, cursor, indentLevel, listing, read, dtb >>
  BY DEF walkVars
<1>2. CASE walk \in {"none", "returned"}
  BY <1>1, <1>2 DEF DumpInv
<1>3. CASE walk \notin {"none", "returned"}
  <2>1. PICK tree \in Trees : tree = dtb
    BY <1>3 DEF DumpInv
  <2>2. blob = Blob(tree) /\ WalkKnows(tree)
    BY <1>3, <2>1 DEF DumpInv
  <2>3. blob' = Blob(tree) /\ WalkKnows(tree)'
    BY <1>1, <2>2 DEF WalkKnows, ReadsInside, AtReservation, AtToken, AtEnd
  <2> QED BY <1>1, <1>3, <2>1, <2>3 DEF DumpInv
<1> QED BY <1>2, <1>3

LEMMA DumpKeeps == ASSUME DumpInv, DumpDeviceTree PROVE DumpInv'
<1>1. ASSUME NEW tree \in Trees, ParseDeviceTree(Blob(tree)), dtb' = tree PROVE DumpInv'
  <2>1. walk' = "header" /\ blob' = Blob(tree) /\ read' = read /\ walk = "none"
    BY <1>1 DEF ParseDeviceTree
  <2>2. read' = {}
    BY <2>1 DEF DumpInv
  <2>3. WalkKnows(tree)'
    BY <2>1, <2>2 DEF WalkKnows, ReadsInside
  <2> QED BY <1>1, <2>1, <2>3 DEF DumpInv
<1>2. ASSUME WalkNext, UNCHANGED dtb PROVE DumpInv'
  <2>1. walk \in {"header", "reservations", "tokens"}
    BY <1>2 DEF WalkNext, CheckHeader, OutputMemoryReservation, OutputDeviceTree, OutputBeginNode,
                OutputEndNode, OutputProp, OutputNop, OutputEnd, UnknownToken, NextIs
  <2>2. PICK tree \in Trees : tree = dtb
    BY <2>1 DEF DumpInv
  <2>3. blob = Blob(tree) /\ WalkKnows(tree)
    BY <2>1, <2>2 DEF DumpInv
  <2>4. IsFlattened(tree)
    BY KernelMainAssumption
  <2>5. blob' = Blob(tree) /\ WalkKnows(tree)'
    BY <1>2, <2>3, <2>4, WalkKeeps
  <2>6. walk' \notin {"none", "returned"}
    BY <2>5 DEF WalkKnows, AtReservation, AtToken, AtEnd
  <2> QED BY <1>2, <2>2, <2>5, <2>6 DEF DumpInv
<1>3. ASSUME WalkReturns PROVE DumpInv'
  BY <1>3 DEF WalkReturns, DumpInv
<1> QED BY <1>1, <1>2, <1>3 DEF DumpDeviceTree

LEMMA StatementKeepsWalk ==
    ASSUME KernelStatement
    PROVE  DumpDeviceTree \/ UNCHANGED << walkVars, dtb >>
<1>1. CASE CallStaticConstructors
  BY <1>1 DEF CallStaticConstructors, CallWords
<1>2. CASE InitConsole
  BY <1>2 DEF InitConsole
<1>3. CASE irq_vector_init \/ InitTimer \/ EnableInterruptController
  BY <1>3 DEF irq_vector_init, InitTimer, EnableInterruptController, SetUp
<1>4. CASE enable_irq
  BY <1>4 DEF enable_irq
<1>5. CASE PrintParameters \/ RunUnitTests \/ CopyProcess
  BY <1>5 DEF PrintParameters, RunUnitTests, CopyProcess, Goto
<1>6. CASE CallStaticDestructors
  BY <1>6 DEF CallStaticDestructors, CallWords
<1> QED BY <1>1, <1>2, <1>3, <1>4, <1>5, <1>6 DEF KernelStatement

LEMMA DumpInductive == DumpInv /\ [KernelNext]_allVars => DumpInv'
<1> SUFFICES ASSUME DumpInv, [KernelNext]_allVars PROVE DumpInv'
  OBVIOUS
<1>1. CASE UNCHANGED << walkVars, dtb >>
  BY <1>1, WalkStays
<1>2. CASE BootNext /\ UNCHANGED kernelVars
  BY <1>1, <1>2 DEF kernelVars
<1>3. CASE step = "kmain" /\ KernelStatement
  BY <1>1, <1>3, StatementKeepsWalk, DumpKeeps
<1>4. CASE Scheduled(Transmit) \/ \E w \in Writers : Scheduled(SendString(w)) \/ Scheduled(Tick(w))
  BY <1>1, <1>4 DEF Scheduled
<1>5. CASE UNCHANGED allVars
  BY <1>1, <1>5 DEF allVars, kernelVars
<1> QED BY <1>2, <1>3, <1>4, <1>5 DEF KernelNext

THEOREM DumpInvariance == KernelSpec => []DumpInv
<1>1. KernelInit => DumpInv
  BY DEF KernelInit, TreeInit, DumpInv
<1> QED BY <1>1, DumpInductive, PTL DEF KernelSpec

\* Whatever tree the firmware leaves, its listing shows all of it: every node at its
\* depth, every property with the strings or the integer that it holds, and a tree
\* that is cut off up to there.
THEOREM ListingIsTheTree == KernelSpec => []DumpIsTheTree
<1>1. DumpInv => DumpIsTheTree
  <2> SUFFICES ASSUME DumpInv, walk = "done" PROVE listing = TreeListing(dtb)
    BY DEF DumpIsTheTree
  <2> QED BY DEF DumpInv, WalkKnows, AtReservation, AtToken, AtEnd
<1> QED BY <1>1, DumpInvariance, PTL

\* While kmain runs, every page of memory is mapped at the address that the offset
\* takes it to.
LEMMA MemoryIsMapped ==
    ASSUME IInv, step = "kmain", NEW pa \in VirtualPage, pa < DeviceBaseAddress
    PROVE  Mapped(ToVA(pa))
<1>1. PICK n, e, dev, o :
        /\ n = code /\ n \in CodePages
        /\ e = KernelEndPA(n) /\ e \in Nat /\ dev = DeviceBaseAddress /\ dev \in Nat
        /\ o = KernelVirtualAddressOffset /\ o \in Nat /\ Aligned(o)
  BY State, MemoryLayout, Sizes
<1>2. pa \in Nat /\ Aligned(pa)
  BY VirtualPages
<1>3. KernelBasePA = 0
  <2>1. PICK s \in Nat, b \in Nat \ {0} : s = Start /\ b = L2BlockSize /\ s < b
    BY Sizes, BootPageTablesAssumption, KernelMainAssumption
  <2>2. s % b = s
    BY <2>1
  <2>3. s - (s % b) = 0
    BY <2>2
  <2> QED BY <2>1, <2>3 DEF KernelBasePA, CalculateBlockStart
<1>4. PICK k \in 1 .. 5 : InRange(n, k, pa + o)
  <2>1. CASE pa <= e
    <3>1. pa + o \in 0 + o .. e + o
      BY <1>1, <1>2, <2>1
    <3> QED BY <1>1, <1>3, <3>1, RangeIs, 3 \in 1 .. 5 DEF ToVA
  <2>2. CASE pa > e
    <3>1. pa + o \in (e + o) + 1 .. (dev + o) - 1
      BY <1>1, <1>2, <2>2
    <3> QED BY <1>1, <3>1, RangeIs, 5 \in 1 .. 5 DEF ToVA
  <2> QED BY <1>1, <1>2, <2>1, <2>2
<1>5. pa + o \in Nat /\ Aligned(pa + o)
  BY <1>1, <1>2, AlignedSum
<1>6. step \in {"enable", "jump", "stack", "kmain"} /\ step # "root"
  OBVIOUS
<1>7. Translation(pa + o) # Fault
  BY <1>1, <1>4, <1>5, <1>6, StateComplete
<1> QED BY <1>1, <1>6, <1>7 DEF Mapped, ToVA

\* The walk reads nothing outside the blob, however long and however many the names,
\* values and strings are, and the blob is mapped wherever the firmware has put it.
THEOREM WalkReadsTheBlob == KernelSpec => []WalkStaysInside
<1>1. DumpInv /\ KernelInv => WalkStaysInside
  <2> SUFFICES ASSUME DumpInv, KernelInv, kmain = "dtb" PROVE WalkStaysInside
    BY DEF WalkStaysInside
  <2>1. read \subseteq 0 .. Len(blob) - 1
    BY DEF DumpInv, WalkKnows, ReadsInside
  <2>2. IInv /\ step = "kmain"
    BY DEF KernelInv, Masked, BootInv
  <2>3. \A pa \in VirtualPage : pa < DeviceBaseAddress => Mapped(ToVA(pa))
    BY <2>2, MemoryIsMapped
  <2> QED BY <2>1, <2>3 DEF WalkStaysInside
<1> QED BY <1>1, DumpInvariance, KernelInvariance, PTL

-----------------------------------------------------------------------------
(***************************************************************************)
(* The formatter, for any number of pieces and arguments and for texts of  *)
(* any length.  First what a function is that is defined by recursion.     *)
(***************************************************************************)
\* A function that is defined by recursion over numbers up to N.
Steps(N, S, first, advance) == first \in S /\ \A n \in 1 .. N : \A x \in S : advance[n][x] \in S

Recursive(N, S, first, advance, g) ==
    /\ g \in [0 .. N -> S] /\ g[0] = first
    /\ \A n \in 1 .. N : g[n] = advance[n][g[n - 1]]

LEMMA Recursion ==
    ASSUME NEW N \in Nat, NEW S, NEW first, NEW advance, Steps(N, S, first, advance)
    PROVE  \E g : Recursive(N, S, first, advance, g)
<1> USE DEF Steps
<1> DEFINE Recurs(g, m) == /\ g \in [0 .. m -> S] /\ g[0] = first
                           /\ \A n \in 1 .. m : g[n] = advance[n][g[n - 1]]
           T == {m \in 0 .. N : \E g : Recurs(g, m)}
<1>1. 0 \in T
  <2>1. Recurs([i \in 0 .. 0 |-> first], 0)
    OBVIOUS
  <2> HIDE DEF Recurs
  <2> QED BY <2>1
<1>2. ASSUME NEW m \in 0 .. N - 1, m \in T PROVE m + 1 \in T
  <2>1. PICK g : Recurs(g, m)
    BY <1>2
  <2> DEFINE h == [i \in 0 .. m + 1 |-> IF i = m + 1 THEN advance[m + 1][g[m]] ELSE g[i]]
  <2>2. m + 1 \in 1 .. N /\ m \in 0 .. m /\ 0 \in 0 .. m + 1 /\ 0 # m + 1 /\ m + 1 \in 0 .. N
    OBVIOUS
  <2>3. g[m] \in S
    BY <2>1, <2>2
  <2>4. advance[m + 1][g[m]] \in S
    BY <2>2, <2>3
  <2>5. h \in [0 .. m + 1 -> S]
    <3>1. ASSUME NEW i \in 0 .. m + 1, i # m + 1 PROVE g[i] \in S
      <4>1. i \in 0 .. m
        BY <3>1
      <4> QED BY <2>1, <4>1
    <3> QED BY <2>4, <3>1
  <2>6. h[0] = first
    BY <2>1, <2>2
  <2>7. ASSUME NEW n \in 1 .. m + 1 PROVE h[n] = advance[n][h[n - 1]]
    <3>1. n - 1 \in 0 .. m + 1 /\ n - 1 # m + 1 /\ n \in 0 .. m + 1
      OBVIOUS
    <3>2. h[n - 1] = g[n - 1]
      BY <3>1
    <3>3. CASE n = m + 1
      <4>1. n - 1 = m
        BY <3>3
      <4>2. h[n] = advance[m + 1][g[m]]
        BY <3>1, <3>3
      <4> QED BY <3>2, <3>3, <4>1, <4>2
    <3>4. CASE n # m + 1
      <4>1. n \in 1 .. m
        BY <3>4
      <4>2. h[n] = g[n]
        BY <3>1, <3>4
      <4> QED BY <2>1, <3>2, <4>1, <4>2
    <3> QED BY <3>3, <3>4
  <2> HIDE DEF h
  <2>8. Recurs(h, m + 1)
    BY <2>5, <2>6, <2>7
  <2> HIDE DEF Recurs
  <2> QED BY <2>2, <2>8
<1> HIDE DEF T
<1>3. N \in T
  BY <1>1, <1>2, NumberInduction
<1> QED BY <1>3 DEF T, Recursive

(***************************************************************************)
(* Digits.                                                                 *)
(***************************************************************************)
Bases == {2, 8, 10, 16}

LEMMA BasesAre == \A format : ConvertOutputFormat(format).Base \in Bases
  BY DEF ConvertOutputFormat, Bases

LEMMA DivisionIs ==
    ASSUME NEW base \in Bases, NEW n \in Nat
    PROVE  /\ n \div base \in Nat /\ n % base \in 0 .. 15 /\ n % base < base
           /\ n = ((n \div base) * base) + (n % base)
           /\ \A m \in Nat : n < 2 * m => n \div base < m
<1>1. CASE base = 2
  BY <1>1
<1>2. CASE base = 8
  BY <1>2
<1>3. CASE base = 10
  BY <1>3
<1>4. CASE base = 16
  BY <1>4
<1> QED BY <1>1, <1>2, <1>3, <1>4 DEF Bases

LEMMA DivisionBy16 == ASSUME NEW n \in Nat, NEW m \in Nat, n < 2 * (2 * (2 * (2 * m)))
                      PROVE  n \div 16 < m
  OBVIOUS

LEMMA WordBitsType == maxDigits \in Nat /\ WordBits \in Nat /\ maxDigits = WordBits
  BY WordBitsAssumption DEF maxDigits

LEMMA RemainingIs ==
    ASSUME NEW value \in Nat, NEW base \in Bases
    PROVE  /\ Remaining(value, base) \in [0 .. maxDigits -> Nat]
           /\ Remaining(value, base)[0] = value
           /\ \A n \in 1 .. maxDigits :
                Remaining(value, base)[n] = Remaining(value, base)[n - 1] \div base
<1> DEFINE W == maxDigits
           E(g) == [n \in 0 .. W |-> IF n = 0 THEN value ELSE g[n - 1] \div base]
           advance == [n \in 1 .. W |-> [x \in Nat |-> x \div base]]
<1>0. W \in Nat
  BY WordBitsType
<1>1. Remaining(value, base) = CHOOSE g : g = E(g)
  BY DEF Remaining
<1> HIDE DEF W
<1>2. \A n \in 1 .. W : \A x \in Nat : advance[n][x] = x \div base /\ advance[n][x] \in Nat
  BY DivisionIs
<1>3. PICK h \in [0 .. W -> Nat] : h[0] = value /\ \A n \in 1 .. W : h[n] = advance[n][h[n - 1]]
  <2> HIDE DEF advance
  <2>1. Steps(W, Nat, value, advance)
    BY <1>2 DEF Steps
  <2>2. PICK h : Recursive(W, Nat, value, advance, h)
    BY <1>0, <2>1, Recursion
  <2> QED BY <2>2 DEF Recursive
<1>4. \A n \in 1 .. W : n - 1 \in 0 .. W /\ n # 0 /\ n \in 0 .. W
  BY <1>0
<1>5. \A n \in 1 .. W : h[n] = h[n - 1] \div base
  <2> HIDE DEF advance
  <2> QED BY <1>2, <1>3, <1>4
<1>6. h = E(h)
  <2>1. \A n \in 0 .. W : n = 0 \/ n \in 1 .. W
    BY <1>0
  <2>2. \A n \in 0 .. W : h[n] = IF n = 0 THEN value ELSE h[n - 1] \div base
    BY <1>3, <1>5, <2>1
  <2>3. h = [n \in 0 .. W |-> h[n]]
    BY <1>3
  <2> QED BY <2>2, <2>3
<1>7. PICK f : f = Remaining(value, base) /\ f = E(f)
  <2> HIDE DEF E
  <2> QED BY <1>1, <1>6
<1>8. /\ \A n \in 0 .. W : f[n] = IF n = 0 THEN value ELSE f[n - 1] \div base
      /\ f = [n \in 0 .. W |-> f[n]]
  BY <1>7
<1>9. f[0] = value /\ \A n \in 1 .. W : f[n] = f[n - 1] \div base
  <2>1. 0 \in 0 .. W
    BY <1>0
  <2>2. ASSUME NEW n \in 1 .. W PROVE f[n] = f[n - 1] \div base
    BY <1>4, <1>8
  <2> QED BY <1>8, <2>1, <2>2
<1>10. \A n \in 0 .. W : f[n] \in Nat
  <2> DEFINE T == {n \in 0 .. W : f[n] \in Nat}
  <2>1. 0 \in T
    BY <1>0, <1>9
  <2>2. ASSUME NEW n \in 0 .. W - 1, n \in T PROVE n + 1 \in T
    <3>1. n + 1 \in 1 .. W /\ (n + 1) - 1 = n /\ n + 1 \in 0 .. W
      BY <1>0
    <3>2. f[n + 1] = f[n] \div base
      BY <1>9, <3>1
    <3>3. f[n] \div base \in Nat
      BY <2>2, DivisionIs
    <3> QED BY <3>1, <3>2, <3>3
  <2> HIDE DEF T
  <2>3. \A n \in 0 .. W : n \in T
    BY <1>0, <2>1, <2>2, NumberInduction
  <2> QED BY <2>3 DEF T
<1> QED BY <1>7, <1>8, <1>9, <1>10 DEF W

LEMMA PowerIs ==
    /\ PowerOfTwo \in [0 .. WordBits -> Nat]
    /\ PowerOfTwo[0] = 1
    /\ \A n \in 1 .. WordBits : PowerOfTwo[n] = 2 * PowerOfTwo[n - 1]
<1> DEFINE W == WordBits
           E(g) == [n \in 0 .. W |-> IF n = 0 THEN 1 ELSE 2 * g[n - 1]]
           advance == [n \in 1 .. W |-> [x \in Nat |-> 2 * x]]
<1>0. W \in Nat
  BY WordBitsType
<1>1. PowerOfTwo = CHOOSE g : g = E(g)
  BY DEF PowerOfTwo
<1> HIDE DEF W
<1>2. \A n \in 1 .. W : \A x \in Nat : advance[n][x] = 2 * x /\ advance[n][x] \in Nat
  OBVIOUS
<1>3. PICK h \in [0 .. W -> Nat] : h[0] = 1 /\ \A n \in 1 .. W : h[n] = advance[n][h[n - 1]]
  <2> HIDE DEF advance
  <2>1. Steps(W, Nat, 1, advance)
    BY <1>2 DEF Steps
  <2>2. PICK h : Recursive(W, Nat, 1, advance, h)
    BY <1>0, <2>1, Recursion
  <2> QED BY <2>2 DEF Recursive
<1>4. \A n \in 1 .. W : n - 1 \in 0 .. W /\ n # 0 /\ n \in 0 .. W
  BY <1>0
<1>5. \A n \in 1 .. W : h[n] = 2 * h[n - 1]
  <2> HIDE DEF advance
  <2> QED BY <1>2, <1>3, <1>4
<1>6. h = E(h)
  <2>1. \A n \in 0 .. W : n = 0 \/ n \in 1 .. W
    BY <1>0
  <2>2. \A n \in 0 .. W : h[n] = IF n = 0 THEN 1 ELSE 2 * h[n - 1]
    BY <1>3, <1>5, <2>1
  <2>3. h = [n \in 0 .. W |-> h[n]]
    BY <1>3
  <2> QED BY <2>2, <2>3
<1>7. PICK f : f = PowerOfTwo /\ f = E(f)
  <2> HIDE DEF E
  <2> QED BY <1>1, <1>6
<1>8. /\ \A n \in 0 .. W : f[n] = IF n = 0 THEN 1 ELSE 2 * f[n - 1]
      /\ f = [n \in 0 .. W |-> f[n]]
  BY <1>7
<1>9. f[0] = 1 /\ \A n \in 1 .. W : f[n] = 2 * f[n - 1]
  <2>1. 0 \in 0 .. W
    BY <1>0
  <2>2. ASSUME NEW n \in 1 .. W PROVE f[n] = 2 * f[n - 1]
    BY <1>4, <1>8
  <2> QED BY <1>8, <2>1, <2>2
<1>10. \A n \in 0 .. W : f[n] \in Nat
  <2> DEFINE T == {n \in 0 .. W : f[n] \in Nat}
  <2>1. 0 \in T
    BY <1>0, <1>9
  <2>2. ASSUME NEW n \in 0 .. W - 1, n \in T PROVE n + 1 \in T
    <3>1. n + 1 \in 1 .. W /\ (n + 1) - 1 = n /\ n + 1 \in 0 .. W
      BY <1>0
    <3>2. f[n + 1] = 2 * f[n]
      BY <1>9, <3>1
    <3> QED BY <2>2, <3>1, <3>2
  <2> HIDE DEF T
  <2>3. \A n \in 0 .. W : n \in T
    BY <1>0, <2>1, <2>2, NumberInduction
  <2> QED BY <2>3 DEF T
<1> QED BY <1>7, <1>8, <1>9, <1>10 DEF W

LEMMA RemainingBelow ==
    ASSUME NEW value \in Numbers, NEW base \in Bases
    PROVE  /\ value \in Nat
           /\ \A n \in 0 .. maxDigits : Remaining(value, base)[n] < PowerOfTwo[maxDigits - n]
<1> DEFINE W == maxDigits
           r == Remaining(value, base)
           p == PowerOfTwo
           T == {n \in 0 .. W : r[n] < p[W - n]}
<1>1. W \in Nat /\ W = WordBits
  BY WordBitsType
<1>2. p \in [0 .. W -> Nat] /\ \A n \in 1 .. W : p[n] = 2 * p[n - 1]
  BY <1>1, PowerIs
<1>3. value \in Nat /\ value < p[W]
  <2>1. value \in 0 .. p[W] - 1
    BY <1>1 DEF Numbers
  <2>2. p[W] \in Nat
    BY <1>1, <1>2
  <2> QED BY <2>1, <2>2
<1>4. r \in [0 .. W -> Nat] /\ r[0] = value /\ \A n \in 1 .. W : r[n] = r[n - 1] \div base
  BY <1>3, RemainingIs
<1> HIDE DEF W, r, p
<1>5. 0 \in T
  BY <1>1, <1>3, <1>4
<1>6. ASSUME NEW n \in 0 .. W - 1, n \in T PROVE n + 1 \in T
  <2>1. /\ n + 1 \in 1 .. W /\ (n + 1) - 1 = n /\ W - n \in 1 .. W /\ (W - n) - 1 = W - (n + 1)
        /\ n \in 0 .. W /\ W - (n + 1) \in 0 .. W /\ n + 1 \in 0 .. W
    BY <1>1
  <2>2. r[n + 1] = r[n] \div base /\ r[n] \in Nat
    BY <1>4, <2>1
  <2>3. p[W - n] = 2 * p[W - (n + 1)] /\ p[W - (n + 1)] \in Nat
    BY <1>2, <2>1
  <2>4. r[n] < p[W - n]
    BY <1>6
  <2>5. r[n] \div base < p[W - (n + 1)]
    BY <2>2, <2>3, <2>4, DivisionIs
  <2> QED BY <2>1, <2>2, <2>5
<1> HIDE DEF T
<1>7. \A n \in 0 .. W : n \in T
  BY <1>1, <1>5, <1>6, NumberInduction
<1> QED BY <1>3, <1>7 DEF T, W, r, p

\* In base 16 a digit takes four bits.
LEMMA RemainingBelow16 ==
    ASSUME NEW value \in Numbers
    PROVE  \A n \in 0 .. maxDigits \div 4 :
             4 * n \in 0 .. maxDigits /\ Remaining(value, 16)[n] < PowerOfTwo[maxDigits - 4 * n]
<1> DEFINE W == maxDigits
           Q == W \div 4
           r == Remaining(value, 16)
           p == PowerOfTwo
           T == {n \in 0 .. Q : r[n] < p[W - 4 * n]}
<1>1. W \in Nat /\ W = WordBits /\ W % 4 = 0
  BY WordBitsType, WordBitsAssumption
<1>2. p \in [0 .. W -> Nat] /\ \A n \in 1 .. W : p[n] = 2 * p[n - 1]
  BY <1>1, PowerIs
<1>3. 16 \in Bases
  BY DEF Bases
<1>4. value \in Nat /\ r[0] < p[W - 0]
  BY <1>1, <1>3, RemainingBelow
<1>5. r \in [0 .. W -> Nat] /\ \A n \in 1 .. W : r[n] = r[n - 1] \div 16
  BY <1>3, <1>4, RemainingIs
<1>6. Q \in Nat /\ 4 * Q = W
  BY <1>1
<1> HIDE DEF W, r, p, Q
<1>7. 0 \in T
  BY <1>4, <1>6
<1>8. ASSUME NEW n \in 0 .. Q - 1, n \in T PROVE n + 1 \in T
  <2> DEFINE m == W - 4 * n
  <2>1. /\ n + 1 \in 1 .. W /\ (n + 1) - 1 = n /\ n \in 0 .. W /\ n + 1 \in 0 .. Q
        /\ m \in 1 .. W /\ m - 1 \in 1 .. W /\ m - 2 \in 1 .. W /\ m - 3 \in 1 .. W /\ m - 4 \in 0 .. W
        /\ (m - 1) - 1 = m - 2 /\ (m - 2) - 1 = m - 3 /\ (m - 3) - 1 = m - 4
        /\ W - 4 * (n + 1) = m - 4
    BY <1>1, <1>6
  <2>2. r[n] < p[m]
    BY <1>8
  <2> HIDE DEF m
  <2>3. r[n + 1] = r[n] \div 16 /\ r[n] \in Nat
    BY <1>5, <2>1
  <2>4. /\ p[m] = 2 * p[m - 1] /\ p[m - 1] = 2 * p[m - 2] /\ p[m - 2] = 2 * p[m - 3]
        /\ p[m - 3] = 2 * p[m - 4]
    BY <1>2, <2>1
  <2>5. p[m - 4] \in Nat
    BY <1>2, <2>1
  <2>6. r[n] < 2 * (2 * (2 * (2 * p[m - 4])))
    BY <2>2, <2>4
  <2>7. r[n] \div 16 < p[m - 4]
    BY <2>3, <2>5, <2>6, DivisionBy16
  <2>8. r[n + 1] < p[W - 4 * (n + 1)]
    BY <2>1, <2>3, <2>7
  <2> QED BY <2>1, <2>8
<1> HIDE DEF T
<1>9. \A n \in 0 .. Q : n \in T
  BY <1>6, <1>7, <1>8, NumberInduction
<1>10. \A n \in 0 .. Q : 4 * n \in 0 .. W
  BY <1>6
<1> QED BY <1>9, <1>10 DEF T, W, r, p, Q

LEMMA NumberOfDigitsIs ==
    ASSUME NEW value \in Nat, NEW base \in Bases, NEW N, N = NumberOfDigits(value, base)
    PROVE  /\ N \in 0 .. maxDigits
           /\ Remaining(value, base)[N] = 0 \/ N = maxDigits
           /\ \A m \in 0 .. N - 1 : Remaining(value, base)[m] > 0
<1> DEFINE W == maxDigits
           r == Remaining(value, base)
           Done(n) == r[n] = 0 \/ n = W
           T == {n \in 0 .. W : Done(n)}
           Is(n) == /\ r[n] = 0 \/ n = W
                    /\ \A m \in 0 .. n - 1 : r[m] > 0
<1>1. W \in Nat
  BY WordBitsType
<1>2. r \in [0 .. W -> Nat]
  BY RemainingIs
<1>3. N = CHOOSE n \in 0 .. W : Is(n)
  BY DEF NumberOfDigits
<1> HIDE DEF W, r
<1>4. PICK n \in T : \A m \in T : n <= m
  <2>1. T \subseteq Nat /\ W \in T
    BY <1>1
  <2> HIDE DEF T
  <2> QED BY <2>1, LeastNumber
<1>5. n \in 0 .. W /\ Is(n)
  <2>1. ASSUME NEW m \in 0 .. n - 1 PROVE r[m] > 0
    <3>1. m \in 0 .. W /\ m < n
      BY <1>1
    <3>2. ~Done(m)
      BY <1>1, <1>4, <3>1
    <3>3. r[m] # 0 /\ r[m] \in Nat
      BY <1>2, <3>1, <3>2
    <3> QED BY <3>3
  <2> QED BY <2>1
<1>6. N \in 0 .. W /\ Is(N)
  <2> HIDE DEF Is
  <2> QED BY <1>3, <1>5
<1> QED BY <1>6 DEF W, r

\* All of a number is divided away.
LEMMA NumberOfDigitsEnds ==
    ASSUME NEW value \in Numbers, NEW base \in Bases
    PROVE  Remaining(value, base)[NumberOfDigits(value, base)] = 0
<1>1. value \in Nat /\ Remaining(value, base)[maxDigits] < PowerOfTwo[0]
  <2>1. maxDigits \in 0 .. maxDigits /\ maxDigits - maxDigits = 0
    BY WordBitsType
  <2> QED BY <2>1, RemainingBelow
<1>2. Remaining(value, base)[maxDigits] \in Nat
  BY <1>1, WordBitsType, RemainingIs
<1>3. Remaining(value, base)[maxDigits] = 0
  BY <1>1, <1>2, PowerIs
<1> QED BY <1>1, <1>3, NumberOfDigitsIs

LEMMA NumberOfDigits16 ==
    ASSUME NEW value \in Numbers
    PROVE  NumberOfDigits(value, 16) <= maxDigits \div 4
<1> DEFINE W == maxDigits
           Q == W \div 4
           r == Remaining(value, 16)
           N == NumberOfDigits(value, 16)
<1>1. W \in Nat /\ W % 4 = 0
  BY WordBitsType, WordBitsAssumption
<1>2. Q \in Nat /\ 4 * Q = W /\ W - 4 * Q = 0 /\ Q \in 0 .. W
  BY <1>1
<1>3. value \in Nat /\ 16 \in Bases
  BY RemainingBelow DEF Bases
<1>4. N \in 0 .. W /\ \A m \in 0 .. N - 1 : r[m] > 0
  BY <1>3, NumberOfDigitsIs
<1>5. r[Q] < PowerOfTwo[W - 4 * Q]
  BY <1>2, RemainingBelow16
<1>6. r[Q] \in Nat
  BY <1>2, <1>3, RemainingIs
<1> HIDE DEF W, Q, r, N
<1>7. ~(r[Q] > 0)
  BY <1>2, <1>5, <1>6, PowerIs
<1>8. Q \notin 0 .. N - 1
  BY <1>4, <1>7
<1>9. N <= Q
  BY <1>1, <1>2, <1>4, <1>8
<1> QED BY <1>9 DEF W, Q, N

(***************************************************************************)
(* Characters.                                                             *)
(***************************************************************************)
LEMMA CharactersAre ==
    ASSUME NEW u \in BOOLEAN
    PROVE  /\ DigitToChar(0, u) = "0" /\ DigitToChar(1, u) = "1" /\ DigitToChar(2, u) = "2"
           /\ DigitToChar(3, u) = "3" /\ DigitToChar(4, u) = "4" /\ DigitToChar(5, u) = "5"
           /\ DigitToChar(6, u) = "6" /\ DigitToChar(7, u) = "7" /\ DigitToChar(8, u) = "8"
           /\ DigitToChar(9, u) = "9"
           /\ DigitToChar(10, u) = IF u THEN "A" ELSE "a"
           /\ DigitToChar(11, u) = IF u THEN "B" ELSE "b"
           /\ DigitToChar(12, u) = IF u THEN "C" ELSE "c"
           /\ DigitToChar(13, u) = IF u THEN "D" ELSE "d"
           /\ DigitToChar(14, u) = IF u THEN "E" ELSE "e"
           /\ DigitToChar(15, u) = IF u THEN "F" ELSE "f"
  BY DEF DigitToChar

\* The SMT solver cannot read a brace in a string: only Zenon sees what they are.
LEMMA BracesDiffer ==
    /\ Open \in Characters /\ Close \in Characters /\ Open # Close /\ Open # ":" /\ Close # ":"
    /\ ":" \in Characters /\ "0" \in Characters /\ "x" \in Characters /\ "d" \in Characters
    /\ "P" \in Characters /\ "V" \in Characters
    /\ Open # "P" /\ Close # "P" /\ Open # "V" /\ Close # "V"
    /\ Open # "x" /\ Close # "x" /\ Open # "0" /\ Close # "0" /\ Close # "d"
<1>1. /\ Open # Close /\ Open # ":" /\ Close # ":" /\ Open # "P" /\ Close # "P" /\ Open # "V"
      /\ Close # "V" /\ Open # "x" /\ Close # "x" /\ Open # "0" /\ Close # "0" /\ Close # "d"
  BY Zenon DEF Open, Close
<1>2. /\ Open \in Characters /\ Close \in Characters /\ ":" \in Characters /\ "0" \in Characters
      /\ "x" \in Characters /\ "d" \in Characters /\ "P" \in Characters /\ "V" \in Characters
  BY CharactersAssumption
<1> QED BY <1>1, <1>2

LEMMA CharacterIs ==
    ASSUME NEW d \in 0 .. 15, NEW u \in BOOLEAN
    PROVE  DigitToChar(d, u) \in Characters \ {Open, Close}
<1>1. \A c \in {"0", "1", "2", "3", "4", "5", "6", "7", "8", "9",
                "A", "B", "C", "D", "E", "F", "a", "b", "c", "d", "e", "f"} : c # Open /\ c # Close
  BY Zenon DEF Open, Close
<1>2. \A c \in {"0", "1", "2", "3", "4", "5", "6", "7", "8", "9",
                "A", "B", "C", "D", "E", "F", "a", "b", "c", "d", "e", "f"} : c \in Characters
  BY CharactersAssumption
<1>3. CASE d < 8
  <2>1. d = 0 \/ d = 1 \/ d = 2 \/ d = 3 \/ d = 4 \/ d = 5 \/ d = 6 \/ d = 7
    BY <1>3
  <2> QED BY <1>1, <1>2, <2>1, CharactersAre
<1>4. CASE d >= 8
  <2>1. d = 8 \/ d = 9 \/ d = 10 \/ d = 11 \/ d = 12 \/ d = 13 \/ d = 14 \/ d = 15
    BY <1>4
  <2> QED BY <1>1, <1>2, <2>1, CharactersAre
<1> QED BY <1>3, <1>4

LEMMA CharactersDiffer ==
    ASSUME NEW d \in 0 .. 15, NEW u \in BOOLEAN, NEW e \in 0 .. 15, NEW w \in BOOLEAN,
           DigitToChar(d, u) = DigitToChar(e, w)
    PROVE  d = e
  BY CharactersAre

LEMMA ZeroIsZero == ASSUME NEW d \in 0 .. 15, NEW u \in BOOLEAN, DigitToChar(d, u) = "0"
                    PROVE  d = 0
<1>1. DigitToChar(0, u) = "0" /\ 0 \in 0 .. 15
  BY CharactersAre
<1> QED BY <1>1, CharactersDiffer

LEMMA DigitValueIs ==
    ASSUME NEW d \in 0 .. 15, NEW u \in BOOLEAN
    PROVE  DigitValue(DigitToChar(d, u)) = d
<1> DEFINE c == DigitToChar(d, u)
           Is(e) == c \in {DigitToChar(e, TRUE), DigitToChar(e, FALSE)}
<1>1. Is(d)
  BY DEF DigitToChar
<1>2. \A e \in 0 .. 15 : Is(e) => e = d
  BY CharactersDiffer
<1>3. DigitValue(c) = CHOOSE e \in 0 .. 15 : Is(e)
  BY DEF DigitValue
<1> HIDE DEF Is
<1> QED BY <1>1, <1>2, <1>3

\* The digit t[i] of N, where r is what remains.
IsDigit(t, i, N, r, base, u) ==
    /\ r[N - i] % base \in 0 .. 15 /\ r[N - i] % base < base
    /\ t[i] = DigitToChar(r[N - i] % base, u)
    /\ t[i] \in Characters \ {Open, Close}

LEMMA DigitsAre ==
    ASSUME NEW value \in Nat, NEW format, NEW base, base = ConvertOutputFormat(format).Base,
           NEW u, u = ConvertOutputFormat(format).IsUppercase,
           NEW N, N = NumberOfDigits(value, base),
           NEW t, t = Digits(value, format), NEW r, r = Remaining(value, base)
    PROVE  /\ base \in Bases /\ u \in BOOLEAN /\ N \in Nat
           /\ t \in Seq(Characters) /\ Len(t) = N
           /\ \A i \in 1 .. N : IsDigit(t, i, N, r, base, u)
<1>1. base \in Bases /\ u \in BOOLEAN
  BY BasesAre DEF ConvertOutputFormat
<1>2. N \in 0 .. maxDigits /\ maxDigits \in Nat
  BY <1>1, NumberOfDigitsIs, WordBitsType
<1>3. r \in [0 .. maxDigits -> Nat]
  BY <1>1, RemainingIs
<1>4. t = [i \in 1 .. N |-> DigitToChar(r[N - i] % base, u)]
  BY DEF Digits, Digit
<1>5. ASSUME NEW i \in 1 .. N
      PROVE  /\ r[N - i] % base \in 0 .. 15 /\ r[N - i] % base < base
             /\ t[i] = DigitToChar(r[N - i] % base, u)
             /\ t[i] \in Characters \ {Open, Close}
  <2>1. N - i \in 0 .. maxDigits
    BY <1>2
  <2>2. r[N - i] \in Nat
    BY <1>3, <2>1
  <2>3. r[N - i] % base \in 0 .. 15 /\ r[N - i] % base < base
    BY <1>1, <2>2, DivisionIs
  <2>4. DigitToChar(r[N - i] % base, u) \in Characters \ {Open, Close}
    BY <1>1, <2>3, CharacterIs
  <2>5. t[i] = DigitToChar(r[N - i] % base, u)
    BY <1>4
  <2> QED BY <2>3, <2>4, <2>5
<1>6. N \in Nat
  BY <1>2
<1>7. t \in [1 .. N -> Characters]
  <2>1. \A i \in 1 .. N : t[i] \in Characters
    BY <1>5
  <2>2. t = [i \in 1 .. N |-> t[i]]
    BY <1>4
  <2> QED BY <2>1, <2>2
<1>8. t \in Seq(Characters) /\ Len(t) = N
  BY <1>6, <1>7, FunctionIsSeq
<1> QED BY <1>1, <1>5, <1>6, <1>8 DEF IsDigit

LEMMA PrefixIs ==
    ASSUME NEW format \in Characters, NEW isZero \in BOOLEAN, NEW p, p = OutputIntegerPrefix(format, isZero)
    PROVE  p \in Seq(Characters) /\ Len(p) \in 0 .. 2
<1>1. "0" \in Characters
  BY BracesDiffer
<1>2. p = << "0", format >> \/ p = << "0" >> \/ p = << >>
  BY DEF OutputIntegerPrefix
<1>3. ASSUME p = << "0", format >> PROVE p \in Seq(Characters) /\ Len(p) = 2
  BY <1>1, <1>3
<1>4. ASSUME p = << "0" >> PROVE p \in Seq(Characters) /\ Len(p) = 1
  BY <1>1, <1>4
<1>5. ASSUME p = << >> PROVE p \in Seq(Characters) /\ Len(p) = 0
  BY <1>5
<1>6. p \in Seq(Characters) /\ (Len(p) = 0 \/ Len(p) = 1 \/ Len(p) = 2)
  BY <1>2, <1>3, <1>4, <1>5
<1> QED BY <1>6

LEMMA OutputIntegerIs ==
    ASSUME NEW value \in Nat, NEW format \in Characters
    PROVE  OutputInteger(value, format) \in Seq(Characters)
<1>1. << "0" >> \in Seq(Characters)
  BY BracesDiffer
<1>2. Digits(value, format) \in Seq(Characters)
  BY DigitsAre
<1>3. OutputIntegerPrefix(format, value = 0) \in Seq(Characters)
  BY PrefixIs
<1> QED BY <1>1, <1>2, <1>3, Lists!ConcatProperties DEF OutputInteger

\* A value in hexadecimal fits a pointer's buffer, and means itself as a format.
LEMMA HexadecimalIs ==
    ASSUME NEW value \in Numbers, NEW t, t = OutputInteger(value, "x")
    PROVE  /\ t \in Seq(Characters) /\ Len(t) <= (WordBits \div 4) + 2
           /\ \A i \in 1 .. Len(t) : t[i] \notin {Open, Close}
<1> DEFINE p == << "0", "x" >>
           d == IF value = 0 THEN << "0" >> ELSE Digits(value, "x")
           N == NumberOfDigits(value, 16)
           Q == WordBits \div 4
<1>1. value \in Nat /\ "0" \in Characters /\ "x" \in Characters
  <2>1. 16 \in Bases
    BY DEF Bases
  <2> QED BY <2>1, RemainingBelow, BracesDiffer
<1>2. t = p \o d
  BY DEF OutputInteger, OutputIntegerPrefix
<1>3. Q \in Nat \ {0}
  BY WordBitsAssumption
<1>4. N <= Q
  BY NumberOfDigits16, WordBitsType
<1>5. ConvertOutputFormat("x").Base = 16
  BY DEF ConvertOutputFormat
<1> DEFINE b == ConvertOutputFormat("x").Base
<1>s. NumberOfDigits(value, b) = N
  BY <1>5
<1>6. /\ Digits(value, "x") \in Seq(Characters) /\ Len(Digits(value, "x")) = N
      /\ \A i \in 1 .. N : Digits(value, "x")[i] \notin {Open, Close}
  <2> HIDE DEF b, N
  <2>1. /\ Digits(value, "x") \in Seq(Characters) /\ Len(Digits(value, "x")) = NumberOfDigits(value, b)
        /\ \A i \in 1 .. NumberOfDigits(value, b) : Digits(value, "x")[i] \in Characters \ {Open, Close}
    BY <1>1, DigitsAre DEF b, IsDigit
  <2> QED BY <1>s, <2>1
<1>7. d \in Seq(Characters) /\ Len(d) <= Q /\ \A i \in 1 .. Len(d) : d[i] \notin {Open, Close}
  <2>1. CASE value = 0
    <3>1. d = << "0" >>
      BY <2>1
    <3>2. << "0" >> \in Seq(Characters) /\ Len(<< "0" >>) = 1
      BY <1>1
    <3>3. \A i \in 1 .. 1 : << "0" >>[i] \notin {Open, Close}
      BY BracesDiffer
    <3> HIDE DEF d, Q
    <3> QED BY <1>3, <3>1, <3>2, <3>3
  <2>2. CASE value # 0
    BY <1>4, <1>6, <2>2
  <2> QED BY <2>1, <2>2
<1>8. p \in Seq(Characters) /\ Len(p) = 2 /\ \A i \in 1 .. Len(p) : p[i] \notin {Open, Close}
  BY <1>1, BracesDiffer
<1> HIDE DEF p, d, Q
<1>9. /\ p \o d \in Seq(Characters) /\ Len(p \o d) = Len(p) + Len(d)
      /\ \A i \in 1 .. Len(p) + Len(d) : (p \o d)[i] = IF i <= Len(p) THEN p[i] ELSE d[i - Len(p)]
  BY <1>7, <1>8, Lists!ConcatProperties, ZenonT(60)
<1>10. Len(d) \in Nat
  BY <1>7
<1>11. ASSUME NEW i \in 1 .. Len(t) PROVE t[i] \notin {Open, Close}
  <2>1. i \in 1 .. Len(p) + Len(d) /\ t[i] = IF i <= Len(p) THEN p[i] ELSE d[i - Len(p)]
    BY <1>2, <1>9
  <2>2. CASE i <= Len(p)
    <3>1. i \in 1 .. Len(p)
      BY <1>8, <1>10, <2>1, <2>2
    <3> QED BY <1>8, <2>1, <2>2, <3>1
  <2>3. CASE ~(i <= Len(p))
    <3>1. i - Len(p) \in 1 .. Len(d)
      BY <1>8, <1>10, <2>1, <2>3
    <3> QED BY <1>7, <2>1, <2>3, <3>1
  <2> QED BY <2>2, <2>3
<1>12. Len(t) <= Q + 2
  BY <1>2, <1>3, <1>7, <1>8, <1>9, <1>10
<1> QED BY <1>2, <1>9, <1>11, <1>12 DEF Q

(***************************************************************************)
(* Numbers that are read back.                                             *)
(***************************************************************************)
Reads(h, text, base, N) ==
    /\ h = [n \in 0 .. N |-> h[n]] /\ h[0] = 0
    /\ \A n \in 1 .. N : h[n] = h[n - 1] * base + DigitValue(text[n])

LEMMA ReadBackIs ==
    ASSUME NEW N \in Nat, NEW text, Len(text) = N, NEW base, NEW h, Reads(h, text, base, N)
    PROVE  ReadBack(text, base) = h[N]
<1> USE DEF Reads
<1> DEFINE v(x, n) == x * base + DigitValue(text[n])
           E(g) == [n \in 0 .. N |-> IF n = 0 THEN 0 ELSE v(g[n - 1], n)]
<1>1. ReadBack(text, base) = (CHOOSE g : g = E(g))[N]
  BY DEF ReadBack
<1>2. \A n \in 1 .. N : h[n] = v(h[n - 1], n)
  OBVIOUS
<1> HIDE DEF v
<1>3. h = E(h)
  <2>1. \A n \in 0 .. N : n = 0 \/ n \in 1 .. N
    OBVIOUS
  <2>2. \A n \in 0 .. N : h[n] = IF n = 0 THEN 0 ELSE v(h[n - 1], n)
    BY <1>2, <2>1
  <2> QED BY <2>2
<1>4. PICK f : f = (CHOOSE g : g = E(g)) /\ f = E(f)
  <2> HIDE DEF E
  <2> QED BY <1>3
<1>5. \A n \in 0 .. N : f[n] = IF n = 0 THEN 0 ELSE v(f[n - 1], n)
  BY <1>4
<1> DEFINE T == {n \in 0 .. N : f[n] = h[n]}
<1>6. 0 \in T
  BY <1>5
<1>7. ASSUME NEW n \in 0 .. N - 1, n \in T PROVE n + 1 \in T
  <2>1. n + 1 \in 0 .. N /\ n + 1 # 0 /\ n + 1 \in 1 .. N /\ (n + 1) - 1 = n
    OBVIOUS
  <2>2. f[n + 1] = v(f[n], n + 1) /\ h[n + 1] = v(h[n], n + 1)
    BY <1>2, <1>5, <2>1
  <2> QED BY <1>7, <2>1, <2>2
<1> HIDE DEF T
<1>8. N \in T
  BY <1>6, <1>7, NumberInduction
<1> QED BY <1>1, <1>4, <1>8 DEF T

LEMMA Apart ==
    ASSUME NEW S, NEW x \in Seq(S), NEW y \in Seq(S), NEW z, z = x \o y
    PROVE  /\ Len(z) = Len(x) + Len(y)
           /\ SubSeq(z, 1, Len(x)) = x /\ SubSeq(z, Len(x) + 1, Len(z)) = y
<1>1. /\ z \in Seq(S) /\ Len(z) = Len(x) + Len(y) /\ Len(x) \in Nat /\ Len(y) \in Nat
      /\ \A i \in 1 .. Len(x) + Len(y) : z[i] = IF i <= Len(x) THEN x[i] ELSE y[i - Len(x)]
  BY Lists!ConcatProperties
<1>2. SubSeq(z, 1, Len(x)) = x
  <2>1. SubSeq(z, 1, Len(x)) \in Seq(S) /\ Len(SubSeq(z, 1, Len(x))) = Len(x)
    BY <1>1
  <2>2. ASSUME NEW i \in 1 .. Len(x) PROVE SubSeq(z, 1, Len(x))[i] = x[i]
    BY <1>1
  <2> QED BY <2>1, <2>2, Lists!SeqEqual
<1>3. SubSeq(z, Len(x) + 1, Len(z)) = y
  <2> DEFINE w == SubSeq(z, Len(x) + 1, Len(z))
  <2>1. w \in Seq(S) /\ Len(w) = Len(y)
    BY <1>1
  <2>2. ASSUME NEW i \in 1 .. Len(y) PROVE w[i] = y[i]
    <3>1. w[i] = z[(Len(x) + 1) + i - 1]
      BY <1>1
    <3>2. /\ (Len(x) + 1) + i - 1 = Len(x) + i /\ Len(x) + i \in 1 .. Len(x) + Len(y)
          /\ ~(Len(x) + i <= Len(x)) /\ (Len(x) + i) - Len(x) = i
      BY <1>1
    <3> QED BY <1>1, <3>1, <3>2
  <2> HIDE DEF w
  <2>3. w = y
    BY <2>1, <2>2, Lists!SeqEqual
  <2> QED BY <2>3 DEF w
<1> QED BY <1>1, <1>2, <1>3

\* Digits that are read from the first to the last, with zero for what remains
\* before and the value at the end.
LEMMA DigitsReadBack ==
    ASSUME NEW value \in Numbers, value # 0, NEW format,
           NEW base, base = ConvertOutputFormat(format).Base, NEW t, t = Digits(value, format)
    PROVE  /\ Len(t) > 0 /\ t \in Seq(Characters) /\ ReadBack(t, base) = value
           /\ t[1] # "0" /\ \A i \in 1 .. Len(t) : DigitValue(t[i]) < base
<1> DEFINE N == NumberOfDigits(value, base)
           r == Remaining(value, base)
           u == ConvertOutputFormat(format).IsUppercase
           h == [n \in 0 .. N |-> r[N - n]]
<1>1. value \in Nat /\ base \in Bases
  BY BasesAre, RemainingBelow
<1>2. /\ u \in BOOLEAN /\ N \in Nat /\ t \in Seq(Characters) /\ Len(t) = N
      /\ \A i \in 1 .. N : /\ r[N - i] % base \in 0 .. 15 /\ r[N - i] % base < base
                           /\ t[i] = DigitToChar(r[N - i] % base, u)
  <2>1. N = NumberOfDigits(value, base) /\ r = Remaining(value, base)
        /\ u = ConvertOutputFormat(format).IsUppercase
    OBVIOUS
  <2> HIDE DEF N, r, u
  <2>u. u \in BOOLEAN
    BY <2>1 DEF ConvertOutputFormat
  <2>n. N \in Nat
    BY <1>1, <2>1, DigitsAre
  <2>2. t \in Seq(Characters) /\ Len(t) = N
    BY <1>1, <2>1, DigitsAre
  <2>3. ASSUME NEW i \in 1 .. N
        PROVE  /\ r[N - i] % base \in 0 .. 15 /\ r[N - i] % base < base
               /\ t[i] = DigitToChar(r[N - i] % base, u)
    <3>1. IsDigit(t, i, N, r, base, u)
      BY <1>1, <2>1, DigitsAre
    <3> QED BY <3>1 DEF IsDigit
  <2> QED BY <2>2, <2>3, <2>u, <2>n
<1>3. \A i \in 1 .. N : DigitValue(t[i]) = r[N - i] % base
  BY <1>2, DigitValueIs
<1>4. N \in 0 .. maxDigits /\ maxDigits \in Nat /\ r[N] = 0 /\ \A m \in 0 .. N - 1 : r[m] > 0
  BY <1>1, NumberOfDigitsIs, NumberOfDigitsEnds, WordBitsType
<1>5. /\ r \in [0 .. maxDigits -> Nat] /\ r[0] = value
      /\ \A n \in 1 .. maxDigits : r[n] = r[n - 1] \div base
  BY <1>1, RemainingIs
<1> HIDE DEF N, r, u
<1>6. N > 0
  <2>1. N # 0
    BY <1>4, <1>5
  <2> QED BY <1>2, <2>1
<1>7. ASSUME NEW n \in 1 .. N PROVE h[n] = h[n - 1] * base + DigitValue(t[n])
  <2>1. /\ n \in 0 .. N /\ n - 1 \in 0 .. N /\ N - (n - 1) \in 1 .. maxDigits
        /\ (N - (n - 1)) - 1 = N - n /\ N - n \in 0 .. maxDigits
    BY <1>2, <1>4
  <2>2. r[N - (n - 1)] = r[N - n] \div base /\ r[N - n] \in Nat
    BY <1>5, <2>1
  <2>3. h[n] = r[N - n] /\ h[n - 1] = r[N - (n - 1)]
    BY <2>1
  <2>4. r[N - n] = ((r[N - n] \div base) * base) + (r[N - n] % base)
    BY <1>1, <2>2, DivisionIs
  <2>5. DigitValue(t[n]) = r[N - n] % base
    BY <1>3
  <2> HIDE DEF h
  <2> QED BY <2>2, <2>3, <2>4, <2>5
<1>8. h = [n \in 0 .. N |-> h[n]] /\ h[0] = 0 /\ h[N] = value
  <2>1. 0 \in 0 .. N /\ N \in 0 .. N /\ N - 0 = N /\ N - N = 0
    BY <1>2
  <2> QED BY <1>4, <1>5, <2>1
<1>9. ReadBack(t, base) = value
  <2> HIDE DEF h
  <2>1. ReadBack(t, base) = h[N]
    <3>1. Reads(h, t, base, N)
      BY <1>7, <1>8 DEF Reads
    <3> QED BY <1>2, <3>1, ReadBackIs
  <2> QED BY <1>8, <2>1
<1>10. t[1] # "0"
  <2>1. 1 \in 1 .. N /\ N - 1 \in 0 .. N - 1 /\ N \in 1 .. maxDigits /\ N - 1 \in 0 .. maxDigits
    BY <1>2, <1>4, <1>6
  <2>2. r[N - 1] > 0 /\ r[N - 1] \in Nat /\ r[N] = r[N - 1] \div base
    BY <1>4, <1>5, <2>1
  <2>3. r[N - 1] = ((r[N - 1] \div base) * base) + (r[N - 1] % base)
    BY <1>1, <2>2, DivisionIs
  <2>4. r[N - 1] \div base = 0 /\ r[N - 1] % base \in 0 .. 15 /\ base \in Nat
    BY <1>1, <1>2, <1>4, <2>1, <2>2 DEF Bases
  <2>5. 0 * base = 0
    BY <2>4
  <2>6. r[N - 1] % base # 0
    BY <2>2, <2>3, <2>4, <2>5
  <2>7. t[1] = DigitToChar(r[N - 1] % base, u)
    BY <1>2, <2>1
  <2> QED BY <1>2, <2>4, <2>6, <2>7, ZeroIsZero
<1>11. \A i \in 1 .. Len(t) : DigitValue(t[i]) < base
  BY <1>2, <1>3
<1> QED BY <1>2, <1>6, <1>9, <1>10, <1>11

LEMMA ZeroReadsBack ==
    ASSUME NEW format, NEW base, base = ConvertOutputFormat(format).Base,
           NEW t, Len(t) = 1, t[1] = "0"
    PROVE  /\ ReadBack(t, base) = 0
           /\ \A i \in 1 .. Len(t) : DigitValue(t[i]) < base
<1>1. base \in Bases
  BY BasesAre
<1>2. Len(t) = 1 /\ t[1] = "0"
  OBVIOUS
<1>3. DigitValue("0") = 0
  <2>1. ASSUME NEW u \in BOOLEAN PROVE DigitValue("0") = 0
    <3>1. DigitToChar(0, u) = "0" /\ 0 \in 0 .. 15
      BY CharactersAre
    <3> QED BY <3>1, DigitValueIs
  <2> QED BY <2>1
<1> DEFINE h == [n \in 0 .. 1 |-> 0]
<1>4. h = [n \in 0 .. 1 |-> h[n]] /\ h[0] = 0 /\ h[1] = 0
  OBVIOUS
<1>5. \A n \in 1 .. 1 : h[n] = h[n - 1] * base + DigitValue(t[n])
  <2>1. base \in Nat
    BY <1>1 DEF Bases
  <2>2. \A n \in 1 .. 1 : n = 1 /\ n - 1 = 0
    OBVIOUS
  <2>3. h[1] = h[0] * base + DigitValue(t[1])
    BY <1>2, <1>3, <1>4, <2>1
  <2> HIDE DEF h
  <2> QED BY <2>2, <2>3
<1>6. ReadBack(t, base) = 0
  <2> HIDE DEF h
  <2> DEFINE N == 1
  <2>1. Reads(h, t, base, N)
    BY <1>4, <1>5 DEF Reads
  <2>2. N \in Nat /\ Len(t) = N /\ h[N] = 0
    BY <1>2, <1>4
  <2> HIDE DEF N
  <2>3. ReadBack(t, base) = h[N]
    BY <2>1, <2>2, ReadBackIs
  <2> QED BY <2>2, <2>3
<1>7. base > 0
  BY <1>1 DEF Bases
<1> QED BY <1>2, <1>3, <1>6, <1>7

\* A number that is written is a numeral that reads as the number.
LEMMA NumeralReads ==
    ASSUME NEW value \in Numbers, NEW format \in Characters
    PROVE  IsNumeral(OutputInteger(value, format), value, format)
<1> DEFINE base == ConvertOutputFormat(format).Base
           p == OutputIntegerPrefix(format, value = 0)
           d == IF value = 0 THEN << "0" >> ELSE Digits(value, format)
           text == OutputInteger(value, format)
<1>1. text = p \o d
  BY DEF OutputInteger
<1>2. p \in Seq(Characters)
  BY PrefixIs
<1>3. /\ Len(d) > 0 /\ d \in Seq(Characters) /\ ReadBack(d, base) = value
      /\ \A i \in 1 .. Len(d) : DigitValue(d[i]) < base
      /\ d[1] = "0" => d = << "0" >>
  <2>1. CASE value = 0
    <3>1. d = << "0" >> /\ d \in Seq(Characters) /\ Len(d) = 1 /\ d[1] = "0"
      BY <2>1, BracesDiffer
    <3> HIDE DEF d
    <3>2. ReadBack(d, base) = 0 /\ \A i \in 1 .. Len(d) : DigitValue(d[i]) < base
      BY <3>1, ZeroReadsBack
    <3> QED BY <2>1, <3>1, <3>2
  <2>2. CASE value # 0
    BY <2>2, DigitsReadBack
  <2> QED BY <2>1, <2>2
<1> HIDE DEF p, d, text, base
<1>4. /\ Len(text) = Len(p) + Len(d)
      /\ SubSeq(text, 1, Len(p)) = p /\ SubSeq(text, Len(p) + 1, Len(text)) = d
  BY <1>1, <1>2, <1>3, Apart
<1>5. DOMAIN d = 1 .. Len(d) /\ Len(text) > Len(p)
  BY <1>2, <1>3, <1>4
<1> QED BY <1>3, <1>4, <1>5 DEF IsNumeral, p, base, text

(***************************************************************************)
(* What an output shows.                                                   *)
(***************************************************************************)
OutputSizes == (Nat \ {0}) \union {NoLimit}

Outputs(size) == [size : {size}, written : Seq(Characters), success : BOOLEAN]

\* The beginning of a text, as far as there is room for it.
Fitting(size, text) ==
    IF size = NoLimit \/ Len(text) <= size THEN text ELSE SubSeq(text, 1, size)

\* A text was written to an output, which fails only if it is full.
OutputShows(output, size, text) ==
    /\ output \in Outputs(size) /\ text \in Seq(Characters)
    /\ output.written = Fitting(size, text)
    /\ ~output.success => size # NoLimit /\ size <= Len(text)

LEMMA CutBefore ==
    ASSUME NEW S, NEW x \in Seq(S), NEW y \in Seq(S), NEW n \in 0 .. Len(x)
    PROVE  SubSeq(x \o y, 1, n) = SubSeq(x, 1, n)
<1> DEFINE z == x \o y
<1>1. /\ z \in Seq(S) /\ Len(z) = Len(x) + Len(y) /\ Len(x) \in Nat /\ Len(y) \in Nat
      /\ \A i \in 1 .. Len(x) : z[i] = x[i]
  BY Lists!ConcatProperties
<1> HIDE DEF z
<1>2. /\ SubSeq(z, 1, n) \in Seq(S) /\ Len(SubSeq(z, 1, n)) = n
      /\ SubSeq(x, 1, n) \in Seq(S) /\ Len(SubSeq(x, 1, n)) = n
  BY <1>1
<1>3. ASSUME NEW i \in 1 .. n PROVE SubSeq(z, 1, n)[i] = SubSeq(x, 1, n)[i]
  BY <1>1
<1> QED BY <1>2, <1>3, Lists!SeqEqual DEF z

LEMMA CutBehind ==
    ASSUME NEW S, NEW x \in Seq(S), NEW y \in Seq(S), NEW n \in 0 .. Len(y)
    PROVE  SubSeq(x \o y, 1, Len(x) + n) = x \o SubSeq(y, 1, n)
<1> DEFINE z == x \o y
           v == SubSeq(y, 1, n)
           w == SubSeq(z, 1, Len(x) + n)
<1>1. /\ z \in Seq(S) /\ Len(z) = Len(x) + Len(y) /\ Len(x) \in Nat /\ Len(y) \in Nat
      /\ \A i \in 1 .. Len(x) + Len(y) : z[i] = IF i <= Len(x) THEN x[i] ELSE y[i - Len(x)]
  BY Lists!ConcatProperties
<1>2. v \in Seq(S) /\ Len(v) = n /\ \A i \in 1 .. n : v[i] = y[i]
  BY <1>1
<1> HIDE DEF z, v
<1>3. w \in Seq(S) /\ Len(w) = Len(x) + n /\ \A i \in 1 .. Len(x) + n : w[i] = z[i]
  BY <1>1
<1> HIDE DEF w
<1>4. /\ x \o v \in Seq(S) /\ Len(x \o v) = Len(x) + n
      /\ \A i \in 1 .. Len(x) + n : (x \o v)[i] = IF i <= Len(x) THEN x[i] ELSE v[i - Len(x)]
  BY <1>2, Lists!ConcatProperties
<1>5. ASSUME NEW i \in 1 .. Len(x) + n PROVE w[i] = (x \o v)[i]
  <2>1. i \in 1 .. Len(x) + Len(y) /\ (~(i <= Len(x)) => i - Len(x) \in 1 .. n)
    BY <1>1
  <2>2. w[i] = IF i <= Len(x) THEN x[i] ELSE y[i - Len(x)]
    BY <1>1, <1>3, <2>1
  <2>3. (x \o v)[i] = IF i <= Len(x) THEN x[i] ELSE v[i - Len(x)]
    BY <1>4
  <2> QED BY <1>2, <2>1, <2>2, <2>3
<1>6. w = x \o v
  BY <1>3, <1>4, <1>5, Lists!SeqEqual
<1> QED BY <1>6 DEF w, v, z

LEMMA NoLimitIs == NoLimit \notin Nat
  BY DEF NoLimit

LEMMA WriteTextIs ==
    ASSUME NEW size \in OutputSizes, NEW output \in Outputs(size), NEW text \in Seq(Characters),
           NEW o, o = WriteText(output, text),
           NEW room, room = size - Len(output.written)
    PROVE  /\ o \in Outputs(size)
           /\ size = NoLimit \/ Len(text) <= room => o.written = output.written \o text /\ o.success
           /\ ~(size = NoLimit \/ Len(text) <= room) =>
                o.written = output.written \o SubSeq(text, 1, room) /\ ~o.success
<1>1. /\ output.size = size /\ output.written \in Seq(Characters)
      /\ size \in Int /\ Len(text) \in Nat /\ Len(output.written) \in Nat /\ room \in Int
  BY DEF Outputs, OutputSizes, NoLimit
<1>2. CASE size = NoLimit \/ Len(text) <= room
  <2>1. o = [output EXCEPT !.written = output.written \o text, !.success = TRUE]
    BY <1>1, <1>2 DEF WriteText
  <2>2. output.written \o text \in Seq(Characters)
    BY <1>1, Lists!ConcatProperties
  <2>3. o.written = output.written \o text /\ o.success /\ o \in Outputs(size)
    BY <2>1, <2>2 DEF Outputs
  <2> QED BY <1>2, <2>3
<1>3. CASE ~(size = NoLimit \/ Len(text) <= room)
  <2> DEFINE part == SubSeq(text, 1, room)
  <2>1. o = [output EXCEPT !.written = output.written \o part, !.success = FALSE]
    BY <1>1, <1>3 DEF WriteText
  <2>2. part \in Seq(Characters)
    <3>1. \A i \in 1 .. room : i \in 1 .. Len(text)
      BY <1>1, <1>3
    <3>2. \A i \in 1 .. room : text[i] \in Characters
      BY <3>1
    <3> QED BY <1>1, <3>2, Lists!SubSeqProperties
  <2> HIDE DEF part
  <2>3. output.written \o part \in Seq(Characters)
    BY <1>1, <2>2, Lists!ConcatProperties
  <2>4. o.written = output.written \o part /\ ~o.success /\ o \in Outputs(size)
    BY <2>1, <2>3 DEF Outputs
  <2> QED BY <1>3, <2>4 DEF part
<1> QED BY <1>2, <1>3

LEMMA WriteShows ==
    ASSUME NEW size \in OutputSizes, NEW output, NEW m, OutputShows(output, size, m), NEW t \in Seq(Characters)
    PROVE  OutputShows(WriteText(output, t), size, m \o t)
<1> DEFINE o == WriteText(output, t)
           w == output.written
           room == size - Len(w)
           z == m \o t
<1>1. /\ output \in Outputs(size) /\ m \in Seq(Characters) /\ w = Fitting(size, m)
      /\ w \in Seq(Characters)
  BY DEF OutputShows, Outputs
<1>2. z \in Seq(Characters) /\ Len(z) = Len(m) + Len(t) /\ Len(m) \in Nat /\ Len(t) \in Nat
  BY <1>1, Lists!ConcatProperties
<1>3. /\ o \in Outputs(size)
      /\ size = NoLimit \/ Len(t) <= room => o.written = w \o t /\ o.success
      /\ ~(size = NoLimit \/ Len(t) <= room) => o.written = w \o SubSeq(t, 1, room) /\ ~o.success
  BY <1>1, WriteTextIs
<1> HIDE DEF o, w, z
<1>4. CASE size = NoLimit
  <2>1. w = m /\ o.written = m \o t /\ o.success
    BY <1>1, <1>3, <1>4 DEF Fitting
  <2> QED BY <1>2, <1>3, <1>4, <2>1 DEF OutputShows, Fitting, o, z
<1>5. CASE size \in Nat \ {0} /\ Len(m) <= size
  <2>1. w = m /\ room = size - Len(m) /\ size # NoLimit
    BY <1>1, <1>5, NoLimitIs DEF Fitting
  <2>2. CASE Len(t) <= room
    <3>1. o.written = z /\ o.success /\ Len(z) <= size
      BY <1>2, <1>3, <1>5, <2>1, <2>2 DEF z
    <3> QED BY <1>2, <1>3, <3>1 DEF OutputShows, Fitting, o, z
  <2>3. CASE ~(Len(t) <= room)
    <3>1. room \in 0 .. Len(t) /\ Len(m) + room = size /\ ~(Len(z) <= size) /\ size <= Len(z)
      BY <1>2, <1>5, <2>1, <2>3
    <3>2. o.written = m \o SubSeq(t, 1, room) /\ ~o.success
      BY <1>3, <2>1, <2>3
    <3> HIDE DEF room
    <3>3. SubSeq(z, 1, Len(m) + room) = m \o SubSeq(t, 1, room)
      BY <1>1, <3>1, CutBehind DEF z
    <3>4. o.written = SubSeq(z, 1, size)
      BY <3>1, <3>2, <3>3
    <3> QED BY <1>2, <1>3, <2>1, <3>1, <3>2, <3>4 DEF OutputShows, Fitting, o, z
  <2> QED BY <2>2, <2>3
<1>6. CASE size \in Nat \ {0} /\ ~(Len(m) <= size)
  <2>1. w = SubSeq(m, 1, size) /\ size # NoLimit
    BY <1>1, <1>6, NoLimitIs DEF Fitting
  <2>2. Len(w) = size /\ room = 0
    BY <1>2, <1>6, <2>1
  <2>3. o.written = w
    <3>1. CASE Len(t) <= room
      <4>1. t = << >>
        BY <1>2, <2>2, <3>1
      <4> QED BY <1>1, <1>3, <3>1, <4>1, Lists!ConcatEmptySeq
    <3>2. CASE ~(Len(t) <= room)
      <4>1. SubSeq(t, 1, room) = << >>
        BY <2>2, Lists!SubSeqEmpty
      <4> QED BY <1>1, <1>3, <2>1, <3>2, <4>1, Lists!ConcatEmptySeq
    <3> QED BY <3>1, <3>2
  <2>4. SubSeq(z, 1, size) = SubSeq(m, 1, size)
    <3>1. size \in 0 .. Len(m)
      BY <1>2, <1>6
    <3> QED BY <1>1, <3>1, CutBefore DEF z
  <2>5. ~(Len(z) <= size) /\ size <= Len(z)
    BY <1>2, <1>6
  <2> QED BY <1>2, <1>3, <2>1, <2>3, <2>4, <2>5 DEF OutputShows, Fitting, o, z
<1> QED BY <1>4, <1>5, <1>6 DEF OutputSizes

\* A full output shows what was written to it, whatever else was to be written.
LEMMA FullShows ==
    ASSUME NEW size \in OutputSizes, NEW output, NEW m, OutputShows(output, size, m), ~output.success,
           NEW t \in Seq(Characters)
    PROVE  OutputShows(output, size, m \o t)
<1>1. /\ output \in Outputs(size) /\ m \in Seq(Characters) /\ output.written = Fitting(size, m)
      /\ size # NoLimit /\ size <= Len(m)
  BY DEF OutputShows
<1>2. size \in Nat \ {0}
  BY <1>1 DEF OutputSizes
<1>3. m \o t \in Seq(Characters) /\ Len(m \o t) = Len(m) + Len(t) /\ Len(m) \in Nat /\ Len(t) \in Nat
  BY <1>1, Lists!ConcatProperties
<1>4. SubSeq(m \o t, 1, size) = SubSeq(m, 1, size)
  <2>1. size \in 0 .. Len(m)
    BY <1>1, <1>2, <1>3
  <2> QED BY <1>1, <2>1, CutBefore
<1>5. output.written = SubSeq(m, 1, size)
  <2>1. CASE Len(m) <= size
    <3>1. Len(m) = size /\ output.written = m
      BY <1>1, <1>2, <1>3, <2>1 DEF Fitting
    <3>2. SubSeq(m, 1, Len(m)) = m
      BY <1>1, Lists!SubSeqFull
    <3> QED BY <3>1, <3>2
  <2>2. CASE ~(Len(m) <= size)
    BY <1>1, <2>2 DEF Fitting
  <2> QED BY <2>1, <2>2
<1>6. output.written = Fitting(size, m \o t)
  <2>1. CASE Len(m \o t) <= size
    <3>1. Len(m \o t) = size
      BY <1>1, <1>2, <1>3, <2>1
    <3>2. SubSeq(m \o t, 1, Len(m \o t)) = m \o t
      BY <1>3, Lists!SubSeqFull
    <3> QED BY <1>4, <1>5, <2>1, <3>1, <3>2 DEF Fitting
  <2>2. CASE ~(Len(m \o t) <= size)
    BY <1>1, <1>4, <1>5, <2>2 DEF Fitting
  <2> QED BY <2>1, <2>2
<1>7. size <= Len(m \o t)
  BY <1>1, <1>2, <1>3
<1> QED BY <1>1, <1>3, <1>6, <1>7 DEF OutputShows

(***************************************************************************)
(* A format that is parsed character by character.                         *)
(***************************************************************************)
At(state, format, element, output) ==
    [state |-> state, format |-> format, element |-> element, output |-> output]

Parsed(g, wrappers, format, output, n) ==
    /\ g = [i \in 0 .. n |-> g[i]] /\ g[0] = ParseStart(output)
    /\ \A i \in 1 .. n : g[i] = ParseNext(wrappers, g[i - 1], format[i])

LEMMA ParsedExists ==
    ASSUME NEW wrappers, NEW format, NEW output, NEW N \in Nat
    PROVE  \E g : Parsed(g, wrappers, format, output, N)
<1> DEFINE P(x, n) == ParseNext(wrappers, x, format[n])
           Q(g, m) == /\ g = [i \in 0 .. m |-> g[i]] /\ g[0] = ParseStart(output)
                      /\ \A i \in 1 .. m : g[i] = P(g[i - 1], i)
           T == {m \in 0 .. N : \E g : Q(g, m)}
<1> HIDE DEF P
<1>1. 0 \in T
  <2>1. Q([i \in 0 .. 0 |-> ParseStart(output)], 0)
    OBVIOUS
  <2> HIDE DEF Q
  <2> QED BY <2>1
<1>2. ASSUME NEW m \in 0 .. N - 1, m \in T PROVE m + 1 \in T
  <2>1. PICK g : Q(g, m)
    BY <1>2
  <2> DEFINE h == [i \in 0 .. m + 1 |-> IF i = m + 1 THEN P(g[m], m + 1) ELSE g[i]]
  <2>2. h[0] = ParseStart(output)
    <3>1. 0 \in 0 .. m + 1 /\ 0 # m + 1
      OBVIOUS
    <3> QED BY <2>1, <3>1
  <2>3. ASSUME NEW n \in 1 .. m + 1 PROVE h[n] = P(h[n - 1], n)
    <3>1. n - 1 \in 0 .. m + 1 /\ n - 1 # m + 1 /\ n \in 0 .. m + 1
      OBVIOUS
    <3>2. h[n - 1] = g[n - 1]
      BY <3>1
    <3>3. CASE n = m + 1
      <4>1. n - 1 = m
        BY <3>3
      <4>2. h[n] = P(g[m], m + 1)
        BY <3>1, <3>3
      <4> QED BY <3>2, <3>3, <4>1, <4>2
    <3>4. CASE n # m + 1
      <4>1. n \in 1 .. m
        BY <3>4
      <4>2. h[n] = g[n]
        BY <3>1, <3>4
      <4> QED BY <2>1, <3>2, <4>1, <4>2
    <3> QED BY <3>3, <3>4
  <2>4. h = [i \in 0 .. m + 1 |-> h[i]]
    OBVIOUS
  <2> HIDE DEF h
  <2>5. Q(h, m + 1)
    BY <2>2, <2>3, <2>4
  <2> HIDE DEF Q
  <2>6. m + 1 \in 0 .. N
    OBVIOUS
  <2> QED BY <2>5, <2>6
<1> HIDE DEF T
<1>3. N \in T
  BY <1>1, <1>2, NumberInduction
<1> QED BY <1>3 DEF T, Parsed, P

ParsedWhole(g, wrappers, format, output, n) ==
    Len(format) = n /\ Parsed(g, wrappers, format, output, n)

LEMMA FormatImplIs ==
    ASSUME NEW wrappers, NEW format, NEW output, NEW N \in Nat,
           NEW g, ParsedWhole(g, wrappers, format, output, N)
    PROVE  FormatImpl(output, format, wrappers) = g[N].output
<1> USE DEF ParsedWhole
<1> DEFINE P(x, n) == ParseNext(wrappers, x, format[n])
           first == ParseStart(output)
           E(k) == [n \in 0 .. N |-> IF n = 0 THEN first ELSE P(k[n - 1], n)]
<1>1. FormatImpl(output, format, wrappers) = (CHOOSE k : k = E(k))[N].output
  BY DEF FormatImpl
<1>2. g[0] = first /\ g = [n \in 0 .. N |-> g[n]] /\ \A n \in 1 .. N : g[n] = P(g[n - 1], n)
  BY DEF Parsed
<1> HIDE DEF P, first
<1>3. g = E(g)
  <2>1. \A n \in 0 .. N : n = 0 \/ n \in 1 .. N
    OBVIOUS
  <2>2. \A n \in 0 .. N : g[n] = IF n = 0 THEN first ELSE P(g[n - 1], n)
    BY <1>2, <2>1
  <2> QED BY <1>2, <2>2
<1>4. PICK f : f = (CHOOSE k : k = E(k)) /\ f = E(f)
  <2> HIDE DEF E
  <2> QED BY <1>3
<1>5. \A n \in 0 .. N : f[n] = IF n = 0 THEN first ELSE P(f[n - 1], n)
  BY <1>4
<1> DEFINE T == {n \in 0 .. N : f[n] = g[n]}
<1>6. 0 \in T
  BY <1>2, <1>5
<1>7. ASSUME NEW n \in 0 .. N - 1, n \in T PROVE n + 1 \in T
  <2>1. n + 1 \in 0 .. N /\ n + 1 # 0 /\ n + 1 \in 1 .. N /\ (n + 1) - 1 = n
    OBVIOUS
  <2>2. f[n + 1] = P(f[n], n + 1) /\ g[n + 1] = P(g[n], n + 1)
    BY <1>2, <1>5, <2>1
  <2> QED BY <1>7, <2>1, <2>2
<1> HIDE DEF T
<1>8. \A n \in 0 .. N : n \in T
  BY <1>6, <1>7, NumberInduction
<1>9. f[N] = g[N]
  BY <1>8 DEF T
<1> QED BY <1>1, <1>4, <1>9

OneWritten(output, char) == WriteText(output, << char >>)

LEMMA AtIs ==
    ASSUME NEW wrappers, NEW s, NEW f, NEW e, NEW o, o.success, NEW c, NEW p, p = At(s, f, e, o)
    PROVE  /\ p.state = s /\ p.format = f /\ p.element = e /\ p.output = o
           /\ OutputCharacter(p, c) = At("OutputCharacter", f, e, OneWritten(o, c))
           /\ ParseNext(wrappers, p, c) = ParseCharacter(wrappers, p, c)
<1>1. p.state = s /\ p.format = f /\ p.element = e /\ p.output = o
  BY DEF At
<1>2. p \in [state : {s}, format : {f}, element : {e}, output : {o}]
  BY DEF At
<1>3. OutputCharacter(p, c) = At("OutputCharacter", f, e, OneWritten(o, c))
  <2> DEFINE h == OneWritten(o, c)
             r == [p EXCEPT !.state = "OutputCharacter", !.output = h]
  <2>1. OutputCharacter(p, c) = r
    BY <1>1 DEF OutputCharacter, OneWritten
  <2> HIDE DEF h
  <2>2. r \in [state : {"OutputCharacter"}, format : {f}, element : {e}, output : {h}]
    BY <1>2
  <2> HIDE DEF r
  <2>3. r = [state |-> "OutputCharacter", format |-> f, element |-> e, output |-> h]
    BY <2>2
  <2> QED BY <2>1, <2>3 DEF At, h
<1>4. ParseNext(wrappers, p, c) = ParseCharacter(wrappers, p, c)
  BY <1>1 DEF ParseNext
<1> QED BY <1>1, <1>3, <1>4

LEMMA OpenOpens ==
    ASSUME NEW wrappers, NEW f, NEW e, NEW o, o.success, NEW c, c = Open
    PROVE  ParseNext(wrappers, At("OutputCharacter", f, e, o), c) = At("OpenBrace", f, e, o)
<1> DEFINE p == At("OutputCharacter", f, e, o)
<1>1. /\ p.state = "OutputCharacter" /\ p.format = f
      /\ OutputCharacter(p, c) = At("OutputCharacter", f, e, OneWritten(o, c))
      /\ ParseNext(wrappers, p, c) = ParseCharacter(wrappers, p, c)
  BY AtIs
<1>2. [p EXCEPT !.state = "OpenBrace"] = At("OpenBrace", f, e, o)
  BY DEF At
<1> HIDE DEF p
<1>3. ParseCharacter(wrappers, p, c) = At("OpenBrace", f, e, o)
  BY <1>1, <1>2, BracesDiffer DEF ParseCharacter
<1> QED BY <1>1, <1>3 DEF p

LEMMA CloseEscapes ==
    ASSUME NEW wrappers, NEW f, NEW e, NEW o, o.success, NEW c, c = Close
    PROVE  ParseNext(wrappers, At("OutputCharacter", f, e, o), c) = At("EscapedCloseBrace", f, e, o)
<1> DEFINE p == At("OutputCharacter", f, e, o)
<1>1. /\ p.state = "OutputCharacter" /\ p.format = f
      /\ OutputCharacter(p, c) = At("OutputCharacter", f, e, OneWritten(o, c))
      /\ ParseNext(wrappers, p, c) = ParseCharacter(wrappers, p, c)
  BY AtIs
<1>2. [p EXCEPT !.state = "EscapedCloseBrace"] = At("EscapedCloseBrace", f, e, o)
  BY DEF At
<1> HIDE DEF p
<1>3. ParseCharacter(wrappers, p, c) = At("EscapedCloseBrace", f, e, o)
  BY <1>1, <1>2, BracesDiffer DEF ParseCharacter
<1> QED BY <1>1, <1>3 DEF p

LEMMA OtherIsWritten ==
    ASSUME NEW wrappers, NEW f, NEW e, NEW o, o.success, NEW c, c # Open, c # Close
    PROVE  ParseNext(wrappers, At("OutputCharacter", f, e, o), c) = At("OutputCharacter", f, e, OneWritten(o, c))
<1> DEFINE p == At("OutputCharacter", f, e, o)
<1>1. /\ p.state = "OutputCharacter" /\ p.format = f
      /\ OutputCharacter(p, c) = At("OutputCharacter", f, e, OneWritten(o, c))
      /\ ParseNext(wrappers, p, c) = ParseCharacter(wrappers, p, c)
  BY AtIs
<1> HIDE DEF p
<1>3. ParseCharacter(wrappers, p, c) = At("OutputCharacter", f, e, OneWritten(o, c))
  BY <1>1, BracesDiffer DEF ParseCharacter
<1> QED BY <1>1, <1>3 DEF p

LEMMA OpenIsWritten ==
    ASSUME NEW wrappers, NEW f, NEW e, NEW o, o.success, NEW c, c = Open
    PROVE  ParseNext(wrappers, At("OpenBrace", f, e, o), c) = At("OutputCharacter", f, e, OneWritten(o, c))
<1> DEFINE p == At("OpenBrace", f, e, o)
<1>1. /\ p.state = "OpenBrace" /\ p.format = f
      /\ OutputCharacter(p, c) = At("OutputCharacter", f, e, OneWritten(o, c))
      /\ ParseNext(wrappers, p, c) = ParseCharacter(wrappers, p, c)
  BY AtIs
<1> HIDE DEF p
<1>3. ParseCharacter(wrappers, p, c) = At("OutputCharacter", f, e, OneWritten(o, c))
  BY <1>1, BracesDiffer DEF ParseCharacter
<1> QED BY <1>1, <1>3 DEF p

LEMMA ColonOpensFormat ==
    ASSUME NEW wrappers, NEW f, NEW e, NEW o, o.success, NEW c, c = ":"
    PROVE  ParseNext(wrappers, At("OpenBrace", f, e, o), c) = At("FormatString", f, e, o)
<1> DEFINE p == At("OpenBrace", f, e, o)
<1>1. /\ p.state = "OpenBrace" /\ p.format = f
      /\ OutputCharacter(p, c) = At("OutputCharacter", f, e, OneWritten(o, c))
      /\ ParseNext(wrappers, p, c) = ParseCharacter(wrappers, p, c)
  BY AtIs
<1>2. [p EXCEPT !.state = "FormatString"] = At("FormatString", f, e, o)
  BY DEF At
<1> HIDE DEF p
<1>3. ParseCharacter(wrappers, p, c) = At("FormatString", f, e, o)
  BY <1>1, <1>2, BracesDiffer DEF ParseCharacter
<1> QED BY <1>1, <1>3 DEF p

LEMMA CloseEndsElement ==
    ASSUME NEW wrappers, NEW f, NEW e, NEW o, o.success, NEW c, c = Close
    PROVE  ParseNext(wrappers, At("OpenBrace", f, e, o), c) = OutputElement(wrappers, At("OpenBrace", f, e, o), "d")
<1> DEFINE p == At("OpenBrace", f, e, o)
<1>1. /\ p.state = "OpenBrace" /\ p.format = f
      /\ OutputCharacter(p, c) = At("OutputCharacter", f, e, OneWritten(o, c))
      /\ ParseNext(wrappers, p, c) = ParseCharacter(wrappers, p, c)
  BY AtIs
<1> HIDE DEF p
<1>3. ParseCharacter(wrappers, p, c) = OutputElement(wrappers, p, "d")
  BY <1>1, BracesDiffer DEF ParseCharacter
<1> QED BY <1>1, <1>3 DEF p

LEMMA OpenSkips ==
    ASSUME NEW wrappers, NEW f, NEW e, NEW o, o.success, NEW c, c # Open, c # ":", c # Close
    PROVE  ParseNext(wrappers, At("OpenBrace", f, e, o), c) = At("OpenBrace", f, e, o)
<1> DEFINE p == At("OpenBrace", f, e, o)
<1>1. /\ p.state = "OpenBrace" /\ p.format = f
      /\ OutputCharacter(p, c) = At("OutputCharacter", f, e, OneWritten(o, c))
      /\ ParseNext(wrappers, p, c) = ParseCharacter(wrappers, p, c)
  BY AtIs
<1> HIDE DEF p
<1>3. ParseCharacter(wrappers, p, c) = p
  BY <1>1, BracesDiffer DEF ParseCharacter
<1> QED BY <1>1, <1>3 DEF p

LEMMA CloseEndsFormat ==
    ASSUME NEW wrappers, NEW f, NEW e, NEW o, o.success, NEW c, c = Close
    PROVE  ParseNext(wrappers, At("FormatString", f, e, o), c) = OutputElement(wrappers, At("FormatString", f, e, o), "d")
<1> DEFINE p == At("FormatString", f, e, o)
<1>1. /\ p.state = "FormatString" /\ p.format = f
      /\ OutputCharacter(p, c) = At("OutputCharacter", f, e, OneWritten(o, c))
      /\ ParseNext(wrappers, p, c) = ParseCharacter(wrappers, p, c)
  BY AtIs
<1> HIDE DEF p
<1>3. ParseCharacter(wrappers, p, c) = OutputElement(wrappers, p, "d")
  BY <1>1, BracesDiffer DEF ParseCharacter
<1> QED BY <1>1, <1>3 DEF p

LEMMA FormatIsKept ==
    ASSUME NEW wrappers, NEW f, NEW e, NEW o, o.success, NEW c, c # Close
    PROVE  ParseNext(wrappers, At("FormatString", f, e, o), c) = At("CloseBrace", c, e, o)
<1> DEFINE p == At("FormatString", f, e, o)
<1>1. /\ p.state = "FormatString" /\ p.format = f
      /\ OutputCharacter(p, c) = At("OutputCharacter", f, e, OneWritten(o, c))
      /\ ParseNext(wrappers, p, c) = ParseCharacter(wrappers, p, c)
  BY AtIs
<1>2. [p EXCEPT !.format = c, !.state = "CloseBrace"] = At("CloseBrace", c, e, o)
  <2> DEFINE r == [p EXCEPT !.format = c, !.state = "CloseBrace"]
  <2>1. r \in [state : {"CloseBrace"}, format : {c}, element : {e}, output : {o}]
    BY DEF At
  <2> HIDE DEF r
  <2>2. r = [state |-> "CloseBrace", format |-> c, element |-> e, output |-> o]
    BY <2>1
  <2> QED BY <2>2 DEF At, r
<1> HIDE DEF p
<1>3. ParseCharacter(wrappers, p, c) = At("CloseBrace", c, e, o)
  BY <1>1, <1>2, BracesDiffer DEF ParseCharacter
<1> QED BY <1>1, <1>3 DEF p

LEMMA CloseEndsFormatted ==
    ASSUME NEW wrappers, NEW f, NEW e, NEW o, o.success, NEW c, c = Close
    PROVE  ParseNext(wrappers, At("CloseBrace", f, e, o), c) = OutputElement(wrappers, At("CloseBrace", f, e, o), f)
<1> DEFINE p == At("CloseBrace", f, e, o)
<1>1. /\ p.state = "CloseBrace" /\ p.format = f
      /\ OutputCharacter(p, c) = At("OutputCharacter", f, e, OneWritten(o, c))
      /\ ParseNext(wrappers, p, c) = ParseCharacter(wrappers, p, c)
  BY AtIs
<1> HIDE DEF p
<1>3. ParseCharacter(wrappers, p, c) = OutputElement(wrappers, p, f)
  BY <1>1, BracesDiffer DEF ParseCharacter
<1> QED BY <1>1, <1>3 DEF p

LEMMA FormattedSkips ==
    ASSUME NEW wrappers, NEW f, NEW e, NEW o, o.success, NEW c, c # Close
    PROVE  ParseNext(wrappers, At("CloseBrace", f, e, o), c) = At("CloseBrace", f, e, o)
<1> DEFINE p == At("CloseBrace", f, e, o)
<1>1. /\ p.state = "CloseBrace" /\ p.format = f
      /\ OutputCharacter(p, c) = At("OutputCharacter", f, e, OneWritten(o, c))
      /\ ParseNext(wrappers, p, c) = ParseCharacter(wrappers, p, c)
  BY AtIs
<1> HIDE DEF p
<1>3. ParseCharacter(wrappers, p, c) = p
  BY <1>1, BracesDiffer DEF ParseCharacter
<1> QED BY <1>1, <1>3 DEF p

LEMMA CloseIsWritten ==
    ASSUME NEW wrappers, NEW f, NEW e, NEW o, o.success, NEW c, c = Close
    PROVE  ParseNext(wrappers, At("EscapedCloseBrace", f, e, o), c) = At("OutputCharacter", f, e, OneWritten(o, c))
<1> DEFINE p == At("EscapedCloseBrace", f, e, o)
<1>1. /\ p.state = "EscapedCloseBrace" /\ p.format = f
      /\ OutputCharacter(p, c) = At("OutputCharacter", f, e, OneWritten(o, c))
      /\ ParseNext(wrappers, p, c) = ParseCharacter(wrappers, p, c)
  BY AtIs
<1> HIDE DEF p
<1>3. ParseCharacter(wrappers, p, c) = At("OutputCharacter", f, e, OneWritten(o, c))
  BY <1>1, BracesDiffer DEF ParseCharacter
<1> QED BY <1>1, <1>3 DEF p

LEMMA EscapeSkips ==
    ASSUME NEW wrappers, NEW f, NEW e, NEW o, o.success, NEW c, c # Close
    PROVE  ParseNext(wrappers, At("EscapedCloseBrace", f, e, o), c) = At("EscapedCloseBrace", f, e, o)
<1> DEFINE p == At("EscapedCloseBrace", f, e, o)
<1>1. /\ p.state = "EscapedCloseBrace" /\ p.format = f
      /\ OutputCharacter(p, c) = At("OutputCharacter", f, e, OneWritten(o, c))
      /\ ParseNext(wrappers, p, c) = ParseCharacter(wrappers, p, c)
  BY AtIs
<1> HIDE DEF p
<1>3. ParseCharacter(wrappers, p, c) = p
  BY <1>1, BracesDiffer DEF ParseCharacter
<1> QED BY <1>1, <1>3 DEF p

\* An element is written the same way from every state.
ElementOutput(wrappers, element, output, format) ==
    OutputElement(wrappers, At("OutputCharacter", "d", element, output), format).output

LEMMA ElementIs ==
    ASSUME NEW wrappers, NEW s, NEW f, NEW e, NEW o, NEW format
    PROVE  OutputElement(wrappers, At(s, f, e, o), format)
             = At("OutputCharacter", "d", e + 1, ElementOutput(wrappers, e, o, format))
<1>1. /\ At(s, f, e, o).element = e /\ At(s, f, e, o).output = o
      /\ At("OutputCharacter", "d", e, o).element = e /\ At("OutputCharacter", "d", e, o).output = o
  BY DEF At
<1>2. OutputElement(wrappers, At(s, f, e, o), format)
        = OutputElement(wrappers, At("OutputCharacter", "d", e, o), format)
  BY <1>1 DEF OutputElement
<1>3. OutputElement(wrappers, At("OutputCharacter", "d", e, o), format)
        = At("OutputCharacter", "d", e + 1, ElementOutput(wrappers, e, o, format))
  BY <1>1 DEF OutputElement, ElementOutput, At
<1> QED BY <1>2, <1>3

\* What is parsed from "at" on, where x is.
ParsedAt(g, wrappers, x, at) ==
    \A i \in 1 .. Len(x) : g[at + i] = ParseNext(wrappers, g[at + i - 1], x[i])

LEMMA ParsedStored ==
    ASSUME NEW wrappers, NEW format, NEW output, NEW N \in Nat, Len(format) = N,
           NEW g, Parsed(g, wrappers, format, output, N),
           NEW at \in Nat, NEW x, Len(x) \in Nat, Stored(format, at, x)
    PROVE  ParsedAt(g, wrappers, x, at)
<1>1. ASSUME NEW i \in 1 .. Len(x) PROVE g[at + i] = ParseNext(wrappers, g[at + i - 1], x[i])
  <2>1. at + i \in 1 .. N /\ format[at + i] = x[i]
    BY DEF Stored
  <2> QED BY <2>1 DEF Parsed
<1> QED BY <1>1 DEF ParsedAt

Skipped(wrappers, q, x, first, last) ==
    \A i \in first + 1 .. last : ParseNext(wrappers, q, x[i]) = q

Stays(g, wrappers, x, at, q, first, last) ==
    /\ Len(x) \in Nat /\ at \in Nat /\ ParsedAt(g, wrappers, x, at)
    /\ last \in 0 .. Len(x) /\ first \in 0 .. last /\ g[at + first] = q
    /\ Skipped(wrappers, q, x, first, last)

LEMMA ParsedStays ==
    ASSUME NEW g, NEW wrappers, NEW x, NEW at, NEW q, NEW first, NEW last,
           Stays(g, wrappers, x, at, q, first, last)
    PROVE  g[at + last] = q
<1> USE DEF Stays
<1> DEFINE N == last - first
           T == {n \in 0 .. N : g[at + (first + n)] = q}
<1>1. N \in Nat /\ first + N = last /\ first + 0 = first
  OBVIOUS
<1>2. 0 \in T
  BY <1>1
<1>3. ASSUME NEW n \in 0 .. N - 1, n \in T PROVE n + 1 \in T
  <2>1. /\ first + (n + 1) \in first + 1 .. last /\ first + (n + 1) \in 1 .. Len(x)
        /\ at + (first + (n + 1)) - 1 = at + (first + n) /\ n + 1 \in 0 .. N
    OBVIOUS
  <2> DEFINE i == first + (n + 1)
  <2>2. g[at + i] = ParseNext(wrappers, g[at + i - 1], x[i])
    BY <2>1 DEF ParsedAt
  <2>3. g[at + i - 1] = q
    BY <1>3, <2>1
  <2>4. ParseNext(wrappers, q, x[i]) = q
    BY <2>1 DEF Skipped
  <2> QED BY <2>1, <2>2, <2>3, <2>4
<1> HIDE DEF T
<1> HIDE DEF N
<1>4. \A n \in 0 .. N : n \in T
  BY <1>1, <1>2, <1>3, NumberInduction
<1>5. g[at + (first + N)] = q
  BY <1>1, <1>4 DEF T
<1> QED BY <1>1, <1>5
Ready(g, wrappers, x, at, f, e, o) ==
    /\ at \in Nat /\ ParsedAt(g, wrappers, x, at)
    /\ o.success /\ g[at] = At("OutputCharacter", f, e, o)

Sourced(x, piece) == x = piece.source

LEMMA SingleIs == ASSUME NEW S, NEW x \in Seq(S), Len(x) = 1 PROVE x = << x[1] >>
  OBVIOUS

\* A text is written, character or brace.
LEMMA TextParsed ==
    ASSUME NEW g, NEW wrappers, NEW at \in Nat, NEW piece, IsText(piece), NEW x, Sourced(x, piece),
           NEW f, NEW e, NEW o, Ready(g, wrappers, x, at, f, e, o)
    PROVE  g[at + Len(x)] = At("OutputCharacter", f, e, WriteText(o, piece.text))
<1> USE DEF Ready, Sourced
<1> DEFINE last == Len(x)
<1>1. /\ x \in Seq(Characters) /\ Len(x) \in Nat /\ last \in Nat
      /\ \/ last = 1 /\ x[1] \notin {Open, Close} /\ piece.text = x
         \/ /\ last > 1 /\ x[1] = Open /\ x[last] = Open /\ piece.text = << Open >>
            /\ Without(x, 2, last - 1, {Open, ":", Close})
         \/ /\ last > 1 /\ x[1] = Close /\ x[last] = Close /\ piece.text = << Close >>
            /\ Without(x, 2, last - 1, {Close})
  BY DEF IsText
<1>2. \A i \in 1 .. last : g[at + i] = ParseNext(wrappers, g[at + i - 1], x[i])
  BY DEF ParsedAt
<1> HIDE DEF last
<1>3. \A i \in 1 .. last : last = Len(x) /\ i - 1 \in 0 .. Len(x) /\ at + i - 1 = at + (i - 1)
  BY <1>1 DEF last
<1>4. ASSUME last = 1, x[1] \notin {Open, Close}, piece.text = x
      PROVE  g[at + last] = At("OutputCharacter", f, e, WriteText(o, piece.text))
  <2>1. 1 \in 1 .. last /\ at + 1 - 1 = at
    BY <1>4
  <2>2. g[at + 1] = ParseNext(wrappers, At("OutputCharacter", f, e, o), x[1])
    BY <1>2, <2>1
  <2>3. x = << x[1] >>
    BY <1>1, <1>4, SingleIs DEF last
  <2>4. g[at + 1] = At("OutputCharacter", f, e, OneWritten(o, x[1]))
    BY <1>4, <2>2, OtherIsWritten
  <2> QED BY <1>4, <2>3, <2>4 DEF OneWritten
<1>5. ASSUME NEW c, NEW q, last > 1, x[1] = c, x[last] = c, piece.text = << c >>,
             ParseNext(wrappers, At("OutputCharacter", f, e, o), c) = q,
             \A i \in 2 .. last - 1 : ParseNext(wrappers, q, x[i]) = q,
             ParseNext(wrappers, q, c) = At("OutputCharacter", f, e, OneWritten(o, c))
      PROVE  g[at + last] = At("OutputCharacter", f, e, WriteText(o, piece.text))
  <2>1. /\ 1 \in 1 .. last /\ last \in 1 .. last /\ at + 1 - 1 = at
        /\ last - 1 \in 0 .. Len(x) /\ 1 \in 0 .. last - 1 /\ 1 + 1 = 2
        /\ at + last - 1 = at + (last - 1)
    BY <1>1, <1>3, <1>5
  <2>2. g[at + 1] = q
    BY <1>2, <1>5, <2>1
  <2> DEFINE l == last - 1
             m == 1
  <2>3. /\ l \in 0 .. Len(x) /\ m \in 0 .. l /\ g[at + m] = q
        /\ Skipped(wrappers, q, x, m, l)
    BY <1>5, <2>1, <2>2 DEF Skipped
  <2> HIDE DEF l, m
  <2>4. g[at + l] = q
    <3>1. Stays(g, wrappers, x, at, q, m, l)
      BY <1>1, <2>3 DEF Stays
    <3> QED BY <3>1, ParsedStays
  <2>5. g[at + last] = ParseNext(wrappers, g[at + l], x[last])
    BY <1>2, <2>1 DEF l
  <2> QED BY <1>5, <2>4, <2>5 DEF OneWritten
<1>6. ASSUME last > 1, x[1] = Open, x[last] = Open, piece.text = << Open >>,
             Without(x, 2, last - 1, {Open, ":", Close})
      PROVE  g[at + last] = At("OutputCharacter", f, e, WriteText(o, piece.text))
  <2> DEFINE q == At("OpenBrace", f, e, o)
  <2>1. ParseNext(wrappers, At("OutputCharacter", f, e, o), Open) = q
    BY OpenOpens
  <2>2. ParseNext(wrappers, q, Open) = At("OutputCharacter", f, e, OneWritten(o, Open))
    BY OpenIsWritten
  <2>3. \A i \in 2 .. last - 1 : x[i] # Open /\ x[i] # ":" /\ x[i] # Close
    BY <1>6 DEF Without
  <2>4. \A i \in 2 .. last - 1 : ParseNext(wrappers, q, x[i]) = q
    BY <2>3, OpenSkips
  <2> HIDE DEF q
  <2> QED BY <1>5, <1>6, <2>1, <2>2, <2>4
<1>7. ASSUME last > 1, x[1] = Close, x[last] = Close, piece.text = << Close >>,
             Without(x, 2, last - 1, {Close})
      PROVE  g[at + last] = At("OutputCharacter", f, e, WriteText(o, piece.text))
  <2> DEFINE q == At("EscapedCloseBrace", f, e, o)
  <2>1. ParseNext(wrappers, At("OutputCharacter", f, e, o), Close) = q
    BY CloseEscapes
  <2>2. ParseNext(wrappers, q, Close) = At("OutputCharacter", f, e, OneWritten(o, Close))
    BY CloseIsWritten
  <2>3. \A i \in 2 .. last - 1 : x[i] # Close
    BY <1>7 DEF Without
  <2>4. \A i \in 2 .. last - 1 : ParseNext(wrappers, q, x[i]) = q
    BY <2>3, EscapeSkips
  <2> HIDE DEF q
  <2> QED BY <1>5, <1>7, <2>1, <2>2, <2>4
<1> QED BY <1>1, <1>4, <1>6, <1>7 DEF last

\* An element is written, in the format that is given for it.
LEMMA ElementParsed ==
    ASSUME NEW g, NEW wrappers, NEW at \in Nat, NEW piece, IsElement(piece), NEW x, Sourced(x, piece),
           NEW f, NEW e, NEW o, Ready(g, wrappers, x, at, f, e, o)
    PROVE  g[at + Len(x)] = At("OutputCharacter", "d", e + 1,
                               ElementOutput(wrappers, e, o, piece.format))
<1> USE DEF Ready, Sourced
<1> DEFINE last == Len(x)
           r(format) == At("OutputCharacter", "d", e + 1, ElementOutput(wrappers, e, o, format))
<1>1. /\ x \in Seq(Characters) /\ Len(x) \in Nat /\ last \in Nat /\ last = Len(x)
      /\ last > 1 /\ x[1] = Open /\ x[last] = Close
      /\ \/ piece.format = "d" /\ Without(x, 2, last - 1, {Open, ":", Close})
         \/ \E k \in 2 .. last - 1 :
              /\ IsColon(x, k) /\ Without(x, k + 1, last - 1, {Close})
              /\ piece.format = IF k + 1 = last THEN "d" ELSE x[k + 1]
  <2>1. x \in Seq(Characters)
    BY DEF IsElement
  <2>2. Len(x) \in Nat
    BY <2>1
  <2> QED BY <2>1, <2>2, Zenon DEF IsElement
<1>2. \A i \in 1 .. last : g[at + i] = ParseNext(wrappers, g[at + i - 1], x[i])
  BY DEF ParsedAt
<1> HIDE DEF last
<1> DEFINE q == At("OpenBrace", f, e, o)
           s == At("FormatString", f, e, o)
<1>3. g[at + 1] = q
  <2>1. 1 \in 1 .. last /\ at + 1 - 1 = at
    BY <1>1
  <2>2. ParseNext(wrappers, At("OutputCharacter", f, e, o), Open) = q
    BY OpenOpens
  <2> HIDE DEF q
  <2> QED BY <1>1, <1>2, <2>1, <2>2
<1>4. ASSUME NEW l \in 1 .. last - 1, Without(x, 2, l, {Open, ":", Close})
      PROVE  g[at + l] = q
  <2>1. \A i \in 2 .. l : x[i] # Open /\ x[i] # ":" /\ x[i] # Close
    BY <1>4 DEF Without
  <2>2. \A i \in 2 .. l : ParseNext(wrappers, q, x[i]) = q
    BY <2>1, OpenSkips
  <2> DEFINE m == 1
  <2>3. /\ l \in 0 .. Len(x) /\ m \in 0 .. l /\ g[at + m] = q
        /\ Skipped(wrappers, q, x, m, l)
    BY <1>1, <1>3, <2>2 DEF Skipped
  <2> HIDE DEF q, m
  <2>4. Stays(g, wrappers, x, at, q, m, l)
    BY <1>1, <2>3 DEF Stays
  <2> QED BY <2>4, ParsedStays
<1>5. \A i \in 1 .. last - 1 : /\ i + 1 \in 1 .. last /\ at + (i + 1) - 1 = at + i
                              /\ g[at + (i + 1)] = ParseNext(wrappers, g[at + i], x[i + 1])
  <2>1. \A i \in 1 .. last - 1 : i + 1 \in 1 .. last /\ at + (i + 1) - 1 = at + i
    BY <1>1
  <2> QED BY <1>2, <2>1
<1>6. last - 1 \in 1 .. last - 1 /\ (last - 1) + 1 = last
  BY <1>1
<1>7. ASSUME piece.format = "d", Without(x, 2, last - 1, {Open, ":", Close})
      PROVE  g[at + last] = r(piece.format)
  <2>1. g[at + last] = ParseNext(wrappers, q, Close)
    BY <1>1, <1>4, <1>5, <1>6, <1>7
  <2>2. ParseNext(wrappers, q, Close) = r("d")
    BY CloseEndsElement, ElementIs
  <2> HIDE DEF q, r
  <2> QED BY <1>7, <2>1, <2>2
<1>8. ASSUME NEW k \in 2 .. last - 1, IsColon(x, k), Without(x, k + 1, last - 1, {Close}),
             piece.format = IF k + 1 = last THEN "d" ELSE x[k + 1]
      PROVE  g[at + last] = r(piece.format)
  <2>1. x[k] = ":" /\ Without(x, 2, k - 1, {Open, ":", Close})
    BY <1>8 DEF IsColon
  <2>2. k - 1 \in 1 .. last - 1 /\ (k - 1) + 1 = k /\ k \in 1 .. last - 1
    BY <1>1
  <2>3. g[at + k] = s
    <3>1. g[at + k] = ParseNext(wrappers, q, ":")
      BY <1>4, <1>5, <2>1, <2>2
    <3>2. ParseNext(wrappers, q, ":") = s
      BY ColonOpensFormat
    <3> HIDE DEF q, s
    <3> QED BY <3>1, <3>2
  <2>4. ASSUME k + 1 = last PROVE g[at + last] = r(piece.format)
    <3>1. g[at + last] = ParseNext(wrappers, s, Close) /\ piece.format = "d"
      BY <1>1, <1>5, <1>8, <2>2, <2>3, <2>4
    <3>2. ParseNext(wrappers, s, Close) = r("d")
      BY CloseEndsFormat, ElementIs
    <3> HIDE DEF s, r
    <3> QED BY <3>1, <3>2
  <2>5. ASSUME k + 1 # last PROVE g[at + last] = r(piece.format)
    <3> DEFINE c == x[k + 1]
               t == At("CloseBrace", c, e, o)
    <3>1. /\ k + 1 \in k + 1 .. last - 1 /\ k + 1 \in 0 .. last - 1 /\ last - 1 \in 0 .. Len(x)
          /\ \A i \in (k + 1) + 1 .. last - 1 : i \in k + 1 .. last - 1
      BY <1>1, <2>5
    <3>2. \A i \in k + 1 .. last - 1 : x[i] # Close
      BY <1>8 DEF Without
    <3>3. g[at + (k + 1)] = t
      <4>1. g[at + (k + 1)] = ParseNext(wrappers, s, c) /\ c # Close
        BY <1>5, <2>2, <2>3, <3>1, <3>2
      <4>2. ParseNext(wrappers, s, c) = t
        <5> HIDE DEF c
        <5> QED BY <4>1, FormatIsKept
      <4> HIDE DEF s, t
      <4> QED BY <4>1, <4>2
    <3>4. \A i \in (k + 1) + 1 .. last - 1 : ParseNext(wrappers, t, x[i]) = t
      <4> HIDE DEF c
      <4> QED BY <3>1, <3>2, FormattedSkips
    <3>5. ParseNext(wrappers, t, Close) = r(c)
      <4> HIDE DEF c
      <4> QED BY CloseEndsFormatted, ElementIs
    <3>6. piece.format = c
      BY <1>8, <2>5
    <3> HIDE DEF c, t, r
    <3> DEFINE l == last - 1
               m == k + 1
    <3>7. /\ l \in 0 .. Len(x) /\ m \in 0 .. l /\ g[at + m] = t
          /\ Skipped(wrappers, t, x, m, l)
      BY <3>1, <3>3, <3>4 DEF Skipped
    <3>8. g[at + last] = ParseNext(wrappers, g[at + l], Close)
      BY <1>1, <1>5, <1>6
    <3> HIDE DEF l, m
    <3>9. g[at + l] = t
      <4>1. Stays(g, wrappers, x, at, t, m, l)
        BY <1>1, <3>7 DEF Stays
      <4> QED BY <4>1, ParsedStays
    <3> QED BY <3>5, <3>6, <3>8, <3>9
  <2> QED BY <2>4, <2>5
<1> HIDE DEF q, s
<1> QED BY <1>1, <1>7, <1>8

\* What breaks off is not written.
LEMMA TailParsed ==
    ASSUME NEW g, NEW wrappers, NEW at \in Nat, NEW x, IsUnfinished(x),
           NEW f, NEW e, NEW o, Ready(g, wrappers, x, at, f, e, o)
    PROVE  g[at + Len(x)].output = o
<1> USE DEF Ready
<1> DEFINE last == Len(x)
           q == At("OpenBrace", f, e, o)
           s == At("FormatString", f, e, o)
           u == At("EscapedCloseBrace", f, e, o)
<1>1. /\ x \in Seq(Characters) /\ Len(x) \in Nat /\ last \in Nat /\ last = Len(x)
      /\ \/ last = 0
         \/ last > 0 /\ x[1] = Close /\ Without(x, 2, last, {Close})
         \/ last > 0 /\ x[1] = Open /\ Without(x, 2, last, {Open, ":", Close})
         \/ /\ last > 0 /\ x[1] = Open
            /\ \E k \in 2 .. last : IsColon(x, k) /\ Without(x, k + 1, last, {Close})
  <2>1. x \in Seq(Characters)
    BY DEF IsUnfinished
  <2>2. Len(x) \in Nat
    BY <2>1
  <2> QED BY <2>1, <2>2, Zenon DEF IsUnfinished
<1>2. \A i \in 1 .. last : g[at + i] = ParseNext(wrappers, g[at + i - 1], x[i])
  BY DEF ParsedAt
<1>3. \A t, h : At(t, h, e, o).output = o
  BY DEF At
<1> HIDE DEF last
<1>4. Len(x) \in Nat /\ last = Len(x) /\ at + 0 = at
  BY <1>1
<1>5. \A i \in 0 .. last - 1 : /\ i + 1 \in 1 .. last /\ at + (i + 1) - 1 = at + i
                              /\ g[at + (i + 1)] = ParseNext(wrappers, g[at + i], x[i + 1])
  <2>1. \A i \in 0 .. last - 1 : i + 1 \in 1 .. last /\ at + (i + 1) - 1 = at + i
    BY <1>1
  <2> QED BY <1>2, <2>1
<1>6. last > 0 => 1 \in 1 .. last /\ at + 1 - 1 = at /\ 1 \in 0 .. last
  BY <1>1
<1> HIDE DEF q, s, u
<1>7. ASSUME NEW m \in 0 .. last, NEW t, g[at + m] = t, t.output = o,
             \A i \in m + 1 .. last : ParseNext(wrappers, t, x[i]) = t
      PROVE  g[at + Len(x)].output = o
  <2>1. m \in 0 .. last /\ last \in 0 .. Len(x) /\ Skipped(wrappers, t, x, m, last)
    BY <1>1, <1>7 DEF Skipped
  <2>2. g[at + last] = t
    <3>1. Stays(g, wrappers, x, at, t, m, last)
      BY <1>4, <1>7, <2>1 DEF Stays
    <3> QED BY <3>1, ParsedStays
  <2> QED BY <1>4, <1>7, <2>2
<1>8. CASE last = 0
  BY <1>3, <1>4, <1>8
<1>9. ASSUME last > 0, x[1] = Close, Without(x, 2, last, {Close})
      PROVE  g[at + Len(x)].output = o
  <2>1. ParseNext(wrappers, At("OutputCharacter", f, e, o), Close) = u
    BY CloseEscapes DEF u
  <2>2. g[at + 1] = u
    BY <1>2, <1>6, <1>9, <2>1
  <2>3. \A i \in 2 .. last : x[i] # Close
    BY <1>9 DEF Without
  <2>4. \A i \in 2 .. last : ParseNext(wrappers, u, x[i]) = u
    BY <2>3, EscapeSkips DEF u
  <2>5. u.output = o
    BY <1>3 DEF u
  <2>6. 1 \in 0 .. last /\ \A i \in 1 + 1 .. last : ParseNext(wrappers, u, x[i]) = u
    BY <1>6, <1>9, <2>4
  <2> QED BY <1>7, <2>2, <2>5, <2>6
<1>10. ASSUME last > 0, x[1] = Open PROVE g[at + 1] = q
  <2>1. ParseNext(wrappers, At("OutputCharacter", f, e, o), Open) = q
    BY OpenOpens DEF q
  <2> QED BY <1>2, <1>6, <1>10, <2>1
<1>11. q.output = o /\ s.output = o
  BY <1>3 DEF q, s
<1>12. ASSUME last > 0, x[1] = Open, Without(x, 2, last, {Open, ":", Close})
       PROVE  g[at + Len(x)].output = o
  <2>1. \A i \in 2 .. last : x[i] # Open /\ x[i] # ":" /\ x[i] # Close
    BY <1>12 DEF Without
  <2>2. \A i \in 2 .. last : ParseNext(wrappers, q, x[i]) = q
    BY <2>1, OpenSkips DEF q
  <2>3. 1 \in 0 .. last /\ \A i \in 1 + 1 .. last : ParseNext(wrappers, q, x[i]) = q
    BY <1>6, <1>12, <2>2
  <2> QED BY <1>7, <1>10, <1>11, <1>12, <2>3
<1>13. ASSUME last > 0, x[1] = Open,
              NEW k \in 2 .. last, IsColon(x, k), Without(x, k + 1, last, {Close})
       PROVE  g[at + Len(x)].output = o
  <2>1. x[k] = ":" /\ Without(x, 2, k - 1, {Open, ":", Close})
    BY <1>13 DEF IsColon
  <2>2. \A i \in 2 .. k - 1 : x[i] # Open /\ x[i] # ":" /\ x[i] # Close
    BY <2>1 DEF Without
  <2>3. \A i \in 2 .. k - 1 : ParseNext(wrappers, q, x[i]) = q
    BY <2>2, OpenSkips DEF q
  <2> DEFINE l == k - 1
             m == 1
  <2>4. /\ l \in 0 .. Len(x) /\ m \in 0 .. l /\ g[at + m] = q /\ l \in 0 .. last - 1 /\ l + 1 = k
        /\ Skipped(wrappers, q, x, m, l)
    BY <1>1, <1>10, <1>13, <2>3 DEF Skipped
  <2> HIDE DEF l, m
  <2>5. g[at + l] = q
    <3>1. Stays(g, wrappers, x, at, q, m, l)
      BY <1>4, <2>4 DEF Stays
    <3> QED BY <3>1, ParsedStays
  <2>6. ParseNext(wrappers, q, ":") = s
    BY ColonOpensFormat DEF q, s
  <2>7. g[at + k] = s
    BY <1>5, <2>1, <2>4, <2>5, <2>6
  <2>8. \A i \in k + 1 .. last : x[i] # Close
    BY <1>13 DEF Without
  <2>9. CASE k = last
    BY <1>4, <1>11, <2>7, <2>9
  <2>10. CASE k # last
    <3> DEFINE c == x[k + 1]
               t == At("CloseBrace", c, e, o)
    <3>1. k \in 0 .. last - 1 /\ k + 1 \in k + 1 .. last /\ k + 1 \in 0 .. last
          /\ \A i \in (k + 1) + 1 .. last : i \in k + 1 .. last
      BY <1>1, <2>10
    <3>2. c # Close
      BY <2>8, <3>1
    <3> HIDE DEF c
    <3>3. ParseNext(wrappers, s, c) = t
      BY <3>2, FormatIsKept DEF s
    <3>4. g[at + (k + 1)] = t
      BY <1>5, <2>7, <3>1, <3>3 DEF c
    <3>5. \A i \in (k + 1) + 1 .. last : ParseNext(wrappers, t, x[i]) = t
      BY <2>8, <3>1, FormattedSkips
    <3>6. t.output = o
      BY <1>3
    <3> HIDE DEF t
    <3> QED BY <1>7, <3>1, <3>4, <3>5, <3>6
  <2> QED BY <2>9, <2>10
<1> QED BY <1>1, <1>8, <1>9, <1>12, <1>13

\* Nothing more is written when the output has failed.
LEMMA FailedParsed ==
    ASSUME NEW g, NEW wrappers, NEW at \in Nat, NEW x, Len(x) \in Nat, ParsedAt(g, wrappers, x, at),
           NEW q, g[at] = q, ~q.output.success
    PROVE  g[at + Len(x)] = q
<1>1. \A c : ParseNext(wrappers, q, c) = q
  BY DEF ParseNext
<1>2. at + 0 = at
  OBVIOUS
<1>3. Stays(g, wrappers, x, at, q, 0, Len(x))
  BY <1>1, <1>2 DEF Stays, Skipped
<1> QED BY <1>3, ParsedStays

(***************************************************************************)
(* Elements.                                                               *)
(***************************************************************************)
Wrapper(formats) == [writes : [formats -> Seq(Characters)], reports : BOOLEAN]

Wrappers(formats) == Seq(Wrapper(formats))

ElementText(wrappers, element, format) ==
    IF element < Len(wrappers) THEN wrappers[element + 1].writes[format] ELSE Placeholder(element)

LEMMA ElementTextType ==
    ASSUME NEW formats, NEW wrappers \in Wrappers(formats), NEW e \in Nat, NEW format \in formats
    PROVE  ElementText(wrappers, e, format) \in Seq(Characters)
<1>1. CASE e < Len(wrappers)
  <2>1. e + 1 \in 1 .. Len(wrappers)
    BY <1>1 DEF Wrappers
  <2>2. wrappers[e + 1] \in Wrapper(formats)
    BY <2>1 DEF Wrappers
  <2> QED BY <1>1, <2>2 DEF ElementText, Wrapper
<1>2. CASE ~(e < Len(wrappers))
  <2>1. OutputInteger(e, "d") \in Seq(Characters)
    BY OutputIntegerIs, BracesDiffer
  <2>2. << Open >> \in Seq(Characters) /\ << Close >> \in Seq(Characters)
    BY BracesDiffer
  <2>3. << Open >> \o OutputInteger(e, "d") \in Seq(Characters)
    BY <2>1, <2>2, Lists!ConcatProperties
  <2>4. << Open >> \o OutputInteger(e, "d") \o << Close >> \in Seq(Characters)
    BY <2>2, <2>3, Lists!ConcatProperties
  <2> QED BY <1>2, <2>4 DEF ElementText, Placeholder
<1> QED BY <1>1, <1>2

LEMMA ElementShows ==
    ASSUME NEW size \in OutputSizes, NEW formats, NEW wrappers \in Wrappers(formats),
           NEW e \in Nat, NEW format \in formats, NEW o, NEW m, OutputShows(o, size, m)
    PROVE  OutputShows(ElementOutput(wrappers, e, o, format), size,
                       m \o ElementText(wrappers, e, format))
<1> DEFINE t == ElementText(wrappers, e, format)
           w == WriteText(o, t)
           p == At("OutputCharacter", "d", e, o)
           wrapper == wrappers[e + 1]
<1>1. OutputShows(w, size, m \o t)
  <2>1. t \in Seq(Characters)
    BY ElementTextType
  <2> HIDE DEF t
  <2> QED BY <2>1, WriteShows
<1>2. p.element = e /\ p.output = o
  BY DEF At
<1>3. CASE e < Len(wrappers)
  <2>1. t = wrapper.writes[format]
    BY <1>3 DEF ElementText
  <2>2. e + 1 \in 1 .. Len(wrappers)
    BY <1>3 DEF Wrappers
  <2>3. wrapper.reports \in BOOLEAN
    <3>1. wrapper \in Wrapper(formats)
      BY <2>2 DEF Wrappers
    <3> HIDE DEF wrapper
    <3> QED BY <3>1 DEF Wrapper
  <2> DEFINE v == [w EXCEPT !.success = w.success \/ ~wrapper.reports]
  <2>4. ElementOutput(wrappers, e, o, format) = v
    <3> HIDE DEF t
    <3> QED BY <1>2, <1>3, <2>1 DEF ElementOutput, OutputElement
  <2>5. w \in Outputs(size) /\ w.written = Fitting(size, m \o t)
    BY <1>1 DEF OutputShows
  <2> HIDE DEF w, t, wrapper
  <2>6. v \in Outputs(size) /\ v.written = w.written /\ (~v.success => ~w.success)
    BY <2>3, <2>5 DEF Outputs
  <2> HIDE DEF v
  <2>7. OutputShows(v, size, m \o t)
    BY <1>1, <2>6 DEF OutputShows
  <2> QED BY <2>4, <2>7 DEF t
<1>4. CASE ~(e < Len(wrappers))
  <2>1. t = Placeholder(e)
    BY <1>4 DEF ElementText
  <2>2. ElementOutput(wrappers, e, o, format) = w
    <3> HIDE DEF t
    <3> QED BY <1>2, <1>4, <2>1 DEF ElementOutput, OutputElement
  <2> QED BY <1>1, <2>2
<1> QED BY <1>3, <1>4

\* How many of the first n pieces are elements.
ElementsUpTo(pieces, n) == Cardinality({j \in 1 .. n : pieces[j].stands = "element"})

LEMMA ElementsAre ==
    ASSUME NEW pieces
    PROVE  /\ \A n \in Nat : ElementsUpTo(pieces, n) \in Nat
           /\ ElementsUpTo(pieces, 0) = 0
           /\ \A n \in Nat : ElementsUpTo(pieces, n + 1)
                = ElementsUpTo(pieces, n) + IF pieces[n + 1].stands = "element" THEN 1 ELSE 0
<1> DEFINE E(n) == {j \in 1 .. n : pieces[j].stands = "element"}
<1>1. ASSUME NEW n \in Nat PROVE IsFiniteSet(E(n)) /\ Cardinality(E(n)) \in Nat
  <2>1. IsFiniteSet(1 .. n)
    BY FS_Interval
  <2>2. IsFiniteSet(E(n))
    BY <2>1, FS_Subset
  <2> QED BY <2>2, FS_CardinalityType
<1>2. E(0) = {}
  OBVIOUS
<1>3. Cardinality({}) = 0
  BY FS_EmptySet
<1>4. ASSUME NEW n \in Nat
      PROVE  Cardinality(E(n + 1)) = Cardinality(E(n)) + IF pieces[n + 1].stands = "element" THEN 1 ELSE 0
  <2>1. 1 .. n + 1 = (1 .. n) \union {n + 1} /\ n + 1 \notin 1 .. n
    OBVIOUS
  <2>2. CASE pieces[n + 1].stands = "element"
    <3>1. E(n + 1) = E(n) \union {n + 1} /\ n + 1 \notin E(n)
      BY <2>1, <2>2
    <3> HIDE DEF E
    <3>2. Cardinality(E(n + 1)) = Cardinality(E(n)) + 1
      BY <1>1, <3>1, FS_AddElement
    <3> QED BY <2>2, <3>2
  <2>3. CASE pieces[n + 1].stands # "element"
    <3>1. E(n + 1) = E(n)
      BY <2>1, <2>3
    <3> HIDE DEF E
    <3> QED BY <1>1, <2>3, <3>1
  <2> QED BY <2>2, <2>3
<1> QED BY <1>1, <1>2, <1>3, <1>4 DEF ElementsUpTo

(***************************************************************************)
(* Pieces.                                                                 *)
(***************************************************************************)
\* Between pieces: a text was written, and so many elements were.
Boundary(parse, size, text, elements) ==
    /\ OutputShows(parse.output, size, text)
    /\ parse.output.success => parse = At("OutputCharacter", "d", elements, parse.output)

\* What a piece stands for, behind so many elements.
PieceText(piece, wrappers, elements) ==
    IF piece.stands = "text" THEN piece.text ELSE ElementText(wrappers, elements, piece.format)

IsPiece(piece, formats) == IsText(piece) \/ (IsElement(piece) /\ piece.format \in formats)

LEMMA PieceIs ==
    ASSUME NEW formats, NEW piece, IsPiece(piece, formats)
    PROVE  /\ piece.source \in Seq(Characters)
           /\ \/ IsText(piece) /\ piece.stands = "text" /\ piece.text \in Seq(Characters)
              \/ IsElement(piece) /\ piece.stands = "element" /\ piece.format \in formats
<1>1. ASSUME IsText(piece)
      PROVE  piece.source \in Seq(Characters) /\ piece.stands = "text" /\ piece.text \in Seq(Characters)
  <2>1. piece \in [source : Seq(Characters), stands : {"text"}, text : Seq(Characters)]
    BY <1>1, Zenon DEF IsText
  <2> QED BY <2>1
<1>2. ASSUME IsElement(piece) PROVE piece.source \in Seq(Characters) /\ piece.stands = "element"
  <2>1. piece \in [source : Seq(Characters), stands : {"element"}, format : Characters]
    BY <1>2, Zenon DEF IsElement
  <2> QED BY <2>1
<1> QED BY <1>1, <1>2 DEF IsPiece

LEMMA PieceTextType ==
    ASSUME NEW formats, NEW wrappers \in Wrappers(formats), NEW e \in Nat,
           NEW piece, IsPiece(piece, formats)
    PROVE  PieceText(piece, wrappers, e) \in Seq(Characters)
<1>1. CASE piece.stands = "text"
  BY <1>1, PieceIs DEF PieceText
<1>2. CASE piece.stands # "text"
  <2>1. piece.format \in formats
    BY <1>2, PieceIs
  <2> QED BY <1>2, <2>1, ElementTextType DEF PieceText
<1> QED BY <1>1, <1>2

LEMMA PieceParsed ==
    ASSUME NEW size \in OutputSizes, NEW formats, NEW wrappers \in Wrappers(formats),
           NEW piece, IsPiece(piece, formats), NEW g, NEW at \in Nat,
           ParsedAt(g, wrappers, piece.source, at),
           NEW m, NEW e \in Nat, Boundary(g[at], size, m, e)
    PROVE  Boundary(g[at + Len(piece.source)], size, m \o PieceText(piece, wrappers, e),
                    e + IF piece.stands = "element" THEN 1 ELSE 0)
<1> DEFINE x == piece.source
           t == PieceText(piece, wrappers, e)
           p == g[at]
           q == g[at + Len(x)]
           k == IF piece.stands = "element" THEN 1 ELSE 0
           o == p.output
<1>1. x \in Seq(Characters) /\ Len(x) \in Nat
  <2>1. x \in Seq(Characters)
    BY PieceIs
  <2> HIDE DEF x
  <2> QED BY <2>1
<1>2. t \in Seq(Characters)
  BY PieceTextType
<1>3. OutputShows(o, size, m) /\ (o.success => p = At("OutputCharacter", "d", e, o))
  BY DEF Boundary
<1>4. CASE ~o.success
  <2>1. q = p
    BY <1>1, <1>4, FailedParsed
  <2> HIDE DEF q, p, o, t, x, k
  <2>2. OutputShows(o, size, m \o t)
    BY <1>2, <1>3, <1>4, FullShows
  <2>3. Boundary(q, size, m \o t, e + k)
    BY <1>4, <2>1, <2>2 DEF Boundary, o
  <2> QED BY <2>3 DEF q, t, x, k
<1>5. CASE o.success /\ IsText(piece)
  <2>1. piece.stands = "text"
    BY <1>5, Zenon DEF IsText
  <2>2. t = piece.text /\ k = 0 /\ e + k = e
    BY <2>1 DEF PieceText
  <2>3. p = At("OutputCharacter", "d", e, o)
    BY <1>3, <1>5
  <2> DEFINE w == WriteText(o, piece.text)
  <2>4. q = At("OutputCharacter", "d", e, w)
    <3>1. Ready(g, wrappers, x, at, "d", e, o) /\ Sourced(x, piece)
      BY <1>5, <2>3 DEF Ready, Sourced
    <3>2. IsText(piece)
      BY <1>5
    <3> HIDE DEF o, p, x
    <3> QED BY <3>1, <3>2, TextParsed
  <2> HIDE DEF q, p, o, t, x, k
  <2>5. OutputShows(w, size, m \o t)
    BY <1>2, <1>3, <2>2, WriteShows
  <2> HIDE DEF w
  <2>6. q.output = w
    BY <2>4 DEF At
  <2>7. Boundary(q, size, m \o t, e + k)
    BY <2>2, <2>4, <2>5, <2>6 DEF Boundary
  <2> QED BY <2>7 DEF q, t, x, k
<1>6. CASE o.success /\ IsElement(piece) /\ piece.format \in formats /\ piece.stands = "element"
  <2>1. t = ElementText(wrappers, e, piece.format) /\ k = 1 /\ e + k = e + 1
    BY <1>6 DEF PieceText
  <2>2. p = At("OutputCharacter", "d", e, o)
    BY <1>3, <1>6
  <2> DEFINE w == ElementOutput(wrappers, e, o, piece.format)
  <2>3. q = At("OutputCharacter", "d", e + 1, w)
    <3>1. Ready(g, wrappers, x, at, "d", e, o) /\ Sourced(x, piece)
      BY <1>6, <2>2 DEF Ready, Sourced
    <3>2. IsElement(piece)
      BY <1>6
    <3> HIDE DEF o, p, x
    <3> QED BY <3>1, <3>2, ElementParsed
  <2> HIDE DEF q, p, o, t, x, k
  <2>4. OutputShows(w, size, m \o t)
    BY <1>3, <1>6, <2>1, ElementShows
  <2> HIDE DEF w
  <2>5. q.output = w
    BY <2>3 DEF At
  <2>6. Boundary(q, size, m \o t, e + k)
    BY <2>1, <2>3, <2>4, <2>5 DEF Boundary
  <2> QED BY <2>6 DEF q, t, x, k
<1> QED BY <1>4, <1>5, <1>6, PieceIs

PieceSources(pieces, n) == [i \in 1 .. n |-> pieces[i].source]

PieceTexts(pieces, wrappers, n) ==
    [i \in 1 .. n |-> PieceText(pieces[i], wrappers, ElementsUpTo(pieces, i - 1))]

LEMMA FirstBoundary ==
    ASSUME NEW size \in OutputSizes
    PROVE  Boundary(ParseStart(Functor(size)), size, << >>, 0)
<1> DEFINE o == Functor(size)
           p == ParseStart(o)
<1>1. << >> \in Seq(Characters) /\ Len(<< >>) = 0
  OBVIOUS
<1>2. Fitting(size, << >>) = << >>
  <2>1. size = NoLimit \/ Len(<< >>) <= size
    BY DEF OutputSizes
  <2> QED BY <2>1 DEF Fitting
<1>3. o \in Outputs(size) /\ o.written = << >> /\ o.success
  BY <1>1 DEF Functor, Outputs
<1>4. p.output = o /\ p = At("OutputCharacter", "d", 0, o)
  BY DEF ParseStart, At
<1> HIDE DEF o
<1>5. OutputShows(o, size, << >>)
  BY <1>1, <1>2, <1>3 DEF OutputShows
<1> HIDE DEF p
<1>6. Boundary(p, size, << >>, 0)
  BY <1>4, <1>5 DEF Boundary
<1> QED BY <1>6 DEF p, o

\* A format is written as its pieces say.
LEMMA PiecesParsed ==
    ASSUME NEW size \in OutputSizes, NEW formats, NEW wrappers \in Wrappers(formats),
           NEW N \in Nat, NEW pieces, \A i \in 1 .. N : IsPiece(pieces[i], formats),
           NEW format, NEW L \in Nat, Len(format) = L,
           NEW p, p = PieceSources(pieces, N), Stored(format, 0, Joined(p, N)),
           NEW t, t = PieceTexts(pieces, wrappers, N),
           NEW g, Parsed(g, wrappers, format, Functor(size), L)
    PROVE  /\ Len(Joined(p, N)) \in Nat
           /\ Joined(t, N) \in Seq(Characters)
           /\ Boundary(g[Len(Joined(p, N))], size, Joined(t, N), ElementsUpTo(pieces, N))
<1>1. \A i \in 1 .. N : p[i] = pieces[i].source /\ p[i] \in Seq(Characters)
  <2>1. \A i \in 1 .. N : p[i] = pieces[i].source
    BY DEF PieceSources
  <2> QED BY <2>1, PieceIs
<1>2. \A n \in Nat : ElementsUpTo(pieces, n) \in Nat
  BY ElementsAre
<1>3. \A i \in 1 .. N : /\ t[i] = PieceText(pieces[i], wrappers, ElementsUpTo(pieces, i - 1))
                        /\ t[i] \in Seq(Characters)
  <2>1. \A i \in 1 .. N : t[i] = PieceText(pieces[i], wrappers, ElementsUpTo(pieces, i - 1))
    BY DEF PieceTexts
  <2>2. \A i \in 1 .. N : i - 1 \in Nat
    OBVIOUS
  <2> QED BY <1>2, <2>1, <2>2, PieceTextType
<1> DEFINE length(n) == Len(Joined(p, n))
<1>4. \A n \in 0 .. N : /\ length(n) \in Nat /\ Stored(format, 0, Joined(p, n))
                        /\ n < N => Stored(format, 0 + length(n), p[n + 1])
  <2>1. \A k \in 1 .. N : p[k] \in Seq(Characters)
    BY <1>1
  <2>2. Len(format) \in Nat /\ 0 \in Nat
    OBVIOUS
  <2> QED BY <2>1, <2>2, StoredJoined
<1>5. /\ Joined(p, 0) = << >>
      /\ \A n \in 0 .. N : Joined(p, n) \in Seq(Characters)
      /\ \A n \in 0 .. N - 1 : Joined(p, n + 1) = Joined(p, n) \o p[n + 1]
  BY <1>1, JoinedIs, ZenonT(60)
<1>6. /\ Joined(t, 0) = << >>
      /\ \A n \in 0 .. N : Joined(t, n) \in Seq(Characters)
      /\ \A n \in 0 .. N - 1 : Joined(t, n + 1) = Joined(t, n) \o t[n + 1]
  BY <1>3, JoinedIs, ZenonT(60)
<1> DEFINE H(n) == Boundary(g[length(n)], size, Joined(t, n), ElementsUpTo(pieces, n))
           T == {n \in 0 .. N : H(n)}
<1>7. 0 \in T
  <2>1. length(0) = 0
    BY <1>5
  <2>2. g[0] = ParseStart(Functor(size))
    BY DEF Parsed
  <2>3. ElementsUpTo(pieces, 0) = 0
    BY ElementsAre
  <2>4. H(0)
    BY <1>6, <2>1, <2>2, <2>3, FirstBoundary
  <2> QED BY <2>4
<1>8. ASSUME NEW n \in 0 .. N - 1, n \in T PROVE n + 1 \in T
  <2>1. n \in 0 .. N /\ n + 1 \in 0 .. N /\ n + 1 \in 1 .. N /\ n < N /\ n \in Nat /\ (n + 1) - 1 = n
    OBVIOUS
  <2> DEFINE piece == pieces[n + 1]
             at == length(n)
             e == ElementsUpTo(pieces, n)
             m == Joined(t, n)
             x == piece.source
  <2>2. H(n)
    BY <1>8
  <2>3. IsPiece(piece, formats) /\ p[n + 1] = x /\ at \in Nat /\ e \in Nat
    BY <1>1, <1>2, <1>4, <2>1
  <2>4. t[n + 1] = PieceText(piece, wrappers, e)
    BY <1>3, <2>1
  <2>5. Stored(format, at, x)
    <3>1. 0 + length(n) = length(n)
      BY <2>3
    <3> QED BY <1>4, <2>1, <2>3, <3>1
  <2>6. length(n + 1) = at + Len(x)
    <3>1. Joined(p, n) \in Seq(Characters) /\ x \in Seq(Characters)
      BY <1>1, <1>5, <2>1
    <3>2. Joined(p, n + 1) = Joined(p, n) \o x
      BY <1>5, <2>1, <2>3
    <3> HIDE DEF x
    <3> QED BY <3>1, <3>2, Lists!ConcatProperties
  <2>7. Joined(t, n + 1) = m \o t[n + 1]
    BY <1>6
  <2>8. ElementsUpTo(pieces, n + 1) = e + IF piece.stands = "element" THEN 1 ELSE 0
    BY <2>1, ElementsAre
  <2>9. Boundary(g[at], size, m, e)
    BY <2>2
  <2>10. Len(x) \in Nat
    <3>1. x \in Seq(Characters)
      BY <2>3, PieceIs
    <3> HIDE DEF x
    <3> QED BY <3>1
  <2> HIDE DEF at, e, m, piece, length, T
  <2>11. ParsedAt(g, wrappers, piece.source, at)
    BY <2>3, <2>5, <2>10, ParsedStored
  <2>12. Boundary(g[at + Len(piece.source)], size, m \o PieceText(piece, wrappers, e),
                  e + IF piece.stands = "element" THEN 1 ELSE 0)
    BY <2>3, <2>9, <2>11, PieceParsed
  <2>13. H(n + 1)
    BY <2>4, <2>6, <2>7, <2>8, <2>12
  <2> QED BY <2>1, <2>13 DEF T
<1> HIDE DEF T
<1>9. \A n \in 0 .. N : n \in T
  BY <1>7, <1>8, NumberInduction
<1>10. H(N)
  BY <1>9 DEF T
<1> QED BY <1>4, <1>6, <1>10

LEMMA FlattensAlike == ASSUME NEW q PROVE Chars!FlattenSeq(q) = SeqsExt!FlattenSeq(q)
  BY DEF Chars!FlattenSeq, SeqsExt!FlattenSeq

\* A format is put together from pieces, and breaks off.
ConsistsOf(format, pieces, N, formats, tail) ==
    /\ \A i \in 1 .. N : IsPiece(pieces[i], formats)
    /\ IsUnfinished(tail)
    /\ format = Joined(PieceSources(pieces, N), N) \o tail

TextOf(pieces, wrappers, N) == Joined(PieceTexts(pieces, wrappers, N), N)

LEMMA FormatShows ==
    ASSUME NEW size \in OutputSizes, NEW formats, NEW wrappers \in Wrappers(formats),
           NEW N \in Nat, NEW pieces, NEW tail, NEW format,
           ConsistsOf(format, pieces, N, formats, tail)
    PROVE  /\ TextOf(pieces, wrappers, N) \in Seq(Characters)
           /\ FormatImpl(Functor(size), format, wrappers).written
                = Fitting(size, TextOf(pieces, wrappers, N))
<1> USE DEF ConsistsOf, TextOf
<1> DEFINE p == PieceSources(pieces, N)
           t == PieceTexts(pieces, wrappers, N)
           x == Joined(p, N)
           L == Len(format)
           at == Len(x)
<1>1. x \in Seq(Characters) /\ at \in Nat
  <2>1. \A i \in 1 .. N : p[i] = pieces[i].source
    BY DEF PieceSources
  <2>2. \A i \in 1 .. N : p[i] \in Seq(Characters)
    BY <2>1, PieceIs
  <2>3. \A n \in 0 .. N : Joined(p, n) \in Seq(Characters)
    BY <2>2, JoinedIs
  <2>4. x \in Seq(Characters)
    BY <2>3
  <2> HIDE DEF x
  <2> QED BY <2>4
<1>2. tail \in Seq(Characters) /\ Len(tail) \in Nat
  <2>1. tail \in Seq(Characters)
    BY Zenon DEF IsUnfinished
  <2> QED BY <2>1
<1>3. /\ format \in Seq(Characters) /\ L \in Nat /\ L = at + Len(tail)
      /\ Stored(format, 0, x) /\ Stored(format, at, tail)
  <2> HIDE DEF x
  <2>1. /\ format \in Seq(Characters) /\ L = Len(x) + Len(tail)
        /\ \A i \in 1 .. Len(x) + Len(tail) :
             format[i] = IF i <= Len(x) THEN x[i] ELSE tail[i - Len(x)]
    <3>1. format = x \o tail
      BY DEF x
    <3> QED BY <1>1, <1>2, <3>1, Lists!ConcatProperties
  <2>2. Stored(format, 0, x \o tail)
    <3>1. format = x \o tail
      BY DEF x
    <3>2. L \in Nat /\ 0 + L = L /\ \A i \in 1 .. L : 0 + i = i
      BY <2>1
    <3> QED BY <3>1, <3>2 DEF Stored
  <2>3. Len(format) \in Nat /\ 0 \in Nat /\ 0 + Len(x) = Len(x)
    BY <1>1, <2>1
  <2>4. Stored(format, 0, x) /\ Stored(format, 0 + Len(x), tail)
    BY <1>1, <1>2, <2>2, <2>3, StoredParts
  <2> QED BY <1>1, <1>2, <2>1, <2>3, <2>4
<1> HIDE DEF x, L
<1>4. PICK g : Parsed(g, wrappers, format, Functor(size), L)
  BY <1>3, ParsedExists
<1>5. FormatImpl(Functor(size), format, wrappers) = g[L].output
  <2>1. Len(format) = L /\ L \in Nat
    BY <1>3 DEF L
  <2>2. ParsedWhole(g, wrappers, format, Functor(size), L)
    BY <1>4, <2>1 DEF ParsedWhole
  <2> QED BY <2>1, <2>2, FormatImplIs
<1> DEFINE m == Joined(t, N)
           e == ElementsUpTo(pieces, N)
<1>6. m \in Seq(Characters) /\ Boundary(g[at], size, m, e)
  <2>1. Stored(format, 0, Joined(p, N)) /\ L \in Nat /\ Len(format) = L
    BY <1>3 DEF x, L
  <2>2. /\ Joined(t, N) \in Seq(Characters)
        /\ Boundary(g[Len(Joined(p, N))], size, Joined(t, N), ElementsUpTo(pieces, N))
    BY <1>4, <2>1, PiecesParsed
  <2> QED BY <2>2 DEF x
<1>7. ParsedAt(g, wrappers, tail, at)
  <2>1. Len(format) = L
    BY DEF L
  <2> HIDE DEF at
  <2> QED BY <1>1, <1>2, <1>3, <1>4, <2>1, ParsedStored
<1> DEFINE o == g[at].output
<1>8. OutputShows(o, size, m) /\ (o.success => g[at] = At("OutputCharacter", "d", e, o))
  BY <1>6 DEF Boundary
<1>9. g[L].output = o
  <2>1. CASE ~o.success
    <3> DEFINE q == g[at]
    <3>1. g[at] = q /\ ~q.output.success
      BY <2>1
    <3> HIDE DEF q, at
    <3>2. g[at + Len(tail)] = q
      BY <1>1, <1>2, <1>7, <3>1, FailedParsed
    <3> QED BY <1>3, <3>2 DEF q
  <2>2. CASE o.success
    <3> HIDE DEF o, e, at
    <3>1. Ready(g, wrappers, tail, at, "d", e, o)
      BY <1>1, <1>7, <1>8, <2>2 DEF Ready
    <3>2. g[at + Len(tail)].output = o
      BY <1>1, <3>1, TailParsed
    <3> QED BY <1>3, <3>2
  <2> QED BY <2>1, <2>2
<1>10. o.written = Fitting(size, m)
  BY <1>8 DEF OutputShows
<1> QED BY <1>5, <1>6, <1>9, <1>10

(***************************************************************************)
(* Ends of buffers.                                                        *)
(***************************************************************************)
LEMMA CutIs ==
    ASSUME NEW S, NEW x \in Seq(S), NEW n \in 0 .. Len(x)
    PROVE  /\ SubSeq(x, 1, n) \in Seq(S) /\ Len(SubSeq(x, 1, n)) = n
           /\ \A i \in 1 .. n : SubSeq(x, 1, n)[i] = x[i]
  OBVIOUS

LEMMA CutTwice ==
    ASSUME NEW S, NEW x \in Seq(S), NEW n \in 0 .. Len(x), NEW k \in 0 .. n
    PROVE  SubSeq(SubSeq(x, 1, n), 1, k) = SubSeq(x, 1, k)
<1> DEFINE y == SubSeq(x, 1, n)
<1>1. y \in Seq(S) /\ Len(y) = n /\ \A i \in 1 .. n : y[i] = x[i]
  BY CutIs
<1> HIDE DEF y
<1>2. k \in 0 .. Len(y) /\ k \in 0 .. Len(x) /\ \A i \in 1 .. k : i \in 1 .. n
  BY <1>1
<1>3. /\ SubSeq(y, 1, k) \in Seq(S) /\ Len(SubSeq(y, 1, k)) = k
      /\ \A i \in 1 .. k : SubSeq(y, 1, k)[i] = y[i]
  BY <1>1, <1>2, CutIs
<1>4. /\ SubSeq(x, 1, k) \in Seq(S) /\ Len(SubSeq(x, 1, k)) = k
      /\ \A i \in 1 .. k : SubSeq(x, 1, k)[i] = x[i]
  BY <1>2, CutIs
<1>5. SubSeq(y, 1, k) = SubSeq(x, 1, k)
  BY <1>1, <1>2, <1>3, <1>4, Lists!SeqEqual
<1> QED BY <1>5 DEF y

LEMMA TerminatedIs ==
    ASSUME NEW size \in Nat \ {0}, NEW S, NEW m \in Seq(S)
    PROVE  Terminated(size, Fitting(size, m)) = CutTo(m, size - 1)
<1>0. Len(m) \in Nat
  OBVIOUS
<1>1. size # NoLimit /\ SubSeq(m, 1, Len(m)) = m
  BY NoLimitIs, Lists!SubSeqFull
<1>2. CASE Len(m) < size
  <2>0. Len(m) <= size
    BY <1>0, <1>2
  <2>1. Fitting(size, m) = m
    BY <2>0 DEF Fitting
  <2>2. Terminated(size, m) = m
    BY <1>1, <1>2 DEF Terminated
  <2>3. CutTo(m, size - 1) = m
    <3>1. CASE Len(m) < size - 1
      BY <1>1, <3>1 DEF CutTo
    <3>2. CASE ~(Len(m) < size - 1)
      <4>1. Len(m) = size - 1
        BY <1>0, <1>2, <3>2
      <4> QED BY <1>1, <3>2, <4>1 DEF CutTo
    <3> QED BY <3>1, <3>2
  <2> QED BY <2>1, <2>2, <2>3
<1>3. CASE ~(Len(m) < size)
  <2> DEFINE y == SubSeq(m, 1, size)
  <2>1. size \in 0 .. Len(m) /\ size - 1 \in 0 .. size /\ ~(Len(m) < size - 1)
    BY <1>0, <1>3
  <2>2. y \in Seq(S) /\ Len(y) = size
    BY <2>1, CutIs
  <2>3. Fitting(size, m) = y
    <3>1. CASE Len(m) <= size
      <4>1. Len(m) = size
        BY <1>0, <1>3, <3>1
      <4> QED BY <1>1, <3>1, <4>1 DEF Fitting
    <3>2. CASE ~(Len(m) <= size)
      BY <1>1, <3>2 DEF Fitting
    <3> QED BY <3>1, <3>2
  <2>4. SubSeq(y, 1, size - 1) = SubSeq(m, 1, size - 1)
    <3> DEFINE k == size - 1
    <3>1. k \in 0 .. size
      BY <2>1
    <3> HIDE DEF k
    <3>2. SubSeq(y, 1, k) = SubSeq(m, 1, k)
      BY <2>1, <3>1, CutTwice
    <3> QED BY <3>2 DEF k
  <2> HIDE DEF y
  <2>5. Terminated(size, y) = SubSeq(y, 1, size - 1)
    BY <2>2 DEF Terminated
  <2>6. CutTo(m, size - 1) = SubSeq(m, 1, size - 1)
    BY <2>1 DEF CutTo
  <2> QED BY <2>3, <2>4, <2>5, <2>6
<1> QED BY <1>2, <1>3

(***************************************************************************)
(* Formats without braces.                                                 *)
(***************************************************************************)
LEMMA CutOneMore ==
    ASSUME NEW S, NEW x \in Seq(S), NEW n \in 0 .. Len(x) - 1, NEW t, Len(t) = 1, t \in Seq(S),
           t[1] = x[n + 1]
    PROVE  SubSeq(x, 1, n) \o t = SubSeq(x, 1, n + 1)
<1> DEFINE y == SubSeq(x, 1, n)
           z == SubSeq(x, 1, n + 1)
<1>1. Len(x) \in Nat /\ n \in 0 .. Len(x) /\ n + 1 \in 0 .. Len(x)
  OBVIOUS
<1>2. y \in Seq(S) /\ Len(y) = n /\ \A i \in 1 .. n : y[i] = x[i]
  BY <1>1, CutIs
<1>3. z \in Seq(S) /\ Len(z) = n + 1 /\ \A i \in 1 .. n + 1 : z[i] = x[i]
  BY <1>1
<1> HIDE DEF y, z
<1>4. /\ y \o t \in Seq(S) /\ Len(y \o t) = n + 1
      /\ \A i \in 1 .. n + 1 : (y \o t)[i] = IF i <= n THEN y[i] ELSE t[i - n]
  <2>1. /\ y \o t \in Seq(S) /\ Len(y \o t) = Len(y) + Len(t)
        /\ \A i \in 1 .. Len(y) + Len(t) : (y \o t)[i] = IF i <= Len(y) THEN y[i] ELSE t[i - Len(y)]
    BY <1>2, Lists!ConcatProperties
  <2>2. Len(y) = n /\ Len(t) = 1
    BY <1>2
  <2> QED BY <2>1, <2>2
<1>5. ASSUME NEW i \in 1 .. n + 1 PROVE (y \o t)[i] = z[i]
  <2>1. CASE i <= n
    <3>1. i \in 1 .. n
      BY <2>1
    <3>2. (y \o t)[i] = y[i]
      BY <1>4, <2>1
    <3> QED BY <1>2, <1>3, <3>1, <3>2
  <2>2. CASE ~(i <= n)
    <3>1. i = n + 1 /\ i - n = 1
      BY <2>2
    <3> QED BY <1>3, <1>4, <2>2, <3>1
  <2> QED BY <2>1, <2>2
<1>6. y \o t = z
  BY <1>3, <1>4, <1>5, Lists!SeqEqual
<1> QED BY <1>6 DEF y, z

LEMMA JoinedSingles ==
    ASSUME NEW S, NEW m \in Seq(S), NEW N \in Nat, Len(m) = N,
           NEW p, \A i \in 1 .. N : p[i] \in Seq(S) /\ Len(p[i]) = 1 /\ p[i][1] = m[i]
    PROVE  Joined(p, N) = m
<1>1. /\ Joined(p, 0) = << >>
      /\ \A n \in 0 .. N - 1 : Joined(p, n + 1) = Joined(p, n) \o p[n + 1]
  <2>1. \A i \in 1 .. N : p[i] \in Seq(S)
    OBVIOUS
  <2> QED BY <2>1, JoinedIs, ZenonT(60)
<1> DEFINE T == {n \in 0 .. N : Joined(p, n) = SubSeq(m, 1, n)}
<1>2. 0 \in T
  <2>1. SubSeq(m, 1, 0) = << >>
    BY Lists!SubSeqEmpty
  <2>2. Joined(p, 0) = SubSeq(m, 1, 0)
    BY <1>1, <2>1
  <2>3. 0 \in 0 .. N
    OBVIOUS
  <2> QED BY <2>2, <2>3
<1>3. ASSUME NEW n \in 0 .. N - 1, n \in T PROVE n + 1 \in T
  <2>1. n + 1 \in 1 .. N /\ n + 1 \in 0 .. N /\ n \in 0 .. Len(m) - 1
    OBVIOUS
  <2>2. Joined(p, n + 1) = SubSeq(m, 1, n) \o p[n + 1]
    BY <1>1, <1>3
  <2>3. p[n + 1] \in Seq(S) /\ Len(p[n + 1]) = 1 /\ p[n + 1][1] = m[n + 1]
    BY <2>1
  <2> DEFINE t == p[n + 1]
  <2>4. t \in Seq(S) /\ Len(t) = 1 /\ t[1] = m[n + 1]
    BY <2>3
  <2> HIDE DEF t
  <2>5. SubSeq(m, 1, n) \o t = SubSeq(m, 1, n + 1)
    BY <2>1, <2>4, CutOneMore
  <2> QED BY <2>1, <2>2, <2>5 DEF t
<1> HIDE DEF T
<1>4. \A n \in 0 .. N : n \in T
  BY <1>2, <1>3, NumberInduction
<1>5. Joined(p, N) = SubSeq(m, 1, N)
  BY <1>4 DEF T
<1>6. SubSeq(m, 1, Len(m)) = m
  BY Lists!SubSeqFull
<1> QED BY <1>5, <1>6

LEMMA NothingIsUnfinished == IsUnfinished(<< >>)
  BY DEF IsUnfinished

\* A character that is no brace, as a piece.
Single(char) == Piece(<< char >>, << char >>)

LEMMA SingleIsText ==
    ASSUME NEW c \in Characters, c # Open, c # Close
    PROVE  /\ IsText(Single(c)) /\ Single(c).source = << c >>
           /\ Single(c).stands = "text" /\ Single(c).text = << c >>
<1> DEFINE x == << c >>
           p == [source |-> x, stands |-> "text", text |-> x]
<1>1. x \in Seq(Characters) /\ Len(x) = 1 /\ x[1] = c
  OBVIOUS
<1> HIDE DEF x
<1>2. /\ p \in [source : Seq(Characters), stands : {"text"}, text : Seq(Characters)]
      /\ p.source = x /\ p.stands = "text" /\ p.text = x
  BY <1>1
<1>3. Single(c) = p
  BY DEF Single, Piece, x
<1> HIDE DEF p
<1>4. x[1] \notin {Open, Close}
  BY <1>1
<1>5. IsText(p)
  BY <1>1, <1>2, <1>4, Zenon DEF IsText
<1> QED BY <1>2, <1>3, <1>5 DEF x

LEMMA SinglesAre == ASSUME NEW c \in Characters PROVE << c >> \in Seq(Characters) /\ Len(<< c >>) = 1
                                                     /\ << c >>[1] = c
  OBVIOUS

\* Such a format is written as it is.
LEMMA PlainFormat ==
    ASSUME NEW m \in Seq(Characters), \A i \in 1 .. Len(m) : m[i] # Open /\ m[i] # Close
    PROVE  FormatImpl(Functor(NoLimit), m, << >>).written = m
<1> DEFINE N == Len(m)
           pieces == [i \in 1 .. N |-> Single(m[i])]
           formats == {"d"}
           wrappers == << >>
           p == PieceSources(pieces, N)
           t == PieceTexts(pieces, wrappers, N)
           tail == << >>
           size == NoLimit
<1>1. N \in Nat /\ size \in OutputSizes /\ IsUnfinished(tail) /\ m \o tail = m /\ Len(m) = N
  BY NothingIsUnfinished, Lists!ConcatEmptySeq DEF OutputSizes
<1>2. wrappers \in Wrappers(formats)
  BY DEF Wrappers
<1> HIDE DEF N, wrappers, formats, tail, size
<1>3. \A i \in 1 .. N : m[i] \in Characters /\ m[i] # Open /\ m[i] # Close
  BY <1>1
<1>4. \A i \in 1 .. N : pieces[i] = Single(m[i])
  OBVIOUS
<1> HIDE DEF pieces
<1>5. \A i \in 1 .. N : /\ IsPiece(pieces[i], formats)
                        /\ p[i] = << m[i] >> /\ t[i] = << m[i] >>
  <2>1. ASSUME NEW i \in 1 .. N
        PROVE  /\ IsPiece(pieces[i], formats) /\ pieces[i].source = << m[i] >>
               /\ pieces[i].stands = "text" /\ pieces[i].text = << m[i] >>
    BY <1>3, <1>4, SingleIsText DEF IsPiece
  <2>2. ASSUME NEW i \in 1 .. N PROVE p[i] = pieces[i].source
    BY DEF PieceSources
  <2>3. ASSUME NEW i \in 1 .. N
        PROVE  t[i] = PieceText(pieces[i], wrappers, ElementsUpTo(pieces, i - 1))
    BY DEF PieceTexts
  <2>4. ASSUME NEW i \in 1 .. N PROVE t[i] = pieces[i].text
    <3>1. pieces[i].stands = "text"
      BY <2>1
    <3> QED BY <2>3, <3>1 DEF PieceText
  <2> QED BY <2>1, <2>2, <2>4
<1>6. FormatImpl(Functor(size), m, wrappers).written = Fitting(size, Joined(t, N))
  <2>1. \A i \in 1 .. N : << m[i] >> \in Seq(Characters) /\ Len(<< m[i] >>) = 1 /\ << m[i] >>[1] = m[i]
    BY <1>3, SinglesAre
  <2>2. \A i \in 1 .. N : p[i] \in Seq(Characters) /\ Len(p[i]) = 1 /\ p[i][1] = m[i]
    BY <1>5, <2>1
  <2> HIDE DEF p, t
  <2>3. Joined(p, N) = m
    BY <1>1, <2>2, JoinedSingles
  <2>4. ConsistsOf(m, pieces, N, formats, tail)
    BY <1>1, <1>5, <2>3 DEF ConsistsOf, p
  <2>5. FormatImpl(Functor(size), m, wrappers).written = Fitting(size, TextOf(pieces, wrappers, N))
    BY <1>1, <1>2, <2>4, FormatShows
  <2> QED BY <2>5 DEF TextOf, t
<1> HIDE DEF p, t
<1>7. \A i \in 1 .. N : << m[i] >> \in Seq(Characters) /\ Len(<< m[i] >>) = 1 /\ << m[i] >>[1] = m[i]
  BY <1>3, SinglesAre
<1>8. Joined(t, N) = m
  <2>1. \A i \in 1 .. N : t[i] \in Seq(Characters) /\ Len(t[i]) = 1 /\ t[i][1] = m[i]
    BY <1>5, <1>7
  <2> QED BY <1>1, <2>1, JoinedSingles
<1>9. Fitting(size, m) = m
  BY DEF Fitting, size
<1> QED BY <1>1, <1>6, <1>8, <1>9 DEF size, wrappers

(***************************************************************************)
(* Pointers.                                                               *)
(***************************************************************************)
HexElement == Element(<< Open, ":", "x", Close >>, "x")

LEMMA HexElementIs ==
    /\ IsElement(HexElement) /\ HexElement.source = << Open, ":", "x", Close >>
    /\ HexElement.stands = "element" /\ HexElement.format = "x"
<1> DEFINE x == << Open, ":", "x", Close >>
           p == [source |-> x, stands |-> "element", format |-> "x"]
<1>1. /\ x \in Seq(Characters) /\ Len(x) = 4
      /\ x[1] = Open /\ x[2] = ":" /\ x[3] = "x" /\ x[4] = Close
  BY BracesDiffer
<1> HIDE DEF x
<1>2. /\ p \in [source : Seq(Characters), stands : {"element"}, format : Characters]
      /\ p.source = x /\ p.stands = "element" /\ p.format = "x"
  BY <1>1, BracesDiffer
<1>3. HexElement = p
  BY DEF HexElement, Element, x
<1> HIDE DEF p
<1>4. IsColon(x, 2)
  BY <1>1 DEF IsColon, Without
<1>5. Without(x, 2 + 1, Len(x) - 1, {Close})
  <2>1. \A i \in 2 + 1 .. Len(x) - 1 : i = 3
    BY <1>1
  <2>2. x[3] # Close
    BY <1>1, BracesDiffer
  <2> QED BY <2>1, <2>2 DEF Without
<1>6. 2 \in 2 .. Len(x) - 1 /\ Len(x) > 1 /\ x[Len(x)] = Close /\ 2 + 1 # Len(x) /\ x[2 + 1] = "x"
  BY <1>1
<1>7. \E k \in 2 .. Len(x) - 1 :
        /\ IsColon(x, k) /\ Without(x, k + 1, Len(x) - 1, {Close})
        /\ p.format = IF k + 1 = Len(x) THEN "d" ELSE x[k + 1]
  BY <1>2, <1>4, <1>5, <1>6
<1>8. IsElement(p)
  BY <1>1, <1>2, <1>6, <1>7, Zenon DEF IsElement
<1> QED BY <1>2, <1>3, <1>8 DEF x

LEMMA PairJoined ==
    ASSUME NEW S, NEW p, p[1] \in Seq(S), p[2] \in Seq(S)
    PROVE  Joined(p, 2) = p[1] \o p[2]
<1> DEFINE N == 2
<1>1. N \in Nat /\ \A k \in 1 .. N : k = 1 \/ k = 2
  OBVIOUS
<1>2. \A k \in 1 .. N : p[k] \in Seq(S)
  BY <1>1
<1>3. 0 \in 0 .. N - 1 /\ 1 \in 0 .. N - 1 /\ 0 + 1 = 1 /\ 1 + 1 = 2
  OBVIOUS
<1> HIDE DEF N
<1>4. /\ Joined(p, 0) = << >>
      /\ \A n \in 0 .. N - 1 : Joined(p, n + 1) = Joined(p, n) \o p[n + 1]
  BY <1>1, <1>2, JoinedIs
<1>5. Joined(p, 1) = << >> \o p[1] /\ Joined(p, 2) = Joined(p, 1) \o p[2]
  BY <1>3, <1>4
<1>6. << >> \o p[1] = p[1]
  BY Lists!ConcatEmptySeq
<1> QED BY <1>5, <1>6

LEMMA PointerFormatIs ==
    ASSUME NEW kind \in Characters
    PROVE  << kind >> \o << Open, ":", "x", Close >> = << kind, Open, ":", "x", Close >>
<1> DEFINE a == << kind >>
           b == << Open, ":", "x", Close >>
           c == << kind, Open, ":", "x", Close >>
<1>1. a \in Seq(Characters) /\ Len(a) = 1 /\ a[1] = kind
  OBVIOUS
<1>2. /\ b \in Seq(Characters) /\ Len(b) = 4
      /\ b[1] = Open /\ b[2] = ":" /\ b[3] = "x" /\ b[4] = Close
  BY BracesDiffer
<1>3. /\ c \in Seq(Characters) /\ Len(c) = 5
      /\ c[1] = kind /\ c[2] = Open /\ c[3] = ":" /\ c[4] = "x" /\ c[5] = Close
  BY BracesDiffer
<1> HIDE DEF a, b, c
<1>4. /\ a \o b \in Seq(Characters) /\ Len(a \o b) = 5
      /\ \A i \in 1 .. 5 : (a \o b)[i] = IF i <= 1 THEN a[i] ELSE b[i - 1]
  <2>1. /\ a \o b \in Seq(Characters) /\ Len(a \o b) = Len(a) + Len(b)
        /\ \A i \in 1 .. Len(a) + Len(b) : (a \o b)[i] = IF i <= Len(a) THEN a[i] ELSE b[i - Len(a)]
    BY <1>1, <1>2, Lists!ConcatProperties
  <2> QED BY <1>1, <1>2, <2>1
<1>5. ASSUME NEW i \in 1 .. 5 PROVE (a \o b)[i] = c[i]
  <2>1. i = 1 \/ i = 2 \/ i = 3 \/ i = 4 \/ i = 5
    OBVIOUS
  <2> QED BY <1>1, <1>2, <1>3, <1>4, <2>1
<1>6. a \o b = c
  BY <1>3, <1>4, <1>5, Lists!SeqEqual
<1> QED BY <1>6 DEF a, b, c

\* What a pointer's buffer holds.
LEMMA PointerBufferIs ==
    ASSUME NEW kind \in {"P", "V"}, NEW h \in Seq(Characters), Len(h) <= (WordBits \div 4) + 2,
           NEW m, m = << kind >> \o h
    PROVE  Terminated(PointerBufferSize,
                      FormatImpl(Functor(PointerBufferSize), << kind, Open, ":", "x", Close >>,
                                 << [writes |-> [x |-> h], reports |-> TRUE] >>).written) = m
<1> DEFINE size == PointerBufferSize
           formats == {"x"}
           wrapper == [writes |-> [x |-> h], reports |-> TRUE]
           wrappers == << wrapper >>
           format == << kind, Open, ":", "x", Close >>
           pieces == << Single(kind), HexElement >>
           tail == << >>
           N == 2
           p == PieceSources(pieces, N)
           t == PieceTexts(pieces, wrappers, N)
           Q == WordBits \div 4
<1>1. kind \in Characters /\ kind # Open /\ kind # Close
  BY BracesDiffer
<1>2. Q \in Nat \ {0}
  BY WordBitsAssumption
<1>3. size \in OutputSizes /\ size \in Nat \ {0} /\ size = Q + 4
  <2>1. size = Q + 4
    BY DEF PointerBufferSize
  <2> HIDE DEF size, Q
  <2> QED BY <1>2, <2>1 DEF OutputSizes
<1>4. wrapper \in Wrapper(formats) /\ wrapper.writes["x"] = h
  <2> DEFINE w == [x |-> h]
  <2>1. w \in [formats -> Seq(Characters)] /\ w["x"] = h
    OBVIOUS
  <2> HIDE DEF w
  <2> QED BY <2>1 DEF Wrapper
<1> HIDE DEF wrapper
<1>5. wrappers \in Wrappers(formats) /\ Len(wrappers) = 1 /\ wrappers[1] = wrapper
  <2> HIDE DEF formats
  <2> QED BY <1>4 DEF Wrappers
<1>6. /\ IsPiece(pieces[1], formats) /\ IsPiece(pieces[2], formats)
      /\ pieces[1].source = << kind >> /\ pieces[1].stands = "text" /\ pieces[1].text = << kind >>
      /\ pieces[2].source = << Open, ":", "x", Close >> /\ pieces[2].stands = "element"
      /\ pieces[2].format = "x"
  <2>1. pieces[1] = Single(kind) /\ pieces[2] = HexElement
    OBVIOUS
  <2> HIDE DEF pieces
  <2> QED BY <1>1, <2>1, SingleIsText, HexElementIs DEF IsPiece
<1>7. 1 \in 1 .. N /\ 2 \in 1 .. N /\ N \in Nat /\ \A i \in 1 .. N : i = 1 \/ i = 2
  OBVIOUS
<1>8. ElementsUpTo(pieces, 0) = 0 /\ ElementsUpTo(pieces, 1) = 0
  <2>1. ElementsUpTo(pieces, 0) = 0
    BY ElementsAre
  <2>2. pieces[1].stands # "element"
    BY <1>6
  <2> HIDE DEF pieces
  <2>3. ASSUME NEW n \in Nat, n = 0 PROVE ElementsUpTo(pieces, n + 1) = 0
    <3>1. ElementsUpTo(pieces, n + 1)
            = ElementsUpTo(pieces, n) + IF pieces[n + 1].stands = "element" THEN 1 ELSE 0
      BY ElementsAre
    <3> QED BY <2>1, <2>2, <2>3, <3>1
  <2>4. ElementsUpTo(pieces, 0 + 1) = 0
    BY <2>3
  <2> QED BY <2>1, <2>4
<1> HIDE DEF pieces, wrappers, N
<1>9. p[1] = << kind >> /\ p[2] = << Open, ":", "x", Close >>
  BY <1>6, <1>7 DEF PieceSources
<1>10. t[1] = << kind >> /\ t[2] = h
  <2>1. /\ t[1] = PieceText(pieces[1], wrappers, ElementsUpTo(pieces, 0))
        /\ t[2] = PieceText(pieces[2], wrappers, ElementsUpTo(pieces, 1))
    BY <1>7 DEF PieceTexts
  <2>2. t[1] = << kind >>
    BY <1>6, <2>1 DEF PieceText
  <2>3. t[2] = ElementText(wrappers, 0, "x")
    BY <1>6, <1>8, <2>1 DEF PieceText
  <2>4. ElementText(wrappers, 0, "x") = h
    BY <1>4, <1>5 DEF ElementText
  <2> QED BY <2>2, <2>3, <2>4
<1> HIDE DEF p, t
<1>11. << kind >> \in Seq(Characters) /\ Len(<< kind >>) = 1
  BY <1>1
<1>12. Joined(p, N) = format
  <2>1. << Open, ":", "x", Close >> \in Seq(Characters)
    BY BracesDiffer
  <2>2. p[1] \in Seq(Characters) /\ p[2] \in Seq(Characters)
    BY <1>9, <1>11, <2>1
  <2>3. Joined(p, 2) = p[1] \o p[2]
    BY <2>2, PairJoined
  <2> QED BY <1>1, <1>9, <2>3, PointerFormatIs DEF N
<1>13. Joined(t, N) = m
  <2>1. t[1] \in Seq(Characters) /\ t[2] \in Seq(Characters)
    BY <1>10, <1>11
  <2>2. Joined(t, 2) = t[1] \o t[2]
    BY <2>1, PairJoined
  <2> QED BY <1>10, <2>2 DEF N
<1>14. m \in Seq(Characters) /\ Len(m) = 1 + Len(h) /\ Len(h) \in Nat
  BY <1>11, Lists!ConcatProperties
<1>15. ConsistsOf(format, pieces, N, formats, tail)
  <2>1. format \in Seq(Characters)
    BY <1>1, BracesDiffer
  <2>2. format = format \o tail
    <3> HIDE DEF format
    <3> QED BY <2>1, Lists!ConcatEmptySeq
  <2>3. \A i \in 1 .. N : IsPiece(pieces[i], formats)
    BY <1>6, <1>7
  <2>4. IsUnfinished(tail)
    BY NothingIsUnfinished
  <2>5. format = Joined(PieceSources(pieces, N), N) \o tail
    BY <1>12, <2>2 DEF p
  <2> HIDE DEF tail, format
  <2> QED BY <2>3, <2>4, <2>5 DEF ConsistsOf
<1> HIDE DEF format, formats, size, tail
<1>16. FormatImpl(Functor(size), format, wrappers).written = Fitting(size, m)
  <2>1. FormatImpl(Functor(size), format, wrappers).written
          = Fitting(size, TextOf(pieces, wrappers, N))
    BY <1>3, <1>5, <1>7, <1>15, FormatShows
  <2>2. TextOf(pieces, wrappers, N) = m
    BY <1>13 DEF TextOf, t
  <2> QED BY <2>1, <2>2
<1>17. Len(m) < size
  <2> HIDE DEF Q
  <2>1. Len(h) <= Q + 2
    BY DEF Q
  <2> QED BY <1>2, <1>3, <1>14, <2>1
<1>18. Fitting(size, m) = m
  <2>1. Len(m) <= size
    BY <1>3, <1>14, <1>17
  <2> QED BY <2>1 DEF Fitting
<1>19. Terminated(size, m) = m
  <2>1. SubSeq(m, 1, Len(m)) = m
    BY <1>14, Lists!SubSeqFull
  <2> QED BY <1>17, <2>1 DEF Terminated
<1> QED BY <1>16, <1>18, <1>19 DEF size, format, wrappers, wrapper

\* A pointer shows as its kind and its address in hexadecimal.
LEMMA PointerDataIs ==
    ASSUME NEW argument, NEW kind \in {"P", "V"}, argument.kind = kind,
           NEW address \in Numbers, argument.address = address
    PROVE  /\ PointerData(argument) = << kind >> \o OutputInteger(address, "x")
           /\ PointerData(argument) \in Seq(Characters)
<1> DEFINE h == OutputInteger(address, "x")
           m == << kind >> \o h
           wrapper == [writes |-> [x |-> h], reports |-> TRUE]
           buffer == Terminated(PointerBufferSize,
                                FormatImpl(Functor(PointerBufferSize),
                                           << kind, Open, ":", "x", Close >>,
                                           << wrapper >>).written)
<1>1. /\ h \in Seq(Characters) /\ Len(h) <= (WordBits \div 4) + 2
      /\ \A i \in 1 .. Len(h) : h[i] # Open /\ h[i] # Close
  BY HexadecimalIs
<1>2. PlainData(Integer(address), "x") = h
  BY DEF PlainData, Integer
<1>3. PointerData(argument) = FormatImpl(Functor(NoLimit), buffer, << >>).written
  <2> HIDE DEF h
  <2> QED BY <1>2 DEF PointerData
<1> HIDE DEF h
<1>4. buffer = m
  BY <1>1, PointerBufferIs
<1>5. kind \in Characters /\ kind # Open /\ kind # Close
  BY BracesDiffer
<1>6. << kind >> \in Seq(Characters) /\ Len(<< kind >>) = 1 /\ << kind >>[1] = kind
  BY <1>5
<1>7. /\ m \in Seq(Characters) /\ Len(m) = 1 + Len(h) /\ Len(h) \in Nat
      /\ \A i \in 1 .. 1 + Len(h) : m[i] = IF i <= 1 THEN kind ELSE h[i - 1]
  <2> DEFINE k == << kind >>
  <2>1. k \in Seq(Characters) /\ Len(k) = 1 /\ k[1] = kind
    BY <1>6
  <2> HIDE DEF k
  <2>2. /\ k \o h \in Seq(Characters) /\ Len(k \o h) = Len(k) + Len(h)
        /\ \A i \in 1 .. Len(k) + Len(h) : (k \o h)[i] = IF i <= Len(k) THEN k[i] ELSE h[i - Len(k)]
    BY <1>1, <2>1, Lists!ConcatProperties
  <2>3. Len(h) \in Nat
    BY <1>1
  <2>4. ASSUME NEW i \in 1 .. 1 + Len(h) PROVE (k \o h)[i] = IF i <= 1 THEN kind ELSE h[i - 1]
    <3>1. i <= 1 => i = 1
      OBVIOUS
    <3> QED BY <2>1, <2>2, <2>3, <3>1
  <2> QED BY <2>1, <2>2, <2>3, <2>4 DEF k
<1> HIDE DEF m
<1>8. ASSUME NEW i \in 1 .. Len(m) PROVE m[i] # Open /\ m[i] # Close
  <2>1. CASE i <= 1
    BY <1>5, <1>7, <2>1
  <2>2. CASE ~(i <= 1)
    <3>1. i - 1 \in 1 .. Len(h) /\ i \in 1 .. 1 + Len(h)
      BY <1>7, <2>2
    <3>2. m[i] = h[i - 1]
      BY <1>7, <2>2, <3>1
    <3> QED BY <1>1, <3>1, <3>2
  <2> QED BY <2>1, <2>2
<1>9. FormatImpl(Functor(NoLimit), m, << >>).written = m
  BY <1>7, <1>8, PlainFormat
<1> HIDE DEF buffer
<1> QED BY <1>3, <1>4, <1>7, <1>9 DEF m, h

(***************************************************************************)
(* Arguments.                                                              *)
(***************************************************************************)
LEMMA NumberIsNatural == ASSUME NEW value \in Numbers PROVE value \in Nat
<1>1. 16 \in Bases
  BY DEF Bases
<1> QED BY <1>1, RemainingBelow

\* What an argument writes in a format is what it shows as.
LEMMA ShownIs ==
    ASSUME NEW argument \in Argument, NEW format \in Characters
    PROVE  /\ Shown(argument, format) \in Seq(Characters)
           /\ Shown(argument, format) = IF argument.type = "pointer" THEN PointerData(argument)
                                                                     ELSE PlainData(argument, format)
<1>1. \/ argument \in [type : {"integer"}, value : Numbers]
      \/ argument \in [type : {"string"}, text : Seq(Characters)]
      \/ argument \in {NullString}
      \/ argument \in [type : {"pointer"}, kind : {"P", "V"}, address : Numbers]
  BY DEF Argument
<1>2. CASE argument \in [type : {"integer"}, value : Numbers]
  <2>1. argument.type = "integer" /\ argument.value \in Numbers
    BY <1>2
  <2>2. /\ Shown(argument, format) = OutputInteger(argument.value, format)
        /\ PlainData(argument, format) = OutputInteger(argument.value, format)
    BY <2>1 DEF Shown, PlainData
  <2>3. OutputInteger(argument.value, format) \in Seq(Characters)
    BY <2>1, NumberIsNatural, OutputIntegerIs
  <2> QED BY <2>1, <2>2, <2>3
<1>3. CASE argument \in [type : {"string"}, text : Seq(Characters)]
  <2>1. argument.type = "string" /\ argument.text \in Seq(Characters)
    BY <1>3
  <2>2. Shown(argument, format) = argument.text /\ PlainData(argument, format) = argument.text
    BY <2>1 DEF Shown, PlainData
  <2> QED BY <2>1, <2>2
<1>4. CASE argument \in {NullString}
  <2>1. argument.type = "null"
    BY <1>4 DEF NullString
  <2>2. Shown(argument, format) = << >> /\ PlainData(argument, format) = << >>
    BY <2>1 DEF Shown, PlainData
  <2>3. << >> \in Seq(Characters)
    OBVIOUS
  <2> QED BY <2>1, <2>2, <2>3
<1>5. CASE argument \in [type : {"pointer"}, kind : {"P", "V"}, address : Numbers]
  <2>1. argument.type = "pointer" /\ argument.kind \in {"P", "V"} /\ argument.address \in Numbers
    BY <1>5
  <2>2. Shown(argument, format) = << argument.kind >> \o OutputInteger(argument.address, "x")
    BY <2>1 DEF Shown
  <2> DEFINE kind == argument.kind
             address == argument.address
  <2>3. /\ kind \in {"P", "V"} /\ argument.kind = kind
        /\ address \in Numbers /\ argument.address = address
    BY <2>1
  <2> HIDE DEF kind, address
  <2>4. /\ PointerData(argument) = << kind >> \o OutputInteger(address, "x")
        /\ PointerData(argument) \in Seq(Characters)
    BY <2>3, PointerDataIs
  <2> QED BY <2>1, <2>2, <2>4 DEF kind, address
<1> QED BY <1>1, <1>2, <1>3, <1>4, <1>5

LEMMA OutputDataIs ==
    ASSUME NEW argument \in Argument, NEW formats, formats \subseteq Characters
    PROVE  /\ OutputDataImpl(argument, formats) \in Wrapper(formats)
           /\ \A f \in formats : OutputDataImpl(argument, formats).writes[f] = Shown(argument, f)
<1> DEFINE w == [f \in formats |-> IF argument.type = "pointer" THEN PointerData(argument)
                                                               ELSE PlainData(argument, f)]
           r == argument.type # "pointer"
           d == OutputDataImpl(argument, formats)
<1>1. d = [writes |-> w, reports |-> r]
  BY DEF OutputDataImpl
<1>2. \A f \in formats : w[f] = Shown(argument, f) /\ Shown(argument, f) \in Seq(Characters)
  <2>1. ASSUME NEW f \in formats PROVE w[f] = Shown(argument, f) /\ Shown(argument, f) \in Seq(Characters)
    <3>1. f \in Characters
      OBVIOUS
    <3>2. w[f] = IF argument.type = "pointer" THEN PointerData(argument) ELSE PlainData(argument, f)
      OBVIOUS
    <3> HIDE DEF w
    <3> QED BY <3>1, <3>2, ShownIs
  <2> QED BY <2>1
<1>3. w \in [formats -> Seq(Characters)]
  <2>1. DOMAIN w = formats /\ w = [f \in formats |-> w[f]]
    OBVIOUS
  <2> HIDE DEF w
  <2>2. \A f \in formats : w[f] \in Seq(Characters)
    BY <1>2
  <2> QED BY <2>1, <2>2
<1>4. r \in BOOLEAN
  OBVIOUS
<1> HIDE DEF w, r, d
<1>5. d \in Wrapper(formats) /\ d.writes = w
  BY <1>1, <1>3, <1>4 DEF Wrapper
<1> QED BY <1>2, <1>5 DEF d

(***************************************************************************)
(* Formats for pieces and arguments.                                       *)
(***************************************************************************)
FormatsIn(format) == {"d"} \union {format[k] : k \in DOMAIN format}

WrappersOf(arguments, formats) == [i \in DOMAIN arguments |-> OutputDataImpl(arguments[i], formats)]

LEMMA WrappersAre ==
    ASSUME NEW arguments \in Seq(Argument), NEW formats, formats \subseteq Characters,
           NEW wrappers, wrappers = WrappersOf(arguments, formats)
    PROVE  /\ wrappers \in Wrappers(formats) /\ Len(wrappers) = Len(arguments)
           /\ \A i \in 1 .. Len(arguments), f \in formats :
                wrappers[i].writes[f] = Shown(arguments[i], f)
<1> DEFINE N == Len(arguments)
           D(i) == OutputDataImpl(arguments[i], formats)
<1>1. N \in Nat /\ DOMAIN arguments = 1 .. N
  OBVIOUS
<1>2. \A i \in 1 .. N : arguments[i] \in Argument
  OBVIOUS
<1>3. \A i \in 1 .. N : D(i) \in Wrapper(formats) /\ \A f \in formats : D(i).writes[f] = Shown(arguments[i], f)
  BY <1>2, OutputDataIs
<1>4. wrappers = [i \in 1 .. N |-> D(i)]
  BY <1>1 DEF WrappersOf
<1> HIDE DEF D
<1>5. /\ \A i \in 1 .. N : wrappers[i] = D(i)
      /\ wrappers \in [1 .. N -> Wrapper(formats)]
  BY <1>3, <1>4
<1>6. wrappers \in Seq(Wrapper(formats)) /\ Len(wrappers) = N
  BY <1>1, <1>5, FunctionIsSeq
<1> QED BY <1>3, <1>5, <1>6 DEF Wrappers

\* Every element's format is "d" or in the format.
LEMMA ElementFormat ==
    ASSUME NEW piece, IsElement(piece), NEW format, Len(format) \in Nat, DOMAIN format = 1 .. Len(format),
           NEW at \in Nat, Stored(format, at, piece.source)
    PROVE  piece.format \in FormatsIn(format)
<1> DEFINE x == piece.source
           last == Len(x)
<1>1. x \in Seq(Characters)
  <2>1. piece \in [source : Seq(Characters), stands : {"element"}, format : Characters]
    BY Zenon DEF IsElement
  <2> QED BY <2>1
<1>2. \/ piece.format = "d"
      \/ \E k \in 2 .. last - 1 : k + 1 # last /\ piece.format = x[k + 1]
  <2>1. \/ piece.format = "d" /\ Without(x, 2, last - 1, {Open, ":", Close})
        \/ \E k \in 2 .. last - 1 :
             /\ IsColon(x, k) /\ Without(x, k + 1, last - 1, {Close})
             /\ piece.format = IF k + 1 = last THEN "d" ELSE x[k + 1]
    BY Zenon DEF IsElement
  <2> HIDE DEF x, last
  <2> QED BY <2>1
<1>3. CASE piece.format = "d"
  BY <1>3 DEF FormatsIn
<1>4. ASSUME NEW k \in 2 .. last - 1, piece.format = x[k + 1] PROVE piece.format \in FormatsIn(format)
  <2> HIDE DEF x
  <2>1. last \in Nat /\ last = Len(x)
    BY <1>1
  <2> HIDE DEF last
  <2>2. k + 1 \in 1 .. Len(x)
    BY <2>1
  <2>3. at + Len(x) <= Len(format) /\ format[at + (k + 1)] = x[k + 1]
    BY <2>2 DEF Stored, x
  <2>4. at + (k + 1) \in DOMAIN format
    BY <2>1, <2>2, <2>3
  <2> QED BY <1>4, <2>3, <2>4 DEF FormatsIn
<1> QED BY <1>2, <1>3, <1>4

LEMMA SourceIs ==
    ASSUME NEW n \in Nat, NEW pieces, Len(pieces) = n
    PROVE  Source(pieces) = Joined(PieceSources(pieces, n), n)
<1> DEFINE p == PieceSources(pieces, n)
           q == [i \in 1 .. n |-> pieces[i].source]
<1>1. Source(pieces) = SeqsExt!FlattenSeq(q)
  BY FlattensAlike DEF Source
<1>2. [k \in 1 .. n |-> p[k]] = q
  BY DEF PieceSources
<1> HIDE DEF p, q
<1>3. Joined(p, n) = SeqsExt!FlattenSeq(q)
  BY <1>2 DEF Joined
<1> QED BY <1>1, <1>3 DEF p

\* Pieces whose formats are known, and wrappers that write as the arguments show.
Understood(pieces, n, arguments, formats, wrappers) ==
    /\ Len(pieces) = n /\ Len(arguments) \in Nat /\ Len(wrappers) = Len(arguments)
    /\ \A i \in 1 .. n : IsPiece(pieces[i], formats)
    /\ \A i \in 1 .. Len(arguments), f \in formats :
          wrappers[i].writes[f] = Shown(arguments[i], f)

LEMMA MeaningIs ==
    ASSUME NEW n \in Nat, NEW pieces, NEW arguments, NEW formats, NEW wrappers,
           Understood(pieces, n, arguments, formats, wrappers)
    PROVE  Meaning(pieces, arguments) = TextOf(pieces, wrappers, n)
<1> USE DEF Understood
<1> DEFINE t == PieceTexts(pieces, wrappers, n)
           e(i) == ElementsUpTo(pieces, i - 1)
           text(i) == IF pieces[i].stands = "text" THEN pieces[i].text
                      ELSE IF e(i) < Len(arguments)
                      THEN Shown(arguments[e(i) + 1], pieces[i].format)
                      ELSE Placeholder(e(i))
           q == [i \in 1 .. n |-> text(i)]
<1>1. Meaning(pieces, arguments) = SeqsExt!FlattenSeq(q)
  BY FlattensAlike DEF Meaning, ElementsUpTo
<1>2. \A i \in 1 .. n : e(i) \in Nat
  <2>1. \A i \in 1 .. n : i - 1 \in Nat
    OBVIOUS
  <2> QED BY <2>1, ElementsAre
<1> HIDE DEF e
<1>3. ASSUME NEW i \in 1 .. n PROVE t[i] = text(i)
  <2>1. t[i] = PieceText(pieces[i], wrappers, e(i))
    BY DEF PieceTexts, e
  <2>2. CASE pieces[i].stands = "text"
    BY <2>1, <2>2 DEF PieceText
  <2>3. CASE pieces[i].stands # "text"
    <3>1. pieces[i].format \in formats
      BY <2>3, PieceIs
    <3>2. t[i] = ElementText(wrappers, e(i), pieces[i].format)
      BY <2>1, <2>3 DEF PieceText
    <3> HIDE DEF t
    <3>3. CASE e(i) < Len(arguments)
      <4>1. e(i) + 1 \in 1 .. Len(arguments)
        BY <1>2, <3>3
      <4>2. wrappers[e(i) + 1].writes[pieces[i].format] = Shown(arguments[e(i) + 1], pieces[i].format)
        BY <3>1, <4>1
      <4>3. t[i] = wrappers[e(i) + 1].writes[pieces[i].format]
        BY <3>2, <3>3 DEF ElementText
      <4> QED BY <2>3, <3>3, <4>2, <4>3
    <3>4. CASE ~(e(i) < Len(arguments))
      <4>1. t[i] = Placeholder(e(i))
        BY <3>2, <3>4 DEF ElementText
      <4> QED BY <2>3, <3>4, <4>1
    <3> QED BY <3>3, <3>4
  <2> QED BY <2>2, <2>3
<1> HIDE DEF t, text
<1>4. [k \in 1 .. n |-> t[k]] = q
  BY <1>3
<1> HIDE DEF q
<1>5. Joined(t, n) = SeqsExt!FlattenSeq(q)
  BY <1>4 DEF Joined
<1> QED BY <1>1, <1>5 DEF TextOf, t

\* Every format, of any length, is written as it means, as far as there is room.
THEOREM FormatMeans ==
    ASSUME NEW n \in Nat, NEW pieces \in [1 .. n -> Pieces], NEW tail \in UnfinishedTails,
           NEW arguments \in ArgumentLists, NEW size \in OutputSizes
    PROVE  /\ Meaning(pieces, arguments) \in Seq(Characters)
           /\ FormatVararg(Functor(size), Source(pieces) \o tail, arguments).written
                = Fitting(size, Meaning(pieces, arguments))
<1> DEFINE p == PieceSources(pieces, n)
           x == Joined(p, n)
           format == x \o tail
           formats == FormatsIn(format)
           wrappers == WrappersOf(arguments, formats)
<1>1. Len(pieces) = n /\ \A i \in 1 .. n : pieces[i] \in Pieces
  BY FunctionIsSeq
<1>2. Source(pieces) = x
  BY <1>1, SourceIs
<1>3. /\ \A i \in 1 .. n : IsText(pieces[i]) \/ IsElement(pieces[i])
      /\ IsUnfinished(tail) /\ arguments \in Seq(Argument)
  BY <1>1, FormatsAssumption
<1>4. ASSUME NEW i \in 1 .. n PROVE pieces[i].source \in Seq(Characters)
  <2>1. ASSUME IsText(pieces[i]) PROVE pieces[i].source \in Seq(Characters)
    <3>1. pieces[i] \in [source : Seq(Characters), stands : {"text"}, text : Seq(Characters)]
      BY <2>1, Zenon DEF IsText
    <3> QED BY <3>1
  <2>2. ASSUME IsElement(pieces[i]) PROVE pieces[i].source \in Seq(Characters)
    <3>1. pieces[i] \in [source : Seq(Characters), stands : {"element"}, format : Characters]
      BY <2>2, Zenon DEF IsElement
    <3> QED BY <3>1
  <2> QED BY <1>3, <2>1, <2>2
<1>5. \A i \in 1 .. n : p[i] = pieces[i].source
  BY DEF PieceSources
<1> HIDE DEF p
<1>6. \A i \in 1 .. n : p[i] \in Seq(Characters)
  BY <1>4, <1>5
<1>7. \A k \in 0 .. n : Joined(p, k) \in Seq(Characters)
  BY <1>6, JoinedIs
<1>8. x \in Seq(Characters) /\ tail \in Seq(Characters)
  <2>1. tail \in Seq(Characters)
    BY <1>3, Zenon DEF IsUnfinished
  <2>2. n \in 0 .. n
    OBVIOUS
  <2> QED BY <1>7, <2>1, <2>2
<1>9. /\ format \in Seq(Characters) /\ Len(format) \in Nat /\ DOMAIN format = 1 .. Len(format)
      /\ Stored(format, 0, x)
  <2> HIDE DEF x
  <2>1. format \in Seq(Characters)
    BY <1>8, Lists!ConcatProperties
  <2> HIDE DEF format
  <2>2. Len(format) \in Nat /\ DOMAIN format = 1 .. Len(format)
    BY <2>1
  <2>3. Stored(format, 0, x \o tail)
    <3>1. x \o tail = format
      BY DEF format
    <3>2. Stored(format, 0, format)
      BY <2>2 DEF Stored
    <3> QED BY <3>1, <3>2
  <2>4. Stored(format, 0, x)
    <3>1. 0 \in Nat
      OBVIOUS
    <3> QED BY <1>8, <2>2, <2>3, <3>1, StoredParts
  <2> QED BY <2>1, <2>2, <2>4
<1> HIDE DEF format
<1>10. \A k \in 0 .. n : /\ Len(Joined(p, k)) \in Nat
                         /\ k < n => Stored(format, 0 + Len(Joined(p, k)), p[k + 1])
  <2>1. 0 \in Nat /\ Stored(format, 0, Joined(p, n)) /\ Len(format) \in Nat
    BY <1>9
  <2> QED BY <1>6, <2>1, StoredJoined
<1> HIDE DEF x
<1>11. ASSUME NEW i \in 1 .. n PROVE IsPiece(pieces[i], formats)
  <2>1. ASSUME IsElement(pieces[i]) PROVE pieces[i].format \in formats
    <3> DEFINE k == i - 1
               at == Len(Joined(p, k))
    <3>1. k \in 0 .. n /\ k < n /\ k + 1 = i
      OBVIOUS
    <3> HIDE DEF k
    <3>2. at \in Nat /\ Stored(format, 0 + at, p[i])
      BY <1>10, <3>1
    <3> HIDE DEF at
    <3>3. 0 + at = at
      BY <3>2
    <3>4. Stored(format, at, pieces[i].source)
      BY <1>5, <3>2, <3>3
    <3> QED BY <1>9, <2>1, <3>2, <3>4, ElementFormat
  <2> QED BY <1>3, <2>1 DEF IsPiece
<1>12. formats \subseteq Characters
  <2>1. \A k \in 1 .. Len(format) : format[k] \in Characters
    BY <1>9
  <2>2. "d" \in Characters
    BY BracesDiffer
  <2> QED BY <1>9, <2>1, <2>2 DEF FormatsIn
<1>13. FormatVararg(Functor(size), format, arguments) = FormatImpl(Functor(size), format, wrappers)
  BY DEF FormatVararg, FormatsIn, WrappersOf
<1> HIDE DEF formats
<1>14. /\ wrappers \in Wrappers(formats) /\ Len(wrappers) = Len(arguments)
       /\ \A i \in 1 .. Len(arguments), f \in formats :
            wrappers[i].writes[f] = Shown(arguments[i], f)
  BY <1>3, <1>12, WrappersAre
<1> HIDE DEF wrappers
<1>15. Len(arguments) \in Nat
  BY <1>3
<1>16. Meaning(pieces, arguments) = TextOf(pieces, wrappers, n)
  <2>1. Understood(pieces, n, arguments, formats, wrappers)
    BY <1>1, <1>11, <1>14, <1>15 DEF Understood
  <2>2. n \in Nat
    OBVIOUS
  <2> HIDE DEF formats, wrappers
  <2> QED BY <2>1, <2>2, MeaningIs
<1>17. ConsistsOf(format, pieces, n, formats, tail)
  <2>1. format = Joined(PieceSources(pieces, n), n) \o tail
    BY DEF format, x, p
  <2> QED BY <1>3, <1>11, <2>1 DEF ConsistsOf
<1>18. /\ TextOf(pieces, wrappers, n) \in Seq(Characters)
       /\ FormatImpl(Functor(size), format, wrappers).written
            = Fitting(size, TextOf(pieces, wrappers, n))
  BY <1>14, <1>17, FormatShows
<1> QED BY <1>2, <1>13, <1>16, <1>18 DEF format

\* Formats mean what they say: on the UART in full, in a buffer as far as there
\* is room for the terminator.
LEMMA FormatsDoMean == FormatsMean
<1> SUFFICES ASSUME NEW n \in 0 .. 2, NEW pieces \in [1 .. n -> Pieces],
                    NEW tail \in UnfinishedTails, NEW arguments \in ArgumentLists
             PROVE  /\ FormatToMiniUART(Source(pieces) \o tail, arguments)
                         = Meaning(pieces, arguments)
                    /\ \A size \in BufferSizes :
                         FormatToBuffer(size, Source(pieces) \o tail, arguments)
                           = CutTo(Meaning(pieces, arguments), size - 1)
  BY Zenon DEF FormatsMean
<1> DEFINE format == Source(pieces) \o tail
           m == Meaning(pieces, arguments)
<1>1. \A size \in OutputSizes :
        /\ m \in Seq(Characters)
        /\ FormatVararg(Functor(size), format, arguments).written = Fitting(size, m)
  <2>1. n \in Nat
    OBVIOUS
  <2> QED BY <2>1, FormatMeans
<1> HIDE DEF format, m
<1>2. FormatToMiniUART(format, arguments) = m
  <2>1. NoLimit \in OutputSizes
    BY DEF OutputSizes
  <2>2. Fitting(NoLimit, m) = m
    BY DEF Fitting
  <2> QED BY <1>1, <2>1, <2>2 DEF FormatToMiniUART
<1>3. ASSUME NEW size \in BufferSizes PROVE FormatToBuffer(size, format, arguments) = CutTo(m, size - 1)
  <2>1. size \in Nat \ {0} /\ size \in OutputSizes
    BY FormatsAssumption DEF OutputSizes
  <2>2. m \in Seq(Characters) /\ FormatVararg(Functor(size), format, arguments).written = Fitting(size, m)
    BY <1>1, <2>1
  <2>3. Terminated(size, Fitting(size, m)) = CutTo(m, size - 1)
    BY <2>1, <2>2, TerminatedIs
  <2> QED BY <2>2, <2>3 DEF FormatToBuffer
<1> QED BY <1>2, <1>3 DEF format, m

LEMMA NumbersDoReadBack == NumbersReadBack
<1> SUFFICES ASSUME NEW value \in Numbers, NEW format \in {"b", "B", "o", "x", "X", "d", "c"}
             PROVE  IsNumeral(OutputInteger(value, format), value, format)
  BY DEF NumbersReadBack
<1>1. format \in Characters
  BY CharactersAssumption
<1> QED BY <1>1, NumeralReads

\* What Format writes is what its pieces stand for, on the UART and in a buffer of any
\* size, and what it writes of a number reads back as the number.
THEOREM FormatsMeanWhatTheySay == KernelSpec => []FormatsAsDocumented
<1>1. FormatsAsDocumented
  BY FormatsDoMean, NumbersDoReadBack DEF FormatsAsDocumented
<1> QED BY <1>1, PTL
=============================================================================
