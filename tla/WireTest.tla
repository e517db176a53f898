------------------------------ MODULE WireTest ------------------------------
(***************************************************************************)
(* The tests of the jig that drive lines of the board under test and read  *)
(* them back (jiga.c): the 32 loopback channels, the eight ADC channels    *)
(* and the three RS-485 transceivers on one bus; and the tests of its      *)
(* components, which write and read the registers or cells of a device:    *)
(* clock, IO expanders, isolated supply and SDRAM.                         *)
(*                                                                         *)
(* A BSMP command of function type 0 stores the channel and raises the     *)
(* task; the task handler later runs the test of the stored channel and    *)
(* leaves its verdict in a result variable, 0 for a good board; a command  *)
(* of function type 1 reads that variable.                                 *)
(*                                                                         *)
(* Every test is a script of pin writes and of readings that must give an  *)
(* expected value, each after a wait of 5 ms; a reading that differs ends  *)
(* the script.  The wait is taken to outlast the settling of the lines and *)
(* the C28's and the ADC's refresh of the values that reach the ARM core   *)
(* through shared memory.                                                  *)
(***************************************************************************)
EXTENDS Naturals, Sequences, FiniteSets, Functions

CONSTANT
    Campaign   \* what a host may use the jig for: records of the tests it
               \* asks for (pairs of a kind and a channel), the faults of the
               \* boards it tests (pairs <<line, level>>), and whether it waits
               \* for a test before it asks for another

Test == UNION {k.tests : k \in Campaign}
Fault == UNION {k.faults : k \in Campaign}

OFF == 0
ON == 1

(***************************************************************************)
(* The line each loopback channel drives and the line it reads.  Channel   *)
(* 29 drives nothing and channel 32 drives two lines: see Script.          *)
(***************************************************************************)
Wire(drive, sense) == [drive |-> drive, sense |-> sense]

\* Channels 1 to 8, outputs of the PWM fibres.
FibreLoops ==
    << Wire("PWM_OF16", "GPDI16"), Wire("PWM_OF15", "GPDI15"),
       Wire("PWM_OF14", "GPDI14"), Wire("PWM_OF13", "GPDI13"),
       Wire("PWM_OF12", "GPDI12"), Wire("PWM_OF11", "GPDI11"),
       Wire("PWM_OF10", "GPDI10"), Wire("PWM_OF9", "GPDI9") >>

\* Channels 9 to 12, control lines of the HRADC boards.
ControlLoops ==
    << Wire("PWM_SOC", "GPDI8"), Wire("GPIO_CONFIG", "GPDI7"),
       Wire("GPIO_CS2", "GPDI6"), Wire("GPIO_CS1", "GPDI5") >>

\* Channels 13 to 16, digital outputs.
OutputLoops ==
    << Wire("GPDO4", "GPDI4"), Wire("GPDO3", "GPDI3"),
       Wire("GPDO2", "GPDI2"), Wire("GPDO1", "GPDI1") >>

\* Channels 17 to 20, lines of the backplane I2C bus.
StatusLoops ==
    << Wire("BP_I2C_SDA", "STATUS_ADC0"), Wire("BP_I2C_SCL", "STATUS_ADC1"),
       Wire("BP_I2C_SDA", "STATUS_ADC2"), Wire("BP_I2C_SCL", "STATUS_ADC3") >>

\* Channels 21 to 24, McBSP, PWM synchronization and CAN.
SerialLoops ==
    << Wire("MCBSP_MDX", "MCBSP_MDR"), Wire("MCBSP_MCLKX", "MCBSP_MFSX"),
       Wire("EPWMSYNCO", "EPWMSYNCI"), Wire("CAN_TX", "CAN_RX") >>

\* Channels 25 to 28, interrupt lines and the display.
InterruptLoops ==
    << Wire("HRADC_RESET", "INT_GENERAL"), Wire("UART_M3_RD", "INT_ARM"),
       Wire("SCI_RD", "INT_C28"), Wire("DISPLAY_TX", "DISPLAY_RX") >>

\* Channels 29 to 32, SPI and the interrupt status of the HRADC boards.
SpiLoops ==
    << Wire("3V3", "SPI_STE_C28"), Wire("SPI_CLK_C28", "FOFB_EPWMSYNCI"),
       Wire("SPI_MISO_C28", "SPI_MOSI_C28"), Wire("BP_I2C_SDA", "HRADC_INT_STS") >>

Loopback == FibreLoops \o ControlLoops \o OutputLoops \o StatusLoops
                \o SerialLoops \o InterruptLoops \o SpiLoops

\* The transmitters and receivers on the RS-485 bus: direction line (ON
\* transmits), transmit line and receive line.
Transceiver ==
    { [rd |-> "RS485_RD",   tx |-> "RS485_TX",   rx |-> "RS485_RX"],
      [rd |-> "UART_M3_RD", tx |-> "UART_M3_TX", rx |-> "UART_M3_RX"],
      [rd |-> "SCI_RD",     tx |-> "SCITXDA",    rx |-> "SCIRXDA"] }

\* The setpoints in shared memory and the ADC channel each one reaches.
Pwm == <<"PWM1", "PWM2", "PWM3", "PWM4", "PWM5", "PWM6", "PWM7", "PWM8">>
Adc == <<"CH1", "CH2", "CH3", "CH4", "CH5", "CH6", "CH7", "CH8">>

\* The bytes of the clock's SRAM and the first four words of the SDRAM, of
\* which one is written as bytes, one as shorts and two as longs.
RtcSram == <<"SRAM0", "SRAM1", "SRAM2", "SRAM3", "SRAM4", "SRAM5", "SRAM6">>
Sdram == <<"RAM0", "RAM4", "RAM8", "RAM12">>

\* What ExIOInit writes to the configuration registers of the two expanders,
\* and DcdcPwrCtrl to the control line of the isolated supply.
Configured == {<<"EXIO1_CONFIG", 181>>, <<"EXIO2_CONFIG", 193>>}
DcdcOn == <<"DCDC_CONTROL", OFF>>

\* The pins PinoutSet gives to the I2C peripheral: a write to their port has
\* no effect, and an idle I2C bus is high.
I2cPin == {"BP_I2C_SDA", "BP_I2C_SCL"}

Good == <<"no line", OFF>>     \* the board without a fault
Idle == <<"no test", 0>>       \* no handler runs

-----------------------------------------------------------------------------
Put(line, v) == [op |-> "put", line |-> line, val |-> v]
Expect(want) == [op |-> "expect", want |-> want]

\* Mutant of LoopbackScript: the low level is not tried.
LoopbackScriptOnce(c) == << Put(Loopback[c].drive, ON), Expect({<<Loopback[c].sense, 1>>}) >>

LoopbackScript(c) ==
    << Put(Loopback[c].drive, OFF), Expect({<<Loopback[c].sense, 0>>}),
       Put(Loopback[c].drive, ON),  Expect({<<Loopback[c].sense, 1>>}) >>

\* The reading of an ADC channel is known by the PWM setpoint it belongs to:
\* above 9.0 V to 0 %, about 0 V to 50 %, below -7.0 V to 100 %.
AdcpScript(c) ==
    << Put(Pwm[c], 0),   Expect({<<Adc[c], 0>>}),
       Put(Pwm[c], 50),  Expect({<<Adc[c], 50>>}),
       Put(Pwm[c], 100), Expect({<<Adc[c], 100>>}) >>

WiredAndScript ==
    << Put("BP_I2C_SDA", OFF), Put("BP_I2C_SCL", OFF), Expect({<<"HRADC_INT_STS", 0>>}),
       Put("BP_I2C_SDA", ON), Put("BP_I2C_SCL", ON), Expect({<<"HRADC_INT_STS", 1>>}),
       Put("BP_I2C_SDA", OFF), Expect({<<"HRADC_INT_STS", 0>>}),
       Put("BP_I2C_SDA", ON), Put("BP_I2C_SCL", OFF), Expect({<<"HRADC_INT_STS", 0>>}) >>

\* Mutant of Rs485Script: the second transceiver transmits before the first
\* is put in reception.
Rs485ScriptOverlap ==
    << Put("RS485_RD", ON), Put("UART_M3_RD", OFF), Put("SCI_RD", OFF),
       Put("RS485_TX", OFF), Expect({<<"UART_M3_RX", 0>>, <<"SCIRXDA", 0>>}),
       Put("RS485_TX", ON), Expect({<<"UART_M3_RX", 1>>, <<"SCIRXDA", 1>>}),
       Put("UART_M3_RD", ON), Put("RS485_RD", OFF),
       Put("UART_M3_TX", OFF), Expect({<<"RS485_RX", 0>>, <<"SCIRXDA", 0>>}),
       Put("UART_M3_TX", ON), Expect({<<"RS485_RX", 1>>, <<"SCIRXDA", 1>>}),
       Put("UART_M3_RD", OFF), Put("SCI_RD", ON),
       Put("SCITXDA", OFF), Expect({<<"RS485_RX", 0>>, <<"UART_M3_RX", 0>>}),
       Put("SCITXDA", ON), Expect({<<"RS485_RX", 1>>, <<"UART_M3_RX", 1>>}) >>

Rs485Script ==
    << Put("RS485_RD", ON), Put("UART_M3_RD", OFF), Put("SCI_RD", OFF),
       Put("RS485_TX", OFF), Expect({<<"UART_M3_RX", 0>>, <<"SCIRXDA", 0>>}),
       Put("RS485_TX", ON), Expect({<<"UART_M3_RX", 1>>, <<"SCIRXDA", 1>>}),
       Put("RS485_RD", OFF), Put("UART_M3_RD", ON),
       Put("UART_M3_TX", OFF), Expect({<<"RS485_RX", 0>>, <<"SCIRXDA", 0>>}),
       Put("UART_M3_TX", ON), Expect({<<"RS485_RX", 1>>, <<"SCIRXDA", 1>>}),
       Put("UART_M3_RD", OFF), Put("SCI_RD", ON),
       Put("SCITXDA", OFF), Expect({<<"RS485_RX", 0>>, <<"UART_M3_RX", 0>>}),
       Put("SCITXDA", ON), Expect({<<"RS485_RX", 1>>, <<"UART_M3_RX", 1>>}) >>

\* The bytes 1, 2, ... are written; the SRAM of the clock is read once, the
\* SDRAM as bytes, as shorts and as longs.  (A word stands for its bytes.)
Pattern(cells) == [i \in DOMAIN cells |-> Put(cells[i], i)]
PatternRead(cells) == << Expect({<<cells[i], i>> : i \in DOMAIN cells}) >>

RTCAccessTest == Pattern(RtcSram) \o PatternRead(RtcSram)

sdram_read_write ==
    Pattern(Sdram) \o PatternRead(Sdram) \o PatternRead(Sdram) \o PatternRead(Sdram)

\* The answer names the expanders at fault in two bits: one error here.
ExIoTestRoutine == << Expect(Configured) >>

IsoPowerSupplyLoopBackTest == << Expect({<<"DCDC_STATUS", OFF>>}) >>

OneHandler == {"RTC_TEST", "EXIO_TEST", "ISO_PS_TEST", "RAM_TEST"}

\* The tests the jig has.
JigTest ==
    {<<"LOOPBACK_TEST", c>> : c \in DOMAIN Loopback} \cup {<<"ADCP_TEST", c>> : c \in DOMAIN Pwm}
        \cup {<<k, 0>> : k \in OneHandler \cup {"RS485_TEST"}}

ASSUME CampaignAssumption ==
    \A k \in Campaign :
        /\ DOMAIN k = {"tests", "faults", "patient"}
        /\ k.tests \subseteq JigTest /\ k.patient \in BOOLEAN

Script(t) ==
    CASE t[1] = "RS485_TEST" -> Rs485Script
      [] t[1] = "RTC_TEST" -> RTCAccessTest
      [] t[1] = "EXIO_TEST" -> ExIoTestRoutine
      [] t[1] = "ISO_PS_TEST" -> IsoPowerSupplyLoopBackTest
      [] t[1] = "RAM_TEST" -> sdram_read_write
      [] t[1] = "ADCP_TEST" -> AdcpScript(t[2])
      [] t = <<"LOOPBACK_TEST", 29>> -> << Expect({<<Loopback[29].sense, 1>>}) >>
      [] t = <<"LOOPBACK_TEST", 32>> -> WiredAndScript
      [] OTHER -> LoopbackScript(t[2])

\* Mutant of Rest: the ADC test leaves its setpoint at the last level.
RestNoPwm(t) ==
    CASE t[1] = "RS485_TEST" ->
           << Put("RS485_TX", OFF), Put("RS485_RD", OFF), Put("UART_M3_TX", OFF),
              Put("UART_M3_RD", OFF), Put("SCITXDA", OFF), Put("SCI_RD", OFF) >>
      [] t[1] = "ADCP_TEST" -> << >>
      [] t[1] \in OneHandler -> << >>
      [] t = <<"LOOPBACK_TEST", 29>> -> << >>
      [] t = <<"LOOPBACK_TEST", 32>> -> << Put("BP_I2C_SDA", ON), Put("BP_I2C_SCL", ON) >>
      [] OTHER -> << Put(Loopback[t[2]].drive, OFF) >>

\* What is written to the lines in the end, whatever the verdict.
Rest(t) ==
    CASE t[1] = "RS485_TEST" ->
           << Put("RS485_TX", OFF), Put("RS485_RD", OFF), Put("UART_M3_TX", OFF),
              Put("UART_M3_RD", OFF), Put("SCITXDA", OFF), Put("SCI_RD", OFF) >>
      [] t[1] = "ADCP_TEST" -> << Put(Pwm[t[2]], 50) >>
      [] t[1] \in OneHandler -> << >>
      [] t = <<"LOOPBACK_TEST", 29>> -> << >>
      [] t = <<"LOOPBACK_TEST", 32>> -> << Put("BP_I2C_SDA", ON), Put("BP_I2C_SCL", ON) >>
      [] OTHER -> << Put(Loopback[t[2]].drive, OFF) >>

Puts(t) == {s \in {Script(t)[i] : i \in DOMAIN Script(t)} : s.op = "put"}
Expects(t) == {s \in {Script(t)[i] : i \in DOMAIN Script(t)} : s.op = "expect"}
Driven(t) == {s.line : s \in Puts(t)}
Read(t) == UNION {{w[1] : w \in s.want} : s \in Expects(t)}

Cells == Range(RtcSram) \cup Range(Sdram)
AtBoot == {w[1] : w \in Configured \cup {DcdcOn}}
Line == (UNION {Driven(t) : t \in Test}) \cup {x.rd : x \in Transceiver}
            \cup {x.tx : x \in Transceiver} \cup AtBoot
Kind == {t[1] : t \in Test}

\* What a host may ask for: a test in use, or a channel that has none.
NoChannel == 0
Askable == Test \cup {<<k, NoChannel>> : k \in Kind}
Channel == {t[2] : t \in Askable}
AskableIn(k) == {t \in Askable : \E u \in k.tests : t[1] = u[1] /\ t[2] \in {u[2], NoChannel}}

-----------------------------------------------------------------------------
VARIABLES
    campaign,  \* what the host and the boards do
    raised,    \* the tasks raised: LOOPBACK_TEST_REQUEST, ADCP_TEST_REQUEST, ...
    channel,   \* test_channel, adcp_test_channel
    run,       \* the test that runs, or Idle
    step,      \* the rest of its script
    level,     \* level[l]: what the firmware drives on line l
    result,    \* result[t]: loopback_x_result, adcp_x_result, rs485_test_result
    fault,     \* the fault of the board, now
    steady,    \* history: the fault has not changed during the run
    truth,     \* history: what the last run of t should say, if that is known
    asked      \* history: the tests asked for and not begun since

vars == <<campaign, raised, channel, run, step, level, result, fault, steady, truth, asked>>

Unknown == 2

TypeOK ==
    /\ campaign \in Campaign
    /\ raised \subseteq Kind
    /\ channel \in [Kind -> Channel]
    /\ run \in Test \cup {Idle}
    /\ run = Idle => step = << >>
    /\ level \in [Line -> 0 .. 16 \cup {50, 100, 181, 193}]
    /\ result \in [Test -> {0, 1}]
    /\ fault \in Fault \cup {Good}
    /\ steady \in BOOLEAN
    /\ truth \in [Test -> {0, 1, Unknown}]
    /\ asked \subseteq Test

\* PinoutSet drives every line low, the devices are set up, and no result says there is an error.
Init ==
    /\ campaign \in Campaign
    /\ raised = {}
    /\ channel = [k \in Kind |-> 0]
    /\ run = Idle
    /\ step = << >>
    /\ level = [l \in Line |-> CASE l = "EXIO1_CONFIG" -> 181
                               [] l = "EXIO2_CONFIG" -> 193
                               [] OTHER -> OFF]
    /\ result = [t \in Test |-> 0]
    /\ fault \in campaign.faults \cup {Good}
    /\ steady = FALSE
    /\ truth = [t \in Test |-> Unknown]
    /\ asked = {}

-----------------------------------------------------------------------------
\* What is really on a line, and what the bus carries: the level of the
\* transmitter, and anything when there is none or more than one.
Actual(l) ==
    CASE fault[1] = l -> fault[2]
      [] fault[1] # l /\ l \in I2cPin -> ON
      [] OTHER -> level[l]

Talking == {x \in Transceiver : Actual(x.rd) = ON}

BusLevels ==
    IF Cardinality(Talking) = 1 THEN {Actual(x.tx) : x \in Talking} ELSE {0, 1}

\* The line that reaches an input: a loopback or the ADC of a PWM.
Source(s) ==
    IF \E c \in DOMAIN Adc : Adc[c] = s
    THEN Pwm[CHOOSE c \in DOMAIN Adc : Adc[c] = s]
    ELSE (CHOOSE w \in Range(Loopback) : w.sense = s).drive

\* What reaches an input, as a set of possible levels: HRADC_INT_STS is the
\* wired AND of the I2C lines and SPI_STE_C28 is tied to 3.3 V.
Carried(s) ==
    CASE s \in {x.rx : x \in Transceiver} -> BusLevels
      [] s = "HRADC_INT_STS" -> {IF \A l \in I2cPin : Actual(l) = ON THEN ON ELSE OFF}
      [] s = "SPI_STE_C28" -> {ON}
      [] s = "DCDC_STATUS" -> {Actual("DCDC_CONTROL")}
      [] s \in Cells \cup AtBoot -> {Actual(s)}
      [] OTHER -> {Actual(Source(s))}

Readings(s) == IF fault[1] = s THEN {fault[2]} ELSE Carried(s)

\* Function type 0 of TestLoopBackSignal, TestAdcpRange, TestRs485Loop and of
\* the tests of components, which have no channel and are known by 0.
\* Commands are executed in the main loop, so between two handlers.
Request(t) ==
    /\ run = Idle
    /\ t \in AskableIn(campaign)
    /\ campaign.patient => raised = {}
    /\ raised' = raised \cup {t[1]}
    /\ channel' = [channel EXCEPT ![t[1]] = t[2]]
    /\ asked' = asked \cup ({t} \cap Test)
    /\ UNCHANGED <<campaign, run, step, level, result, fault, steady, truth>>

\* Function type 1: the answer to a poll.
Answer(t) == result[t]

\* The order of the tasks in the chain of TaskCheck.
Chain == <<"RTC_TEST", "EXIO_TEST", "ISO_PS_TEST", "LOOPBACK_TEST", "ADCP_TEST",
           "RS485_TEST", "RAM_TEST">>

Precedes(k, l) == \E i, j \in DOMAIN Chain : i < j /\ Chain[i] = k /\ Chain[j] = l

\* Mutant of Start: the handler runs the channel and the flag stays.
StartAnyChannel ==
    \E k \in raised, c \in Channel :
        /\ run = Idle
        /\ \A l \in raised : ~Precedes(l, k)
        /\ raised' = raised \ {k}
        /\ <<k, c>> \in Test
        /\ run' = <<k, c>>
        /\ step' = Script(<<k, c>>)
        /\ steady' = TRUE
        /\ asked' = asked \ {<<k, c>>}
        /\ UNCHANGED <<campaign, channel, level, result, fault, truth>>

\* TaskCheck calls the handler, which finds the script of the stored channel;
\* a channel number without a test ends the handler at once.
Start ==
    \E k \in raised :
        LET t == <<k, channel[k]>> IN
        /\ run = Idle
        /\ \A l \in raised : ~Precedes(l, k)
        /\ raised' = raised \ {k}
        /\ run' = IF t \in Test THEN t ELSE Idle
        /\ step' = IF t \in Test THEN Script(t) ELSE << >>
        /\ steady' = TRUE
        /\ asked' = asked \ {t}
        /\ UNCHANGED <<campaign, channel, level, result, fault, truth>>

PutLine ==
    /\ step # << >> /\ Head(step).op = "put"
    /\ level' = [level EXCEPT ![Head(step).line] = Head(step).val]
    /\ step' = Tail(step)
    /\ UNCHANGED <<campaign, raised, channel, run, result, fault, steady, truth, asked>>

\* Where the verdict of a test goes: on success, channel 15 writes the
\* result of channel 10.
PassTo(t) == IF t = <<"LOOPBACK_TEST", 15>> THEN <<"LOOPBACK_TEST", 10>> ELSE t

Conclude(t, v) ==
    LET r == IF v = 0 THEN PassTo(t) ELSE t IN
    /\ result' = [x \in Test |-> IF x = r THEN v ELSE result[x]]
    /\ truth' = [truth EXCEPT ![t] =
                    IF ~steady THEN Unknown
                    ELSE IF fault[1] \in Driven(t) \cup Read(t)
                         THEN 1 ELSE 0]
    /\ step' = Rest(t)
    /\ run' = IF Rest(t) = << >> THEN Idle ELSE run

\* Mutant of ReadLine: only one of two lines read together has to agree.
ReadLineEither ==
    /\ run # Idle /\ step # << >> /\ Head(step).op = "expect"
    /\ \E w \in Head(step).want :
         IF w[2] \in Readings(w[1])
         THEN IF Len(step) = 1 THEN Conclude(run, 0)
              ELSE step' = Tail(step) /\ UNCHANGED <<run, result, truth>>
         ELSE Conclude(run, 1)
    /\ UNCHANGED <<campaign, raised, channel, level, fault, steady, asked>>

\* A reading: as expected, and the script goes on or has been passed, or
\* not, and the test has failed.
ReadLine ==
    /\ run # Idle /\ step # << >> /\ Head(step).op = "expect"
    /\ \/ /\ \A w \in Head(step).want : w[2] \in Readings(w[1])
          /\ IF Len(step) = 1 THEN Conclude(run, 0)
             ELSE step' = Tail(step) /\ UNCHANGED <<run, result, truth>>
       \/ /\ \E w \in Head(step).want : Readings(w[1]) \ {w[2]} # {}
          /\ Conclude(run, 1)
    /\ UNCHANGED <<campaign, raised, channel, level, fault, steady, asked>>

\* The handler returns when the lines are at rest.
Return ==
    /\ run # Idle /\ step = << >>
    /\ run' = Idle
    /\ UNCHANGED <<campaign, raised, channel, step, level, result, fault, steady, truth,
                   asked>>

\* The board is repaired, replaced or breaks, possibly during a test.
BoardChanges ==
    /\ \E f \in (campaign.faults \cup {Good}) \ {fault} : fault' = f
    /\ steady' = FALSE
    /\ UNCHANGED <<campaign, raised, channel, run, step, level, result, truth, asked>>

Next ==
    \/ \E t \in Askable : Request(t)
    \/ Start
    \/ PutLine
    \/ ReadLine
    \/ Return
    \/ BoardChanges

\* The firmware's own steps; requests and changes of the board are not owed.
Firmware == Start \/ PutLine \/ ReadLine \/ Return

Spec == Init /\ [][Next]_vars
FairSpec == Spec /\ WF_vars(Firmware)

-----------------------------------------------------------------------------
(***************************************************************************)
(* What no run of t can tell: a cell or register stuck at the very value   *)
(* that is read from it, a transceiver that never or always transmits      *)
(* while others do, and a supply that is on whatever it is told.           *)
(***************************************************************************)
Misleading(t, f) ==
    \/ t[1] = "RTC_TEST" /\ \E i \in DOMAIN RtcSram : f[1] = RtcSram[i] /\ f[2] = i
    \/ t[1] = "RAM_TEST" /\ \E i \in DOMAIN Sdram : f[1] = Sdram[i] /\ f[2] = i
    \/ t[1] = "EXIO_TEST" /\ \E w \in Configured : f[1] = w[1] /\ f[2] = w[2]
    \/ t[1] = "ISO_PS_TEST" /\ \/ f[1] = "DCDC_STATUS" /\ f[2] = OFF
                               \/ f[1] = "DCDC_CONTROL" /\ f[2] # OFF
    \/ t[1] = "RS485_TEST" /\ f[1] \in {x.rd : x \in Transceiver}
    \/ t = <<"LOOPBACK_TEST", 29>> /\ f[1] = "SPI_STE_C28" /\ f[2] = ON

\* Channel 15 answers in the place of channel 10, and the others drive pins
\* that belong to the I2C peripheral.
Useless == {<<"LOOPBACK_TEST", c>> : c \in {15, 17, 18, 19, 20, 32}}

Tellable(k) ==
    k.tests \cap Useless = {} /\ \A t \in k.tests, f \in k.faults : ~Misleading(t, f)

(***************************************************************************)
(* The answer to a poll says what the last completed run of that test      *)
(* found, whatever else was tested since, and that finding is right: if    *)
(* the board did not change during the run, it is an error exactly when    *)
(* one of the lines the test uses is at fault.                             *)
(***************************************************************************)
AnswerTellsTheFault ==
    \A t \in Test : truth[t] # Unknown => Answer(t) = truth[t]

(***************************************************************************)
(* Two RS-485 drivers never work against each other on the bus, also not   *)
(* through the loopback channels that use a direction line as an output.   *)
(***************************************************************************)
NoBusContention == Cardinality({x \in Transceiver : level[x.rd] = ON}) <= 1

(***************************************************************************)
(* Between tests every line is at rest: low, or 50 % for a PWM that has    *)
(* been used; only the two I2C lines may be left high.  (Memory cells keep *)
(* what was written, and what was set up at boot stays.)                   *)
(***************************************************************************)
LinesAtRest ==
    run = Idle =>
        \A l \in Line \ (I2cPin \cup Cells \cup AtBoot) :
            \/ level[l] = OFF
            \/ level[l] = 50 /\ \E c \in DOMAIN Pwm : l = Pwm[c]

(***************************************************************************)
(* A host that waits for a test before asking for the next one gets the    *)
(* test it asks for: the channel it named is run.                          *)
(***************************************************************************)
AskedIsRun ==
    \A t \in UNION {k.tests : k \in {c \in Campaign : c.patient}} :
        campaign.patient /\ t \in asked ~> run = t

=============================================================================
