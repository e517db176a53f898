----------------------------- MODULE FrontPanel -----------------------------
(***************************************************************************)
(* The two LEDs and the buzzer of the board: the BSMP commands that ask    *)
(* for them (jiga.c), the task handlers that switch them through the       *)
(* second IO expander (exio.c), and the 1 ms timer interrupt that has them *)
(* switched off again after a few seconds (timer.c).                       *)
(*                                                                         *)
(* The expander register also drives the isolated DC-DC supply and the     *)
(* output buffers; every handler rewrites all of it from the shadow copy   *)
(* StsExpIO2.                                                              *)
(***************************************************************************)
EXTENDS SystemTask, FiniteSets

CONSTANTS
    Lamp,       \* the lamps in use, of "LedSts", "LedItlk" and "Sound"
    SecondMs,   \* timer interrupts per second (1000 in the code)
    SampleMs,   \* timer interrupts per EEPROM check (100 in the code)
    OnLimit     \* seconds a lamp stays on, less one (5 in the code)

ASSUME PanelAssumption ==
    /\ Lamp \subseteq {"LedSts", "LedItlk", "Sound"}
    /\ SecondMs \in Nat \ {0}
    /\ SampleMs \in Nat \ {0}
    /\ OnLimit \in Nat

VARIABLES
    mode,        \* mode[l]: LedStsMode, LedItlkMode, SoundMode
    lampTime,    \* lampTime[l]: LedStsTime, LedItlkTime, SoundTime
    StsExpIO2,   \* shadow of the expander's output register: its bits at 1
    out,         \* the output register in the expander
    time,        \* milliseconds of the running second
    iib_sample   \* milliseconds since the last EEPROM check

lampVars == <<mode, lampTime, StsExpIO2, out, time, iib_sample>>
panelVars == <<taskVars, lampVars>>

\* Bits of IO expander 2.
DCDC_OFF == 1
BUFFER_ENABLE == 2
Bit(l) == CASE l = "LedItlk" -> 3
            [] l = "LedSts"  -> 4
            [] l = "Sound"   -> 5

OnTask(l) == CASE l = "LedItlk" -> "LED_ITLK_TURN_ON"
               [] l = "LedSts"  -> "LED_STS_TURN_ON"
               [] l = "Sound"   -> "SOUND_ITLK_TURN_ON"

OffTask(l) == CASE l = "LedItlk" -> "LED_ITLK_TURN_OFF"
                [] l = "LedSts"  -> "LED_STS_TURN_OFF"
                [] l = "Sound"   -> "SOUND_ITLK_TURN_OFF"

PanelTypeOK ==
    /\ TaskTypeOK
    /\ mode \in [Lamp -> BOOLEAN]
    /\ lampTime \in [Lamp -> 0 .. OnLimit + 1]
    /\ StsExpIO2 \subseteq 0 .. 7
    /\ out \subseteq 0 .. 7
    /\ time \in 0 .. SecondMs - 1
    /\ iib_sample \in 0 .. SampleMs - 1

\* What ExIOInit, BuffersCtrl(1) and DcdcPwrCtrl(1) leave when interrupts
\* are first enabled.
PanelInit ==
    /\ TaskInit
    /\ mode = [l \in Lamp |-> FALSE]
    /\ lampTime = [l \in Lamp |-> 0]
    /\ StsExpIO2 = {BUFFER_ENABLE}
    /\ out = {BUFFER_ENABLE}
    /\ time = 0
    /\ iib_sample = 0

-----------------------------------------------------------------------------
\* Mutant of GlobalTimerIntHandler: a lamp past its limit is not asked off.
GlobalTimerIntHandlerNoOff ==
    LET second == time + 1 >= SecondMs
        sample == iib_sample + 1 >= SampleMs
    IN /\ time' = IF second THEN 0 ELSE time + 1
       /\ iib_sample' = IF sample THEN 0 ELSE iib_sample + 1
       /\ lampTime' = [l \in Lamp |->
                         IF second /\ mode[l] /\ lampTime[l] <= OnLimit
                         THEN lampTime[l] + 1 ELSE lampTime[l]]
       /\ Interrupt(IF sample THEN {"EEPROM_WRITE_REQUEST_CHECK"} ELSE {})
       /\ UNCHANGED <<mode, StsExpIO2, out>>

\* Mutant of GlobalTimerIntHandler: the counter of a lamp is not reset when
\* its limit is reached.
GlobalTimerIntHandlerNoReset ==
    LET second == time + 1 >= SecondMs
        sample == iib_sample + 1 >= SampleMs
        expired == {l \in Lamp : second /\ mode[l] /\ lampTime[l] > OnLimit}
    IN /\ time' = IF second THEN 0 ELSE time + 1
       /\ iib_sample' = IF sample THEN 0 ELSE iib_sample + 1
       /\ lampTime' = [l \in Lamp |-> IF second /\ mode[l] THEN lampTime[l] + 1
                                      ELSE lampTime[l]]
       /\ Interrupt({OffTask(l) : l \in expired})
       /\ UNCHANGED <<mode, StsExpIO2, out>>

(***************************************************************************)
(* The timer interrupt.  Every SampleMs it asks for the EEPROM check, and  *)
(* every second for a temperature sample and for the switching off of the  *)
(* lamps whose counter has passed the limit; the counter of a lamp counts  *)
(* only while the lamp is on.                                              *)
(***************************************************************************)
GlobalTimerIntHandler ==
    LET second == time + 1 >= SecondMs
        sample == iib_sample + 1 >= SampleMs
        expired == {l \in Lamp : second /\ mode[l] /\ lampTime[l] > OnLimit}
        raised == (IF sample THEN {"EEPROM_WRITE_REQUEST_CHECK"} ELSE {})
                  \cup (IF second THEN {"SAMPLE_BOARD_TEMP"} ELSE {})
                  \cup {OffTask(l) : l \in expired}
    IN /\ time' = IF second THEN 0 ELSE time + 1
       /\ iib_sample' = IF sample THEN 0 ELSE iib_sample + 1
       /\ lampTime' = [l \in Lamp |->
                         IF ~(second /\ mode[l]) THEN lampTime[l]
                         ELSE IF l \in expired THEN 0
                         ELSE lampTime[l] + 1]
       /\ Interrupt(raised)
       /\ UNCHANGED <<mode, StsExpIO2, out>>

\* A complete message has arrived on the serial line.
SerialMessage ==
    /\ Interrupt({"PROCESS_USB2SERIAL_MESSAGE"})
    /\ UNCHANGED lampVars

\* TestLedTurnOn and TestBuzzerTurnOn.
LampCommand == { {OnTask(l) : l \in Lamp \ {"Sound"}},
                 {OnTask(l) : l \in Lamp \cap {"Sound"}} }

Command ==
    /\ \E T \in LampCommand : EthernetCommand(T) \/ HandlerCommand(T)
    /\ UNCHANGED lampVars

-----------------------------------------------------------------------------
\* Mutant of LampCtrl: the shadow is written as a constant, not bit by bit.
LampCtrlWholeByte(l, sts) ==
    /\ StsExpIO2' = IF sts THEN StsExpIO2 \cup {Bit(l)} ELSE {}
    /\ mode' = [mode EXCEPT ![l] = sts]

\* Mutant of LampCtrl: the mode is set and the bit forgotten on switching off.
LampCtrlStaleBit(l, sts) ==
    /\ StsExpIO2' = IF sts THEN StsExpIO2 \cup {Bit(l)} ELSE StsExpIO2
    /\ mode' = [mode EXCEPT ![l] = sts]

\* LedStsCtrl, LedItlkCtrl and SoundSelCtrl up to their I2C write.
LampCtrl(l, sts) ==
    /\ StsExpIO2' = IF sts THEN StsExpIO2 \cup {Bit(l)} ELSE StsExpIO2 \ {Bit(l)}
    /\ mode' = [mode EXCEPT ![l] = sts]

LampTask == {OnTask(l) : l \in Lamp} \cup {OffTask(l) : l \in Lamp}

\* A handler starts; a lamp handler updates the shadow and the mode.
StartHandler ==
    /\ CallHandler
    /\ \/ \E l \in Lamp : /\ Chain[pos] \in {OnTask(l), OffTask(l)}
                          /\ LampCtrl(l, Chain[pos] = OnTask(l))
       \/ Chain[pos] \notin LampTask /\ UNCHANGED <<mode, StsExpIO2>>
    /\ UNCHANGED <<lampTime, out, time, iib_sample>>

\* A handler ends; a lamp handler has written the shadow to the expander.
EndHandler ==
    /\ HandlerReturn
    /\ out' = IF Chain[pos] \in LampTask THEN StsExpIO2 ELSE out
    /\ UNCHANGED <<mode, lampTime, StsExpIO2, time, iib_sample>>

PanelMainLoop ==
    \/ (CallTaskCheck \/ TestFlag \/ ClearFlag) /\ UNCHANGED lampVars
    \/ StartHandler
    \/ EndHandler

PanelNext ==
    \/ PanelMainLoop
    \/ GlobalTimerIntHandler
    \/ SerialMessage
    \/ Command

PanelSpec == PanelInit /\ [][PanelNext]_panelVars

\* The timer runs for ever and the main loop is never suspended for good.
FairPanelSpec ==
    PanelSpec /\ WF_panelVars(PanelMainLoop) /\ WF_panelVars(GlobalTimerIntHandler)

-----------------------------------------------------------------------------
(***************************************************************************)
(* The board shows what the firmware believes: outside the handler that is *)
(* switching, the register in the expander equals the shadow and the mode  *)
(* of each lamp, which the timer interrupt relies on, is the lamp's bit.   *)
(***************************************************************************)
BoardMatchesModes ==
    /\ \A l \in Lamp : mode[l] <=> Bit(l) \in StsExpIO2
    /\ pc # "run" => out = StsExpIO2

(***************************************************************************)
(* No sequence of lamp commands and timeouts ever touches the other        *)
(* outputs of the expander: the buffers stay enabled and the isolated      *)
(* supply stays on.                                                        *)
(***************************************************************************)
SupplyUndisturbed == out \ {Bit(l) : l \in Lamp} = {BUFFER_ENABLE}

Reaches(t) == pc = "scan" /\ pos <= Len(Chain) /\ Chain[pos] = t

(***************************************************************************)
(* A lamp does not stay on for ever: it is switched off provided TaskCheck *)
(* keeps getting as far as the branch that does it, which commands that    *)
(* keep higher tasks pending can prevent.                                  *)
(***************************************************************************)
LampGoesOff ==
    \A l \in Lamp : []<>Reaches(OffTask(l)) => (mode[l] ~> ~mode[l])

=============================================================================
