----------------------------- MODULE SystemTask -----------------------------
(***************************************************************************)
(* The cooperative task dispatcher of the firmware (system_task.c) and the *)
(* main loop that drives it (main.c).                                      *)
(*                                                                         *)
(* Every kind of work has one volatile bool.  TaskSetNew raises it, from   *)
(* an interrupt handler or from main-loop code; TaskCheck, called once per *)
(* turn of the main loop, tests the bools in a fixed order, clears the     *)
(* first one it finds raised and only then calls the handler.  A turn      *)
(* starts with EthernetProcessData, which can run a BSMP command and so    *)
(* raise tasks too.                                                        *)
(*                                                                         *)
(* Interrupts can come between any two of the steps below: between two     *)
(* tests of the chain, between the test of a bool and its clearing, and    *)
(* while a handler runs.  This module has the steps only; TaskService      *)
(* states what they guarantee and FrontPanel gives handlers their bodies.  *)
(***************************************************************************)
EXTENDS Naturals, Sequences

CONSTANTS
    Task,         \* the task numbers of system_task.h in use
    Chain,        \* the order in which TaskCheck tests them
    IsrTask,      \* the tasks some interrupt handler raises
    BsmpTask,     \* the tasks a BSMP function raises
    BsmpHandler   \* the tasks whose handler runs the BSMP server

(***************************************************************************)
(* The complete chain of TaskCheck.  PROCESS_RS485_MESSAGE is not in it:   *)
(* its branch is commented out.                                            *)
(***************************************************************************)
TaskCheckChain ==
    << "PROCESS_CAN_MESSAGE", "PROCESS_USB2SERIAL_MESSAGE",
       "PROCESS_ETHERNET_MESSAGE", "PROCESS_DISPLAY_MESSAGE", "SAMPLE_RTC",
       "PROCESS_IIB_MESSAGE", "CLEAR_ITLK_ALARM", "POWER_TEMP_SAMPLE",
       "EEPROM_WRITE_REQUEST_CHECK", "LED_STS_TURN_ON", "LED_STS_TURN_OFF",
       "LED_ITLK_TURN_ON", "LED_ITLK_TURN_OFF", "SOUND_ITLK_TURN_ON",
       "SOUND_ITLK_TURN_OFF", "SAMPLE_BOARD_TEMP", "RTC_TEST", "EXIO_TEST",
       "ISO_PS_TEST", "LOOPBACK_TEST", "ADCP_TEST", "RS485_TEST",
       "FLASH_TEST", "RAM_TEST", "TEMP_SENSE_TEST", "BKP_I2C_TEST" >>

ASSUME ChainAssumption ==
    /\ Chain \in Seq(Task)
    /\ \A i, j \in DOMAIN Chain : Chain[i] = Chain[j] => i = j

ASSUME SourceAssumption ==
    /\ IsrTask \subseteq Task
    /\ BsmpTask \subseteq Task
    /\ BsmpHandler \subseteq Task

VARIABLES
    flag,   \* flag[t]: the volatile bool of task t
    pc,     \* where the main loop is
    pos     \* the branch of TaskCheck it has reached

taskVars == <<flag, pc, pos>>

TaskTypeOK ==
    /\ flag \in [Task -> BOOLEAN]
    /\ pc \in {"eth", "scan", "take", "call", "run"}
    /\ pos \in 1 .. Len(Chain) + 1
    /\ pc \in {"take", "call", "run"} => pos \in 1 .. Len(Chain)

TaskInit ==
    /\ flag = [t \in Task |-> FALSE]
    /\ pc = "eth"
    /\ pos = 1

-----------------------------------------------------------------------------
\* A series of TaskSetNew calls, one for each task of T.
TaskSetNew(T) == flag' = [t \in Task |-> flag[t] \/ t \in T]

\* An interrupt handler raises tasks, wherever the main loop is.
Interrupt(T) ==
    /\ TaskSetNew(T)
    /\ UNCHANGED <<pc, pos>>

\* EthernetProcessData runs a BSMP command that raises tasks.
EthernetCommand(T) ==
    /\ pc = "eth"
    /\ TaskSetNew(T)
    /\ UNCHANGED <<pc, pos>>

\* EthernetProcessData returns and TaskCheck is called.
CallTaskCheck ==
    /\ pc = "eth"
    /\ pc' = "scan"
    /\ pos' = 1
    /\ UNCHANGED flag

\* Mutant of TestFlag: the branch after one that is not taken is skipped.
TestFlagSkips ==
    /\ pc = "scan"
    /\ IF pos > Len(Chain) THEN pc' = "eth" /\ pos' = 1
       ELSE IF flag[Chain[pos]] THEN pc' = "take" /\ pos' = pos
       ELSE pc' = "scan" /\ pos' = IF pos = Len(Chain) THEN pos + 1 ELSE pos + 2
    /\ UNCHANGED flag

\* Mutant of TestFlag: the scan runs past the end of the chain.
TestFlagOverrun ==
    /\ pc = "scan"
    /\ IF pos > Len(Chain) + 1 THEN pc' = "eth" /\ pos' = 1
       ELSE IF pos <= Len(Chain) /\ flag[Chain[pos]]
            THEN pc' = "take" /\ pos' = pos
            ELSE pc' = "scan" /\ pos' = pos + 1
    /\ UNCHANGED flag

\* One test of the else-if chain; past its end TaskCheck returns.
TestFlag ==
    /\ pc = "scan"
    /\ IF pos > Len(Chain) THEN pc' = "eth" /\ pos' = 1
       ELSE IF flag[Chain[pos]] THEN pc' = "take" /\ pos' = pos
       ELSE pc' = "scan" /\ pos' = pos + 1
    /\ UNCHANGED flag

\* The branch is taken: the flag is cleared before the handler is called.
ClearFlag ==
    /\ pc = "take"
    /\ flag' = [flag EXCEPT ![Chain[pos]] = FALSE]
    /\ pc' = "call"
    /\ UNCHANGED pos

CallHandler ==
    /\ pc = "call"
    /\ pc' = "run"
    /\ UNCHANGED <<flag, pos>>

\* A handler that runs the BSMP server executes a command that raises tasks.
HandlerCommand(T) ==
    /\ pc = "run"
    /\ Chain[pos] \in BsmpHandler
    /\ TaskSetNew(T)
    /\ UNCHANGED <<pc, pos>>

\* Mutant of HandlerReturn: the flag is lowered when the handler is done.
HandlerReturnClearsFlag ==
    /\ pc = "run"
    /\ pc' = "eth"
    /\ pos' = 1
    /\ flag' = [flag EXCEPT ![Chain[pos]] = FALSE]

\* The handler returns, and with it TaskCheck: one task per call.
HandlerReturn ==
    /\ pc = "run"
    /\ pc' = "eth"
    /\ pos' = 1
    /\ UNCHANGED flag

=============================================================================
