---------------------------- MODULE MCDispatcher ----------------------------
(***************************************************************************)
(* The dispatcher with a cut of the chain that keeps tasks of every        *)
(* origin, interleaved in priority as they are in the code: the UART       *)
(* interrupt, the 1 ms timer interrupt and BSMP commands.  A behaviour     *)
(* follows either the requests, with opaque handlers and interrupts at     *)
(* any moment, or the lamps, with their handlers and the timer.            *)
(***************************************************************************)
EXTENDS TaskService, FrontPanel

VARIABLE follows   \* "requests" or "lamps"

dispatcherVars == <<vars, lampVars, follows>>

MCIsrTask ==
    {"PROCESS_USB2SERIAL_MESSAGE", "EEPROM_WRITE_REQUEST_CHECK", "SAMPLE_BOARD_TEMP"}
        \cup {OffTask(l) : l \in Lamp}

MCBsmpTask == {OnTask(l) : l \in Lamp}

MCTask == MCIsrTask \cup MCBsmpTask

MCChain == SelectSeq(TaskCheckChain, LAMBDA t : t \in MCTask)

MCBsmpHandler == {"PROCESS_USB2SERIAL_MESSAGE"}

DispatcherInit ==
    /\ Init
    /\ PanelInit
    /\ follows \in {"requests", "lamps"}

Requests ==
    /\ follows = "requests"
    /\ Next
    /\ UNCHANGED <<lampVars, follows>>

Lamps ==
    /\ follows = "lamps"
    /\ PanelNext
    /\ UNCHANGED <<due, seen, follows>>

DispatcherNext == Requests \/ Lamps

\* The fairness of FairSpec and that of FairPanelSpec.
MCSpec ==
    /\ DispatcherInit
    /\ [][DispatcherNext]_dispatcherVars
    /\ WF_dispatcherVars(follows = "requests" /\ MainLoop /\ UNCHANGED <<lampVars, follows>>)
    /\ WF_dispatcherVars(follows = "lamps" /\ PanelMainLoop /\ UNCHANGED <<due, seen, follows>>)
    /\ WF_dispatcherVars(follows = "lamps" /\ GlobalTimerIntHandler
                            /\ UNCHANGED <<due, seen, follows>>)

=============================================================================
