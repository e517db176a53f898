------------------------------- MODULE CanBkp -------------------------------
(***************************************************************************)
(* The CAN link to the power modules (can_bkp.c), the reset of interlocks  *)
(* (main_var.c) and the words and flags through which the C28 core learns  *)
(* of them (ipc_lib.c).                                                    *)
(*                                                                         *)
(* A message that passes the filter of a message object is kept there and  *)
(* raises an interrupt; its handler sets the flag of the object and the    *)
(* task PROCESS_CAN_MESSAGE.  The task looks at the flags one after the    *)
(* other, reads the object, stores what the message says and clears the    *)
(* flag.  Interrupts and the C28 come between any two of these steps.      *)
(*                                                                         *)
(* The link is not started in this build (system.c:156 is commented out);  *)
(* the module models the code as it runs when it is.                       *)
(***************************************************************************)
EXTENDS Naturals, Sequences, FiniteSets

CONSTANTS
    Models,     \* the power supply models of the boards
    Ids,        \* the identifiers of the messages on the bus of each model
    Contents,   \* what a status message says: [alarms, interlocks], bit numbers
    MaxValue    \* bound of the measured values

ASSUME ContentsAssumption ==
    /\ \A c \in Contents : c.alarms \subseteq 1 .. 16 /\ c.interlocks \subseteq 1 .. 16
    /\ MaxValue \in Nat

Objects == 1 .. 6    \* message objects 8 and 9 are never set up
TxObject == 7
Nothing == [value |-> 0, alarms |-> {}, interlocks |-> {}, empty |-> TRUE]

-----------------------------------------------------------------------------
(***************************************************************************)
(* The bits of the status messages, in order: the alarm each one stands    *)
(* for, and the interlock with the word it belongs to.                     *)
(***************************************************************************)
Hard(name) == [word |-> "HARD_INTERLOCK", name |-> name]
Soft(name) == [word |-> "SOFT_INTERLOCK", name |-> name]
Alarm(name) == [word |-> "PSModuleAlarms", name |-> name]

FapDcdcAlarms ==
    << "OUT_VOLTAGE", "IN_VOLTAGE", "ARM1_CURRENT", "ARM2_CURRENT", "IN_CURRENT",
       "IGBT1_TEMP", "IGBT2_TEMP", "L1_TEMP", "L2_TEMP", "HEATSINK_TEMP", "HUMIDITY" >>

FapDcdcInterlocks ==
    << Hard("OUT_OVERVOLTAGE"), Hard("IN_OVERVOLTAGE"), Hard("ARM1_OVERCURRENT"),
       Hard("ARM2_OVERCURRENT"), Hard("IN_OVERCURRENT"), Soft("IGBT1_OVERTEMP"),
       Soft("IGBT2_OVERTEMP"), Soft("L1_OVERTEMP"), Soft("L2_OVERTEMP"),
       Soft("HEATSINK_OVERTEMP"), Hard("EXTERNAL_INTERLOCK"), Hard("DRIVER1_FAULT"),
       Hard("DRIVER2_FAULT"), Soft("OVER_HUMIDITY_FAULT") >>

FapAcdcAlarms ==
    << "OUT1_CURRENT", "OUT2_CURRENT", "OUT1_VOLTAGE", "OUT2_VOLTAGE", "LEAKAGE_CURRENT",
       "HEATSINK_TEMP", "WATER_TEMP", "RECTFIER1_TEMP", "RECTFIER2_TEMP", "L1_TEMP",
       "L2_TEMP", "HUMIDITY" >>

\* The fourth bit, of the voltage of rectifier 2, sets that of rectifier 1.
FapAcdcElectrical ==
    << Hard("OUT1_OVERCURRENT"), Hard("OUT2_OVERCURRENT"), Hard("OUT1_OVERVOLTAGE"),
       Hard("OUT1_OVERVOLTAGE"), Hard("LEAKAGE_OVERCURRENT") >>

FapAcdcThermal ==
    << Soft("HEATSINK_OVERTEMP"), Soft("WATER_OVERTEMP"), Soft("RECTFIER1_OVERTEMP"),
       Soft("RECTFIER2_OVERTEMP"), Soft("L1_OVERTEMP"), Soft("L2_OVERTEMP") >>

FapAcdcMains ==
    << Hard("AC_FAULT"), Hard("AC_OVERCURRENT"), Soft("AC_TRANSF_OVERTEMP"),
       Soft("WATER_FLUX_FAULT"), Soft("OVER_HUMIDITY_FAULT") >>

FacAcdcAlarms ==
    << "IN_CURRENT", "IN_CURRENT", "OUT1_CURRENT", "OUT2_CURRENT", "L1_TEMP", "L2_TEMP",
       "HUMIDITY" >>

FacAcdcInterlocks ==
    << Hard("IN_OVERCURRENT"), Hard("IN_OVERCURRENT"), Hard("OUT1_OVERCURRENT"),
       Hard("OUT2_OVERCURRENT"), Soft("L1_OVERTEMP"), Soft("L2_OVERTEMP"),
       Soft("WATER_FLUX_FAULT"), Hard("AC_OVERCURRENT"), Soft("OVER_HUMIDITY_FAULT") >>

FacDcdcAlarms == << "OUT1_CURRENT", "IGBT1_TEMP", "IGBT2_TEMP", "HUMIDITY" >>

FacDcdcInterlocks ==
    << Hard("OUT1_OVERCURRENT"), Soft("IGBT1_OVERTEMP"), Soft("IGBT2_OVERTEMP"),
       Soft("OVER_HUMIDITY_FAULT") >>

-----------------------------------------------------------------------------
(***************************************************************************)
(* What a model does with its message objects.  InitCanBkp gives each its  *)
(* identifier; FAC_Full_ACDC_10kHz has no break and gets, for objects 3    *)
(* and 4, those of the case after it.                                      *)
(***************************************************************************)
FapDcdcIds == << "010", "011", "012", "013", "01F" >>
FapAcdcIds == << "010", "011", "012", "013", "014", "01F" >>
FacDcdcIds == << "010", "011", "020", "021" >>

ObjectIds(m) ==
    CASE m = "FAP_DCDC_20kHz" -> FapDcdcIds
      [] m = "FAP_ACDC" -> FapAcdcIds
      [] m \in {"FAC_Full_ACDC_10kHz", "FAC_Full_DCDC_20kHz"} -> FacDcdcIds
      [] OTHER -> << >>

StatusObjects(m) ==
    CASE m \in {"FAP_DCDC_20kHz", "FAC_Full_ACDC_10kHz"} -> {4}
      [] m = "FAP_ACDC" -> {5}
      [] m = "FAC_Full_DCDC_20kHz" -> {2, 4}
      [] OTHER -> {}

\* The objects whose messages carry measured values, known by one of them.
FapDcdcMeasures == {1, 2, 3, 5}
FapAcdcMeasures == {1, 2, 3, 4, 6}
FacAcdcMeasures == {1, 2, 3}
FacDcdcMeasures == {1, 3}

MeasureObjects(m) ==
    CASE m = "FAP_DCDC_20kHz" -> FapDcdcMeasures
      [] m = "FAP_ACDC" -> FapAcdcMeasures
      [] m = "FAC_Full_ACDC_10kHz" -> FacAcdcMeasures
      [] m = "FAC_Full_DCDC_20kHz" -> FacDcdcMeasures
      [] OTHER -> {}

\* Those whose highest values are kept in NetSignals too.
PeakObjects(m) == IF m = "FAP_DCDC_20kHz" THEN {1, 2, 3} ELSE {}

AlarmTable(m) ==
    CASE m = "FAP_DCDC_20kHz" -> FapDcdcAlarms
      [] m = "FAP_ACDC" -> FapAcdcAlarms
      [] m = "FAC_Full_ACDC_10kHz" -> FacAcdcAlarms
      [] OTHER -> FacDcdcAlarms

InterlockTable(m) ==
    CASE m = "FAP_DCDC_20kHz" -> FapDcdcInterlocks
      [] m = "FAP_ACDC" -> FapAcdcElectrical \o FapAcdcThermal \o FapAcdcMains
      [] m = "FAC_Full_ACDC_10kHz" -> FacAcdcInterlocks
      [] OTHER -> FacDcdcInterlocks

\* All but one report an interlock once, when its status changes.
ReportsOnce(m) == m # "FAC_Full_ACDC_10kHz"

Bits(m) == DOMAIN InterlockTable(m)
Names == UNION {{InterlockTable(m)[b] : b \in Bits(m)} : m \in Models}
AlarmNames == UNION {{Alarm(AlarmTable(m)[b]) : b \in DOMAIN AlarmTable(m)} : m \in Models}
IpcFlags == {"HARD_INTERLOCK", "SOFT_INTERLOCK", "RESET_INTERLOCKS"}

Message(m, n) ==
    IF n \in StatusObjects(m)
    THEN {[value |-> 0, alarms |-> c.alarms \cap DOMAIN AlarmTable(m),
           interlocks |-> c.interlocks \cap Bits(m), empty |-> FALSE] : c \in Contents}
    ELSE {[value |-> v, alarms |-> {}, interlocks |-> {}, empty |-> FALSE] :
             v \in 0 .. MaxValue}

-----------------------------------------------------------------------------
VARIABLES
    model,      \* IPC_MtoC_Msg.PSModule.Model
    object,     \* object[n]: the new message in message object n, or Nothing
    sending,    \* message object 7 has a message to send
    received,   \* g_bRXFlag1 .. g_bRXFlag7
    tasks,      \* PROCESS_CAN_MESS and ITLK_ALARM_RESET
    pc,         \* where the main loop is
    at,         \* the object CanCheck looks at
    bit,        \* the interlock bit it looks at
    data,       \* pui8MsgData
    shown,      \* the values in the module's record and in NetSignals
    peak,       \* the highest ones, in NetSignals
    latched,    \* the ...ItlkSts that are set: pairs of object and bit
    alarms,     \* PSModuleAlarms
    words,      \* IPC_MtoC_Msg.PSModule.HardInterlocks and SoftInterlocks
    flags,      \* the IPC flags not acknowledged by the C28
    known,      \* history: the interlocks of words the C28 has read there
    reported,   \* history: what the messages read since the last reset said
    newest      \* history: the last value each object received

link == <<object, sending, received>>
loop == <<pc, at, bit, data>>
store == <<shown, peak, latched, alarms, words, reported>>
vars == <<model, link, tasks, loop, store, flags, known, newest>>

TypeOK ==
    /\ model \in Models
    /\ \A n \in Objects : object[n] = Nothing \/ object[n] \in Message(model, n)
    /\ sending \in BOOLEAN
    /\ received \subseteq Objects \cup {TxObject}
    /\ tasks \subseteq {"PROCESS_CAN_MESSAGE", "CLEAR_ITLK_ALARM"}
    /\ pc \in {"idle", "test", "store", "interlock", "notify", "clear", "reset", "transmit"}
    /\ at \in Objects /\ bit \in 1 .. 17
    /\ data = Nothing \/ data \in Message(model, at)
    /\ shown \in [Objects -> 0 .. MaxValue]
    /\ peak \in [Objects -> 0 .. MaxValue]
    /\ newest \in [Objects -> 0 .. MaxValue]
    /\ latched \subseteq StatusObjects(model) \X Bits(model)
    /\ alarms \subseteq AlarmNames /\ words \subseteq Names
    /\ flags \subseteq IpcFlags
    /\ known \subseteq words
    /\ reported \subseteq Names \cup AlarmNames

Init ==
    /\ model \in Models
    /\ object = [n \in Objects |-> Nothing]
    /\ sending = FALSE /\ received = {} /\ tasks = {}
    /\ pc = "idle" /\ at = 1 /\ bit = 1 /\ data = Nothing
    /\ shown = [n \in Objects |-> 0] /\ peak = shown /\ newest = shown
    /\ latched = {} /\ alarms = {} /\ words = {}
    /\ flags = {} /\ known = {} /\ reported = {}

-----------------------------------------------------------------------------
\* Mutant of CANIntHandler: the task is not raised.
CANIntHandlerNoTask(n) ==
    /\ received' = received \cup {n}
    /\ UNCHANGED tasks

\* The handler of the interrupt of an object.  It also sets the flag of the
\* transmitter's object, which nothing reads.  g_bErrFlag is never read and
\* left out.
CANIntHandler(n) ==
    /\ received' = received \cup {n}
    /\ tasks' = tasks \cup {"PROCESS_CAN_MESSAGE"}

(***************************************************************************)
(* The bus: the handler runs before the main loop goes on.  A message for  *)
(* an object that still holds one is lost or replaces it: which depends on *)
(* the controller's handling of the MSG_OBJ_FIFO bit, so both are allowed  *)
(* (to lose one is a step that changes nothing).                           *)
(***************************************************************************)
Arrive(id) ==
    \E n \in DOMAIN ObjectIds(model) :
        /\ ObjectIds(model)[n] = id
        /\ \E m \in Message(model, n) :
             /\ object' = [object EXCEPT ![n] = m]
             /\ newest' = [newest EXCEPT ![n] = m.value]
        /\ CANIntHandler(n)
        /\ UNCHANGED <<model, sending, loop, store, flags, known>>

\* The end of a transmission comes to the same handler.
TransmissionEnds ==
    /\ sending
    /\ sending' = FALSE
    /\ CANIntHandler(TxObject)
    /\ UNCHANGED <<model, object, loop, store, flags, known, newest>>

\* The panel or a supervisor asks for the reset of alarms and interlocks.
AskReset ==
    /\ tasks' = tasks \cup {"CLEAR_ITLK_ALARM"}
    /\ UNCHANGED <<model, link, loop, store, flags, known, newest>>

\* The C28 acknowledges a flag and reads the word it stands for.
C28Reads(f) ==
    /\ f \in flags
    /\ flags' = flags \ {f}
    /\ known' = known \cup {w \in words : w.word = f}
    /\ UNCHANGED <<model, link, tasks, loop, store, newest>>

-----------------------------------------------------------------------------
\* TaskCheck tests PROCESS_CAN_MESS first.
CallCanCheck ==
    /\ pc = "idle" /\ "PROCESS_CAN_MESSAGE" \in tasks
    /\ tasks' = tasks \ {"PROCESS_CAN_MESSAGE"}
    /\ pc' = "test" /\ at' = 1
    /\ UNCHANGED <<model, link, bit, data, store, flags, known, newest>>

Advance ==
    IF at < Len(ObjectIds(model))
    THEN pc' = "test" /\ at' = at + 1
    ELSE pc' = "idle" /\ at' = 1

\* The flag of the object is tested; when it is set CANMessageGet reads the
\* object and marks it free.  An object without a new message leaves what was
\* read before in the buffer.
TestFlag ==
    /\ pc = "test"
    /\ IF at \in received
       THEN /\ pc' = "store"
            /\ data' = IF object[at] = Nothing THEN data ELSE object[at]
            /\ object' = [object EXCEPT ![at] = Nothing]
            /\ UNCHANGED at
       ELSE Advance /\ UNCHANGED <<data, object>>
    /\ UNCHANGED <<model, sending, received, tasks, bit, store, flags, known, newest>>

\* Mutant of StoreAlarms: the alarms are those of the newest message.
StoreAlarmsAnew(set) == alarms' = set

StoreAlarms(set) == alarms' = alarms \cup set

\* Mutant of StoreValue: the value is stored only when it is a new peak.
StoreValuePeak(v) ==
    /\ shown' = [shown EXCEPT ![at] = IF v > @ THEN v ELSE @]
    /\ peak' = [peak EXCEPT ![at] = IF at \in PeakObjects(model) /\ v > @ THEN v ELSE @]

StoreValue(v) ==
    /\ shown' = [shown EXCEPT ![at] = IF at \in MeasureObjects(model) THEN v ELSE @]
    /\ peak' = [peak EXCEPT ![at] = IF at \in PeakObjects(model) /\ v > @ THEN v ELSE @]

\* The bits from b on that have to be reported.
Fresh(b) ==
    {k \in data.interlocks : k >= b /\ (ReportsOnce(model) => <<at, k>> \notin latched)}

\* What the message says is stored; the status bits of a message that says
\* nothing of an interlock are cleared, the others come next.
StoreData ==
    /\ pc = "store"
    /\ LET said == {Alarm(AlarmTable(model)[b]) : b \in data.alarms} IN
       StoreAlarms(said) /\ reported' = reported \cup said
    /\ StoreValue(data.value)
    /\ latched' = latched \ ({at} \X (Bits(model) \ data.interlocks))
    /\ bit' = 1
    /\ pc' = IF at \in StatusObjects(model) /\ Fresh(1) # {} THEN "interlock" ELSE "clear"
    /\ UNCHANGED <<model, link, tasks, at, data, words, flags, known, newest>>

\* The next interlock: its status and its bit in the word the C28 reads.
SetInterlock ==
    /\ pc = "interlock"
    /\ LET b == CHOOSE k \in Fresh(bit) : \A j \in Fresh(bit) : k <= j IN
       /\ bit' = b
       /\ latched' = latched \cup {<<at, b>>}
       /\ words' = words \cup {InterlockTable(model)[b]}
       /\ reported' = reported \cup {InterlockTable(model)[b]}
    /\ pc' = "notify"
    /\ UNCHANGED <<model, link, tasks, at, data, shown, peak, alarms, flags, known, newest>>

\* Mutant of SendIpcFlag: one flag is used for both words.
SendIpcFlagHard ==
    /\ pc = "notify"
    /\ flags' = flags \cup {"HARD_INTERLOCK"}
    /\ bit' = bit + 1
    /\ pc' = IF Fresh(bit + 1) # {} THEN "interlock" ELSE "clear"
    /\ UNCHANGED <<model, link, tasks, at, data, store, known, newest>>

\* The C28 is told which word has changed.
SendIpcFlag ==
    /\ pc = "notify"
    /\ flags' = flags \cup {InterlockTable(model)[bit].word}
    /\ bit' = bit + 1
    /\ pc' = IF Fresh(bit + 1) # {} THEN "interlock" ELSE "clear"
    /\ UNCHANGED <<model, link, tasks, at, data, store, known, newest>>

\* The flag of the object is cleared last.
ClearFlag ==
    /\ pc = "clear"
    /\ received' = received \ {at}
    /\ Advance
    /\ data' = Nothing
    /\ UNCHANGED <<model, object, sending, tasks, bit, store, flags, known, newest>>

-----------------------------------------------------------------------------
\* InterlockAlarmReset: the C28 is told first.
CallReset ==
    /\ pc = "idle" /\ tasks = {"CLEAR_ITLK_ALARM"}
    /\ tasks' = {}
    /\ flags' = flags \cup {"RESET_INTERLOCKS"}
    /\ pc' = "reset"
    /\ UNCHANGED <<model, link, at, bit, data, store, known, newest>>

\* Mutant of InterlockStatusClear: the status of one bit is forgotten.
InterlockStatusClearMost == latched' = latched \cap (StatusObjects(model) \X {6})

\* The status bits; of the buck module those of temperature, water and
\* humidity stay.
InterlockStatusClear ==
    latched' = IF ReportsOnce(model) THEN {} ELSE latched \cap ({4} \X {5, 6, 7, 9})

\* The words, PSModuleAlarms and the status bits are cleared.
InterlockAlarmReset ==
    /\ pc = "reset"
    /\ words' = {} /\ known' = {} /\ alarms' = {} /\ reported' = {}
    /\ InterlockStatusClear
    /\ pc' = "transmit"
    /\ UNCHANGED <<model, link, tasks, at, bit, data, shown, peak, flags, newest>>

\* The reset message to the modules: its object raises an interrupt when the
\* message has been sent.
SendCanMessage ==
    /\ pc = "transmit"
    /\ sending' = TRUE
    /\ pc' = "idle"
    /\ UNCHANGED <<model, object, received, tasks, at, bit, data, store, flags, known, newest>>

MainLoop ==
    \/ CallCanCheck
    \/ TestFlag
    \/ StoreData
    \/ SetInterlock
    \/ SendIpcFlag
    \/ ClearFlag
    \/ CallReset
    \/ InterlockAlarmReset
    \/ SendCanMessage

Next ==
    \/ MainLoop
    \/ AskReset
    \/ \E id \in Ids[model] : Arrive(id)
    \/ TransmissionEnds
    \/ \E f \in IpcFlags : C28Reads(f)

Spec == Init /\ [][Next]_vars

-----------------------------------------------------------------------------
(***************************************************************************)
(* The C28 learns of every interlock: one that stands in a word has been   *)
(* read there by the C28, or the flag of that word is still raised, or the *)
(* main loop is about to raise it.  The word is written before the flag,   *)
(* so a C28 that comes in between misses nothing.                          *)
(***************************************************************************)
InterlockReachesC28 ==
    \A w \in words :
        \/ w \in known
        \/ w.word \in flags
        \/ pc = "notify" /\ InterlockTable(model)[bit] = w

(***************************************************************************)
(* An interlock whose status bit suppresses further reports stands in the  *)
(* words: a reset that clears the words leaves no status bit behind that   *)
(* would keep an interlock still present from being reported again.        *)
(***************************************************************************)
LatchedIsReported ==
    ReportsOnce(model) => \A s \in latched : InterlockTable(model)[s[2]] \in words

(***************************************************************************)
(* What a module reported stays until a reset: every alarm in              *)
(* PSModuleAlarms and every interlock in the words, also when later        *)
(* messages no longer report it.                                           *)
(***************************************************************************)
NothingForgotten == reported \subseteq words \cup alarms

(***************************************************************************)
(* What is shown of a module is what it sent last, once its message has    *)
(* been read and stored, and the peak shown is not below it: no other      *)
(* object's message, which all pass through one buffer, gets in its place. *)
(***************************************************************************)
ShownIsNewest ==
    \A n \in MeasureObjects(model) :
        object[n] = Nothing /\ (pc = "store" => at # n) =>
            /\ shown[n] = newest[n]
            /\ n \in PeakObjects(model) => peak[n] >= shown[n]

(***************************************************************************)
(* A flag set by the interrupt leads to the reading of its object: the     *)
(* task is raised again, or the CanCheck that runs has not come past the   *)
(* object yet.  (Object 7 is the transmitter's: its flag is never read.)   *)
(***************************************************************************)
FlagIsServed ==
    \A n \in Objects \cap received :
        \/ "PROCESS_CAN_MESSAGE" \in tasks
        \/ pc \notin {"idle", "reset", "transmit"} /\ at <= n

(***************************************************************************)
(* The comment at can_bkp.c:190 says the flag indicates that a received    *)
(* message is pending for this message object: a message not read yet has  *)
(* its flag set.                                                           *)
(***************************************************************************)
PendingIsFlagged ==
    \A n \in Objects : object[n] # Nothing => n \in received

=============================================================================
