----------------------------- MODULE Parameters -----------------------------
(***************************************************************************)
(* The parameters of the board in its EEPROM (eeprom.c): commands save     *)
(* them in RAM and mark them; every 100 ms the main loop writes the marked *)
(* ones, one after the other, each with a page write of the memory chip.   *)
(* Only the serial number is read back and compared: that is the test of   *)
(* the EEPROM.                                                             *)
(*                                                                         *)
(* The power can fail at any time: RAM is lost, and the bytes that the     *)
(* chip is programming have no defined value.                              *)
(***************************************************************************)
EXTENDS Naturals, Sequences, FiniteSets, FiniteSetsExt

CONSTANTS
    Value,       \* what hosts set parameters to
    Settable,    \* the parameters they set
    MaxSaves,    \* times they do
    MaxLosses,   \* power failures
    MaxFaults,   \* times the chip breaks or is repaired
    BootTests    \* whether TestEepromMemory is called at boot: the cases

-----------------------------------------------------------------------------
(***************************************************************************)
(* Where each parameter is, in the order in which they are written.        *)
(***************************************************************************)
Item(name, addr, size) == [name |-> name, addr |-> addr, size |-> size]

SerialNumber == << Item("SerialNumber", 0, 10) >>
Addresses == << Item("IP", 320, 4), Item("IPMask", 324, 4) >>
\* Mutant of Rs485Link: the baud rate begins in the byte of the address.
Rs485LinkOverlap == << Item("Rs485Add", 352, 1), Item("Rs485BaudRate", 352, 4) >>
Rs485Link == << Item("Rs485Add", 352, 1), Item("Rs485BaudRate", 353, 4) >>
Gains(kp, ki, kd, addr) ==
    << Item(kp, addr, 4), Item(ki, addr + 4, 4), Item(kd, addr + 8, 4) >>
Pid1 == Gains("Kp1", "Ki1", "Kd1", 512)
Pid2 == Gains("Kp2", "Ki2", "Kd2", 528)
Pid3 == Gains("Kp3", "Ki3", "Kd3", 544)
Pid4 == Gains("Kp4", "Ki4", "Kd4", 560)
PSModel == << Item("PSModel", 256, 1) >>

\* Mutant of WriteOrder: the address of the RS-485 link is written first.
WriteOrderMarkerFirst ==
    SerialNumber \o Rs485Link \o Addresses \o Pid1 \o Pid2 \o Pid3 \o Pid4 \o PSModel

WriteOrder ==
    SerialNumber \o Addresses \o Rs485Link \o Pid1 \o Pid2 \o Pid3 \o Pid4 \o PSModel

Name == {WriteOrder[k].name : k \in DOMAIN WriteOrder}
ItemOf(n) == WriteOrder[CHOOSE k \in DOMAIN WriteOrder : WriteOrder[k].name = n]

\* A page write stays within a page of 32 bytes; a read goes straight on.
PageSize == 32
CellWritten(it, i) == ((it.addr \div PageSize) * PageSize) + ((it.addr + i) % PageSize)
CellRead(it, i) == it.addr + i
Cells(it) == {CellWritten(it, i) : i \in 0 .. it.size - 1}
Cell == UNION {Cells(WriteOrder[k]) : k \in DOMAIN WriteOrder}

\* The bytes of a value, and bytes that are none of it.
Default == "default"   \* what TestEepromMemory writes
Zero == "zero"         \* the initial value of the copies in RAM
Byte(v, i) == <<v, i>>
Blank == <<"blank", 0>>
Torn == <<"torn", 0>>
NoValue == "no value"
Unknown == "unknown"
Stored == Value \cup {Default, Zero}

ASSUME ParametersAssumption ==
    /\ Settable \subseteq Name \ {"SerialNumber"}
    /\ Value \cap {"blank", "torn", NoValue, Unknown} = {}
    /\ MaxSaves \in Nat /\ MaxLosses \in Nat /\ MaxFaults \in Nat
    /\ BootTests \subseteq BOOLEAN

-----------------------------------------------------------------------------
VARIABLES
    bootTest,      \* TestEepromMemory is called at boot
    memory,        \* the bytes of the EEPROM
    broken,        \* the chip does not take what is written
    data,          \* serial_number_data, ip_address_data, ...
    newData,       \* serial_number_new_data, ip_new_data, ...: the marks
    inUse,         \* the values the firmware works with: IPADDR0..3, ...
    eeprom_sts,    \* the verdict of the EEPROM test
    at,            \* the parameter EepromWriteRequestCheck is at, 0 outside it
    chip,          \* "idle", or "busy" with the programming of that parameter
    power,         \* the board is on
    written,       \* history: what each parameter should read as
    checked,       \* history: the serial number was read back since boot
    saves, losses, faults

ram == <<data, newData, inUse, eeprom_sts, at, chip, checked>>
vars == <<bootTest, memory, broken, ram, power, written, saves, losses, faults>>

TypeOK ==
    /\ bootTest \in BootTests /\ broken \in BOOLEAN /\ power \in BOOLEAN
    /\ memory \in [Cell -> (Stored \X (0 .. 9)) \cup {Blank, Torn}]
    /\ data \in [Name -> Stored]
    /\ newData \in [Name -> BOOLEAN]
    /\ inUse \in [Settable -> Stored]
    /\ eeprom_sts \in {0, 1}
    /\ at \in 0 .. Len(WriteOrder)
    /\ chip \in {"idle", "busy"} /\ (chip = "busy" => at # 0)
    /\ written \in [Name -> Stored \cup {NoValue, Unknown}]
    /\ checked \in BOOLEAN

\* What a read returns: a value, NoValue for a parameter never written, or
\* Unknown for bytes that do not belong together.
Reading(mem, n) ==
    LET it == ItemOf(n)
        Reads(v) == \A i \in 0 .. it.size - 1 : mem[CellRead(it, i)] = Byte(v, i)
    IN  IF \E v \in Stored : Reads(v) THEN CHOOSE v \in Stored : Reads(v)
        ELSE IF \A i \in 0 .. it.size - 1 : mem[CellRead(it, i)] = Blank
             THEN NoValue ELSE Unknown

Recall(n) == Reading(memory, n)

\* The first marked parameter from position k on.
NextMarked(marks, k) ==
    LET M == {j \in k .. Len(WriteOrder) : marks[WriteOrder[j].name]}
    IN  IF M = {} THEN 0 ELSE Min(M)

\* RAM after a reset, before TestEepromMemory.
Reset ==
    /\ data' = [n \in Name |-> Zero]
    /\ inUse' = [n \in Settable |-> Zero]
    /\ eeprom_sts' = 0
    /\ chip' = "idle"
    /\ checked' = FALSE

Init ==
    /\ bootTest \in BootTests
    /\ memory = [c \in Cell |-> Blank]
    /\ broken = FALSE
    /\ data = [n \in Name |-> Zero]
    /\ newData = [n \in Name |-> FALSE]
    /\ inUse = [n \in Settable |-> Zero]
    /\ eeprom_sts = 0
    /\ at = 0
    /\ chip = "idle"
    /\ power = FALSE
    /\ written = [n \in Name |-> NoValue]
    /\ checked = FALSE
    /\ saves = 0 /\ losses = 0 /\ faults = 0

-----------------------------------------------------------------------------
\* The parameters a new memory gets a default of.
Defaulted == {"IP", "IPMask", "Rs485Add", "Rs485BaudRate", "Kp1", "Ki1", "Kd1", "PSModel"}

\* A memory whose RS-485 address reads 0xFF is new.
IsNew == Recall("Rs485Add") = NoValue

(***************************************************************************)
(* Power on: TestEepromMemory, when it is called, saves a default for      *)
(* every parameter of a new memory and has them written before anything    *)
(* else happens.                                                           *)
(***************************************************************************)
Boot ==
    /\ ~power
    /\ power' = TRUE
    /\ LET fill == IF bootTest /\ IsNew THEN Defaulted ELSE {}
       IN  /\ data' = [n \in Name |-> IF n \in fill THEN Default ELSE Zero]
           /\ newData' = [n \in Name |-> n \in fill]
           /\ at' = NextMarked(newData', 1)
    /\ UNCHANGED <<bootTest, memory, broken, inUse, eeprom_sts, chip, checked, written,
                   saves, losses, faults>>

Running == power /\ at = 0

Save(n, v) ==
    /\ data' = [data EXCEPT ![n] = v]
    /\ newData' = [newData EXCEPT ![n] = TRUE]

\* The command of the EEPROM test: the number is saved whatever it was.
SaveSerialNumber(v) ==
    /\ Running /\ saves < MaxSaves
    /\ saves' = saves + 1
    /\ Save("SerialNumber", v)
    /\ UNCHANGED <<bootTest, memory, broken, inUse, eeprom_sts, at, chip, checked, power,
                   written, losses, faults>>

\* The other setters save a value that is not in use yet.
SetParameter(n, v) ==
    /\ Running /\ saves < MaxSaves
    /\ v # inUse[n]
    /\ saves' = saves + 1
    /\ inUse' = [inUse EXCEPT ![n] = v]
    /\ Save(n, v)
    /\ UNCHANGED <<bootTest, memory, broken, eeprom_sts, at, chip, checked, power,
                   written, losses, faults>>

-----------------------------------------------------------------------------
\* The main loop finds EEPROM_WRITE_REQUEST raised by the timer.
EepromWriteRequestCheck ==
    /\ Running
    /\ at' = NextMarked(newData, 1)
    /\ UNCHANGED <<bootTest, memory, broken, data, newData, inUse, eeprom_sts, chip, checked,
                   power, written, saves, losses, faults>>

\* Write protection off, and the bytes are sent to the chip.
WriteItem ==
    /\ power /\ at # 0 /\ chip = "idle"
    /\ chip' = "busy"
    /\ UNCHANGED <<bootTest, memory, broken, data, newData, inUse, eeprom_sts, at, checked,
                   power, written, saves, losses, faults>>

\* The memory with the bytes of a value in place.
Programmed(it, v) ==
    IF broken THEN memory
    ELSE [c \in Cell |-> IF \E i \in 0 .. it.size - 1 : CellWritten(it, i) = c
                         THEN Byte(v, CHOOSE i \in 0 .. it.size - 1 : CellWritten(it, i) = c)
                         ELSE memory[c]]

\* Mutant of ReadBack: what was sent is compared instead of what was read.
ReadBackSent(mem, n) ==
    IF n = "SerialNumber"
    THEN /\ eeprom_sts' = IF data[n] = data[n] THEN 0 ELSE 1
         /\ checked' = TRUE
    ELSE UNCHANGED <<eeprom_sts, checked>>

\* The serial number is read back and compared.
ReadBack(mem, n) ==
    IF n = "SerialNumber"
    THEN /\ eeprom_sts' = IF Reading(mem, n) = data[n] THEN 0 ELSE 1
         /\ checked' = TRUE
    ELSE UNCHANGED <<eeprom_sts, checked>>

\* Mutant of Unmark: the mark of the parameter before goes, too.
UnmarkTwo(n) ==
    [newData EXCEPT ![n] = FALSE, ![IF at < Len(WriteOrder) THEN WriteOrder[at + 1].name ELSE n] = FALSE]

Unmark(n) == [newData EXCEPT ![n] = FALSE]

\* After 5 ms: write protection on, the mark is cleared, on to the next.
FinishItem ==
    /\ power /\ chip = "busy"
    /\ LET it == WriteOrder[at]
           mem == Programmed(it, data[it.name])
       IN /\ memory' = mem
          /\ written' = IF broken THEN written ELSE [written EXCEPT ![it.name] = data[it.name]]
          /\ newData' = Unmark(it.name)
          /\ ReadBack(mem, it.name)
    /\ chip' = "idle"
    /\ at' = NextMarked(newData', at + 1)
    /\ UNCHANGED <<bootTest, broken, data, inUse, power, saves, losses, faults>>

-----------------------------------------------------------------------------
\* What a power failure leaves of the bytes being programmed: the old ones,
\* or nothing that has a meaning.
PowerLoss ==
    /\ power /\ losses < MaxLosses
    /\ losses' = losses + 1
    /\ power' = FALSE
    /\ \/ UNCHANGED <<memory, written>>
       \/ /\ chip = "busy" /\ ~broken
          /\ memory' = [c \in Cell |-> IF c \in Cells(WriteOrder[at]) THEN Torn ELSE memory[c]]
          /\ written' = [written EXCEPT ![WriteOrder[at].name] = Unknown]
    /\ Reset
    /\ newData' = [n \in Name |-> FALSE]
    /\ at' = 0
    /\ UNCHANGED <<bootTest, broken, saves, faults>>

ChipChanges ==
    /\ faults < MaxFaults
    /\ faults' = faults + 1
    /\ broken' = ~broken
    /\ UNCHANGED <<bootTest, memory, ram, power, written, saves, losses>>

Host == \/ \E v \in Value : SaveSerialNumber(v)
        \/ \E n \in Settable, v \in Value : SetParameter(n, v)

Firmware == Boot \/ EepromWriteRequestCheck \/ WriteItem \/ FinishItem

Next == Host \/ Firmware \/ PowerLoss \/ ChipChanges

Spec == Init /\ [][Next]_vars

\* The timer raises the request for ever and the main loop never stops;
\* power failures and saves are not owed.
FairSpec == Spec /\ WF_vars(Firmware)

-----------------------------------------------------------------------------
(***************************************************************************)
(* Every parameter reads back as it was last written, whatever was written *)
(* to its neighbours and whenever the power failed: only the one being     *)
(* programmed at that moment can be lost.                                  *)
(***************************************************************************)
MemoryHolds == \A n \in Name : written[n] # Unknown => Recall(n) = written[n]

(***************************************************************************)
(* Once the serial number of the last command has been processed, the      *)
(* verdict of the EEPROM test is an error exactly if that number is not in *)
(* the memory, also after other parameters were written.                   *)
(***************************************************************************)
VerdictTellsTheMemory ==
    checked /\ ~newData["SerialNumber"] =>
        (eeprom_sts = 1 <=> Recall("SerialNumber") # data["SerialNumber"])

(***************************************************************************)
(* With TestEepromMemory at boot, the main loop never runs with a memory   *)
(* that has no IP address or no mask, also when the power fails while the  *)
(* defaults are written: they are complete before the address that marks   *)
(* the memory as used.                                                     *)
(***************************************************************************)
NeverWithoutAddress ==
    bootTest /\ Running /\ faults = 0 =>
        \A n \in {"IP", "IPMask", "Rs485Add"} : Recall(n) # NoValue

(***************************************************************************)
(* What was saved gets written, unless something else is saved, the power  *)
(* fails or the chip is broken.                                            *)
(***************************************************************************)
SavedIsWritten ==
    \A n \in Settable \cup {"SerialNumber"}, v \in Value :
        power /\ newData[n] /\ data[n] = v ~> written[n] = v \/ data[n] # v \/ broken

=============================================================================
