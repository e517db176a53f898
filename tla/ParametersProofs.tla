-------------------------- MODULE ParametersProofs --------------------------
(***************************************************************************)
(* The memory keeps what was written to it, the verdict of the EEPROM test *)
(* is right and a board in use has its addresses, for every set of values, *)
(* and however often and whenever the power fails.                         *)
(***************************************************************************)
EXTENDS Parameters, WellFoundedInduction, TLAPS

(***************************************************************************)
(* Where the parameters are.                                               *)
(***************************************************************************)
LEMMA Layout ==
    /\ Len(WriteOrder) = 18 /\ DOMAIN WriteOrder = 1 .. 18
    /\ WriteOrder[1] = Item("SerialNumber", 0, 10)
    /\ WriteOrder[2] = Item("IP", 320, 4) /\ WriteOrder[3] = Item("IPMask", 324, 4)
    /\ WriteOrder[4] = Item("Rs485Add", 352, 1) /\ WriteOrder[5] = Item("Rs485BaudRate", 353, 4)
    /\ WriteOrder[6] = Item("Kp1", 512, 4) /\ WriteOrder[7] = Item("Ki1", 516, 4)
    /\ WriteOrder[8] = Item("Kd1", 520, 4) /\ WriteOrder[9] = Item("Kp2", 528, 4)
    /\ WriteOrder[10] = Item("Ki2", 532, 4) /\ WriteOrder[11] = Item("Kd2", 536, 4)
    /\ WriteOrder[12] = Item("Kp3", 544, 4) /\ WriteOrder[13] = Item("Ki3", 548, 4)
    /\ WriteOrder[14] = Item("Kd3", 552, 4) /\ WriteOrder[15] = Item("Kp4", 560, 4)
    /\ WriteOrder[16] = Item("Ki4", 564, 4) /\ WriteOrder[17] = Item("Kd4", 568, 4)
    /\ WriteOrder[18] = Item("PSModel", 256, 1)
  BY DEF WriteOrder, SerialNumber, Addresses, Rs485Link, Pid1, Pid2, Pid3, Pid4, PSModel, Gains, Item

Place == 1 .. 18

\* No item reaches over the end of a page, and no two items share a byte.
Apart(it, jt) == it.addr + it.size <= jt.addr \/ jt.addr + jt.size <= it.addr

LEMMA InPage ==
    ASSUME NEW k \in Place
    PROVE  /\ WriteOrder[k].addr \in Nat /\ WriteOrder[k].size \in 1 .. 10
           /\ (WriteOrder[k].addr % 32) + WriteOrder[k].size <= 32
  BY Layout DEF Place, Item

LEMMA ItemsApart ==
    ASSUME NEW k \in Place, NEW l \in Place, k # l
    PROVE  Apart(WriteOrder[k], WriteOrder[l]) /\ WriteOrder[k].name # WriteOrder[l].name
  BY Layout DEF Place, Item, Apart

\* The byte i of the item at place k, as it is written and as it is read.
LEMMA SameCell ==
    ASSUME NEW k \in Place, NEW i \in 0 .. WriteOrder[k].size - 1
    PROVE  /\ CellWritten(WriteOrder[k], i) = WriteOrder[k].addr + i
           /\ WriteOrder[k].addr + i \in Cell
<1> DEFINE a == WriteOrder[k].addr
           z == WriteOrder[k].size
<1>1. a \in Nat /\ z \in 1 .. 10 /\ (a % 32) + z <= 32 /\ i \in 0 .. z - 1
  BY InPage
<1>2. (a \div 32) * 32 + ((a + i) % 32) = a + i
  <2> HIDE DEF a, z
  <2> QED BY <1>1
<1>3. CellWritten(WriteOrder[k], i) = a + i
  BY <1>2 DEF CellWritten, PageSize
<1>4. k \in DOMAIN WriteOrder
  BY Layout DEF Place
<1> QED BY <1>3, <1>4 DEF Cell, Cells

LEMMA ItemAt ==
    ASSUME NEW k \in Place
    PROVE  WriteOrder[k].name \in Name /\ ItemOf(WriteOrder[k].name) = WriteOrder[k]
<1>1. DOMAIN WriteOrder = Place
  BY Layout DEF Place
<1>2. \A l \in Place : WriteOrder[l].name = WriteOrder[k].name => l = k
  BY ItemsApart
<1> QED BY <1>1, <1>2 DEF Name, ItemOf

LEMMA PlaceOf ==
    ASSUME NEW n \in Name PROVE \E k \in Place : n = WriteOrder[k].name
  BY Layout DEF Name, Place

LEMMA OtherCells ==
    ASSUME NEW k \in Place, NEW l \in Place, k # l,
           NEW i \in 0 .. WriteOrder[k].size - 1, NEW j \in 0 .. WriteOrder[l].size - 1
    PROVE  WriteOrder[k].addr + i # WriteOrder[l].addr + j
<1>1. Apart(WriteOrder[k], WriteOrder[l])
  BY ItemsApart
<1> QED BY <1>1, InPage DEF Apart

-----------------------------------------------------------------------------
(***************************************************************************)
(* What the bytes of a parameter are when it should read as w.             *)
(***************************************************************************)
Entry == Stored \cup {NoValue, Unknown}

Content(w, i) == IF w = Unknown THEN Torn ELSE IF w = NoValue THEN Blank ELSE Byte(w, i)

Has(mem, k, w) ==
    \A i \in 0 .. WriteOrder[k].size - 1 : mem[WriteOrder[k].addr + i] = Content(w, i)

LEMMA ValuesAreValues == NoValue \notin Stored /\ Unknown \notin Stored
  BY ParametersAssumption DEF Stored, NoValue, Unknown, Default, Zero

LEMMA BytesDiffer ==
    ASSUME NEW v \in Stored, NEW w \in Entry, NEW i, Byte(v, i) = Content(w, i)
    PROVE  v = w
<1>1. Byte(v, i) # Torn /\ Byte(v, i) # Blank
  BY ParametersAssumption DEF Byte, Torn, Blank, Stored, Default, Zero
<1> QED BY <1>1 DEF Content, Byte

LEMMA ReadsAsWritten ==
    ASSUME NEW mem, NEW k \in Place, NEW w \in Entry, Has(mem, k, w)
    PROVE  Reading(mem, WriteOrder[k].name) = w
<1> DEFINE it == WriteOrder[k]
           Reads(v) == \A i \in 0 .. it.size - 1 : mem[CellRead(it, i)] = Byte(v, i)
           r == Reading(mem, it.name)
           Empty == \A i \in 0 .. it.size - 1 : mem[CellRead(it, i)] = Blank
<1>1. 0 \in 0 .. it.size - 1
  BY InPage
<1>2. \A i \in 0 .. it.size - 1 : mem[CellRead(it, i)] = Content(w, i)
  BY DEF Has, CellRead
<1>3. \A v \in Stored : Reads(v) => v = w
  BY <1>1, <1>2, BytesDiffer
<1>4. w \in Stored => Reads(w)
  BY <1>2, ValuesAreValues DEF Content
<1>5. Empty <=> w = NoValue
  <2>1. w = NoValue => Empty
    BY <1>2, ValuesAreValues DEF Content, NoValue, Unknown
  <2>2. Content(w, 0) = Blank => w = NoValue
    <3>1. w \in Stored => Content(w, 0) # Blank
      BY ValuesAreValues, ParametersAssumption
         DEF Content, Byte, Blank, Stored, Default, Zero
    <3>2. w = Unknown => Content(w, 0) # Blank
      BY DEF Content, Blank, Torn
    <3> QED BY <3>1, <3>2 DEF Entry
  <2> QED BY <1>1, <1>2, <2>1, <2>2
<1>6. r = IF \E v \in Stored : Reads(v) THEN CHOOSE v \in Stored : Reads(v)
          ELSE IF Empty THEN NoValue ELSE Unknown
  BY ItemAt DEF Reading
<1> SUFFICES r = w
  OBVIOUS
<1> HIDE DEF it, Reads, Empty, r
<1>7. CASE w \in Stored
  BY <1>3, <1>4, <1>6, <1>7
<1>8. CASE w \notin Stored
  BY <1>3, <1>5, <1>6, <1>8 DEF Entry
<1> QED BY <1>7, <1>8

-----------------------------------------------------------------------------
(***************************************************************************)
(* Writing.                                                                *)
(***************************************************************************)
LEMMA ProgrammedHas ==
    ASSUME NEW k \in Place, NEW v \in Stored, ~broken, NEW mem, mem = Programmed(WriteOrder[k], v)
    PROVE  /\ Has(mem, k, v)
           /\ \A l \in Place \ {k} : \A w : Has(memory, l, w) => Has(mem, l, w)
<1> DEFINE it == WriteOrder[k]
           Mine == 0 .. it.size - 1
<1>1. mem = [c \in Cell |-> IF \E i \in Mine : CellWritten(it, i) = c
                            THEN Byte(v, CHOOSE i \in Mine : CellWritten(it, i) = c)
                            ELSE memory[c]]
  BY DEF Programmed
<1>2. \A i \in Mine : CellWritten(it, i) = it.addr + i /\ it.addr + i \in Cell
  BY SameCell
<1>3. ASSUME NEW i \in Mine PROVE mem[it.addr + i] = Byte(v, i)
  <2>1. \A j \in Mine : CellWritten(it, j) = it.addr + i => j = i
    BY <1>2, InPage
  <2>2. (CHOOSE j \in Mine : CellWritten(it, j) = it.addr + i) = i
    BY <1>2, <2>1
  <2> QED BY <1>1, <1>2, <2>2
<1>4. ASSUME NEW l \in Place \ {k}, NEW j \in 0 .. WriteOrder[l].size - 1
      PROVE  mem[WriteOrder[l].addr + j] = memory[WriteOrder[l].addr + j]
  <2>1. WriteOrder[l].addr + j \in Cell
    BY SameCell
  <2>2. \A i \in Mine : CellWritten(it, i) # WriteOrder[l].addr + j
    BY <1>2, OtherCells
  <2> QED BY <1>1, <2>1, <2>2
<1>5. \A i \in Mine : Content(v, i) = Byte(v, i)
  BY ValuesAreValues DEF Content
<1> QED BY <1>3, <1>4, <1>5 DEF Has

LEMMA TornHas ==
    ASSUME NEW k \in Place, NEW mem,
           mem = [c \in Cell |-> IF c \in Cells(WriteOrder[k]) THEN Torn ELSE memory[c]]
    PROVE  /\ Has(mem, k, Unknown)
           /\ \A l \in Place \ {k} : \A w : Has(memory, l, w) => Has(mem, l, w)
<1>1. \A i \in 0 .. WriteOrder[k].size - 1 :
          /\ WriteOrder[k].addr + i \in Cells(WriteOrder[k])
          /\ WriteOrder[k].addr + i \in Cell
  BY SameCell DEF Cells
<1>2. ASSUME NEW l \in Place \ {k}, NEW j \in 0 .. WriteOrder[l].size - 1
      PROVE  /\ WriteOrder[l].addr + j \in Cell
             /\ WriteOrder[l].addr + j \notin Cells(WriteOrder[k])
  BY SameCell, OtherCells DEF Cells
<1> QED BY <1>1, <1>2 DEF Has, Content

(***************************************************************************)
(* The least number of a set.                                              *)
(***************************************************************************)
LEMMA LeastIsIn ==
    ASSUME NEW S \in SUBSET Nat, S # {}
    PROVE  Min(S) \in S /\ \A y \in S : Min(S) <= y
<1> DEFINE less == {p \in Nat \X Nat : p[1] < p[2]}
<1>1. IsWellFoundedOn(less, Nat)
  BY NatLessThanWellFounded DEF OpToRel
<1> HIDE DEF less
<1>2. PICK x \in S : \A y \in S : <<y, x>> \notin less
  BY <1>1, WFMin
<1>3. \A y \in S : x <= y
  <2> SUFFICES ASSUME NEW y \in S PROVE x <= y
    OBVIOUS
  <2>1. x \in Nat /\ y \in Nat
    OBVIOUS
  <2>2. y < x => <<y, x>> \in less
    BY <2>1 DEF less
  <2> QED BY <1>2, <2>1, <2>2
<1> QED BY <1>3 DEF Min

LEMMA NextIsMarked ==
    ASSUME NEW marks, NEW k \in 1 .. 19, NEW m, m = NextMarked(marks, k)
    PROVE  /\ m \in 0 .. 18
           /\ m # 0 => m >= k /\ marks[WriteOrder[m].name]
           /\ \A j \in Place : j >= k /\ marks[WriteOrder[j].name] => m # 0 /\ m <= j
<1> DEFINE M == {j \in k .. 18 : marks[WriteOrder[j].name]}
<1>1. m = IF M = {} THEN 0 ELSE Min(M)
  BY Layout DEF NextMarked
<1>2. M \in SUBSET Nat
  OBVIOUS
<1>3. \A j \in Place : j >= k /\ marks[WriteOrder[j].name] => j \in M
  BY DEF Place
<1>4. CASE M = {}
  BY <1>1, <1>3, <1>4
<1>5. CASE M # {}
  <2>1. m \in M /\ \A y \in M : m <= y
    BY <1>1, <1>2, <1>5, LeastIsIn
  <2> QED BY <1>3, <2>1
<1> QED BY <1>4, <1>5

-----------------------------------------------------------------------------
(***************************************************************************)
(* The invariant.                                                          *)
(***************************************************************************)
NameAt(k) == WriteOrder[k].name

\* The bytes of every parameter are those of what it should read as.
MemoryKept == \A k \in Place : Has(memory, k, written[NameAt(k)])

\* Without power nothing goes on.
OffIsOff == ~power => at = 0 /\ chip = "idle" /\ ~checked

VerdictKept ==
    checked /\ ~newData["SerialNumber"] =>
        (eeprom_sts = 1 <=> written["SerialNumber"] # data["SerialNumber"])

\* While a new memory gets its defaults, the address of the RS-485 link,
\* which marks the memory as used, comes after the two others.
EverWritten(n) == written[n] # NoValue
Due(k) == EverWritten(NameAt(k)) \/ (newData[NameAt(k)] /\ at # 0 /\ at <= k)

DefaultsInOrder ==
    bootTest /\ faults = 0 =>
        /\ ~broken
        /\ EverWritten(NameAt(4)) => EverWritten(NameAt(2)) /\ EverWritten(NameAt(3))
        /\ power => Due(2) /\ Due(3) /\ Due(4)

IInv == /\ TypeOK /\ faults \in Nat
        /\ MemoryKept /\ OffIsOff /\ VerdictKept /\ DefaultsInOrder

LEMMA Names ==
    /\ "SerialNumber" = NameAt(1) /\ "IP" = NameAt(2) /\ "IPMask" = NameAt(3)
    /\ "Rs485Add" = NameAt(4)
    /\ {NameAt(2), NameAt(3), NameAt(4)} \subseteq Defaulted
    /\ \A k \in Place : NameAt(k) \in Name
  BY Layout, ItemAt DEF NameAt, Item, Defaulted, Place

LEMMA NamesDiffer ==
    ASSUME NEW k \in Place, NEW l \in Place, NameAt(k) = NameAt(l) PROVE k = l
  BY ItemsApart DEF NameAt

LEMMA RecallIs ==
    ASSUME TypeOK, MemoryKept, NEW k \in Place
    PROVE  Recall(NameAt(k)) = written[NameAt(k)]
<1>1. written[NameAt(k)] \in Entry
  BY Names DEF TypeOK, Entry
<1> QED BY <1>1, ReadsAsWritten DEF MemoryKept, Recall, NameAt

LEMMA InitIInv == Init => IInv
<1> SUFFICES ASSUME Init PROVE IInv
  OBVIOUS
<1>1. TypeOK
  <2>1. /\ memory \in [Cell -> (Stored \X (0 .. 9)) \cup {Blank, Torn}]
        /\ newData \in [Name -> BOOLEAN]
        /\ written \in [Name -> Stored \cup {NoValue, Unknown}]
    BY DEF Init
  <2>2. data \in [Name -> Stored] /\ inUse \in [Settable -> Stored]
    BY DEF Init, Stored
  <2>3. at \in 0 .. Len(WriteOrder)
    BY Layout DEF Init
  <2> QED BY <2>1, <2>2, <2>3 DEF Init, TypeOK
<1>2. MemoryKept
  <2> SUFFICES ASSUME NEW k \in Place, NEW i \in 0 .. WriteOrder[k].size - 1
               PROVE  memory[WriteOrder[k].addr + i] = Content(written[NameAt(k)], i)
    BY DEF MemoryKept, Has
  <2>1. memory[WriteOrder[k].addr + i] = Blank
    BY SameCell DEF Init
  <2>2. written[NameAt(k)] = NoValue
    BY Names DEF Init
  <2> QED BY <2>1, <2>2 DEF Content, NoValue, Unknown
<1>3. DefaultsInOrder
  <2>1. \A k \in 2 .. 4 : ~EverWritten(NameAt(k))
    BY Names DEF EverWritten, Init, Place
  <2> QED BY <2>1 DEF Init, DefaultsInOrder
<1> QED BY <1>1, <1>2, <1>3 DEF Init, IInv, OffIsOff, VerdictKept

LEMMA BootStep == IInv /\ Boot => IInv'
<1> SUFFICES ASSUME IInv, Boot PROVE IInv'
  OBVIOUS
<1> DEFINE fill == IF bootTest /\ IsNew THEN Defaulted ELSE {}
<1>1. /\ ~power /\ power' /\ at = 0 /\ chip = "idle" /\ ~checked
      /\ data' = [n \in Name |-> IF n \in fill THEN Default ELSE Zero]
      /\ newData' = [n \in Name |-> n \in fill]
      /\ at' = NextMarked(newData', 1)
      /\ UNCHANGED <<bootTest, memory, broken, inUse, eeprom_sts, chip, checked, written,
                     saves, losses, faults>>
  BY DEF Boot, IInv, OffIsOff
<1>2. at' \in 0 .. 18 /\ \A j \in Place : newData'[NameAt(j)] => at' # 0 /\ at' <= j
  <2>1. at' = NextMarked(newData', 1) /\ 1 \in 1 .. 19
    BY <1>1
  <2>2. /\ at' \in 0 .. 18
        /\ \A j \in Place : j >= 1 /\ newData'[WriteOrder[j].name] => at' # 0 /\ at' <= j
    BY ONLY <2>1, NextIsMarked
  <2>3. \A j \in Place : j >= 1
    BY DEF Place
  <2> QED BY ONLY <2>2, <2>3 DEF NameAt
<1>3. TypeOK'
  BY <1>1, <1>2, Layout DEF IInv, TypeOK, Stored
<1>4. DefaultsInOrder'
  <2> SUFFICES ASSUME bootTest, faults = 0 PROVE Due(2)' /\ Due(3)' /\ Due(4)'
    BY <1>1 DEF IInv, DefaultsInOrder, EverWritten
  <2>1. IsNew <=> ~EverWritten(NameAt(4))
    BY RecallIs, Names DEF IInv, IsNew, EverWritten, Place
  <2>2. CASE IsNew
    <3>1. fill = Defaulted
      BY <2>2
    <3>2. \A n \in Name : n \in fill => newData'[n]
      BY <1>1, Zenon
    <3>3. newData'[NameAt(2)] /\ newData'[NameAt(3)] /\ newData'[NameAt(4)]
      BY <3>1, <3>2, Names DEF Place
    <3> QED BY <1>2, <3>3 DEF Due, Place
  <2>3. CASE ~IsNew
    BY <1>1, <2>1, <2>3 DEF IInv, DefaultsInOrder, Due, EverWritten
  <2> QED BY <2>2, <2>3
<1> QED BY <1>1, <1>3, <1>4 DEF IInv, MemoryKept, Has, OffIsOff, VerdictKept

\* Saving marks the parameter and changes nothing that is written.
LEMMA SaveStep ==
    ASSUME IInv, NEW n \in Name, NEW v \in Value, Running, Save(n, v),
           inUse' \in [Settable -> Stored],
           UNCHANGED <<bootTest, memory, broken, eeprom_sts, at, chip, checked, power,
                       written, losses, faults>>
    PROVE  IInv'
<1>1. TypeOK'
  <2>1. v \in Stored
    BY DEF Stored
  <2> QED BY <2>1 DEF IInv, TypeOK, Save
<1>2. VerdictKept'
  <2>1. CASE n = "SerialNumber"
    BY <2>1 DEF IInv, TypeOK, VerdictKept, Save
  <2>2. CASE n # "SerialNumber"
    BY <2>2 DEF IInv, TypeOK, VerdictKept, Save
  <2> QED BY <2>1, <2>2
<1>3. DefaultsInOrder'
  BY DEF IInv, DefaultsInOrder, Due, EverWritten, Running
<1> QED BY <1>1, <1>2, <1>3 DEF IInv, MemoryKept, Has, OffIsOff

LEMMA HostStep == IInv /\ Host => IInv'
<1> SUFFICES ASSUME IInv, Host PROVE IInv'
  OBVIOUS
<1>1. ASSUME NEW v \in Value, SaveSerialNumber(v) PROVE IInv'
  <2>1. "SerialNumber" \in Name
    BY Names DEF Place
  <2>2. inUse' \in [Settable -> Stored]
    BY <1>1 DEF SaveSerialNumber, IInv, TypeOK
  <2> QED BY <1>1, <2>1, <2>2, SaveStep DEF SaveSerialNumber
<1>2. ASSUME NEW n \in Settable, NEW v \in Value, SetParameter(n, v) PROVE IInv'
  <2>1. n \in Name
    BY ParametersAssumption
  <2>2. inUse' \in [Settable -> Stored]
    BY <1>2 DEF SetParameter, IInv, TypeOK, Stored
  <2> QED BY <1>2, <2>1, <2>2, SaveStep DEF SetParameter
<1> QED BY <1>1, <1>2 DEF Host

LEMMA CheckStep == IInv /\ EepromWriteRequestCheck => IInv'
<1> SUFFICES ASSUME IInv, EepromWriteRequestCheck PROVE IInv'
  OBVIOUS
<1>1. /\ power /\ at = 0 /\ at' = NextMarked(newData, 1)
      /\ UNCHANGED <<bootTest, memory, broken, data, newData, inUse, eeprom_sts, chip, checked,
                     power, written, saves, losses, faults>>
  BY DEF EepromWriteRequestCheck, Running
<1>2. at' \in 0 .. 18
  BY <1>1, NextIsMarked
<1>3. TypeOK'
  BY <1>1, <1>2, Layout DEF IInv, TypeOK
<1>4. DefaultsInOrder'
  BY <1>1 DEF IInv, DefaultsInOrder, Due, EverWritten
<1> QED BY <1>1, <1>3, <1>4 DEF IInv, MemoryKept, Has, OffIsOff, VerdictKept

LEMMA WriteStep == IInv /\ WriteItem => IInv'
<1> SUFFICES ASSUME IInv, WriteItem PROVE IInv'
  OBVIOUS
<1>1. TypeOK'
  BY DEF IInv, TypeOK, WriteItem
<1>2. DefaultsInOrder'
  BY DEF IInv, DefaultsInOrder, Due, EverWritten, WriteItem
<1> QED BY <1>1, <1>2 DEF WriteItem, IInv, MemoryKept, Has, OffIsOff, VerdictKept

LEMMA ChipStep == IInv /\ ChipChanges => IInv'
<1> SUFFICES ASSUME IInv, ChipChanges PROVE IInv'
  OBVIOUS
<1>1. TypeOK' /\ faults' \in Nat /\ faults' # 0
  BY DEF IInv, TypeOK, ChipChanges, ram
<1>2. MemoryKept' /\ OffIsOff' /\ VerdictKept'
  BY DEF IInv, ChipChanges, ram, MemoryKept, Has, OffIsOff, VerdictKept
<1> QED BY <1>1, <1>2 DEF IInv, DefaultsInOrder

(***************************************************************************)
(* A parameter is written: as it was sent, or not at all by a broken chip. *)
(***************************************************************************)
LEMMA FinishStep == IInv /\ FinishItem => IInv'
<1> SUFFICES ASSUME IInv, FinishItem PROVE IInv'
  OBVIOUS
<1> DEFINE it == WriteOrder[at]
           n == NameAt(at)
           v == data[n]
           mem == Programmed(it, v)
<1>1. /\ power /\ power' /\ chip = "busy" /\ chip' = "idle" /\ memory' = mem
      /\ written' = IF broken THEN written ELSE [written EXCEPT ![n] = v]
      /\ newData' = [newData EXCEPT ![n] = FALSE]
      /\ at' = NextMarked(newData', at + 1)
      /\ UNCHANGED <<bootTest, broken, data, inUse, power, saves, losses, faults>>
  BY DEF FinishItem, Unmark, NameAt
<1>2. IF n = "SerialNumber"
      THEN eeprom_sts' = (IF Reading(mem, n) = data[n] THEN 0 ELSE 1) /\ checked'
      ELSE UNCHANGED <<eeprom_sts, checked>>
  BY DEF FinishItem, ReadBack, NameAt
<1>3. at \in Place /\ n \in Name /\ v \in Stored /\ it.size \in 1 .. 10
  <2>1. at \in Place
    BY <1>1, Layout DEF IInv, TypeOK, Place
  <2> QED BY <2>1, Names, InPage DEF IInv, TypeOK
<1>4. /\ at' \in 0 .. 18
      /\ at' # 0 => at' > at
      /\ \A j \in Place : j > at /\ newData'[NameAt(j)] => at' # 0 /\ at' <= j
  <2>1. at + 1 \in 1 .. 19
    BY <1>3 DEF Place
  <2>2. /\ at' \in 0 .. 18
        /\ at' # 0 => at' >= at + 1
        /\ \A j \in Place : j >= at + 1 /\ newData'[WriteOrder[j].name] => at' # 0 /\ at' <= j
    <3>1. at' = NextMarked(newData', at + 1)
      BY <1>1
    <3> QED BY ONLY <2>1, <3>1, NextIsMarked
  <2> QED BY <1>3, <2>2 DEF Place, NameAt
<1>5. MemoryKept'
  <2> SUFFICES ASSUME NEW k \in Place PROVE Has(memory', k, written'[NameAt(k)])
    BY DEF MemoryKept, Has
  <2>1. Has(memory, k, written[NameAt(k)])
    BY DEF IInv, MemoryKept
  <2>2. CASE broken
    BY <1>1, <2>1, <2>2 DEF Programmed
  <2>3. CASE ~broken /\ k = at
    <3>1. written'[NameAt(k)] = v
      BY <1>1, <1>3, <2>3 DEF IInv, TypeOK
    <3> QED BY <1>1, <1>3, <2>3, <3>1, ProgrammedHas
  <2>4. CASE ~broken /\ k # at
    <3>1. NameAt(k) # n
      BY <1>3, <2>4, NamesDiffer
    <3>2. written'[NameAt(k)] = written[NameAt(k)]
      BY <1>1, <1>3, <2>4, <3>1 DEF IInv, TypeOK
    <3> QED BY <1>1, <1>3, <2>1, <2>4, <3>2, ProgrammedHas
  <2> QED BY <2>2, <2>3, <2>4
<1>6. TypeOK'
  <2>1. mem \in [Cell -> (Stored \X (0 .. 9)) \cup {Blank, Torn}]
    <3>1. CASE broken
      BY <3>1 DEF Programmed, IInv, TypeOK
    <3>2. CASE ~broken
      <4> DEFINE at0(c) == CHOOSE i \in 0 .. it.size - 1 : CellWritten(it, i) = c
      <4>1. \A c \in Cell : (\E i \in 0 .. it.size - 1 : CellWritten(it, i) = c)
                => at0(c) \in 0 .. it.size - 1
        OBVIOUS
      <4>2. 0 .. it.size - 1 \subseteq 0 .. 9
        BY <1>3
      <4> QED BY <1>3, <3>2, <4>1, <4>2 DEF Programmed, IInv, TypeOK, Byte
    <3> QED BY <3>1, <3>2
  <2>2. written' \in [Name -> Stored \cup {NoValue, Unknown}] /\ newData' \in [Name -> BOOLEAN]
    BY <1>1, <1>3 DEF IInv, TypeOK
  <2>3. eeprom_sts' \in {0, 1} /\ checked' \in BOOLEAN
    BY <1>2 DEF IInv, TypeOK
  <2>4. at' \in 0 .. Len(WriteOrder)
    BY <1>4, Layout
  <2> QED BY <1>1, <2>1, <2>2, <2>3, <2>4 DEF IInv, TypeOK
<1>7. VerdictKept'
  <2>1. CASE n = "SerialNumber"
    <3>1. at = 1
      BY <1>3, <2>1, Names, NamesDiffer DEF Place
    <3>2. Reading(mem, n) = written'[n]
      <4>1. written'[n] \in Entry /\ Has(memory', at, written'[n])
        BY <1>3, <1>5, <1>6 DEF MemoryKept, TypeOK, Entry
      <4> QED BY <1>1, <1>3, <4>1, ReadsAsWritten DEF NameAt
    <3> QED BY <1>1, <1>2, <2>1, <3>2 DEF VerdictKept
  <2>2. CASE n # "SerialNumber"
    <3>1. "SerialNumber" \in Name
      BY Names DEF Place
    <3>2. /\ written'["SerialNumber"] = written["SerialNumber"]
          /\ newData'["SerialNumber"] = newData["SerialNumber"]
      BY <1>1, <2>2, <3>1 DEF IInv, TypeOK
    <3> QED BY <1>1, <1>2, <2>2, <3>2 DEF IInv, VerdictKept
  <2> QED BY <2>1, <2>2
<1>8. DefaultsInOrder'
  <2> SUFFICES ASSUME bootTest, faults = 0 PROVE DefaultsInOrder'
    BY <1>1 DEF DefaultsInOrder
  <2>1. ~broken /\ ~broken' /\ Due(2) /\ Due(3) /\ Due(4)
    BY <1>1 DEF IInv, DefaultsInOrder
  <2>2. \A m \in Name : written'[m] = IF m = n THEN v ELSE written[m]
    BY <1>1, <1>3, <2>1 DEF IInv, TypeOK
  <2>3. \A m \in Name : EverWritten(m)' <=> EverWritten(m) \/ m = n
    BY <1>3, <2>2, ValuesAreValues DEF EverWritten
  <2>4. ASSUME NEW k \in Place, Due(k) PROVE Due(k)'
    <3>1. CASE EverWritten(NameAt(k)) \/ k = at
      BY <2>3, <3>1, Names DEF Due
    <3>2. CASE ~EverWritten(NameAt(k)) /\ k # at
      <4>1. newData[NameAt(k)] /\ at < k
        BY <1>3, <2>4, <3>2 DEF Due, Place
      <4>2. newData'[NameAt(k)]
        <5>1. NameAt(k) # n /\ NameAt(k) \in Name
          BY <1>3, <3>2, NamesDiffer, Names
        <5> QED BY <1>1, <4>1, <5>1 DEF IInv, TypeOK
      <4> QED BY <1>4, <4>1, <4>2 DEF Due
    <3> QED BY <3>1, <3>2
  <2>5. EverWritten(NameAt(4))' => EverWritten(NameAt(2))' /\ EverWritten(NameAt(3))'
    <3>1. CASE at = 4
      BY <2>1, <2>3, <3>1, Names DEF Due, Place
    <3>2. CASE at # 4
      <4>1. NameAt(4) # n
        BY <1>3, <3>2, NamesDiffer DEF Place
      <4> QED BY <2>3, <4>1, Names DEF IInv, DefaultsInOrder, Place
    <3> QED BY <3>1, <3>2
  <2> QED BY <2>1, <2>4, <2>5 DEF DefaultsInOrder, Place
<1> QED BY <1>1, <1>5, <1>6, <1>7, <1>8 DEF IInv, OffIsOff

(***************************************************************************)
(* The power fails, possibly in the middle of a write.                     *)
(***************************************************************************)
LEMMA LossStep == IInv /\ PowerLoss => IInv'
<1> SUFFICES ASSUME IInv, PowerLoss PROVE IInv'
  OBVIOUS
<1>1. /\ power /\ power' = FALSE /\ at' = 0 /\ chip' = "idle" /\ checked' = FALSE /\ eeprom_sts' = 0
      /\ newData' = [n \in Name |-> FALSE] /\ data' = [n \in Name |-> Zero]
      /\ inUse' = [n \in Settable |-> Zero]
      /\ UNCHANGED <<bootTest, broken, saves, faults>>
  BY DEF PowerLoss, Reset
<1>2. OffIsOff' /\ VerdictKept'
  BY <1>1 DEF OffIsOff, VerdictKept
<1>3. ASSUME /\ memory' \in [Cell -> (Stored \X (0 .. 9)) \cup {Blank, Torn}]
             /\ written' \in [Name -> Stored \cup {NoValue, Unknown}]
      PROVE  TypeOK'
  <2>1. data' \in [Name -> Stored] /\ inUse' \in [Settable -> Stored]
    BY <1>1 DEF Stored
  <2>2. newData' \in [Name -> BOOLEAN]
    BY <1>1
  <2>3. Len(WriteOrder) = 18
    BY Layout
  <2>4. at' \in 0 .. Len(WriteOrder)
    BY <1>1, <2>3
  <2> QED BY <1>1, <1>3, <2>1, <2>2, <2>4 DEF IInv, TypeOK
<1>4. CASE UNCHANGED <<memory, written>>
  <2>1. TypeOK'
    BY <1>3, <1>4 DEF IInv, TypeOK
  <2>2. DefaultsInOrder' /\ MemoryKept'
    BY <1>1, <1>4 DEF IInv, DefaultsInOrder, EverWritten, MemoryKept, Has
  <2> QED BY <1>1, <1>2, <2>1, <2>2 DEF IInv
<1>5. CASE /\ chip = "busy" /\ ~broken
           /\ memory' = [c \in Cell |-> IF c \in Cells(WriteOrder[at]) THEN Torn ELSE memory[c]]
           /\ written' = [written EXCEPT ![NameAt(at)] = Unknown]
  <2>1. at \in Place /\ NameAt(at) \in Name
    BY <1>5, Layout, Names DEF IInv, TypeOK, Place
  <2>2. \A m \in Name : written'[m] = IF m = NameAt(at) THEN Unknown ELSE written[m]
    BY <1>5, <2>1 DEF IInv, TypeOK
  <2>3. TypeOK'
    BY <1>3, <1>5 DEF IInv, TypeOK
  <2>4. MemoryKept'
    <3> SUFFICES ASSUME NEW k \in Place PROVE Has(memory', k, written'[NameAt(k)])
      BY DEF MemoryKept, Has
    <3>1. Has(memory, k, written[NameAt(k)]) /\ NameAt(k) \in Name
      BY Names DEF IInv, MemoryKept
    <3>2. k # at => NameAt(k) # NameAt(at)
      BY <2>1, NamesDiffer
    <3> QED BY <1>5, <2>1, <2>2, <3>1, <3>2, TornHas
  <2>5. DefaultsInOrder'
    <3>1. \A m \in Name : EverWritten(m)' <=> EverWritten(m) \/ m = NameAt(at)
      BY <2>2 DEF EverWritten, NoValue, Unknown
    <3>2. CASE at = 4
      BY <1>1, <3>1, <3>2, Names DEF IInv, DefaultsInOrder, Due, Place
    <3>3. CASE at # 4
      <4>1. NameAt(4) # NameAt(at)
        BY <2>1, <3>3, NamesDiffer DEF Place
      <4> QED BY <1>1, <3>1, <4>1, Names DEF IInv, DefaultsInOrder, Place
    <3> QED BY <3>2, <3>3
  <2> QED BY <1>1, <1>2, <2>3, <2>4, <2>5 DEF IInv
<1> QED BY <1>4, <1>5 DEF PowerLoss, NameAt

LEMMA IInvStep == IInv /\ [Next]_vars => IInv'
<1> SUFFICES ASSUME IInv, [Next]_vars PROVE IInv'
  OBVIOUS
<1>1. CASE UNCHANGED vars
  <2>1. TypeOK'
    BY <1>1 DEF IInv, TypeOK, vars, ram
  <2> QED BY <1>1, <2>1 DEF IInv, MemoryKept, Has, OffIsOff, VerdictKept, DefaultsInOrder, Due,
                  EverWritten, vars, ram
<1>2. CASE Next
  BY <1>2, HostStep, BootStep, CheckStep, WriteStep, FinishStep, LossStep, ChipStep
     DEF Next, Firmware
<1> QED BY <1>1, <1>2

LEMMA IInvHolds == Spec => []IInv
  BY InitIInv, IInvStep, PTL DEF Spec

-----------------------------------------------------------------------------
(***************************************************************************)
(* Every variable keeps its type.                                          *)
(***************************************************************************)
THEOREM ParametersTypeCorrect == Spec => []TypeOK
<1>1. IInv => TypeOK
  BY DEF IInv
<1> QED BY <1>1, IInvHolds, PTL

(***************************************************************************)
(* Every parameter reads back as it was last written, but for the one that *)
(* a power failure has caught, whose bytes belong to nothing.              *)
(***************************************************************************)
THEOREM MemoryIsKept == Spec => []MemoryHolds
<1>1. IInv => MemoryHolds
  BY RecallIs, PlaceOf DEF IInv, MemoryHolds, NameAt
<1> QED BY <1>1, IInvHolds, PTL

(***************************************************************************)
(* The verdict of the EEPROM test is an error exactly if the number of the *)
(* last command is not in the memory.                                      *)
(***************************************************************************)
THEOREM VerdictIsRight == Spec => []VerdictTellsTheMemory
<1>1. IInv => VerdictTellsTheMemory
  BY RecallIs, Names DEF IInv, VerdictKept, VerdictTellsTheMemory, Place
<1> QED BY <1>1, IInvHolds, PTL

(***************************************************************************)
(* With TestEepromMemory at boot the main loop never runs without the      *)
(* addresses, whenever the power fails while the defaults are written.     *)
(***************************************************************************)
THEOREM AddressComesFirst == Spec => []NeverWithoutAddress
<1>1. IInv => NeverWithoutAddress
  BY RecallIs, Names DEF IInv, DefaultsInOrder, Due, EverWritten, NeverWithoutAddress, Running, Place
<1> QED BY <1>1, IInvHolds, PTL

=============================================================================
