---------------------------- MODULE CanBkpProofs ----------------------------
(***************************************************************************)
(* What the CAN link promises, for every choice of models, messages and    *)
(* values: nothing reported by a module is lost on the way to the C28, to  *)
(* the alarms and to the values shown.                                     *)
(***************************************************************************)
EXTENDS CanBkp, WellFoundedInduction, TLAPS

\* Everything the main loop, the interrupt and the C28 change.
LEMMA Steps ==
    ASSUME [Next]_vars
    PROVE  \/ UNCHANGED vars \/ AskReset \/ TransmissionEnds
           \/ \E id \in Ids[model] : Arrive(id)
           \/ \E f \in IpcFlags : C28Reads(f)
           \/ CallCanCheck \/ TestFlag \/ StoreData \/ SetInterlock \/ SendIpcFlag
           \/ ClearFlag \/ CallReset \/ InterlockAlarmReset \/ SendCanMessage
  BY DEF Next, MainLoop

-----------------------------------------------------------------------------
(***************************************************************************)
(* The C28 learns of every interlock, whatever comes between the write of  *)
(* a word, its flag and the C28's reading of them.                         *)
(***************************************************************************)
THEOREM C28LearnsOfInterlocks == Spec => []InterlockReachesC28
<1>1. Init => InterlockReachesC28
  BY DEF Init, InterlockReachesC28
<1>2. InterlockReachesC28 /\ [Next]_vars => InterlockReachesC28'
  <2> SUFFICES ASSUME InterlockReachesC28, [Next]_vars PROVE InterlockReachesC28'
    OBVIOUS
  <2> USE DEF InterlockReachesC28, link, loop, store
  <2>1. CASE UNCHANGED vars
    BY <2>1 DEF vars
  <2>2. CASE AskReset \/ TransmissionEnds \/ \E id \in Ids[model] : Arrive(id)
    BY <2>2 DEF AskReset, TransmissionEnds, Arrive
  <2>3. CASE \E f \in IpcFlags : C28Reads(f)
    BY <2>3 DEF C28Reads
  <2>4. CASE CallCanCheck \/ CallReset \/ SendCanMessage
    BY <2>4 DEF CallCanCheck, CallReset, SendCanMessage
  <2>5. CASE TestFlag \/ ClearFlag
    <3>1. UNCHANGED <<model, words, known, flags, bit>> /\ pc # "notify"
      BY <2>5 DEF TestFlag, ClearFlag
    <3> QED BY <3>1
  <2>6. CASE StoreData
    <3>1. UNCHANGED <<model, words, known, flags>> /\ pc # "notify"
      BY <2>6 DEF StoreData
    <3> QED BY <3>1
  <2>7. CASE SetInterlock
    <3>1. /\ words' = words \cup {InterlockTable(model)[bit']}
          /\ UNCHANGED <<model, known, flags>> /\ pc = "interlock" /\ pc' = "notify"
      BY <2>7 DEF SetInterlock
    <3> QED BY <3>1
  <2>8. CASE SendIpcFlag
    <3>1. /\ flags' = flags \cup {InterlockTable(model)[bit].word}
          /\ UNCHANGED <<model, words, known>>
      BY <2>8 DEF SendIpcFlag
    <3> QED BY <3>1
  <2>9. CASE InterlockAlarmReset
    BY <2>9 DEF InterlockAlarmReset
  <2> QED BY <2>1, <2>2, <2>3, <2>4, <2>5, <2>6, <2>7, <2>8, <2>9, Steps
<1> QED
  BY <1>1, <1>2, PTL DEF Spec

-----------------------------------------------------------------------------
(***************************************************************************)
(* A status bit that suppresses reports never outlives its interlock, in   *)
(* every model that reports once.                                          *)
(***************************************************************************)
THEOREM LatchesAreReported == Spec => []LatchedIsReported
<1>1. Init => LatchedIsReported
  BY DEF Init, LatchedIsReported
<1>2. LatchedIsReported /\ [Next]_vars => LatchedIsReported'
  <2> SUFFICES ASSUME LatchedIsReported, [Next]_vars PROVE LatchedIsReported'
    OBVIOUS
  <2> USE DEF link, loop, store
  <2>1. CASE UNCHANGED <<model, latched, words>>
    BY <2>1 DEF LatchedIsReported
  <2>2. CASE StoreData
    <3>1. latched' \subseteq latched /\ UNCHANGED <<model, words>>
      BY <2>2 DEF StoreData
    <3> QED BY <3>1 DEF LatchedIsReported
  <2>3. CASE SetInterlock
    <3>1. /\ latched' = latched \cup {<<at, bit'>>}
          /\ words' = words \cup {InterlockTable(model)[bit']} /\ UNCHANGED model
      BY <2>3 DEF SetInterlock
    <3> QED BY <3>1 DEF LatchedIsReported
  <2>4. CASE InterlockAlarmReset
    <3>1. UNCHANGED model /\ (ReportsOnce(model) => latched' = {})
      BY <2>4 DEF InterlockAlarmReset, InterlockStatusClear
    <3> QED BY <3>1 DEF LatchedIsReported
  <2>5. \/ UNCHANGED <<model, latched, words>>
        \/ StoreData \/ SetInterlock \/ InterlockAlarmReset
    BY Steps DEF vars, AskReset, TransmissionEnds, Arrive, C28Reads, CallCanCheck, TestFlag,
                 SendIpcFlag, ClearFlag, CallReset, SendCanMessage
  <2> QED BY <2>1, <2>2, <2>3, <2>4, <2>5
<1> QED
  BY <1>1, <1>2, PTL DEF Spec

-----------------------------------------------------------------------------
(***************************************************************************)
(* What was reported stays until a reset.                                  *)
(***************************************************************************)
THEOREM ReportsStay == Spec => []NothingForgotten
<1>1. Init => NothingForgotten
  BY DEF Init, NothingForgotten
<1>2. NothingForgotten /\ [Next]_vars => NothingForgotten'
  <2> SUFFICES ASSUME NothingForgotten, [Next]_vars PROVE NothingForgotten'
    OBVIOUS
  <2> USE DEF link, loop, store, NothingForgotten
  <2>1. CASE UNCHANGED <<alarms, words, reported>>
    BY <2>1
  <2>2. CASE StoreData
    BY <2>2 DEF StoreData, StoreAlarms
  <2>3. CASE SetInterlock
    BY <2>3 DEF SetInterlock
  <2>4. CASE InterlockAlarmReset
    BY <2>4 DEF InterlockAlarmReset
  <2>5. \/ UNCHANGED <<alarms, words, reported>>
        \/ StoreData \/ SetInterlock \/ InterlockAlarmReset
    BY Steps DEF vars, AskReset, TransmissionEnds, Arrive, C28Reads, CallCanCheck, TestFlag,
                 SendIpcFlag, ClearFlag, CallReset, SendCanMessage
  <2> QED BY <2>1, <2>2, <2>3, <2>4, <2>5
<1> QED
  BY <1>1, <1>2, PTL DEF Spec

-----------------------------------------------------------------------------
(***************************************************************************)
(* Flags of the objects in use are served: a flag set between the test and *)
(* the clearing of its object is the only one CanCheck has to come by, and *)
(* no object beyond the last has a flag.                                   *)
(***************************************************************************)
LEMMA ObjectsInUse ==
    ASSUME NEW m
    PROVE  /\ Len(ObjectIds(m)) \in 0 .. 6
           /\ DOMAIN ObjectIds(m) = 1 .. Len(ObjectIds(m))
<1>1. ObjectIds(m) \in {FapDcdcIds, FapAcdcIds, FacDcdcIds, << >>}
  BY DEF ObjectIds
<1>2. Len(FapDcdcIds) = 5 /\ DOMAIN FapDcdcIds = 1 .. 5
  BY DEF FapDcdcIds
<1>3. Len(FapAcdcIds) = 6 /\ DOMAIN FapAcdcIds = 1 .. 6
  BY DEF FapAcdcIds
<1>4. Len(FacDcdcIds) = 4 /\ DOMAIN FacDcdcIds = 1 .. 4
  BY DEF FacDcdcIds
<1>5. Len(<< >>) = 0 /\ DOMAIN << >> = 1 .. 0
  OBVIOUS
<1> QED BY <1>1, <1>2, <1>3, <1>4, <1>5

FlagsInUse ==
    /\ received \subseteq DOMAIN ObjectIds(model) \cup {TxObject}
    /\ at \in Nat

LEMMA FlagStep ==
    FlagsInUse /\ FlagIsServed /\ [Next]_vars => (FlagsInUse /\ FlagIsServed)'
<1> SUFFICES ASSUME FlagsInUse, FlagIsServed, [Next]_vars
             PROVE  FlagsInUse' /\ FlagIsServed'
  OBVIOUS
<1> USE DEF link, loop, store, FlagsInUse, FlagIsServed
<1> DEFINE last == Len(ObjectIds(model))
<1>0. last \in 0 .. 6 /\ DOMAIN ObjectIds(model) = 1 .. last
  BY ObjectsInUse
<1> HIDE DEF last
<1>1. CASE /\ UNCHANGED <<model, received, at>> /\ tasks \subseteq tasks'
           /\ (pc \notin {"idle", "reset", "transmit"} => pc' \notin {"idle", "reset", "transmit"})
  BY <1>1
<1>2. CASE \E id \in Ids[model] : Arrive(id)
  BY <1>2, <1>0 DEF Arrive, CANIntHandler
<1>3. CASE TransmissionEnds
  BY <1>3 DEF TransmissionEnds, CANIntHandler, Objects, TxObject
<1>4. CASE CallCanCheck
  BY <1>4 DEF CallCanCheck, Objects
<1>5. CASE TestFlag
  <2>1. CASE at \in received
    BY <1>5, <2>1 DEF TestFlag
  <2>2. CASE at \notin received
    <3>1. UNCHANGED <<model, received, tasks>> /\ pc = "test" /\ Advance
      BY <1>5, <2>2 DEF TestFlag
    <3>2. ASSUME NEW n \in Objects \cap received
          PROVE  "PROCESS_CAN_MESSAGE" \in tasks \/ (at < n /\ n <= last)
      BY <1>0, <2>2, <3>1 DEF Objects, TxObject
    <3> QED BY <3>1, <3>2, <1>0 DEF Advance, Objects, last
  <2> QED BY <2>1, <2>2
<1>6. CASE ClearFlag
  <2>1. /\ UNCHANGED <<model, tasks>> /\ received' = received \ {at} /\ pc = "clear"
        /\ Advance
    BY <1>6 DEF ClearFlag
  <2>2. ASSUME NEW n \in Objects \cap received'
        PROVE  "PROCESS_CAN_MESSAGE" \in tasks \/ (at < n /\ n <= last)
    BY <1>0, <2>1 DEF Objects, TxObject
  <2> QED BY <2>1, <2>2, <1>0 DEF Advance, Objects, last
<1>7. CASE CallReset
  BY <1>7 DEF CallReset
<1>8. CASE InterlockAlarmReset \/ SendCanMessage
  BY <1>8 DEF InterlockAlarmReset, SendCanMessage
<1>9. CASE UNCHANGED vars \/ AskReset \/ (\E f \in IpcFlags : C28Reads(f))
  BY <1>1, <1>9 DEF vars, AskReset, C28Reads
<1>10. CASE StoreData \/ SetInterlock \/ SendIpcFlag
  BY <1>1, <1>10 DEF StoreData, SetInterlock, SendIpcFlag
<1> QED
  BY <1>2, <1>3, <1>4, <1>5, <1>6, <1>7, <1>8, <1>9, <1>10, Steps

THEOREM FlagsAreServed == Spec => []FlagIsServed
<1>1. Init => FlagsInUse /\ FlagIsServed
  BY DEF Init, FlagsInUse, FlagIsServed
<1> QED
  BY <1>1, FlagStep, PTL DEF Spec

-----------------------------------------------------------------------------
(***************************************************************************)
(* What is shown is what was sent last.  A message in an object is the     *)
(* newest one, and has its flag set while the main loop does not work on   *)
(* that object, so that the buffer never holds a message of another        *)
(* object when something is stored.                                        *)
(***************************************************************************)
Working == pc \in {"store", "interlock", "notify", "clear"}

Mail == {Nothing} \cup UNION {Message(m, n) : m \in Models, n \in Objects}

MessagesInPlace ==
    /\ model \in Models /\ at \in Objects /\ object \in [Objects -> Mail]
    /\ newest \in [Objects -> Nat] /\ shown \in [Objects -> Nat] /\ peak \in [Objects -> Nat]
    /\ \A n \in Objects : object[n] # Nothing => object[n].value = newest[n]
    /\ \A n \in Objects \cap received : object[n] = Nothing => Working /\ at = n
    /\ pc = "store" => /\ data.value \in Nat
                       /\ object[at] = Nothing => data.value = newest[at]

LEMMA MessageSays ==
    ASSUME NEW n, NEW m \in Message(model, n)
    PROVE  m.value \in Nat /\ m # Nothing
<1>1. m.empty = FALSE /\ Nothing.empty = TRUE
  BY DEF Message, Nothing
<1>2. m.value \in Nat
  BY ContentsAssumption DEF Message
<1> QED BY <1>1, <1>2

LEMMA MeasuresAreObjects == ASSUME NEW m PROVE MeasureObjects(m) \subseteq Objects
  BY DEF MeasureObjects, FapDcdcMeasures, FapAcdcMeasures, FacAcdcMeasures, FacDcdcMeasures,
         Objects

LEMMA ShownStep ==
    MessagesInPlace /\ ShownIsNewest /\ [Next]_vars => (MessagesInPlace /\ ShownIsNewest)'
<1> SUFFICES ASSUME MessagesInPlace, ShownIsNewest, [Next]_vars
             PROVE  MessagesInPlace' /\ ShownIsNewest'
  OBVIOUS
<1> USE DEF link, loop, store
<1>1. CASE /\ UNCHANGED <<model, object, newest, shown, peak, at>> /\ received' \subseteq received
           /\ pc' # "store" /\ pc # "store"
           /\ Working' \/ ~Working \/ at \notin received'
  <2>1. ASSUME NEW n \in Objects \cap received', object'[n] = Nothing
        PROVE  Working' /\ at' = n
    BY <1>1, <2>1 DEF MessagesInPlace
  <2>2. MessagesInPlace'
    BY <1>1, <2>1 DEF MessagesInPlace
  <2>3. ShownIsNewest'
    BY <1>1 DEF ShownIsNewest
  <2> QED BY <2>2, <2>3
<1>2. CASE /\ UNCHANGED <<model, object, newest, shown, peak, at, pc, data>>
           /\ received' \cap Objects = received \cap Objects
  BY <1>2 DEF MessagesInPlace, ShownIsNewest, Working
<1>3. CASE \E id \in Ids[model] : Arrive(id)
  <2>0. PICK n \in DOMAIN ObjectIds(model) :
           /\ \E m \in Message(model, n) : /\ object' = [object EXCEPT ![n] = m]
                                          /\ newest' = [newest EXCEPT ![n] = m.value]
           /\ received' = received \cup {n}
           /\ UNCHANGED <<model, shown, peak, at, pc, data>>
    BY <1>3 DEF Arrive, CANIntHandler
  <2>1. PICK m \in Message(model, n) :
           /\ object' = [object EXCEPT ![n] = m]
           /\ newest' = [newest EXCEPT ![n] = m.value]
    BY <2>0
  <2>2. n \in Objects
    BY ObjectsInUse DEF Objects
  <2>3. m.value \in Nat /\ m # Nothing
    BY MessageSays
  <2> HIDE DEF Nothing
  <2>4. /\ object' \in [Objects -> Mail]
        /\ object'[n] = m /\ \A k \in Objects \ {n} : object'[k] = object[k]
    <3>1. m \in Mail
      BY <2>2 DEF Mail, MessagesInPlace
    <3> QED BY <2>1, <2>2, <3>1 DEF MessagesInPlace
  <2>5. /\ newest' \in [Objects -> Nat]
        /\ newest'[n] = m.value /\ \A k \in Objects \ {n} : newest'[k] = newest[k]
    BY <2>1, <2>2, <2>3 DEF MessagesInPlace
  <2>6. MessagesInPlace'
    BY <2>0, <2>1, <2>2, <2>3, <2>4, <2>5 DEF MessagesInPlace, Working
  <2>7. ShownIsNewest'
    BY <2>0, <2>1, <2>2, <2>3, <2>4, <2>5, MeasuresAreObjects DEF ShownIsNewest
  <2> QED BY <2>6, <2>7
<1>4. CASE TestFlag /\ at \in received
  <2>1. /\ pc = "test" /\ pc' = "store" /\ object' = [object EXCEPT ![at] = Nothing]
        /\ data' = IF object[at] = Nothing THEN data ELSE object[at]
        /\ UNCHANGED <<model, received, newest, shown, peak, at>>
    BY <1>4 DEF TestFlag
  <2>2. object[at] # Nothing
    BY <1>4, <2>1 DEF MessagesInPlace, Working
  <2>3. data'.value = newest[at] /\ newest[at] \in Nat
    BY <2>1, <2>2 DEF MessagesInPlace
  <2>4. /\ object' \in [Objects -> Mail]
        /\ object'[at] = Nothing /\ \A k \in Objects \ {at} : object'[k] = object[k]
    <3>1. Nothing \in Mail
      BY DEF Mail
    <3> QED BY <2>1, <3>1 DEF MessagesInPlace
  <2>5. MessagesInPlace'
    BY <2>1, <2>3, <2>4 DEF MessagesInPlace, Working
  <2>6. ShownIsNewest'
    BY <2>1, <2>4, MeasuresAreObjects DEF ShownIsNewest
  <2> QED BY <2>5, <2>6
<1>5. CASE (TestFlag /\ at \notin received) \/ ClearFlag
  <2>1. /\ pc \in {"test", "clear"} /\ Advance /\ received' = received \ {at}
        /\ UNCHANGED <<model, object, newest, shown, peak>>
    BY <1>5 DEF TestFlag, ClearFlag
  <2>2. at' \in Objects /\ pc' \in {"test", "idle"}
    <3> DEFINE last == Len(ObjectIds(model))
    <3>1. last \in 0 .. 6 /\ at \in 1 .. 6
      BY ObjectsInUse DEF MessagesInPlace, Objects
    <3>2. IF at < last THEN pc' = "test" /\ at' = at + 1 ELSE pc' = "idle" /\ at' = 1
      BY <2>1 DEF Advance
    <3> HIDE DEF last
    <3> QED BY <3>1, <3>2 DEF Objects
  <2>3. \A n \in Objects \cap received' : object[n] # Nothing
    BY <2>1 DEF MessagesInPlace, Working
  <2> QED BY <2>1, <2>2, <2>3 DEF MessagesInPlace, ShownIsNewest
<1>6. CASE StoreData
  <2>1. /\ pc = "store" /\ pc' \in {"interlock", "clear"} /\ StoreValue(data.value)
        /\ UNCHANGED <<model, object, received, newest, at>>
    BY <1>6 DEF StoreData
  <2> DEFINE v == data.value
  <2>2. v \in Nat /\ (object[at] = Nothing => v = newest[at])
    BY <2>1 DEF MessagesInPlace
  <2>3. /\ shown' = [shown EXCEPT ![at] = IF at \in MeasureObjects(model) THEN v ELSE @]
        /\ peak' = [peak EXCEPT ![at] = IF at \in PeakObjects(model) /\ v > @ THEN v ELSE @]
    BY <2>1 DEF StoreValue
  <2> HIDE DEF v
  <2>4. shown' \in [Objects -> Nat] /\ peak' \in [Objects -> Nat]
    BY <2>2, <2>3 DEF MessagesInPlace
  <2>5. /\ \A n \in Objects \ {at} : shown'[n] = shown[n] /\ peak'[n] = peak[n]
        /\ at \in MeasureObjects(model) => shown'[at] = v
        /\ at \in PeakObjects(model) => peak'[at] >= v
    BY <2>2, <2>3 DEF MessagesInPlace
  <2>6. MessagesInPlace'
    BY <2>1, <2>4 DEF MessagesInPlace, Working
  <2>7. ShownIsNewest'
    BY <2>1, <2>2, <2>5, MeasuresAreObjects DEF ShownIsNewest
  <2> QED BY <2>6, <2>7
<1>7. CASE CallCanCheck
  <2>1. /\ UNCHANGED <<model, object, received, newest, shown, peak>>
        /\ pc = "idle" /\ pc' = "test" /\ at' \in Objects
    BY <1>7 DEF CallCanCheck, Objects
  <2> QED BY <2>1 DEF MessagesInPlace, ShownIsNewest, Working
<1>8. CASE SetInterlock \/ SendIpcFlag \/ CallReset \/ InterlockAlarmReset \/ SendCanMessage
  BY <1>1, <1>8 DEF SetInterlock, SendIpcFlag, CallReset, InterlockAlarmReset, SendCanMessage,
                    Working
<1>9. CASE UNCHANGED vars \/ AskReset \/ TransmissionEnds \/ (\E f \in IpcFlags : C28Reads(f))
  BY <1>2, <1>9 DEF vars, AskReset, TransmissionEnds, CANIntHandler, C28Reads, TxObject, Objects
<1> QED
  BY <1>3, <1>4, <1>5, <1>6, <1>7, <1>8, <1>9, Steps

LEMMA ShownAtFirst == Init => MessagesInPlace /\ ShownIsNewest
<1> SUFFICES ASSUME Init PROVE MessagesInPlace /\ ShownIsNewest
  OBVIOUS
<1>1. /\ object = [n \in Objects |-> Nothing] /\ at = 1 /\ pc = "idle" /\ received = {}
      /\ newest = [n \in Objects |-> 0] /\ shown = newest /\ peak = newest
  BY DEF Init
<1>2. MessagesInPlace
  BY <1>1 DEF Init, MessagesInPlace, Mail, Objects
<1>3. ShownIsNewest
  BY <1>1, MeasuresAreObjects DEF ShownIsNewest
<1> QED BY <1>2, <1>3

THEOREM ShownStaysNewest == Spec => []ShownIsNewest
  BY ShownAtFirst, ShownStep, PTL DEF Spec

-----------------------------------------------------------------------------
(***************************************************************************)
(* The types.  That the buffer holds a message of the object looked at     *)
(* takes what has just been shown: a flag that is set means a message is   *)
(* there.  Interlocks are set only while one is left to report.            *)
(***************************************************************************)
Typed ==
    /\ TypeOK
    /\ MessagesInPlace
    /\ received \subseteq DOMAIN ObjectIds(model) \cup {TxObject}
    /\ IF Working THEN data \in Message(model, at) ELSE data = Nothing
    /\ pc = "interlock" => Fresh(bit) # {}
    /\ pc = "notify" => bit \in Bits(model) \cap 1 .. 16

LEMMA LeastIsThere ==
    ASSUME NEW S \in SUBSET Nat, S # {}
    PROVE  \E k \in S : \A j \in S : k <= j
<1> DEFINE less == {p \in Nat \X Nat : p[1] < p[2]}
<1>1. IsWellFoundedOn(less, Nat)
  BY NatLessThanWellFounded DEF OpToRel
<1>2. PICK x \in S : \A y \in S : <<y, x>> \notin less
  <2> HIDE DEF less
  <2> QED BY <1>1, WFMin
<1>3. \A y \in S : ~(y < x)
  BY <1>2
<1> QED BY <1>3

\* What a message of an object may say.
LEMMA MessageTells ==
    ASSUME NEW n, NEW m, NEW d \in Message(m, n)
    PROVE  /\ d.value \in 0 .. MaxValue
           /\ d.alarms \subseteq DOMAIN AlarmTable(m)
           /\ d.interlocks \subseteq Bits(m) \cap 1 .. 16
           /\ d.interlocks # {} => n \in StatusObjects(m)
<1>1. CASE n \in StatusObjects(m)
  <2>1. PICK c \in Contents : d = [value |-> 0, alarms |-> c.alarms \cap DOMAIN AlarmTable(m),
                                  interlocks |-> c.interlocks \cap Bits(m), empty |-> FALSE]
    BY <1>1 DEF Message
  <2> QED BY <1>1, <2>1, ContentsAssumption
<1>2. CASE n \notin StatusObjects(m)
  <2>1. PICK v \in 0 .. MaxValue :
           d = [value |-> v, alarms |-> {}, interlocks |-> {}, empty |-> FALSE]
    BY <1>2 DEF Message
  <2> QED BY <2>1
<1> QED BY <1>1, <1>2

\* Every interlock belongs to one of the two words, and each has a flag.
LEMMA WordsHaveFlags ==
    ASSUME NEW m, NEW b \in Bits(m)
    PROVE  InterlockTable(m)[b].word \in IpcFlags
<1> DEFINE Flagged(t) == \A k \in DOMAIN t : t[k].word \in IpcFlags
<1>1. \A name : Hard(name).word \in IpcFlags /\ Soft(name).word \in IpcFlags
  BY DEF Hard, Soft, IpcFlags
<1>2. Flagged(FapDcdcInterlocks)
  BY <1>1 DEF FapDcdcInterlocks
<1>3. Flagged(FapAcdcElectrical \o FapAcdcThermal \o FapAcdcMains)
  BY <1>1 DEF FapAcdcElectrical, FapAcdcThermal, FapAcdcMains
<1>4. Flagged(FacAcdcInterlocks)
  BY <1>1 DEF FacAcdcInterlocks
<1>5. Flagged(FacDcdcInterlocks)
  BY <1>1 DEF FacDcdcInterlocks
<1> HIDE DEF Flagged
<1>6. Flagged(InterlockTable(m))
  BY <1>2, <1>3, <1>4, <1>5 DEF InterlockTable
<1> QED BY <1>6 DEF Flagged, Bits

LEMMA FreshIsSaid ==
    ASSUME NEW b
    PROVE  Fresh(b) \subseteq data.interlocks
  BY DEF Fresh

LEMMA TypedStep ==
    Typed /\ ShownIsNewest /\ [Next]_vars => (Typed /\ ShownIsNewest)'
<1> SUFFICES ASSUME Typed, ShownIsNewest, [Next]_vars
             PROVE  Typed' /\ ShownIsNewest'
  OBVIOUS
<1>0. MessagesInPlace' /\ ShownIsNewest'
  BY ShownStep DEF Typed
<1> USE DEF link, loop, store
<1> DEFINE last == Len(ObjectIds(model))
<1>a. last \in 0 .. 6 /\ DOMAIN ObjectIds(model) = 1 .. last
  BY ObjectsInUse
<1> HIDE DEF last
<1>1. CASE /\ UNCHANGED <<model, object, loop, store, newest>> /\ sending' \in BOOLEAN
           /\ received' \subseteq received \cup {TxObject}
           /\ tasks' \subseteq tasks \cup {"PROCESS_CAN_MESSAGE", "CLEAR_ITLK_ALARM"}
           /\ flags' \subseteq flags /\ known' \subseteq words
  BY <1>0, <1>1 DEF Typed, TypeOK, Working, Fresh
<1>2. CASE \E id \in Ids[model] : Arrive(id)
  <2>1. PICK n \in DOMAIN ObjectIds(model) :
           /\ \E m \in Message(model, n) : /\ object' = [object EXCEPT ![n] = m]
                                          /\ newest' = [newest EXCEPT ![n] = m.value]
           /\ CANIntHandler(n)
           /\ UNCHANGED <<model, sending, loop, store, flags, known>>
    BY <1>2 DEF Arrive
  <2>2. PICK m \in Message(model, n) : /\ object' = [object EXCEPT ![n] = m]
                                      /\ newest' = [newest EXCEPT ![n] = m.value]
    BY <2>1
  <2>3. n \in Objects /\ n \in 1 .. last
    BY <1>a DEF Objects
  <2>4. m.value \in 0 .. MaxValue
    BY MessageTells
  <2>5. newest' \in [Objects -> 0 .. MaxValue]
    BY <2>2, <2>3, <2>4 DEF Typed, TypeOK
  <2>6. \A k \in Objects : object'[k] = Nothing \/ object'[k] \in Message(model, k)
    <3> HIDE DEF Nothing
    <3> QED BY <2>2, <2>3 DEF Typed, TypeOK, MessagesInPlace
  <2>7. /\ received' \subseteq (1 .. last) \cup {TxObject}
        /\ received' \subseteq Objects \cup {TxObject}
        /\ tasks' \subseteq {"PROCESS_CAN_MESSAGE", "CLEAR_ITLK_ALARM"}
    BY <1>a, <2>1, <2>3 DEF Typed, TypeOK, CANIntHandler
  <2>8. TypeOK'
    BY <2>1, <2>5, <2>6, <2>7 DEF Typed, TypeOK
  <2> QED BY <1>0, <1>a, <2>1, <2>7, <2>8 DEF Typed, Working, Fresh
<1>3. CASE UNCHANGED vars \/ AskReset \/ TransmissionEnds \/ \E f \in IpcFlags : C28Reads(f)
  <2>1. CASE UNCHANGED vars \/ AskReset \/ TransmissionEnds
    BY <1>1, <2>1 DEF vars, AskReset, TransmissionEnds, CANIntHandler, Typed, TypeOK
  <2>2. CASE \E f \in IpcFlags : C28Reads(f)
    BY <1>1, <2>2 DEF C28Reads, Typed, TypeOK
  <2> QED BY <1>3, <2>1, <2>2
<1>4. CASE CallCanCheck \/ SendCanMessage \/ CallReset
  <2>1. /\ UNCHANGED <<model, object, received, bit, data, store, known, newest>>
        /\ sending' \in BOOLEAN /\ tasks' \subseteq tasks
        /\ flags' \subseteq flags \cup {"RESET_INTERLOCKS"}
        /\ pc \in {"idle", "transmit"} /\ pc' \in {"test", "reset", "idle"}
        /\ at' = at \/ at' = 1
    BY <1>4 DEF CallCanCheck, SendCanMessage, CallReset, Typed, TypeOK
  <2>2. at' \in Objects /\ data = Nothing /\ flags' \subseteq IpcFlags
    BY <2>1 DEF Typed, TypeOK, Working, Objects, IpcFlags
  <2>3. TypeOK'
    BY <2>1, <2>2 DEF Typed, TypeOK
  <2> QED BY <1>0, <2>1, <2>2, <2>3 DEF Typed, Working
<1>5. CASE TestFlag /\ at \in received
  <2>1. /\ pc = "test" /\ pc' = "store" /\ object' = [object EXCEPT ![at] = Nothing]
        /\ data' = IF object[at] = Nothing THEN data ELSE object[at]
        /\ UNCHANGED <<model, at, sending, received, tasks, bit, store, flags, known, newest>>
    BY <1>5 DEF TestFlag
  <2>2. at \in Objects /\ object[at] # Nothing
    BY <1>5, <2>1 DEF Typed, MessagesInPlace, Working
  <2>3. data' \in Message(model, at)
    BY <2>1, <2>2 DEF Typed, TypeOK
  <2>4. \A k \in Objects : object'[k] = Nothing \/ object'[k] \in Message(model, k)
    <3> HIDE DEF Nothing
    <3> QED BY <2>1, <2>2 DEF Typed, TypeOK, MessagesInPlace
  <2>5. TypeOK'
    BY <2>1, <2>3, <2>4 DEF Typed, TypeOK
  <2> QED BY <1>0, <2>1, <2>3, <2>5 DEF Typed, Working
<1>6. CASE (TestFlag /\ at \notin received) \/ ClearFlag
  <2>1. /\ Advance /\ received' \subseteq received /\ data' = Nothing
        /\ UNCHANGED <<model, object, sending, tasks, bit, store, flags, known, newest>>
    BY <1>6 DEF TestFlag, ClearFlag, Typed, Working
  <2>2. at' \in Objects /\ pc' \in {"test", "idle"}
    <3>1. IF at < last THEN pc' = "test" /\ at' = at + 1 ELSE pc' = "idle" /\ at' = 1
      BY <2>1 DEF Advance, last
    <3>2. at \in 1 .. 6
      BY DEF Typed, TypeOK, Objects
    <3> QED BY <1>a, <3>1, <3>2 DEF Objects
  <2>3. TypeOK'
    BY <2>1, <2>2 DEF Typed, TypeOK
  <2> QED BY <1>0, <2>1, <2>2, <2>3 DEF Typed, Working
<1>7. CASE StoreData
  <2> DEFINE said == {Alarm(AlarmTable(model)[b]) : b \in data.alarms}
  <2>1. /\ pc = "store" /\ alarms' = alarms \cup said /\ reported' = reported \cup said
        /\ StoreValue(data.value)
        /\ latched' \subseteq latched /\ bit' = 1
        /\ pc' = IF at \in StatusObjects(model) /\ Fresh(1) # {} THEN "interlock" ELSE "clear"
        /\ UNCHANGED <<model, link, tasks, at, data, words, flags, known, newest>>
    BY <1>7 DEF StoreData, StoreAlarms
  <2>2. data \in Message(model, at)
    BY <2>1 DEF Typed, Working
  <2>3. /\ data.value \in 0 .. MaxValue
        /\ data.alarms \subseteq DOMAIN AlarmTable(model)
        /\ data.interlocks \subseteq Bits(model) \cap 1 .. 16
        /\ data.interlocks # {} => at \in StatusObjects(model)
    BY <2>2, MessageTells
  <2>4. said \subseteq AlarmNames
    BY <2>3 DEF AlarmNames, Typed, TypeOK
  <2> HIDE DEF said
  <2>5. shown' \in [Objects -> 0 .. MaxValue] /\ peak' \in [Objects -> 0 .. MaxValue]
    BY <2>1, <2>3 DEF StoreValue, Typed, TypeOK
  <2>6. TypeOK'
    BY <2>1, <2>2, <2>4, <2>5 DEF Typed, TypeOK
  <2>7. (pc' = "interlock") => (Fresh(bit))' # {}
    <3> SUFFICES ASSUME pc' = "interlock" PROVE (Fresh(bit))' # {}
      OBVIOUS
    <3>1. PICK k \in Fresh(1) : TRUE
      BY <2>1
    <3>2. k \in data.interlocks /\ k >= 1 /\ (ReportsOnce(model) => <<at, k>> \notin latched)
      BY <3>1 DEF Fresh
    <3>3. k \in (Fresh(bit))'
      BY <2>1, <3>2 DEF Fresh
    <3> QED BY <3>3
  <2> QED BY <1>0, <2>1, <2>2, <2>6, <2>7 DEF Typed, Working
<1>8. CASE SetInterlock
  <2> DEFINE b == CHOOSE k \in Fresh(bit) : \A j \in Fresh(bit) : k <= j
  <2>1. /\ pc = "interlock" /\ bit' = b /\ latched' = latched \cup {<<at, b>>}
        /\ words' = words \cup {InterlockTable(model)[b]}
        /\ reported' = reported \cup {InterlockTable(model)[b]} /\ pc' = "notify"
        /\ UNCHANGED <<model, link, tasks, at, data, shown, peak, alarms, flags, known, newest>>
    BY <1>8 DEF SetInterlock
  <2>2. data \in Message(model, at) /\ Fresh(bit) # {}
    BY <2>1 DEF Typed, Working
  <2>3. /\ data.interlocks \subseteq Bits(model) \cap 1 .. 16
        /\ data.interlocks # {} => at \in StatusObjects(model)
    BY <2>2, MessageTells
  <2>4. Fresh(bit) \in SUBSET Nat
    BY <2>3, FreshIsSaid
  <2>5. b \in Fresh(bit)
    BY <2>2, <2>4, LeastIsThere
  <2> HIDE DEF b
  <2>6. b \in Bits(model) \cap 1 .. 16 /\ at \in StatusObjects(model)
    BY <2>3, <2>5, FreshIsSaid
  <2>7. InterlockTable(model)[b] \in Names
    BY <2>6 DEF Names, Typed, TypeOK
  <2>8. TypeOK'
    BY <2>1, <2>6, <2>7 DEF Typed, TypeOK
  <2> QED BY <1>0, <2>1, <2>6, <2>8 DEF Typed, Working
<1>9. CASE SendIpcFlag
  <2>1. /\ pc = "notify" /\ flags' = flags \cup {InterlockTable(model)[bit].word}
        /\ bit' = bit + 1
        /\ pc' = IF Fresh(bit + 1) # {} THEN "interlock" ELSE "clear"
        /\ UNCHANGED <<model, link, tasks, at, data, store, known, newest>>
    BY <1>9 DEF SendIpcFlag
  <2>2. bit \in Bits(model) \cap 1 .. 16 /\ data \in Message(model, at)
    BY <2>1 DEF Typed, Working
  <2>3. InterlockTable(model)[bit].word \in IpcFlags
    BY <2>2, WordsHaveFlags
  <2>4. TypeOK'
    BY <2>1, <2>2, <2>3 DEF Typed, TypeOK
  <2>5. (Fresh(bit))' = Fresh(bit + 1)
    BY <2>1 DEF Fresh
  <2> QED BY <1>0, <2>1, <2>2, <2>4, <2>5 DEF Typed, Working
<1>10. CASE InterlockAlarmReset
  <2>1. latched' \subseteq latched
    BY <1>10 DEF InterlockAlarmReset, InterlockStatusClear
  <2>2. /\ words' = {} /\ known' = {} /\ alarms' = {} /\ reported' = {}
        /\ pc = "reset" /\ pc' = "transmit"
        /\ UNCHANGED <<model, link, tasks, at, bit, data, shown, peak, flags, newest>>
    BY <1>10 DEF InterlockAlarmReset
  <2>3. TypeOK'
    BY <2>1, <2>2 DEF Typed, TypeOK
  <2> QED BY <1>0, <2>2, <2>3 DEF Typed, Working
<1> QED
  BY <1>2, <1>3, <1>4, <1>5, <1>6, <1>7, <1>8, <1>9, <1>10, Steps

(***************************************************************************)
(* Every variable of the link keeps its type: the message in the buffer is *)
(* one of the object looked at, and the main loop stays within the tables  *)
(* of the model.                                                           *)
(***************************************************************************)
THEOREM CanTypeCorrect == Spec => []TypeOK
<1>1. Init => Typed /\ ShownIsNewest
  <2> SUFFICES ASSUME Init PROVE Typed /\ ShownIsNewest
    OBVIOUS
  <2>1. MessagesInPlace /\ ShownIsNewest
    BY ShownAtFirst
  <2>2. TypeOK
    <3>1. /\ shown \in [Objects -> 0 .. MaxValue]
          /\ \A n \in Objects : object[n] = Nothing
      BY ContentsAssumption DEF Init
    <3>2. at \in Objects /\ bit \in 1 .. 17
      BY DEF Init, Objects
    <3> QED BY <3>1, <3>2 DEF Init, TypeOK
  <2> QED BY <2>1, <2>2 DEF Init, Typed, Working
<1>2. Typed => TypeOK
  BY DEF Typed
<1> QED
  BY <1>1, <1>2, TypedStep, PTL DEF Spec

=============================================================================
