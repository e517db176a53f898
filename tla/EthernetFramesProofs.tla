------------------------ MODULE EthernetFramesProofs ------------------------
(***************************************************************************)
(* The safety of the movement and addressing of Ethernet frames, for every *)
(* set of hosts and frames, size of the table, range of its clock and age. *)
(***************************************************************************)
EXTENDS EthernetFrames, WellFoundedInduction, TLAPS

-----------------------------------------------------------------------------
(***************************************************************************)
(* The table.                                                              *)
(***************************************************************************)
(***************************************************************************)
(* A set of numbers that is not empty has a first element.                 *)
(***************************************************************************)
LEMMA FirstIsIn ==
    ASSUME NEW S \in SUBSET Nat, S # {}
    PROVE  First(S) \in S
<1> DEFINE less == {p \in Nat \X Nat : p[1] < p[2]}
<1>1. IsWellFoundedOn(less, Nat)
  BY NatLessThanWellFounded DEF OpToRel
<1>2. PICK x \in S : \A y \in S : <<y, x>> \notin less
  <2> HIDE DEF less
  <2> QED BY <1>1, WFMin
<1>3. \A y \in S : ~(y < x)
  BY <1>2
<1>4. \A y \in S : x <= y
  BY <1>3
<1> QED BY <1>4 DEF First

(***************************************************************************)
(* A place is always found, and it is that of the address when the table   *)
(* has one.                                                                *)
(***************************************************************************)
LEMMA PlaceIsSlot ==
    ASSUME NEW t \in [Slot -> Entry], NEW ip, NEW now \in Time
    PROVE  /\ Place(t, ip, now) \in Slot
           /\ At(t, ip) # {} => Place(t, ip, now) \in At(t, ip)
<1> DEFINE positive == {i \in Slot : now - t[i].time > 0}
           oldest == {i \in positive : \A j \in positive :
                         ~(now - t[j].time > now - t[i].time)}
<1>1. Slot \subseteq Nat /\ 1 \in Slot
  BY ArpAssumption DEF Slot
<1>2. At(t, ip) # {} => First(At(t, ip)) \in At(t, ip)
  BY <1>1, FirstIsIn DEF At
<1>3. At(t, NoIp) # {} => First(At(t, NoIp)) \in At(t, NoIp)
  BY <1>1, FirstIsIn DEF At
<1>4. positive # {} => oldest # {}
  <2> SUFFICES ASSUME positive # {} PROVE oldest # {}
    OBVIOUS
  <2> DEFINE times == {t[i].time : i \in positive}
             older == {p \in Nat \X Nat : p[1] < p[2]}
  <2>1. times \subseteq Nat /\ times # {}
    BY ArpAssumption DEF Entry, Time
  <2>2. IsWellFoundedOn(older, Nat)
    BY NatLessThanWellFounded DEF OpToRel
  <2>3. PICK x \in times : \A y \in times : <<y, x>> \notin older
    <3> HIDE DEF older, times
    <3> QED BY <2>1, <2>2, WFMin
  <2>4. PICK i \in positive : x = t[i].time
    OBVIOUS
  <2>5. ASSUME NEW j \in positive PROVE ~(now - t[j].time > now - t[i].time)
    <3>1. t[j].time \in Nat /\ t[i].time \in Nat /\ ~(t[j].time < t[i].time)
      BY <2>1, <2>3, <2>4
    <3> QED BY <3>1, ArpAssumption DEF Time
  <2> QED BY <2>5
<1>5. Oldest(t, now) \in Slot
  <2>1. CASE positive = {}
    BY <2>1, <1>1 DEF Oldest
  <2>2. CASE positive # {}
    <3>1. First(oldest) \in oldest
      BY <1>1, <1>4, <2>2, FirstIsIn
    <3> QED BY <2>2, <3>1 DEF Oldest
  <2> QED BY <2>1, <2>2
<1> QED
  BY <1>2, <1>3, <1>5 DEF Place, At

LEMMA UpdateType ==
    ASSUME NEW t \in [Slot -> Entry], NEW ip \in Local, NEW m \in Macs, NEW now \in Time
    PROVE  Update(t, ip, m, now) \in [Slot -> Entry]
BY PlaceIsSlot DEF Update, Entry

LEMMA DropType ==
    ASSUME NEW t \in [Slot -> Entry], NEW now \in Time
    PROVE  Drop(t, now) \in [Slot -> Entry]
BY DEF Drop, Entry

(***************************************************************************)
(* Whatever host a packet is for, a frame is made for it.                  *)
(***************************************************************************)
LEMMA AddressedType ==
    ASSUME TypeOK, NEW h \in Host
    PROVE  Addressed(h) \in Frame /\ Addressed(h).way = "out"
<1>1. NextHop(h) \in Host \cup {NoIp}
  BY DEF NextHop, Host
<1>2. CASE Known(table, h)
  <2>1. First(At(table, NextHop(h))) \in At(table, NextHop(h))
    BY <1>2, FirstIsIn DEF Known, At, Slot
  <2>2. MacFor(table, h) \in Macs \cup {NoMac}
    BY <2>1 DEF MacFor, At, TypeOK, Entry
  <2> QED BY <1>2, <2>2 DEF Addressed, Outgoing, Frame
<1>3. CASE ~Known(table, h)
  BY <1>1, <1>3 DEF Addressed, Outgoing, Frame
<1> QED BY <1>2, <1>3

(***************************************************************************)
(* What arrives is a frame of a host.                                      *)
(***************************************************************************)
LEMMA InFrameType ==
    \A f \in InFrame :
        /\ f \in Frame /\ f.way = "in" /\ f.host \in Host /\ f.mac \in Macs
        /\ f.kind \in {"IP", "REQUEST", "REPLY"} /\ (f.kind # "IP" => f.host \in Local)
<1>1. TAKE f \in InFrame
<1>2. PICK w \in Workload : f \in w.frames
  BY DEF InFrame
<1>3. /\ f = Incoming(f.kind, f.host, f.mac) /\ f.host \in Host
      /\ f.kind \in {"IP", "REQUEST", "REPLY"} /\ (f.kind # "IP" => f.host \in Local)
  BY <1>2, WorkloadAssumption
<1>4. f.mac \in Macs
  BY DEF Macs
<1> DEFINE k == f.kind
           h == f.host
           m == f.mac
<1>5. f = [way |-> "in", kind |-> k, host |-> h, mac |-> m]
  BY <1>3 DEF Incoming
<1> HIDE DEF k, h, m
<1>6. k \in {"IP", "REQUEST", "REPLY"} /\ h \in Host /\ m \in Macs
  BY <1>3, <1>4 DEF k, h, m
<1>7. f \in Frame /\ f.way = "in"
  BY <1>5, <1>6 DEF Frame
<1> QED BY <1>3, <1>4, <1>7

LEMMA FirstConn == 1 \in 1 .. Conns + 1
BY WorkloadAssumption

LEMMA InitType == Init => TypeOK
<1> SUFFICES ASSUME Init PROVE TypeOK
  OBVIOUS
<1>1. table \in [Slot -> Entry] /\ arptime \in Time
  BY ArpAssumption DEF Init, EmptyTable, Entry, Time
<1>2. buffer \in Frame /\ buffer = NoFrame
  BY DEF Init, NoFrame, Incoming, Frame
<1>3. last \in [host : Local \cup {NoIp}, age : 0 .. MaxAge]
  BY ArpAssumption DEF Init
<1>4. fifo \in Seq(InFrame)
  BY DEF Init
<1> QED
  BY <1>1, <1>2, <1>3, <1>4, FirstConn DEF Init, TypeOK, Places, Flags

-----------------------------------------------------------------------------
(***************************************************************************)
(* Types.                                                                  *)
(***************************************************************************)
LEMMA TypeStep == TypeOK /\ [Next]_vars => TypeOK'
<1> SUFFICES ASSUME TypeOK, [Next]_vars PROVE TypeOK'
  OBVIOUS
<1> USE DEF TypeOK, driver, output, addresses
<1>1. CASE UNCHANGED vars
  BY <1>1 DEF vars
<1>2. CASE EthernetIntHandler
  BY <1>2 DEF EthernetIntHandler, Flags
<1>3. ASSUME NEW f \in InFrame, Arrive(f) PROVE TypeOK'
  <2>1. fifo' \in Seq(InFrame)
    BY <1>3 DEF Arrive
  <2> QED BY <1>3, <2>1 DEF Arrive
<1>4. CASE ReceiveDone
  <2>1. CASE fifo = << >>
    BY <1>4, <2>1 DEF ReceiveDone, NoFrame, Incoming, Frame
  <2>2. CASE fifo # << >>
    <3>1. Head(fifo) \in InFrame /\ Tail(fifo) \in Seq(InFrame)
      BY <2>2
    <3>2. buffer' \in Frame /\ buffer' \in InFrame /\ fifo' \in Seq(InFrame)
      BY <1>4, <2>2, <3>1, InFrameType DEF ReceiveDone
    <3> QED BY <1>4, <3>2 DEF ReceiveDone
  <2> QED BY <2>1, <2>2
<1>5. CASE TransmitDone
  BY <1>5 DEF TransmitDone
<1>6. CASE Transmitted
  BY <1>6 DEF Transmitted
<1>7. CASE SysTickIntHandler
  BY <1>7 DEF SysTickIntHandler, Flags
<1>8. CASE MainLoop
  <2>1. CASE ProcessData
    <3>1. due' \subseteq {"periodic", "arp"}
      BY <2>1, WorkloadAssumption DEF ProcessData
    <3> QED BY <2>1, <3>1 DEF ProcessData, Places
  <2>2. CASE MarkReceive
    <3>1. CASE "RXPKT" \in flags
      <4>1. /\ flags' = flags \cup {"RXPKTPEND"} /\ pc' = "rxset" /\ conn' = conn
            /\ UNCHANGED <<workload, fifo, enabled, done, rx, tx, buffer, output, due,
                           addresses, slip>>
        BY <2>2, <3>1 DEF MarkReceive
      <4> QED BY <4>1 DEF Places, Flags
    <3>2. CASE "RXPKT" \notin flags
      BY <2>2, <3>2, FirstConn DEF MarkReceive, Places
    <3> QED BY <3>1, <3>2
  <2>3. CASE StartReceive
    BY <2>3 DEF StartReceive, Places
  <2>4. CASE AwaitReceive
    BY <2>4 DEF AwaitReceive, Places
  <2>5. CASE ClearReceived
    BY <2>5 DEF ClearReceived, Places
  <2>6. CASE EnableReceive
    BY <2>6 DEF EnableReceive, Places
  <2>7. CASE UipInput
    <3>1. buffer \in InFrame \/ buffer = NoFrame
      BY <2>7 DEF UipInput
    <3>2. buffer.host \in Host
      BY <2>7, <3>1, InFrameType DEF UipInput, NoFrame, Incoming
    <3>3. Addressed(buffer.host) \in Frame /\ Addressed(buffer.host).way = "out"
      BY <3>2, AddressedType
    <3>4. buffer' \in Frame /\ (buffer'.way = "in" => buffer' \in InFrame \cup {NoFrame})
      BY <2>7, <3>3 DEF UipInput
    <3> QED BY <2>7, <3>4, FirstConn DEF UipInput, Continue, Places
  <2>8. CASE UipArpIn
    <3>1. buffer \in InFrame
      BY <2>8 DEF UipArpIn, NoFrame, Incoming
    <3>2. buffer.host \in Local /\ buffer.mac \in Macs
      BY <2>8, <3>1, InFrameType DEF UipArpIn
    <3>3. table' \in [Slot -> Entry]
      BY <2>8, <3>2, UpdateType DEF UipArpIn, Hear
    <3>4. heard' \in [Local -> Macs \cup {NoMac}] /\ arptime' = arptime
      BY <2>8, <3>2 DEF UipArpIn, Hear
    <3>5. last' \in [host : Local \cup {NoIp}, age : 0 .. MaxAge]
      BY <2>8, <3>2, ArpAssumption DEF UipArpIn, Hear
    <3>6. buffer' \in Frame /\ (buffer'.way = "in" => buffer' \in InFrame \cup {NoFrame})
      BY <2>8, <3>1, <3>2 DEF UipArpIn, Outgoing, Frame, Host
    <3> QED
      BY <2>8, <3>3, <3>4, <3>5, <3>6, FirstConn
         DEF UipArpIn, Continue, Places
  <2>9. CASE UipIgnores
    BY <2>9, FirstConn DEF UipIgnores, Continue, Places
  <2>10. CASE MarkTransmit
    BY <2>10 DEF MarkTransmit, Places, Flags
  <2>11. CASE StartTransmit
    BY <2>11 DEF StartTransmit, Places
  <2>12. CASE AwaitTransmit
    BY <2>12 DEF AwaitTransmit, Continue, Places
  <2>13. CASE UipPeriodic
    <3>1. conn' \in 1 .. Conns + 1
      BY <2>13, WorkloadAssumption DEF UipPeriodic
    <3>2. ASSUME NEW f \in workload.frames
          PROVE  Addressed(f.host) \in Frame /\ Addressed(f.host).way = "out"
      BY AddressedType, WorkloadAssumption
    <3>3. buffer' \in Frame /\ (buffer'.way = "in" => buffer' \in InFrame \cup {NoFrame})
      BY <2>13, <3>2 DEF UipPeriodic
    <3> QED BY <2>13, <3>1, <3>3 DEF UipPeriodic, Places
  <2>14. CASE UipArpTimer
    <3>1. arptime' \in Time
      BY <2>14, ArpAssumption DEF UipArpTimer, Time
    <3>2. table' \in [Slot -> Entry]
      BY <2>14, <3>1, DropType DEF UipArpTimer
    <3>3. last' \in [host : Local \cup {NoIp}, age : 0 .. MaxAge]
      BY <2>14, ArpAssumption DEF UipArpTimer
    <3> QED BY <2>14, <3>1, <3>2, <3>3 DEF UipArpTimer, Places
  <2> QED
    BY <1>8, <2>1, <2>2, <2>3, <2>4, <2>5, <2>6, <2>7, <2>8, <2>9, <2>10, <2>11, <2>12,
       <2>13, <2>14 DEF MainLoop
<1> QED
  BY <1>1, <1>2, <1>3, <1>4, <1>5, <1>6, <1>7, <1>8 DEF Next

(***************************************************************************)
(* Every variable keeps its type, for all constants: a place in the table  *)
(* is always found, and no counter leaves its range.                       *)
(***************************************************************************)
THEOREM FramesTypeCorrect == Spec => []TypeOK
BY InitType, TypeStep, PTL DEF Spec

-----------------------------------------------------------------------------
(***************************************************************************)
(* Hearing.  NeverDeaf holds whether there is a frame or not: the handler  *)
(* that disables the interrupt sets the flag in the same step, and only    *)
(* the main loop clears it, on its way to enabling the interrupt.          *)
(***************************************************************************)
Armed == enabled \/ "RXPKT" \in flags \/ pc = "rxenable"

LEMMA ArmedStep == TypeOK /\ Armed /\ [Next]_vars => Armed'
<1> SUFFICES ASSUME TypeOK, Armed, [Next]_vars PROVE Armed'
  OBVIOUS
<1> USE DEF Armed, driver
<1>1. CASE UNCHANGED vars
  BY <1>1 DEF vars
<1>2. CASE EthernetIntHandler
  <2>1. CASE fifo = << >>
    BY <1>2, <2>1 DEF EthernetIntHandler
  <2>2. CASE fifo # << >>
    BY <1>2, <2>2 DEF EthernetIntHandler
  <2> QED BY <2>1, <2>2
<1>3. ASSUME NEW f \in InFrame, Arrive(f) PROVE Armed'
  BY <1>3 DEF Arrive
<1>4. CASE ReceiveDone \/ TransmitDone \/ Transmitted \/ SysTickIntHandler
  BY <1>4 DEF ReceiveDone, TransmitDone, Transmitted, SysTickIntHandler
<1>5. CASE MainLoop
  <2>1. CASE ProcessData \/ MarkReceive \/ StartReceive \/ AwaitReceive
    BY <1>5, <2>1 DEF ProcessData, MarkReceive, StartReceive, AwaitReceive
  <2>2. CASE ClearReceived \/ EnableReceive
    BY <2>2 DEF ClearReceived, EnableReceive
  <2>3. CASE UipInput \/ UipArpIn \/ UipIgnores \/ UipPeriodic \/ UipArpTimer
    BY <2>3 DEF UipInput, UipArpIn, UipIgnores, UipPeriodic, UipArpTimer
  <2>4. CASE MarkTransmit \/ StartTransmit \/ AwaitTransmit
    BY <2>4 DEF MarkTransmit, StartTransmit, AwaitTransmit
  <2> QED BY <1>5, <2>1, <2>2, <2>3, <2>4 DEF MainLoop
<1> QED
  BY <1>1, <1>2, <1>3, <1>4, <1>5 DEF Next

(***************************************************************************)
(* The board never goes deaf: whatever the order of frames, interrupts and *)
(* steps of the main loop, a frame in the FIFO is going to be noticed.     *)
(***************************************************************************)
THEOREM StaysAttentive == Spec => []NeverDeaf
<1>1. Init => Armed
  BY DEF Init, Armed
<1>2. Armed => NeverDeaf
  BY DEF Armed, NeverDeaf
<1> QED
  BY <1>1, <1>2, InitType, TypeStep, ArmedStep, PTL DEF Spec

-----------------------------------------------------------------------------
(***************************************************************************)
(* Addresses.  No address is in the table twice, so that the place where   *)
(* an announcement is noted is the only one where a packet's hardware      *)
(* address can be found.                                                   *)
(***************************************************************************)
OneEntryEach ==
    \A i, j \in Slot : table[i].ip = table[j].ip /\ i # j => table[i].ip = NoIp

TableAsHeard ==
    \A i \in Slot : table[i].ip \in Local => table[i].mac = heard[table[i].ip]

HomeInv == OneEntryEach /\ TableAsHeard /\ AnswersGoHome

LEMMA AddressedHome ==
    ASSUME TypeOK, TableAsHeard, NEW h \in Host, Addressed(h).kind = "IP", h \in Local
    PROVE  Addressed(h) = Outgoing("IP", h, heard[h])
<1>1. Known(table, h) /\ NextHop(h) = h
  BY DEF Addressed, Outgoing, NextHop
<1>2. First(At(table, h)) \in At(table, h)
  BY <1>1, FirstIsIn DEF Known, At, Slot
<1>3. MacFor(table, h) = heard[h]
  BY <1>1, <1>2 DEF MacFor, At, TableAsHeard
<1> QED BY <1>1, <1>3 DEF Addressed

(***************************************************************************)
(* A frame made for a local host is addressed as that host was heard.      *)
(***************************************************************************)
LEMMA AddressedAsHeard ==
    ASSUME TypeOK, TableAsHeard, NEW h \in Host
    PROVE  Addressed(h).kind = "IP" /\ Addressed(h).host \in Local =>
               Addressed(h).mac = heard[Addressed(h).host]
<1> SUFFICES ASSUME Addressed(h).kind = "IP", Addressed(h).host \in Local
             PROVE  Addressed(h).mac = heard[Addressed(h).host]
  OBVIOUS
<1>1. Addressed(h).host = h
  BY DEF Addressed, Outgoing
<1>2. Addressed(h) = Outgoing("IP", h, heard[h])
  BY <1>1, AddressedHome
<1> QED BY <1>1, <1>2 DEF Outgoing

LEMMA HearHome ==
    ASSUME TypeOK, OneEntryEach, TableAsHeard,
           NEW f \in InFrame, f.host \in Local, f.mac \in Macs, Hear(f)
    PROVE  OneEntryEach' /\ TableAsHeard'
<1> DEFINE p == Place(table, f.host, arptime)
<1>1. table \in [Slot -> Entry] /\ arptime \in Time /\ NoIp \notin Local
  BY ArpAssumption DEF TypeOK
<1>2. p \in Slot /\ (At(table, f.host) # {} => p \in At(table, f.host))
  BY <1>1, PlaceIsSlot
<1>3. \A i \in Slot : i # p => table[i].ip # f.host
  <2>1. SUFFICES ASSUME NEW i \in Slot, table[i].ip = f.host PROVE i = p
    OBVIOUS
  <2>2. p \in At(table, f.host)
    BY <2>1, <1>2 DEF At
  <2>3. table[p].ip = table[i].ip /\ table[i].ip # NoIp
    BY <2>1, <2>2, <1>1 DEF At
  <2> QED BY <2>3, <1>2 DEF OneEntryEach
<1>4. table' = [table EXCEPT ![p] = [ip |-> f.host, mac |-> f.mac, time |-> arptime]]
  BY DEF Hear, Update
<1>5. heard' = [heard EXCEPT ![f.host] = f.mac] /\ heard \in [Local -> Macs \cup {NoMac}]
  BY DEF Hear, TypeOK
<1> HIDE DEF p
<1>6. /\ table'[p].ip = f.host /\ table'[p].mac = f.mac
      /\ \A i \in Slot : i # p => table'[i] = table[i]
  BY <1>1, <1>2, <1>4
<1>7. OneEntryEach'
  BY <1>3, <1>6 DEF OneEntryEach
<1>8. TableAsHeard'
  <2>1. SUFFICES ASSUME NEW i \in Slot, table'[i].ip \in Local
                 PROVE  table'[i].mac = heard'[table'[i].ip]
    BY DEF TableAsHeard
  <2>2. CASE i = p
    BY <2>1, <2>2, <1>5, <1>6
  <2>3. CASE i # p
    BY <2>1, <2>3, <1>3, <1>5, <1>6 DEF TableAsHeard
  <2> QED BY <2>2, <2>3
<1> QED BY <1>7, <1>8

LEMMA HomeStep == TypeOK /\ HomeInv /\ [Next]_vars => HomeInv'
<1> SUFFICES ASSUME TypeOK, HomeInv, [Next]_vars PROVE HomeInv'
  OBVIOUS
<1>1. ASSUME UNCHANGED addresses, UNCHANGED buffer, pc' # "put" \/ pc = "put"
      PROVE  HomeInv'
  BY <1>1 DEF HomeInv, OneEntryEach, TableAsHeard, AnswersGoHome, addresses
<1>2. ASSUME UNCHANGED addresses, NEW h \in Host, buffer' = Addressed(h)
      PROVE  HomeInv'
  <2>1. buffer'.kind = "IP" /\ buffer'.host \in Local => buffer'.mac = heard[buffer'.host]
    BY <1>2, AddressedAsHeard DEF HomeInv
  <2> QED
    BY <1>2, <2>1 DEF HomeInv, OneEntryEach, TableAsHeard, AnswersGoHome, addresses
<1> USE DEF driver, output
<1>3. CASE UNCHANGED vars
  BY <1>1, <1>3 DEF vars
<1>4. CASE EthernetIntHandler
  BY <1>1, <1>4 DEF EthernetIntHandler, addresses
<1>5. ASSUME NEW f \in InFrame, Arrive(f) PROVE HomeInv'
  BY <1>1, <1>5 DEF Arrive
<1>6. CASE ReceiveDone
  <2>1. UNCHANGED <<addresses, pc>>
    BY <1>6 DEF ReceiveDone
  <2>2. buffer'.way = "in"
    BY <1>6, InFrameType DEF ReceiveDone, TypeOK, NoFrame, Incoming
  <2> QED
    BY <2>1, <2>2 DEF HomeInv, OneEntryEach, TableAsHeard, AnswersGoHome, addresses
<1>7. CASE TransmitDone \/ Transmitted \/ SysTickIntHandler
  BY <1>1, <1>7 DEF TransmitDone, Transmitted, SysTickIntHandler
<1>8. CASE MainLoop
  <2>1. CASE ProcessData \/ MarkReceive \/ StartReceive \/ AwaitReceive
    BY <1>1, <2>1 DEF ProcessData, MarkReceive, StartReceive, AwaitReceive
  <2>2. CASE ClearReceived \/ EnableReceive
    BY <1>1, <2>2 DEF ClearReceived, EnableReceive
  <2>3. CASE UipInput
    <3>1. buffer.host \in Host
      BY <2>3, InFrameType DEF UipInput, TypeOK, NoFrame, Incoming
    <3> QED
      BY <1>1, <1>2, <2>3, <3>1 DEF UipInput, Continue
  <2>4. CASE UipArpIn
    <3>1. buffer \in InFrame /\ buffer.host \in Local /\ buffer.mac \in Macs
      BY <2>4, InFrameType DEF UipArpIn, TypeOK, NoFrame, Incoming
    <3>2. OneEntryEach' /\ TableAsHeard'
      BY <2>4, <3>1, HearHome DEF UipArpIn, HomeInv
    <3>3. AnswersGoHome'
      BY <2>4 DEF UipArpIn, Continue, AnswersGoHome, Outgoing
    <3> QED BY <3>2, <3>3 DEF HomeInv
  <2>5. CASE UipIgnores
    BY <1>1, <2>5 DEF UipIgnores, Continue
  <2>6. CASE MarkTransmit \/ StartTransmit \/ AwaitTransmit
    BY <1>1, <2>6 DEF MarkTransmit, StartTransmit, AwaitTransmit, Continue
  <2>7. CASE UipPeriodic
    <3>1. \A f \in workload.frames : f.host \in Host
      BY WorkloadAssumption DEF TypeOK
    <3>2. UNCHANGED addresses
      BY <2>7 DEF UipPeriodic
    <3>3. \/ \E h \in {f.host : f \in workload.frames} : buffer' = Addressed(h)
          \/ UNCHANGED buffer /\ (pc' # "put" \/ pc = "put")
      BY <2>7 DEF UipPeriodic
    <3> QED BY <1>1, <1>2, <3>1, <3>2, <3>3
  <2>8. CASE UipArpTimer
    <3>1. CASE "arp" \in due
      <4>1. table' = Drop(table, arptime') /\ heard' = heard /\ pc' = "idle"
        BY <2>8, <3>1 DEF UipArpTimer
      <4>2. \A i \in Slot : table'[i].ip = NoIp \/ table'[i] = table[i]
        BY <4>1 DEF Drop, TypeOK, Entry
      <4> QED
        BY <4>1, <4>2, ArpAssumption DEF HomeInv, OneEntryEach, TableAsHeard, AnswersGoHome
    <3>2. CASE "arp" \notin due
      BY <1>1, <2>8, <3>2 DEF UipArpTimer
    <3> QED BY <3>1, <3>2
  <2> QED
    BY <1>8, <2>1, <2>2, <2>3, <2>4, <2>5, <2>6, <2>7, <2>8 DEF MainLoop
<1> QED
  BY <1>3, <1>4, <1>5, <1>6, <1>7, <1>8 DEF Next

(***************************************************************************)
(* An answer to a local host goes to the hardware address that the host    *)
(* announced last, however entries were added, dropped and replaced.       *)
(***************************************************************************)
THEOREM AnswersReachTheirHost == Spec => []AnswersGoHome
<1>1. Init => HomeInv
  BY ArpAssumption
     DEF Init, HomeInv, OneEntryEach, TableAsHeard, AnswersGoHome, EmptyTable
<1>2. HomeInv => AnswersGoHome
  BY DEF HomeInv
<1> QED
  BY <1>1, <1>2, InitType, TypeStep, HomeStep, PTL DEF Spec

-----------------------------------------------------------------------------
(***************************************************************************)
(* Ages.  The difference of the clock and the time of the entry of the     *)
(* host heard last is the number of runs of the timer since, or, when the  *)
(* clock has started again in between, that number less its range.         *)
(***************************************************************************)
Aged(i) ==
    \/ arptime - table[i].time = last.age
    \/ arptime - table[i].time = last.age - TimeModulus

LastIsThere ==
    last.host # NoIp /\ last.age < MaxAge =>
        \E i \in Slot : table[i].ip = last.host /\ Aged(i)

LEMMA LastStep == TypeOK /\ LastIsThere /\ [Next]_vars => LastIsThere'
<1> SUFFICES ASSUME TypeOK, LastIsThere, [Next]_vars PROVE LastIsThere'
  OBVIOUS
<1>1. CASE UNCHANGED addresses
  BY <1>1 DEF LastIsThere, Aged, addresses
<1>2. CASE UipArpIn
  <2> DEFINE p == Place(table, buffer.host, arptime)
  <2>1. buffer \in InFrame /\ buffer.host \in Local
    BY <1>2, InFrameType DEF UipArpIn, TypeOK, NoFrame, Incoming
  <2>2. p \in Slot
    BY PlaceIsSlot DEF TypeOK
  <2>3. /\ table' = [table EXCEPT ![p] = [ip |-> buffer.host, mac |-> buffer.mac,
                                          time |-> arptime]]
        /\ arptime' = arptime /\ last' = [host |-> buffer.host, age |-> 0]
    BY <1>2 DEF UipArpIn, Hear, Update
  <2> HIDE DEF p
  <2>4. table'[p].ip = last'.host /\ table'[p].time = arptime' /\ last'.age = 0
    BY <2>2, <2>3 DEF TypeOK
  <2>5. arptime' - table'[p].time = last'.age
    BY <2>3, <2>4, ArpAssumption DEF TypeOK, Time
  <2> QED BY <2>2, <2>4, <2>5 DEF LastIsThere, Aged
<1>3. CASE UipArpTimer /\ "arp" \in due
  <2>1. SUFFICES ASSUME last'.host # NoIp, last'.age < MaxAge
                 PROVE  \E i \in Slot : table'[i].ip = last'.host /\ Aged(i)'
    BY DEF LastIsThere
  <2>2. /\ arptime' = (arptime + 1) % TimeModulus /\ table' = Drop(table, arptime')
        /\ last' = [last EXCEPT !.age = IF last.age < MaxAge THEN last.age + 1 ELSE last.age]
    BY <1>3 DEF UipArpTimer
  <2>3. last'.host = last.host /\ last.age < MaxAge /\ last'.age = last.age + 1
    BY <2>1, <2>2, ArpAssumption DEF TypeOK
  <2>4. PICK i \in Slot : table[i].ip = last.host /\ Aged(i)
    BY <2>1, <2>3 DEF LastIsThere
  <2> DEFINE a == last.age
             s == table[i].time
  <2>5. /\ arptime \in 0 .. TimeModulus - 1 /\ s \in 0 .. TimeModulus - 1
        /\ a \in Nat /\ TimeModulus \in Nat \ {0} /\ MaxAge \in 1 .. TimeModulus
    BY ArpAssumption DEF TypeOK, Entry, Time
  <2>6. arptime' = IF arptime + 1 < TimeModulus THEN arptime + 1 ELSE 0
    <3>1. CASE arptime + 1 < TimeModulus
      BY <2>2, <2>5, <3>1
    <3>2. CASE arptime + 1 = TimeModulus
      BY <2>2, <2>5, <3>2
    <3> QED BY <2>5, <3>1, <3>2
  <2>7. arptime - s = a \/ arptime - s = a - TimeModulus
    BY <2>4 DEF Aged
  <2>8. a + 1 < MaxAge
    BY <2>1, <2>3
  <2> HIDE DEF a, s
  <2>9. arptime' - s = a + 1 \/ arptime' - s = a + 1 - TimeModulus
    BY <2>5, <2>6, <2>7, <2>8
  <2>10. ~(arptime' - s >= MaxAge)
    BY <2>5, <2>8, <2>9
  <2>11. table'[i] = table[i]
    BY <2>2, <2>10 DEF Drop, s
  <2>12. last'.age = a + 1 /\ table'[i].time = s /\ table'[i].ip = last'.host
    BY <2>3, <2>4, <2>11 DEF a, s
  <2>13. \/ arptime' - table'[i].time = last'.age
         \/ arptime' - table'[i].time = last'.age - TimeModulus
    BY <2>5, <2>6, <2>9, <2>12
  <2>14. Aged(i)'
    BY <2>13 DEF Aged
  <2> QED BY <2>12, <2>14
<1> QED
  <2> USE DEF driver, output
  <2>1. CASE UNCHANGED vars
    BY <1>1, <2>1 DEF vars
  <2>2. CASE EthernetIntHandler
    BY <1>1, <2>2 DEF EthernetIntHandler, addresses
  <2>3. CASE \E f \in InFrame : Arrive(f)
    BY <1>1, <2>3 DEF Arrive
  <2>4. CASE ReceiveDone \/ TransmitDone \/ Transmitted \/ SysTickIntHandler
    BY <1>1, <2>4 DEF ReceiveDone, TransmitDone, Transmitted, SysTickIntHandler
  <2>5. CASE ProcessData \/ MarkReceive \/ StartReceive \/ AwaitReceive
    BY <1>1, <2>5 DEF ProcessData, MarkReceive, StartReceive, AwaitReceive
  <2>6. CASE ClearReceived \/ EnableReceive \/ UipInput \/ UipIgnores \/ UipPeriodic
    BY <1>1, <2>6 DEF ClearReceived, EnableReceive, UipInput, UipIgnores, UipPeriodic
  <2>7. CASE MarkTransmit \/ StartTransmit \/ AwaitTransmit
    BY <1>1, <2>7 DEF MarkTransmit, StartTransmit, AwaitTransmit
  <2>8. CASE UipArpTimer /\ "arp" \notin due
    BY <1>1, <2>8 DEF UipArpTimer
  <2> QED
    BY <1>2, <1>3, <2>1, <2>2, <2>3, <2>4, <2>5, <2>6, <2>7, <2>8 DEF Next, MainLoop

(***************************************************************************)
(* The host heard last stays in the table for MaxAge runs of the timer,    *)
(* for every range of the clock, also while the clock starts again.        *)
(***************************************************************************)
THEOREM FreshEntriesStay == Spec => []FreshIsKnown
<1>1. Init => LastIsThere
  BY DEF Init, LastIsThere
<1>2. TypeOK /\ LastIsThere => FreshIsKnown
  BY ArpAssumption DEF TypeOK, LastIsThere, FreshIsKnown, Known, NextHop, At
<1> QED
  BY <1>1, <1>2, InitType, TypeStep, LastStep, PTL DEF Spec

-----------------------------------------------------------------------------
(***************************************************************************)
(* Whole frames.  As long as nothing has slipped, the receiving channel    *)
(* runs only while the main loop waits for it, with the frame it is to     *)
(* copy at the head of the FIFO, and the TX FIFO holds something only      *)
(* while the main loop waits for the handler to have it transmitted.       *)
(***************************************************************************)
FlagTellsTruth ==
    "RXPKT" \in flags /\ pc \notin {"rxwait", "rxclear"} => fifo # << >>

Receiving ==
    /\ pc = "rxset" => "RXPKTPEND" \in flags /\ rx = "stop"
    /\ rx = "run" => pc = "rxwait" /\ "RXPKTPEND" \in flags
    /\ pc = "rxset" \/ rx = "run" => fifo # << >> /\ taken = Head(fifo)
    /\ pc = "rxwait" /\ rx = "stop" => buffer = taken
    /\ pc \in {"rxclear", "rxenable", "input"} => buffer = taken

Sending ==
    /\ pc = "txset" => /\ "TXPKT" \in flags /\ tx = "stop" /\ load = "nothing"
                       /\ image = buffer
    /\ pc = "txwait" /\ tx = "run" => /\ "TXPKT" \in flags /\ load = "part"
                                      /\ image = buffer
    /\ pc = "txwait" /\ tx = "stop" =>
          load = IF "TXPKT" \in flags THEN "all" ELSE "nothing"
    /\ pc \notin {"txset", "txwait"} =>
          tx = "stop" /\ load = "nothing" /\ "TXPKT" \notin flags

Whole == ~slip => FlagTellsTruth /\ Receiving /\ Sending /\ wire \in {"nothing", "all"}

LEMMA WholeStep == TypeOK /\ Whole /\ [Next]_vars => Whole'
<1> SUFFICES ASSUME TypeOK, Whole, [Next]_vars, ~slip' PROVE Whole'
  BY DEF Whole
<1> USE DEF driver, output, addresses
<1>1. CASE UNCHANGED <<fifo, flags, rx, tx, buffer, load, wire, pc, taken, image, slip>>
  BY <1>1 DEF Whole, FlagTellsTruth, Receiving, Sending
<1>2. CASE EthernetIntHandler
  <2>1. /\ fifo' = fifo /\ rx' = rx /\ tx' = tx /\ buffer' = buffer
        /\ image' = image /\ pc' = pc /\ taken' = taken /\ ~slip
        /\ ~("RXPKTPEND" \in flags /\ rx = "stop" /\ pc = "rxset")
        /\ ~("TXPKT" \in flags /\ tx = "stop" /\ pc = "txset")
    BY <1>2 DEF EthernetIntHandler
  <2>2. /\ "RXPKT" \in flags' => "RXPKT" \in flags \/ fifo # << >>
        /\ "RXPKTPEND" \in flags' <=> "RXPKTPEND" \in flags /\ rx # "stop"
        /\ "TXPKT" \in flags' <=> "TXPKT" \in flags /\ tx # "stop"
    BY <1>2 DEF EthernetIntHandler
  <2>3. IF "TXPKT" \in flags /\ tx = "stop"
        THEN wire' = load /\ load' = "nothing" ELSE wire' = wire /\ load' = load
    BY <1>2 DEF EthernetIntHandler
  <2>4. FlagTellsTruth'
    BY <2>1, <2>2 DEF Whole, FlagTellsTruth
  <2>5. Receiving'
    BY <2>1, <2>2 DEF Whole, Receiving
  <2>6. Sending' /\ wire' \in {"nothing", "all"}
    BY <2>1, <2>2, <2>3 DEF Whole, Sending, TypeOK
  <2> QED BY <2>4, <2>5, <2>6 DEF Whole
<1>3. CASE \E f \in InFrame : Arrive(f)
  <2>1. PICK f \in InFrame : Arrive(f)
    BY <1>3
  <2>2. /\ fifo' = Append(fifo, f) /\ fifo' # << >>
        /\ UNCHANGED <<flags, rx, tx, buffer, load, wire, pc, taken, image, slip>>
    BY <2>1 DEF Arrive, TypeOK
  <2>3. fifo # << >> => Head(fifo') = Head(fifo)
    BY <2>2 DEF TypeOK
  <2> QED BY <2>2, <2>3 DEF Whole, FlagTellsTruth, Receiving, Sending
<1>4. CASE ReceiveDone
  <2>1. /\ rx = "run" /\ rx' = "stop"
        /\ UNCHANGED <<flags, tx, load, wire, pc, taken, image, slip>>
        /\ fifo # << >> => buffer' = Head(fifo)
    BY <1>4 DEF ReceiveDone
  <2>2. pc = "rxwait" /\ buffer' = taken
    BY <2>1 DEF Whole, Receiving
  <2> QED BY <2>1, <2>2 DEF Whole, FlagTellsTruth, Receiving, Sending
<1>5. CASE TransmitDone
  <2>1. /\ tx = "run" /\ tx' = "stop"
        /\ load' = IF load = "part" /\ buffer = image THEN "all" ELSE "other"
        /\ UNCHANGED <<fifo, flags, rx, buffer, wire, pc, taken, image, slip>>
    BY <1>5 DEF TransmitDone
  <2>2. pc = "txwait" /\ load' = "all" /\ "TXPKT" \in flags
    BY <2>1 DEF Whole, Sending
  <2> QED BY <2>1, <2>2 DEF Whole, FlagTellsTruth, Receiving, Sending
<1>6. CASE SysTickIntHandler \/ ProcessData
  BY <1>6 DEF SysTickIntHandler, ProcessData, Whole, FlagTellsTruth, Receiving, Sending
<1>7. CASE MarkReceive
  BY <1>7 DEF MarkReceive, Whole, FlagTellsTruth, Receiving, Sending, TypeOK
<1>8. CASE StartReceive \/ AwaitReceive
  BY <1>8 DEF StartReceive, AwaitReceive, Whole, FlagTellsTruth, Receiving, Sending, TypeOK
<1>9. CASE ClearReceived \/ EnableReceive
  BY <1>9 DEF ClearReceived, EnableReceive, Whole, FlagTellsTruth, Receiving, Sending
<1>10. CASE UipInput \/ UipArpIn \/ UipIgnores
  <2>1. /\ pc = "input" /\ pc' \in {"put", "periodic"}
        /\ UNCHANGED <<fifo, flags, rx, tx, load, wire, slip>>
    BY <1>10 DEF UipInput, UipArpIn, UipIgnores, Continue
  <2> QED BY <2>1 DEF Whole, FlagTellsTruth, Receiving, Sending, TypeOK
<1>11. CASE MarkTransmit \/ StartTransmit
  BY <1>11 DEF MarkTransmit, StartTransmit, Whole, FlagTellsTruth, Receiving, Sending, TypeOK
<1>12. CASE AwaitTransmit
  BY <1>12 DEF AwaitTransmit, Continue, Whole, FlagTellsTruth, Receiving, Sending, TypeOK
<1>13. CASE UipPeriodic \/ UipArpTimer
  <2>1. /\ pc \in {"periodic", "arp"} /\ pc' \in {"periodic", "put", "arp", "idle"}
        /\ UNCHANGED <<fifo, flags, rx, tx, load, wire, slip>>
    BY <1>13 DEF UipPeriodic, UipArpTimer
  <2> QED BY <2>1 DEF Whole, FlagTellsTruth, Receiving, Sending, TypeOK
<1>14. CASE Transmitted \/ UNCHANGED vars
  BY <1>1, <1>14 DEF Transmitted, vars
<1> QED
  BY <1>2, <1>3, <1>4, <1>5, <1>6, <1>7, <1>8, <1>9, <1>10, <1>11, <1>12, <1>13, <1>14
     DEF Next, MainLoop

(***************************************************************************)
(* Frames come in and go out whole: what the stack works on is the frame   *)
(* that arrived, and what is transmitted is what the stack left, in every  *)
(* order of interrupts, transfers and steps but the two that set slip.     *)
(***************************************************************************)
THEOREM FramesStayWhole == Spec => []FramesAreWhole
<1>1. Init => Whole
  BY DEF Init, Whole, FlagTellsTruth, Receiving, Sending
<1>2. Whole => FramesAreWhole
  BY DEF Whole, Receiving, FramesAreWhole
<1> QED
  BY <1>1, <1>2, InitType, TypeStep, WholeStep, PTL DEF Spec

=============================================================================
