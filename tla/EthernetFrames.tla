--------------------------- MODULE EthernetFrames ---------------------------
(***************************************************************************)
(* How Ethernet frames get into and out of the board (ethernet_uip.c) and  *)
(* how outgoing ones are addressed (uip_arp.c).                            *)
(*                                                                         *)
(* The controller keeps what it receives in a FIFO and interrupts as long  *)
(* as there is a frame in it and the RX interrupt is enabled.  The handler *)
(* sets a flag and disables the RX interrupt; the main loop has the frame  *)
(* copied by a DMA channel to uip_buf, the one buffer of the stack, clears *)
(* the flag and enables the interrupt again.  The stack leaves its answer  *)
(* in the same buffer, from where a second channel copies it to the        *)
(* controller's TX FIFO.  The end of a transfer raises the same interrupt  *)
(* and its handler then has the frame transmitted.                         *)
(*                                                                         *)
(* The flags are single bits in a bit-band region: setting one is one      *)
(* step.  An interrupt that is pending is handled before the main loop     *)
(* takes another step.                                                     *)
(***************************************************************************)
EXTENDS Arp, Sequences

CONSTANTS
    Far,       \* addresses outside the local network
    Workload,  \* what comes from the network: records of the frames that may
               \* come, of how many the FIFO holds, of the timers that run, and
               \* of whether frames and ticks come only to a board at rest
    Conns      \* UIP_CONNS

Host == Local \cup Far
InFrame == UNION {w.frames : w \in Workload}
Macs == {f.mac : f \in InFrame}

\* Frames in the buffer: from a host, or made for one.
Incoming(kind, host, mac) == [way |-> "in", kind |-> kind, host |-> host, mac |-> mac]
Outgoing(kind, host, mac) == [way |-> "out", kind |-> kind, host |-> host, mac |-> mac]

ASSUME WorkloadAssumption ==
    /\ Conns \in Nat
    /\ \A w \in Workload :
        /\ w.timers \subseteq {"periodic", "arp"}
        /\ \A f \in w.frames :
            /\ f = Incoming(f.kind, f.host, f.mac) /\ f.host \in Host
            /\ f.kind \in {"IP", "REQUEST", "REPLY"}
            /\ f.kind # "IP" => f.host \in Local

NoFrame == Incoming("NONE", NoIp, NoMac)

VARIABLES
    workload,
    fifo,     \* the frames received and not read
    enabled,  \* the RX interrupt is enabled
    done,     \* a channel has finished and its interrupt is pending
    flags,    \* g_ulFlags
    rx, tx,   \* the two DMA channels: "stop" or "run"
    buffer,   \* uip_buf
    load,     \* what the TX FIFO holds of a frame: nothing, a part, all of it
              \* or what the stack did not mean to send
    mac,      \* MAC_TR_NEWTX is set: the controller transmits
    pc,       \* where EthernetProcessData is
    conn,     \* ulTemp, the connection of the periodic loop
    due,      \* the timers that have run out
    table,    \* arp_table
    arptime,
    taken,    \* history: the frame being read
    image,    \* history: the frame being sent, as the stack left it
    wire,     \* history: what was sent last, a value of load
    heard,    \* history: the address each local host announced to us last
    last,     \* history: the host heard last, and the runs of the timer since
    slip      \* history: a transfer went on while nobody waited for it, or
              \* the handler took one for finished that had not begun

driver == <<fifo, enabled, done, flags, rx, tx>>
output == <<load, mac, image, wire>>
addresses == <<table, arptime, heard, last>>
vars == <<workload, driver, buffer, output, pc, conn, due, addresses, taken, slip>>

Flags == {"SYSTICK", "RXPKT", "TXPKT", "RXPKTPEND"}
Places == {"idle", "rx", "rxset", "rxwait", "rxclear", "rxenable", "input", "put",
           "txset", "txwait", "periodic", "arp"}

Entry == [ip : Local \cup {NoIp}, mac : Macs \cup {NoMac}, time : Time]
Frame == [way : {"in", "out"}, kind : {"NONE", "IP", "REQUEST", "REPLY"},
          host : Host \cup {NoIp}, mac : Macs \cup {NoMac, Broadcast}]

TypeOK ==
    /\ workload \in Workload
    /\ fifo \in Seq(InFrame)
    /\ enabled \in BOOLEAN /\ done \in BOOLEAN /\ mac \in BOOLEAN
    /\ flags \subseteq Flags
    /\ rx \in {"stop", "run"} /\ tx \in {"stop", "run"}
    /\ buffer \in Frame /\ (buffer.way = "in" => buffer \in InFrame \cup {NoFrame})
    /\ load \in {"nothing", "part", "all", "other"} /\ wire \in {"nothing", "part", "all", "other"}
    /\ pc \in Places /\ conn \in 1 .. Conns + 1 /\ due \subseteq {"periodic", "arp"}
    /\ table \in [Slot -> Entry]
    /\ arptime \in Time
    /\ heard \in [Local -> Macs \cup {NoMac}]
    /\ last \in [host : Local \cup {NoIp}, age : 0 .. MaxAge]
    /\ slip \in BOOLEAN

Init ==
    /\ workload \in Workload
    /\ fifo = << >> /\ enabled = TRUE /\ done = FALSE /\ flags = {}
    /\ rx = "stop" /\ tx = "stop"
    /\ buffer = NoFrame /\ taken = NoFrame /\ image = NoFrame
    /\ load = "nothing" /\ wire = "nothing" /\ mac = FALSE
    /\ pc = "idle" /\ conn = 1 /\ due = {}
    /\ table = EmptyTable /\ arptime = 0
    /\ heard = [h \in Local |-> NoMac] /\ last = [host |-> NoIp, age |-> 0]
    /\ slip = FALSE

-----------------------------------------------------------------------------
(***************************************************************************)
(* The network, the DMA controller, the transmitter and the tick.          *)
(***************************************************************************)
AtRest == pc = "idle" /\ flags = {} /\ ~done /\ fifo = << >> /\ ~mac

Arrive(f) ==
    /\ workload.calm => AtRest
    /\ f \in workload.frames /\ Len(fifo) < workload.depth
    /\ fifo' = Append(fifo, f)
    /\ UNCHANGED <<workload, enabled, done, flags, rx, tx, buffer, output, pc, conn, due,
                   addresses, taken, slip>>

\* The frame has been copied to the buffer.  (An empty FIFO gives what no host
\* has sent; the stack finds no type of its own in it.)
ReceiveDone ==
    /\ rx = "run"
    /\ rx' = "stop" /\ done' = TRUE
    /\ IF fifo = << >> THEN buffer' = NoFrame /\ UNCHANGED fifo
                      ELSE buffer' = Head(fifo) /\ fifo' = Tail(fifo)
    /\ UNCHANGED <<workload, enabled, flags, tx, output, pc, conn, due, addresses, taken,
                   slip>>

\* The buffer has been copied to the TX FIFO.
TransmitDone ==
    /\ tx = "run"
    /\ tx' = "stop" /\ done' = TRUE
    /\ load' = IF load = "part" /\ buffer = image THEN "all" ELSE "other"
    /\ UNCHANGED <<workload, fifo, enabled, flags, rx, buffer, mac, image, wire, pc, conn,
                   due, addresses, taken, slip>>

Transmitted ==
    /\ mac /\ mac' = FALSE
    /\ UNCHANGED <<workload, driver, buffer, load, image, wire, pc, conn, due, addresses,
                   taken, slip>>

SysTickIntHandler ==
    /\ workload.timers # {}
    /\ workload.calm => AtRest
    /\ flags' = flags \cup {"SYSTICK"}
    /\ UNCHANGED <<workload, fifo, enabled, done, rx, tx, buffer, output, pc, conn, due,
                   addresses, taken, slip>>

-----------------------------------------------------------------------------
Pending == done \/ (enabled /\ fifo # << >>)

\* Mutant of EthernetIntHandler: the state of the channels is not looked at.
EthernetIntHandlerBlind ==
    /\ Pending
    /\ done' = FALSE
    /\ enabled' = (enabled /\ fifo = << >>)
    /\ flags' = (flags \ {"RXPKTPEND", "TXPKT"}) \cup {f \in {"RXPKT"} : fifo # << >>}
    /\ IF "TXPKT" \in flags
       THEN mac' = TRUE /\ wire' = load /\ load' = "nothing"
       ELSE UNCHANGED <<mac, wire, load>>
    /\ UNCHANGED <<workload, fifo, rx, tx, buffer, image, pc, conn, due, addresses, taken,
                   slip>>

\* Mutant of EthernetIntHandler: the transfers are looked at only when nothing
\* has been received.
EthernetIntHandlerElse ==
    LET received == "RXPKTPEND" \in flags /\ rx = "stop" /\ fifo = << >>
        loaded == "TXPKT" \in flags /\ tx = "stop" /\ fifo = << >> IN
    /\ Pending
    /\ done' = FALSE
    /\ enabled' = (enabled /\ fifo = << >>)
    /\ flags' = (flags \ ({f \in {"RXPKTPEND"} : received} \cup {f \in {"TXPKT"} : loaded}))
                    \cup {f \in {"RXPKT"} : fifo # << >>}
    /\ IF loaded
       THEN mac' = TRUE /\ wire' = load /\ load' = "nothing"
       ELSE UNCHANGED <<mac, wire, load>>
    /\ slip' = (slip \/ (received /\ pc = "rxset") \/ (loaded /\ pc = "txset"))
    /\ UNCHANGED <<workload, fifo, rx, tx, buffer, image, pc, conn, due, addresses, taken>>

\* The interrupt status is read unmasked: a frame in the FIFO counts also
\* while its interrupt is disabled.  A channel that is stopped is taken for
\* one that has finished.
EthernetIntHandler ==
    LET received == "RXPKTPEND" \in flags /\ rx = "stop"
        loaded == "TXPKT" \in flags /\ tx = "stop" IN
    /\ Pending
    /\ done' = FALSE
    /\ enabled' = (enabled /\ fifo = << >>)
    /\ flags' = (flags \ ({f \in {"RXPKTPEND"} : received} \cup {f \in {"TXPKT"} : loaded}))
                    \cup {f \in {"RXPKT"} : fifo # << >>}
    /\ IF loaded
       THEN mac' = TRUE /\ wire' = load /\ load' = "nothing"
       ELSE UNCHANGED <<mac, wire, load>>
    /\ slip' = (slip \/ (received /\ pc = "rxset") \/ (loaded /\ pc = "txset"))
    /\ UNCHANGED <<workload, fifo, rx, tx, buffer, image, pc, conn, due, addresses, taken>>

-----------------------------------------------------------------------------
\* EthernetProcessData: the tick first; the periodic and the ARP timer run
\* out on some ticks.
ProcessData ==
    /\ pc = "idle" /\ flags # {}
    /\ IF "SYSTICK" \in flags THEN due' \in SUBSET workload.timers ELSE due' = {}
    /\ flags' = flags \ {"SYSTICK"}
    /\ pc' = "rx"
    /\ UNCHANGED <<workload, fifo, enabled, done, rx, tx, buffer, output, conn, addresses,
                   taken, slip>>

\* EthernetPacketGetDMA: the transfer is marked as pending, ...
MarkReceive ==
    /\ pc = "rx"
    /\ IF "RXPKT" \in flags
       THEN /\ flags' = flags \cup {"RXPKTPEND"}
            /\ taken' = IF fifo = << >> THEN NoFrame ELSE Head(fifo)
            /\ pc' = "rxset" /\ UNCHANGED conn
       ELSE pc' = "periodic" /\ conn' = 1 /\ UNCHANGED <<flags, taken>>
    /\ UNCHANGED <<workload, fifo, enabled, done, rx, tx, buffer, output, due, addresses,
                   slip>>

\* ... the channel is set up and started, ...
StartReceive ==
    /\ pc = "rxset"
    /\ rx' = "run" /\ pc' = "rxwait"
    /\ UNCHANGED <<workload, fifo, enabled, done, flags, tx, buffer, output, conn, due,
                   addresses, taken, slip>>

\* ... and the main loop waits until the handler clears the mark.
AwaitReceive ==
    /\ pc = "rxwait" /\ "RXPKTPEND" \notin flags
    /\ pc' = "rxclear"
    /\ UNCHANGED <<workload, driver, buffer, output, conn, due, addresses, taken, slip>>

\* Mutant of ClearReceived: the interrupt is enabled only when nothing more
\* waits in the FIFO.
ClearReceivedUnarmed ==
    /\ pc = "rxclear"
    /\ flags' = flags \ {"RXPKT"}
    /\ pc' = IF fifo = << >> THEN "rxenable" ELSE "input"
    /\ UNCHANGED <<workload, fifo, enabled, done, rx, tx, buffer, output, conn, due,
                   addresses, taken, slip>>

\* The flag is cleared, then the RX interrupt enabled.
ClearReceived ==
    /\ pc = "rxclear"
    /\ flags' = flags \ {"RXPKT"}
    /\ pc' = "rxenable"
    /\ UNCHANGED <<workload, fifo, enabled, done, rx, tx, buffer, output, conn, due,
                   addresses, taken, slip>>

EnableReceive ==
    /\ pc = "rxenable"
    /\ enabled' = TRUE /\ pc' = "input"
    /\ UNCHANGED <<workload, fifo, done, flags, rx, tx, buffer, output, conn, due,
                   addresses, taken, slip>>

-----------------------------------------------------------------------------
\* uip_arp_out: the frame for a host, or a request for its address instead.
Addressed(h) ==
    IF Known(table, h) THEN Outgoing("IP", h, MacFor(table, h))
    ELSE Outgoing("REQUEST", NextHop(h), Broadcast)

\* uip_arp_update, and what is remembered of it.
Hear(f) ==
    /\ table' = Update(table, f.host, f.mac, arptime)
    /\ heard' = [heard EXCEPT ![f.host] = f.mac]
    /\ last' = [host |-> f.host, age |-> 0]
    /\ UNCHANGED arptime

\* Back to EthernetProcessData after a frame of the receive part has been
\* dealt with, or one of the periodic loop: that goes on from conn.
Continue == pc' = "periodic"

\* The stack has an IP packet: it may leave an answer.
UipInput ==
    /\ pc = "input" /\ buffer.kind = "IP" /\ buffer.way = "in"
    /\ conn' = 1 /\ taken' = NoFrame
    /\ \/ buffer' = Addressed(buffer.host) /\ pc' = "put"
       \/ UNCHANGED buffer /\ Continue
    /\ UNCHANGED <<workload, driver, output, due, addresses, slip>>

\* uip_arp_arpin: a request for our address is answered, a reply is noted.
UipArpIn ==
    /\ pc = "input" /\ buffer.kind \in {"REQUEST", "REPLY"} /\ buffer.way = "in"
    /\ conn' = 1 /\ taken' = NoFrame
    /\ Hear(buffer)
    /\ IF buffer.kind = "REQUEST"
       THEN buffer' = Outgoing("REPLY", buffer.host, buffer.mac) /\ pc' = "put"
       ELSE UNCHANGED buffer /\ Continue
    /\ UNCHANGED <<workload, driver, output, due, slip>>

\* What the buffer still holds of an earlier frame is neither.
UipIgnores ==
    /\ pc = "input" /\ (buffer.way = "out" \/ buffer = NoFrame)
    /\ conn' = 1 /\ taken' = NoFrame /\ Continue
    /\ UNCHANGED <<workload, driver, buffer, output, due, addresses, slip>>

\* EthernetPacketPutDMA: the transmission is marked as pending, ...
MarkTransmit ==
    /\ pc = "put"
    /\ flags' = flags \cup {"TXPKT"}
    /\ image' = buffer
    /\ pc' = "txset"
    /\ UNCHANGED <<workload, fifo, enabled, done, rx, tx, buffer, load, mac, wire, conn,
                   due, addresses, taken, slip>>

\* ... the first word written and the channel started, ...
StartTransmit ==
    /\ pc = "txset"
    /\ tx' = "run"
    /\ load' = IF load = "nothing" THEN "part" ELSE "other"
    /\ pc' = "txwait"
    /\ UNCHANGED <<workload, fifo, enabled, done, flags, rx, buffer, mac, image, wire,
                   conn, due, addresses, taken, slip>>

\* ... and the main loop waits, but not while the controller transmits.
AwaitTransmit ==
    /\ pc = "txwait"
    /\ "TXPKT" \notin flags \/ mac
    /\ slip' = (slip \/ tx = "run" \/ "TXPKT" \in flags)
    /\ image' = NoFrame
    /\ Continue
    /\ UNCHANGED <<workload, driver, buffer, load, mac, wire, conn, due, addresses, taken>>

\* One connection of the periodic loop: the stack may have something to send.
UipPeriodic ==
    /\ pc = "periodic"
    /\ IF "periodic" \in due /\ conn <= Conns
       THEN /\ conn' = conn + 1
            /\ \/ \E h \in {f.host : f \in workload.frames} :
                     buffer' = Addressed(h) /\ pc' = "put"
               \/ UNCHANGED <<buffer, pc>>
       ELSE pc' = "arp" /\ conn' = 1 /\ UNCHANGED buffer
    /\ UNCHANGED <<workload, driver, output, due, addresses, taken, slip>>

UipArpTimer ==
    /\ pc = "arp"
    /\ IF "arp" \in due
       THEN /\ arptime' = (arptime + 1) % TimeModulus
            /\ table' = Drop(table, arptime')
            /\ last' = [last EXCEPT !.age = IF @ < MaxAge THEN @ + 1 ELSE @]
            /\ UNCHANGED heard
       ELSE UNCHANGED addresses
    /\ pc' = "idle"
    /\ UNCHANGED <<workload, driver, buffer, output, conn, due, taken, slip>>

MainLoop ==
    /\ ~Pending
    /\ \/ ProcessData
       \/ MarkReceive
       \/ StartReceive
       \/ AwaitReceive
       \/ ClearReceived
       \/ EnableReceive
       \/ UipInput
       \/ UipArpIn
       \/ UipIgnores
       \/ MarkTransmit
       \/ StartTransmit
       \/ AwaitTransmit
       \/ UipPeriodic
       \/ UipArpTimer

Next ==
    \/ EthernetIntHandler
    \/ MainLoop
    \/ \E f \in InFrame : Arrive(f)
    \/ ReceiveDone
    \/ TransmitDone
    \/ Transmitted
    \/ SysTickIntHandler

\* The processor and the hardware run on; frames and ticks are not owed.
Fairness ==
    /\ WF_vars(EthernetIntHandler)
    /\ WF_vars(MainLoop)
    /\ WF_vars(ReceiveDone)
    /\ WF_vars(TransmitDone)
    /\ WF_vars(Transmitted)

Spec == Init /\ [][Next]_vars
FairSpec == Spec /\ Fairness

-----------------------------------------------------------------------------
(***************************************************************************)
(* The board never goes deaf: a frame in the FIFO has its interrupt        *)
(* enabled, or the flag says there is one, or the main loop is about to    *)
(* enable the interrupt.                                                   *)
(***************************************************************************)
NeverDeaf ==
    fifo # << >> => enabled \/ "RXPKT" \in flags \/ pc = "rxenable"

(***************************************************************************)
(* The stack works on the frame that arrived, all of it and nothing of     *)
(* another one, and what the controller transmits is the whole frame the   *)
(* stack left in the buffer.  This is so as long as no interrupt came      *)
(* between the mark of a transfer and its start, and no answer was due     *)
(* while the one before was still being transmitted: the code does not     *)
(* guard against these two.                                                *)
(***************************************************************************)
FramesAreWhole ==
    ~slip => /\ pc = "input" => buffer = taken
             /\ wire \in {"nothing", "all"}

(***************************************************************************)
(* An answer to a host of the local network is addressed as that host      *)
(* announced itself last, and is replaced by a request when it has not.    *)
(***************************************************************************)
AnswersGoHome ==
    pc = "put" /\ buffer.way = "out" /\ buffer.kind = "IP" /\ buffer.host \in Local =>
        buffer.mac = heard[buffer.host]

(***************************************************************************)
(* The host heard last is known until the timer has run MaxAge times       *)
(* without another word of it, also when arptime starts again from 0.      *)
(***************************************************************************)
FreshIsKnown ==
    last.host # NoIp /\ last.age < MaxAge => Known(table, last.host)

(***************************************************************************)
(* The main loop always comes back: none of its waits for the handler is   *)
(* for ever, whatever the order of interrupts and steps.                   *)
(***************************************************************************)
WaitsEnd == pc # "idle" ~> pc = "idle"

=============================================================================
