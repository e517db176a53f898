----------------------------- MODULE UsbSerial ------------------------------
(***************************************************************************)
(* The serial link to the host (usb_to_serial.c).  The UART interrupt      *)
(* appends what has arrived to recv_buffer and raises the task when the    *)
(* size field of the buffered message says it is whole; the task handler   *)
(* has the BSMP library process it, transmits the answer and only then     *)
(* empties the buffer.  There is no start mark, no checksum and no timeout *)
(* on this link: the size field alone separates messages.                  *)
(*                                                                         *)
(* The host is a BSMP client: it sends one request and waits for the       *)
(* answer.  An answer is taken to reach the host after the handler has     *)
(* emptied the buffer: the UART still has it to transmit at that moment.   *)
(*                                                                         *)
(* The UART has two receive interrupts: of the level, when the characters  *)
(* in its FIFO become Level, and of the time-out, when no character has    *)
(* followed for 32 bit times.  The handler serves either, but not both at  *)
(* once.  The time-out starts with a character and does not start again    *)
(* when its interrupt is cleared.                                          *)
(***************************************************************************)
EXTENDS Integers, Sequences

CONSTANTS
    Base,      \* the values of a byte: 256 in the code
    BufSize,   \* SERIAL_BUF_SIZE
    Message,   \* the requests of the host, sequences of bytes
    Prompt,    \* the handler serves a level before the time-out runs out
    None       \* no request

Byte == 0 .. Base - 1
Header == 3

Size(m) == m[2] * Base + m[3]

(***************************************************************************)
(* A request has a header of three bytes with the size of the rest, and    *)
(* any size that mixes the high byte of one request with the low byte of   *)
(* another still fits the buffer.  The jig registers functions only, whose *)
(* input is at most 15 bytes, and lists without data: the high byte of a   *)
(* legal request is 0, and any mix is a size below 256.                    *)
(***************************************************************************)
ASSUME MessageAssumption ==
    /\ Base \in Nat \ {0} /\ BufSize \in Nat /\ BufSize >= Header
    /\ Message \subseteq Seq(Byte)
    /\ None \notin Message
    /\ \A m \in Message :
           /\ Len(m) >= Header /\ Len(m) <= BufSize
           /\ Len(m) = Header + Size(m)
    /\ \A m, n \in Message : m[2] * Base + n[3] <= BufSize
    /\ \A m \in Message : m[2] * Base <= BufSize

ASSUME PromptAssumption == Prompt \in BOOLEAN

\* UART_FIFO_RX1_8 of a FIFO of 16 characters.
Level == 2

VARIABLES
    data,      \* recv_buffer.data, by offset
    index,     \* recv_buffer.index
    raised,    \* PROCESS_USB2SERIAL_MESSAGE is requested
    pc,        \* where Usb2SerialProcessData is
    len,       \* recv_packet.len
    line,      \* bytes of the host that have not been read yet
    arrived,   \* how many of them are in the FIFO of the UART
    pending,   \* the receive interrupts UARTIntStatus would return
    timing,    \* the receive time-out is running
    request,   \* the request the host waits for, or None
    executed   \* what the BSMP library took for a message since, or None

uart == <<arrived, pending, timing>>
vars == <<data, index, raised, pc, len, line, arrived, pending, timing, request, executed>>

TypeOK ==
    /\ data \in [0 .. BufSize - 1 -> Byte]
    /\ index \in 0 .. BufSize
    /\ raised \in BOOLEAN
    /\ pc \in {"idle", "process", "transmit", "finish"}
    /\ len \in 0 .. BufSize
    /\ line \in Seq(Byte)
    /\ arrived \in 0 .. Len(line)
    /\ pending \subseteq {"RX", "RT"}
    /\ timing \in BOOLEAN
    /\ request \in Message \cup {None}

\* The buffer is zeroed memory at boot.
Init ==
    /\ data = [i \in 0 .. BufSize - 1 |-> 0]
    /\ index = 0
    /\ raised = FALSE
    /\ pc = "idle"
    /\ len = 0
    /\ line = << >>
    /\ arrived = 0 /\ pending = {} /\ timing = FALSE
    /\ request = None
    /\ executed = None

-----------------------------------------------------------------------------
Send(m) ==
    /\ request = None /\ pc = "idle"
    /\ request' = m
    /\ executed' = None
    /\ line' = m
    /\ UNCHANGED <<data, index, raised, pc, len, uart>>

\* A character enters the FIFO.
Arrive ==
    /\ arrived < Len(line)
    /\ arrived' = arrived + 1
    /\ pending' = IF arrived + 1 = Level THEN pending \cup {"RX"} ELSE pending
    /\ timing' = TRUE
    /\ UNCHANGED <<data, index, raised, pc, len, line, request, executed>>

\* No character has followed the last one for 32 bit times.
TimeOut ==
    /\ timing /\ arrived > 0
    /\ Prompt => "RX" \notin pending
    /\ pending' = pending \cup {"RT"}
    /\ timing' = FALSE
    /\ UNCHANGED <<data, index, raised, pc, len, line, arrived, request, executed>>

\* sCarga, read from the buffer whatever has been received of it.
SizeField(d) == d[1] * Base + d[2]

\* Mutant of MessageWhole: one byte short.
MessageWholeEarly(d, i) == i > SizeField(d) + 1

MessageWhole(d, i) == i > SizeField(d) + 2

Overlong(d) == SizeField(d) > BufSize

\* Mutant of ReceiveInterrupt: the time-out is forgotten.
ReceiveInterruptLevel(status) == status = {"RX"}

\* The status is compared with each of the two, not masked.
ReceiveInterrupt(status) == status = {"RX"} \/ status = {"RT"}

\* The handler reads n bytes, until the FIFO is empty or the buffer full;
\* some of them may have arrived since it began.
ReadFifo(n) ==
    LET d == [i \in DOMAIN data |->
                 IF i \in index .. index + n - 1 THEN line[i - index + 1] ELSE data[i]]
        i == index + n IN
    /\ n <= Len(line) /\ i <= BufSize
    /\ n >= arrived \/ i = BufSize
    /\ data' = d
    /\ line' = SubSeq(line, n + 1, Len(line))
    /\ arrived' = IF n >= arrived THEN 0 ELSE arrived - n
    /\ timing' = (timing /\ n < arrived)
    /\ raised' = (raised \/ MessageWhole(d, i))
    /\ index' = IF Overlong(d) THEN 0 ELSE i
    /\ UNCHANGED <<pc, len, request, executed>>

\* Usb2SerialIntHandler: the status is read and cleared whatever it says.
UartInterrupt ==
    /\ pending # {}
    /\ pending' = {}
    /\ \/ ReceiveInterrupt(pending) /\ \E n \in 0 .. BufSize : ReadFifo(n)
       \/ /\ ~ReceiveInterrupt(pending)
          /\ UNCHANGED <<data, index, raised, pc, len, line, arrived, timing,
                         request, executed>>

\* TaskCheck finds the flag and calls Usb2SerialProcessData.
StartTask ==
    /\ raised /\ pc = "idle"
    /\ raised' = FALSE
    /\ len' = index
    /\ pc' = "process"
    /\ UNCHANGED <<data, index, line, uart, request, executed>>

\* What bsmp_process_packet takes the buffer for: the message, or nothing it
\* would execute when the length and the size field disagree.
Packet == IF len >= Header /\ len = Header + SizeField(data)
          THEN [i \in 1 .. len |-> data[i - 1]]
          ELSE << >>

Process ==
    /\ pc = "process"
    /\ executed' = Packet
    /\ pc' = "transmit"
    /\ UNCHANGED <<data, index, raised, len, line, uart, request>>

\* Usb2SerialTxHandler returns with the answer in the UART.
Transmit ==
    /\ pc = "transmit"
    /\ pc' = "finish"
    /\ UNCHANGED <<data, index, raised, len, line, uart, request, executed>>

\* Mutant of Finish: the buffer is not emptied.
FinishKeepsIndex ==
    /\ pc = "finish"
    /\ pc' = "idle"
    /\ request' = None
    /\ UNCHANGED <<data, index, raised, len, line, uart, executed>>

\* The buffer is emptied; then the host has its answer.
Finish ==
    /\ pc = "finish"
    /\ pc' = "idle"
    /\ index' = 0
    /\ request' = None
    /\ UNCHANGED <<data, raised, len, line, uart, executed>>

Handler == StartTask \/ Process \/ Transmit \/ Finish

Next ==
    \/ \E m \in Message : Send(m)
    \/ Arrive
    \/ TimeOut
    \/ UartInterrupt
    \/ Handler

\* What the host has sent arrives, a time-out that runs does run out, pending
\* interrupts are taken, and the main loop comes round.
Fairness ==
    /\ WF_vars(Arrive)
    /\ WF_vars(TimeOut)
    /\ WF_vars(UartInterrupt)
    /\ WF_vars(Handler)

Spec == Init /\ [][Next]_vars /\ Fairness

-----------------------------------------------------------------------------
(***************************************************************************)
(* Until a request is executed, what is buffered of it and what is still   *)
(* on the line are together the request: stale bytes of an earlier message *)
(* in the buffer never make the interrupt drop or process a part of it.    *)
(***************************************************************************)
NothingLost ==
    request # None /\ executed = None =>
        [i \in 1 .. index |-> data[i - 1]] \o line = request

(***************************************************************************)
(* Characters in the FIFO are never left there: an interrupt is pending    *)
(* for them, or the time-out that will make one is running, or the rest of *)
(* the request is still to come and will start it again.  The handler is   *)
(* to "Loop while there are characters in the receive FIFO"                *)
(* (usb_to_serial.c:114); nothing else reads them, and a host whose        *)
(* request is left there waits for ever.                                   *)
(***************************************************************************)
FifoIsServed == arrived > 0 => pending # {} \/ timing \/ arrived < Len(line)

(***************************************************************************)
(* Every request is executed exactly once, as it was sent, before it is    *)
(* answered, and every request is answered.                                *)
(***************************************************************************)
Promise == INSTANCE RequestReply
Implements == Promise!Spec

=============================================================================
