--------------------------- MODULE UsbSerialProofs --------------------------
(***************************************************************************)
(* Framing by the size field alone is safe for every size of buffer and    *)
(* every set of requests that MessageAssumption admits: no byte is lost,   *)
(* and what the library executes is the request.                           *)
(***************************************************************************)
EXTENDS UsbSerial, SequenceTheorems, TLAPS

\* The two bytes the interrupt takes for the size are those of requests, not
\* necessarily of one and the same, or those the memory had at boot.
SizeBytes ==
    /\ data[1] \in {0} \cup {m[2] : m \in Message}
    /\ data[2] \in {0} \cup {m[3] : m \in Message}

\* Between two requests the link is at rest.
AtRest == request = None => line = << >> /\ index = 0 /\ ~raised /\ pc = "idle"

\* Before a request is executed, buffer and line together hold it; the task
\* is raised only when the buffer holds all of it.
Arriving ==
    request # None /\ executed = None =>
        /\ pc \in {"idle", "process"}
        /\ Len(request) = index + Len(line)
        /\ \A i \in 0 .. index - 1 : data[i] = request[i + 1]
        /\ \A j \in 1 .. Len(line) : line[j] = request[index + j]
        /\ raised \/ pc = "process" => line = << >>
        /\ pc = "process" => ~raised /\ len = index

\* After it has been executed, nothing else happens until it is answered.
Executed ==
    request # None /\ executed # None =>
        /\ executed = request
        /\ pc \in {"transmit", "finish"} /\ line = << >> /\ ~raised

\* An interrupt is pending for characters only.
Pending == pending # {} => arrived > 0

IInv == TypeOK /\ SizeBytes /\ AtRest /\ Arriving /\ Executed /\ Pending

-----------------------------------------------------------------------------
(***************************************************************************)
(* A request is a sequence of its header and as many bytes as it says.     *)
(***************************************************************************)
LEMMA Requests ==
    ASSUME NEW m \in Message
    PROVE  /\ m \in Seq(Byte) /\ Len(m) \in Nat /\ m \in [1 .. Len(m) -> Byte]
           /\ Len(m) >= 3 /\ Len(m) <= BufSize /\ Len(m) = 3 + Size(m)
           /\ m # None
BY MessageAssumption DEF Header

(***************************************************************************)
(* Bytes are numbers, and so is what two of them say.                      *)
(***************************************************************************)
LEMMA Numbers ==
    ASSUME NEW x \in Byte, NEW y \in Byte
    PROVE  x * Base \in Nat /\ x * Base + y \in Nat
<1>1. x \in Nat /\ y \in Nat /\ Base \in Nat
  BY MessageAssumption DEF Byte
<1>2. x * Base \in Nat
  BY <1>1
<1> QED BY <1>1, <1>2

(***************************************************************************)
(* Whatever the buffer holds where the size is read, it is not too long.   *)
(***************************************************************************)
LEMMA NeverOverlong ==
    ASSUME NEW d, d[1] \in {0} \cup {m[2] : m \in Message},
                  d[2] \in {0} \cup {m[3] : m \in Message}
    PROVE  ~Overlong(d)
<1> USE MessageAssumption
<1>1. \A m \in Message : m[2] \in Byte /\ m[3] \in Byte
  BY Requests
<1>2. BufSize \in Nat /\ Base \in Nat /\ 0 \in Byte
  BY DEF Byte
<1>3. CASE d[1] = 0 /\ d[2] = 0
  BY <1>2, <1>3 DEF Overlong, SizeField
<1>4. ASSUME NEW n \in Message, d[1] = 0, d[2] = n[3]
      PROVE  ~Overlong(d)
  <2>1. n[2] * Base + n[3] <= BufSize
    OBVIOUS
  <2>2. n[2] * Base \in Nat
    BY <1>1, Numbers
  <2>3. n[3] \in Nat
    BY <1>1 DEF Byte
  <2>4. SizeField(d) = n[3]
    BY <1>2, <1>4, <2>3 DEF SizeField
  <2> HIDE MessageAssumption
  <2> QED BY <2>1, <2>2, <2>3, <2>4, <1>2 DEF Overlong
<1>5. ASSUME NEW m \in Message, d[1] = m[2], d[2] = 0
      PROVE  ~Overlong(d)
  <2>1. m[2] * Base <= BufSize /\ m[2] * Base \in Nat
    BY <1>1, <1>2, Numbers
  <2>2. SizeField(d) = m[2] * Base
    BY <1>5, <2>1 DEF SizeField
  <2> HIDE MessageAssumption
  <2> QED BY <2>1, <2>2, <1>2 DEF Overlong
<1>6. ASSUME NEW m \in Message, NEW n \in Message, d[1] = m[2], d[2] = n[3]
      PROVE  ~Overlong(d)
  <2>1. m[2] * Base + n[3] <= BufSize /\ m[2] * Base + n[3] \in Nat
    BY <1>1, Numbers
  <2>2. SizeField(d) = m[2] * Base + n[3]
    BY <1>6 DEF SizeField
  <2> HIDE MessageAssumption
  <2> QED BY <2>1, <2>2, <1>2 DEF Overlong
<1> QED
  BY <1>3, <1>4, <1>5, <1>6

(***************************************************************************)
(* When the interrupt takes what it has of a request for whole, it is.     *)
(***************************************************************************)
LEMMA WholeIsWhole ==
    ASSUME NEW r \in Message, NEW d \in [0 .. BufSize - 1 -> Byte],
           NEW i \in 0 .. Len(r), \A k \in 0 .. i - 1 : d[k] = r[k + 1],
           MessageWhole(d, i)
    PROVE  i = Len(r)
<1> USE MessageAssumption
<1>1. d[1] \in Byte /\ d[2] \in Byte
  BY DEF Header
<1>2. SizeField(d) \in Nat
  BY <1>1, Numbers DEF SizeField
<1>3. Len(r) \in Nat /\ i > SizeField(d) + 2
  BY Requests DEF MessageWhole
<1>4. i >= 3
  <2> HIDE MessageAssumption
  <2> QED BY <1>2, <1>3
<1>5. d[1] = r[2] /\ d[2] = r[3]
  <2>1. 1 \in 0 .. i - 1 /\ 2 \in 0 .. i - 1
    BY <1>3, <1>4
  <2>2. d[1] = r[1 + 1] /\ d[2] = r[2 + 1]
    BY <2>1
  <2> QED BY <2>2
<1>6. SizeField(d) = Size(r)
  BY <1>5 DEF SizeField, Size
<1>7. Len(r) = 3 + Size(r)
  BY Requests
<1> HIDE MessageAssumption
<1> QED BY <1>2, <1>3, <1>6, <1>7

-----------------------------------------------------------------------------
LEMMA InitIInv == Init => IInv
<1> SUFFICES ASSUME Init PROVE IInv
  OBVIOUS
<1>1. 0 \in Byte /\ BufSize \in Nat /\ BufSize >= 3
  BY MessageAssumption DEF Byte, Header
<1>2. data \in [0 .. BufSize - 1 -> Byte] /\ data[1] = 0 /\ data[2] = 0
  BY <1>1 DEF Init
<1>3. << >> \in Seq(Byte) /\ 0 \in 0 .. Len(<< >>)
  BY EmptySeq
<1>4. TypeOK
  BY <1>1, <1>2, <1>3 DEF Init, TypeOK
<1> QED
  BY <1>4, <1>1, <1>2, <1>3 DEF Init, IInv, TypeOK, SizeBytes, AtRest, Arriving, Executed, Pending

LEMMA SendKeepsIInv == ASSUME IInv, NEW m \in Message, Send(m) PROVE IInv'
<1>1. /\ m \in Seq(Byte) /\ m # None /\ Len(m) \in Nat
      /\ index = 0 /\ ~raised /\ pc = "idle"
      /\ request' = m /\ executed' = None /\ line' = m
      /\ UNCHANGED <<data, index, raised, pc, len, arrived, pending, timing>>
  BY Requests DEF Send, IInv, AtRest, uart
<1>2. arrived = 0
  BY <1>1, EmptySeq DEF IInv, TypeOK, AtRest, Send
<1>3. TypeOK' /\ SizeBytes'
  BY <1>1, <1>2 DEF IInv, TypeOK, SizeBytes
<1> QED
  BY <1>1, <1>3 DEF IInv, AtRest, Arriving, Executed, Pending

(***************************************************************************)
(* The UART changes nothing but what it holds and what it reports.         *)
(***************************************************************************)
LEMMA UartKeepsIInv == ASSUME IInv, Arrive \/ TimeOut PROVE IInv'
<1>1. /\ UNCHANGED <<data, index, raised, pc, len, line, request, executed>>
      /\ arrived' \in 0 .. Len(line) /\ arrived' > 0
      /\ pending' \subseteq {"RX", "RT"} /\ timing' \in BOOLEAN
  <2>1. arrived \in 0 .. Len(line) /\ Len(line) \in Nat /\ pending \subseteq {"RX", "RT"}
    BY DEF IInv, TypeOK
  <2>2. CASE Arrive
    BY <2>1, <2>2 DEF Arrive
  <2>3. CASE TimeOut
    BY <2>1, <2>3 DEF TimeOut
  <2> QED BY <2>2, <2>3
<1> QED
  BY <1>1 DEF IInv, TypeOK, SizeBytes, AtRest, Arriving, Executed, Pending

(***************************************************************************)
(* There is something to read only of a request that waits to be executed. *)
(***************************************************************************)
LEMMA ReadOfRequest ==
    ASSUME IInv, arrived > 0
    PROVE  /\ request \in Message /\ executed = None /\ pc = "idle" /\ raised = FALSE
           /\ Len(request) = index + Len(line)
           /\ \A k \in 0 .. index - 1 : data[k] = request[k + 1]
           /\ \A j \in 1 .. Len(line) : line[j] = request[index + j]
<1>1. line \in Seq(Byte) /\ arrived \in 0 .. Len(line) /\ Len(line) \in Nat
  BY DEF IInv, TypeOK
<1>2. line # << >>
  BY <1>1, EmptySeq
<1>3. request # None /\ executed = None
  BY <1>2 DEF IInv, AtRest, Executed
<1> QED
  BY <1>2, <1>3 DEF IInv, TypeOK, Arriving

(***************************************************************************)
(* Reading stops at the end of the FIFO: the buffer has room for all of a  *)
(* request.                                                                *)
(***************************************************************************)
LEMMA ReadsAll ==
    ASSUME IInv, arrived > 0, NEW n \in 0 .. BufSize, ReadFifo(n)
    PROVE  n >= arrived /\ arrived' = 0 /\ timing' = FALSE
<1>1. /\ arrived \in Nat /\ Len(line) \in Nat /\ index \in Nat /\ BufSize \in Nat /\ n \in Nat
      /\ arrived <= Len(line)
  BY MessageAssumption DEF IInv, TypeOK
<1>2. index + Len(line) <= BufSize
  BY ReadOfRequest, Requests
<1>3. n >= arrived \/ index + n = BufSize
  BY DEF ReadFifo
<1>4. n >= arrived
  BY <1>1, <1>2, <1>3
<1>5. /\ arrived' = IF n >= arrived THEN 0 ELSE arrived - n
      /\ timing' = (timing /\ n < arrived)
  BY DEF ReadFifo
<1>6. ~(n < arrived)
  BY <1>1, <1>4
<1> QED
  BY <1>4, <1>5, <1>6

LEMMA ReadKeepsIInv ==
    ASSUME IInv, arrived > 0, pending' = {}, NEW n \in 0 .. BufSize, ReadFifo(n)
    PROVE  IInv'
<1> DEFINE d == data'
           i == index + n
<1>1. /\ BufSize \in Nat /\ BufSize >= 3 /\ n \in Nat
      /\ index \in Nat /\ i \in Nat /\ i <= BufSize
      /\ line \in Seq(Byte) /\ Len(line) \in Nat /\ n <= Len(line)
      /\ data \in [0 .. BufSize - 1 -> Byte] /\ raised \in BOOLEAN
  BY MessageAssumption DEF Header, ReadFifo, IInv, TypeOK
<1>2. /\ d = [k \in DOMAIN data |->
                 IF k \in index .. index + n - 1 THEN line[k - index + 1] ELSE data[k]]
      /\ line' = SubSeq(line, n + 1, Len(line))
      /\ raised' = (raised \/ MessageWhole(d, i))
      /\ index' = IF Overlong(d) THEN 0 ELSE i
      /\ UNCHANGED <<pc, len, request, executed>>
  BY DEF ReadFifo
<1> DEFINE r == request
<1>3. /\ r \in Message /\ executed = None /\ pc = "idle" /\ raised = FALSE
      /\ Len(r) = index + Len(line)
      /\ \A k \in 0 .. index - 1 : data[k] = r[k + 1]
      /\ \A j \in 1 .. Len(line) : line[j] = r[index + j]
  BY ReadOfRequest
<1>4. Len(r) \in Nat /\ i \in 0 .. Len(r) /\ \A k \in 1 .. Len(r) : r[k] \in Byte
  BY <1>1, <1>3, Requests
<1>5. d \in [0 .. BufSize - 1 -> Byte]
  <2>1. ASSUME NEW k \in index .. index + n - 1
        PROVE  line[k - index + 1] \in Byte
    <3>1. k - index + 1 \in 1 .. Len(line)
      BY <1>1
    <3> QED BY <1>1, <3>1, ElementOfSeq
  <2> QED BY <1>1, <1>2, <2>1
<1>6. \A k \in 0 .. i - 1 : d[k] = r[k + 1]
  <2> TAKE k \in 0 .. i - 1
  <2>1. k \in DOMAIN data
    BY <1>1
  <2>2. CASE k \in index .. index + n - 1
    <3>1. k - index + 1 \in 1 .. Len(line) /\ index + (k - index + 1) = k + 1
      BY <1>1, <2>2
    <3>2. d[k] = line[k - index + 1]
      BY <1>2, <2>1, <2>2
    <3> QED BY <1>3, <3>1, <3>2
  <2>3. CASE k \notin index .. index + n - 1
    <3>1. k \in 0 .. index - 1
      BY <1>1, <2>3
    <3> QED BY <1>2, <1>3, <2>1, <2>3, <3>1
  <2> QED BY <2>2, <2>3
<1>7. SizeBytes'
  <2>1. ASSUME NEW k \in {1, 2}
        PROVE  d[k] = data[k] \/ d[k] = r[k + 1]
    <3>1. CASE k \in 0 .. i - 1
      BY <1>6, <3>1
    <3>2. CASE k \notin 0 .. i - 1
      <4>1. k \in DOMAIN data /\ k \notin index .. index + n - 1
        BY <1>1, <3>2
      <4> QED BY <1>2, <4>1
    <3> QED BY <3>1, <3>2
  <2>2. (d[1] = data[1] \/ d[1] = r[2]) /\ (d[2] = data[2] \/ d[2] = r[3])
    BY <2>1
  <2> QED BY <1>3, <2>2 DEF IInv, SizeBytes
<1>8. index' = i
  BY <1>2, <1>7, NeverOverlong DEF SizeBytes
<1>9. /\ line' \in Seq(Byte) /\ Len(line') = Len(line) - n
      /\ \A j \in 1 .. Len(line') : line'[j] = line[n + j]
  <2>1. \A j \in n + 1 .. Len(line) : line[j] \in Byte
    BY <1>1, ElementOfSeq
  <2>2. /\ line' \in Seq(Byte)
        /\ Len(line') = IF n + 1 <= Len(line) THEN Len(line) - (n + 1) + 1 ELSE 0
        /\ \A j \in 1 .. Len(line) - (n + 1) + 1 : line'[j] = line[n + 1 + j - 1]
    BY <1>1, <1>2, <2>1, SubSeqProperties
  <2>3. Len(line') = Len(line) - n
    BY <1>1, <2>2
  <2>4. ASSUME NEW j \in 1 .. Len(line') PROVE line'[j] = line[n + j]
    <3>1. j \in 1 .. Len(line) - (n + 1) + 1 /\ n + 1 + j - 1 = n + j
      BY <1>1, <2>3
    <3> QED BY <2>2, <3>1
  <2> QED BY <2>2, <2>3, <2>4
<1>10. Len(r) = i + Len(line') /\ \A j \in 1 .. Len(line') : line'[j] = r[i + j]
  <2>1. Len(r) = i + Len(line')
    BY <1>1, <1>3, <1>9
  <2>2. ASSUME NEW j \in 1 .. Len(line') PROVE line'[j] = r[i + j]
    <3>1. n + j \in 1 .. Len(line) /\ index + (n + j) = i + j
      BY <1>1, <1>9
    <3> QED BY <1>3, <1>9, <3>1
  <2> QED BY <2>1, <2>2
<1>11. raised' => line' = << >>
  <2> SUFFICES ASSUME raised' PROVE line' = << >>
    OBVIOUS
  <2>1. i = Len(r)
    BY <1>2, <1>3, <1>4, <1>5, <1>6, WholeIsWhole
  <2>2. Len(line') = 0
    BY <1>1, <1>9, <1>10, <2>1
  <2> QED BY <1>9, <2>2, EmptySeq
<1>12. TypeOK'
  <2>1. raised' \in BOOLEAN /\ index' \in 0 .. BufSize
    BY <1>1, <1>2, <1>8 DEF MessageWhole
  <2>2. arrived' = 0 /\ timing' = FALSE
    BY ReadsAll
  <2>3. Len(line') \in Nat
    BY <1>1, <1>9
  <2>4. timing' \in BOOLEAN
    BY <2>2
  <2>5. arrived' \in 0 .. Len(line')
    <3>1. arrived' = 0
      BY <2>2
    <3>2. 0 \in 0 .. Len(line')
      BY <2>3
    <3> QED BY <3>1, <3>2
  <2> QED BY <1>2, <1>5, <1>9, <2>1, <2>4, <2>5 DEF IInv, TypeOK
<1>13. r # None /\ Arriving'
  BY <1>2, <1>3, <1>6, <1>8, <1>10, <1>11, Requests DEF Arriving
<1> QED
  BY <1>2, <1>3, <1>7, <1>12, <1>13 DEF IInv, AtRest, Executed, Pending

LEMMA InterruptKeepsIInv == ASSUME IInv, UartInterrupt PROVE IInv'
<1>1. arrived > 0 /\ pending' = {}
  BY DEF UartInterrupt, IInv, Pending
<1>2. CASE \E n \in 0 .. BufSize : ReadFifo(n)
  BY <1>1, <1>2, ReadKeepsIInv
<1>3. CASE UNCHANGED <<data, index, raised, pc, len, line, arrived, timing,
                       request, executed>>
  BY <1>1, <1>3 DEF IInv, TypeOK, SizeBytes, AtRest, Arriving, Executed, Pending
<1> QED BY <1>2, <1>3 DEF UartInterrupt

LEMMA StartKeepsIInv == ASSUME IInv, StartTask PROVE IInv'
<1>1. /\ raised /\ pc = "idle" /\ request # None /\ executed = None /\ line = << >>
      /\ raised' = FALSE /\ len' = index /\ pc' = "process"
      /\ UNCHANGED <<data, index, line, uart, request, executed>>
  BY DEF StartTask, IInv, AtRest, Arriving, Executed
<1>2. TypeOK' /\ SizeBytes'
  BY <1>1 DEF IInv, TypeOK, SizeBytes, uart
<1> QED
  BY <1>1, <1>2 DEF IInv, AtRest, Arriving, Executed, Pending, uart

(***************************************************************************)
(* What the library is given is the request.                               *)
(***************************************************************************)
LEMMA PacketIsRequest ==
    ASSUME IInv, pc = "process"
    PROVE  request \in Message /\ executed = None /\ Packet = request
           /\ line = << >> /\ ~raised
<1>1. /\ request \in Message /\ executed = None /\ line = << >> /\ ~raised
      /\ Len(request) = index + Len(line) /\ len = index /\ index \in Nat
      /\ \A i \in 0 .. index - 1 : data[i] = request[i + 1]
  BY MessageAssumption DEF IInv, TypeOK, AtRest, Arriving, Executed
<1>2. Len(request) = len /\ len \in Nat
  BY <1>1
<1>3. /\ len >= 3 /\ len = 3 + Size(request)
      /\ request = [i \in 1 .. len |-> request[i]]
  BY <1>1, <1>2, Requests
<1>4. \A i \in 1 .. len : data[i - 1] = request[i]
  <2> TAKE i \in 1 .. len
  <2>1. i - 1 \in 0 .. index - 1 /\ (i - 1) + 1 = i
    BY <1>1, <1>2
  <2>2. data[i - 1] = request[(i - 1) + 1]
    BY <1>1, <2>1
  <2> QED BY <2>1, <2>2
<1>5. data[1] = request[2] /\ data[2] = request[3]
  <2>1. 2 \in 1 .. len /\ 3 \in 1 .. len /\ 2 - 1 = 1 /\ 3 - 1 = 2
    BY <1>2, <1>3
  <2>2. data[2 - 1] = request[2] /\ data[3 - 1] = request[3]
    BY <1>4, <2>1
  <2> QED BY <2>1, <2>2
<1>6. SizeField(data) = Size(request)
  BY <1>5 DEF SizeField, Size
<1>7. Packet = [i \in 1 .. len |-> data[i - 1]]
  BY <1>3, <1>6 DEF Packet, Header
<1>8. Packet = request
  BY <1>3, <1>4, <1>7
<1> QED BY <1>1, <1>8

LEMMA HandlerKeepsIInv == ASSUME IInv, Process \/ Transmit \/ Finish PROVE IInv'
<1>1. CASE Process
  <2>1. /\ request \in Message /\ request # None /\ line = << >> /\ ~raised
        /\ executed' = request /\ pc' = "transmit"
        /\ UNCHANGED <<data, index, raised, len, line, uart, request>>
    BY <1>1, PacketIsRequest, Requests DEF Process
  <2>2. TypeOK' /\ SizeBytes'
    BY <2>1 DEF IInv, TypeOK, SizeBytes, uart
  <2> QED
    BY <2>1, <2>2 DEF IInv, AtRest, Arriving, Executed, Pending, uart
<1>2. CASE Transmit
  <2>1. /\ request # None /\ executed # None /\ pc' = "finish"
        /\ UNCHANGED <<data, index, raised, len, line, uart, request, executed>>
    BY <1>2 DEF Transmit, IInv, AtRest, Arriving
  <2>2. TypeOK' /\ SizeBytes'
    BY <2>1 DEF IInv, TypeOK, SizeBytes, uart
  <2> QED
    BY <2>1, <2>2 DEF IInv, AtRest, Arriving, Executed, Pending, uart
<1>3. CASE Finish
  <2>1. /\ line = << >> /\ ~raised /\ pc' = "idle" /\ index' = 0 /\ request' = None
        /\ UNCHANGED <<data, raised, len, line, uart, executed>>
    BY <1>3 DEF Finish, IInv, AtRest, Arriving, Executed
  <2>2. TypeOK' /\ SizeBytes'
    BY <2>1, MessageAssumption DEF IInv, TypeOK, SizeBytes, uart
  <2> QED
    BY <2>1, <2>2 DEF IInv, AtRest, Arriving, Executed, Pending, uart
<1> QED BY <1>1, <1>2, <1>3

LEMMA NextIInv == IInv /\ [Next]_vars => IInv'
<1> SUFFICES ASSUME IInv, [Next]_vars PROVE IInv'
  OBVIOUS
<1>1. CASE UNCHANGED vars
  BY <1>1 DEF vars, IInv, TypeOK, SizeBytes, AtRest, Arriving, Executed, Pending
<1> QED
  BY <1>1, SendKeepsIInv, UartKeepsIInv, InterruptKeepsIInv, StartKeepsIInv, HandlerKeepsIInv
     DEF Next, Handler

LEMMA SpecIInv == Spec => []IInv
BY InitIInv, NextIInv, PTL DEF Spec

-----------------------------------------------------------------------------
(***************************************************************************)
(* The buffer never overflows, and no other variable leaves its type.      *)
(***************************************************************************)
THEOREM UsbTypeCorrect == Spec => []TypeOK
BY SpecIInv, PTL DEF IInv

(***************************************************************************)
(* No byte of a request is lost or taken twice, however it is cut up.      *)
(***************************************************************************)
THEOREM BytesKept == Spec => []NothingLost
<1>1. IInv => NothingLost
  <2> SUFFICES ASSUME IInv, request # None, executed = None
               PROVE  [i \in 1 .. index |-> data[i - 1]] \o line = request
    BY DEF NothingLost
  <2> DEFINE front == [i \in 1 .. index |-> data[i - 1]]
  <2>1. /\ request \in Message /\ index \in Nat /\ index <= BufSize /\ BufSize \in Nat
        /\ line \in Seq(Byte) /\ Len(line) \in Nat
        /\ data \in [0 .. BufSize - 1 -> Byte]
        /\ Len(request) = index + Len(line)
        /\ \A i \in 0 .. index - 1 : data[i] = request[i + 1]
        /\ \A j \in 1 .. Len(line) : line[j] = request[index + j]
    BY MessageAssumption DEF IInv, TypeOK, Arriving
  <2>2. front \in Seq(Byte) /\ Len(front) = index
    <3>1. \A i \in 1 .. index : data[i - 1] \in Byte
      BY <2>1
    <3> QED BY <2>1, <3>1
  <2>3. /\ front \o line \in Seq(Byte)
        /\ Len(front \o line) = index + Len(line)
        /\ \A i \in 1 .. index + Len(line) :
              (front \o line)[i] = IF i <= index THEN front[i] ELSE line[i - index]
    BY <2>1, <2>2, ConcatProperties
  <2>4. ASSUME NEW i \in 1 .. index + Len(line)
        PROVE  (front \o line)[i] = request[i]
    <3>1. CASE i <= index
      <4>1. i \in 1 .. index /\ i - 1 \in 0 .. index - 1 /\ (i - 1) + 1 = i
        BY <2>1, <3>1
      <4>2. data[i - 1] = request[(i - 1) + 1]
        BY <2>1, <4>1
      <4> QED BY <2>3, <3>1, <4>1, <4>2
    <3>2. CASE ~(i <= index)
      <4>1. i - index \in 1 .. Len(line) /\ index + (i - index) = i
        BY <2>1, <3>2
      <4>2. line[i - index] = request[index + (i - index)]
        BY <2>1, <4>1
      <4> QED BY <2>3, <3>2, <4>1, <4>2
    <3> QED BY <3>1, <3>2
  <2>5. request \in Seq(Byte)
    BY <2>1, Requests
  <2>6. Len(front \o line) = Len(request)
    BY <2>1, <2>3
  <2>7. \A i \in 1 .. Len(front \o line) : (front \o line)[i] = request[i]
    BY <2>3, <2>4
  <2> HIDE DEF front
  <2>8. front \o line = request
    BY <2>3, <2>5, <2>6, <2>7, SeqEqual
  <2> QED BY <2>8 DEF front
<1> QED
  BY <1>1, SpecIInv, PTL

(***************************************************************************)
(* No character is left in the FIFO while the handler serves a level       *)
(* before the time-out runs out: both can be pending only when another     *)
(* character has followed, and then the time-out runs again.               *)
(***************************************************************************)
Served ==
    /\ arrived > 0 => pending # {} \/ timing
    /\ pending = {"RX", "RT"} => timing

THEOREM FifoServed == ASSUME Prompt PROVE Spec => []FifoIsServed
<1>1. Init => Served
  BY DEF Init, Served
<1>2. IInv /\ Served /\ [Next]_vars => Served'
  <2> SUFFICES ASSUME IInv, Served, [Next]_vars PROVE Served'
    OBVIOUS
  <2>1. arrived \in Nat /\ pending \subseteq {"RX", "RT"} /\ timing \in BOOLEAN
    BY DEF IInv, TypeOK
  <2>2. CASE Arrive
    BY <2>1, <2>2 DEF Arrive, Served
  <2>3. CASE TimeOut
    BY <2>1, <2>3 DEF TimeOut, Served
  <2>4. CASE UartInterrupt
    <3>1. arrived > 0 /\ pending # {} /\ pending' = {}
      BY <2>4 DEF UartInterrupt, IInv, Pending
    <3>2. CASE \E n \in 0 .. BufSize : ReadFifo(n)
      <4>1. PICK n \in 0 .. BufSize : ReadFifo(n)
        BY <3>2
      <4>2. arrived' = 0
        BY <3>1, <4>1, ReadsAll
      <4> QED BY <3>1, <4>2 DEF Served
    <3>3. CASE ~ReceiveInterrupt(pending) /\ UNCHANGED <<arrived, timing>>
      <4>1. pending = {"RX", "RT"}
        BY <2>1, <3>1, <3>3 DEF ReceiveInterrupt
      <4> QED BY <3>1, <3>3, <4>1 DEF Served
    <3> QED BY <2>4, <3>2, <3>3 DEF UartInterrupt
  <2>5. CASE UNCHANGED uart
    BY <2>5 DEF uart, Served
  <2> QED
    BY <2>2, <2>3, <2>4, <2>5
       DEF Next, Send, Handler, StartTask, Process, Transmit, Finish, vars, uart
<1>3. Served => FifoIsServed
  BY DEF Served, FifoIsServed
<1> QED
  BY <1>1, <1>2, <1>3, SpecIInv, PTL DEF Spec

(***************************************************************************)
(* The safety part of the promise: each request is executed at most once,  *)
(* as it was sent, and answered only after that.                           *)
(***************************************************************************)
THEOREM PromiseKept == Spec => Promise!Init /\ [][Promise!Next]_<<request, executed>>
<1>1. Init => Promise!Init
  BY DEF Init, Promise!Init
<1>2. IInv /\ [Next]_vars => [Promise!Next]_<<request, executed>>
  <2> SUFFICES ASSUME IInv, [Next]_vars
               PROVE  [Promise!Next]_<<request, executed>>
    OBVIOUS
  <2>1. ASSUME NEW m \in Message, Send(m) PROVE Promise!Next
    BY <2>1 DEF Send, Promise!Next, Promise!Ask
  <2>2. CASE Process
    <3>1. request # None /\ executed = None /\ executed' = request /\ UNCHANGED request
      BY <2>2, PacketIsRequest, Requests DEF Process
    <3> QED BY <3>1 DEF Promise!Next, Promise!Execute
  <2>3. CASE Finish
    <3>1. request # None /\ executed = request /\ request' = None /\ UNCHANGED executed
      BY <2>3 DEF Finish, IInv, AtRest, Arriving, Executed
    <3> QED BY <3>1 DEF Promise!Next, Promise!Answer
  <2>4. CASE UNCHANGED <<request, executed>>
    BY <2>4
  <2> QED
    BY <2>1, <2>2, <2>3, <2>4 DEF Next, Handler, Arrive, TimeOut, UartInterrupt, ReadFifo,
                                  StartTask, Transmit, vars
<1> QED
  BY <1>1, <1>2, SpecIInv, PTL DEF Spec
=============================================================================
