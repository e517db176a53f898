--------------------------- MODULE EthernetServer ---------------------------
(***************************************************************************)
(* The BSMP server on TCP port 80: the application of the uIP stack        *)
(* (httpd.c), the command processing of the main loop (ethernet_uip.c) and *)
(* of uIP (uip.c) what they rely on: the table of connections, the calls   *)
(* to the application and the single outstanding segment per connection.   *)
(*                                                                         *)
(* uIP keeps no copy of what the application sends: it calls the           *)
(* application again to have a lost segment made anew.  The application    *)
(* has one receive buffer and one answer for all connections, and hands    *)
(* the answer to whichever connection it is called for next.               *)
(*                                                                         *)
(* A peer is a remote address and port: a host that connects anew is       *)
(* another peer.  Its TCP retransmits to the board until acknowledged, so  *)
(* only pure acknowledgements are lost that way; what the board sends can  *)
(* be lost whenever the network is lossy.                                  *)
(***************************************************************************)
EXTENDS Naturals, Sequences, FiniteSets, FiniteSetsExt

CONSTANTS
    Peer,      \* remote ends
    Parts,     \* Parts[p]: TCP segments a request of p arrives in
    MaxAsk,    \* requests of a peer
    Slots,     \* UIP_CONNS
    MaxRtx,    \* UIP_MAXRTX and UIP_MAXSYNRTX
    Networks,  \* whether frames can be lost: the cases
    Orderly,   \* peers take turns and leave only when they are answered
    Mixed,     \* the answer to anything but the segments of one request
    Syn, Fin,  \* a SYN or FIN of the board that is outstanding
    None

Slot == 1 .. Slots

ASSUME ServerAssumption ==
    /\ Parts \in [Peer -> Nat \ {0}]
    /\ MaxAsk \in Nat /\ Slots \in Nat \ {0} /\ MaxRtx \in Nat
    /\ Networks \subseteq BOOLEAN /\ Orderly \in BOOLEAN

\* Requests, known by the peer and its count; answers are known by their
\* request.
Ask == Peer \X (1 .. MaxAsk)
Answer == Ask \cup {Mixed}

ASSUME MarkAssumption ==
    /\ None \notin Peer \cup Answer
    /\ {Syn, Fin} \cap (Answer \cup {None}) = {} /\ Syn # Fin

VARIABLES
    conn,      \* uip_conns
    rx,        \* rx_buffer: the segments appended since it was emptied
    response,  \* response_to_client
    new_data_send,
    executed,  \* history, on a network without loss: the request the library
               \* executed last, or None
    peer,      \* the remote ends
    lossy,     \* the network loses frames
    toBoard,   \* toBoard[p]: frames on their way from p
    toPeer     \* toPeer[p]: frames on their way to p

boardVars == <<conn, rx, response, new_data_send, executed>>
vars == <<boardVars, lossy, peer, toBoard, toPeer>>

Closed == [state |-> "closed", peer |-> None, out |-> None, nrtx |-> 0, snd |-> 0]

\* Frames, as they are on the wire.
BoardFrame ==
    [kind : {"syn", "rst"}] \cup [kind : {"ack", "fin"}, ack : Nat]
        \cup [kind : {"data"}, part : Ask \X Nat, ack : Nat]
PeerFrame ==
    [kind : {"synack", "finack", "rst"}]
    \cup [kind : {"segment"}, seq : Nat, answer : Answer]

Connection ==
    [state : {"closed", "syn_rcvd", "established", "last_ack"},
     peer : Peer \cup {None}, nrtx : 0 .. MaxRtx, snd : Nat,
     out : Answer \cup {Syn, Fin, None}]

TypeOK ==
    /\ conn \in [Slot -> Connection]
    /\ rx \in Seq(Ask \X Nat)
    /\ response \in Answer \cup {None}
    /\ new_data_send \in BOOLEAN /\ (new_data_send => response # None)
    /\ executed \in Ask \cup {None}
    /\ lossy \in Networks
    /\ peer \in [Peer -> [state : {"new", "syn", "open", "closing", "closed"},
                          asked : 0 .. MaxAsk, sent : Nat, got : Seq(Answer)]]
    /\ toBoard \in [Peer -> Seq(BoardFrame)]
    /\ toPeer \in [Peer -> Seq(PeerFrame)]

Init ==
    /\ conn = [c \in Slot |-> Closed]
    /\ rx = << >>
    /\ response = None
    /\ new_data_send = FALSE
    /\ executed = None
    /\ lossy \in Networks
    /\ peer = [p \in Peer |-> [state |-> "new", asked |-> 0, sent |-> 0, got |-> << >>]]
    /\ toBoard = [p \in Peer |-> << >>]
    /\ toPeer = [p \in Peer |-> << >>]

-----------------------------------------------------------------------------
\* Frames.
Frame(kind) == [kind |-> kind]
Ack(n) == [kind |-> "ack", ack |-> n]
Data(part, n) == [kind |-> "data", part |-> part, ack |-> n]
Segment(seq, answer) == [kind |-> "segment", seq |-> seq, answer |-> answer]

ToPeer(p, f) == toPeer' = [toPeer EXCEPT ![p] = Append(@, f)]

Established(c) == conn[c].state = "established"
Outstanding(c) == conn[c].out # None

\* The connection a frame of p belongs to.
ConnOf(p) == {c \in Slot : conn[c].state # "closed" /\ conn[c].peer = p}

\* Mutant of TakeResponse: the answer is not marked as sent.
TakeResponseAgain(called) == UNCHANGED new_data_send

\* httpd_appcall, after the new data: if called at all, it passes on the
\* answer that waits.
TakeResponse(called) == new_data_send' = (new_data_send /\ ~called)

-----------------------------------------------------------------------------
\* The segments of the buffer are those of one request, in order, so far.
Pure(s) == \A i \in DOMAIN s : s[i] = <<s[1][1], i>>

(***************************************************************************)
(* httpd_appcall compares what it has with the size field in the first     *)
(* segment.  Of segments of different requests either can come out.        *)
(***************************************************************************)
NewMessage(s) == IF Pure(s) THEN {Len(s) = Parts[s[1][1][1]]} ELSE BOOLEAN

\* Mutant of EthernetProcessCMD: the buffer is not cleared.
EthernetProcessCMDNoClear(s) ==
    /\ response' = IF Pure(s) THEN s[1][1] ELSE Mixed
    /\ executed' = IF Pure(s) /\ ~lossy THEN s[1][1] ELSE executed
    /\ rx' = s

\* A message is processed, its answer inserted and the buffer cleared.
EthernetProcessCMD(s) ==
    /\ response' = IF Pure(s) THEN s[1][1] ELSE Mixed
    /\ executed' = IF Pure(s) /\ ~lossy THEN s[1][1] ELSE executed
    /\ rx' = << >>

-----------------------------------------------------------------------------
\* A SYN takes the first free connection; with none it is dropped, and sent
\* again by the peer.
ReceiveSyn(p) ==
    /\ ConnOf(p) = {}
    /\ \E c \in Slot :
          /\ conn[c].state = "closed" /\ \A d \in 1 .. c - 1 : conn[d].state # "closed"
          /\ conn' = [conn EXCEPT ![c] = [state |-> "syn_rcvd", peer |-> p, out |-> Syn,
                                          nrtx |-> 0, snd |-> 0]]
    /\ ToPeer(p, Frame("synack"))
    /\ UNCHANGED <<rx, response, new_data_send, executed>>

\* The connection after the acknowledgement of n segments: it covers what is
\* outstanding if it counts one segment more than was known.
Acked(k, n) ==
    IF k.out = Syn THEN [k EXCEPT !.state = "established", !.out = None]
    ELSE IF k.out # None /\ n = k.snd + 1
         THEN [k EXCEPT !.out = None, !.snd = n]
    ELSE k

(***************************************************************************)
(* The answer that waits, if any, goes out on connection c.  If a segment  *)
(* is still outstanding there, the answer takes its place under the same   *)
(* sequence number.                                                        *)
(***************************************************************************)
SendOn(c, k) ==
    IF new_data_send
    THEN /\ conn' = [conn EXCEPT ![c] = [k EXCEPT !.out = response, !.nrtx = 0]]
         /\ ToPeer(k.peer, Segment(k.snd, response))
    ELSE conn' = [conn EXCEPT ![c] = [k EXCEPT !.nrtx = 0]] /\ UNCHANGED toPeer

\* The FIN of p, with its latest acknowledgement.
FinFrame(p) == [kind |-> "fin", ack |-> Len(peer[p].got)]

\* An acknowledgement without data: the application is called only if it
\* acknowledges something.
ReceiveAck(p, n) ==
    \E c \in ConnOf(p) :
        LET k == Acked(conn[c], n) IN
        /\ IF k = conn[c]
           THEN UNCHANGED <<conn, toPeer, new_data_send>>
           ELSE /\ TakeResponse(TRUE)
                /\ IF conn[c].state = "last_ack"
                   THEN conn' = [conn EXCEPT ![c] = Closed] /\ UNCHANGED toPeer
                   ELSE SendOn(c, k)
        /\ UNCHANGED <<rx, response, executed>>

(***************************************************************************)
(* A segment of a request: the application appends it, an answer that      *)
(* waits from an earlier command goes out, and when the message is whole   *)
(* the command is processed before EthernetProcessData returns.            *)
(***************************************************************************)
ReceiveData(p, part, n) ==
    \E c \in ConnOf(p) :
        LET s == Append(rx, part) IN
        /\ SendOn(c, Acked(conn[c], n))
        /\ \E whole \in NewMessage(s) :
              IF whole
              THEN EthernetProcessCMD(s) /\ new_data_send' = TRUE
              ELSE /\ rx' = s
                   /\ TakeResponse(TRUE)
                   /\ UNCHANGED <<response, executed>>

\* A FIN closes an established connection with nothing outstanding; an answer
\* that waits is lost with the call that reports the closing.
ReceiveFin(p, n) ==
    \E c \in ConnOf(p) :
        LET k == Acked(conn[c], n) IN
        /\ Established(c) /\ k.out = None
        /\ conn' = [conn EXCEPT ![c] = [k EXCEPT !.state = "last_ack", !.out = Fin, !.nrtx = 0]]
        /\ TakeResponse(TRUE)
        /\ ToPeer(p, Frame("finack"))
        /\ UNCHANGED <<rx, response, executed>>

\* Of any other FIN only the acknowledgement counts; the peer sends it again.
ReceiveEarlyFin(p, n) ==
    /\ \E c \in ConnOf(p) : ~Established(c) \/ Acked(conn[c], n).out # None
    /\ ReceiveAck(p, n)

\* A reset closes the connection; so does it lose an answer that waits.
ReceiveRst(p) ==
    \E c \in ConnOf(p) :
        /\ conn' = [conn EXCEPT ![c] = Closed]
        /\ TakeResponse(TRUE)
        /\ UNCHANGED <<rx, response, executed, toPeer>>

\* A frame for no connection is answered by a reset.
ReceiveStray(p, f) ==
    /\ ConnOf(p) = {} /\ f.kind # "syn"
    /\ IF f.kind = "rst" THEN UNCHANGED toPeer ELSE ToPeer(p, Frame("rst"))
    /\ UNCHANGED boardVars

\* EthernetProcessData with a frame from p in the controller.
Receive(p) ==
    /\ toBoard[p] # << >>
    /\ LET f == Head(toBoard[p]) IN
          \/ /\ \/ f.kind = "syn" /\ ReceiveSyn(p)
                \/ f.kind = "ack" /\ ReceiveAck(p, f.ack)
                \/ f.kind = "data" /\ ReceiveData(p, f.part, f.ack)
                \/ f.kind = "fin" /\ ReceiveFin(p, f.ack)
                \/ f.kind = "rst" /\ ReceiveRst(p)
                \/ ReceiveStray(p, f)
             /\ toBoard' = [toBoard EXCEPT ![p] = Tail(@)]
          \/ /\ f.kind = "fin" /\ ReceiveEarlyFin(p, f.ack)
             /\ toBoard' = [toBoard EXCEPT ![p] = Append(Tail(@), FinFrame(p))]
    /\ UNCHANGED <<lossy, peer>>

-----------------------------------------------------------------------------
\* Frames between the board and the peer of c, either way.
InFlight(c) == toPeer[conn[c].peer] # << >> \/ toBoard[conn[c].peer] # << >>

(***************************************************************************)
(* The retransmission timer can run out at any time (UIP_RTO is 150 ms,    *)
(* less than a delayed acknowledgement of some hosts), but the whole       *)
(* series of retransmissions, of many seconds, outlasts frames in flight.  *)
(***************************************************************************)
Expirable == {c \in Slot : Outstanding(c) /\ (conn[c].nrtx < MaxRtx \/ ~InFlight(c))}

GivenUp(c) == conn[c].nrtx = MaxRtx

\* Mutant of TimedOut: the connection stays and counts anew.
TimedOutRestarts(c) == [conn[c] EXCEPT !.nrtx = 0]

\* What becomes of a connection that was given up.
TimedOut(c) == Closed

(***************************************************************************)
(* The periodic timer, with the connections of Expired past their          *)
(* retransmission time.  The connections are taken in the order of the     *)
(* table: the application is called for each established one, to be asked  *)
(* for data, to retransmit, or to learn that the connection timed out, and *)
(* the first call takes the answer that waits.                             *)
(***************************************************************************)
Periodic(Expired) ==
    LET called == {c \in Slot : \/ Established(c) /\ (c \in Expired \/ ~Outstanding(c))
                                \/ c \in Expired /\ GivenUp(c)}
        taker == IF new_data_send /\ called # {} THEN Min(called) ELSE 0
        lost == {c \in Expired : GivenUp(c)}
        Out(p) == IF \E c \in lost : conn[c].peer = p THEN <<Frame("rst")>>
                  ELSE IF taker # 0 /\ conn[taker].peer = p
                       THEN <<Segment(conn[taker].snd, response)>>
                  ELSE << >>
    IN /\ conn' = [c \in Slot |->
                      IF c \in lost THEN TimedOut(c)
                      ELSE IF c \in Expired THEN [conn[c] EXCEPT !.nrtx = @ + 1]
                      ELSE IF c = taker THEN [conn[c] EXCEPT !.out = response, !.nrtx = 0]
                      ELSE conn[c]]
       /\ toPeer' = [p \in Peer |-> toPeer[p] \o Out(p)]
       /\ TakeResponse(called # {})
       /\ UNCHANGED <<rx, response, executed, lossy, peer, toBoard>>

-----------------------------------------------------------------------------
\* The peers.
Waiting(p) == peer[p].asked > Len(peer[p].got)
Gone(p) == peer[p].state \in {"new", "closed"}
ToBoard(p, f) == toBoard' = [toBoard EXCEPT ![p] = Append(@, f)]

Connect(p) ==
    /\ peer[p].state = "new"
    /\ Orderly => \A q \in Peer : Gone(q) /\ ConnOf(q) = {}
    /\ peer' = [peer EXCEPT ![p].state = "syn"]
    /\ ToBoard(p, Frame("syn"))
    /\ UNCHANGED <<boardVars, lossy, toPeer>>

\* A peer asks one thing at a time.
AskNext(p) ==
    /\ peer[p].state = "open" /\ ~Waiting(p) /\ peer[p].asked < MaxAsk
    /\ peer' = [peer EXCEPT ![p].asked = @ + 1, ![p].sent = 0]
    /\ executed' = None
    /\ UNCHANGED <<lossy, conn, rx, response, new_data_send, toBoard, toPeer>>

SendPart(p) ==
    /\ peer[p].state = "open" /\ Waiting(p) /\ peer[p].sent < Parts[p]
    /\ peer' = [peer EXCEPT ![p].sent = @ + 1]
    /\ ToBoard(p, Data(<< <<p, peer[p].asked>>, peer[p].sent + 1>>, Len(peer[p].got)))
    /\ UNCHANGED <<boardVars, lossy, toPeer>>

Close(p) ==
    /\ peer[p].state = "open" /\ ~Waiting(p)
    /\ peer' = [peer EXCEPT ![p].state = "closing"]
    /\ ToBoard(p, FinFrame(p))
    /\ UNCHANGED <<boardVars, lossy, toPeer>>

Abort(p) ==
    /\ peer[p].state = "open" /\ (Orderly => ~Waiting(p))
    /\ peer' = [peer EXCEPT ![p].state = "closed"]
    /\ ToBoard(p, Frame("rst"))
    /\ UNCHANGED <<boardVars, lossy, toPeer>>

\* The TCP of the peer takes each sequence number once.
PeerReceive(p) ==
    /\ toPeer[p] # << >>
    /\ toPeer' = [toPeer EXCEPT ![p] = Tail(@)]
    /\ LET f == Head(toPeer[p])
           got == peer[p].got
           fresh == f.kind = "segment" /\ f.seq = Len(got)
       IN \/ /\ f.kind = "synack" /\ peer[p].state = "syn"
             /\ peer' = [peer EXCEPT ![p].state = "open"]
             /\ ToBoard(p, Ack(0))
          \/ /\ f.kind = "segment" /\ ~Gone(p)
             /\ peer' = IF fresh THEN [peer EXCEPT ![p].got = Append(@, f.answer)] ELSE peer
             /\ ToBoard(p, Ack(Len(peer'[p].got)))
          \/ /\ f.kind = "finack" /\ peer[p].state = "closing"
             /\ peer' = [peer EXCEPT ![p].state = "closed"]
             /\ ToBoard(p, Ack(Len(got) + 1))
          \/ /\ f.kind = "rst" \/ Gone(p)
             /\ peer' = [peer EXCEPT ![p].state = "closed"]
             /\ UNCHANGED toBoard
    /\ UNCHANGED <<boardVars, lossy>>

LoseToPeer(p) ==
    /\ lossy /\ toPeer[p] # << >> /\ Head(toPeer[p]).kind = "segment"
    /\ toPeer' = [toPeer EXCEPT ![p] = Tail(@)]
    /\ UNCHANGED <<boardVars, lossy, peer, toBoard>>

LoseToBoard(p) ==
    /\ lossy /\ toBoard[p] # << >> /\ Head(toBoard[p]).kind = "ack"
    /\ peer[p].state = "open"
    /\ toBoard' = [toBoard EXCEPT ![p] = Tail(@)]
    /\ UNCHANGED <<boardVars, lossy, peer, toPeer>>

-----------------------------------------------------------------------------
Tick == \E Expired \in SUBSET Expirable : Periodic(Expired)
Expire(c) == \E Expired \in SUBSET Expirable : c \in Expired /\ Periodic(Expired)

Remote(p) == Connect(p) \/ AskNext(p) \/ SendPart(p) \/ Close(p) \/ Abort(p) \/ PeerReceive(p)
Loss(p) == LoseToPeer(p) \/ LoseToBoard(p)

Next == Tick \/ \E p \in Peer : Receive(p) \/ Remote(p) \/ Loss(p)

Spec == Init /\ [][Next]_vars

\* The main loop takes frames and timers; peers take what arrives and finish
\* what they began to send.
FairSpec ==
    /\ Spec /\ WF_vars(Tick)
    /\ \A c \in Slot : WF_vars(Expire(c))
    /\ \A p \in Peer : WF_vars(Receive(p)) /\ WF_vars(PeerReceive(p)) /\ WF_vars(SendPart(p))

-----------------------------------------------------------------------------
(***************************************************************************)
(* EthernetProcessCMD is there to "respond to commands sent by the user    *)
(* (client)": the answers a peer receives are those to its own requests,   *)
(* in their order.                                                         *)
(***************************************************************************)
AnswersMine ==
    \A p \in Peer : \A i \in DOMAIN peer[p].got : peer[p].got[i] = <<p, i>>

(***************************************************************************)
(* Peers that take turns over a network without loss see the promise of    *)
(* RequestReply: whatever the answer of one connection passes through the  *)
(* state all connections share, each request is executed once and          *)
(* answered.  Over a network with loss nothing is promised.                *)
(***************************************************************************)
Pending == {p \in Peer : Waiting(p) /\ ~lossy}
request == IF Pending = {} THEN None
           ELSE LET p == CHOOSE q \in Pending : TRUE IN <<p, peer[p].asked>>
Promise == INSTANCE RequestReply WITH Message <- Ask
Implements == Promise!Spec

(***************************************************************************)
(* A connection does not wait for ever for an acknowledgement that was     *)
(* lost or whose peer has gone: it is acknowledged or closed.              *)
(***************************************************************************)
SlotFreed == \A c \in Slot : Outstanding(c) ~> ~Outstanding(c)

=============================================================================
