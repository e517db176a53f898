------------------------ MODULE EthernetServerProofs ------------------------
(***************************************************************************)
(* Peers that take turns receive their own answers, and over a network     *)
(* without loss they see what RequestReply promises, for every number of   *)
(* peers, connections, retransmissions and requests and every length of a  *)
(* request.                                                                *)
(*                                                                         *)
(* The application keeps one buffer and one answer for all connections, so *)
(* nothing local to a connection is inductive: the invariant says which    *)
(* stage the one conversation with the board is in, and what its peer, its *)
(* connection, the frames in flight and the shared variables have in       *)
(* common at that stage.                                                   *)
(***************************************************************************)
EXTENDS EthernetServer, SequenceTheorems, WellFoundedInduction, TLAPS

\* The data frames of parts r + 1 to s of the request <<p, g + 1>>.
Run(p, g, r, s) == [i \in 1 .. s - r |-> Data(<< <<p, g + 1>>, r + i>>, g)]

\* Its first r parts, as they are appended to the buffer.
Received(p, g, r) == [i \in 1 .. r |-> << <<p, g + 1>>, i>>]

\* The board knows that the peer has g answers; or it does not know yet.
Settled(k, g) == k.state = "established" /\ k.out = None /\ k.snd = g

Owing(p, k, g) ==
    IF g = 0 THEN k.state = "syn_rcvd" /\ k.out = Syn /\ k.snd = 0
    ELSE k.state = "established" /\ k.out = <<p, g>> /\ k.snd = g - 1

\* The answers p has.
Got(p) == Len(peer[p].got)

(***************************************************************************)
(* What p has said to the board over c: rest, after the acknowledgement of *)
(* the last answer if that is not lost.  What rest holds acknowledges it   *)
(* too, so without loss something always does.                             *)
(***************************************************************************)
Telling(p, c, rest) ==
    \/ Settled(conn[c], Got(p)) /\ toBoard[p] = rest
    \/ /\ Owing(p, conn[c], Got(p))
       /\ \/ toBoard[p] = <<Ack(Got(p))>> \o rest
          \/ toBoard[p] = rest /\ (lossy \/ rest # << >>)

Free == rx = << >> /\ ~new_data_send

-----------------------------------------------------------------------------
(***************************************************************************)
(* The stages of a conversation of the peer p over the connection c.       *)
(***************************************************************************)
Opening(p, c) ==
    /\ peer[p].state = "syn" /\ Got(p) = 0 /\ peer[p].asked = 0 /\ Free
    /\ conn[c].state = "syn_rcvd" /\ conn[c].out = Syn /\ conn[c].snd = 0
    /\ toBoard[p] = << >> /\ toPeer[p] = <<Frame("synack")>>

Idle(p, c) ==
    /\ peer[p].state = "open" /\ peer[p].asked = Got(p) /\ Free
    /\ Telling(p, c, << >>) /\ toPeer[p] = << >>

Asking(p, c) ==
    /\ peer[p].state = "open" /\ peer[p].asked = Got(p) + 1 /\ peer[p].sent <= Parts[p]
    /\ ~new_data_send /\ executed = None /\ toPeer[p] = << >>
    /\ \E r \in 0 .. peer[p].sent :
          /\ r < Parts[p] /\ rx = Received(p, Got(p), r)
          /\ r > 0 => Settled(conn[c], Got(p))
          /\ Telling(p, c, Run(p, Got(p), r, peer[p].sent))

\* The request is whole: all of it is sent, and nothing else is in flight.
Whole(p) ==
    /\ peer[p].state = "open" /\ peer[p].asked = Got(p) + 1 /\ peer[p].sent = Parts[p]
    /\ executed = IF lossy THEN None ELSE <<p, Got(p) + 1>>
    /\ rx = << >> /\ toBoard[p] = << >>

Executed(p, c) ==
    /\ Whole(p) /\ new_data_send /\ response = <<p, Got(p) + 1>>
    /\ Settled(conn[c], Got(p)) /\ toPeer[p] = << >>

Answered(p, c) ==
    /\ Whole(p) /\ ~new_data_send /\ Owing(p, conn[c], Got(p) + 1)
    /\ \/ toPeer[p] = <<Segment(Got(p), <<p, Got(p) + 1>>)>>
       \/ lossy /\ toPeer[p] = << >>

Leaving(p, c) ==
    /\ peer[p].state = "closing" /\ peer[p].asked = Got(p) /\ Free
    /\ Telling(p, c, <<FinFrame(p)>>) /\ toPeer[p] = << >>

Dropping(p, c) ==
    /\ peer[p].state = "closed" /\ peer[p].asked = Got(p) /\ Free
    /\ Telling(p, c, <<Frame("rst")>>) /\ toPeer[p] = << >>

Parting(p, c) ==
    /\ peer[p].asked = Got(p) /\ Free
    /\ conn[c].state = "last_ack" /\ conn[c].out = Fin /\ conn[c].snd = Got(p)
    /\ \/ peer[p].state = "closing" /\ toBoard[p] = << >> /\ toPeer[p] = <<Frame("finack")>>
       \/ peer[p].state = "closed" /\ toBoard[p] = <<Ack(Got(p) + 1)>> /\ toPeer[p] = << >>

Stage(p, c) ==
    \/ Opening(p, c) \/ Idle(p, c) \/ Asking(p, c) \/ Executed(p, c)
    \/ Answered(p, c) \/ Leaving(p, c) \/ Dropping(p, c) \/ Parting(p, c)

-----------------------------------------------------------------------------
\* A peer that has not begun, one whose SYN is on its way, and one without a
\* connection any more: no answer reaches it and none of its frames begins a
\* conversation.  Without loss only a peer that has all its answers is one.
Fresh(q) ==
    /\ peer[q].state = "new" /\ peer[q].asked = 0 /\ peer[q].got = << >>
    /\ toBoard[q] = << >> /\ toPeer[q] = << >>

Knocking(q) ==
    /\ peer[q].state = "syn" /\ peer[q].asked = 0 /\ peer[q].got = << >>
    /\ toBoard[q] = <<Frame("syn")>> /\ toPeer[q] = << >>

Orphan(q) ==
    /\ peer[q].state \in {"open", "closing", "closed"}
    /\ \A i \in DOMAIN toBoard[q] : toBoard[q][i].kind # "syn"
    /\ \A i \in DOMAIN toPeer[q] : toPeer[q][i].kind # "segment"
    /\ lossy \/ (peer[q].state = "closed" /\ peer[q].asked = Len(peer[q].got))

Resting(q) == Fresh(q) \/ Orphan(q)
Others(p) == \A q \in Peer \ {p} : Resting(q)

\* No conversation; that of p is to begin; and that of p at connection c.
Silence == (\A c \in Slot : conn[c] = Closed) /\ Free
Quiet == Silence /\ \A q \in Peer : Resting(q)
Knock(p) == Silence /\ Knocking(p) /\ Others(p)

Talk(p, c) ==
    /\ conn[c].peer = p /\ \A d \in Slot \ {c} : conn[d] = Closed
    /\ Others(p) /\ Stage(p, c)

IInv ==
    /\ TypeOK
    /\ AnswersMine
    /\ lossy => executed = None
    /\ Quiet \/ (\E p \in Peer : Knock(p)) \/ \E p \in Peer, c \in Slot : Talk(p, c)

-----------------------------------------------------------------------------
(***************************************************************************)
(* What the queues of frames and the buffer do when parts are appended and *)
(* taken.                                                                  *)
(***************************************************************************)
IsRun(t, p, g, r, s) ==
    /\ t \in Seq(BoardFrame) /\ Len(t) = s - r
    /\ \A i \in 1 .. s - r : t[i] = Data(<< <<p, g + 1>>, r + i>>, g)

LEMMA RunIsSeq ==
    ASSUME NEW p \in Peer, NEW g \in Nat, NEW r \in Nat, NEW s \in Nat,
           g + 1 <= MaxAsk, r <= s
    PROVE  IsRun(Run(p, g, r, s), p, g, r, s)
<1>1. \A i \in 1 .. s - r : Data(<< <<p, g + 1>>, r + i>>, g) \in BoardFrame
  BY ServerAssumption DEF Data, BoardFrame, Ask
<1> QED
  BY <1>1 DEF Run, IsRun

LEMMA RunNext ==
    ASSUME NEW p \in Peer, NEW g \in Nat, NEW r \in Nat, NEW s \in Nat,
           g + 1 <= MaxAsk, r < s
    PROVE  /\ Run(p, g, r, s) # << >>
           /\ Head(Run(p, g, r, s)) = Data(<< <<p, g + 1>>, r + 1>>, g)
           /\ Tail(Run(p, g, r, s)) = Run(p, g, r + 1, s)
<1> DEFINE t == Run(p, g, r, s)
           u == Run(p, g, r + 1, s)
<1>1. IsRun(t, p, g, r, s)
  BY RunIsSeq
<1>2. r + 1 \in Nat /\ r + 1 <= s
  OBVIOUS
<1>3. IsRun(u, p, g, r + 1, s)
  BY <1>2, RunIsSeq
<1> HIDE DEF t, u
<1>4. t \in Seq(BoardFrame) /\ Len(t) = s - r /\ t # << >> /\ Head(t) = t[1]
  BY <1>1 DEF IsRun
<1>5. Tail(t) \in Seq(BoardFrame) /\ Len(Tail(t)) = Len(t) - 1
      /\ \A i \in 1 .. Len(Tail(t)) : Tail(t)[i] = t[i + 1]
  BY <1>4, HeadTailProperties
<1>6. u \in Seq(BoardFrame) /\ Len(u) = s - (r + 1)
  BY <1>3 DEF IsRun
<1>7. ASSUME NEW i \in 1 .. Len(Tail(t)) PROVE Tail(t)[i] = u[i]
  <2>1. i + 1 \in 1 .. s - r /\ i \in 1 .. s - (r + 1) /\ r + (i + 1) = (r + 1) + i
    BY <1>4, <1>5
  <2>2. t[i + 1] = Data(<< <<p, g + 1>>, r + (i + 1)>>, g)
    BY <2>1, <1>1 DEF IsRun
  <2>3. u[i] = Data(<< <<p, g + 1>>, (r + 1) + i>>, g)
    BY <2>1, <1>3 DEF IsRun
  <2> QED BY <2>1, <2>2, <2>3, <1>5
<1>8. Tail(t) = u
  BY <1>4, <1>5, <1>6, <1>7, SeqEqual
<1>9. t[1] = Data(<< <<p, g + 1>>, r + 1>>, g)
  BY <1>1 DEF IsRun
<1> QED
  BY <1>4, <1>8, <1>9 DEF t, u

LEMMA RunEmpty ==
    ASSUME NEW p, NEW g \in Nat, NEW r \in Nat
    PROVE  Run(p, g, r, r) = << >>
BY DEF Run

LEMMA RunMore ==
    ASSUME NEW p \in Peer, NEW g \in Nat, NEW r \in Nat, NEW s \in Nat,
           g + 1 <= MaxAsk, r <= s
    PROVE  /\ Append(Run(p, g, r, s), Data(<< <<p, g + 1>>, s + 1>>, g))
                = Run(p, g, r, s + 1)
           /\ Run(p, g, r, s + 1) # << >>
<1> DEFINE t == Run(p, g, r, s)
           u == Run(p, g, r, s + 1)
           d == Data(<< <<p, g + 1>>, s + 1>>, g)
<1>1. IsRun(t, p, g, r, s)
  BY RunIsSeq
<1>2. s + 1 \in Nat /\ r <= s + 1
  OBVIOUS
<1>3. IsRun(u, p, g, r, s + 1)
  BY <1>2, RunIsSeq
<1>4. d \in BoardFrame
  BY ServerAssumption DEF Data, BoardFrame, Ask
<1> HIDE DEF t, u
<1>5. /\ t \in Seq(BoardFrame) /\ Len(t) = s - r
      /\ u \in Seq(BoardFrame) /\ Len(u) = (s + 1) - r /\ u # << >>
  BY <1>1, <1>3 DEF IsRun
<1>6. u[(s + 1) - r] = d
  <2>1. (s + 1) - r \in 1 .. (s + 1) - r /\ r + ((s + 1) - r) = s + 1
    OBVIOUS
  <2>2. u[(s + 1) - r] = Data(<< <<p, g + 1>>, r + ((s + 1) - r)>>, g)
    BY <2>1, <1>3 DEF IsRun
  <2> QED BY <2>1, <2>2
<1>7. ASSUME NEW i \in 1 .. s - r PROVE u[i] = t[i]
  <2>1. i \in 1 .. (s + 1) - r
    OBVIOUS
  <2>2. u[i] = Data(<< <<p, g + 1>>, r + i>>, g)
    BY <2>1, <1>3 DEF IsRun
  <2>3. t[i] = Data(<< <<p, g + 1>>, r + i>>, g)
    BY <1>1 DEF IsRun
  <2> QED BY <2>2, <2>3
<1> HIDE DEF d
<1>8. Append(t, d) \in Seq(BoardFrame) /\ Len(Append(t, d)) = Len(t) + 1
      /\ \A i \in 1 .. Len(t) + 1 :
            Append(t, d)[i] = IF i = Len(t) + 1 THEN d ELSE t[i]
  BY <1>4, <1>5
<1>9. ASSUME NEW i \in 1 .. Len(Append(t, d)) PROVE Append(t, d)[i] = u[i]
  <2>1. CASE i = Len(t) + 1
    BY <2>1, <1>5, <1>6, <1>8
  <2>2. CASE i # Len(t) + 1
    <3>1. i \in 1 .. s - r
      BY <2>2, <1>5, <1>8
    <3> QED BY <3>1, <2>2, <1>7, <1>8
  <2> QED BY <2>1, <2>2
<1>10. Append(t, d) = u
  BY <1>5, <1>8, <1>9, SeqEqual
<1> QED
  BY <1>5, <1>10 DEF t, u, d

LEMMA ReceivedMore ==
    ASSUME NEW p \in Peer, NEW g \in Nat, NEW r \in Nat
    PROVE  Append(Received(p, g, r), << <<p, g + 1>>, r + 1>>) = Received(p, g, r + 1)
<1> DEFINE S == (Peer \X Nat) \X Nat
           t == Received(p, g, r)
           u == Received(p, g, r + 1)
           d == << <<p, g + 1>>, r + 1>>
<1>1. t \in Seq(S) /\ Len(t) = r /\ \A i \in 1 .. r : t[i] = << <<p, g + 1>>, i>>
  BY DEF Received
<1>2. u \in Seq(S) /\ Len(u) = r + 1 /\ \A i \in 1 .. r + 1 : u[i] = << <<p, g + 1>>, i>>
  BY DEF Received
<1>3. d \in S /\ u[r + 1] = d
  BY <1>2
<1> HIDE DEF t, u, d, S
<1>4. Append(t, d) \in Seq(S) /\ Len(Append(t, d)) = r + 1
      /\ \A i \in 1 .. r + 1 : Append(t, d)[i] = IF i = r + 1 THEN d ELSE t[i]
  BY <1>1, <1>3
<1>5. ASSUME NEW i \in 1 .. Len(Append(t, d)) PROVE Append(t, d)[i] = u[i]
  <2>1. CASE i = r + 1
    BY <2>1, <1>3, <1>4
  <2>2. CASE i # r + 1
    <3>1. i \in 1 .. r /\ i \in 1 .. r + 1
      BY <2>2, <1>4
    <3> QED BY <3>1, <2>2, <1>1, <1>2, <1>4
  <2> QED BY <2>1, <2>2
<1>6. Append(t, d) = u
  BY <1>1, <1>2, <1>4, <1>5, SeqEqual
<1> QED
  BY <1>6 DEF t, u, d

LEMMA ReceivedNone == ASSUME NEW p, NEW g PROVE Received(p, g, 0) = << >>
BY DEF Received

(***************************************************************************)
(* The parts received of one request are pure, and whole when all are.     *)
(***************************************************************************)
LEMMA ReceivedPure ==
    ASSUME NEW p \in Peer, NEW g \in Nat, NEW r \in Nat \ {0}
    PROVE  /\ Pure(Received(p, g, r))
           /\ Received(p, g, r)[1][1] = <<p, g + 1>>
           /\ NewMessage(Received(p, g, r)) = {r = Parts[p]}
<1> DEFINE t == Received(p, g, r)
<1>1. DOMAIN t = 1 .. r /\ Len(t) = r /\ \A i \in 1 .. r : t[i] = << <<p, g + 1>>, i>>
  BY DEF Received
<1> HIDE DEF t
<1>2. t[1] = << <<p, g + 1>>, 1>>
  BY <1>1
<1>3. t[1][1] = <<p, g + 1>> /\ t[1][1][1] = p
  BY <1>2
<1>4. Pure(t)
  BY <1>1, <1>3 DEF Pure
<1>5. NewMessage(t) = {r = Parts[p]}
  BY <1>1, <1>3, <1>4 DEF NewMessage
<1> QED
  BY <1>3, <1>4, <1>5 DEF t

(***************************************************************************)
(* A frame in front of a queue, and one behind it.                         *)
(***************************************************************************)
LEMMA Front ==
    ASSUME NEW S, NEW f \in S, NEW t \in Seq(S)
    PROVE  /\ <<f>> \o t \in Seq(S) /\ <<f>> \o t # << >>
           /\ Head(<<f>> \o t) = f /\ Tail(<<f>> \o t) = t
<1> DEFINE u == <<f>> \o t
<1>1. <<f>> \in Seq(S) /\ Len(<<f>>) = 1 /\ <<f>>[1] = f
  OBVIOUS
<1>2. u \in Seq(S) /\ Len(u) = 1 + Len(t)
      /\ \A i \in 1 .. 1 + Len(t) : u[i] = IF i <= 1 THEN <<f>>[i] ELSE t[i - 1]
  BY <1>1, ConcatProperties
<1>3. Len(t) \in Nat
  BY LenProperties
<1> HIDE DEF u
<1>4. u # << >> /\ u[1] = f /\ Head(u) = u[1]
  BY <1>1, <1>2, <1>3
<1>5. Tail(u) \in Seq(S) /\ Len(Tail(u)) = Len(t)
      /\ \A i \in 1 .. Len(Tail(u)) : Tail(u)[i] = u[i + 1]
  BY <1>2, <1>3, <1>4, HeadTailProperties
<1>6. ASSUME NEW i \in 1 .. Len(Tail(u)) PROVE Tail(u)[i] = t[i]
  BY <1>2, <1>3, <1>5
<1>7. Tail(u) = t
  BY <1>5, <1>6, SeqEqual
<1> QED
  BY <1>2, <1>4, <1>7 DEF u

LEMMA Behind ==
    ASSUME NEW S, NEW f \in S, NEW t \in Seq(S), NEW x \in S
    PROVE  Append(<<f>> \o t, x) = <<f>> \o Append(t, x)
<1> DEFINE u == <<f>> \o t
<1>1. <<f>> \in Seq(S) /\ Len(<<f>>) = 1 /\ <<f>>[1] = f
  OBVIOUS
<1>2. u \in Seq(S) /\ Len(u) = 1 + Len(t)
      /\ \A i \in 1 .. 1 + Len(t) : u[i] = IF i <= 1 THEN <<f>>[i] ELSE t[i - 1]
  BY <1>1, ConcatProperties
<1>3. Len(t) \in Nat
  BY LenProperties
<1> HIDE DEF u
<1>4. Append(t, x) \in Seq(S) /\ Len(Append(t, x)) = Len(t) + 1
      /\ \A i \in 1 .. Len(t) + 1 : Append(t, x)[i] = IF i = Len(t) + 1 THEN x ELSE t[i]
  BY <1>3
<1>5. <<f>> \o Append(t, x) \in Seq(S) /\ Len(<<f>> \o Append(t, x)) = 1 + (Len(t) + 1)
      /\ \A i \in 1 .. 1 + (Len(t) + 1) :
            (<<f>> \o Append(t, x))[i] = IF i <= 1 THEN <<f>>[i] ELSE Append(t, x)[i - 1]
  BY <1>1, <1>4, ConcatProperties
<1>6. Append(u, x) \in Seq(S) /\ Len(Append(u, x)) = Len(u) + 1
      /\ \A i \in 1 .. Len(u) + 1 : Append(u, x)[i] = IF i = Len(u) + 1 THEN x ELSE u[i]
  BY <1>2, <1>3
<1>7. ASSUME NEW i \in 1 .. Len(Append(u, x))
      PROVE  Append(u, x)[i] = (<<f>> \o Append(t, x))[i]
  <2>1. i \in 1 .. 1 + (Len(t) + 1)
    BY <1>2, <1>3, <1>6
  <2>2. CASE i = 1
    BY <2>2, <1>2, <1>3, <1>5, <1>6
  <2>3. CASE i # 1 /\ i # 1 + (Len(t) + 1)
    <3>1. i - 1 \in 1 .. Len(t)
      BY <2>1, <2>3, <1>3
    <3> QED BY <3>1, <2>1, <2>3, <1>2, <1>3, <1>4, <1>5, <1>6
  <2>4. CASE i = 1 + (Len(t) + 1)
    BY <2>4, <1>2, <1>3, <1>4, <1>5, <1>6
  <2> QED BY <2>2, <2>3, <2>4
<1> QED
  BY <1>2, <1>3, <1>5, <1>6, <1>7, SeqEqual

-----------------------------------------------------------------------------
(***************************************************************************)
(* The types of what the handlers build.                                   *)
(***************************************************************************)
LEMMA FrameTypes ==
    /\ Frame("syn") \in BoardFrame /\ Frame("rst") \in BoardFrame
    /\ \A n \in Nat : Ack(n) \in BoardFrame
    /\ \A part \in Ask \X Nat, n \in Nat : Data(part, n) \in BoardFrame
    /\ Frame("synack") \in PeerFrame /\ Frame("finack") \in PeerFrame
    /\ Frame("rst") \in PeerFrame
    /\ \A n \in Nat, a \in Answer : Segment(n, a) \in PeerFrame
<1>1. /\ Frame("syn") \in BoardFrame /\ Frame("rst") \in BoardFrame
      /\ \A n \in Nat : Ack(n) \in BoardFrame
  BY DEF Frame, Ack, BoardFrame
<1>2. \A part \in Ask \X Nat, n \in Nat : Data(part, n) \in BoardFrame
  BY DEF Data, BoardFrame
<1>3. /\ Frame("synack") \in PeerFrame /\ Frame("finack") \in PeerFrame
      /\ Frame("rst") \in PeerFrame
  BY DEF Frame, PeerFrame
<1>4. \A n \in Nat, a \in Answer : Segment(n, a) \in PeerFrame
  BY DEF Segment, PeerFrame
<1> QED BY <1>1, <1>2, <1>3, <1>4

LEMMA FrameFields ==
    /\ \A f \in BoardFrame : f.kind \in {"ack", "fin", "data"} => f.ack \in Nat
    /\ \A f \in BoardFrame : f.kind = "data" => f.part \in Ask \X Nat
    /\ \A f \in PeerFrame : f.kind = "segment" => f.seq \in Nat /\ f.answer \in Answer
BY DEF BoardFrame, PeerFrame

LEMMA ClosedType == Closed \in Connection
BY ServerAssumption DEF Closed, Connection

\* A connection with other contents.
LEMMA EditType ==
    ASSUME NEW k \in Connection, NEW o \in Answer \cup {Syn, Fin, None}, NEW n \in Nat
    PROVE  /\ [k EXCEPT !.nrtx = 0] \in Connection
           /\ [k EXCEPT !.out = o, !.nrtx = 0] \in Connection
           /\ [k EXCEPT !.out = o, !.snd = n] \in Connection
           /\ [k EXCEPT !.state = "established", !.out = o] \in Connection
           /\ [k EXCEPT !.state = "last_ack", !.out = o, !.nrtx = 0] \in Connection
<1>1. 0 \in 0 .. MaxRtx
  BY ServerAssumption
<1>2. [k EXCEPT !.nrtx = 0] \in Connection
  BY <1>1 DEF Connection
<1>3. [k EXCEPT !.out = o, !.nrtx = 0] \in Connection
  BY <1>1 DEF Connection
<1>4. [k EXCEPT !.out = o, !.snd = n] \in Connection
  BY DEF Connection
<1>5. [k EXCEPT !.state = "established", !.out = o] \in Connection
  BY DEF Connection
<1>6. [k EXCEPT !.state = "last_ack", !.out = o, !.nrtx = 0] \in Connection
  BY <1>1 DEF Connection
<1> QED BY <1>2, <1>3, <1>4, <1>5, <1>6

LEMMA AckedType ==
    ASSUME NEW k \in Connection, NEW n \in Nat
    PROVE  Acked(k, n) \in Connection /\ Acked(k, n).peer = k.peer
<1>1. CASE k.out = Syn
  <2>1. Acked(k, n) = [k EXCEPT !.state = "established", !.out = None]
    BY <1>1, Zenon DEF Acked
  <2>2. [k EXCEPT !.state = "established", !.out = None] \in Connection
    BY EditType, Zenon
  <2> QED BY <2>1, <2>2 DEF Connection
<1>2. CASE k.out # Syn /\ k.out # None /\ n = k.snd + 1
  <2>1. Acked(k, n) = [k EXCEPT !.out = None, !.snd = n]
    BY <1>2, Zenon DEF Acked
  <2>2. [k EXCEPT !.out = None, !.snd = n] \in Connection
    BY EditType, Zenon
  <2> QED BY <2>1, <2>2 DEF Connection
<1>3. CASE k.out # Syn /\ ~(k.out # None /\ n = k.snd + 1)
  BY <1>3 DEF Acked
<1> QED BY <1>1, <1>2, <1>3

LEMMA ToPeerType ==
    ASSUME TypeOK, NEW p \in Peer, NEW f \in PeerFrame, ToPeer(p, f)
    PROVE  toPeer' \in [Peer -> Seq(PeerFrame)]
<1>1. toPeer[p] \in Seq(PeerFrame)
  BY DEF TypeOK
<1>2. Append(toPeer[p], f) \in Seq(PeerFrame)
  BY <1>1
<1> QED BY <1>2 DEF ToPeer, TypeOK

LEMMA FinType ==
    ASSUME TypeOK, NEW p \in Peer
    PROVE  FinFrame(p) \in BoardFrame /\ Len(peer[p].got) \in Nat
<1>1. peer[p].got \in Seq(Answer)
  BY DEF TypeOK
<1>2. Len(peer[p].got) \in Nat
  BY <1>1
<1> QED BY <1>2 DEF FinFrame, BoardFrame

\* A connection of p.
LEMMA ConnOfType ==
    ASSUME TypeOK, NEW p \in Peer, NEW c \in ConnOf(p)
    PROVE  /\ c \in Slot /\ conn[c] \in Connection /\ conn[c].peer = p
           /\ conn[c].state # "closed"
BY DEF ConnOf, TypeOK

-----------------------------------------------------------------------------
(***************************************************************************)
(* Every action keeps the types, with peers that take turns or not.        *)
(***************************************************************************)
LEMMA SendOnType ==
    ASSUME TypeOK, NEW c \in Slot, NEW k \in Connection, k.peer \in Peer, SendOn(c, k)
    PROVE  conn' \in [Slot -> Connection] /\ toPeer' \in [Peer -> Seq(PeerFrame)]
<1>1. CASE new_data_send
  <2>1. response \in Answer
    <3>1. response \in Answer \cup {None}
      BY DEF TypeOK
    <3>2. response # None
      BY <1>1, Zenon DEF TypeOK
    <3> QED BY <3>1, <3>2
  <2>2. [k EXCEPT !.out = response, !.nrtx = 0] \in Connection
    BY <2>1, EditType
  <2>3. Segment(k.snd, response) \in PeerFrame
    <3>1. k.snd \in Nat
      BY DEF Connection
    <3> QED BY <2>1, <3>1, FrameTypes
  <2>4. /\ conn' = [conn EXCEPT ![c] = [k EXCEPT !.out = response, !.nrtx = 0]]
        /\ ToPeer(k.peer, Segment(k.snd, response))
    BY <1>1 DEF SendOn
  <2>5. toPeer' \in [Peer -> Seq(PeerFrame)]
    BY <2>3, <2>4, ToPeerType
  <2> DEFINE e == [k EXCEPT !.out = response, !.nrtx = 0]
  <2>6. conn \in [Slot -> Connection] /\ e \in Connection /\ conn' = [conn EXCEPT ![c] = e]
    BY <2>2, <2>4 DEF TypeOK
  <2> HIDE DEF e
  <2> QED BY <2>5, <2>6
<1>2. CASE ~new_data_send
  <2>1. [k EXCEPT !.nrtx = 0] \in Connection
    BY EditType
  <2> QED BY <1>2, <2>1 DEF SendOn, TypeOK
<1> QED BY <1>1, <1>2

LEMMA ReceiveAckType ==
    ASSUME TypeOK, NEW p \in Peer, NEW n \in Nat, ReceiveAck(p, n)
    PROVE  /\ conn' \in [Slot -> Connection] /\ toPeer' \in [Peer -> Seq(PeerFrame)]
           /\ new_data_send' \in BOOLEAN /\ (new_data_send' => new_data_send)
           /\ UNCHANGED <<rx, response, executed>>
<1>1. PICK c \in ConnOf(p) :
          /\ IF Acked(conn[c], n) = conn[c]
             THEN UNCHANGED <<conn, toPeer, new_data_send>>
             ELSE /\ TakeResponse(TRUE)
                  /\ IF conn[c].state = "last_ack"
                     THEN conn' = [conn EXCEPT ![c] = Closed] /\ UNCHANGED toPeer
                     ELSE SendOn(c, Acked(conn[c], n))
          /\ UNCHANGED <<rx, response, executed>>
  BY DEF ReceiveAck
<1>2. c \in Slot /\ Acked(conn[c], n) \in Connection /\ Acked(conn[c], n).peer = p
  BY ConnOfType, AckedType
<1>3. CASE Acked(conn[c], n) = conn[c]
  BY <1>1, <1>3 DEF TypeOK
<1>4. CASE Acked(conn[c], n) # conn[c] /\ conn[c].state = "last_ack"
  BY <1>1, <1>2, <1>4, ClosedType DEF TypeOK, TakeResponse
<1>5. CASE Acked(conn[c], n) # conn[c] /\ conn[c].state # "last_ack"
  <2>1. SendOn(c, Acked(conn[c], n)) /\ new_data_send' = FALSE
    BY <1>1, <1>5 DEF TakeResponse
  <2> QED BY <1>1, <1>2, <2>1, SendOnType
<1> QED BY <1>3, <1>4, <1>5

LEMMA ReceiveDataType ==
    ASSUME TypeOK, NEW p \in Peer, NEW part \in Ask \X Nat, NEW n \in Nat,
           ReceiveData(p, part, n)
    PROVE  /\ conn' \in [Slot -> Connection] /\ toPeer' \in [Peer -> Seq(PeerFrame)]
           /\ rx' \in Seq(Ask \X Nat) /\ response' \in Answer \cup {None}
           /\ new_data_send' \in BOOLEAN /\ (new_data_send' => response' # None)
           /\ executed' \in Ask \cup {None}
<1> DEFINE s == Append(rx, part)
<1>1. s \in Seq(Ask \X Nat) /\ s[1] \in Ask \X Nat
  BY DEF TypeOK
<1>2. PICK c \in ConnOf(p) :
          /\ SendOn(c, Acked(conn[c], n))
          /\ \E whole \in NewMessage(s) :
                IF whole
                THEN EthernetProcessCMD(s) /\ new_data_send' = TRUE
                ELSE /\ rx' = s
                     /\ TakeResponse(TRUE)
                     /\ UNCHANGED <<response, executed>>
  BY DEF ReceiveData
<1> HIDE DEF s
<1>3. conn' \in [Slot -> Connection] /\ toPeer' \in [Peer -> Seq(PeerFrame)]
  <2>1. c \in Slot /\ Acked(conn[c], n) \in Connection /\ Acked(conn[c], n).peer = p
    <3>1. c \in Slot /\ conn[c] \in Connection /\ conn[c].peer = p
      BY ConnOfType
    <3> QED BY <3>1, AckedType
  <2>2. Acked(conn[c], n).peer \in Peer /\ SendOn(c, Acked(conn[c], n))
    BY <1>2, <2>1
  <2> QED BY <2>1, <2>2, SendOnType
<1>4. CASE EthernetProcessCMD(s) /\ new_data_send' = TRUE
  <2>1. s[1][1] \in Ask
    BY <1>1
  <2>2. response' \in Answer /\ executed' \in Ask \cup {None} /\ rx' = << >>
    BY <1>4, <2>1 DEF EthernetProcessCMD, TypeOK, Answer
  <2>3. None \notin Answer
    BY MarkAssumption
  <2> QED BY <1>3, <1>4, <2>2, <2>3
<1>5. CASE /\ rx' = s
           /\ TakeResponse(TRUE)
           /\ UNCHANGED <<response, executed>>
  BY <1>1, <1>3, <1>5 DEF TakeResponse, TypeOK
<1> QED BY <1>2, <1>4, <1>5

LEMMA ReceiveType ==
    ASSUME TypeOK, NEW p \in Peer, Receive(p)
    PROVE  TypeOK'
<1> DEFINE f == Head(toBoard[p])
<1>1. /\ f \in BoardFrame /\ Tail(toBoard[p]) \in Seq(BoardFrame)
      /\ UNCHANGED <<lossy, peer>>
  BY DEF Receive, TypeOK
<1>2. toBoard' \in [Peer -> Seq(BoardFrame)]
  <2>1. Append(Tail(toBoard[p]), FinFrame(p)) \in Seq(BoardFrame)
    BY <1>1, FinType
  <2>2. \/ toBoard' = [toBoard EXCEPT ![p] = Tail(@)]
        \/ toBoard' = [toBoard EXCEPT ![p] = Append(Tail(@), FinFrame(p))]
    BY DEF Receive
  <2> QED BY <1>1, <2>1, <2>2 DEF TypeOK
<1>3. /\ f.kind \in {"ack", "fin", "data"} => f.ack \in Nat
      /\ f.kind = "data" => f.part \in Ask \X Nat
  BY <1>1, FrameFields
<1>4. \/ f.kind = "syn" /\ ReceiveSyn(p)
      \/ f.kind = "ack" /\ ReceiveAck(p, f.ack)
      \/ f.kind = "data" /\ ReceiveData(p, f.part, f.ack)
      \/ f.kind = "fin" /\ ReceiveFin(p, f.ack)
      \/ f.kind = "fin" /\ ReceiveAck(p, f.ack)
      \/ ReceiveRst(p)
      \/ ReceiveStray(p, f)
  BY DEF Receive, ReceiveEarlyFin
<1> HIDE DEF f
<1>5. CASE ReceiveSyn(p)
  <2>1. PICK c \in Slot : conn' = [conn EXCEPT ![c] = [state |-> "syn_rcvd", peer |-> p,
                                                       out |-> Syn, nrtx |-> 0, snd |-> 0]]
    BY <1>5 DEF ReceiveSyn
  <2>2. conn' \in [Slot -> Connection]
    BY <2>1, ServerAssumption DEF TypeOK, Connection
  <2>3. toPeer' \in [Peer -> Seq(PeerFrame)]
    BY <1>5, FrameTypes, ToPeerType DEF ReceiveSyn
  <2> QED BY <1>1, <1>2, <1>5, <2>2, <2>3 DEF ReceiveSyn, TypeOK
<1>6. CASE f.kind \in {"ack", "fin"} /\ ReceiveAck(p, f.ack)
  <2>1. f.ack \in Nat
    BY <1>3, <1>6
  <2>2. /\ conn' \in [Slot -> Connection] /\ toPeer' \in [Peer -> Seq(PeerFrame)]
        /\ new_data_send' \in BOOLEAN /\ (new_data_send' => new_data_send)
        /\ UNCHANGED <<rx, response, executed>>
    BY <1>6, <2>1, ReceiveAckType
  <2> QED BY <1>1, <1>2, <2>2 DEF TypeOK
<1>7. CASE f.kind = "data" /\ ReceiveData(p, f.part, f.ack)
  <2>1. f.ack \in Nat /\ f.part \in Ask \X Nat
    BY <1>3, <1>7
  <2>2. /\ conn' \in [Slot -> Connection] /\ toPeer' \in [Peer -> Seq(PeerFrame)]
        /\ rx' \in Seq(Ask \X Nat) /\ response' \in Answer \cup {None}
        /\ new_data_send' \in BOOLEAN /\ (new_data_send' => response' # None)
        /\ executed' \in Ask \cup {None}
    BY <1>7, <2>1, ReceiveDataType
  <2> QED BY <1>1, <1>2, <2>2 DEF TypeOK
<1>8. CASE f.kind = "fin" /\ ReceiveFin(p, f.ack)
  <2>1. PICK c \in ConnOf(p) :
            conn' = [conn EXCEPT ![c] = [Acked(conn[c], f.ack) EXCEPT !.state = "last_ack",
                                                                !.out = Fin, !.nrtx = 0]]
    BY <1>8 DEF ReceiveFin
  <2>2. c \in Slot /\ Acked(conn[c], f.ack) \in Connection
    BY <1>3, <1>8, ConnOfType, AckedType
  <2>3. conn' \in [Slot -> Connection]
    <3>1. [Acked(conn[c], f.ack) EXCEPT !.state = "last_ack", !.out = Fin, !.nrtx = 0]
             \in Connection
      BY <2>2, EditType
    <3> QED BY <2>1, <3>1 DEF TypeOK
  <2>4. toPeer' \in [Peer -> Seq(PeerFrame)] /\ new_data_send' = FALSE
    BY <1>8, FrameTypes, ToPeerType DEF ReceiveFin, TakeResponse
  <2> QED BY <1>1, <1>2, <1>8, <2>3, <2>4 DEF ReceiveFin, TypeOK
<1>9. CASE ReceiveRst(p)
  <2>1. conn' \in [Slot -> Connection]
    BY <1>9, ClosedType DEF ReceiveRst, ConnOf, TypeOK
  <2> QED BY <1>1, <1>2, <1>9, <2>1 DEF ReceiveRst, TakeResponse, TypeOK
<1>10. CASE ReceiveStray(p, f)
  <2>1. toPeer' \in [Peer -> Seq(PeerFrame)]
    BY <1>10, FrameTypes, ToPeerType DEF ReceiveStray, TypeOK
  <2> QED BY <1>1, <1>2, <1>10, <2>1 DEF ReceiveStray, boardVars, TypeOK
<1> QED
  BY <1>4, <1>5, <1>6, <1>7, <1>8, <1>9, <1>10

(***************************************************************************)
(* What the periodic timer does, with its local definitions spelled out.   *)
(***************************************************************************)
CalledIn(Expired) == {c \in Slot : \/ Established(c) /\ (c \in Expired \/ ~Outstanding(c))
                                   \/ c \in Expired /\ GivenUp(c)}
TakerIn(Expired) ==
    IF new_data_send /\ CalledIn(Expired) # {} THEN Min(CalledIn(Expired)) ELSE 0
LostIn(Expired) == {c \in Expired : GivenUp(c)}
OutIn(Expired, p) ==
    IF \E c \in LostIn(Expired) : conn[c].peer = p THEN <<Frame("rst")>>
    ELSE IF TakerIn(Expired) # 0 /\ conn[TakerIn(Expired)].peer = p
         THEN <<Segment(conn[TakerIn(Expired)].snd, response)>>
    ELSE << >>

LEMMA PeriodicMeans ==
    ASSUME NEW Expired, Periodic(Expired)
    PROVE  /\ conn' = [c \in Slot |->
                          IF c \in LostIn(Expired) THEN Closed
                          ELSE IF c \in Expired THEN [conn[c] EXCEPT !.nrtx = @ + 1]
                          ELSE IF c = TakerIn(Expired)
                               THEN [conn[c] EXCEPT !.out = response, !.nrtx = 0]
                          ELSE conn[c]]
           /\ toPeer' = [p \in Peer |-> toPeer[p] \o OutIn(Expired, p)]
           /\ new_data_send' = (new_data_send /\ CalledIn(Expired) = {})
           /\ UNCHANGED <<rx, response, executed, lossy, peer, toBoard>>
BY DEF Periodic, CalledIn, TakerIn, LostIn, OutIn, TakeResponse, TimedOut

\* The connection that takes the answer is one of those called.
LEMMA TakerCalled ==
    ASSUME NEW Expired, TakerIn(Expired) # 0
    PROVE  new_data_send /\ TakerIn(Expired) \in CalledIn(Expired)
<1>1. new_data_send /\ CalledIn(Expired) # {} /\ TakerIn(Expired) = Min(CalledIn(Expired))
  BY DEF TakerIn
<1> DEFINE less == {x \in Nat \X Nat : x[1] < x[2]}
<1>2. IsWellFoundedOn(less, Nat)
  BY NatLessThanWellFounded DEF OpToRel
<1> HIDE DEF less
<1>3. CalledIn(Expired) \subseteq Nat
  BY ServerAssumption DEF CalledIn, Slot
<1>4. PICK x \in CalledIn(Expired) : \A y \in CalledIn(Expired) : <<y, x>> \notin less
  BY <1>1, <1>2, <1>3, WFMin
<1>5. \A y \in CalledIn(Expired) : x <= y
  <2>1. ASSUME NEW y \in CalledIn(Expired) PROVE x <= y
    <3>1. x \in Nat /\ y \in Nat
      BY <1>3
    <3>2. <<y, x>> \notin less
      BY <1>4
    <3>3. ~(y < x)
      BY <3>1, <3>2 DEF less
    <3> QED BY <3>1, <3>3
  <2> QED BY <2>1
<1>6. Min(CalledIn(Expired)) \in CalledIn(Expired)
  BY <1>5 DEF Min
<1> QED BY <1>1, <1>6

LEMMA PeriodicType ==
    ASSUME TypeOK, NEW Expired \in SUBSET Expirable, Periodic(Expired)
    PROVE  TypeOK'
<1>1. \A c \in Slot : conn[c] \in Connection
  BY DEF TypeOK
<1>2. TakerIn(Expired) # 0 => response \in Answer /\ TakerIn(Expired) \in Slot
  BY TakerCalled DEF TypeOK, CalledIn
<1>3. conn' \in [Slot -> Connection]
  <2>1. ASSUME NEW c \in Slot
        PROVE  (IF c \in LostIn(Expired) THEN Closed
                ELSE IF c \in Expired THEN [conn[c] EXCEPT !.nrtx = @ + 1]
                ELSE IF c = TakerIn(Expired)
                     THEN [conn[c] EXCEPT !.out = response, !.nrtx = 0]
                ELSE conn[c]) \in Connection
    <3>1. CASE c \in LostIn(Expired)
      BY <3>1, ClosedType
    <3>2. CASE c \notin LostIn(Expired) /\ c \in Expired
      <4>1. conn[c].nrtx # MaxRtx
        BY <3>2 DEF LostIn, GivenUp
      <4>2. conn[c].nrtx + 1 \in 0 .. MaxRtx
        BY <1>1, <4>1, ServerAssumption DEF Connection
      <4>3. [conn[c] EXCEPT !.nrtx = @ + 1] \in Connection
        BY <1>1, <4>2 DEF Connection
      <4> QED BY <3>2, <4>3
    <3>3. CASE c \notin LostIn(Expired) /\ c \notin Expired /\ c = TakerIn(Expired)
      <4>1. c # 0
        BY ServerAssumption DEF Slot
      <4>2. response \in Answer
        <5>1. TakerIn(Expired) # 0
          BY <3>3, <4>1, Zenon
        <5> QED BY <5>1, <1>2, ZenonT(30)
      <4>3. [conn[c] EXCEPT !.out = response, !.nrtx = 0] \in Connection
        BY <1>1, <4>2, EditType
      <4> QED BY <3>3, <4>3
    <3>4. CASE c \notin LostIn(Expired) /\ c \notin Expired /\ c # TakerIn(Expired)
      BY <3>4, <1>1
    <3> QED BY <3>1, <3>2, <3>3, <3>4
  <2>2. conn' = [c \in Slot |->
                    IF c \in LostIn(Expired) THEN Closed
                    ELSE IF c \in Expired THEN [conn[c] EXCEPT !.nrtx = @ + 1]
                    ELSE IF c = TakerIn(Expired)
                         THEN [conn[c] EXCEPT !.out = response, !.nrtx = 0]
                    ELSE conn[c]]
    BY PeriodicMeans
  <2> QED BY <2>1, <2>2
<1>4. toPeer' \in [Peer -> Seq(PeerFrame)]
  <2>1. ASSUME NEW p \in Peer PROVE toPeer[p] \o OutIn(Expired, p) \in Seq(PeerFrame)
    <3>1. OutIn(Expired, p) \in Seq(PeerFrame)
      <4>1. CASE TakerIn(Expired) # 0
        <5>1. conn[TakerIn(Expired)].snd \in Nat
          BY <4>1, <1>1, <1>2 DEF Connection
        <5>2. Segment(conn[TakerIn(Expired)].snd, response) \in PeerFrame
          BY <4>1, <1>2, <5>1, FrameTypes
        <5> QED BY <5>2, FrameTypes DEF OutIn
      <4>2. CASE TakerIn(Expired) = 0
        BY <4>2, FrameTypes DEF OutIn
      <4> QED BY <4>1, <4>2
    <3>2. toPeer[p] \in Seq(PeerFrame)
      BY DEF TypeOK
    <3> QED BY <3>1, <3>2, ConcatProperties
  <2>2. toPeer' = [p \in Peer |-> toPeer[p] \o OutIn(Expired, p)]
    BY PeriodicMeans
  <2> QED BY <2>1, <2>2
<1> QED
  BY <1>3, <1>4, PeriodicMeans DEF TypeOK

LEMMA ToBoardType ==
    ASSUME TypeOK, NEW p \in Peer, NEW f \in BoardFrame, ToBoard(p, f)
    PROVE  toBoard' \in [Peer -> Seq(BoardFrame)]
<1>1. toBoard[p] \in Seq(BoardFrame)
  BY DEF TypeOK
<1>2. Append(toBoard[p], f) \in Seq(BoardFrame)
  BY <1>1
<1> QED BY <1>2 DEF ToBoard, TypeOK

PeerState ==
    [state : {"new", "syn", "open", "closing", "closed"},
     asked : 0 .. MaxAsk, sent : Nat, got : Seq(Answer)]

LEMMA PeerReceiveType ==
    ASSUME TypeOK, NEW p \in Peer, PeerReceive(p)
    PROVE  TypeOK'
<1> DEFINE f == Head(toPeer[p])
<1>1. /\ f \in PeerFrame /\ toPeer' \in [Peer -> Seq(PeerFrame)]
      /\ UNCHANGED <<boardVars, lossy>>
  BY DEF PeerReceive, TypeOK
<1>2. /\ peer \in [Peer -> PeerState] /\ peer[p].got \in Seq(Answer)
      /\ Len(peer[p].got) \in Nat
  BY DEF TypeOK, PeerState
<1>3. \/ /\ f.kind = "synack" /\ peer[p].state = "syn"
         /\ peer' = [peer EXCEPT ![p].state = "open"]
         /\ ToBoard(p, Ack(0))
      \/ /\ f.kind = "segment"
         /\ peer' = [peer EXCEPT ![p].got = Append(@, f.answer)] \/ peer' = peer
         /\ ToBoard(p, Ack(Len(peer'[p].got)))
      \/ /\ peer' = [peer EXCEPT ![p].state = "closed"]
         /\ ToBoard(p, Ack(Len(peer[p].got) + 1)) \/ UNCHANGED toBoard
  BY DEF PeerReceive
<1> HIDE DEF f
<1>4. CASE /\ f.kind = "synack" /\ peer[p].state = "syn"
           /\ peer' = [peer EXCEPT ![p].state = "open"]
           /\ ToBoard(p, Ack(0))
  <2>1. peer' \in [Peer -> PeerState]
    BY <1>2, <1>4 DEF PeerState
  <2>2. toBoard' \in [Peer -> Seq(BoardFrame)]
    BY <1>4, FrameTypes, ToBoardType
  <2> QED BY <1>1, <2>1, <2>2 DEF TypeOK, boardVars, PeerState
<1>5. CASE /\ f.kind = "segment"
           /\ peer' = [peer EXCEPT ![p].got = Append(@, f.answer)] \/ peer' = peer
           /\ ToBoard(p, Ack(Len(peer'[p].got)))
  <2>1. f.answer \in Answer
    BY <1>1, <1>5, FrameFields
  <2>2. Append(peer[p].got, f.answer) \in Seq(Answer)
    BY <1>2, <2>1
  <2>3. peer' \in [Peer -> PeerState]
    BY <1>2, <1>5, <2>2 DEF PeerState
  <2>4. peer'[p].got \in Seq(Answer)
    BY <2>3 DEF PeerState
  <2>5. Ack(Len(peer'[p].got)) \in BoardFrame
    BY <2>4, FrameTypes
  <2>6. toBoard' \in [Peer -> Seq(BoardFrame)]
    BY <1>5, <2>5, ToBoardType
  <2> QED BY <1>1, <2>3, <2>6 DEF TypeOK, boardVars, PeerState
<1>6. CASE /\ peer' = [peer EXCEPT ![p].state = "closed"]
           /\ ToBoard(p, Ack(Len(peer[p].got) + 1)) \/ UNCHANGED toBoard
  <2>1. peer' \in [Peer -> PeerState]
    BY <1>2, <1>6 DEF PeerState
  <2>2. Ack(Len(peer[p].got) + 1) \in BoardFrame
    BY <1>2, FrameTypes
  <2>3. toBoard' \in [Peer -> Seq(BoardFrame)]
    BY <1>6, <2>2, ToBoardType DEF TypeOK
  <2> QED BY <1>1, <2>1, <2>3 DEF TypeOK, boardVars, PeerState
<1> QED BY <1>3, <1>4, <1>5, <1>6

LEMMA RemoteType ==
    ASSUME TypeOK, NEW p \in Peer, Remote(p)
    PROVE  TypeOK'
<1>1. peer \in [Peer -> PeerState] /\ Len(peer[p].got) \in Nat /\ MaxAsk \in Nat
  BY FinType, ServerAssumption DEF TypeOK, PeerState
<1>2. CASE Connect(p)
  <2>1. peer' \in [Peer -> PeerState]
    BY <1>1, <1>2 DEF Connect, PeerState
  <2>2. toBoard' \in [Peer -> Seq(BoardFrame)]
    BY <1>2, FrameTypes, ToBoardType DEF Connect
  <2> QED BY <1>2, <2>1, <2>2 DEF Connect, TypeOK, boardVars, PeerState
<1>3. CASE AskNext(p)
  <2>1. peer' = [peer EXCEPT ![p].asked = @ + 1, ![p].sent = 0] /\ peer[p].asked < MaxAsk
    BY <1>3 DEF AskNext
  <2>2. peer[p].asked + 1 \in 0 .. MaxAsk
    BY <1>1, <2>1 DEF PeerState
  <2>3. [peer[p] EXCEPT !.asked = @ + 1, !.sent = 0] \in PeerState
    BY <1>1, <2>2 DEF PeerState
  <2>4. peer' = [peer EXCEPT ![p] = [peer[p] EXCEPT !.asked = @ + 1, !.sent = 0]]
    BY <1>1, <2>1 DEF PeerState
  <2>5. peer' \in [Peer -> PeerState]
    BY <1>1, <2>3, <2>4
  <2> QED BY <1>3, <2>5 DEF AskNext, TypeOK, PeerState
<1>4. CASE SendPart(p)
  <2>1. peer' \in [Peer -> PeerState]
    <3>1. peer[p] \in PeerState /\ peer[p].sent + 1 \in Nat
      BY <1>1 DEF PeerState
    <3>2. [peer[p] EXCEPT !.sent = @ + 1] \in PeerState
      BY <3>1 DEF PeerState
    <3>3. peer' = [peer EXCEPT ![p] = [peer[p] EXCEPT !.sent = @ + 1]]
      BY <1>1, <1>4 DEF SendPart
    <3> QED BY <1>1, <3>2, <3>3
  <2>2. peer[p].asked \in 1 .. MaxAsk /\ peer[p].sent + 1 \in Nat
    BY <1>1, <1>4 DEF SendPart, Waiting, PeerState
  <2>3. << <<p, peer[p].asked>>, peer[p].sent + 1>> \in Ask \X Nat
    BY <2>2 DEF Ask
  <2>4. toBoard' \in [Peer -> Seq(BoardFrame)]
    BY <1>1, <1>4, <2>3, FrameTypes, ToBoardType DEF SendPart
  <2> QED BY <1>4, <2>1, <2>4 DEF SendPart, TypeOK, boardVars, PeerState
<1>5. CASE Close(p)
  <2>1. peer' \in [Peer -> PeerState]
    BY <1>1, <1>5 DEF Close, PeerState
  <2>2. toBoard' \in [Peer -> Seq(BoardFrame)]
    BY <1>5, FinType, ToBoardType DEF Close
  <2> QED BY <1>5, <2>1, <2>2 DEF Close, TypeOK, boardVars, PeerState
<1>6. CASE Abort(p)
  <2>1. peer' \in [Peer -> PeerState]
    BY <1>1, <1>6 DEF Abort, PeerState
  <2>2. toBoard' \in [Peer -> Seq(BoardFrame)]
    BY <1>6, FrameTypes, ToBoardType DEF Abort
  <2> QED BY <1>6, <2>1, <2>2 DEF Abort, TypeOK, boardVars, PeerState
<1>7. CASE PeerReceive(p)
  BY <1>7, PeerReceiveType
<1> QED
  BY <1>2, <1>3, <1>4, <1>5, <1>6, <1>7 DEF Remote

LEMMA LossType ==
    ASSUME TypeOK, NEW p \in Peer, Loss(p)
    PROVE  TypeOK'
<1>1. CASE LoseToPeer(p)
  <2>1. Tail(toPeer[p]) \in Seq(PeerFrame)
    BY <1>1 DEF LoseToPeer, TypeOK
  <2> QED BY <1>1, <2>1 DEF LoseToPeer, TypeOK, boardVars
<1>2. CASE LoseToBoard(p)
  <2>1. Tail(toBoard[p]) \in Seq(BoardFrame)
    BY <1>2 DEF LoseToBoard, TypeOK
  <2> QED BY <1>2, <2>1 DEF LoseToBoard, TypeOK, boardVars
<1> QED BY <1>1, <1>2 DEF Loss

LEMMA NextType == TypeOK /\ [Next]_vars => TypeOK'
<1> SUFFICES ASSUME TypeOK, [Next]_vars PROVE TypeOK'
  OBVIOUS
<1>1. CASE Tick
  BY <1>1, PeriodicType DEF Tick
<1>2. CASE \E p \in Peer : Receive(p) \/ Remote(p) \/ Loss(p)
  BY <1>2, ReceiveType, RemoteType, LossType
<1>3. CASE UNCHANGED vars
  BY <1>3 DEF vars, boardVars, TypeOK
<1> QED BY <1>1, <1>2, <1>3 DEF Next

LEMMA InitType == Init => TypeOK
<1> SUFFICES ASSUME Init PROVE TypeOK
  OBVIOUS
<1>1. conn \in [Slot -> Connection] /\ lossy \in Networks
  BY ClosedType DEF Init
<1>2. peer \in [Peer -> [state : {"new", "syn", "open", "closing", "closed"},
                        asked : 0 .. MaxAsk, sent : Nat, got : Seq(Answer)]]
  BY ServerAssumption DEF Init
<1>3. toBoard \in [Peer -> Seq(BoardFrame)] /\ toPeer \in [Peer -> Seq(PeerFrame)]
  BY DEF Init
<1>4. rx \in Seq(Ask \X Nat)
  BY DEF Init
<1>5. response = None /\ new_data_send = FALSE /\ executed = None
  BY DEF Init
<1> QED BY <1>1, <1>2, <1>3, <1>4, <1>5 DEF TypeOK

(***************************************************************************)
(* The table of connections, the shared buffer, the peers and the frames   *)
(* in flight keep their types whatever the peers do: no count of           *)
(* retransmissions passes UIP_MAXRTX, and what the application answers     *)
(* with is never an answer it has not been given.                          *)
(***************************************************************************)
THEOREM EthernetTypeCorrect == Spec => []TypeOK
BY InitType, NextType, PTL DEF Spec

-----------------------------------------------------------------------------
(***************************************************************************)
(* A step of the peer p, or of the board with a frame of p, leaves alone   *)
(* what the other peers have.                                              *)
(***************************************************************************)
Only(p) ==
    /\ lossy' = lossy
    /\ \A q \in Peer \ {p} :
          peer'[q] = peer[q] /\ toBoard'[q] = toBoard[q] /\ toPeer'[q] = toPeer[q]

LEMMA OthersKept ==
    ASSUME NEW p \in Peer, Others(p), Only(p) PROVE Others(p)'
BY DEF Others, Only, Resting, Fresh, Orphan

LEMMA RemoteOnly ==
    ASSUME TypeOK, NEW p \in Peer, Remote(p) \/ Loss(p) PROVE Only(p)
<1>1. CASE Connect(p) \/ SendPart(p) \/ Close(p) \/ Abort(p) \/ AskNext(p)
  BY <1>1 DEF Connect, SendPart, Close, Abort, AskNext, ToBoard, Only, TypeOK, boardVars
<1>2. CASE PeerReceive(p)
  BY <1>2 DEF PeerReceive, ToBoard, Only, TypeOK, boardVars
<1>3. CASE Loss(p)
  BY <1>3 DEF Loss, LoseToPeer, LoseToBoard, Only, TypeOK, boardVars
<1> QED BY <1>1, <1>2, <1>3 DEF Remote

\* The board with the answer that waits, or with none.
LEMMA SendOnOnly ==
    ASSUME TypeOK, NEW p \in Peer, NEW c \in Slot, NEW k, k.peer = p, SendOn(c, k)
    PROVE  \A q \in Peer \ {p} : toPeer'[q] = toPeer[q]
BY DEF SendOn, ToPeer, TypeOK

LEMMA ReceiveOnly ==
    ASSUME TypeOK, NEW p \in Peer, Receive(p) PROVE Only(p)
<1>1. /\ UNCHANGED <<lossy, peer>>
      /\ \A q \in Peer \ {p} : toBoard'[q] = toBoard[q]
  BY DEF Receive, TypeOK
<1>2. \A q \in Peer \ {p} : toPeer'[q] = toPeer[q]
  <2> DEFINE f == Head(toBoard[p])
  <2>1. f \in BoardFrame /\ (f.kind \in {"ack", "fin", "data"} => f.ack \in Nat)
    BY FrameFields DEF Receive, TypeOK
  <2>2. \/ ReceiveSyn(p) \/ ReceiveRst(p) \/ ReceiveStray(p, f) \/ ReceiveFin(p, f.ack)
        \/ f.kind \in {"ack", "fin"} /\ ReceiveAck(p, f.ack)
        \/ f.kind = "data" /\ ReceiveData(p, f.part, f.ack)
    BY DEF Receive, ReceiveEarlyFin
  <2> HIDE DEF f
  <2>3. CASE ReceiveSyn(p) \/ ReceiveRst(p) \/ ReceiveStray(p, f) \/ ReceiveFin(p, f.ack)
    BY <2>3 DEF ReceiveSyn, ReceiveRst, ReceiveStray, ReceiveFin, ToPeer, TypeOK
  <2>4. CASE f.kind \in {"ack", "fin"} /\ ReceiveAck(p, f.ack)
    <3>1. PICK c \in ConnOf(p) :
              UNCHANGED toPeer \/ SendOn(c, Acked(conn[c], f.ack))
      BY <2>4 DEF ReceiveAck
    <3>2. c \in Slot /\ Acked(conn[c], f.ack).peer = p
      BY <2>1, <2>4, ConnOfType, AckedType
    <3> QED BY <3>1, <3>2, SendOnOnly
  <2>5. CASE f.kind = "data" /\ ReceiveData(p, f.part, f.ack)
    <3>1. PICK c \in ConnOf(p) : SendOn(c, Acked(conn[c], f.ack))
      BY <2>5 DEF ReceiveData
    <3>2. c \in Slot /\ Acked(conn[c], f.ack).peer = p
      BY <2>1, <2>5, ConnOfType, AckedType
    <3> QED BY <3>1, <3>2, SendOnOnly
  <2> QED BY <2>2, <2>3, <2>4, <2>5
<1> QED BY <1>1, <1>2 DEF Only

-----------------------------------------------------------------------------
(***************************************************************************)
(* A peer without a connection goes on resting, does not change anything   *)
(* of the board, and is given no answer.                                   *)
(***************************************************************************)
LEMMA RestingReceive ==
    ASSUME TypeOK, NEW q \in Peer, Resting(q), ConnOf(q) = {}, Receive(q)
    PROVE  Resting(q)' /\ UNCHANGED <<boardVars, lossy, peer>>
<1> DEFINE f == Head(toBoard[q])
<1>1. /\ toBoard[q] \in Seq(BoardFrame) /\ toBoard[q] # << >>
      /\ toPeer[q] \in Seq(PeerFrame) /\ UNCHANGED <<lossy, peer>>
  BY DEF Receive, TypeOK
<1>2. Orphan(q) /\ f.kind # "syn"
  BY <1>1 DEF Resting, Fresh, Orphan
<1>3. ReceiveStray(q, f) /\ toBoard' = [toBoard EXCEPT ![q] = Tail(@)]
  BY <1>2 DEF Receive, ReceiveAck, ReceiveData, ReceiveFin, ReceiveEarlyFin, ReceiveRst
<1>4. \A i \in DOMAIN toBoard'[q] : toBoard'[q][i].kind # "syn"
  <2>1. toBoard'[q] = Tail(toBoard[q])
    BY <1>3 DEF TypeOK
  <2>2. \A i \in 1 .. Len(Tail(toBoard[q])) :
           /\ Tail(toBoard[q])[i] = toBoard[q][i + 1] /\ i + 1 \in DOMAIN toBoard[q]
    BY <1>1
  <2>3. DOMAIN Tail(toBoard[q]) = 1 .. Len(Tail(toBoard[q]))
    BY <1>1
  <2> QED BY <1>2, <2>1, <2>2, <2>3 DEF Orphan
<1>5. \A i \in DOMAIN toPeer'[q] : toPeer'[q][i].kind # "segment"
  <2>1. CASE UNCHANGED toPeer
    BY <1>2, <2>1 DEF Orphan
  <2>2. CASE ToPeer(q, Frame("rst"))
    <3>1. toPeer'[q] = Append(toPeer[q], Frame("rst"))
      BY <2>2 DEF ToPeer, TypeOK
    <3>2. Frame("rst") \in PeerFrame /\ Frame("rst").kind = "rst"
      BY DEF Frame, PeerFrame
    <3>3. ASSUME NEW i \in DOMAIN toPeer'[q]
          PROVE  \/ i \in DOMAIN toPeer[q] /\ toPeer'[q][i] = toPeer[q][i]
                 \/ toPeer'[q][i] = Frame("rst")
      BY <1>1, <3>1, <3>2
    <3> QED BY <1>2, <3>2, <3>3 DEF Orphan
  <2> QED BY <1>3, <2>1, <2>2 DEF ReceiveStray
<1>6. Orphan(q)'
  BY <1>1, <1>2, <1>4, <1>5 DEF Orphan
<1> QED BY <1>1, <1>3, <1>6 DEF ReceiveStray, Resting

\* A frame behind a queue without a SYN, or none in front of it.
LEMMA NoSyn ==
    ASSUME NEW t \in Seq(BoardFrame), \A i \in DOMAIN t : t[i].kind # "syn"
    PROVE  /\ \A f \in BoardFrame : f.kind # "syn" =>
                 \A i \in DOMAIN Append(t, f) : Append(t, f)[i].kind # "syn"
           /\ t # << >> => \A i \in DOMAIN Tail(t) : Tail(t)[i].kind # "syn"
<1>1. ASSUME NEW f \in BoardFrame, f.kind # "syn", NEW i \in DOMAIN Append(t, f)
      PROVE  Append(t, f)[i].kind # "syn"
  BY <1>1
<1>2. ASSUME t # << >>, NEW i \in DOMAIN Tail(t)
      PROVE  Tail(t)[i].kind # "syn"
  <2>1. Tail(t)[i] = t[i + 1] /\ i + 1 \in DOMAIN t
    BY <1>2
  <2> QED BY <2>1
<1> QED BY <1>1, <1>2

LEMMA RestingRemote ==
    ASSUME TypeOK, NEW q \in Peer, Resting(q), ConnOf(q) = {}, lossy => executed = None,
           (Remote(q) /\ ~Connect(q)) \/ Loss(q)
    PROVE  /\ Resting(q)' /\ UNCHANGED <<boardVars, lossy>> /\ peer'[q].got = peer[q].got
           /\ lossy \/ peer'[q].asked = peer[q].asked
<1>1. /\ toBoard[q] \in Seq(BoardFrame) /\ toPeer[q] \in Seq(PeerFrame)
      /\ peer[q].got \in Seq(Answer) /\ Len(peer[q].got) \in Nat
  BY FinType DEF TypeOK
<1>2. Orphan(q)
  BY DEF Resting, Fresh, Remote, AskNext, SendPart, Close, Abort, PeerReceive, Loss,
         LoseToPeer, LoseToBoard
<1>3. \A i \in DOMAIN toBoard[q] : toBoard[q][i].kind # "syn"
  BY <1>2 DEF Orphan
<1>4. CASE AskNext(q)
  <2>1. lossy /\ executed' = executed
    BY <1>2, <1>4 DEF AskNext, Orphan
  <2>2. peer'[q].state = "open" /\ peer'[q].got = peer[q].got
    BY <1>4 DEF AskNext, TypeOK
  <2> QED BY <1>2, <1>4, <2>1, <2>2 DEF AskNext, Resting, Orphan, boardVars
<1>5. CASE SendPart(q) \/ Close(q) \/ Abort(q)
  <2>1. lossy /\ UNCHANGED <<boardVars, lossy, toPeer>>
    BY <1>2, <1>5 DEF SendPart, Close, Abort, Orphan
  <2>2. peer'[q].state \in {"open", "closing", "closed"} /\ peer'[q].got = peer[q].got
    BY <1>5 DEF SendPart, Close, Abort, TypeOK
  <2>3. PICK f \in BoardFrame : f.kind # "syn" /\ toBoard'[q] = Append(toBoard[q], f)
    <3>1. CASE SendPart(q)
      <4> DEFINE f == Data(<< <<q, peer[q].asked>>, peer[q].sent + 1>>, Len(peer[q].got))
      <4>1. toBoard'[q] = Append(toBoard[q], f)
        BY <3>1 DEF SendPart, ToBoard, TypeOK
      <4>2. f \in BoardFrame
        <5>1. peer[q].asked \in 0 .. MaxAsk /\ peer[q].asked > Len(peer[q].got)
              /\ peer[q].sent + 1 \in Nat
          BY <3>1 DEF SendPart, Waiting, TypeOK
        <5>2. << <<q, peer[q].asked>>, peer[q].sent + 1>> \in Ask \X Nat
          BY <1>1, <5>1, ServerAssumption DEF Ask
        <5> QED BY <1>1, <5>2, FrameTypes
      <4>3. f.kind = "data"
        BY DEF Data
      <4> QED BY <4>1, <4>2, <4>3
    <3>2. CASE Close(q)
      <4>1. toBoard'[q] = Append(toBoard[q], FinFrame(q)) /\ FinFrame(q).kind = "fin"
        BY <3>2 DEF Close, ToBoard, FinFrame, TypeOK
      <4> QED BY <4>1, FinType
    <3>3. CASE Abort(q)
      <4>1. toBoard'[q] = Append(toBoard[q], Frame("rst")) /\ Frame("rst").kind = "rst"
        BY <3>3 DEF Abort, ToBoard, Frame, TypeOK
      <4> QED BY <4>1, FrameTypes
    <3> QED BY <1>5, <3>1, <3>2, <3>3
  <2>4. \A i \in DOMAIN toBoard'[q] : toBoard'[q][i].kind # "syn"
    BY <1>1, <1>3, <2>3, NoSyn
  <2> QED BY <1>2, <2>1, <2>2, <2>4 DEF Resting, Orphan
<1>6. CASE PeerReceive(q)
  <2> DEFINE f == Head(toPeer[q])
  <2>1. toPeer[q] # << >> /\ f = toPeer[q][1] /\ 1 \in DOMAIN toPeer[q]
    BY <1>1, <1>6 DEF PeerReceive
  <2>2. f.kind # "segment"
    BY <1>2, <2>1 DEF Orphan
  <2>3. /\ peer' = [peer EXCEPT ![q].state = "closed"]
        /\ ToBoard(q, Ack(Len(peer[q].got) + 1)) \/ UNCHANGED toBoard
        /\ toPeer' = [toPeer EXCEPT ![q] = Tail(@)] /\ UNCHANGED <<boardVars, lossy>>
    BY <1>2, <1>6, <2>2 DEF PeerReceive, Orphan
  <2>4. \A i \in DOMAIN toBoard'[q] : toBoard'[q][i].kind # "syn"
    <3>1. Ack(Len(peer[q].got) + 1) \in BoardFrame /\ Ack(Len(peer[q].got) + 1).kind = "ack"
      BY <1>1, FrameTypes DEF Ack
    <3>2. toBoard'[q] = Append(toBoard[q], Ack(Len(peer[q].got) + 1)) \/ UNCHANGED toBoard
      BY <2>3 DEF ToBoard, TypeOK
    <3> QED BY <1>1, <1>3, <3>1, <3>2, NoSyn
  <2>5. \A i \in DOMAIN toPeer'[q] : toPeer'[q][i].kind # "segment"
    <3>1. toPeer'[q] = Tail(toPeer[q])
      BY <2>3 DEF TypeOK
    <3>2. \A i \in DOMAIN Tail(toPeer[q]) :
             Tail(toPeer[q])[i] = toPeer[q][i + 1] /\ i + 1 \in DOMAIN toPeer[q]
      BY <1>1, <2>1
    <3> QED BY <1>2, <3>1, <3>2 DEF Orphan
  <2>6. /\ peer'[q].state = "closed" /\ peer'[q].got = peer[q].got
        /\ peer'[q].asked = peer[q].asked
    BY <2>3 DEF TypeOK
  <2> QED BY <1>2, <2>3, <2>4, <2>5, <2>6 DEF Resting, Orphan
<1>7. CASE LoseToPeer(q)
  <2>1. Head(toPeer[q]) = toPeer[q][1] /\ 1 \in DOMAIN toPeer[q]
    BY <1>1, <1>7 DEF LoseToPeer
  <2> QED BY <1>2, <1>7, <2>1 DEF LoseToPeer, Orphan
<1>8. CASE LoseToBoard(q)
  <2>1. toBoard'[q] = Tail(toBoard[q]) /\ toBoard[q] # << >>
        /\ UNCHANGED <<boardVars, lossy, peer, toPeer>>
    BY <1>8 DEF LoseToBoard, TypeOK
  <2>2. \A i \in DOMAIN toBoard'[q] : toBoard'[q][i].kind # "syn"
    BY <1>1, <1>3, <2>1, NoSyn
  <2> QED BY <1>2, <2>1, <2>2 DEF Resting, Orphan
<1> QED
  BY <1>4, <1>5, <1>6, <1>7, <1>8 DEF Remote, Loss

-----------------------------------------------------------------------------
(***************************************************************************)
(* While p talks at connection c, no other connection is used.             *)
(***************************************************************************)
LEMMA Alone ==
    ASSUME TypeOK, NEW p \in Peer, NEW c \in Slot, Talk(p, c)
    PROVE  /\ ConnOf(p) = {c} /\ conn[c].state # "closed" /\ conn[c] \in Connection
           /\ \A q \in Peer \ {p} : ConnOf(q) = {}
           /\ Got(p) \in Nat /\ Got(p) <= MaxAsk
           /\ \A d \in Slot \ {c} : conn[d] = Closed
           /\ peer[p].asked \in 0 .. MaxAsk
<1>1. conn[c].state # "closed"
  BY DEF Talk, Stage, Opening, Idle, Asking, Executed, Answered, Leaving, Dropping, Parting,
         Whole, Telling, Settled, Owing
<1>2. \A d \in Slot \ {c} : conn[d] = Closed /\ conn[d].state = "closed"
  BY DEF Talk, Closed
<1>3. conn[c].peer = p /\ conn[c] \in Connection
  BY DEF Talk, TypeOK
<1>4. ConnOf(p) = {c} /\ \A q \in Peer \ {p} : ConnOf(q) = {}
  BY <1>1, <1>2, <1>3 DEF ConnOf
<1>5. Got(p) \in Nat /\ peer[p].asked \in 0 .. MaxAsk
  BY FinType DEF Got, TypeOK
<1>6. peer[p].asked \in {Got(p), Got(p) + 1}
  BY DEF Talk, Stage, Opening, Idle, Asking, Executed, Answered, Leaving, Dropping, Parting,
         Whole
<1>7. Got(p) <= MaxAsk
  BY <1>5, <1>6, ServerAssumption
<1> QED BY <1>1, <1>2, <1>3, <1>4, <1>5, <1>7

\* The acknowledgement of the last answer settles the connection, whether it
\* is the first one or not.
LEMMA Settling ==
    ASSUME NEW k \in Connection, NEW p \in Peer, NEW g \in Nat, g <= MaxAsk,
           Settled(k, g) \/ Owing(p, k, g)
    PROVE  /\ Settled(Acked(k, g), g)
           /\ Settled([Acked(k, g) EXCEPT !.nrtx = 0], g)
           /\ [Acked(k, g) EXCEPT !.nrtx = 0].peer = k.peer
           /\ Owing(p, k, g) => Acked(k, g) # k
           /\ Settled(k, g) => Acked(k, g) = k
<1>1. CASE Settled(k, g)
  <2>1. None # Syn
    BY MarkAssumption
  <2>2. Acked(k, g) = k
    BY <1>1, <2>1 DEF Settled, Acked
  <2>3. ~Owing(p, k, g)
    BY <1>1, <2>1, ServerAssumption, MarkAssumption DEF Settled, Owing, Ask, Answer
  <2> QED BY <1>1, <2>2, <2>3 DEF Settled, Connection
<1>2. CASE Owing(p, k, g) /\ g = 0
  <2>1. Acked(k, g) = [k EXCEPT !.state = "established", !.out = None]
    BY <1>2 DEF Owing, Acked
  <2>2. /\ Acked(k, g).state = "established" /\ Acked(k, g).out = None
        /\ Acked(k, g).snd = 0 /\ k.state = "syn_rcvd"
    BY <1>2, <2>1 DEF Owing, Connection
  <2>3. Acked(k, g) \in Connection /\ Acked(k, g).peer = k.peer
    BY AckedType
  <2> QED BY <1>2, <2>2, <2>3 DEF Settled, Connection
<1>3. CASE Owing(p, k, g) /\ g # 0
  <2>1. k.state = "established" /\ k.out = <<p, g>> /\ k.snd = g - 1
    BY <1>3 DEF Owing
  <2>2. <<p, g>> \in Answer
    BY <1>3, ServerAssumption DEF Ask, Answer
  <2>3. k.out # Syn /\ k.out # None
    BY <2>1, <2>2, MarkAssumption
  <2>4. Acked(k, g) = [k EXCEPT !.out = None, !.snd = g]
    BY <2>1, <2>3 DEF Acked
  <2>5. /\ Acked(k, g).state = "established" /\ Acked(k, g).out = None
        /\ Acked(k, g).snd = g
    BY <2>1, <2>4 DEF Connection
  <2>6. Acked(k, g) \in Connection /\ Acked(k, g).peer = k.peer
    BY AckedType
  <2> QED BY <2>3, <2>5, <2>6 DEF Settled, Connection
<1> QED BY <1>1, <1>2, <1>3

\* With no answer that waits, SendOn only records the acknowledgement.
LEMMA QuietSendOn ==
    ASSUME TypeOK, NEW c \in Slot, NEW k, ~new_data_send, SendOn(c, k)
    PROVE  /\ conn'[c] = [k EXCEPT !.nrtx = 0]
           /\ \A d \in Slot \ {c} : conn'[d] = conn[d]
           /\ UNCHANGED toPeer
BY DEF SendOn, TypeOK

LEMMA AckSettles ==
    ASSUME TypeOK, NEW p \in Peer, NEW c \in Slot, NEW g \in Nat, g <= MaxAsk,
           ConnOf(p) = {c}, Settled(conn[c], g) \/ Owing(p, conn[c], g), ~new_data_send,
           ReceiveAck(p, g)
    PROVE  /\ Settled(conn'[c], g) /\ conn'[c].peer = p
           /\ \A d \in Slot \ {c} : conn'[d] = conn[d]
           /\ ~new_data_send' /\ UNCHANGED <<toPeer, rx, response, executed>>
<1> DEFINE k == Acked(conn[c], g)
<1>1. /\ IF k = conn[c]
         THEN UNCHANGED <<conn, toPeer, new_data_send>>
         ELSE /\ TakeResponse(TRUE)
              /\ IF conn[c].state = "last_ack"
                 THEN conn' = [conn EXCEPT ![c] = Closed] /\ UNCHANGED toPeer
                 ELSE SendOn(c, k)
      /\ UNCHANGED <<rx, response, executed>>
  BY DEF ReceiveAck
<1>2. conn[c] \in Connection /\ conn[c].peer = p /\ conn[c].state # "last_ack"
  BY ConnOfType DEF Settled, Owing
<1>3. CASE k = conn[c]
  <2>1. Settled(conn[c], g)
    BY <1>2, <1>3, Settling
  <2> QED BY <1>1, <1>2, <1>3, <2>1
<1>4. CASE k # conn[c]
  <2>1. SendOn(c, k) /\ ~new_data_send'
    BY <1>1, <1>2, <1>4 DEF TakeResponse
  <2>2. /\ conn'[c] = [k EXCEPT !.nrtx = 0]
        /\ \A d \in Slot \ {c} : conn'[d] = conn[d]
        /\ UNCHANGED toPeer
    BY <2>1, QuietSendOn
  <2>3. Settled([k EXCEPT !.nrtx = 0], g) /\ [k EXCEPT !.nrtx = 0].peer = conn[c].peer
    BY <1>2, Settling
  <2> QED BY <1>1, <1>2, <2>1, <2>2, <2>3
<1> QED BY <1>3, <1>4

(***************************************************************************)
(* What p says: the first of the frames, one frame more, and one frame     *)
(* less when an acknowledgement is lost.                                   *)
(***************************************************************************)
LEMMA Heard ==
    ASSUME NEW p \in Peer, NEW c \in Slot, Got(p) \in Nat, NEW rest \in Seq(BoardFrame),
           Telling(p, c, rest), toBoard[p] # << >>
    PROVE  /\ Settled(conn[c], Got(p)) \/ Owing(p, conn[c], Got(p))
           /\ \/ Head(toBoard[p]) = Ack(Got(p)) /\ Tail(toBoard[p]) = rest
              \/ toBoard[p] = rest /\ rest # << >>
<1>1. Ack(Got(p)) \in BoardFrame
  BY FrameTypes
<1>2. /\ Head(<<Ack(Got(p))>> \o rest) = Ack(Got(p))
      /\ Tail(<<Ack(Got(p))>> \o rest) = rest
  BY <1>1, Front
<1> QED BY <1>2 DEF Telling

LEMMA Said ==
    ASSUME NEW p \in Peer, NEW c \in Slot, Got(p) \in Nat, NEW rest \in Seq(BoardFrame),
           Telling(p, c, rest), NEW f \in BoardFrame,
           toBoard'[p] = Append(toBoard[p], f), conn'[c] = conn[c], Got(p)' = Got(p)
    PROVE  Telling(p, c, Append(rest, f))'
<1>1. Ack(Got(p)) \in BoardFrame
  BY FrameTypes
<1>2. Append(<<Ack(Got(p))>> \o rest, f) = <<Ack(Got(p))>> \o Append(rest, f)
  BY <1>1, Behind
<1>3. Append(rest, f) # << >>
  BY AppendProperties
<1> QED BY <1>2, <1>3 DEF Telling

LEMMA Unheard ==
    ASSUME NEW p \in Peer, NEW c \in Slot, Got(p) \in Nat, NEW rest \in Seq(BoardFrame),
           Telling(p, c, rest), toBoard[p] # << >>, lossy, Head(toBoard[p]).kind = "ack",
           rest # << >> => Head(rest).kind # "ack",
           toBoard'[p] = Tail(toBoard[p]), conn'[c] = conn[c], Got(p)' = Got(p),
           lossy' = lossy
    PROVE  Telling(p, c, rest)'
<1>1. Ack(Got(p)) \in BoardFrame
  BY FrameTypes
<1>2. Tail(<<Ack(Got(p))>> \o rest) = rest
  BY <1>1, Front
<1> QED BY <1>2 DEF Telling

-----------------------------------------------------------------------------
(***************************************************************************)
(* A conversation goes on over c, or it ends.                              *)
(***************************************************************************)
Goes(p, c) ==
    /\ \A d \in Slot \ {c} : conn'[d] = conn[d]
    /\ conn'[c].peer = p /\ Stage(p, c)'

Ends(p, c) ==
    /\ \A d \in Slot \ {c} : conn'[d] = conn[d]
    /\ conn'[c] = Closed /\ Free' /\ Orphan(p)'

LEMMA TalkOrQuiet ==
    ASSUME NEW p \in Peer, NEW c \in Slot, Talk(p, c), Only(p), Goes(p, c) \/ Ends(p, c)
    PROVE  Talk(p, c)' \/ Quiet'
<1>1. Others(p)'
  BY OthersKept DEF Talk
<1>2. CASE Goes(p, c)
  BY <1>1, <1>2 DEF Goes, Talk
<1>3. CASE Ends(p, c)
  <2>1. \A d \in Slot : conn'[d] = Closed
    BY <1>3 DEF Ends, Talk
  <2>2. \A q \in Peer : Resting(q)'
    BY <1>1, <1>3 DEF Ends, Others, Resting
  <2> QED BY <1>3, <2>1, <2>2 DEF Ends, Quiet, Silence
<1> QED BY <1>2, <1>3

(***************************************************************************)
(* A frame of the talking peer, in the controller.                         *)
(***************************************************************************)
LEMMA ReceiveCases ==
    ASSUME TypeOK, NEW p \in Peer, NEW c \in Slot, Talk(p, c), Receive(p)
    PROVE  /\ toBoard[p] # << >> /\ UNCHANGED <<lossy, peer>>
           /\ Got(p)' = Got(p) /\ FinFrame(p)' = FinFrame(p)
           /\ \/ /\ \/ /\ Head(toBoard[p]).kind = "ack"
                       /\ ReceiveAck(p, Head(toBoard[p]).ack)
                    \/ /\ Head(toBoard[p]).kind = "data"
                       /\ ReceiveData(p, Head(toBoard[p]).part, Head(toBoard[p]).ack)
                    \/ /\ Head(toBoard[p]).kind = "fin"
                       /\ ReceiveFin(p, Head(toBoard[p]).ack)
                    \/ Head(toBoard[p]).kind = "rst" /\ ReceiveRst(p)
                 /\ toBoard'[p] = Tail(toBoard[p])
              \/ /\ Head(toBoard[p]).kind = "fin"
                 /\ ReceiveEarlyFin(p, Head(toBoard[p]).ack)
                 /\ toBoard'[p] = Append(Tail(toBoard[p]), FinFrame(p))
<1>1. ConnOf(p) # {}
  BY Alone
<1>2. ~ReceiveSyn(p) /\ \A f : ~ReceiveStray(p, f)
  BY <1>1 DEF ReceiveSyn, ReceiveStray
<1>3. Got(p)' = Got(p) /\ FinFrame(p)' = FinFrame(p) /\ UNCHANGED <<lossy, peer>>
  BY DEF Receive, Got, FinFrame
<1>4. toBoard \in [Peer -> Seq(BoardFrame)]
  BY DEF TypeOK
<1> QED BY <1>2, <1>3, <1>4 DEF Receive

LEMMA FrameKinds ==
    /\ \A n : Ack(n).kind = "ack" /\ Ack(n).ack = n
    /\ \A x, n : Data(x, n).kind = "data" /\ Data(x, n).part = x /\ Data(x, n).ack = n
    /\ \A x : Frame(x).kind = x
    /\ \A n, a : /\ Segment(n, a).kind = "segment"
                 /\ Segment(n, a).seq = n /\ Segment(n, a).answer = a
    /\ \A p : FinFrame(p).kind = "fin" /\ FinFrame(p).ack = Got(p)
BY DEF Ack, Data, Frame, Segment, FinFrame, Got

\* The last answer is acknowledged by a frame of its own.
LEMMA AckTold ==
    ASSUME TypeOK, NEW p \in Peer, NEW c \in Slot, Talk(p, c), Receive(p), ~new_data_send,
           Settled(conn[c], Got(p)) \/ Owing(p, conn[c], Got(p)),
           Head(toBoard[p]) = Ack(Got(p))
    PROVE  /\ Settled(conn'[c], Got(p)') /\ conn'[c].peer = p
           /\ \A d \in Slot \ {c} : conn'[d] = conn[d]
           /\ ~new_data_send' /\ UNCHANGED <<toPeer, rx, response, executed>>
           /\ toBoard'[p] = Tail(toBoard[p])
<1>1. ConnOf(p) = {c} /\ Got(p) \in Nat /\ Got(p) <= MaxAsk
  BY Alone
<1>2. Head(toBoard[p]).kind = "ack" /\ Head(toBoard[p]).ack = Got(p)
  BY FrameKinds
<1>3. ReceiveAck(p, Got(p)) /\ toBoard'[p] = Tail(toBoard[p]) /\ Got(p)' = Got(p)
  BY <1>2, ReceiveCases
<1> QED BY <1>1, <1>3, AckSettles

LEMMA OpeningReceive ==
    ASSUME TypeOK, NEW p \in Peer, NEW c \in Slot, Talk(p, c), Receive(p)
    PROVE  ~Opening(p, c) /\ ~Executed(p, c) /\ ~Answered(p, c)
BY ReceiveCases DEF Opening, Executed, Answered, Whole

LEMMA IdleReceive ==
    ASSUME TypeOK, NEW p \in Peer, NEW c \in Slot, Talk(p, c), Receive(p), Idle(p, c)
    PROVE  Goes(p, c) /\ executed' = executed
<1>1. /\ toBoard[p] # << >> /\ UNCHANGED <<lossy, peer>> /\ Got(p) \in Nat
      /\ Got(p)' = Got(p) /\ << >> \in Seq(BoardFrame)
  BY ReceiveCases, Alone
<1>2. /\ Settled(conn[c], Got(p)) \/ Owing(p, conn[c], Got(p))
      /\ Head(toBoard[p]) = Ack(Got(p)) /\ Tail(toBoard[p]) = << >>
  BY <1>1, Heard DEF Idle
<1>3. /\ Settled(conn'[c], Got(p)') /\ conn'[c].peer = p
      /\ \A d \in Slot \ {c} : conn'[d] = conn[d]
      /\ ~new_data_send' /\ UNCHANGED <<toPeer, rx, response, executed>>
      /\ toBoard'[p] = << >>
  BY <1>2, AckTold DEF Idle, Free
<1>4. Telling(p, c, << >>)'
  BY <1>3 DEF Telling
<1>5. Idle(p, c)'
  BY <1>1, <1>3, <1>4 DEF Idle, Free
<1> QED BY <1>3, <1>5 DEF Goes, Stage

LEMMA LeavingReceive ==
    ASSUME TypeOK, NEW p \in Peer, NEW c \in Slot, Talk(p, c), Receive(p), Leaving(p, c)
    PROVE  Goes(p, c) /\ executed' = executed
<1> DEFINE k == Acked(conn[c], Got(p))
           fin == FinFrame(p)
<1>1. /\ toBoard[p] # << >> /\ UNCHANGED <<lossy, peer>> /\ Got(p) \in Nat
      /\ Got(p)' = Got(p) /\ fin' = fin
  BY ReceiveCases, Alone
<1>2. /\ fin \in BoardFrame /\ <<fin>> \in Seq(BoardFrame)
      /\ fin.kind = "fin" /\ fin.ack = Got(p)
  BY FinType, FrameKinds
<1>3. ConnOf(p) = {c} /\ Got(p) <= MaxAsk /\ conn[c] \in Connection /\ conn[c].peer = p
  BY Alone DEF Talk
<1>4. Settled(conn[c], Got(p)) \/ Owing(p, conn[c], Got(p))
  BY <1>1, <1>2, Heard DEF Leaving
<1>5. CASE Head(toBoard[p]) = Ack(Got(p)) /\ Tail(toBoard[p]) = <<fin>>
  <2>1. /\ Settled(conn'[c], Got(p)') /\ conn'[c].peer = p
        /\ \A d \in Slot \ {c} : conn'[d] = conn[d]
        /\ ~new_data_send' /\ UNCHANGED <<toPeer, rx, response, executed>>
        /\ toBoard'[p] = <<fin>>
    BY <1>4, <1>5, AckTold DEF Leaving, Free
  <2>2. Telling(p, c, <<FinFrame(p)>>)'
    BY <1>1, <2>1 DEF Telling
  <2>3. Leaving(p, c)'
    BY <1>1, <2>1, <2>2 DEF Leaving, Free
  <2> QED BY <2>1, <2>3 DEF Goes, Stage
<1>6. CASE toBoard[p] = <<fin>>
  <2>1. /\ Head(toBoard[p]) = fin /\ Tail(toBoard[p]) = << >>
        /\ Append(Tail(toBoard[p]), fin) = <<fin>>
    BY <1>6
  <2>2. \/ ReceiveFin(p, Got(p)) /\ toBoard'[p] = << >>
        \/ ReceiveEarlyFin(p, Got(p)) /\ toBoard'[p] = <<fin>>
    BY <1>2, <2>1, ReceiveCases
  <2>3. CASE ReceiveFin(p, Got(p)) /\ toBoard'[p] = << >>
    <3>1. /\ conn' = [conn EXCEPT ![c] = [k EXCEPT !.state = "last_ack", !.out = Fin,
                                                   !.nrtx = 0]]
          /\ TakeResponse(TRUE) /\ ToPeer(p, Frame("finack"))
          /\ UNCHANGED <<rx, response, executed>>
      BY <1>3, <2>3 DEF ReceiveFin
    <3>2. Settled(k, Got(p)) /\ k \in Connection /\ k.peer = p
      BY <1>1, <1>3, <1>4, Settling, AckedType
    <3>3. /\ conn'[c].state = "last_ack" /\ conn'[c].out = Fin /\ conn'[c].snd = Got(p)
          /\ conn'[c].peer = p /\ \A d \in Slot \ {c} : conn'[d] = conn[d]
      BY <3>1, <3>2 DEF TypeOK, Settled, Connection
    <3>4. toPeer'[p] = <<Frame("finack")>> /\ ~new_data_send'
      <4>1. toPeer[p] = << >> /\ ~new_data_send'
        BY <3>1 DEF Leaving, TakeResponse
      <4>2. toPeer'[p] = Append(<< >>, Frame("finack"))
        BY <3>1, <4>1 DEF ToPeer, TypeOK
      <4> QED BY <4>1, <4>2
    <3>5. Parting(p, c)'
      BY <1>1, <2>3, <3>1, <3>3, <3>4 DEF Parting, Leaving, Free
    <3> QED BY <3>1, <3>3, <3>5 DEF Goes, Stage
  <2>4. CASE ReceiveEarlyFin(p, Got(p)) /\ toBoard'[p] = <<fin>>
    <3>1. ReceiveAck(p, Got(p))
      BY <2>4 DEF ReceiveEarlyFin
    <3>2. /\ Settled(conn'[c], Got(p)) /\ conn'[c].peer = p
          /\ \A d \in Slot \ {c} : conn'[d] = conn[d]
          /\ ~new_data_send' /\ UNCHANGED <<toPeer, rx, response, executed>>
      BY <1>1, <1>3, <1>4, <3>1, AckSettles DEF Leaving, Free
    <3>3. Telling(p, c, <<FinFrame(p)>>)'
      BY <1>1, <2>4, <3>2 DEF Telling
    <3>4. Leaving(p, c)'
      BY <1>1, <3>2, <3>3 DEF Leaving, Free
    <3> QED BY <3>2, <3>4 DEF Goes, Stage
  <2> QED BY <2>2, <2>3, <2>4
<1> QED BY <1>1, <1>2, <1>5, <1>6, Heard DEF Leaving

LEMMA DroppingReceive ==
    ASSUME TypeOK, NEW p \in Peer, NEW c \in Slot, Talk(p, c), Receive(p), Dropping(p, c)
    PROVE  (Goes(p, c) \/ Ends(p, c)) /\ executed' = executed
<1> DEFINE rst == Frame("rst")
<1>1. /\ toBoard[p] # << >> /\ UNCHANGED <<lossy, peer>> /\ Got(p) \in Nat
      /\ Got(p)' = Got(p)
  BY ReceiveCases, Alone
<1>2. rst \in BoardFrame /\ <<rst>> \in Seq(BoardFrame) /\ rst.kind = "rst"
  BY FrameTypes, FrameKinds
<1>3. Settled(conn[c], Got(p)) \/ Owing(p, conn[c], Got(p))
  BY <1>1, <1>2, Heard DEF Dropping
<1>4. CASE Head(toBoard[p]) = Ack(Got(p)) /\ Tail(toBoard[p]) = <<rst>>
  <2>1. /\ Settled(conn'[c], Got(p)') /\ conn'[c].peer = p
        /\ \A d \in Slot \ {c} : conn'[d] = conn[d]
        /\ ~new_data_send' /\ UNCHANGED <<toPeer, rx, response, executed>>
        /\ toBoard'[p] = <<rst>>
    BY <1>3, <1>4, AckTold DEF Dropping, Free
  <2>2. Telling(p, c, <<Frame("rst")>>)'
    BY <1>1, <2>1 DEF Telling
  <2>3. Dropping(p, c)'
    BY <1>1, <2>1, <2>2 DEF Dropping, Free
  <2> QED BY <2>1, <2>3 DEF Goes, Stage
<1>5. CASE toBoard[p] = <<rst>>
  <2>1. Head(toBoard[p]) = rst /\ Tail(toBoard[p]) = << >>
    BY <1>5
  <2>2. ReceiveRst(p) /\ toBoard'[p] = << >>
    BY <1>2, <2>1, ReceiveCases
  <2>3. ConnOf(p) = {c}
    BY Alone
  <2>4. /\ conn' = [conn EXCEPT ![c] = Closed] /\ ~new_data_send'
        /\ UNCHANGED <<rx, response, executed, toPeer>>
    BY <2>2, <2>3 DEF ReceiveRst, TakeResponse
  <2>5. Free' /\ Orphan(p)'
    BY <1>1, <2>2, <2>4 DEF Dropping, Free, Orphan, Got
  <2>6. conn'[c] = Closed /\ \A d \in Slot \ {c} : conn'[d] = conn[d]
    BY <2>4 DEF TypeOK
  <2> QED BY <2>4, <2>5, <2>6 DEF Ends
<1> QED BY <1>1, <1>2, <1>4, <1>5, Heard DEF Dropping

LEMMA PartingReceive ==
    ASSUME TypeOK, NEW p \in Peer, NEW c \in Slot, Talk(p, c), Receive(p), Parting(p, c)
    PROVE  Ends(p, c) /\ executed' = executed
<1>1. /\ toBoard[p] # << >> /\ UNCHANGED <<lossy, peer>> /\ Got(p) \in Nat
      /\ Got(p)' = Got(p)
  BY ReceiveCases, Alone
<1>2. toBoard[p] = <<Ack(Got(p) + 1)>> /\ peer[p].state = "closed" /\ toPeer[p] = << >>
  BY <1>1 DEF Parting
<1>3. ReceiveAck(p, Got(p) + 1) /\ toBoard'[p] = << >>
  <2>1. Head(toBoard[p]) = Ack(Got(p) + 1) /\ Tail(toBoard[p]) = << >>
    BY <1>2
  <2>2. Head(toBoard[p]).kind = "ack" /\ Head(toBoard[p]).ack = Got(p) + 1
    BY <2>1, FrameKinds
  <2> QED BY <2>1, <2>2, ReceiveCases
<1>4. ConnOf(p) = {c} /\ conn[c] \in Connection
  BY Alone
<1>5. Acked(conn[c], Got(p) + 1) # conn[c]
  <2>1. Fin # Syn /\ Fin # None
    BY MarkAssumption
  <2>2. Acked(conn[c], Got(p) + 1) = [conn[c] EXCEPT !.out = None, !.snd = Got(p) + 1]
    BY <2>1 DEF Parting, Acked
  <2>3. Acked(conn[c], Got(p) + 1).out = None /\ conn[c].out # None
    BY <1>4, <2>1, <2>2 DEF Parting, Connection
  <2> QED BY <2>3
<1>6. /\ conn' = [conn EXCEPT ![c] = Closed] /\ ~new_data_send'
      /\ UNCHANGED <<toPeer, rx, response, executed>>
  BY <1>3, <1>4, <1>5 DEF ReceiveAck, Parting, TakeResponse
<1>7. Free' /\ Orphan(p)'
  BY <1>1, <1>2, <1>3, <1>6 DEF Parting, Free, Orphan, Got
<1>8. conn'[c] = Closed /\ \A d \in Slot \ {c} : conn'[d] = conn[d]
  BY <1>6 DEF TypeOK
<1> QED BY <1>6, <1>7, <1>8 DEF Ends

(***************************************************************************)
(* A part of the request: the last one has the command executed, whose     *)
(* answer waits then.                                                      *)
(***************************************************************************)
LEMMA PartReceive ==
    ASSUME TypeOK, NEW p \in Peer, NEW c \in Slot, Talk(p, c), Receive(p), Asking(p, c),
           NEW r \in Nat, r < Parts[p], r < peer[p].sent, rx = Received(p, Got(p), r),
           toBoard[p] = Run(p, Got(p), r, peer[p].sent),
           Settled(conn[c], Got(p)) \/ Owing(p, conn[c], Got(p))
    PROVE  /\ Goes(p, c)
           /\ executed' = executed \/ (~lossy /\ executed' = <<p, peer[p].asked>>)
<1> DEFINE g == Got(p)
           n == peer[p].sent
           part == << <<p, g + 1>>, r + 1>>
           s == Received(p, g, r + 1)
<1>1. /\ ConnOf(p) = {c} /\ conn[c] \in Connection /\ conn[c].peer = p
      /\ g \in Nat /\ g <= MaxAsk /\ g + 1 <= MaxAsk /\ n \in Nat
      /\ UNCHANGED <<lossy, peer>> /\ Got(p)' = g /\ Parts[p] \in Nat
  <2>1. /\ ConnOf(p) = {c} /\ conn[c] \in Connection /\ conn[c].peer = p
        /\ g \in Nat /\ g <= MaxAsk /\ peer[p].asked \in 0 .. MaxAsk
    BY Alone DEF Talk
  <2>2. UNCHANGED <<lossy, peer>> /\ Got(p)' = g
    BY ReceiveCases
  <2>3. n \in Nat /\ Parts[p] \in Nat /\ peer[p].asked = g + 1 /\ MaxAsk \in Nat
    BY ServerAssumption DEF Asking, TypeOK
  <2>4. g + 1 <= MaxAsk
    BY <2>1, <2>3
  <2> QED BY <2>1, <2>2, <2>3, <2>4
<1>2. /\ peer[p].state = "open" /\ peer[p].asked = g + 1 /\ n <= Parts[p]
      /\ ~new_data_send /\ executed = None /\ toPeer[p] = << >>
  BY DEF Asking
<1>3. /\ Head(toBoard[p]) = Data(part, g) /\ Tail(toBoard[p]) = Run(p, g, r + 1, n)
  BY <1>1, RunNext
<1>4. ReceiveData(p, part, g) /\ toBoard'[p] = Run(p, g, r + 1, n)
  <2>1. /\ Head(toBoard[p]).kind = "data" /\ Head(toBoard[p]).part = part
        /\ Head(toBoard[p]).ack = g
    BY <1>3, FrameKinds
  <2>2. /\ ReceiveData(p, Head(toBoard[p]).part, Head(toBoard[p]).ack)
        /\ toBoard'[p] = Tail(toBoard[p])
    BY <2>1, ReceiveCases
  <2> QED BY <1>3, <2>1, <2>2
<1>5. Append(rx, part) = s
  <2>1. g \in Nat /\ rx = Received(p, g, r)
    BY <1>1
  <2> HIDE DEF g
  <2>2. Append(Received(p, g, r), << <<p, g + 1>>, r + 1>>) = Received(p, g, r + 1)
    BY <2>1, ReceivedMore
  <2> QED BY <2>1, <2>2
<1>6. /\ r + 1 \in Nat \ {0} /\ Pure(s) /\ s[1][1] = <<p, g + 1>>
      /\ NewMessage(s) = {r + 1 = Parts[p]}
  <2> DEFINE m == r + 1
  <2>1. m \in Nat \ {0} /\ g \in Nat
    BY <1>1
  <2> HIDE DEF m, g
  <2>2. /\ Pure(Received(p, g, m)) /\ Received(p, g, m)[1][1] = <<p, g + 1>>
        /\ NewMessage(Received(p, g, m)) = {m = Parts[p]}
    BY <2>1, ReceivedPure, SMTT(30)
  <2>3. s = Received(p, g, m)
    BY DEF m
  <2> QED BY <2>1, <2>2, <2>3 DEF m
<1> HIDE DEF s
<1>7. /\ SendOn(c, Acked(conn[c], g))
      /\ IF r + 1 = Parts[p]
         THEN EthernetProcessCMD(s) /\ new_data_send' = TRUE
         ELSE rx' = s /\ TakeResponse(TRUE) /\ UNCHANGED <<response, executed>>
  <2>1. /\ SendOn(c, Acked(conn[c], g))
        /\ \E whole \in NewMessage(s) :
              IF whole
              THEN EthernetProcessCMD(s) /\ new_data_send' = TRUE
              ELSE rx' = s /\ TakeResponse(TRUE) /\ UNCHANGED <<response, executed>>
    BY <1>1, <1>4, <1>5 DEF ReceiveData
  <2> QED BY <1>6, <2>1
<1>8. /\ Settled(conn'[c], g) /\ conn'[c].peer = p /\ UNCHANGED toPeer
      /\ \A d \in Slot \ {c} : conn'[d] = conn[d]
  <2>1. /\ conn'[c] = [Acked(conn[c], g) EXCEPT !.nrtx = 0] /\ UNCHANGED toPeer
        /\ \A d \in Slot \ {c} : conn'[d] = conn[d]
    BY <1>2, <1>7, QuietSendOn
  <2>2. /\ Settled([Acked(conn[c], g) EXCEPT !.nrtx = 0], g)
        /\ [Acked(conn[c], g) EXCEPT !.nrtx = 0].peer = conn[c].peer
    BY <1>1, Settling
  <2> QED BY <1>1, <2>1, <2>2
<1>9. CASE r + 1 = Parts[p]
  <2>1. n = Parts[p] /\ toBoard'[p] = << >>
    BY <1>1, <1>2, <1>4, <1>9, RunEmpty
  <2>2. /\ response' = <<p, g + 1>> /\ rx' = << >> /\ new_data_send'
        /\ executed' = IF lossy THEN None ELSE <<p, g + 1>>
    BY <1>2, <1>6, <1>7, <1>9 DEF EthernetProcessCMD
  <2>3. Executed(p, c)'
    BY <1>1, <1>2, <1>8, <2>1, <2>2 DEF Executed, Whole
  <2> QED BY <1>2, <1>8, <2>2, <2>3 DEF Goes, Stage
<1>10. CASE r + 1 # Parts[p]
  <2>1. rx' = Received(p, g, r + 1) /\ ~new_data_send' /\ UNCHANGED <<response, executed>>
    BY <1>7, <1>10 DEF TakeResponse, s
  <2>2. r + 1 \in 0 .. n /\ r + 1 < Parts[p]
    BY <1>1, <1>10
  <2>3. Telling(p, c, Run(p, Got(p), r + 1, peer[p].sent))'
    BY <1>1, <1>4, <1>8 DEF Telling
  <2>4. Asking(p, c)'
    BY <1>1, <1>2, <1>8, <2>1, <2>2, <2>3 DEF Asking
  <2> QED BY <1>8, <2>1, <2>4 DEF Goes, Stage
<1> QED BY <1>9, <1>10

LEMMA AskingReceive ==
    ASSUME TypeOK, NEW p \in Peer, NEW c \in Slot, Talk(p, c), Receive(p), Asking(p, c)
    PROVE  /\ Goes(p, c)
           /\ executed' = executed \/ (~lossy /\ executed' = <<p, peer[p].asked>>)
<1> DEFINE g == Got(p)
           n == peer[p].sent
<1>1. /\ toBoard[p] # << >> /\ UNCHANGED <<lossy, peer>> /\ g \in Nat /\ n \in Nat
      /\ Got(p)' = Got(p) /\ g + 1 <= MaxAsk
  <2>1. toBoard[p] # << >> /\ UNCHANGED <<lossy, peer>> /\ Got(p)' = Got(p)
    BY ReceiveCases
  <2>2. n \in Nat /\ peer[p].asked = g + 1 /\ MaxAsk \in Nat
    BY ServerAssumption DEF Asking, TypeOK
  <2>3. g \in Nat /\ peer[p].asked \in 0 .. MaxAsk
    BY Alone
  <2>4. g + 1 <= MaxAsk
    BY <2>2, <2>3
  <2> QED BY <2>1, <2>2, <2>3, <2>4
<1>2. PICK r \in 0 .. n :
          /\ r < Parts[p] /\ rx = Received(p, g, r)
          /\ r > 0 => Settled(conn[c], g)
          /\ Telling(p, c, Run(p, g, r, n))
  BY DEF Asking
<1>3. Run(p, g, r, n) \in Seq(BoardFrame) /\ (Run(p, g, r, n) # << >> => r < n) /\ r \in Nat
  <2>1. r \in Nat /\ r <= n
    BY <1>1
  <2>2. IsRun(Run(p, g, r, n), p, g, r, n)
    BY <1>1, <2>1, RunIsSeq
  <2>3. r = n => Run(p, g, r, n) = << >>
    BY <1>1, RunEmpty
  <2> QED BY <1>1, <2>1, <2>2, <2>3 DEF IsRun
<1>4. Settled(conn[c], g) \/ Owing(p, conn[c], g)
  BY <1>1, <1>2, <1>3, Heard
<1>5. CASE Head(toBoard[p]) = Ack(g) /\ Tail(toBoard[p]) = Run(p, g, r, n)
  <2>1. /\ Settled(conn'[c], Got(p)') /\ conn'[c].peer = p
        /\ \A d \in Slot \ {c} : conn'[d] = conn[d]
        /\ ~new_data_send' /\ UNCHANGED <<toPeer, rx, response, executed>>
        /\ toBoard'[p] = Run(p, g, r, n)
    BY <1>4, <1>5, AckTold DEF Asking
  <2>2. Telling(p, c, Run(p, Got(p), r, peer[p].sent))'
    BY <1>1, <2>1 DEF Telling
  <2>3. Asking(p, c)'
    BY <1>1, <1>2, <2>1, <2>2 DEF Asking
  <2> QED BY <2>1, <2>3 DEF Goes, Stage
<1>6. CASE toBoard[p] = Run(p, g, r, n) /\ r < n
  BY <1>2, <1>3, <1>4, <1>6, PartReceive
<1> QED BY <1>1, <1>2, <1>3, <1>5, <1>6, Heard

LEMMA TalkReceive ==
    ASSUME TypeOK, NEW p \in Peer, NEW c \in Slot, Talk(p, c), Receive(p)
    PROVE  /\ Talk(p, c)' \/ Quiet'
           /\ UNCHANGED <<lossy, peer>>
           /\ executed' # executed =>
                 ~lossy /\ Asking(p, c) /\ executed' = <<p, peer[p].asked>>
<1>1. Stage(p, c)
  BY DEF Talk
<1>2. Only(p) /\ UNCHANGED <<lossy, peer>>
  BY ReceiveOnly DEF Receive
<1>3. CASE Idle(p, c)
  BY <1>2, <1>3, IdleReceive, TalkOrQuiet
<1>4. CASE Asking(p, c)
  BY <1>2, <1>4, AskingReceive, TalkOrQuiet
<1>5. CASE Leaving(p, c)
  BY <1>2, <1>5, LeavingReceive, TalkOrQuiet
<1>6. CASE Dropping(p, c)
  BY <1>2, <1>6, DroppingReceive, TalkOrQuiet
<1>7. CASE Parting(p, c)
  BY <1>2, <1>7, PartingReceive, TalkOrQuiet
<1>8. ~Opening(p, c) /\ ~Executed(p, c) /\ ~Answered(p, c)
  BY OpeningReceive
<1> QED
  BY <1>1, <1>3, <1>4, <1>5, <1>6, <1>7, <1>8 DEF Stage

-----------------------------------------------------------------------------
(***************************************************************************)
(* The steps of the talking peer itself.                                   *)
(***************************************************************************)
LEMMA TalkAskNext ==
    ASSUME TypeOK, NEW p \in Peer, NEW c \in Slot, Talk(p, c), AskNext(p)
    PROVE  Idle(p, c) /\ Goes(p, c)
<1>1. /\ Got(p) \in Nat /\ conn[c].peer = p /\ Parts[p] \in Nat \ {0}
      /\ peer[p].asked \in 0 .. MaxAsk
  BY Alone, ServerAssumption DEF Talk
<1>2. peer[p].state = "open" /\ peer[p].asked <= Got(p)
  BY <1>1 DEF AskNext, Waiting, Got
<1>3. Idle(p, c)
  BY <1>1, <1>2 DEF Talk, Stage, Opening, Asking, Executed, Answered, Whole, Leaving,
                    Dropping, Parting
<1>4. /\ peer'[p].state = "open" /\ peer'[p].asked = Got(p) + 1 /\ peer'[p].sent = 0
      /\ Got(p)' = Got(p) /\ executed' = None
      /\ UNCHANGED <<lossy, conn, rx, response, new_data_send, toBoard, toPeer>>
  BY <1>3 DEF AskNext, Idle, Got, TypeOK
<1>5. Received(p, Got(p), 0) = << >> /\ Run(p, Got(p), 0, 0) = << >>
  BY <1>1, ReceivedNone, RunEmpty
<1>6. Telling(p, c, Run(p, Got(p), 0, peer[p].sent))'
  BY <1>3, <1>4, <1>5 DEF Idle, Telling
<1>7. Asking(p, c)'
  BY <1>1, <1>3, <1>4, <1>5, <1>6 DEF Asking, Idle, Free
<1> QED BY <1>1, <1>3, <1>4, <1>7 DEF Goes, Stage

LEMMA TalkSendPart ==
    ASSUME TypeOK, NEW p \in Peer, NEW c \in Slot, Talk(p, c), SendPart(p)
    PROVE  Goes(p, c)
<1>1. /\ Got(p) \in Nat /\ conn[c].peer = p /\ Parts[p] \in Nat \ {0}
      /\ peer[p].sent \in Nat
  BY Alone, ServerAssumption DEF Talk, TypeOK
<1>2. PICK g \in Nat, n \in Nat : g = Got(p) /\ n = peer[p].sent
  BY <1>1
<1> DEFINE f == Data(<< <<p, g + 1>>, n + 1>>, g)
<1>3. /\ peer[p].state = "open" /\ peer[p].asked > g /\ n < Parts[p]
  BY <1>2 DEF SendPart, Waiting, Got
<1>4. Asking(p, c)
  BY <1>1, <1>2, <1>3 DEF Talk, Stage, Opening, Idle, Executed, Answered, Whole, Leaving,
                          Dropping, Parting
<1>5. peer[p].asked = g + 1 /\ g + 1 <= MaxAsk
  BY <1>2, <1>4, ServerAssumption DEF Asking, TypeOK
<1>6. /\ peer'[p].state = "open" /\ peer'[p].asked = g + 1 /\ peer'[p].sent = n + 1
      /\ Got(p)' = g /\ toBoard'[p] = Append(toBoard[p], f)
      /\ UNCHANGED <<boardVars, lossy, toPeer>>
  BY <1>2, <1>5 DEF SendPart, ToBoard, Got, TypeOK
<1>7. f \in BoardFrame
  BY <1>5, FrameTypes DEF Ask
<1>8. PICK r \in 0 .. n :
          /\ r < Parts[p] /\ rx = Received(p, g, r)
          /\ r > 0 => Settled(conn[c], g)
          /\ Telling(p, c, Run(p, g, r, n))
  BY <1>2, <1>4 DEF Asking
<1>9. /\ Run(p, g, r, n) \in Seq(BoardFrame)
      /\ Append(Run(p, g, r, n), f) = Run(p, g, r, n + 1)
  <2>1. r \in Nat /\ r <= n
    OBVIOUS
  <2>2. IsRun(Run(p, g, r, n), p, g, r, n)
    BY <1>5, <2>1, RunIsSeq
  <2>3. Append(Run(p, g, r, n), f) = Run(p, g, r, n + 1)
    BY <1>5, <2>1, RunMore
  <2> QED BY <2>2, <2>3 DEF IsRun
<1>10. Telling(p, c, Append(Run(p, g, r, n), f))'
  <2>1. conn'[c] = conn[c] /\ Got(p)' = Got(p)
    BY <1>2, <1>6 DEF boardVars
  <2> HIDE DEF f
  <2> QED BY <1>1, <1>6, <1>7, <1>8, <1>9, <2>1, Said
<1>11. Telling(p, c, Run(p, Got(p), r, peer[p].sent))'
  BY <1>6, <1>9, <1>10
<1>12. Asking(p, c)'
  BY <1>1, <1>2, <1>3, <1>4, <1>6, <1>8, <1>11 DEF Asking, boardVars
<1> QED BY <1>1, <1>6, <1>12 DEF Goes, Stage, boardVars

LEMMA TalkClose ==
    ASSUME TypeOK, NEW p \in Peer, NEW c \in Slot, Talk(p, c),
           Close(p) \/ Abort(p), ~Waiting(p)
    PROVE  Goes(p, c)
<1>1. Got(p) \in Nat /\ conn[c].peer = p /\ peer[p].asked \in Nat
  BY Alone DEF Talk
<1>2. peer[p].state = "open" /\ peer[p].asked <= Got(p)
  BY <1>1 DEF Close, Abort, Waiting, Got
<1>3. Idle(p, c)
  BY <1>1, <1>2 DEF Talk, Stage, Opening, Asking, Executed, Answered, Whole, Leaving,
                    Dropping, Parting
<1>4. PICK fin \in BoardFrame : fin = FinFrame(p)
  BY FinType
<1>5. PICK rst \in BoardFrame : rst = Frame("rst")
  BY FrameTypes
<1>6. CASE Close(p)
  <2>1. /\ peer'[p].state = "closing" /\ peer'[p].asked = peer[p].asked
        /\ Got(p)' = Got(p) /\ FinFrame(p)' = fin
        /\ toBoard'[p] = Append(toBoard[p], fin) /\ UNCHANGED <<boardVars, lossy, toPeer>>
    BY <1>4, <1>6 DEF Close, ToBoard, Got, FinFrame, TypeOK
  <2>2. Telling(p, c, Append(<< >>, fin))'
    <3>1. << >> \in Seq(BoardFrame) /\ Telling(p, c, << >>) /\ conn'[c] = conn[c]
      BY <1>3, <2>1 DEF Idle, boardVars
    <3> QED BY <1>1, <2>1, <3>1, Said
  <2>3. Telling(p, c, <<FinFrame(p)>>)'
    <3>1. Append(<< >>, fin) = <<fin>>
      OBVIOUS
    <3> QED BY <2>1, <2>2, <3>1
  <2>4. Leaving(p, c)'
    BY <1>3, <2>1, <2>3 DEF Idle, Leaving, Free, boardVars
  <2> QED BY <1>1, <2>1, <2>4 DEF Goes, Stage, boardVars
<1>7. CASE Abort(p)
  <2>1. /\ peer'[p].state = "closed" /\ peer'[p].asked = peer[p].asked /\ Got(p)' = Got(p)
        /\ toBoard'[p] = Append(toBoard[p], rst) /\ UNCHANGED <<boardVars, lossy, toPeer>>
    BY <1>5, <1>7 DEF Abort, ToBoard, Got, TypeOK
  <2>2. Telling(p, c, Append(<< >>, rst))'
    <3>1. << >> \in Seq(BoardFrame) /\ Telling(p, c, << >>) /\ conn'[c] = conn[c]
      BY <1>3, <2>1 DEF Idle, boardVars
    <3> QED BY <1>1, <2>1, <3>1, Said
  <2>3. Telling(p, c, <<Frame("rst")>>)'
    <3>1. Append(<< >>, rst) = <<rst>>
      OBVIOUS
    <3> QED BY <1>5, <2>2, <3>1
  <2>4. Dropping(p, c)'
    BY <1>3, <2>1, <2>3 DEF Idle, Dropping, Free, boardVars
  <2> QED BY <1>1, <2>1, <2>4 DEF Goes, Stage, boardVars
<1> QED BY <1>6, <1>7

(***************************************************************************)
(* What arrives at the talking peer: the answer is the one to its request, *)
(* and it is the next one.                                                 *)
(***************************************************************************)
LEMMA TalkPeerReceive ==
    ASSUME TypeOK, NEW p \in Peer, NEW c \in Slot, Talk(p, c), PeerReceive(p)
    PROVE  /\ Goes(p, c) /\ peer'[p].asked = peer[p].asked /\ UNCHANGED <<boardVars, lossy>>
           /\ \/ peer'[p].got = peer[p].got
              \/ Answered(p, c) /\ peer'[p].got = Append(peer[p].got, <<p, Got(p) + 1>>)
<1>1. /\ Got(p) \in Nat /\ conn[c].peer = p /\ toPeer[p] # << >>
      /\ UNCHANGED <<boardVars, lossy>> /\ toPeer'[p] = Tail(toPeer[p])
      /\ peer[p].got \in Seq(Answer) /\ toBoard[p] \in Seq(BoardFrame)
  BY Alone DEF Talk, PeerReceive, TypeOK
<1>2. conn'[c].peer = p /\ \A d \in Slot \ {c} : conn'[d] = conn[d]
  BY <1>1 DEF boardVars
<1>3. Opening(p, c) \/ Answered(p, c) \/ Parting(p, c)
  BY <1>1 DEF Talk, Stage, Idle, Asking, Executed, Leaving, Dropping
<1>4. CASE Opening(p, c)
  <2>1. Head(toPeer[p]).kind = "synack" /\ toPeer'[p] = << >>
    <3>1. toPeer[p] = <<Frame("synack")>>
      BY <1>4 DEF Opening
    <3>2. Head(toPeer[p]) = Frame("synack") /\ Tail(toPeer[p]) = << >>
      BY <3>1
    <3> QED BY <1>1, <3>2, FrameKinds
  <2>2. /\ peer' = [peer EXCEPT ![p].state = "open"] /\ ToBoard(p, Ack(0))
    BY <1>4, <2>1 DEF PeerReceive, Opening, Gone
  <2>3. /\ peer'[p].state = "open" /\ peer'[p].asked = 0 /\ peer'[p].got = peer[p].got
        /\ peer[p].asked = 0 /\ Got(p)' = 0 /\ toBoard'[p] = <<Ack(0)>>
    <3>1. toBoard'[p] = Append(<< >>, Ack(0))
      BY <1>4, <2>2 DEF Opening, ToBoard, TypeOK
    <3>2. Append(<< >>, Ack(0)) = <<Ack(0)>>
      OBVIOUS
    <3>3. peer'[p].state = "open" /\ peer'[p].asked = 0 /\ peer[p].asked = 0
          /\ peer'[p].got = peer[p].got /\ Got(p)' = 0
      BY <1>4, <2>2 DEF Opening, Got, TypeOK
    <3> QED BY <3>1, <3>2, <3>3
  <2>4. Telling(p, c, << >>)'
    <3>1. <<Ack(0)>> = <<Ack(0)>> \o << >>
      OBVIOUS
    <3>2. Owing(p, conn[c], Got(p))'
      BY <1>1, <1>4, <2>3 DEF Owing, Opening, boardVars
    <3> QED BY <2>3, <3>1, <3>2 DEF Telling
  <2>5. Idle(p, c)'
    BY <1>1, <1>4, <2>1, <2>3, <2>4 DEF Idle, Opening, Free, boardVars
  <2> QED BY <1>1, <1>2, <2>3, <2>5 DEF Goes, Stage
<1>5. CASE Answered(p, c)
  <2>1. PICK g \in Nat : g = Got(p)
    BY <1>1
  <2>2. /\ Head(toPeer[p]).kind = "segment" /\ Head(toPeer[p]).seq = g
        /\ Head(toPeer[p]).answer = <<p, g + 1>> /\ toPeer'[p] = << >>
    <3>1. toPeer[p] = <<Segment(g, <<p, g + 1>>)>>
      BY <1>1, <1>5, <2>1 DEF Answered
    <3>2. Head(toPeer[p]) = Segment(g, <<p, g + 1>>) /\ Tail(toPeer[p]) = << >>
      BY <3>1
    <3> QED BY <1>1, <3>2, FrameKinds
  <2>3. /\ peer' = [peer EXCEPT ![p].got = Append(@, <<p, g + 1>>)]
        /\ ToBoard(p, Ack(Len(peer'[p].got)))
    BY <1>5, <2>1, <2>2 DEF PeerReceive, Answered, Whole, Gone, Got
  <2>4. /\ peer'[p].got = Append(peer[p].got, <<p, g + 1>>) /\ peer'[p].state = "open"
        /\ peer'[p].asked = g + 1 /\ peer[p].asked = g + 1
    BY <1>5, <2>1, <2>3 DEF Answered, Whole, TypeOK
  <2>5. Got(p)' = g + 1
    <3>1. Len(Append(peer[p].got, <<p, g + 1>>)) = Len(peer[p].got) + 1
      BY <1>1, AppendProperties
    <3> QED BY <2>1, <2>4, <3>1 DEF Got
  <2>6. toBoard'[p] = <<Ack(g + 1)>>
    <3>1. toBoard'[p] = Append(<< >>, Ack(g + 1))
      BY <1>5, <2>3, <2>5 DEF Answered, Whole, ToBoard, Got, TypeOK
    <3> QED BY <3>1
  <2>7. Telling(p, c, << >>)'
    <3>1. <<Ack(g + 1)>> = <<Ack(g + 1)>> \o << >>
      OBVIOUS
    <3>2. Owing(p, conn[c], Got(p))'
      <4>1. Owing(p, conn[c], g + 1) /\ conn'[c] = conn[c]
        BY <1>1, <1>5, <2>1 DEF Answered, boardVars
      <4> QED BY <2>5, <4>1
    <3> QED BY <2>5, <2>6, <3>1, <3>2 DEF Telling
  <2>8. Idle(p, c)'
    BY <1>1, <1>5, <2>2, <2>4, <2>5, <2>7 DEF Idle, Answered, Whole, Free, boardVars
  <2> QED BY <1>1, <1>2, <1>5, <2>1, <2>4, <2>8 DEF Goes, Stage
<1>6. CASE Parting(p, c)
  <2>1. PICK g \in Nat : g = Got(p)
    BY <1>1
  <2>2. Head(toPeer[p]).kind = "finack" /\ toPeer'[p] = << >> /\ peer[p].state = "closing"
        /\ toBoard[p] = << >>
    <3>1. toPeer[p] = <<Frame("finack")>> /\ peer[p].state = "closing" /\ toBoard[p] = << >>
      BY <1>1, <1>6 DEF Parting
    <3>2. Head(toPeer[p]) = Frame("finack") /\ Tail(toPeer[p]) = << >>
      BY <3>1
    <3> QED BY <1>1, <3>1, <3>2, FrameKinds
  <2>3. peer' = [peer EXCEPT ![p].state = "closed"] /\ ToBoard(p, Ack(g + 1))
    BY <2>1, <2>2 DEF PeerReceive, Gone, Got
  <2>4. /\ peer'[p].state = "closed" /\ peer'[p].asked = peer[p].asked
        /\ peer'[p].got = peer[p].got /\ Got(p)' = g
    BY <2>1, <2>3 DEF Got, TypeOK
  <2>5. toBoard'[p] = <<Ack(g + 1)>>
    <3>1. toBoard'[p] = Append(<< >>, Ack(g + 1))
      BY <2>2, <2>3 DEF ToBoard, TypeOK
    <3> QED BY <3>1
  <2>6. Parting(p, c)'
    BY <1>1, <1>6, <2>1, <2>2, <2>4, <2>5 DEF Parting, Free, boardVars
  <2> QED BY <1>1, <1>2, <2>4, <2>6 DEF Goes, Stage
<1> QED BY <1>3, <1>4, <1>5, <1>6

LEMMA TalkLoss ==
    ASSUME TypeOK, NEW p \in Peer, NEW c \in Slot, Talk(p, c), Loss(p)
    PROVE  Goes(p, c) /\ UNCHANGED <<boardVars, lossy, peer>>
<1>1. /\ UNCHANGED <<boardVars, lossy, peer>> /\ lossy /\ Got(p) \in Nat /\ Got(p)' = Got(p)
      /\ FinFrame(p)' = FinFrame(p) /\ conn'[c] = conn[c] /\ conn[c].peer = p
      /\ \A d \in Slot \ {c} : conn'[d] = conn[d]
  BY Alone DEF Loss, LoseToPeer, LoseToBoard, Got, FinFrame, Talk, boardVars
<1>2. CASE LoseToPeer(p)
  <2>1. toPeer[p] # << >> /\ Head(toPeer[p]).kind = "segment" /\ toBoard' = toBoard
        /\ toPeer'[p] = Tail(toPeer[p])
    BY <1>2 DEF LoseToPeer, TypeOK
  <2>2. ~Opening(p, c) /\ ~Parting(p, c)
    <3>1. ASSUME NEW x \in {"synack", "finack"} PROVE toPeer[p] # <<Frame(x)>>
      <4>1. SUFFICES ASSUME toPeer[p] = <<Frame(x)>> PROVE FALSE
        OBVIOUS
      <4>2. Head(toPeer[p]) = Frame(x)
        BY <4>1
      <4> QED BY <2>1, <4>2, FrameKinds
    <3> QED BY <2>1, <3>1 DEF Opening, Parting
  <2>3. Answered(p, c)
    BY <2>1, <2>2 DEF Talk, Stage, Idle, Asking, Executed, Leaving, Dropping
  <2>4. toPeer'[p] = << >>
    <3>1. toPeer[p] = <<Segment(Got(p), <<p, Got(p) + 1>>)>>
      BY <2>1, <2>3 DEF Answered
    <3> QED BY <2>1, <3>1
  <2>5. Answered(p, c)'
    BY <1>1, <2>1, <2>3, <2>4 DEF Answered, Whole, boardVars
  <2> QED BY <1>1, <2>5 DEF Goes, Stage
<1>3. CASE LoseToBoard(p)
  <2>1. /\ toBoard[p] # << >> /\ Head(toBoard[p]).kind = "ack" /\ peer[p].state = "open"
        /\ toPeer' = toPeer /\ toBoard'[p] = Tail(toBoard[p])
    BY <1>3 DEF LoseToBoard, TypeOK
  <2>2. Idle(p, c) \/ Asking(p, c)
    BY <2>1 DEF Talk, Stage, Opening, Executed, Answered, Whole, Leaving, Dropping, Parting
  <2>3. CASE Idle(p, c)
    <3>1. << >> \in Seq(BoardFrame) /\ Telling(p, c, << >>)
      BY <2>3 DEF Idle
    <3>2. Telling(p, c, << >>)'
      BY <1>1, <2>1, <3>1, Unheard
    <3>3. Idle(p, c)'
      BY <1>1, <2>1, <2>3, <3>2 DEF Idle, Free, boardVars
    <3> QED BY <1>1, <3>3 DEF Goes, Stage
  <2>4. CASE Asking(p, c)
    <3>1. PICK g \in Nat, n \in Nat : g = Got(p) /\ n = peer[p].sent
      BY <1>1 DEF TypeOK
    <3>2. g + 1 <= MaxAsk
      BY <2>4, <3>1, ServerAssumption DEF Asking, TypeOK
    <3>3. PICK r \in 0 .. n :
              /\ r < Parts[p] /\ rx = Received(p, g, r)
              /\ r > 0 => Settled(conn[c], g)
              /\ Telling(p, c, Run(p, g, r, n))
      BY <2>4, <3>1 DEF Asking
    <3>4. Run(p, g, r, n) \in Seq(BoardFrame)
      <4>1. r \in Nat /\ r <= n
        OBVIOUS
      <4> QED BY <3>2, <4>1, RunIsSeq DEF IsRun
    <3>5. Run(p, g, r, n) # << >> => Head(Run(p, g, r, n)).kind # "ack"
      <4>1. CASE r = n
        BY <4>1, RunEmpty
      <4>2. CASE r < n
        <5>1. Head(Run(p, g, r, n)) = Data(<< <<p, g + 1>>, r + 1>>, g)
          BY <3>2, <4>2, RunNext
        <5> QED BY <5>1, FrameKinds
      <4> QED BY <4>1, <4>2
    <3>6. Telling(p, c, Run(p, g, r, n))'
      BY <1>1, <2>1, <3>3, <3>4, <3>5, Unheard
    <3>7. Asking(p, c)'
      BY <1>1, <2>1, <2>4, <3>1, <3>3, <3>6 DEF Asking, boardVars
    <3> QED BY <1>1, <3>7 DEF Goes, Stage
  <2> QED BY <2>2, <2>3, <2>4
<1> QED BY <1>1, <1>2, <1>3 DEF Loss

-----------------------------------------------------------------------------
(***************************************************************************)
(* The periodic timer while nobody talks, and while one peer does.         *)
(***************************************************************************)
LEMMA SilentTick ==
    ASSUME TypeOK, Silence, NEW Expired \in SUBSET Expirable, Periodic(Expired)
    PROVE  UNCHANGED vars
<1>1. \A c \in Slot : conn[c] = Closed /\ ~Established(c) /\ ~Outstanding(c)
  BY DEF Silence, Established, Outstanding, Closed
<1>2. Expired = {} /\ CalledIn(Expired) = {} /\ LostIn(Expired) = {} /\ TakerIn(Expired) = 0
  BY <1>1 DEF Expirable, CalledIn, LostIn, TakerIn
<1>3. \A p \in Peer : OutIn(Expired, p) = << >>
  BY <1>2 DEF OutIn
<1>4. conn' = [c \in Slot |-> conn[c]]
  <2>1. \A c \in Slot : c # 0
    BY ServerAssumption DEF Slot
  <2>2. conn' = [c \in Slot |->
                    IF c \in LostIn(Expired) THEN Closed
                    ELSE IF c \in Expired THEN [conn[c] EXCEPT !.nrtx = @ + 1]
                    ELSE IF c = TakerIn(Expired)
                         THEN [conn[c] EXCEPT !.out = response, !.nrtx = 0]
                    ELSE conn[c]]
    BY PeriodicMeans
  <2> QED BY <1>2, <2>1, <2>2
<1>5. toPeer' = [p \in Peer |-> toPeer[p]]
  <2>1. \A p \in Peer : toPeer[p] \o OutIn(Expired, p) = toPeer[p]
    BY <1>3, ConcatEmptySeq DEF TypeOK
  <2>2. toPeer' = [p \in Peer |-> toPeer[p] \o OutIn(Expired, p)]
    BY PeriodicMeans
  <2> QED BY <2>1, <2>2
<1>6. new_data_send' = new_data_send
  <2>1. new_data_send = FALSE
    BY DEF Silence, Free, TypeOK
  <2>2. new_data_send' = (new_data_send /\ CalledIn(Expired) = {})
    BY PeriodicMeans
  <2> QED BY <2>1, <2>2
<1> QED
  BY <1>4, <1>5, <1>6, PeriodicMeans DEF vars, boardVars, TypeOK

\* What the timer does to the connection of the talk, to the others, and to
\* the frames on their way to the peers.
LEMMA TickMeans ==
    ASSUME TypeOK, NEW p \in Peer, NEW c \in Slot, Talk(p, c),
           NEW Expired \in SUBSET Expirable, Periodic(Expired)
    PROVE  /\ Expired \subseteq {c} /\ CalledIn(Expired) \subseteq {c}
           /\ \A d \in Slot \ {c} : conn'[d] = conn[d]
           /\ conn'[c] = IF c \in LostIn(Expired) THEN Closed
                         ELSE IF c \in Expired THEN [conn[c] EXCEPT !.nrtx = @ + 1]
                         ELSE IF c = TakerIn(Expired)
                              THEN [conn[c] EXCEPT !.out = response, !.nrtx = 0]
                         ELSE conn[c]
           /\ toPeer'[p] = toPeer[p] \o OutIn(Expired, p)
           /\ Only(p)
<1>1. \A d \in Slot \ {c} : conn[d] = Closed /\ ~Established(d) /\ ~Outstanding(d)
  BY DEF Talk, Established, Outstanding, Closed
<1>2. Expired \subseteq {c}
  BY <1>1 DEF Expirable
<1>3. CalledIn(Expired) \subseteq {c}
  BY <1>1, <1>2 DEF CalledIn
<1>4. TakerIn(Expired) \in {0, c} /\ 0 \notin Slot
  BY <1>3, TakerCalled, ServerAssumption DEF Slot
<1>5. LostIn(Expired) \subseteq {c}
  BY <1>2 DEF LostIn
<1>6. conn' = [d \in Slot |->
                  IF d \in LostIn(Expired) THEN Closed
                  ELSE IF d \in Expired THEN [conn[d] EXCEPT !.nrtx = @ + 1]
                  ELSE IF d = TakerIn(Expired)
                       THEN [conn[d] EXCEPT !.out = response, !.nrtx = 0]
                  ELSE conn[d]]
  BY PeriodicMeans
<1>7. \A d \in Slot \ {c} : conn'[d] = conn[d]
  BY <1>2, <1>4, <1>5, <1>6
<1>8. toPeer' = [q \in Peer |-> toPeer[q] \o OutIn(Expired, q)]
  BY PeriodicMeans
<1>9. ASSUME NEW q \in Peer \ {p} PROVE toPeer'[q] = toPeer[q]
  <2>1. OutIn(Expired, q) = << >>
    BY <1>4, <1>5 DEF OutIn, Talk
  <2>2. toPeer[q] \in Seq(PeerFrame)
    BY DEF TypeOK
  <2> QED BY <1>8, <2>1, <2>2, ConcatEmptySeq
<1>10. Only(p)
  BY <1>9, PeriodicMeans DEF Only
<1> QED BY <1>2, <1>3, <1>6, <1>7, <1>8, <1>10

\* The count of retransmissions says nothing about the stage.
LEMMA StageStays ==
    ASSUME NEW p \in Peer, NEW c \in Slot, Stage(p, c),
           conn'[c].state = conn[c].state, conn'[c].out = conn[c].out,
           conn'[c].snd = conn[c].snd, toPeer'[p] = toPeer[p],
           peer'[p] = peer[p], toBoard'[p] = toBoard[p],
           UNCHANGED <<rx, response, executed, new_data_send, lossy>>
    PROVE  Stage(p, c)'
<1>1. Got(p)' = Got(p) /\ FinFrame(p)' = FinFrame(p)
  BY DEF Got, FinFrame
<1>2. \A g : /\ Settled(conn'[c], g) <=> Settled(conn[c], g)
             /\ Owing(p, conn'[c], g) <=> Owing(p, conn[c], g)
  BY DEF Settled, Owing
<1>3. ASSUME NEW rest, Telling(p, c, rest) PROVE Telling(p, c, rest)'
  BY <1>1, <1>2, <1>3 DEF Telling
<1>4. CASE Opening(p, c)
  BY <1>1, <1>4 DEF Opening, Stage, Free
<1>5. CASE Idle(p, c)
  BY <1>1, <1>3, <1>5 DEF Idle, Stage, Free
<1>6. CASE Asking(p, c)
  <2>1. PICK r \in 0 .. peer[p].sent :
            /\ r < Parts[p] /\ rx = Received(p, Got(p), r)
            /\ r > 0 => Settled(conn[c], Got(p))
            /\ Telling(p, c, Run(p, Got(p), r, peer[p].sent))
    BY <1>6 DEF Asking
  <2>2. Telling(p, c, Run(p, Got(p), r, peer[p].sent))'
    <3>1. Run(p, Got(p), r, peer[p].sent)' = Run(p, Got(p), r, peer[p].sent)
      BY <1>1
    <3> QED BY <1>1, <1>2, <2>1, <3>1 DEF Telling
  <2>3. Asking(p, c)'
    BY <1>1, <1>2, <1>6, <2>1, <2>2 DEF Asking
  <2> QED BY <2>3 DEF Stage
<1>7. CASE Executed(p, c)
  BY <1>1, <1>2, <1>7 DEF Executed, Whole, Stage
<1>8. CASE Answered(p, c)
  BY <1>1, <1>2, <1>8 DEF Answered, Whole, Stage
<1>9. CASE Leaving(p, c)
  <2>1. Telling(p, c, <<FinFrame(p)>>)'
    BY <1>1, <1>2, <1>9 DEF Leaving, Telling
  <2> QED BY <1>1, <1>9, <2>1 DEF Leaving, Stage, Free
<1>10. CASE Dropping(p, c)
  <2>1. Telling(p, c, <<Frame("rst")>>)'
    BY <1>1, <1>2, <1>10 DEF Dropping, Telling
  <2> QED BY <1>1, <1>10, <2>1 DEF Dropping, Stage, Free
<1>11. CASE Parting(p, c)
  BY <1>1, <1>11 DEF Parting, Stage, Free
<1> QED
  BY <1>4, <1>5, <1>6, <1>7, <1>8, <1>9, <1>10, <1>11 DEF Stage

(***************************************************************************)
(* A connection is given up only in a network with loss, between requests  *)
(* or with an unanswered one, and with nothing in flight.                  *)
(***************************************************************************)
LEMMA GivenUpMeans ==
    ASSUME TypeOK, NEW p \in Peer, NEW c \in Slot, Talk(p, c), ~new_data_send,
           Outstanding(c), toBoard[p] = << >>, toPeer[p] = << >>
    PROVE  lossy /\ peer[p].state = "open" /\ Free
<1>1. Got(p) \in Nat /\ Got(p) + 1 \in Nat
  BY Alone
<1>2. \A g \in Nat : ~Settled(conn[c], g)
  BY DEF Settled, Outstanding
<1>3. ~Opening(p, c) /\ ~Executed(p, c) /\ ~Parting(p, c)
  BY DEF Opening, Executed, Parting
<1>4. ASSUME NEW rest \in Seq(BoardFrame), Telling(p, c, rest)
      PROVE  rest = << >> /\ lossy
  <2>1. Ack(Got(p)) \in BoardFrame
    BY <1>1, FrameTypes
  <2>2. <<Ack(Got(p))>> \o rest # << >>
    BY <2>1, Front
  <2> QED BY <1>1, <1>2, <1>4, <2>2 DEF Telling
<1>5. CASE Idle(p, c)
  <2>1. << >> \in Seq(BoardFrame)
    OBVIOUS
  <2> QED BY <1>4, <1>5, <2>1 DEF Idle
<1>6. CASE Asking(p, c)
  <2>1. PICK g \in Nat, n \in Nat : g = Got(p) /\ n = peer[p].sent
    BY <1>1 DEF TypeOK
  <2>2. g + 1 <= MaxAsk
    BY <1>6, <2>1, ServerAssumption DEF Asking, TypeOK
  <2>3. PICK r \in 0 .. n :
            /\ rx = Received(p, g, r) /\ (r > 0 => Settled(conn[c], g))
            /\ Telling(p, c, Run(p, g, r, n))
    BY <1>6, <2>1 DEF Asking
  <2>4. Run(p, g, r, n) \in Seq(BoardFrame)
    <3>1. r \in Nat /\ r <= n
      OBVIOUS
    <3> QED BY <2>2, <3>1, RunIsSeq DEF IsRun
  <2>5. lossy
    BY <1>4, <2>3, <2>4
  <2>6. rx = << >>
    BY <1>2, <2>3, ReceivedNone
  <2> QED BY <1>6, <2>5, <2>6 DEF Asking, Free
<1>7. CASE Answered(p, c)
  <2>1. SUFFICES ASSUME ~lossy PROVE FALSE
    BY <1>7 DEF Answered, Whole, Free
  <2>2. << >> = <<Segment(Got(p), <<p, Got(p) + 1>>)>>
    BY <1>7, <2>1 DEF Answered
  <2> QED BY <2>2
<1>8. ~Leaving(p, c) /\ ~Dropping(p, c)
  <2>1. \A f \in BoardFrame : <<f>> \in Seq(BoardFrame) /\ <<f>> # << >>
    OBVIOUS
  <2>2. FinFrame(p) \in BoardFrame /\ Frame("rst") \in BoardFrame
    BY FinType, FrameTypes
  <2> QED BY <1>4, <2>1, <2>2 DEF Leaving, Dropping
<1> QED
  BY <1>3, <1>5, <1>6, <1>7, <1>8 DEF Talk, Stage

LEMMA TalkTick ==
    ASSUME TypeOK, NEW p \in Peer, NEW c \in Slot, Talk(p, c),
           NEW Expired \in SUBSET Expirable, Periodic(Expired)
    PROVE  /\ Talk(p, c)' \/ Quiet'
           /\ UNCHANGED <<executed, lossy, peer>>
<1>1. /\ Got(p) \in Nat /\ conn[c] \in Connection /\ conn[c].peer = p /\ c # 0
      /\ toPeer[p] \in Seq(PeerFrame) /\ Got(p)' = Got(p)
      /\ UNCHANGED <<rx, response, executed, lossy, peer, toBoard>>
  <2>1. c # 0 /\ toPeer[p] \in Seq(PeerFrame)
    BY ServerAssumption DEF TypeOK, Slot
  <2>2. UNCHANGED <<rx, response, executed, lossy, peer, toBoard>>
    BY PeriodicMeans
  <2> QED BY <2>1, <2>2, Alone DEF Talk, Got
<1>2. /\ Expired \subseteq {c} /\ CalledIn(Expired) \subseteq {c}
      /\ \A d \in Slot \ {c} : conn'[d] = conn[d]
      /\ conn'[c] = IF c \in LostIn(Expired) THEN Closed
                    ELSE IF c \in Expired THEN [conn[c] EXCEPT !.nrtx = @ + 1]
                    ELSE IF c = TakerIn(Expired)
                         THEN [conn[c] EXCEPT !.out = response, !.nrtx = 0]
                    ELSE conn[c]
      /\ toPeer'[p] = toPeer[p] \o OutIn(Expired, p)
      /\ Only(p)
  BY TickMeans
<1>3. LostIn(Expired) \subseteq Expired
  BY DEF LostIn
<1>4. CASE new_data_send
  <2>1. Executed(p, c)
    BY <1>4 DEF Talk, Stage, Opening, Idle, Asking, Answered, Leaving, Dropping, Parting,
                Free
  <2>2. Established(c) /\ ~Outstanding(c)
    BY <2>1 DEF Executed, Settled, Established, Outstanding
  <2>3. Expired = {} /\ LostIn(Expired) = {} /\ CalledIn(Expired) = {c}
    BY <1>2, <1>3, <2>2 DEF Expirable, CalledIn
  <2>4. TakerIn(Expired) = c
    <3>1. \E x \in {c} : \A y \in {c} : x <= y
      BY ServerAssumption DEF Slot
    <3>2. Min({c}) = c
      BY <3>1 DEF Min
    <3> QED BY <1>4, <2>3, <3>2 DEF TakerIn
  <2>5. /\ conn'[c] = [conn[c] EXCEPT !.out = <<p, Got(p) + 1>>, !.nrtx = 0]
        /\ toPeer'[p] = <<Segment(Got(p), <<p, Got(p) + 1>>)>> /\ ~new_data_send'
    <3>1. response = <<p, Got(p) + 1>> /\ conn[c].snd = Got(p) /\ toPeer[p] = << >>
      BY <2>1 DEF Executed, Settled
    <3>2. OutIn(Expired, p) = <<Segment(Got(p), <<p, Got(p) + 1>>)>>
      BY <1>1, <2>3, <2>4, <3>1 DEF OutIn
    <3>3. toPeer'[p] = << >> \o <<Segment(Got(p), <<p, Got(p) + 1>>)>>
      BY <1>2, <3>1, <3>2
    <3>4. conn'[c] = [conn[c] EXCEPT !.out = <<p, Got(p) + 1>>, !.nrtx = 0]
      BY <1>2, <2>3, <2>4, <3>1
    <3>5. ~new_data_send'
      BY <2>3, PeriodicMeans
    <3> QED BY <3>3, <3>4, <3>5
  <2>6. Owing(p, conn'[c], Got(p) + 1) /\ conn'[c].peer = p
    BY <1>1, <2>1, <2>5 DEF Owing, Executed, Settled, Connection
  <2>7. Answered(p, c)'
    BY <1>1, <2>1, <2>5, <2>6 DEF Answered, Executed, Whole
  <2>8. Goes(p, c)
    BY <1>2, <2>6, <2>7 DEF Goes, Stage
  <2> QED BY <1>1, <1>2, <2>8, TalkOrQuiet
<1>5. CASE ~new_data_send
  <2>1. TakerIn(Expired) = 0 /\ ~new_data_send'
    BY <1>5, PeriodicMeans DEF TakerIn
  <2>2. CASE c \in LostIn(Expired)
    <3>1. Outstanding(c) /\ toBoard[p] = << >> /\ toPeer[p] = << >>
      <4>1. c \in Expirable /\ conn[c].nrtx = MaxRtx
        BY <1>3, <2>2 DEF LostIn, GivenUp
      <4>2. ~(conn[c].nrtx < MaxRtx)
        BY <4>1, ServerAssumption
      <4> QED BY <1>1, <4>1, <4>2 DEF Expirable, InFlight
    <3>2. lossy /\ peer[p].state = "open" /\ Free
      BY <1>5, <3>1, GivenUpMeans
    <3>3. toPeer'[p] = <<Frame("rst")>>
      <4>1. OutIn(Expired, p) = <<Frame("rst")>>
        BY <1>1, <2>2 DEF OutIn
      <4>2. toPeer'[p] = << >> \o <<Frame("rst")>>
        BY <1>2, <3>1, <4>1
      <4> QED BY <4>2
    <3>4. Orphan(p)'
      <4>1. \A i \in DOMAIN <<Frame("rst")>> : <<Frame("rst")>>[i].kind # "segment"
        BY DEF Frame
      <4>2. \A i \in DOMAIN toBoard'[p] : toBoard'[p][i].kind # "syn"
        BY <1>1, <3>1
      <4> QED BY <1>1, <3>2, <3>3, <4>1, <4>2 DEF Orphan
    <3>5. Ends(p, c)
      BY <1>1, <1>2, <2>1, <2>2, <3>2, <3>4 DEF Ends, Free
    <3> QED BY <1>1, <1>2, <3>5, TalkOrQuiet
  <2>3. CASE c \notin LostIn(Expired)
    <3>1. /\ conn'[c].state = conn[c].state /\ conn'[c].out = conn[c].out
          /\ conn'[c].snd = conn[c].snd /\ conn'[c].peer = conn[c].peer
      BY <1>1, <1>2, <2>1, <2>3 DEF Connection
    <3>2. toPeer'[p] = toPeer[p]
      <4>1. OutIn(Expired, p) = << >>
        BY <1>2, <1>3, <2>1, <2>3 DEF OutIn
      <4> QED BY <1>1, <1>2, <4>1, ConcatEmptySeq
    <3>3. UNCHANGED <<rx, response, executed, new_data_send, lossy, peer, toBoard>>
      <4>1. new_data_send' = new_data_send
        <5>1. new_data_send = FALSE
          BY <1>5 DEF TypeOK
        <5>2. new_data_send' = (new_data_send /\ CalledIn(Expired) = {})
          BY PeriodicMeans
        <5> QED BY <5>1, <5>2
      <4> QED BY <1>1, <4>1
    <3>4. Stage(p, c)'
      BY <3>1, <3>2, <3>3, StageStays DEF Talk
    <3>5. Goes(p, c)
      BY <1>1, <1>2, <3>1, <3>4 DEF Goes
    <3> QED BY <1>1, <1>2, <3>5, TalkOrQuiet
  <2> QED BY <2>2, <2>3
<1> QED BY <1>4, <1>5

-----------------------------------------------------------------------------
(***************************************************************************)
(* What a step does to a peer, for the promise: it asks, or it is given    *)
(* the answer it waits for, or neither.                                    *)
(***************************************************************************)
Same(q) == peer'[q].asked = peer[q].asked /\ peer'[q].got = peer[q].got

Main == Quiet \/ (\E p \in Peer : Knock(p)) \/ \E p \in Peer, c \in Slot : Talk(p, c)

LEMMA RequestKept ==
    ASSUME \A q \in Peer : Same(q), lossy' = lossy PROVE request' = request
<1>1. Pending' = Pending
  BY DEF Pending, Waiting, Same
<1>2. CASE Pending = {}
  BY <1>1, <1>2 DEF request
<1>3. CASE Pending # {}
  <2> DEFINE p == CHOOSE q \in Pending : TRUE
  <2>1. p \in Peer /\ p' = p
    BY <1>1, <1>3 DEF Pending
  <2>2. request = <<p, peer[p].asked>> /\ request' = <<p, peer'[p].asked>>
    BY <1>1, <1>3 DEF request
  <2> QED BY <2>1, <2>2 DEF Same
<1> QED BY <1>2, <1>3

\* While the others rest, the request is that of p, if it waits.
RequestOf(p) ==
    TypeOK /\ Others(p) /\ ~lossy =>
        request = IF Waiting(p) THEN <<p, peer[p].asked>> ELSE None

LEMMA RequestOne == \A p \in Peer : RequestOf(p)
<1> SUFFICES ASSUME TypeOK, NEW p \in Peer, Others(p), ~lossy
             PROVE  request = IF Waiting(p) THEN <<p, peer[p].asked>> ELSE None
  BY DEF RequestOf
<1>1. \A q \in Peer \ {p} : ~Waiting(q)
  <2>1. ASSUME NEW q \in Peer \ {p} PROVE ~Waiting(q)
    <3>1. Fresh(q) \/ Orphan(q)
      BY DEF Others, Resting
    <3>2. Fresh(q) => peer[q].asked = 0 /\ Len(peer[q].got) = 0
      BY DEF Fresh
    <3> QED BY <3>1, <3>2, FinType DEF Orphan, Waiting
  <2> QED BY <2>1
<1>2. CASE Waiting(p)
  <2>1. Pending = {p}
    BY <1>1, <1>2 DEF Pending
  <2> QED BY <1>2, <2>1 DEF request
<1>3. CASE ~Waiting(p)
  <2>1. Pending = {}
    BY <1>1, <1>3 DEF Pending
  <2> QED BY <1>3, <2>1 DEF request
<1> QED BY <1>2, <1>3

(***************************************************************************)
(* What a step comes to.                                                   *)
(***************************************************************************)
Nothing == (\A q \in Peer : Same(q)) /\ executed' = executed
Asks(p) ==
    /\ Others(p) /\ Others(p)' /\ ~Waiting(p) /\ Waiting(p)'
    /\ peer'[p].asked \in 1 .. MaxAsk
    /\ executed' = None /\ \A q \in Peer : peer'[q].got = peer[q].got
Executes(p) ==
    /\ ~lossy /\ Others(p) /\ Waiting(p) /\ executed = None
    /\ executed' = <<p, peer[p].asked>> /\ \A q \in Peer : Same(q)
Answers(p) ==
    /\ Others(p) /\ Others(p)' /\ Waiting(p) /\ ~Waiting(p)'
    /\ ~lossy => executed = <<p, peer[p].asked>>
    /\ executed' = executed /\ \A q \in Peer \ {p} : Same(q)
    /\ peer'[p].got = Append(peer[p].got, <<p, Got(p) + 1>>)
\* A request that will have no answer, in a network with loss.
Adrift == lossy /\ executed' = executed /\ \A q \in Peer : peer'[q].got = peer[q].got

Outcome ==
    \/ Nothing \/ Adrift
    \/ \E p \in Peer : Asks(p) \/ Executes(p) \/ Answers(p)

\* A step of a peer that rests, and has no connection.
LEMMA RestingStep ==
    ASSUME TypeOK, Main, lossy => executed = None, NEW q \in Peer, Resting(q),
           ConnOf(q) = {}, Receive(q) \/ (Remote(q) /\ ~Connect(q)) \/ Loss(q)
    PROVE  Main' /\ lossy' = lossy /\ (Nothing \/ Adrift)
<1>1. Only(q)
  BY ReceiveOnly, RemoteOnly
<1>2. /\ Resting(q)' /\ UNCHANGED <<boardVars, lossy>> /\ peer'[q].got = peer[q].got
      /\ lossy \/ peer'[q].asked = peer[q].asked
  BY RestingReceive, RestingRemote
<1>3. Nothing \/ Adrift
  BY <1>1, <1>2 DEF Only, Nothing, Adrift, Same, boardVars
<1>4. ASSUME NEW p \in Peer \ {q}, Resting(p) PROVE Resting(p)'
  BY <1>1, <1>4 DEF Only, Resting, Fresh, Orphan
<1>5. Silence => Silence'
  BY <1>2 DEF Silence, Free, boardVars
<1>6. CASE Quiet
  <2>1. ASSUME NEW p \in Peer PROVE Resting(p)'
    <3>1. CASE p = q
      BY <1>2, <3>1
    <3>2. CASE p # q
      BY <1>4, <1>6, <3>2 DEF Quiet
    <3> QED BY <3>1, <3>2
  <2>2. Quiet'
    BY <1>5, <1>6, <2>1 DEF Quiet
  <2> QED BY <1>2, <1>3, <2>2 DEF Main
<1>7. ASSUME NEW p \in Peer, Knock(p) PROVE Main'
  <2>1. p # q
    BY <1>7 DEF Knock, Knocking, Resting, Fresh, Orphan
  <2>2. Knocking(p)'
    BY <1>1, <1>7, <2>1 DEF Only, Knock, Knocking
  <2>3. Others(p)'
    BY <1>2, <1>4, <1>7 DEF Knock, Others
  <2> QED BY <1>5, <1>7, <2>2, <2>3 DEF Knock, Main
<1>8. ASSUME NEW p \in Peer, NEW c \in Slot, Talk(p, c) PROVE Main'
  <2>1. p # q
    BY <1>8, Alone
  <2>2. Stage(p, c)'
    <3>1. /\ conn'[c] = conn[c] /\ toPeer'[p] = toPeer[p] /\ peer'[p] = peer[p]
          /\ toBoard'[p] = toBoard[p]
          /\ UNCHANGED <<rx, response, executed, new_data_send, lossy>>
      BY <1>1, <1>2, <2>1 DEF Only, boardVars
    <3> QED BY <1>8, <3>1, StageStays DEF Talk
  <2>3. Others(p)'
    BY <1>2, <1>4, <1>8 DEF Talk, Others
  <2>4. Talk(p, c)'
    BY <1>2, <1>8, <2>2, <2>3 DEF Talk, boardVars
  <2> QED BY <2>4 DEF Main
<1> QED BY <1>2, <1>3, <1>6, <1>7, <1>8 DEF Main

\* A SYN of a peer that begins, and its arrival.
LEMMA ConnectStep ==
    ASSUME TypeOK, Orderly, Main, NEW q \in Peer, Connect(q)
    PROVE  Main' /\ lossy' = lossy /\ Nothing
<1>1. \A p \in Peer : Gone(p) /\ ConnOf(p) = {}
  BY DEF Connect
<1>2. Quiet
  <2>1. \A p \in Peer : ~Knock(p)
    BY <1>1 DEF Knock, Knocking, Gone
  <2>2. ASSUME NEW p \in Peer, NEW c \in Slot PROVE ~Talk(p, c)
    <3>1. Talk(p, c) => ConnOf(p) = {c}
      BY Alone
    <3> QED BY <1>1, <3>1
  <2> QED BY <2>1, <2>2 DEF Main
<1>3. Fresh(q)
  BY <1>2 DEF Connect, Quiet, Resting, Orphan
<1>4. Knocking(q)'
  <2>1. /\ peer'[q].state = "syn" /\ peer'[q].asked = 0 /\ peer'[q].got = << >>
        /\ toPeer'[q] = << >>
    BY <1>3 DEF Connect, Fresh, TypeOK
  <2>2. toBoard'[q] = Append(<< >>, Frame("syn"))
    BY <1>3 DEF Connect, ToBoard, Fresh, TypeOK
  <2>3. toBoard'[q] = <<Frame("syn")>>
    BY <2>2
  <2> QED BY <2>1, <2>3 DEF Knocking
<1>5. Only(q)
  BY RemoteOnly DEF Remote
<1>6. Others(q)'
  BY <1>2, <1>5, OthersKept DEF Quiet, Others
<1>7. Silence'
  BY <1>2 DEF Connect, Quiet, Silence, Free, boardVars
<1>8. Nothing
  BY DEF Connect, Nothing, Same, boardVars, TypeOK
<1> QED BY <1>4, <1>6, <1>7, <1>8 DEF Knock, Main, Connect

LEMMA KnockStep ==
    ASSUME TypeOK, NEW p \in Peer, Knock(p), Receive(p) \/ Remote(p) \/ Loss(p)
    PROVE  Main' /\ lossy' = lossy /\ Nothing
<1>1. /\ peer[p].state = "syn" /\ toPeer[p] = << >> /\ \A c \in Slot : conn[c] = Closed
      /\ toBoard[p] = <<Frame("syn")>> /\ Free /\ peer[p].asked = 0 /\ peer[p].got = << >>
  BY DEF Knock, Knocking, Silence
<1>2. /\ Head(toBoard[p]) = Frame("syn") /\ Tail(toBoard[p]) = << >>
      /\ Head(toBoard[p]).kind = "syn"
  <2>1. Head(toBoard[p]) = Frame("syn") /\ Tail(toBoard[p]) = << >>
    BY <1>1
  <2> QED BY <2>1, FrameKinds
<1>3. ~Remote(p) /\ ~Loss(p)
  BY <1>1, <1>2 DEF Remote, Connect, AskNext, SendPart, Close, Abort, PeerReceive, Loss,
                    LoseToPeer, LoseToBoard
<1>4. /\ ReceiveSyn(p) /\ toBoard'[p] = << >> /\ UNCHANGED <<lossy, peer>>
  <2>1. \A f : f.kind = "syn" => ~ReceiveStray(p, f)
    BY DEF ReceiveStray
  <2> QED BY <1>2, <1>3, <2>1 DEF Receive, TypeOK
<1>5. PICK c \in Slot :
          conn' = [conn EXCEPT ![c] = [state |-> "syn_rcvd", peer |-> p, out |-> Syn,
                                       nrtx |-> 0, snd |-> 0]]
  BY <1>4 DEF ReceiveSyn
<1>6. toPeer'[p] = <<Frame("synack")>>
  <2>1. toPeer'[p] = Append(<< >>, Frame("synack"))
    BY <1>1, <1>4 DEF ReceiveSyn, ToPeer, TypeOK
  <2> QED BY <2>1
<1>7. /\ conn'[c].state = "syn_rcvd" /\ conn'[c].out = Syn /\ conn'[c].snd = 0
      /\ conn'[c].peer = p /\ \A d \in Slot \ {c} : conn'[d] = Closed
  BY <1>1, <1>5 DEF TypeOK
<1>8. Opening(p, c)'
  <2>1. Got(p)' = 0
    BY <1>1, <1>4 DEF Got
  <2> QED BY <1>1, <1>4, <1>6, <1>7, <2>1 DEF Opening, Free, ReceiveSyn
<1>9. Others(p)'
  BY <1>3, ReceiveOnly, OthersKept DEF Knock
<1>10. Talk(p, c)'
  BY <1>7, <1>8, <1>9 DEF Talk, Stage
<1>11. Nothing
  BY <1>4 DEF Nothing, Same, ReceiveSyn
<1> QED BY <1>4, <1>10, <1>11 DEF Main

LEMMA TalkStep ==
    ASSUME TypeOK, Orderly, lossy => executed = None, NEW p \in Peer, NEW c \in Slot,
           Talk(p, c), Receive(p) \/ Remote(p) \/ Loss(p)
    PROVE  Main' /\ lossy' = lossy /\ Outcome
<1>1. Only(p) /\ Others(p) /\ lossy' = lossy
  BY ReceiveOnly, RemoteOnly DEF Only, Talk
<1>2. Others(p)'
  BY <1>1, OthersKept
<1>3. \A q \in Peer \ {p} : Same(q)
  BY <1>1 DEF Only, Same
<1>4. Talk(p, c)' \/ Quiet' => Main'
  BY DEF Main
<1>5. Got(p) \in Nat /\ peer[p].asked \in 0 .. MaxAsk /\ peer \in [Peer -> PeerState]
  BY Alone DEF TypeOK, PeerState
<1>6. CASE Receive(p)
  <2>1. /\ Talk(p, c)' \/ Quiet'
        /\ UNCHANGED <<lossy, peer>>
        /\ executed' # executed =>
              ~lossy /\ Asking(p, c) /\ executed' = <<p, peer[p].asked>>
    BY <1>6, TalkReceive
  <2>2. \A q \in Peer : Same(q)
    BY <2>1 DEF Same
  <2>3. CASE executed' = executed
    BY <1>4, <2>1, <2>2, <2>3 DEF Outcome, Nothing
  <2>4. CASE executed' # executed
    <3>1. Executes(p)
      BY <1>1, <1>5, <2>1, <2>2, <2>4 DEF Executes, Asking, Waiting, Got
    <3> QED BY <1>4, <2>1, <3>1 DEF Outcome
  <2> QED BY <2>3, <2>4
<1>7. CASE AskNext(p)
  <2>1. Idle(p, c) /\ Goes(p, c)
    BY <1>7, TalkAskNext
  <2>2. /\ peer'[p].asked = peer[p].asked + 1 /\ peer'[p].got = peer[p].got
        /\ peer[p].asked < MaxAsk /\ executed' = None /\ peer[p].asked = Got(p)
    BY <1>5, <1>7, <2>1 DEF AskNext, Idle, PeerState
  <2>3. peer'[p].asked \in 1 .. MaxAsk /\ Waiting(p)' /\ ~Waiting(p)
    BY <1>5, <2>2, ServerAssumption DEF Waiting, Got
  <2>4. Asks(p)
    BY <1>1, <1>2, <1>3, <2>2, <2>3 DEF Asks, Same
  <2> QED BY <1>1, <1>4, <2>1, <2>4, TalkOrQuiet DEF Outcome
<1>8. CASE SendPart(p)
  <2>1. Goes(p, c)
    BY <1>8, TalkSendPart
  <2>2. Same(p) /\ executed' = executed
    BY <1>5, <1>8 DEF SendPart, Same, boardVars, PeerState
  <2> QED BY <1>1, <1>3, <1>4, <2>1, <2>2, TalkOrQuiet DEF Outcome, Nothing
<1>9. CASE Close(p) \/ Abort(p)
  <2>1. Goes(p, c)
    BY <1>9, TalkClose DEF Close, Abort
  <2>2. Same(p) /\ executed' = executed
    BY <1>5, <1>9 DEF Close, Abort, Same, boardVars, PeerState
  <2> QED BY <1>1, <1>3, <1>4, <2>1, <2>2, TalkOrQuiet DEF Outcome, Nothing
<1>10. CASE PeerReceive(p)
  <2>1. /\ Goes(p, c) /\ peer'[p].asked = peer[p].asked /\ UNCHANGED <<boardVars, lossy>>
        /\ \/ peer'[p].got = peer[p].got
           \/ Answered(p, c) /\ peer'[p].got = Append(peer[p].got, <<p, Got(p) + 1>>)
    BY <1>10, TalkPeerReceive
  <2>2. CASE peer'[p].got = peer[p].got
    BY <1>1, <1>3, <1>4, <2>1, <2>2, TalkOrQuiet DEF Outcome, Nothing, Same, boardVars
  <2>3. CASE Answered(p, c) /\ peer'[p].got = Append(peer[p].got, <<p, Got(p) + 1>>)
    <3>1. Len(peer'[p].got) = Got(p) + 1
      <4>1. peer[p].got \in Seq(Answer)
        BY <1>5 DEF PeerState
      <4> QED BY <2>3, <4>1, AppendProperties DEF Got
    <3>2. Waiting(p) /\ ~Waiting(p)' /\ executed' = executed
      BY <1>5, <2>1, <2>3, <3>1 DEF Answered, Whole, Waiting, Got, boardVars
    <3>3. ~lossy => executed = <<p, peer[p].asked>>
      BY <2>3 DEF Answered, Whole
    <3>4. Answers(p)
      BY <1>1, <1>2, <1>3, <2>3, <3>2, <3>3 DEF Answers
    <3> QED BY <1>1, <1>4, <2>1, <3>4, TalkOrQuiet DEF Outcome
  <2> QED BY <2>1, <2>2, <2>3
<1>11. CASE Loss(p)
  <2>1. Goes(p, c) /\ UNCHANGED <<boardVars, lossy, peer>>
    BY <1>11, TalkLoss
  <2> QED BY <1>1, <1>4, <2>1, TalkOrQuiet DEF Outcome, Nothing, Same, boardVars
<1>12. ~Connect(p)
  BY Alone DEF Connect
<1> QED
  BY <1>6, <1>7, <1>8, <1>9, <1>10, <1>11, <1>12 DEF Remote

-----------------------------------------------------------------------------
LEMMA MainInit == Init => Main /\ AnswersMine /\ executed = None
<1> SUFFICES ASSUME Init PROVE Main /\ AnswersMine /\ executed = None
  OBVIOUS
<1>1. \A p \in Peer : Fresh(p)
  BY DEF Init, Fresh
<1>2. Silence
  BY DEF Init, Silence, Free
<1>3. AnswersMine
  BY DEF Init, AnswersMine
<1> QED BY <1>1, <1>2, <1>3 DEF Main, Quiet, Resting, Init

LEMMA MainNext ==
    ASSUME Orderly, IInv, [Next]_vars
    PROVE  Main' /\ lossy' = lossy /\ Outcome
<1>1. TypeOK /\ Main /\ (lossy => executed = None)
  BY DEF IInv, Main
<1>2. CASE UNCHANGED vars
  <2>1. Main'
    <3>1. \A p \in Peer : Only(p)
      BY <1>2 DEF Only, vars
    <3>2. CASE Quiet
      <4>1. Quiet'
        BY <1>2, <3>2 DEF Quiet, Silence, Free, Resting, Fresh, Orphan, vars, boardVars
      <4> QED BY <4>1 DEF Main
    <3>3. ASSUME NEW p \in Peer, Knock(p) PROVE Main'
      <4>1. Knock(p)'
        BY <1>2, <3>1, <3>3, OthersKept DEF Knock, Knocking, Silence, Free, vars, boardVars
      <4> QED BY <4>1 DEF Main
    <3>4. ASSUME NEW p \in Peer, NEW c \in Slot, Talk(p, c) PROVE Main'
      <4>1. Stage(p, c)'
        BY <1>2, <3>4, StageStays DEF Talk, vars, boardVars
      <4>2. Talk(p, c)'
        BY <1>2, <3>1, <3>4, <4>1, OthersKept DEF Talk, vars, boardVars
      <4> QED BY <4>2 DEF Main
    <3> QED BY <1>1, <3>2, <3>3, <3>4 DEF Main
  <2>2. Nothing /\ lossy' = lossy
    BY <1>2 DEF Nothing, Same, vars, boardVars
  <2> QED BY <2>1, <2>2 DEF Outcome
<1>3. ASSUME NEW Expired \in SUBSET Expirable, Periodic(Expired)
      PROVE  Main' /\ lossy' = lossy /\ Outcome
  <2>1. UNCHANGED <<executed, lossy, peer>>
    BY <1>3, PeriodicMeans
  <2>2. Outcome
    BY <2>1 DEF Outcome, Nothing, Same
  <2>3. CASE Silence
    <3>1. UNCHANGED vars
      BY <1>1, <1>3, <2>3, SilentTick
    <3> QED BY <1>2, <3>1
  <2>4. ASSUME NEW p \in Peer, NEW c \in Slot, Talk(p, c) PROVE Main'
    BY <1>1, <1>3, <2>4, TalkTick DEF Main
  <2> QED BY <1>1, <2>1, <2>2, <2>3, <2>4 DEF Main, Quiet, Knock
<1>4. ASSUME NEW q \in Peer, Receive(q) \/ Remote(q) \/ Loss(q)
      PROVE  Main' /\ lossy' = lossy /\ Outcome
  <2>1. CASE Connect(q)
    BY <1>1, <2>1, ConnectStep DEF Outcome
  <2>2. CASE ~Connect(q) /\ Resting(q) /\ ConnOf(q) = {}
    BY <1>1, <1>4, <2>2, RestingStep DEF Outcome
  <2>3. CASE Knock(q)
    BY <1>1, <1>4, <2>3, KnockStep DEF Outcome
  <2>4. ASSUME NEW c \in Slot, Talk(q, c)
        PROVE  Main' /\ lossy' = lossy /\ Outcome
    BY <1>1, <1>4, <2>4, TalkStep
  <2>5. ASSUME Silence PROVE ConnOf(q) = {}
    BY <2>5 DEF Silence, ConnOf, Closed
  <2>6. \/ Resting(q) /\ ConnOf(q) = {}
        \/ Knock(q)
        \/ \E c \in Slot : Talk(q, c)
    <3>1. CASE Quiet
      BY <2>5, <3>1 DEF Quiet
    <3>2. ASSUME NEW p \in Peer \ {q}, Knock(p) PROVE Resting(q) /\ ConnOf(q) = {}
      BY <2>5, <3>2 DEF Knock, Others
    <3>3. ASSUME NEW p \in Peer \ {q}, NEW c \in Slot, Talk(p, c)
          PROVE  Resting(q) /\ ConnOf(q) = {}
      BY <1>1, <3>3, Alone DEF Talk, Others
    <3> QED BY <1>1, <3>1, <3>2, <3>3 DEF Main
  <2> QED BY <2>1, <2>2, <2>3, <2>4, <2>6
<1> QED BY <1>2, <1>3, <1>4 DEF Next, Tick

LEMMA NextIInv == ASSUME Orderly, IInv, [Next]_vars PROVE IInv'
<1>1. Main' /\ lossy' = lossy /\ Outcome /\ TypeOK'
  BY MainNext, NextType DEF IInv
<1>2. lossy => executed = None
  BY DEF IInv
<1>3. lossy' => executed' = None
  <2>1. executed' = executed \/ executed' = None \/ ~lossy
    <3>1. CASE Nothing \/ Adrift
      BY <3>1 DEF Nothing, Adrift
    <3>2. ASSUME NEW p \in Peer, Asks(p) \/ Executes(p) \/ Answers(p)
          PROVE  executed' = executed \/ executed' = None \/ ~lossy
      <4>1. CASE Asks(p)
        BY <4>1, Zenon DEF Asks
      <4>2. CASE Executes(p)
        BY <4>2, Zenon DEF Executes
      <4>3. CASE Answers(p)
        BY <4>3, Zenon DEF Answers
      <4> QED BY <3>2, <4>1, <4>2, <4>3
    <3> QED BY <1>1, <3>1, <3>2 DEF Outcome
  <2> QED BY <1>1, <1>2, <2>1
<1>4. ASSUME NEW q \in Peer
      PROVE  \/ peer'[q].got = peer[q].got
             \/ peer'[q].got = Append(peer[q].got, <<q, Len(peer[q].got) + 1>>)
  BY <1>1 DEF Outcome, Nothing, Adrift, Asks, Executes, Answers, Same, Got
<1>5. ASSUME NEW q \in Peer, NEW i \in DOMAIN peer'[q].got
      PROVE  peer'[q].got[i] = <<q, i>>
  <2>1. /\ peer[q].got \in Seq(Answer)
        /\ \A j \in DOMAIN peer[q].got : peer[q].got[j] = <<q, j>>
    BY DEF IInv, TypeOK, AnswersMine
  <2>2. PICK got \in Seq(Answer) : got = peer[q].got
    BY <2>1
  <2>3. CASE peer'[q].got = got
    BY <1>5, <2>1, <2>2, <2>3
  <2>4. CASE peer'[q].got = Append(got, <<q, Len(got) + 1>>)
    <3>1. /\ DOMAIN Append(got, <<q, Len(got) + 1>>) = 1 .. Len(got) + 1
          /\ \A j \in 1 .. Len(got) : Append(got, <<q, Len(got) + 1>>)[j] = got[j]
          /\ Append(got, <<q, Len(got) + 1>>)[Len(got) + 1] = <<q, Len(got) + 1>>
          /\ DOMAIN got = 1 .. Len(got)
      OBVIOUS
    <3> QED BY <1>5, <2>1, <2>2, <2>4, <3>1
  <2> QED BY <1>4, <2>2, <2>3, <2>4
<1>6. AnswersMine'
  BY <1>5 DEF AnswersMine
<1> QED BY <1>1, <1>3, <1>6 DEF IInv, Main

(***************************************************************************)
(* With peers that take turns, IInv is an invariant.                       *)
(***************************************************************************)
LEMMA SpecIInv == ASSUME Orderly PROVE Spec => []IInv
<1>1. Init => IInv
  BY InitType, MainInit DEF IInv, Main
<1>2. IInv /\ [Next]_vars => IInv'
  BY NextIInv
<1> QED BY <1>1, <1>2, PTL DEF Spec

(***************************************************************************)
(* A peer that takes turns with the others receives only the answers to    *)
(* its own requests, in their order, whatever is lost or retransmitted on  *)
(* the way: although the buffer, the answer that waits and the mark that   *)
(* it waits are shared by all connections of the application.              *)
(***************************************************************************)
THEOREM AnswersAreMine == ASSUME Orderly PROVE Spec => []AnswersMine
<1>1. IInv => AnswersMine
  BY DEF IInv
<1> QED BY <1>1, SpecIInv, PTL

(***************************************************************************)
(* And over a network without loss each request is executed at most once,  *)
(* as it was sent, and answered only after that: the safety part of what   *)
(* RequestReply promises.                                                  *)
(***************************************************************************)
LEMMA PromiseStep ==
    ASSUME Orderly, IInv, [Next]_vars PROVE [Promise!Next]_<<request, executed>>
<1>1. TypeOK /\ lossy' = lossy /\ Outcome /\ IInv' /\ TypeOK'
  BY MainNext, NextIInv DEF IInv
<1> DEFINE Requests == \A p \in Peer : RequestOf(p)
<1>2. Requests /\ Requests'
  BY RequestOne, PTL
<1>3. CASE lossy
  BY <1>1, <1>3 DEF IInv, request, Pending
<1>4. CASE ~lossy
  <2>1. CASE Nothing
    BY <1>1, <2>1, RequestKept DEF Nothing
  <2>2. ASSUME NEW p \in Peer, Asks(p) PROVE Promise!Next
    <3>1. request = None
      BY <1>1, <1>4, <2>2, <1>2 DEF RequestOf, Asks
    <3>2. request' = <<p, peer'[p].asked>>
      BY <1>1, <1>4, <2>2, <1>2 DEF RequestOf, Asks
    <3>3. request' \in Ask /\ executed' = None
      BY <2>2, <3>2 DEF Asks, Ask
    <3> QED BY <3>1, <3>3 DEF Promise!Next, Promise!Ask
  <2>3. ASSUME NEW p \in Peer, Executes(p) PROVE Promise!Next
    <3>1. request = <<p, peer[p].asked>> /\ request' = request
      BY <1>1, <2>3, <1>2, RequestKept DEF RequestOf, Executes
    <3>2. request # None
      <4>1. peer[p].asked \in 1 .. MaxAsk
        <5>1. peer[p].asked \in 0 .. MaxAsk
          BY <1>1 DEF TypeOK
        <5>2. peer[p].asked > Len(peer[p].got)
          BY <2>3 DEF Executes, Waiting
        <5> QED BY <1>1, <5>1, <5>2, FinType
      <4>2. request \in Ask
        BY <3>1, <4>1 DEF Ask
      <4> QED BY <4>2, MarkAssumption DEF Answer
    <3> QED BY <2>3, <3>1, <3>2 DEF Executes, Promise!Next, Promise!Execute
  <2>4. ASSUME NEW p \in Peer, Answers(p) PROVE Promise!Next
    <3>1. request = <<p, peer[p].asked>> /\ executed = request /\ UNCHANGED executed
      BY <1>1, <1>4, <2>4, <1>2 DEF RequestOf, Answers
    <3>2. request # None
      <4>1. peer[p].asked \in 1 .. MaxAsk
        <5>1. peer[p].asked \in 0 .. MaxAsk
          BY <1>1 DEF TypeOK
        <5>2. peer[p].asked > Len(peer[p].got)
          BY <2>4 DEF Answers, Waiting
        <5> QED BY <1>1, <5>1, <5>2, FinType
      <4>2. request \in Ask
        BY <3>1, <4>1 DEF Ask
      <4> QED BY <4>2, MarkAssumption DEF Answer
    <3>3. request' = None
      BY <1>1, <1>4, <2>4, <1>2 DEF RequestOf, Answers
    <3> QED BY <3>1, <3>2, <3>3 DEF Promise!Next, Promise!Answer
  <2> QED BY <1>1, <1>4, <2>1, <2>2, <2>3, <2>4 DEF Outcome, Adrift
<1> QED BY <1>3, <1>4

THEOREM EthernetPromiseKept ==
    ASSUME Orderly
    PROVE  Spec => Promise!Init /\ [][Promise!Next]_<<request, executed>>
<1>1. Init => Promise!Init
  BY DEF Init, Promise!Init, request, Pending, Waiting
<1>2. IInv /\ [Next]_vars => [Promise!Next]_<<request, executed>>
  BY PromiseStep
<1> QED BY <1>1, <1>2, SpecIInv, PTL DEF Spec
=============================================================================
