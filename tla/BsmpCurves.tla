----------------------------- MODULE BsmpCurves -----------------------------
(***************************************************************************)
(* A curve of the BSMP server (server_priv.c), read and written block by   *)
(* block by the client library (client.c), while another host may write    *)
(* blocks of it too.  A block holds what was written to it last, up to the *)
(* size of a block; the application may find itself busy instead.  A curve *)
(* is known by its checksum, here the content it is computed from; one of  *)
(* zeros is not valid.                                                     *)
(***************************************************************************)
EXTENDS BsmpClient

CONSTANTS
    NBlocks,     \* curve->info.nblocks
    BlockSize,   \* curve->info.block_size
    Data,        \* what the application of the client writes to the curve
    OtherData    \* what the other host writes to a block

ASSUME CurveAssumption ==
    /\ NBlocks \in Nat \ {0} /\ BlockSize \in Nat \ {0}
    /\ Data \subseteq Seq(Nat) /\ OtherData \subseteq Seq(Nat)
    /\ \E d \in OtherData : Len(d) = BlockSize

Block == 0 .. NBlocks - 1
NoChecksum == [valid |-> FALSE, of |-> << >>]

VARIABLES
    curve,     \* the server's: whether it is writable, its blocks, its checksum
    copy,      \* the client's: whether it is writable, its checksum
    work,      \* what the client does with the curve, the block it is at, the
               \* data still to be sent or received so far
    told,      \* what the application is told in this step
    written    \* history: what the client wrote last, whether that succeeded,
               \* and whether only the client has written since it began

curves == <<curve, copy, work, told, written>>

Idle == [at |-> "idle", block |-> 0, data |-> << >>]
Nothing == [what |-> "nothing", ok |-> FALSE, data |-> << >>]
NotWritten == [ok |-> FALSE, clean |-> FALSE, data |-> << >>]

CurveInit ==
    /\ ClientInit
    /\ curve \in [writable : BOOLEAN,
                  blocks : {[b \in Block |-> CHOOSE d \in OtherData : Len(d) = BlockSize]},
                  checksum : {NoChecksum}]
    /\ copy = [writable |-> FALSE, checksum |-> NoChecksum]
    /\ work = [Idle EXCEPT !.at = "list"]
    /\ told = Nothing /\ written = NotWritten

-----------------------------------------------------------------------------
(***************************************************************************)
(* The server's commands.                                                  *)
(***************************************************************************)
CurveQueryList ==
    Give("CURVE_LIST", <<IF curve.writable THEN 1 ELSE 0, BlockSize, NBlocks>>)
CurveQueryCsum == Give("CURVE_CSUM", curve.checksum)

CurveBlockRequest(b) ==
    \/ b \notin Block /\ Refuse("INVALID_VALUE")
    \/ b \in Block /\ Refuse("RESOURCE_BUSY")
    \/ b \in Block /\ Give("CURVE_BLOCK", curve.blocks[b])

\* The refusals of curve_block, in their order.
RefuseBlock(b, data) ==
    \/ Len(data) \notin 1 .. BlockSize /\ Refuse("INVALID_PAYLOAD_SIZE")
    \/ /\ Len(data) \in 1 .. BlockSize
       /\ \/ b \notin Block /\ Refuse("INVALID_VALUE")
          \/ b \in Block /\ ~curve.writable /\ Refuse("READ_ONLY")
          \/ b \in Block /\ curve.writable /\ Refuse("RESOURCE_BUSY")

Storable(b, data) == curve.writable /\ b \in Block /\ Len(data) \in 1 .. BlockSize

\* Mutant of CurveBlock: the checksum stays.
CurveBlockKeep(b, data) ==
    \/ RefuseBlock(b, data) /\ UNCHANGED curve
    \/ /\ Storable(b, data)
       /\ curve' = [curve EXCEPT !.blocks[b] = data]
       /\ Give("OK", << >>)

CurveBlock(b, data) ==
    \/ RefuseBlock(b, data) /\ UNCHANGED curve
    \/ /\ Storable(b, data)
       /\ curve' = [curve EXCEPT !.blocks[b] = data, !.checksum = NoChecksum]
       /\ Give("OK", << >>)

\* What blocks hold, up to the first one with fewer bytes than limit.
UpTo(blocks, limit) ==
    LET ends == {b \in Block : Len(blocks[b]) < limit} \cup {NBlocks - 1}
        last == CHOOSE b \in ends : \A c \in ends : b <= c IN
    FlattenSeq([i \in 1 .. last + 1 |-> blocks[i - 1]])

\* The code compares the bytes read with the number of blocks, so that it
\* ends too early or too late when a block has another size than that.
Digest(blocks) == [valid |-> TRUE, of |-> UpTo(blocks, NBlocks)]

CurveRecalcCsum ==
    \/ Refuse("RESOURCE_BUSY") /\ UNCHANGED curve
    \/ /\ curve' = [curve EXCEPT !.checksum = Digest(curve.blocks)]
       /\ Give("CURVE_CSUM", curve'.checksum)

-----------------------------------------------------------------------------
(***************************************************************************)
(* The client's functions.  What fails leaves the application with an      *)
(* error, at the block it has come to.                                     *)
(***************************************************************************)
Tells(what, ok, data) == told' = [what |-> what, ok |-> ok, data |-> data]
Fails(what) == work' = Idle /\ Tells(what, FALSE, << >>)

\* A command that may change the curve, or be lost before it does.
ExchangeBlock(Cmd, Answered, Failed) ==
    \/ Cmd /\ Answered
    \/ (Cmd \/ UNCHANGED <<server, curve>>) /\ Failed

\* update_curves_list: the list, then the checksum, the lack of which is no
\* failure.
UpdateCurves ==
    /\ work.at = "list"
    /\ Exchange(CurveQueryList,
                /\ copy' = [writable |-> answer'.payload[1] = 1, checksum |-> NoChecksum]
                /\ work' = [Idle EXCEPT !.at = "checksum"],
                UNCHANGED <<copy, work>>)
    /\ told' = Nothing /\ UNCHANGED <<curve, written>>

UpdateChecksum ==
    /\ work.at = "checksum"
    /\ Exchange(CurveQueryCsum, copy' = [copy EXCEPT !.checksum = answer'.payload],
                UNCHANGED copy)
    /\ work' = Idle /\ told' = Nothing /\ UNCHANGED <<curve, written>>

WriteCurve(data) ==
    /\ work.at = "idle" /\ copy.writable
    /\ work' = [at |-> "write", block |-> 0, data |-> data]
    /\ written' = [ok |-> FALSE, clean |-> TRUE, data |-> data]
    /\ told' = Nothing /\ UNCHANGED <<server, curve, copy>>

NextChunk == SubSeq(work.data, 1, IF Len(work.data) < BlockSize THEN Len(work.data) ELSE BlockSize)
Remainder == SubSeq(work.data, Len(NextChunk) + 1, Len(work.data))

\* Mutant of SendCurveBlock: the function ends with the data.
SendCurveBlockStops ==
    /\ work.at = "write"
    /\ ExchangeBlock(CurveBlock(work.block, NextChunk),
                IF Got("OK")
                THEN IF work.block + 1 < NBlocks /\ Remainder # << >>
                     THEN /\ work' = [work EXCEPT !.block = @ + 1, !.data = Remainder]
                          /\ told' = Nothing /\ UNCHANGED written
                     ELSE /\ work' = Idle /\ Tells("write", TRUE, << >>)
                          /\ written' = [written EXCEPT !.ok = TRUE]
                ELSE Fails("write") /\ UNCHANGED written,
                Fails("write") /\ UNCHANGED written)
    /\ UNCHANGED copy

\* Every block is sent, also one for which nothing is left of the data.
SendCurveBlock ==
    /\ work.at = "write"
    /\ ExchangeBlock(CurveBlock(work.block, NextChunk),
                IF Got("OK")
                THEN IF work.block + 1 < NBlocks
                     THEN /\ work' = [work EXCEPT !.block = @ + 1, !.data = Remainder]
                          /\ told' = Nothing /\ UNCHANGED written
                     ELSE /\ work' = Idle /\ Tells("write", TRUE, << >>)
                          /\ written' = [written EXCEPT !.ok = TRUE]
                ELSE Fails("write") /\ UNCHANGED written,
                Fails("write") /\ UNCHANGED written)
    /\ UNCHANGED copy

ReadCurve ==
    /\ work.at = "idle"
    /\ work' = [Idle EXCEPT !.at = "read"]
    /\ told' = Nothing /\ UNCHANGED <<server, curve, copy, written>>

RequestCurveBlock ==
    /\ work.at = "read"
    /\ Exchange(CurveBlockRequest(work.block),
                IF Got("CURVE_BLOCK")
                THEN LET data == work.data \o answer'.payload IN
                     IF Len(answer'.payload) < BlockSize \/ work.block + 1 = NBlocks
                     THEN work' = Idle /\ Tells("read", TRUE, data)
                     ELSE /\ work' = [work EXCEPT !.block = @ + 1, !.data = data]
                          /\ told' = Nothing
                ELSE Fails("read"),
                Fails("read"))
    /\ UNCHANGED <<curve, copy, written>>

\* The client takes OK only, which the server never answers, and so never
\* loads the list again.
RecalcChecksum ==
    /\ work.at = "idle"
    /\ ExchangeBlock(CurveRecalcCsum,
                IF Got("OK") THEN work' = [Idle EXCEPT !.at = "list"] /\ told' = Nothing
                             ELSE Fails("checksum"),
                Fails("checksum"))
    /\ UNCHANGED <<copy, written>>

\* Another host writes blocks, also ones that do not exist or do not fit, and
\* has the checksum computed.
AnotherHost ==
    /\ \/ CurveRecalcCsum /\ UNCHANGED written
       \/ \E b \in 0 .. NBlocks, data \in OtherData :
             /\ CurveBlock(b, data)
             /\ written' = [written EXCEPT !.clean = @ /\ ~Got("OK")]
    /\ told' = Nothing /\ UNCHANGED <<copy, work>>

Curves ==
    /\ \/ UpdateCurves \/ UpdateChecksum
       \/ SendCurveBlock \/ ReadCurve \/ RequestCurveBlock \/ RecalcChecksum
       \/ \E data \in Data : WriteCurve(data)
       \/ AnotherHost
    /\ UNCHANGED <<vars, groups, funcs>>

CurveNext ==
    \/ ClientNext /\ UNCHANGED curves
    \/ hosts = "curves" /\ Complete /\ Curves /\ UNCHANGED <<hosts, client>>

CurveSpec == CurveInit /\ [][CurveNext]_<<hosts, server, client, curves>>

-----------------------------------------------------------------------------
\* The bytes of the curve: a block that is not full is its last one, as for
\* bsmp_read_curve (client.c:698).
Content(blocks) == UpTo(blocks, BlockSize)

(***************************************************************************)
(* A checksum the server gives is the "MD5 checksum of the curve"          *)
(* (bsmp.h:155) as it is now, every byte of it and nothing behind its end, *)
(* however writes of two hosts, busy answers and computations come one     *)
(* after the other.                                                        *)
(***************************************************************************)
ChecksumIsTheCurves == curve.checksum.valid => curve.checksum.of = Content(curve.blocks)

Fitting(data) ==
    IF Len(data) > NBlocks * BlockSize THEN SubSeq(data, 1, NBlocks * BlockSize) ELSE data

(***************************************************************************)
(* What the client has written with success it reads back, as far as it    *)
(* fits the curve, as long as no other host writes to it: not less, and    *)
(* nothing of what the curve held before.                                  *)
(***************************************************************************)
WrittenReadsBack ==
    told.what = "read" /\ told.ok /\ written.ok /\ written.clean =>
        told.data = Fitting(written.data)

=============================================================================
