---------------------------- MODULE PacketStream ----------------------------
(***************************************************************************)
(* One direction of a connection, byte by byte: the Send coroutine of        *)
(* Base/Connection.cpp with its PacketHelper, the TCP stream, the Recv       *)
(* coroutine of the peer with Base/NetworkMessage.h and Base/DataBlock.h,    *)
(* and the session that handles the packets later                            *)
(* (GameServer/GameSession.cpp, GameHandler.cpp, PlayerHandle.cpp).          *)
(*                                                                          *)
(* A byte is <<i, k>>: byte k of the i-th packet that was queued.  Blocks     *)
(* come from a pool and are taken again when nothing refers to them.         *)
(***************************************************************************)
EXTENDS Naturals, Sequences, FiniteSets, SequencesExt, FiniteSetsExt, Functions

CONSTANTS
    HeaderSize,     \* sizeof(TCPHeader)
    PacketSize,     \* MAX_TCP_PACKET_SIZE
    Factor,         \* a DataBlock holds Factor packets of that size (5 in the code)
    Messages,       \* what is sent: [type, body], a protocol::game::Type and the
                    \* size of the FlatBuffer
    Blocks,         \* bound: blocks the pool can hand out
    NoBlock,        \* a null _curBlock
    MaxPackets      \* bound: packets sent

ASSUME SizesAssumption ==
    /\ {HeaderSize, PacketSize, Factor, MaxPackets} \subseteq Nat \ {0}
    /\ \A m \in Messages : m.body \in Nat /\ HeaderSize + m.body <= PacketSize
ASSUME BlocksAssumption == NoBlock \notin Blocks

Bodies  == {m.body : m \in Messages}
Types   == {m.type : m \in Messages}
MaxSize == Factor * PacketSize
Sides   == {"send", "recv"}

VARIABLES
    sent,           \* history: [type, body] of every packet given to Connection::Send
    sendQue,        \* _sendQue: indices of sent
    bufs,           \* PacketHelper::_bufs of the packet being written, <<>> if there is none
    wire,           \* bytes written and not yet read
    data,           \* [Blocks -> bytes]: what DataBlock::_buf holds below _tail
    curBlock, head, \* NetworkMessage::_curBlock and its _head
    rpc,            \* where Recv is
    sesQue,         \* packets posted to the session: RecvPacket's
                    \* _block and _pos
    handled,        \* history: indices of the packets GameHandler::Handle got
    answers,        \* history: handled packets that Session::Send answered
    lost,           \* history: has GetBufInfo dropped bytes?
    open            \* the sides whose Connection is not Disconnected

sender   == <<sent, sendQue, bufs>>
receiver == <<data, curBlock, head, rpc>>
session  == <<sesQue, handled, answers>>
vars     == <<sender, wire, receiver, session, lost, open>>

Init ==
    /\ sent = <<>> /\ sendQue = <<>> /\ bufs = <<>> /\ wire = <<>>
    /\ data = [b \in Blocks |-> <<>>] /\ curBlock = NoBlock /\ head = 0 /\ rpc = "buffer"
    /\ sesQue = <<>> /\ handled = <<>> /\ answers = <<>>
    /\ lost = FALSE /\ open = Sides

-----------------------------------------------------------------------------
(* Sending                                                                   *)

\* Session::Send and Connection::Send.
Send(m) ==
    /\ "send" \in open /\ Len(sent) < MaxPackets
    /\ sent' = Append(sent, m)
    /\ sendQue' = Append(sendQue, Len(sent) + 1)
    /\ UNCHANGED <<bufs, wire, receiver, session, lost, open>>

\* SendPacket::data: one buffer for the header, one for the body.
GetBufs(i) ==
    LET bytes(from, n) == [k \in 1 .. n |-> <<i, from + k - 1>>]
    IN  <<bytes(0, HeaderSize), bytes(HeaderSize, sent[i].body)>>

\* Send takes the next packet and calls PacketHelper::Init.
TakePacket ==
    /\ "send" \in open /\ bufs = <<>> /\ sendQue # <<>>
    /\ bufs' = GetBufs(Head(sendQue))
    /\ sendQue' = Tail(sendQue)
    /\ UNCHANGED <<sent, wire, receiver, session, lost, open>>

\* PacketHelper::Update: buffers written in full go, the first one left starts later.
Written(bs, n) ==
    LET before(k) == Len(FlattenSeq(SubSeq(bs, 1, k - 1)))
        kept      == {k \in DOMAIN bs : before(k) + Len(bs[k]) > n}
    IN  IF kept = {} THEN <<>>
        ELSE LET k == Min(kept)
             IN  <<SubSeq(bs[k], n - before(k) + 1, Len(bs[k]))>> \o SubSeq(bs, k + 1, Len(bs))

\* AsyncWriteSome has written n bytes; Send resumes.
WriteSome(n) ==
    LET bytes == FlattenSeq(bufs) IN
    /\ "send" \in open /\ bufs # <<>>
    /\ n \in 1 .. Len(bytes)
    /\ wire' = wire \o SubSeq(bytes, 1, n)
    /\ bufs' = Written(bufs, n)
    /\ UNCHANGED <<sent, sendQue, receiver, session, lost, open>>

-----------------------------------------------------------------------------
(* Receiving                                                                 *)

DataSize   == Len(data[curBlock]) - head
RemainSize == IF curBlock = NoBlock THEN 0 ELSE MaxSize - Len(data[curBlock])

MutReferenced == {curBlock}

\* Blocks that NetworkMessage or a RecvPacket refers to.
Referenced == {curBlock} \cup {sesQue[i].block : i \in DOMAIN sesQue}

\* What ObjectPool<DataBlock>::Get may return.
Free == Blocks \ Referenced

MutNeedsBlock == RemainSize = 0
NeedsBlock    == RemainSize < PacketSize

\* GetBufInfo: the bytes not yet consumed are copied into the new block, but its
\* _tail stays 0, so the next read overwrites them.
GetBufInfo ==
    /\ "recv" \in open /\ rpc = "buffer"
    /\ rpc' = "read"
    /\ \/ ~NeedsBlock /\ UNCHANGED <<curBlock, head, data, lost>>
       \/ /\ NeedsBlock /\ Free # {}
          /\ LET b == CHOOSE b \in Free : TRUE
             IN  curBlock' = b /\ head' = 0 /\ data' = [data EXCEPT ![b] = <<>>]
          /\ lost' = (lost \/ (curBlock # NoBlock /\ DataSize > 0))
    /\ UNCHANGED <<sender, wire, session, open>>

\* AsyncReadSome has read n bytes; Recv resumes and calls DataBlock::Update.
ReadSome(n) ==
    /\ "recv" \in open /\ rpc = "read"
    /\ n \in 1 .. Len(wire) /\ n <= PacketSize
    /\ data' = [data EXCEPT ![curBlock] = @ \o SubSeq(wire, 1, n)]
    /\ wire' = SubSeq(wire, n + 1, Len(wire))
    /\ rpc' = "parse"
    /\ UNCHANGED <<sender, curBlock, head, session, lost, open>>

\* The packet whose header starts at a position of a block, 0 if none does.
PacketAt(block, pos) ==
    LET found == {i \in DOMAIN sent : \A k \in 1 .. HeaderSize :
                    pos + k \in DOMAIN data[block] /\ data[block][pos + k] = <<i, k - 1>>}
    IN  IF found = {} THEN 0 ELSE CHOOSE i \in found : TRUE

\* header->size.  After a loss anything may lie there: here it is the size of some
\* message.  Sizes that no message has (negative ones, ones larger than a block) are left
\* out: behind `lost` nothing is stated but ReadFits, which does not depend on the size.
SizesAt(block, pos) ==
    LET i == PacketAt(block, pos) IN IF i = 0 THEN Bodies ELSE {sent[i].body}

MutComplete(size) == DataSize > size + HeaderSize
Complete(size)    == DataSize >= size + HeaderSize

\* GameSession::HandleMsg posts the packet to the session.
HandleMsg(packet) == sesQue' = Append(sesQue, packet)

\* GetNetMessage and OnRead, for every packet that is complete.
Parse ==
    /\ rpc = "parse"
    /\ IF DataSize < HeaderSize
       THEN rpc' = "buffer" /\ UNCHANGED <<head, sesQue>>
       ELSE \E size \in SizesAt(curBlock, head) :
              IF Complete(size)
              THEN /\ HandleMsg([block |-> curBlock, pos |-> head])
                   /\ head' = head + size + HeaderSize
                   /\ UNCHANGED rpc
              ELSE rpc' = "buffer" /\ UNCHANGED <<head, sesQue>>
    /\ UNCHANGED <<sender, wire, data, curBlock, handled, answers, lost, open>>

\* A side's socket fails or its session closes it: its loops end.  The peer reads
\* what is still on the wire; what was posted to the session is still handled.
Disconnect(side) ==
    /\ side \in open
    /\ open' = open \ {side}
    /\ UNCHANGED <<sender, wire, receiver, session, lost>>

-----------------------------------------------------------------------------
(* Handling                                                                  *)

\* GameHandler::Init registers Req_CS_Move only.
Handles(t) == t = "REQ_CS_MOVE"

\* The handler of a move answers through Session::Send, which wants an open connection.
Answer(i) == answers' = IF "recv" \in open THEN Append(answers, i) ELSE answers

\* A packet's handler is called with its FlatBuffer; other types have none.
Dispatch(i, t) == IF Handles(t) THEN Answer(i) ELSE UNCHANGED answers

\* The session's task: GameHandler::Handle looks the header's type up.
Handle ==
    /\ sesQue # <<>>
    /\ LET p == Head(sesQue)
           i == PacketAt(p.block, p.pos)
       IN  /\ handled' = Append(handled, i)
           /\ \E t \in IF i = 0 THEN Types ELSE {sent[i].type} : Dispatch(i, t)
    /\ sesQue' = Tail(sesQue)
    /\ UNCHANGED <<sender, wire, receiver, lost, open>>

-----------------------------------------------------------------------------
Next ==
    \/ \E m \in Messages : Send(m)
    \/ TakePacket \/ (\E n \in 1 .. PacketSize : WriteSome(n))
    \/ GetBufInfo \/ (\E n \in 1 .. PacketSize : ReadSome(n)) \/ Parse
    \/ (\E side \in Sides : Disconnect(side)) \/ Handle

Spec == Init /\ [][Next]_vars

\* The coroutines and the session run, and TCP delivers while the connection is up.
FairSpec ==
    /\ Spec
    /\ WF_vars(TakePacket) /\ WF_vars(\E n \in 1 .. PacketSize : WriteSome(n))
    /\ WF_vars(GetBufInfo) /\ WF_vars(\E n \in 1 .. PacketSize : ReadSome(n))
    /\ WF_vars(Parse) /\ WF_vars(Handle)

-----------------------------------------------------------------------------
(* Properties                                                                *)

PacketsInOrder ==
    IsPrefix(handled \o [i \in DOMAIN sesQue |-> PacketAt(sesQue[i].block, sesQue[i].pos)],
             [i \in DOMAIN sent |-> i])

AnswersInOrder ==
    /\ \A j, k \in DOMAIN answers : j < k => answers[j] < answers[k]
    /\ \E n \in 0 .. Len(handled) :
          /\ Range(answers) = {i \in Range(SubSeq(handled, 1, n)) : Handles(sent[i].type)}
          /\ "recv" \in open => n = Len(handled)

\* However writes and reads cut the stream, the session handles the packets in
\* the order they were sent, none twice or garbled, a packet that waits for the
\* session keeps its bytes, and the moves, no other packets, are answered in order,
\* all of them until the connection closes; GetBufInfo's copy is the one exception.
InOrder == lost \/ (PacketsInOrder /\ AnswersInOrder)

\* The buffer given to AsyncReadSome lies inside the block (Update would refuse to
\* move _tail past it, and the bytes would be gone).
ReadFits == rpc = "read" => Len(data[curBlock]) + PacketSize <= MaxSize

\* Every packet is handled, unless the connection breaks or GetBufInfo drops bytes.
Delivered ==
    \A i \in 1 .. MaxPackets :
        (i \in DOMAIN sent) ~> (i \in Range(handled) \/ lost \/ open # Sides)
=============================================================================
