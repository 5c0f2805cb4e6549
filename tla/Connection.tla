---------------------------- MODULE Connection ----------------------------
(***************************************************************************)
(* The life of one TCP connection and its session: Base/Connection.cpp     *)
(* (coroutines Send, Recv and Connect, Start, Close), the accept loop of    *)
(* Base/Server.cpp, Base/Session.cpp and the handlers that                  *)
(* GameServer/WorldServer.cpp (accepting side) and TestClient/Dummys.cpp    *)
(* (connecting side) attach.                                                *)
(*                                                                          *)
(* Three threads of control: the connection's executor, which runs resumed  *)
(* coroutines one at a time (SerialExecutor.tla), the session's executor,   *)
(* and, when accepting, the server's executor inside Start.  Asio completes *)
(* reads, writes and the connect from its own threads by posting a resume.  *)
(***************************************************************************)
EXTENDS Naturals, Sequences, FiniteSets

CONSTANTS
    Sides,          \* "accept": WorldServer, "connect": Dummys, or both
    MaxData         \* bound: reads that complete with data

ASSUME SidesAssumption == Sides \subseteq {"accept", "connect"}
ASSUME DataAssumption == MaxData \in Nat

Coroutines == {"Send", "Recv", "Connect"}

VARIABLES
    side,           \* which of Sides this connection is on
    state,          \* Connection::_state
    socket,         \* is _socket not null?
    conQ,           \* the connection's tasks: coroutines to resume
    running,        \* the coroutine the connection's executor runs, or "none"
    cpc,            \* where it is
    frames,         \* coroutines whose frame exists
    pending,        \* coroutines suspended in an outstanding async operation
    result,         \* what the last operation of each coroutine returned
    stpc,           \* where Connection::Start is
    sendQ,          \* number of packets in _sendQue
    sending,        \* is sendingPacket of Send not null?
    sesQ,           \* the session's tasks
    spc,            \* where the session's executor is
    sesConn,        \* is Session::_connection not null?
    managed,        \* is the session in the SessionManager?
    reads,          \* reads completed with data, bounded by MaxData
    closes          \* history: invocations of Connection::OnClose

conVars == <<conQ, running, cpc, frames, pending, result, sending>>
sesVars == <<sesQ, spc, sesConn>>
vars == <<side, state, socket, conVars, stpc, sendQ, sesVars, managed, reads, closes>>

\* Accepting: AsyncAccept has filled the socket, OnAccept has made the session
\* and attached the handlers, Start is next.  Connecting: Spawn_Connect.
Init ==
    /\ side \in Sides
    /\ state = "Connecting"
    /\ socket = (side = "accept")
    /\ conQ = IF side = "accept" THEN <<>> ELSE <<"Connect">>
    /\ frames = IF side = "accept" THEN {} ELSE {"Connect"}
    /\ stpc = IF side = "accept" THEN "cas" ELSE "none"
    /\ running = "none" /\ cpc = "idle"
    /\ pending = {} /\ result = [c \in Coroutines |-> "none"]
    /\ sendQ = 0 /\ sending = FALSE
    /\ sesQ = <<>> /\ spc = "idle" /\ sesConn = TRUE
    /\ managed = FALSE
    /\ reads = 0 /\ closes = 0

MutDisconnected == FALSE
Disconnected    == state = "Disconnected"

-----------------------------------------------------------------------------
(* Connection::Start, on the server's executor (Server::Accept) or inside   *)
(* the Connect coroutine.                                                   *)

StartCas ==
    /\ stpc = "cas"
    /\ IF state = "Connecting"
       THEN state' = "Connected" /\ stpc' = "send"
       ELSE stpc' = "done" /\ UNCHANGED state
    /\ UNCHANGED <<side, socket, conVars, sendQ, sesVars, managed, reads, closes>>

MutSecondSpawn == "Send"

\* The two coroutines Start spawns, in order.
FirstSpawn  == "Send"
SecondSpawn == "Recv"

Spawn(from, co, to) ==
    /\ stpc = from
    /\ stpc' = to
    /\ frames' = frames \cup {co}
    /\ conQ' = Append(conQ, co)
    /\ UNCHANGED <<side, state, socket, running, cpc, pending, result, sending, sendQ,
                   sesVars, managed, reads, closes>>

StartSend == Spawn("send", FirstSpawn, "recv")
StartRecv == Spawn("recv", SecondSpawn, "onconnect")

\* OnConnect's handler: _sessionManager.Add.
StartOnConnect ==
    /\ stpc = "onconnect"
    /\ managed' = TRUE
    /\ stpc' = "done"
    /\ UNCHANGED <<side, state, socket, conVars, sendQ, sesVars, reads, closes>>

-----------------------------------------------------------------------------
(* The connection's executor                                                *)

RunTask ==
    /\ cpc = "idle" /\ conQ # <<>>
    /\ running' = Head(conQ)
    /\ conQ' = Tail(conQ)
    /\ cpc' = "resume"
    /\ UNCHANGED <<side, state, socket, frames, pending, result, sending, stpc, sendQ,
                   sesVars, managed, reads, closes>>

\* Suspended or finished: back to the executor.
Yield == cpc' = "idle" /\ running' = "none"

\* Behind co_await AwaitSend: break on an error, drop the packet when it is
\* written, go on with the rest of it otherwise.
SendResume ==
    /\ cpc = "resume" /\ running = "Send"
    /\ cpc' = IF result["Send"] = "err" THEN "close" ELSE "loop"
    /\ sending' = (sending /\ result["Send"] # "ok")
    /\ result' = [result EXCEPT !["Send"] = "none"]
    /\ UNCHANGED <<side, state, socket, conQ, running, frames, pending, stpc, sendQ,
                   sesVars, managed, reads, closes>>

\* The loop of Send: ends, polls with AwaitAlways, or gets a packet to write.
SendLoop ==
    /\ cpc = "loop" /\ running = "Send"
    /\ \/ /\ Disconnected
          /\ cpc' = "close"
          /\ UNCHANGED <<conQ, running, sendQ, sending>>
       \/ /\ ~Disconnected /\ ~sending /\ sendQ = 0
          /\ conQ' = Append(conQ, "Send")
          /\ Yield
          /\ UNCHANGED <<sendQ, sending>>
       \/ /\ ~Disconnected /\ ~sending /\ sendQ > 0
          /\ sendQ' = sendQ - 1 /\ sending' = TRUE
          /\ cpc' = "await"
          /\ UNCHANGED <<conQ, running>>
       \/ /\ ~Disconnected /\ sending
          /\ cpc' = "await"
          /\ UNCHANGED <<conQ, running, sendQ, sending>>
    /\ UNCHANGED <<side, state, socket, frames, pending, result, stpc, sesVars, managed,
                   reads, closes>>

\* Behind co_await AwaitRecv: break on an error; the bytes may or may not make
\* up a packet, which OnRead's handler posts to the session.
RecvResume ==
    /\ cpc = "resume" /\ running = "Recv"
    /\ cpc' = IF result["Recv"] = "err" THEN "close" ELSE "loop"
    /\ sesQ' \in {sesQ} \cup (IF result["Recv"] = "data" THEN {Append(sesQ, "Msg")} ELSE {})
    /\ result' = [result EXCEPT !["Recv"] = "none"]
    /\ UNCHANGED <<side, state, socket, conQ, running, frames, pending, sending, stpc,
                   sendQ, spc, sesConn, managed, reads, closes>>

RecvLoop ==
    /\ cpc = "loop" /\ running = "Recv"
    /\ cpc' = IF Disconnected THEN "close" ELSE "await"
    /\ UNCHANGED <<side, state, socket, conQ, running, frames, pending, result, sending,
                   stpc, sendQ, sesVars, managed, reads, closes>>

\* Connect: makes the socket and connects; closes on an error, else starts.
ConnectResume ==
    /\ cpc = "resume" /\ running = "Connect"
    /\ \/ /\ result["Connect"] = "none"
          /\ socket' = TRUE /\ cpc' = "await"
          /\ UNCHANGED stpc
       \/ /\ result["Connect"] = "err"
          /\ cpc' = "close"
          /\ UNCHANGED <<socket, stpc>>
       \/ /\ result["Connect"] = "ok"
          /\ cpc' = "starting" /\ stpc' = "cas"
          /\ UNCHANGED socket
    /\ UNCHANGED <<side, state, conQ, running, frames, pending, result, sending, sendQ,
                   sesVars, managed, reads, closes>>

MutStartReturned == TRUE
StartReturned    == stpc = "done"

\* Start is a plain call: Connect goes on when all of it is done.
ConnectStarted ==
    /\ cpc = "starting" /\ StartReturned
    /\ cpc' = "end"
    /\ UNCHANGED <<side, state, socket, conQ, running, frames, pending, result, sending,
                   stpc, sendQ, sesVars, managed, reads, closes>>

\* AsyncReadSome, AsyncWriteSome, AsyncConnect: the coroutine is suspended.
Await ==
    /\ cpc = "await"
    /\ pending' = pending \cup {running}
    /\ Yield
    /\ UNCHANGED <<side, state, socket, conQ, frames, result, sending, stpc, sendQ,
                   sesVars, managed, reads, closes>>

MutAlreadyClosed == FALSE
AlreadyClosed    == state = "Disconnected"

\* Connection::Close: only the caller that moves _state goes on.
CloseCas ==
    /\ cpc = "close"
    /\ cpc' = IF AlreadyClosed THEN "end" ELSE "shut"
    /\ state' = "Disconnected"
    /\ UNCHANGED <<side, socket, conQ, running, frames, pending, result, sending, stpc,
                   sendQ, sesVars, managed, reads, closes>>

\* _socket->Close(), _socket.reset()
CloseSocket ==
    /\ cpc = "shut"
    /\ cpc' = "onclose"
    /\ socket' = FALSE
    /\ UNCHANGED <<side, state, conQ, running, frames, pending, result, sending, stpc,
                   sendQ, sesVars, managed, reads, closes>>

\* OnClose's handler: Session::Close posts to the session.
CloseNotify ==
    /\ cpc = "onclose"
    /\ cpc' = "end"
    /\ sesQ' = Append(sesQ, "Close")
    /\ closes' = closes + 1
    /\ UNCHANGED <<side, state, socket, conQ, running, frames, pending, result, sending,
                   stpc, sendQ, spc, sesConn, managed, reads>>

\* co_return: FinalDestroyer destroys the frame.
CoReturn ==
    /\ cpc = "end"
    /\ frames' = frames \ {running}
    /\ Yield
    /\ UNCHANGED <<side, state, socket, conQ, pending, result, sending, stpc, sendQ,
                   sesVars, managed, reads, closes>>

-----------------------------------------------------------------------------
(* Asio: a completion handler stores the result and posts the resume.       *)

Complete(co, res) ==
    /\ co \in pending
    /\ pending' = pending \ {co}
    /\ result' = [result EXCEPT ![co] = res]
    /\ conQ' = Append(conQ, co)
    /\ UNCHANGED <<side, state, socket, running, cpc, frames, sending, stpc, sendQ,
                   sesVars, managed, closes>>

ReadData ==
    /\ socket /\ reads < MaxData
    /\ reads' = reads + 1
    /\ Complete("Recv", "data")

WriteDone ==
    /\ socket
    /\ \E res \in {"ok", "part"} : Complete("Send", res)
    /\ UNCHANGED reads

ConnectDone ==
    /\ Complete("Connect", "ok")
    /\ UNCHANGED reads

\* The peer hangs up, or Close has aborted the operation.
Fails(co) == Complete(co, "err") /\ UNCHANGED reads

-----------------------------------------------------------------------------
(* The session's executor                                                   *)

\* GameSession::HandleMsg's task; it may answer, unless the connection is gone.
SessionMsg ==
    /\ spc = "idle" /\ sesQ # <<>> /\ Head(sesQ) = "Msg"
    /\ sesQ' = Tail(sesQ)
    /\ spc' \in {"idle"} \cup (IF sesConn /\ ~Disconnected THEN {"reply"} ELSE {})
    /\ UNCHANGED <<side, state, socket, conVars, stpc, sendQ, sesConn, managed, reads, closes>>

\* Connection::Send, after the check: the state may have changed meanwhile.
SessionReply ==
    /\ spc = "reply"
    /\ spc' = "idle"
    /\ sendQ' = sendQ + 1
    /\ UNCHANGED <<side, state, socket, conVars, stpc, sesQ, sesConn, managed, reads, closes>>

SessionClose ==
    /\ spc = "idle" /\ sesQ # <<>> /\ Head(sesQ) = "Close"
    /\ sesQ' = Tail(sesQ)
    /\ spc' = IF sesConn THEN "closing" ELSE "onclose"
    /\ UNCHANGED <<side, state, socket, conVars, stpc, sendQ, sesConn, managed, reads, closes>>

\* _connection->Close() on the session's executor.
SessionCloseConn ==
    /\ spc = "closing"
    /\ spc' = "clear"
    /\ state' = "Disconnected"
    /\ IF AlreadyClosed
       THEN UNCHANGED <<socket, sesQ, closes>>
       ELSE socket' = FALSE /\ sesQ' = Append(sesQ, "Close") /\ closes' = closes + 1
    /\ UNCHANGED <<side, conVars, stpc, sendQ, sesConn, managed, reads>>

SessionClear ==
    /\ spc = "clear"
    /\ spc' = "onclose"
    /\ sesConn' = FALSE
    /\ UNCHANGED <<side, state, socket, conVars, stpc, sendQ, sesQ, managed, reads, closes>>

\* Session::OnClose's handler: _sessionManager.Del.
SessionOnClose ==
    /\ spc = "onclose"
    /\ spc' = "idle"
    /\ managed' = FALSE
    /\ UNCHANGED <<side, state, socket, conVars, stpc, sendQ, sesQ, sesConn, reads, closes>>

-----------------------------------------------------------------------------
StartStep == StartCas \/ StartSend \/ StartRecv \/ StartOnConnect

ExecutorStep ==
    \/ RunTask \/ SendResume \/ SendLoop \/ RecvResume \/ RecvLoop
    \/ ConnectResume \/ ConnectStarted \/ Await
    \/ CloseCas \/ CloseSocket \/ CloseNotify \/ CoReturn

SessionStep ==
    \/ SessionMsg \/ SessionReply
    \/ SessionClose \/ SessionCloseConn \/ SessionClear \/ SessionOnClose

Next ==
    \/ StartStep \/ ExecutorStep \/ SessionStep
    \/ ReadData \/ WriteDone \/ ConnectDone
    \/ \E co \in Coroutines : Fails(co)

Spec == Init /\ [][Next]_vars

\* The executors run; asio completes the operations of a closed socket with
\* operation_aborted.  Nothing is assumed about the peer.
Fairness ==
    /\ WF_vars(StartStep) /\ WF_vars(ExecutorStep) /\ WF_vars(SessionStep)
    /\ \A co \in Coroutines : WF_vars(~socket /\ Fails(co))

FairSpec == Spec /\ Fairness

-----------------------------------------------------------------------------
(* Properties                                                               *)

\* Nobody starts an operation on a socket that Close has reset: Send and Recv
\* test Disconnected() and use _socket in one go of the connection's executor.
SocketSafe == cpc = "await" => socket

\* A suspended coroutine is resumed once: it is in the task queue, running, or in
\* one outstanding operation, never in two of these (a second resume would run
\* a frame that is running or destroyed).
CoroutineOnce ==
    \A co \in Coroutines :
        Cardinality({i \in DOMAIN conQ : conQ[i] = co})
        + (IF running = co THEN 1 ELSE 0) + (IF co \in pending THEN 1 ELSE 0)
            = IF co \in frames THEN 1 ELSE 0

\* Whoever of Send, Recv, Connect and the session closes the connection, OnClose
\* runs once, and the session never closes a connection that is still open.
ClosedOnce ==
    /\ closes <= 1
    /\ spc = "closing" => Disconnected /\ ~socket
    /\ ~socket /\ state = "Disconnected" /\ cpc \in {"idle", "resume"} => closes = 1

\* A disconnected connection is given back: its coroutines end and the session
\* lets go of it, so that the reference cycle between the two is broken.
Reclaimed == ~sesConn /\ frames = {} /\ conQ = <<>>
ConnectionReclaimed == Disconnected ~> Reclaimed

\* README.md "Safe Object Interaction" (object state stays consistent): the session
\* of a disconnected connection does not stay in the SessionManager.
SessionReclaimed == Disconnected ~> [](~managed)

\* It holds for a connection that connects: there OnConnect and everything that
\* can close the connection run on the connection's executor.
ConnectedSessionReclaimed == (side = "connect" /\ Disconnected) ~> [](~managed)
=============================================================================
