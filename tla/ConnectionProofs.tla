-------------------------- MODULE ConnectionProofs --------------------------
(***************************************************************************)
(* For any number of reads, writes and replies: no coroutine of a           *)
(* Connection starts an operation on a socket that is gone, none is resumed *)
(* twice, and OnClose runs once.                                            *)
(*                                                                          *)
(* The invariant has three parts.  PlacesOK: a suspended coroutine is in the *)
(* task queue, running or in one operation, and those are the coroutines     *)
(* with a frame.  PhaseOK: which coroutines exist before, while and after    *)
(* Start runs, and what the executor may be doing for each of them.          *)
(* ClosingOK: the one Close that wins takes the connection through           *)
(* Disconnected, no socket, OnClose, and only OnClose's task makes the       *)
(* session close the connection.                                             *)
(***************************************************************************)
EXTENDS Connection, FiniteSetTheorems, SequenceTheorems, TLAPS

ExecPC    == {"idle", "resume", "loop", "await", "close", "shut", "onclose", "starting", "end"}
StartPC   == {"none", "cas", "send", "recv", "onconnect", "done"}
SessionPC == {"idle", "reply", "closing", "clear", "onclose"}
Results   == {"none", "ok", "part", "data", "err"}

TypeOK ==
    /\ side \in {"accept", "connect"}
    /\ state \in {"Connecting", "Connected", "Disconnected"}
    /\ socket \in BOOLEAN
    /\ conQ \in Seq(Coroutines)
    /\ running \in Coroutines \cup {"none"}
    /\ cpc \in ExecPC
    /\ frames \subseteq Coroutines
    /\ pending \subseteq Coroutines
    /\ result \in [Coroutines -> Results]
    /\ stpc \in StartPC
    /\ sendQ \in Nat
    /\ sending \in BOOLEAN
    /\ sesQ \in Seq({"Msg", "Close"})
    /\ spc \in SessionPC
    /\ sesConn \in BOOLEAN /\ managed \in BOOLEAN
    /\ reads \in Nat /\ closes \in Nat

\* Element x is somewhere in sequence s.
Occurs(s, x) == \E i \in 1 .. Len(s) : s[i] = x

\* The tasks q, the running coroutine r and the operations p hold different
\* coroutines, and together those with a frame f.
Places(q, r, p, f) ==
    /\ \A i, j \in 1 .. Len(q) : q[i] = q[j] => i = j
    /\ ~Occurs(q, r)
    /\ r \notin p
    /\ \A co \in p : ~Occurs(q, co)
    /\ \A co \in Coroutines : co \in f <=> Occurs(q, co) \/ co = r \/ co \in p

PlacesOK == Places(conQ, running, pending, frames)

\* What runs when; Connect has no frame once Start has done what it waits for,
\* Send and Recv have none before Start spawns them.
PhaseOK ==
    /\ running = "none" <=> cpc = "idle"
    /\ cpc = "loop" => running \in {"Send", "Recv"}
    /\ cpc = "starting" => running = "Connect"
    /\ stpc \in {"none", "cas", "send"} => "Send" \notin frames
    /\ stpc \in {"none", "cas", "send", "recv"} => "Recv" \notin frames
    /\ "Connect" \in frames =>
          stpc = "none" \/ (running = "Connect" /\ cpc \in {"starting", "end"})
    /\ "Connect" \in frames /\ stpc = "none" /\ Disconnected =>
          running = "Connect" /\ cpc \in {"shut", "onclose", "end"}
    /\ cpc = "await" => ~Disconnected
    /\ ~Disconnected /\ (\/ stpc # "none" \/ "Connect" \in pending
                         \/ result["Connect"] # "none" \/ cpc = "await") => socket

\* Close in progress on the connection's executor.
Closing == cpc \in {"shut", "onclose"}

ClosingOK ==
    /\ closes <= 1
    /\ ~Disconnected => closes = 0 /\ ~Closing
    /\ Disconnected => (closes = 0 <=> Closing)
    /\ closes = 1 \/ cpc = "onclose" => ~socket
    /\ closes = 0 => ~Occurs(sesQ, "Close") /\ spc \notin {"closing", "clear", "onclose"}

IInv == TypeOK /\ PlacesOK /\ PhaseOK /\ ClosingOK

-----------------------------------------------------------------------------
(* Task queues without repetition.                                          *)

NoRepeat(q) == \A i, j \in 1 .. Len(q) : q[i] = q[j] => i = j

LEMMA AppendOccurs ==
    ASSUME NEW S, NEW q \in Seq(S), NEW co \in S
    PROVE  /\ Append(q, co) \in Seq(S)
           /\ \A x : Occurs(Append(q, co), x) <=> Occurs(q, x) \/ x = co
           /\ NoRepeat(q) /\ ~Occurs(q, co) => NoRepeat(Append(q, co))
<1> DEFINE r == Append(q, co)  n == Len(q)
<1>1. /\ r \in Seq(S)
      /\ n \in Nat /\ Len(r) = n + 1
      /\ \A i \in 1 .. n : r[i] = q[i]
      /\ r[n + 1] = co
  BY AppendProperties, LenProperties
<1>2. /\ \A i \in 1 .. n + 1 : i \in 1 .. n \/ i = n + 1
      /\ \A i \in 1 .. n : i \in 1 .. n + 1
      /\ n + 1 \in 1 .. n + 1
  BY <1>1
<1> HIDE DEF r
<1>3. \A x : Occurs(r, x) <=> Occurs(q, x) \/ x = co
  BY <1>1, <1>2 DEF Occurs
<1>4. NoRepeat(q) /\ ~Occurs(q, co) => NoRepeat(r)
  BY <1>1, <1>2 DEF Occurs, NoRepeat
<1> QED
  BY <1>1, <1>3, <1>4 DEF r

LEMMA TailOccurs ==
    ASSUME NEW S, NEW q \in Seq(S), q # <<>>
    PROVE  /\ Tail(q) \in Seq(S) /\ Head(q) \in S
           /\ \A x : Occurs(Tail(q), x) => Occurs(q, x)
           /\ NoRepeat(q) => /\ NoRepeat(Tail(q))
                             /\ \A x : Occurs(q, x) <=> Occurs(Tail(q), x) \/ x = Head(q)
                             /\ ~Occurs(Tail(q), Head(q))
<1> DEFINE r == Tail(q)  n == Len(q)
<1>1. /\ r \in Seq(S) /\ Head(q) \in S /\ Head(q) = q[1]
      /\ n \in Nat \ {0} /\ Len(r) = n - 1
      /\ \A i \in 1 .. n - 1 : r[i] = q[i + 1]
  BY HeadTailProperties, EmptySeq
<1>2. /\ \A i \in 1 .. n - 1 : i + 1 \in 1 .. n /\ i + 1 # 1
      /\ \A i \in 1 .. n : i = 1 \/ (i - 1 \in 1 .. n - 1 /\ (i - 1) + 1 = i)
      /\ \A i, j \in 1 .. n - 1 : i + 1 = j + 1 => i = j
      /\ 1 \in 1 .. n
  BY <1>1
<1> HIDE DEF r
<1>3. \A x : Occurs(r, x) => Occurs(q, x)
  BY <1>1, <1>2 DEF Occurs
<1>4. ASSUME NoRepeat(q) PROVE NoRepeat(r)
  BY <1>1, <1>2, <1>4 DEF NoRepeat
<1>5. \A x : Occurs(q, x) => Occurs(r, x) \/ x = Head(q)
  <2> SUFFICES ASSUME NEW i \in 1 .. n, q[i] # Head(q) PROVE Occurs(r, q[i])
    BY DEF Occurs
  <2>1. i - 1 \in 1 .. n - 1 /\ (i - 1) + 1 = i
    BY <1>1, <1>2
  <2> QED
    BY <1>1, <2>1 DEF Occurs
<1>6. Occurs(q, Head(q))
  BY <1>1, <1>2 DEF Occurs
<1>7. ASSUME NoRepeat(q) PROVE ~Occurs(r, Head(q))
  BY <1>1, <1>2, <1>7 DEF NoRepeat, Occurs
<1> QED
  BY <1>1, <1>3, <1>4, <1>5, <1>6, <1>7 DEF r

-----------------------------------------------------------------------------
(* Types.                                                                   *)

LEMMA NextTypeOK == TypeOK /\ PhaseOK /\ [Next]_vars => TypeOK'
<1> SUFFICES ASSUME TypeOK, PhaseOK, [Next]_vars PROVE TypeOK'
  OBVIOUS
<1>s. /\ \A co \in Coroutines : Append(conQ, co) \in Seq(Coroutines)
      /\ conQ # <<>> => Tail(conQ) \in Seq(Coroutines) /\ Head(conQ) \in Coroutines
      /\ \A m \in {"Msg", "Close"} : Append(sesQ, m) \in Seq({"Msg", "Close"})
      /\ sesQ # <<>> => Tail(sesQ) \in Seq({"Msg", "Close"})
  <2>1. conQ \in Seq(Coroutines) /\ sesQ \in Seq({"Msg", "Close"})
    BY DEF TypeOK
  <2> QED
    BY <2>1, AppendOccurs, TailOccurs
<1>c. "Send" \in Coroutines /\ "Recv" \in Coroutines /\ "Connect" \in Coroutines
  BY DEF Coroutines
<1> USE DEF TypeOK, ExecPC, StartPC, SessionPC, Results, Yield, conVars, sesVars
<1>1. ASSUME StartCas \/ StartOnConnect PROVE TypeOK'
  BY <1>1 DEF StartCas, StartOnConnect
<1>2. ASSUME StartSend \/ StartRecv PROVE TypeOK'
  <2>1. conQ' \in Seq(Coroutines) /\ frames' \subseteq Coroutines
    BY <1>2, <1>s, <1>c DEF StartSend, StartRecv, Spawn, FirstSpawn, SecondSpawn
  <2>2. stpc' \in StartPC
    BY <1>2 DEF StartSend, StartRecv, Spawn
  <2> QED
    BY <1>2, <2>1, <2>2 DEF StartSend, StartRecv, Spawn
<1>3. ASSUME RunTask PROVE TypeOK'
  <2>1. conQ' \in Seq(Coroutines) /\ running' \in Coroutines
    BY <1>3, <1>s DEF RunTask
  <2> QED
    BY <1>3, <2>1 DEF RunTask
<1>4. ASSUME SendResume PROVE TypeOK'
  BY <1>4 DEF SendResume
<1>5. ASSUME SendLoop PROVE TypeOK'
  <2>1. conQ' \in Seq(Coroutines)
    BY <1>5, <1>s, <1>c DEF SendLoop
  <2>2. \/ sendQ' = sendQ /\ sending' = sending
        \/ sendQ > 0 /\ sendQ' = sendQ - 1 /\ sending' = TRUE
    BY <1>5 DEF SendLoop
  <2>3. cpc' \in ExecPC /\ running' \in Coroutines \cup {"none"}
    BY <1>5, <1>c DEF SendLoop
  <2>4. sendQ' \in Nat /\ sending' \in BOOLEAN
    <3>1. sendQ \in Nat /\ sending \in BOOLEAN
      OBVIOUS
    <3>2. sending' \in BOOLEAN
      BY <2>2, <3>1, Zenon
    <3>3. sendQ' = sendQ \/ (sendQ > 0 /\ sendQ' = sendQ - 1)
      BY <2>2, Zenon
    <3> QED
      BY <3>1, <3>2, <3>3
  <2>5. UNCHANGED <<side, state, socket, frames, pending, result, stpc, sesVars, managed,
                    reads, closes>>
    BY <1>5 DEF SendLoop
  <2> QED
    BY <2>1, <2>3, <2>4, <2>5
<1>6. ASSUME RecvResume PROVE TypeOK'
  <2>1. sesQ' \in Seq({"Msg", "Close"})
    BY <1>6, <1>s DEF RecvResume
  <2>2. result' \in [Coroutines -> Results]
    BY <1>6 DEF RecvResume
  <2>3. cpc' \in ExecPC
    BY <1>6 DEF RecvResume
  <2> QED
    BY <1>6, <2>1, <2>2, <2>3 DEF RecvResume
<1>7. ASSUME RecvLoop \/ ConnectResume \/ ConnectStarted PROVE TypeOK'
  BY <1>7 DEF RecvLoop, ConnectResume, ConnectStarted
<1>8. ASSUME Await PROVE TypeOK'
  <2>1. pending' \subseteq Coroutines
    BY <1>8 DEF Await, PhaseOK
  <2> QED
    BY <1>8, <2>1 DEF Await
<1>9. ASSUME CloseCas \/ CloseSocket \/ CoReturn PROVE TypeOK'
  BY <1>9 DEF CloseCas, CloseSocket, CoReturn
<1>10. ASSUME CloseNotify PROVE TypeOK'
  <2>1. sesQ' \in Seq({"Msg", "Close"})
    BY <1>10, <1>s DEF CloseNotify
  <2> QED
    BY <1>10, <2>1 DEF CloseNotify
<1>11. ASSUME NEW co \in Coroutines, NEW res \in Results, Complete(co, res), reads' \in Nat
       PROVE  TypeOK'
  <2>1. conQ' \in Seq(Coroutines)
    BY <1>11, <1>s DEF Complete
  <2>2. result' \in [Coroutines -> Results]
    BY <1>11 DEF Complete
  <2> QED
    BY <1>11, <2>1, <2>2 DEF Complete
<1>12. ASSUME ReadData \/ WriteDone \/ ConnectDone \/ \E co \in Coroutines : Fails(co)
       PROVE  \E co \in Coroutines, res \in Results : Complete(co, res) /\ reads' \in Nat
  BY <1>12, <1>c DEF ReadData, WriteDone, ConnectDone, Fails
<1>13. ASSUME SessionMsg \/ SessionClose PROVE TypeOK'
  <2>1. sesQ' \in Seq({"Msg", "Close"})
    BY <1>13, <1>s DEF SessionMsg, SessionClose
  <2>2. spc' \in SessionPC
    BY <1>13 DEF SessionMsg, SessionClose
  <2>3. UNCHANGED <<side, state, socket, conVars, stpc, sendQ, sesConn, managed, reads, closes>>
    BY <1>13 DEF SessionMsg, SessionClose
  <2> QED
    BY <2>1, <2>2, <2>3
<1>14. ASSUME SessionReply \/ SessionClear \/ SessionOnClose PROVE TypeOK'
  <2>1. CASE SessionReply
    BY <2>1 DEF SessionReply
  <2>2. CASE SessionClear \/ SessionOnClose
    BY <2>2 DEF SessionClear, SessionOnClose
  <2> QED
    BY <1>14, <2>1, <2>2
<1>15. ASSUME SessionCloseConn PROVE TypeOK'
  <2>1. sesQ' \in Seq({"Msg", "Close"})
    BY <1>15, <1>s DEF SessionCloseConn
  <2>2. \/ socket' = socket /\ closes' = closes
        \/ socket' = FALSE /\ closes' = closes + 1
    BY <1>15 DEF SessionCloseConn
  <2>3. socket' \in BOOLEAN /\ closes' \in Nat
    <3>1. socket \in BOOLEAN /\ closes \in Nat
      OBVIOUS
    <3>2. socket' \in BOOLEAN
      BY <2>2, <3>1, Zenon
    <3>3. closes' = closes \/ closes' = closes + 1
      BY <2>2, Zenon
    <3> QED
      BY <3>1, <3>2, <3>3
  <2>4. /\ state' = "Disconnected" /\ spc' = "clear"
        /\ UNCHANGED <<side, conVars, stpc, sendQ, sesConn, managed, reads>>
    BY <1>15 DEF SessionCloseConn
  <2> QED
    BY <2>1, <2>3, <2>4
<1>16. CASE UNCHANGED vars
  BY <1>16 DEF vars
<1> QED
  BY <1>1, <1>2, <1>3, <1>4, <1>5, <1>6, <1>7, <1>8, <1>9, <1>10, <1>11, <1>12,
     <1>13, <1>14, <1>15, <1>16
    DEF Next, StartStep, ExecutorStep, SessionStep

-----------------------------------------------------------------------------
(* One place for each coroutine.                                            *)

LEMMA NextPlacesOK == TypeOK /\ PlacesOK /\ PhaseOK /\ [Next]_vars => PlacesOK'
<1> SUFFICES ASSUME TypeOK, PlacesOK, PhaseOK, [Next]_vars PROVE PlacesOK'
  OBVIOUS
<1>t. /\ conQ \in Seq(Coroutines)
      /\ frames \subseteq Coroutines /\ pending \subseteq Coroutines
      /\ running \in Coroutines \cup {"none"} /\ "none" \notin Coroutines
  BY DEF TypeOK, Coroutines
<1>q. NoRepeat(conQ) /\ ~Occurs(conQ, "none")
  BY <1>t, ElementOfSeq DEF PlacesOK, Places, NoRepeat, Occurs
<1>a. ASSUME NEW co \in Coroutines, ~Occurs(conQ, co), conQ' = Append(conQ, co)
      PROVE  /\ NoRepeat(conQ')
             /\ \A x : Occurs(conQ', x) <=> Occurs(conQ, x) \/ x = co
  BY <1>a, <1>t, <1>q, AppendOccurs
<1>u. ASSUME UNCHANGED <<conQ, running, pending, frames>> PROVE PlacesOK'
  BY <1>u DEF PlacesOK
<1> USE DEF conVars, sesVars
<1>1. ASSUME NEW co \in Coroutines, co \notin frames,
             conQ' = Append(conQ, co), frames' = frames \cup {co},
             UNCHANGED <<running, pending>>
      PROVE  PlacesOK'
  BY <1>1, <1>a, <1>t, <1>q DEF PlacesOK, Places, NoRepeat
<1>2. ASSUME StartSend \/ StartRecv PROVE PlacesOK'
  <2>1. CASE StartSend
    BY <1>1, <2>1 DEF StartSend, Spawn, FirstSpawn, PhaseOK, Coroutines
  <2>2. CASE StartRecv
    BY <1>1, <2>2 DEF StartRecv, Spawn, SecondSpawn, PhaseOK, Coroutines
  <2> QED
    BY <1>2, <2>1, <2>2
<1>3. ASSUME RunTask PROVE PlacesOK'
  <2>1. /\ running = "none" /\ conQ # <<>>
        /\ running' = Head(conQ) /\ conQ' = Tail(conQ)
        /\ UNCHANGED <<pending, frames>>
    BY <1>3 DEF RunTask, PhaseOK
  <2>2. /\ NoRepeat(conQ') /\ running' \in Coroutines
        /\ \A x : Occurs(conQ, x) <=> Occurs(conQ', x) \/ x = running'
        /\ ~Occurs(conQ', running')
    BY <1>t, <1>q, <2>1, TailOccurs
  <2> QED
    BY <1>t, <2>1, <2>2 DEF PlacesOK, Places, NoRepeat
<1>4. ASSUME SendLoop PROVE PlacesOK'
  <2>1. CASE UNCHANGED <<conQ, running>>
    BY <1>4, <1>u, <2>1 DEF SendLoop
  <2>2. CASE conQ' = Append(conQ, "Send") /\ running' = "none"
    <3>1. running = "Send" /\ UNCHANGED <<frames, pending>> /\ "Send" \in Coroutines
      BY <1>4 DEF SendLoop, Coroutines
    <3>2. ~Occurs(conQ, "Send")
      BY <3>1 DEF PlacesOK, Places
    <3>3. NoRepeat(conQ') /\ \A x : Occurs(conQ', x) <=> Occurs(conQ, x) \/ x = "Send"
      BY <1>a, <2>2, <3>1, <3>2
    <3> QED
      BY <1>t, <1>q, <2>2, <3>1, <3>3 DEF PlacesOK, Places, NoRepeat
  <2> QED
    BY <1>4, <2>1, <2>2 DEF SendLoop, Yield
<1>5. ASSUME Await PROVE PlacesOK'
  <2>1. /\ running # "none" /\ running' = "none"
        /\ pending' = pending \cup {running}
        /\ UNCHANGED <<conQ, frames>>
    BY <1>5 DEF Await, PhaseOK, Yield
  <2> QED
    BY <1>t, <1>q, <2>1 DEF PlacesOK, Places
<1>6. ASSUME CoReturn PROVE PlacesOK'
  <2>1. /\ running # "none" /\ running' = "none"
        /\ frames' = frames \ {running}
        /\ UNCHANGED <<conQ, pending>>
    BY <1>6 DEF CoReturn, PhaseOK, Yield
  <2> QED
    BY <1>t, <1>q, <2>1 DEF PlacesOK, Places
<1>7. ASSUME NEW co \in Coroutines, NEW res, Complete(co, res) PROVE PlacesOK'
  <2>1. /\ co \in pending /\ pending' = pending \ {co}
        /\ conQ' = Append(conQ, co)
        /\ UNCHANGED <<running, frames>>
    BY <1>7 DEF Complete
  <2>2. ~Occurs(conQ, co)
    BY <2>1 DEF PlacesOK, Places
  <2>3. NoRepeat(conQ') /\ \A x : Occurs(conQ', x) <=> Occurs(conQ, x) \/ x = co
    BY <1>a, <2>1, <2>2
  <2> QED
    BY <1>t, <2>1, <2>3 DEF PlacesOK, Places, NoRepeat
<1>8. ASSUME ReadData \/ WriteDone \/ ConnectDone \/ \E co \in Coroutines : Fails(co)
      PROVE  \E co \in Coroutines : \E res : Complete(co, res)
  BY <1>8 DEF ReadData, WriteDone, ConnectDone, Fails, Coroutines
<1>9. ASSUME \/ StartCas \/ StartOnConnect \/ SendResume \/ RecvResume \/ RecvLoop
             \/ ConnectResume \/ ConnectStarted \/ CloseCas \/ CloseSocket \/ CloseNotify
             \/ SessionStep \/ UNCHANGED vars
      PROVE  PlacesOK'
  <2>1. UNCHANGED <<conQ, running, pending, frames>>
    BY <1>9 DEF StartCas, StartOnConnect, SendResume, RecvResume, RecvLoop, ConnectResume,
       ConnectStarted, CloseCas, CloseSocket, CloseNotify, SessionStep, SessionMsg,
       SessionReply, SessionClose, SessionCloseConn, SessionClear, SessionOnClose, vars
  <2> QED
    BY <1>u, <2>1
<1> QED
  BY <1>2, <1>3, <1>4, <1>5, <1>6, <1>7, <1>8, <1>9 DEF Next, StartStep, ExecutorStep

-----------------------------------------------------------------------------
(* What runs when.                                                          *)

LEMMA NextPhaseOK == IInv /\ [Next]_vars => PhaseOK'
<1> SUFFICES ASSUME TypeOK, PlacesOK, PhaseOK, ClosingOK, [Next]_vars PROVE PhaseOK'
  BY DEF IInv
<1>t. /\ running \in Coroutines \cup {"none"} /\ result \in [Coroutines -> Results]
      /\ "none" \notin Coroutines
      /\ "Send" \in Coroutines /\ "Recv" \in Coroutines /\ "Connect" \in Coroutines
  BY DEF TypeOK, Coroutines
<1>f. /\ running # "none" => running \in frames /\ running \notin pending
      /\ pending \subseteq frames
      /\ conQ # <<>> => Head(conQ) \in frames /\ Head(conQ) # "none"
  <2>1. conQ # <<>> => Head(conQ) \in Coroutines /\ Occurs(conQ, Head(conQ))
    <3> SUFFICES ASSUME conQ # <<>> PROVE Head(conQ) \in Coroutines /\ Occurs(conQ, Head(conQ))
      OBVIOUS
    <3>1. conQ \in Seq(Coroutines)
      BY DEF TypeOK
    <3>2. Head(conQ) \in Coroutines
      BY <3>1, HeadTailProperties
    <3>3. NoRepeat(conQ)
      BY DEF PlacesOK, Places, NoRepeat
    <3> QED
      BY <3>1, <3>2, <3>3, TailOccurs
  <2>2. pending \subseteq Coroutines
    BY DEF TypeOK
  <2> QED
    BY <1>t, <2>1, <2>2 DEF PlacesOK, Places
<1>c. (spc = "closing" => Disconnected) /\ (Closing => Disconnected)
  BY DEF ClosingOK
<1>r. running \in {"Send", "Recv", "Connect", "none"}
  BY <1>t DEF Coroutines
<1> USE DEF conVars, sesVars, Disconnected
<1>1. ASSUME StartCas PROVE PhaseOK'
  BY <1>1, <1>t, <1>f, <1>c DEF PhaseOK, StartCas
<1>2. ASSUME StartSend PROVE PhaseOK'
  BY <1>2, <1>t, <1>f, <1>c DEF PhaseOK, StartSend, Spawn, FirstSpawn
<1>3. ASSUME StartRecv PROVE PhaseOK'
  BY <1>3, <1>t, <1>f, <1>c DEF PhaseOK, StartRecv, Spawn, SecondSpawn
<1>4. ASSUME StartOnConnect PROVE PhaseOK'
  BY <1>4, <1>t, <1>f, <1>c DEF PhaseOK, StartOnConnect
<1>5. ASSUME RunTask PROVE PhaseOK'
  BY <1>5, <1>t, <1>f, <1>c DEF PhaseOK, RunTask
<1>6. ASSUME SendResume PROVE PhaseOK'
  BY <1>6, <1>t, <1>f, <1>c DEF PhaseOK, SendResume
<1>7. ASSUME SendLoop PROVE PhaseOK'
  BY <1>7, <1>t, <1>f, <1>c DEF PhaseOK, SendLoop, Yield
<1>8. ASSUME RecvResume PROVE PhaseOK'
  BY <1>8, <1>t, <1>f, <1>c DEF PhaseOK, RecvResume
<1>9. ASSUME RecvLoop PROVE PhaseOK'
  BY <1>9, <1>t, <1>f, <1>c DEF PhaseOK, RecvLoop
<1>10. ASSUME ConnectResume PROVE PhaseOK'
  BY <1>10, <1>t, <1>f, <1>c DEF PhaseOK, ConnectResume
<1>11. ASSUME ConnectStarted PROVE PhaseOK'
  BY <1>11, <1>t, <1>f, <1>c DEF PhaseOK, ConnectStarted, StartReturned
<1>12. ASSUME Await PROVE PhaseOK'
  BY <1>12, <1>t, <1>f, <1>c DEF PhaseOK, Await, Yield
<1>13. ASSUME CloseCas PROVE PhaseOK'
  BY <1>13, <1>t, <1>f, <1>r DEF PhaseOK, CloseCas, AlreadyClosed
<1>14. ASSUME CloseSocket PROVE PhaseOK'
  BY <1>14, <1>t, <1>f, <1>c DEF PhaseOK, CloseSocket, Closing
<1>15. ASSUME CloseNotify PROVE PhaseOK'
  BY <1>15, <1>t, <1>f, <1>c DEF PhaseOK, CloseNotify
<1>16. ASSUME CoReturn PROVE PhaseOK'
  BY <1>16, <1>t, <1>f, <1>c DEF PhaseOK, CoReturn, Yield
<1>17. ASSUME SessionMsg PROVE PhaseOK'
  BY <1>17, <1>t, <1>f, <1>c DEF PhaseOK, SessionMsg
<1>18. ASSUME SessionReply PROVE PhaseOK'
  BY <1>18, <1>t, <1>f, <1>c DEF PhaseOK, SessionReply
<1>19. ASSUME SessionClose PROVE PhaseOK'
  BY <1>19, <1>t, <1>f, <1>c DEF PhaseOK, SessionClose
<1>20. ASSUME SessionCloseConn PROVE PhaseOK'
  BY <1>20, <1>t, <1>f, <1>c DEF PhaseOK, SessionCloseConn, AlreadyClosed
<1>21. ASSUME SessionClear PROVE PhaseOK'
  BY <1>21, <1>t, <1>f, <1>c DEF PhaseOK, SessionClear
<1>22. ASSUME SessionOnClose PROVE PhaseOK'
  BY <1>22, <1>t, <1>f, <1>c DEF PhaseOK, SessionOnClose
<1>23. ASSUME NEW co \in Coroutines, NEW res \in Results, Complete(co, res),
             co = "Connect" => res # "none"
       PROVE  PhaseOK'
  BY <1>23, <1>t, <1>f DEF PhaseOK, Complete
<1>24. ASSUME ReadData \/ WriteDone \/ ConnectDone \/ \E co \in Coroutines : Fails(co)
       PROVE  \E co \in Coroutines, res \in Results :
                 Complete(co, res) /\ (co = "Connect" => res # "none")
  BY <1>24, <1>t DEF ReadData, WriteDone, ConnectDone, Fails, Results
<1>25. CASE UNCHANGED vars
  BY <1>25 DEF vars, PhaseOK
<1> QED
  BY <1>1, <1>2, <1>3, <1>4, <1>5, <1>6, <1>7, <1>8, <1>9, <1>10, <1>11, <1>12, <1>13, <1>14, <1>15, <1>16, <1>17, <1>18, <1>19, <1>20, <1>21, <1>22, <1>23, <1>24, <1>25
    DEF Next, StartStep, ExecutorStep, SessionStep

-----------------------------------------------------------------------------
(* One Close wins.                                                          *)

LEMMA NextClosingOK == IInv /\ [Next]_vars => ClosingOK'
<1> SUFFICES ASSUME TypeOK, PlacesOK, PhaseOK, ClosingOK, [Next]_vars PROVE ClosingOK'
  BY DEF IInv
<1>t. /\ sesQ \in Seq({"Msg", "Close"}) /\ closes \in Nat
      /\ state \in {"Connecting", "Connected", "Disconnected"}
  BY DEF TypeOK
<1>m. ASSUME sesQ' = Append(sesQ, "Msg") PROVE Occurs(sesQ', "Close") <=> Occurs(sesQ, "Close")
  BY <1>m, <1>t, AppendOccurs
<1>h. ASSUME sesQ # <<>> 
      PROVE  /\ Occurs(Tail(sesQ), "Close") => Occurs(sesQ, "Close")
             /\ Head(sesQ) = "Close" => Occurs(sesQ, "Close")
  <2>1. Head(sesQ) = sesQ[1] /\ 1 \in 1 .. Len(sesQ)
    BY <1>h, <1>t, HeadTailProperties, EmptySeq
  <2> QED
    BY <1>h, <1>t, <2>1, TailOccurs DEF Occurs
<1>u. ASSUME UNCHANGED <<state, socket, closes, sesQ, spc>>, cpc' \notin {"shut", "onclose"}, 
             ~Closing
      PROVE  ClosingOK'
  BY <1>u DEF ClosingOK, Closing, Disconnected
<1>v. ASSUME UNCHANGED <<state, socket, closes, sesQ, spc, cpc>> PROVE ClosingOK'
  BY <1>v DEF ClosingOK, Closing, Disconnected
<1> USE DEF conVars, sesVars
<1>1. ASSUME StartCas PROVE ClosingOK'
  BY <1>1 DEF StartCas, ClosingOK, Closing, Disconnected
<1>2. ASSUME StartSend \/ StartRecv \/ StartOnConnect \/ SessionReply PROVE ClosingOK'
  <2>1. CASE SessionReply
    BY <2>1 DEF SessionReply, ClosingOK, Closing, Disconnected
  <2> QED
    BY <1>2, <1>v, <2>1 DEF StartSend, StartRecv, Spawn, StartOnConnect
<1>3. ASSUME \/ RunTask \/ SendResume \/ SendLoop \/ RecvLoop \/ ConnectStarted \/ Await
             \/ CoReturn
      PROVE  ClosingOK'
  BY <1>3, <1>u DEF RunTask, SendResume, SendLoop, RecvLoop, ConnectStarted, Await,
     CoReturn, Yield, Closing
<1>4. ASSUME RecvResume PROVE ClosingOK'
  <2>1. Occurs(sesQ', "Close") <=> Occurs(sesQ, "Close")
    BY <1>4, <1>m DEF RecvResume
  <2> QED
    BY <1>4, <2>1 DEF RecvResume, ClosingOK, Closing, Disconnected
<1>5. ASSUME ConnectResume PROVE ClosingOK'
  <2>1. "Connect" \in frames
    BY <1>5 DEF ConnectResume, PlacesOK, Places, Coroutines
  <2>2. ~Disconnected
    BY <1>5, <2>1 DEF ConnectResume, PhaseOK
  <2> QED
    BY <1>5, <2>2 DEF ConnectResume, ClosingOK, Closing, Disconnected
<1>6. ASSUME CloseCas PROVE ClosingOK'
  BY <1>6 DEF CloseCas, AlreadyClosed, ClosingOK, Closing, Disconnected
<1>7. ASSUME CloseSocket PROVE ClosingOK'
  BY <1>7 DEF CloseSocket, ClosingOK, Closing, Disconnected
<1>8. ASSUME CloseNotify PROVE ClosingOK'
  BY <1>8, <1>t DEF CloseNotify, ClosingOK, Closing, Disconnected
<1>9. ASSUME NEW co, NEW res, Complete(co, res) PROVE ClosingOK'
  BY <1>9, <1>v DEF Complete
<1>10. ASSUME ReadData \/ WriteDone \/ ConnectDone \/ \E co \in Coroutines : Fails(co)
       PROVE  \E co, res : Complete(co, res)
  BY <1>10 DEF ReadData, WriteDone, ConnectDone, Fails
<1>11. ASSUME SessionMsg \/ SessionClose PROVE ClosingOK'
  <2>1. Occurs(sesQ', "Close") => Occurs(sesQ, "Close")
    BY <1>11, <1>h DEF SessionMsg, SessionClose
  <2>2. spc' \in {"closing", "clear", "onclose"} => Occurs(sesQ, "Close")
    BY <1>11, <1>h DEF SessionMsg, SessionClose
  <2>3. UNCHANGED <<state, socket, closes, cpc>>
    BY <1>11 DEF SessionMsg, SessionClose
  <2> QED
    BY <2>1, <2>2, <2>3 DEF ClosingOK, Closing, Disconnected
<1>12. ASSUME SessionCloseConn PROVE ClosingOK'
  BY <1>12, <1>t DEF SessionCloseConn, AlreadyClosed, ClosingOK, Closing, Disconnected
<1>13. ASSUME SessionClear \/ SessionOnClose PROVE ClosingOK'
  BY <1>13 DEF SessionClear, SessionOnClose, ClosingOK, Closing, Disconnected
<1>14. CASE UNCHANGED vars
  BY <1>14, <1>v DEF vars
<1> QED
  BY <1>1, <1>2, <1>3, <1>4, <1>5, <1>6, <1>7, <1>8, <1>9, <1>10, <1>11, <1>12, <1>13, <1>14
    DEF Next, StartStep, ExecutorStep, SessionStep

-----------------------------------------------------------------------------
(* The theorems.                                                            *)

LEMMA InitIInv == Init => IInv
<1> SUFFICES ASSUME Init PROVE IInv
  OBVIOUS
<1> USE DEF Init, Disconnected, Coroutines
<1>1. side \in {"accept", "connect"}
  BY SidesAssumption
<1>2. TypeOK
  <2>1. conQ \in Seq(Coroutines) /\ sesQ \in Seq({"Msg", "Close"})
    <3>1. conQ = <<>> \/ conQ = <<"Connect">>
      OBVIOUS
    <3>2. <<"Connect">> \in Seq(Coroutines) /\ <<>> \in Seq(Coroutines)
      BY EmptySeq
    <3>3. sesQ \in Seq({"Msg", "Close"})
      BY EmptySeq
    <3> QED
      BY <3>1, <3>2, <3>3
  <2> QED
    BY <1>1, <2>1 DEF TypeOK, ExecPC, StartPC, SessionPC, Results
<1>3. PlacesOK
  BY <1>1 DEF PlacesOK, Places, Occurs
<1>4. PhaseOK
  BY <1>1 DEF PhaseOK
<1>5. ClosingOK
  BY <1>1 DEF ClosingOK, Closing, Occurs
<1> QED
  BY <1>2, <1>3, <1>4, <1>5 DEF IInv

LEMMA Inductive == Spec => []IInv
<1>1. IInv /\ [Next]_vars => IInv'
  BY NextTypeOK, NextPlacesOK, NextPhaseOK, NextClosingOK DEF IInv
<1> QED
  BY InitIInv, <1>1, PTL DEF Spec

\* Every variable keeps to the values its code gives it.
THEOREM TypeCorrect == Spec => []TypeOK
<1>1. IInv => TypeOK
  BY DEF IInv
<1> QED
  BY Inductive, <1>1, PTL

\* No coroutine starts a read, a write or a connect (Connection::Recv, Send and
\* Connect) on a socket that Close has reset.
THEOREM SocketIsThere == Spec => []SocketSafe
<1>1. IInv => SocketSafe
  BY DEF IInv, PhaseOK, SocketSafe
<1> QED
  BY Inductive, <1>1, PTL

\* The places of one coroutine in a queue without repetition.
LEMMA PositionsCount ==
    ASSUME NEW S, NEW q \in Seq(S), NoRepeat(q), NEW co
    PROVE  Cardinality({i \in DOMAIN q : q[i] = co}) = IF Occurs(q, co) THEN 1 ELSE 0
<1>1. DOMAIN q = 1 .. Len(q)
  BY LenProperties
<1>2. CASE ~Occurs(q, co)
  <2>1. {i \in DOMAIN q : q[i] = co} = {}
    BY <1>1, <1>2 DEF Occurs
  <2> QED
    BY <1>2, <2>1, FS_EmptySet
<1>3. CASE Occurs(q, co)
  <2>1. PICK i \in 1 .. Len(q) : q[i] = co
    BY <1>3 DEF Occurs
  <2>2. {j \in DOMAIN q : q[j] = co} = {i}
    BY <1>1, <2>1 DEF NoRepeat
  <2> QED
    BY <1>3, <2>2, FS_Singleton
<1> QED
  BY <1>2, <1>3

\* A coroutine's frame exists exactly while one task, one operation or the
\* executor will resume it or is running it: coroutine_handle::resume is never
\* called on a frame that runs or is destroyed.
THEOREM ResumedFromOnePlace == Spec => []CoroutineOnce
<1>1. IInv => CoroutineOnce
  <2> SUFFICES ASSUME TypeOK, PlacesOK, NEW co \in Coroutines
               PROVE  Cardinality({i \in DOMAIN conQ : conQ[i] = co})
                      + (IF running = co THEN 1 ELSE 0) + (IF co \in pending THEN 1 ELSE 0)
                          = IF co \in frames THEN 1 ELSE 0
    BY DEF IInv, CoroutineOnce
  <2>1. Cardinality({i \in DOMAIN conQ : conQ[i] = co}) = IF Occurs(conQ, co) THEN 1 ELSE 0
    <3>1. conQ \in Seq(Coroutines) /\ NoRepeat(conQ)
      BY DEF TypeOK, PlacesOK, Places, NoRepeat
    <3> QED
      BY <3>1, PositionsCount
  <2>2. co \in frames <=> Occurs(conQ, co) \/ co = running \/ co \in pending
    BY DEF PlacesOK, Places
  <2>3. /\ ~(Occurs(conQ, co) /\ co = running) /\ ~(Occurs(conQ, co) /\ co \in pending)
        /\ ~(co = running /\ co \in pending)
    BY DEF PlacesOK, Places
  <2> QED
    BY <2>1, <2>2, <2>3
<1> QED
  BY Inductive, <1>1, PTL

\* Connection::Close runs OnClose once, whichever of the coroutines and the
\* session calls it, and the session finds the connection closed.
THEOREM OnCloseOnce == Spec => []ClosedOnce
<1>1. IInv => ClosedOnce
  <2> SUFFICES ASSUME ClosingOK, closes \in Nat PROVE ClosedOnce
    BY DEF IInv, TypeOK
  <2>1. closes = 0 \/ closes = 1
    BY DEF ClosingOK
  <2> QED
    BY <2>1 DEF ClosingOK, Closing, ClosedOnce, Disconnected
<1> QED
  BY Inductive, <1>1, PTL
=============================================================================
