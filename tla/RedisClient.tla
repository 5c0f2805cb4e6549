---------------------------- MODULE RedisClient ----------------------------
(***************************************************************************)
(* Base/RedisClient.h: the connect loop AwaitConnect, Execute and Stop, all  *)
(* on one strand.  A piece of the loop between two co_awaits is one handler   *)
(* of the strand and one action here.                                        *)
(*                                                                          *)
(* Boost.Redis is external: a connection answers a request, or fails it when  *)
(* it is cancelled or destroyed; async_run returns when the connection is     *)
(* lost or cannot be made, and after a cancel.                               *)
(*                                                                          *)
(* Assumption on the caller: Connect is called once for a client, as in the   *)
(* use that GameServer.cpp sketches (56-57, commented out).  The code has no   *)
(* guard against a second loop over the same RedisConnection.                 *)
(***************************************************************************)
EXTENDS Naturals, Sequences, FiniteSets

CONSTANTS
    Requests,       \* calls of Execute (model values)
    MaxConns,       \* bound: connections made
    MaxStops        \* bound: calls of Stop, the destructor's included

VARIABLES
    strand,         \* handlers posted to _strand, in order
    loop,           \* AwaitConnect: "none", "run" (async_run), "wait" (timer), "end"
    newCon,         \* AwaitConnect's connection: its number, 0 for none
    conn,           \* RedisConnection::_conn
    cancelled,      \* is newCon cancelled?
    stopFlag,       \* RedisConnection::_stop
    asked,          \* [Requests -> "no", "posted", "asked", "done"]
    waitsOn,        \* [Requests -> the connection that has it, or 0]
    made, stops,    \* connections made, calls of Stop
    late            \* history: did the last Stop come while no connection ran?

vars == <<strand, loop, newCon, conn, cancelled, stopFlag, asked, waitsOn, made, stops, late>>

Init ==
    /\ strand = <<>> /\ loop = "none" /\ newCon = 0 /\ conn = 0
    /\ cancelled = FALSE /\ stopFlag = FALSE
    /\ asked = [r \in Requests |-> "no"] /\ waitsOn = [r \in Requests |-> 0]
    /\ made = 0 /\ stops = 0 /\ late = FALSE

\* Requests of connections that are cancelled or destroyed fail; their handlers
\* run with RedisErrorCode::Fail.
FailOn(cs) == asked' = [r \in Requests |-> IF asked[r] = "asked" /\ waitsOn[r] \in cs
                                           THEN "done" ELSE asked[r]]

-----------------------------------------------------------------------------
(* Any thread                                                                *)

\* The guard is the caller's: the first and only call.
Connect ==
    /\ loop = "none" /\ "Connect" \notin {strand[i] : i \in DOMAIN strand}
    /\ strand' = Append(strand, "Connect")
    /\ UNCHANGED <<loop, newCon, conn, cancelled, stopFlag, asked, waitsOn, made, stops, late>>

Stop ==
    /\ stops < MaxStops
    /\ stops' = stops + 1
    /\ strand' = Append(strand, "Stop")
    /\ UNCHANGED <<loop, newCon, conn, cancelled, stopFlag, asked, waitsOn, made, late>>

Execute(r) ==
    /\ asked[r] = "no"
    /\ asked' = [asked EXCEPT ![r] = "posted"]
    /\ strand' = Append(strand, r)
    /\ UNCHANGED <<loop, newCon, conn, cancelled, stopFlag, waitsOn, made, stops, late>>

-----------------------------------------------------------------------------
(* The strand                                                                *)

\* The head of the loop: make_shared, SetConnection (which lets go of the connection
\* before), async_run.
NewConnection ==
    /\ made < MaxConns
    /\ made' = made + 1
    /\ newCon' = made + 1 /\ conn' = made + 1
    /\ cancelled' = FALSE
    /\ loop' = "run"
    /\ FailOn({conn})

StartLoop ==
    /\ strand # <<>> /\ Head(strand) = "Connect"
    /\ strand' = Tail(strand)
    /\ NewConnection
    /\ UNCHANGED <<stopFlag, waitsOn, stops, late>>

\* The second is over.
TimerFires ==
    /\ loop = "wait"
    /\ NewConnection
    /\ UNCHANGED <<strand, stopFlag, waitsOn, stops, late>>

MutIsStop == FALSE
IsStop    == stopFlag

\* async_run has returned: the end of the loop, or cancel and wait a second.
RunReturns ==
    /\ loop = "run"
    /\ IF IsStop
       THEN loop' = "end" /\ newCon' = 0 /\ FailOn({newCon} \ {conn}) /\ UNCHANGED cancelled
       ELSE loop' = "wait" /\ cancelled' = TRUE /\ FailOn({newCon}) /\ UNCHANGED newCon
    /\ UNCHANGED <<strand, conn, stopFlag, waitsOn, made, stops, late>>

\* RedisConnection::Stop cancels _conn and lets go of it.
RunStop ==
    /\ strand # <<>> /\ Head(strand) = "Stop"
    /\ strand' = Tail(strand)
    /\ stopFlag' = TRUE
    /\ conn' = 0
    /\ cancelled' = (cancelled \/ (conn # 0 /\ conn = newCon))
    /\ FailOn({conn})
    /\ late' = (loop \in {"none", "wait"})
    /\ UNCHANGED <<loop, newCon, waitsOn, made, stops>>

MutNobody == FALSE

\* Is there no connection to give a request to?
Nobody == conn = 0

RunExecute(r) ==
    /\ strand # <<>> /\ Head(strand) = r
    /\ strand' = Tail(strand)
    /\ IF Nobody
       THEN asked' = [asked EXCEPT ![r] = "done"] /\ UNCHANGED waitsOn
       ELSE asked' = [asked EXCEPT ![r] = "asked"] /\ waitsOn' = [waitsOn EXCEPT ![r] = conn]
    /\ UNCHANGED <<loop, newCon, conn, cancelled, stopFlag, made, stops, late>>

\* The server answers, or the connection gives up.
Answer(r) ==
    /\ loop = "run" /\ ~cancelled
    /\ asked[r] = "asked" /\ waitsOn[r] = newCon
    /\ asked' = [asked EXCEPT ![r] = "done"]
    /\ UNCHANGED <<strand, loop, newCon, conn, cancelled, stopFlag, waitsOn, made, stops, late>>

StrandStep == StartLoop \/ RunStop \/ (\E r \in Requests : RunExecute(r))

Next ==
    \/ Connect \/ Stop \/ (\E r \in Requests : Execute(r))
    \/ StrandStep \/ TimerFires \/ RunReturns
    \/ \E r \in Requests : Answer(r)

\* The strand runs its handlers, the timer fires, a cancelled async_run returns,
\* and a connection that keeps running answers.
Fairness ==
    /\ WF_vars(StrandStep) /\ WF_vars(TimerFires) /\ WF_vars(cancelled /\ RunReturns)
    /\ \A r \in Requests : WF_vars(Answer(r))

Spec == Init /\ [][Next]_vars /\ Fairness

-----------------------------------------------------------------------------
(* Properties                                                                *)

\* Stop ends the loop for good, unless it was called during the second's wait (or
\* before the loop started): then it goes unseen until the next connection is lost.
StopEnds == (stopFlag /\ ~late) ~> (loop = "end")

\* The handler of every Execute runs: a request given to a connection that is being
\* abandoned fails when the connection is replaced; only after a Stop that went
\* unseen may a request stay with a dead connection.
Answered == \A r \in Requests :
    (asked[r] = "posted") ~> (asked[r] = "done" \/ late \/ made = MaxConns)
=============================================================================
