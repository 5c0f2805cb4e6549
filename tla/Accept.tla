------------------------------- MODULE Accept -------------------------------
(***************************************************************************)
(* Base/Server.cpp and Base/NetworkContext.cpp: the Accept coroutines of a    *)
(* server, acceptTaskCount of them on one acceptor, and the threads that run    *)
(* the handlers of its io_context.  What an accept returns is handled on the    *)
(* server's executor.                                                        *)
(*                                                                          *)
(* Asio is external: the acceptor gives the connections that arrive to its     *)
(* outstanding accepts in order, and run_one without outstanding work stops     *)
(* the io_context, for good as nothing restarts it.                          *)
(***************************************************************************)
EXTENDS Naturals, Sequences, FiniteSets

CONSTANTS
    AcceptTasks,    \* Configure::acceptTaskCount
    NetThreads,     \* threads that call NetworkContext::Run
    Peers,          \* clients that connect, once each
    Failure,        \* what an accept returns with an error
    MaxFailures     \* bound: accepts that fail

Loops == 1 .. AcceptTasks    \* the coroutines

VARIABLES
    backlog,        \* connections the acceptor holds
    accepting,      \* outstanding accepts, in order
    accepted,       \* [Loops -> AwaitAccept::_result: Failure or a peer, or "none"]
    serverQue,      \* the server's tasks: loops to resume
    loopState,      \* [Loops -> "none", "ready", "await", "ended"]
    started,        \* peers in the order of Connection::Start
    inRun,          \* threads inside NetworkContext::Run
    netStop,        \* NetworkContext::_stop
    ioStopped,      \* io_context::stopped()
    came, failures  \* peers that have connected, accepts that failed

net  == <<inRun, netStop, ioStopped>>
vars == <<backlog, accepting, accepted, serverQue, loopState, started, net, came, failures>>

Init ==
    /\ backlog = <<>> /\ accepting = <<>> /\ started = <<>>
    /\ accepted = [l \in Loops |-> "none"]
    /\ serverQue = <<>>
    /\ loopState = [l \in Loops |-> "none"]
    /\ inRun = 0 /\ netStop = FALSE /\ ioStopped = FALSE
    /\ came = {} /\ failures = 0

-----------------------------------------------------------------------------
(* NetworkContext                                                            *)

\* A thread of the group calls Run.
Run ==
    /\ inRun < NetThreads /\ ~netStop
    /\ inRun' = inRun + 1
    /\ UNCHANGED <<backlog, accepting, accepted, serverQue, loopState, started, netStop,
                   ioStopped, came, failures>>

\* run_one finds no accept outstanding; connections that were started may have ended.
RunIdle ==
    /\ inRun > 0 /\ accepting = <<>> /\ ~ioStopped
    /\ ioStopped' = TRUE
    /\ UNCHANGED <<backlog, accepting, accepted, serverQue, loopState, started, inRun,
                   netStop, came, failures>>

NetStop ==
    /\ ~netStop /\ netStop' = TRUE
    /\ UNCHANGED <<backlog, accepting, accepted, serverQue, loopState, started, inRun,
                   ioStopped, came, failures>>

\* run_one has run a handler: the loop looks at _stop.
RunOne ==
    /\ inRun > 0 /\ ~ioStopped
    /\ inRun' = IF netStop THEN inRun - 1 ELSE inRun
    /\ UNCHANGED <<netStop, ioStopped>>

-----------------------------------------------------------------------------
(* Accepting                                                                 *)

\* Server::Accept: the acceptor listens; a Spawn_Accept for every task of the configuration.
Listen ==
    /\ \A l \in Loops : loopState[l] = "none"
    /\ loopState' = [l \in Loops |-> "ready"]
    /\ serverQue' = [l \in Loops |-> l]
    /\ UNCHANGED <<backlog, accepting, accepted, started, net, came, failures>>

Arrive(p) ==
    /\ p \notin came /\ \E l \in Loops : loopState[l] # "none"
    /\ came' = came \cup {p}
    /\ backlog' = Append(backlog, p)
    /\ UNCHANGED <<accepting, accepted, serverQue, loopState, started, net, failures>>

\* The handler of AsyncAccept keeps the result and posts the loop's resume.
Completes(r) ==
    /\ accepting # <<>>
    /\ accepted' = [accepted EXCEPT ![Head(accepting)] = r]
    /\ serverQue' = Append(serverQue, Head(accepting))
    /\ accepting' = Tail(accepting)
    /\ RunOne
    /\ UNCHANGED <<loopState, started, came>>

AcceptDone ==
    /\ backlog # <<>> /\ backlog' = Tail(backlog)
    /\ Completes(Head(backlog)) /\ UNCHANGED failures

AcceptFails ==
    /\ failures < MaxFailures /\ failures' = failures + 1
    /\ Completes(Failure) /\ UNCHANGED backlog

MutBreaks(r) == r # "none"

\* Does the loop end behind co_await?
Breaks(r) == r = Failure

\* Create a connection for the socket, and Start it.
Start(r) == started' = IF r \in Peers THEN Append(started, r) ELSE started

\* The server's executor resumes a loop: it starts the connection it has got, and
\* accepts the next one on a new socket.
ServerResume ==
    /\ serverQue # <<>>
    /\ serverQue' = Tail(serverQue)
    /\ LET l == Head(serverQue)
           r == accepted[l]
       IN  /\ Start(r)
           /\ loopState' = [loopState EXCEPT ![l] = IF Breaks(r) THEN "ended" ELSE "await"]
           /\ accepting' = IF Breaks(r) THEN accepting ELSE Append(accepting, l)
    /\ UNCHANGED <<backlog, accepted, net, came, failures>>

Next ==
    \/ Run \/ RunIdle \/ NetStop
    \/ Listen \/ (\E p \in Peers : Arrive(p)) \/ AcceptDone \/ AcceptFails \/ ServerResume

\* A network thread that blocks in run_one runs a handler that is there; the server's
\* executor runs.
Fairness == WF_vars(AcceptDone) /\ WF_vars(ServerResume)

Spec == Init /\ [][Next]_vars /\ Fairness

-----------------------------------------------------------------------------
Served(p) == Cardinality({i \in DOMAIN started : started[i] = p}) = 1

\* Every connection that arrives while a thread runs the handlers is started, once, as
\* long as fewer accepts have failed than there are loops (each error ends one of them
\* for good) and no thread calls run_one while no accept is outstanding.
EveryoneAccepted ==
    \A p \in Peers : (p \in came /\ inRun > 0) ~>
                        (Served(p) \/ failures >= AcceptTasks \/ ioStopped \/ netStop)
=============================================================================
