-------------------------- MODULE AwaitTaskProofs --------------------------
(***************************************************************************)
(* A coroutine runs on its own executor only, for any executors and frames.  *)
(* OnOwnExecutor is not inductive: what runs was queued, and what is queued   *)
(* was posted by the end of a callee, to the place the callee remembers.      *)
(* PlacesKnown says all three.                                               *)
(*                                                                          *)
(* The second half proves ResumedOnce.  RInv ties the status of a frame to    *)
(* where it is: posted once while it is ready, with one executor while it     *)
(* runs or ends, and awaiting exactly while the last frame it made is active. *)
(***************************************************************************)
EXTENDS AwaitTask, FiniteSetTheorems, SequenceTheorems, TLAPS

\* The executor that a frame belongs to.
Where(f) == IF executor[f] = NoExecutor THEN home[f] ELSE executor[f]

Statuses == {"none", "ready", "running", "awaiting", "final", "gone"}

TypeOK ==
    /\ queue \in [Executors -> Seq(Frames)]
    /\ running \in [Executors -> Frames \cup {0}]
    /\ status \in [Frames -> Statuses]
    /\ executor \in [Frames -> Executors \cup {NoExecutor}]
    /\ caller \in [Frames -> Frames \cup {0}]
    /\ home \in [Frames -> Executors \cup {NoExecutor}]

\* A started frame that belongs to e.
At(f, e) == status[f] # "none" /\ Where(f) = e

PlacesKnown ==
    /\ \A e \in Executors : running[e] # 0 => At(running[e], e)
    /\ \A e \in Executors : \A i \in DOMAIN queue[e] : At(queue[e][i], e)
    /\ \A g \in Frames : caller[g] # 0 => home[g] \in Executors /\ At(caller[g], home[g])

IInv == TypeOK /\ PlacesKnown

-----------------------------------------------------------------------------
\* A frame that is started stays where it is, whatever a new frame f is given.
LEMMA StartedStays ==
    ASSUME TypeOK, NEW f \in Frames, status[f] = "none",
           NEW x, NEW from, NEW e, Create(f, x, from, e),
           NEW g \in Frames, status[g] # "none"
    PROVE  Where(g)' = Where(g)
  BY DEF Create, TypeOK, Where

\* The elements of a queue after a resume is posted to it.
LEMMA PostedElements ==
    ASSUME TypeOK, NEW x \in Executors, NEW f \in Frames, PostResume(x, f),
           NEW e \in Executors, NEW i \in DOMAIN queue'[e]
    PROVE  \/ i \in DOMAIN queue[e] /\ queue'[e][i] = queue[e][i]
           \/ e = x /\ queue'[e][i] = f
  <1>1. queue[e] \in Seq(Frames)  BY DEF TypeOK
  <1>2. queue'[e] = IF e = x THEN Append(queue[e], f) ELSE queue[e]
    BY DEF PostResume, TypeOK
  <1>3. CASE e = x
    <2>1. i \in 1 .. Len(queue[e]) + 1  BY <1>1, <1>2, <1>3
    <2>2. CASE i = Len(queue[e]) + 1  BY <1>1, <1>2, <1>3, <2>2
    <2>3. CASE i # Len(queue[e]) + 1  BY <1>1, <1>2, <1>3, <2>1, <2>3
    <2>. QED  BY <2>2, <2>3
  <1>4. CASE e # x  BY <1>2, <1>4
  <1>. QED  BY <1>3, <1>4

\* A posted resume keeps the type of the queues.
LEMMA PostedType ==
    ASSUME TypeOK, NEW x \in Executors, NEW f \in Frames, PostResume(x, f)
    PROVE  queue' \in [Executors -> Seq(Frames)]
  BY DEF TypeOK, PostResume

-----------------------------------------------------------------------------
\* A step in which every started frame stays where it is and no caller changes
\* keeps what callees remember.
LEMMA CallersKept ==
    ASSUME IInv, TypeOK', UNCHANGED <<caller, home>>,
           \A g \in Frames : \A e : At(g, e) => At(g, e)'
    PROVE  \A g \in Frames : caller'[g] # 0 => home'[g] \in Executors /\ At(caller[g], home[g])'
  <1> SUFFICES ASSUME NEW g \in Frames, caller'[g] # 0
               PROVE  home'[g] \in Executors /\ At(caller[g], home[g])'
    OBVIOUS
  <1>1. caller[g] \in Frames  BY DEF IInv, TypeOK
  <1>2. home[g] \in Executors /\ At(caller[g], home[g])  BY DEF IInv, PlacesKnown
  <1>. QED  BY <1>1, <1>2 DEF At, Where

\* What a new frame f, awaited by from on e, does to the frames.
LEMMA CreateKeeps ==
    ASSUME IInv, NEW f \in Frames, status[f] = "none",
           NEW x \in Executors \cup {NoExecutor}, NEW e \in Executors \cup {NoExecutor},
           NEW from \in Frames \cup {0},
           from # 0 => e \in Executors /\ At(from, e),
           Create(f, x, from, e),
           status' \in [Frames -> Statuses],
           status'[f] # "none",
           \A g \in Frames : status[g] # "none" => status'[g] # "none"
    PROVE  /\ executor' \in [Frames -> Executors \cup {NoExecutor}]
           /\ caller' \in [Frames -> Frames \cup {0}]
           /\ home' \in [Frames -> Executors \cup {NoExecutor}]
           /\ \A g \in Frames : \A d : At(g, d) => At(g, d)'
           /\ At(f, IF x = NoExecutor THEN e ELSE x)'
           /\ \A g \in Frames : caller'[g] # 0 => home'[g] \in Executors /\ At(caller[g], home[g])'
  <1>1. TypeOK /\ PlacesKnown  BY DEF IInv
  <1>2. /\ executor' \in [Frames -> Executors \cup {NoExecutor}]
        /\ caller' \in [Frames -> Frames \cup {0}]
        /\ home' \in [Frames -> Executors \cup {NoExecutor}]
    BY <1>1 DEF TypeOK, Create
  <1>3. \A g \in Frames : status[g] # "none" => Where(g)' = Where(g)
    BY <1>1, StartedStays
  <1>4. \A g \in Frames : \A d : At(g, d) => At(g, d)'  BY <1>3 DEF At
  <1>5. At(f, IF x = NoExecutor THEN e ELSE x)'  BY <1>1 DEF At, Where, Create, TypeOK
  <1>6. ASSUME NEW g \in Frames, caller'[g] # 0
        PROVE  home'[g] \in Executors /\ At(caller[g], home[g])'
    <2>1. CASE g = f
      <3>1. caller'[g] = from /\ home'[g] = e  BY <1>1, <2>1 DEF Create, TypeOK
      <3>2. from \in Frames /\ At(from, e)  BY <1>6, <3>1
      <3>. QED  BY <1>4, <1>6, <3>1, <3>2 DEF At, Where
    <2>2. CASE g # f
      <3>1. caller'[g] = caller[g] /\ home'[g] = home[g]  BY <1>1, <2>2 DEF Create, TypeOK
      <3>2. caller[g] \in Frames  BY <1>1, <1>6, <3>1 DEF TypeOK
      <3>. QED  BY <1>1, <1>4, <1>6, <3>1, <3>2 DEF PlacesKnown, At, Where
    <2>. QED  BY <2>1, <2>2
  <1>. QED  BY <1>2, <1>4, <1>5, <1>6

\* A step that posts f where it belongs keeps every queued frame where it belongs.
LEMMA PostKeeps ==
    ASSUME IInv, NEW x \in Executors, NEW f \in Frames, PostResume(x, f), At(f, x)',
           \A g \in Frames : \A d : At(g, d) => At(g, d)'
    PROVE  \A e \in Executors : \A i \in DOMAIN queue'[e] : At(queue[e][i], e)'
  <1> SUFFICES ASSUME NEW e \in Executors, NEW i \in DOMAIN queue'[e]
               PROVE  At(queue[e][i], e)'
    OBVIOUS
  <1>1. CASE i \in DOMAIN queue[e] /\ queue'[e][i] = queue[e][i]
    <2>1. queue[e][i] \in Frames /\ At(queue[e][i], e)
      BY <1>1 DEF IInv, TypeOK, PlacesKnown
    <2>. QED  BY <1>1, <2>1 DEF At, Where
  <1>2. CASE e = x /\ queue'[e][i] = f  BY <1>2 DEF At, Where
  <1>. QED  BY <1>1, <1>2, PostedElements DEF IInv

-----------------------------------------------------------------------------
\* In the initial state nothing is queued, runs or has a caller.
LEMMA InitIInv == Init => IInv
  <1> SUFFICES ASSUME Init PROVE IInv  OBVIOUS
  <1>1. TypeOK  BY DEF Init, TypeOK, Statuses
  <1>2. PlacesKnown  BY DEF Init, PlacesKnown
  <1>. QED  BY <1>1, <1>2 DEF IInv

\* A spawned frame is posted to the executor it is given.
LEMMA SpawnIInv ==
    ASSUME IInv, NEW x \in Executors, Spawn(x)
    PROVE  IInv'
  <1>1. PICK f \in Fresh :
           /\ Create(f, x, 0, NoExecutor)
           /\ status' = [status EXCEPT ![f] = "ready"]
           /\ PostResume(x, f)
           /\ UNCHANGED <<running, result>>
    BY DEF Spawn
  <1>2. f \in Frames /\ status[f] = "none"  BY DEF Fresh
  <1>3. TypeOK /\ PlacesKnown  BY DEF IInv
  <1>4. /\ status' \in [Frames -> Statuses] /\ status'[f] # "none"
        /\ \A g \in Frames : status[g] # "none" => status'[g] # "none"
    BY <1>1, <1>2, <1>3 DEF TypeOK, Statuses
  <1>5. /\ executor' \in [Frames -> Executors \cup {NoExecutor}]
        /\ caller' \in [Frames -> Frames \cup {0}]
        /\ home' \in [Frames -> Executors \cup {NoExecutor}]
        /\ \A g \in Frames : \A d : At(g, d) => At(g, d)'
        /\ At(f, x)'
        /\ \A g \in Frames : caller'[g] # 0 => home'[g] \in Executors /\ At(caller[g], home[g])'
    BY <1>1, <1>2, <1>4, CreateKeeps, ExecutorsAssumption
  <1>6. TypeOK'
    <2>1. queue' \in [Executors -> Seq(Frames)]  BY <1>1, <1>2, <1>3, PostedType
    <2>. QED  BY <1>1, <1>3, <1>4, <1>5, <2>1 DEF TypeOK
  <1>7. \A e \in Executors : \A i \in DOMAIN queue'[e] : At(queue[e][i], e)'
    BY <1>1, <1>2, <1>5, PostKeeps
  <1>8. \A e \in Executors : running'[e] # 0 => At(running[e], e)'
    BY <1>1, <1>3, <1>5 DEF PlacesKnown, TypeOK, At, Where
  <1>. QED  BY <1>5, <1>6, <1>7, <1>8 DEF IInv, PlacesKnown

\* A resumed frame was in the queue of the executor.
LEMMA ResumeIInv ==
    ASSUME IInv, NEW e \in Executors, Resume(e)
    PROVE  IInv'
  <1> DEFINE f == Head(queue[e])
  <1>1. TypeOK /\ PlacesKnown  BY DEF IInv
  <1>2. queue[e] \in Seq(Frames) /\ queue[e] # <<>>  BY <1>1 DEF TypeOK, Resume
  <1>3. f \in Frames /\ 1 \in DOMAIN queue[e] /\ f = queue[e][1]  BY <1>2
  <1>4. At(f, e)  BY <1>1, <1>3 DEF PlacesKnown
  <1>5. TypeOK'  BY <1>1, <1>2, <1>3 DEF TypeOK, Resume, Statuses
  <1>6. \A g \in Frames : \A d : At(g, d) => At(g, d)'
    BY <1>1, <1>3 DEF Resume, At, Where, TypeOK
  <1>7. \A d \in Executors : running'[d] # 0 => At(running[d], d)'
    BY <1>1, <1>3, <1>4, <1>6 DEF Resume, PlacesKnown, TypeOK, At, Where
  <1>8. ASSUME NEW d \in Executors, NEW i \in DOMAIN queue'[d]
        PROVE  At(queue[d][i], d)'
    <2>1. queue[d] \in Seq(Frames)  BY <1>1 DEF TypeOK
    <2>2. CASE d = e
      <3>1. queue'[d] = Tail(queue[d])  BY <1>1, <2>2 DEF Resume, TypeOK
      <3>2. i + 1 \in DOMAIN queue[d] /\ queue'[d][i] = queue[d][i + 1]
        BY <1>2, <1>8, <2>1, <2>2, <3>1
      <3>. QED  BY <1>1, <1>6, <2>1, <3>2 DEF PlacesKnown, At, Where
    <2>3. CASE d # e
      <3>1. queue'[d] = queue[d]  BY <1>1, <2>3 DEF Resume, TypeOK
      <3>. QED  BY <1>1, <1>6, <1>8, <2>1, <3>1 DEF PlacesKnown, At, Where
    <2>. QED  BY <2>2, <2>3
  <1>9. \A g \in Frames : caller'[g] # 0 => home'[g] \in Executors /\ At(caller[g], home[g])'
    BY <1>5, <1>6, CallersKept DEF Resume
  <1>. QED  BY <1>5, <1>7, <1>8, <1>9 DEF IInv, PlacesKnown

\* A callee with an executor is posted there; its caller, which ran on e, remembers e.
LEMMA AwaitOnIInv ==
    ASSUME IInv, NEW e \in Executors, NEW x \in Executors, AwaitOn(e, x)
    PROVE  IInv'
  <1> DEFINE r == running[e]
  <1>1. PICK f \in Fresh :
           /\ Create(f, x, r, e)
           /\ status' = [status EXCEPT ![r] = "awaiting", ![f] = "ready"]
           /\ PostResume(x, f)
           /\ running' = [running EXCEPT ![e] = 0]
           /\ UNCHANGED result
    BY DEF AwaitOn
  <1>2. f \in Frames /\ status[f] = "none"  BY DEF Fresh
  <1>3. TypeOK /\ PlacesKnown  BY DEF IInv
  <1>4. r \in Frames /\ r # 0 /\ At(r, e)
    BY <1>3 DEF AwaitOn, MayAct, TypeOK, PlacesKnown
  <1>5. /\ status' \in [Frames -> Statuses] /\ status'[f] # "none"
        /\ \A g \in Frames : status[g] # "none" => status'[g] # "none"
    BY <1>1, <1>2, <1>3, <1>4 DEF TypeOK, Statuses
  <1>6. /\ executor' \in [Frames -> Executors \cup {NoExecutor}]
        /\ caller' \in [Frames -> Frames \cup {0}]
        /\ home' \in [Frames -> Executors \cup {NoExecutor}]
        /\ \A g \in Frames : \A d : At(g, d) => At(g, d)'
        /\ At(f, x)'
        /\ \A g \in Frames : caller'[g] # 0 => home'[g] \in Executors /\ At(caller[g], home[g])'
    BY <1>1, <1>2, <1>4, <1>5, CreateKeeps, ExecutorsAssumption
  <1>7. TypeOK'
    <2>1. queue' \in [Executors -> Seq(Frames)]  BY <1>1, <1>2, <1>3, PostedType
    <2>. QED  BY <1>1, <1>3, <1>5, <1>6, <2>1 DEF TypeOK
  <1>8. \A d \in Executors : \A i \in DOMAIN queue'[d] : At(queue[d][i], d)'
    BY <1>1, <1>2, <1>6, PostKeeps
  <1>9. \A d \in Executors : running'[d] # 0 => At(running[d], d)'
    BY <1>1, <1>3, <1>6 DEF PlacesKnown, TypeOK, At, Where
  <1>. QED  BY <1>6, <1>7, <1>8, <1>9 DEF IInv, PlacesKnown

\* A callee without an executor runs where its caller did.
LEMMA AwaitInlineIInv ==
    ASSUME IInv, NEW e \in Executors, AwaitInline(e)
    PROVE  IInv'
  <1> DEFINE r == running[e]
  <1>1. PICK f \in Fresh :
           /\ Create(f, NoExecutor, r, e)
           /\ status' = [status EXCEPT ![r] = "awaiting", ![f] = "running"]
           /\ running' = [running EXCEPT ![e] = f]
           /\ UNCHANGED <<queue, result>>
    BY DEF AwaitInline
  <1>2. f \in Frames /\ status[f] = "none"  BY DEF Fresh
  <1>3. TypeOK /\ PlacesKnown  BY DEF IInv
  <1>4. r \in Frames /\ r # 0 /\ At(r, e)
    BY <1>3 DEF AwaitInline, MayAct, TypeOK, PlacesKnown
  <1>5. /\ status' \in [Frames -> Statuses] /\ status'[f] # "none"
        /\ \A g \in Frames : status[g] # "none" => status'[g] # "none"
    BY <1>1, <1>2, <1>3, <1>4 DEF TypeOK, Statuses
  <1>6. /\ executor' \in [Frames -> Executors \cup {NoExecutor}]
        /\ caller' \in [Frames -> Frames \cup {0}]
        /\ home' \in [Frames -> Executors \cup {NoExecutor}]
        /\ \A g \in Frames : \A d : At(g, d) => At(g, d)'
        /\ At(f, e)'
        /\ \A g \in Frames : caller'[g] # 0 => home'[g] \in Executors /\ At(caller[g], home[g])'
    BY <1>1, <1>2, <1>4, <1>5, CreateKeeps, ExecutorsAssumption
  <1>7. TypeOK'  BY <1>1, <1>2, <1>3, <1>5, <1>6 DEF TypeOK
  <1>8. \A d \in Executors : \A i \in DOMAIN queue'[d] : At(queue[d][i], d)'
    BY <1>1, <1>3, <1>6 DEF PlacesKnown, TypeOK, At, Where
  <1>9. \A d \in Executors : running'[d] # 0 => At(running[d], d)'
    BY <1>1, <1>3, <1>6 DEF PlacesKnown, TypeOK, At, Where
  <1>. QED  BY <1>6, <1>7, <1>8, <1>9 DEF IInv, PlacesKnown

\* The caller is posted where it was running when it awaited.
LEMMA FinalSuspendIInv ==
    ASSUME IInv, NEW e \in Executors, FinalSuspend(e)
    PROVE  IInv'
  <1> DEFINE f == running[e]
  <1>1. TypeOK /\ PlacesKnown  BY DEF IInv
  <1>2. f \in Frames /\ f # 0 /\ status[f] # "none"
    BY <1>1 DEF FinalSuspend, MayAct, TypeOK
  <1>3. UNCHANGED <<running, executor, caller, home>>  BY DEF FinalSuspend
  <1>4. caller[f] # 0 => caller[f] \in Frames /\ home[f] \in Executors /\ At(caller[f], home[f])
    BY <1>1, <1>2 DEF TypeOK, PlacesKnown
  <1>5. /\ status' \in [Frames -> Statuses]
        /\ \A g \in Frames : status[g] # "none" => status'[g] # "none"
    BY <1>1, <1>2, <1>4 DEF FinalSuspend, TypeOK, Statuses
  <1>6. \A g \in Frames : \A d : At(g, d) => At(g, d)'  BY <1>3, <1>5 DEF At, Where
  <1>7. /\ queue' \in [Executors -> Seq(Frames)]
        /\ \A d \in Executors : \A i \in DOMAIN queue'[d] : At(queue[d][i], d)'
    <2>1. CASE caller[f] = 0
      <3>1. queue' = queue  BY <2>1 DEF FinalSuspend
      <3>2. queue' \in [Executors -> Seq(Frames)]  BY <1>1, <3>1 DEF TypeOK
      <3>3. ASSUME NEW d \in Executors, NEW i \in DOMAIN queue'[d]
            PROVE  At(queue[d][i], d)'
        <4>1. queue[d][i] \in Frames  BY <1>1, <3>1, <3>3 DEF TypeOK
        <4>2. At(queue[d][i], d)  BY <1>1, <3>1, <3>3 DEF PlacesKnown
        <4>. QED  BY <1>6, <3>1, <4>1, <4>2 DEF At, Where
      <3>. QED  BY <3>2, <3>3
    <2>2. CASE caller[f] # 0
      <3>1. PICK c \in Frames, h \in Executors : c = caller[f] /\ h = home[f] /\ At(c, h)
        BY <1>4, <2>2
      <3>2. PostResume(h, c)  BY <2>2, <3>1 DEF FinalSuspend, ReturnTo
      <3>3. At(c, h)'  BY <1>6, <3>1
      <3>4. queue' \in [Executors -> Seq(Frames)]  BY <1>1, <3>2, PostedType
      <3>5. \A d \in Executors : \A i \in DOMAIN queue'[d] : At(queue[d][i], d)'
        BY <1>6, <3>2, <3>3, PostKeeps
      <3>. QED  BY <3>4, <3>5
    <2>. QED  BY <2>1, <2>2
  <1>8. TypeOK'  BY <1>1, <1>3, <1>5, <1>7 DEF TypeOK
  <1>9. \A d \in Executors : running'[d] # 0 => At(running[d], d)'
    BY <1>1, <1>3, <1>6 DEF PlacesKnown, TypeOK, At, Where
  <1>10. \A g \in Frames : caller'[g] # 0 => home'[g] \in Executors /\ At(caller[g], home[g])'
    BY <1>3, <1>6, <1>8, CallersKept
  <1>. QED  BY <1>7, <1>8, <1>9, <1>10 DEF IInv, PlacesKnown

\* A destroyed frame leaves its executor.
LEMMA DestroyIInv ==
    ASSUME IInv, NEW e \in Executors, Destroy(e)
    PROVE  IInv'
  <1>1. TypeOK /\ PlacesKnown  BY DEF IInv
  <1>2. UNCHANGED <<queue, executor, caller, home>>  BY DEF Destroy
  <1>3. running' = [running EXCEPT ![e] = 0]  BY DEF Destroy
  <1>4. TypeOK'  BY <1>1, <1>2, <1>3 DEF Destroy, TypeOK, Statuses
  <1>5. \A g \in Frames : status[g] # "none" => status'[g] # "none"  BY DEF Destroy
  <1>6. \A g \in Frames : \A d : At(g, d) => At(g, d)'  BY <1>2, <1>5 DEF At, Where
  <1>7. \A d \in Executors : running'[d] # 0 => At(running[d], d)'
    BY <1>1, <1>3, <1>6 DEF PlacesKnown, TypeOK, At, Where
  <1>8. \A d \in Executors : \A i \in DOMAIN queue'[d] : At(queue[d][i], d)'
    BY <1>1, <1>2, <1>6 DEF PlacesKnown, TypeOK, At, Where
  <1>9. \A g \in Frames : caller'[g] # 0 => home'[g] \in Executors /\ At(caller[g], home[g])'
    BY <1>2, <1>4, <1>6, CallersKept
  <1>. QED  BY <1>4, <1>7, <1>8, <1>9 DEF IInv, PlacesKnown

-----------------------------------------------------------------------------
\* What is queued, runs or waits for a callee is where it belongs, in every
\* behaviour of the coroutines (Base/AwaitTask.h).
THEOREM FramesPlaced == Spec => []IInv
  <1>1. Init => IInv  BY InitIInv
  <1>2. IInv /\ [Next]_vars => IInv'
    <2> SUFFICES ASSUME IInv, [Next]_vars PROVE IInv'  OBVIOUS
    <2>1. ASSUME NEW x \in Executors, Spawn(x) PROVE IInv'  BY <2>1, SpawnIInv
    <2>2. ASSUME NEW e \in Executors, ExecutorStep(e) PROVE IInv'
      <3>1. CASE Resume(e)  BY <3>1, ResumeIInv
      <3>2. CASE AwaitInline(e)  BY <3>2, AwaitInlineIInv
      <3>3. CASE \E x \in Executors : AwaitOn(e, x)  BY <3>3, AwaitOnIInv
      <3>4. CASE FinalSuspend(e)  BY <3>4, FinalSuspendIInv
      <3>5. CASE Destroy(e)  BY <3>5, DestroyIInv
      <3>. QED  BY <2>2, <3>1, <3>2, <3>3, <3>4, <3>5 DEF ExecutorStep
    <2>3. CASE UNCHANGED vars
      BY <2>3 DEF IInv, TypeOK, PlacesKnown, At, Where, vars
    <2>. QED  BY <2>1, <2>2, <2>3 DEF Next
  <1>. QED  BY <1>1, <1>2, PTL DEF Spec

\* OnOwnExecutor: a coroutine with an executor runs on that one only, one without
\* on its caller's, wherever its callees ran.
THEOREM RunsOnOwnExecutor == Spec => []OnOwnExecutor
  <1>1. IInv => OnOwnExecutor  BY DEF IInv, PlacesKnown, At, Where, OnOwnExecutor
  <1>. QED  BY <1>1, FramesPlaced, PTL

-----------------------------------------------------------------------------
(* Resumed once.  A frame has one resume posted exactly while it is ready,    *)
(* and one executor exactly while it runs or ends.  A frame waits exactly     *)
(* while one callee is active, which is the last one it made: frames are made *)
(* in the order of their numbers.                                            *)

Posted(q, f) == \E e \in Executors : \E i \in DOMAIN q[e] : q[e][i] = f

Once(q) == \A d, e \in Executors : \A i \in DOMAIN q[d], j \in DOMAIN q[e] :
             q[d][i] = q[e][j] => d = e /\ i = j

PostedOK ==
    /\ Once(queue)
    /\ \A f \in Frames : Posted(queue, f) <=> status[f] = "ready"

RunningOK ==
    /\ \A d, e \in Executors : running[d] = running[e] /\ running[d] # 0 => d = e
    /\ \A f \in Frames : (\E e \in Executors : running[e] = f) <=> status[f] \in {"running", "final"}

Active(g) == status[g] \in {"ready", "running", "awaiting"}

CalleesOK ==
    /\ result \in [Frames -> Frames \cup {0}]
    /\ \A f, g \in Frames : status[g] # "none" /\ f < g => status[f] # "none"
    /\ \A g \in Frames : status[g] = "none" => caller[g] = 0
    /\ \A g \in Frames : caller[g] # 0 /\ Active(g) =>
          status[caller[g]] = "awaiting" /\ \A k \in Frames : caller[k] = caller[g] => k <= g
    /\ \A f \in Frames : status[f] = "awaiting" => \E g \in Frames : caller[g] = f /\ Active(g)
    /\ \A f, g \in Frames : status[f] \in {"ready", "running"} /\ caller[g] = f => g <= result[f]
    /\ \A g \in Frames : caller[g] # 0 => status[caller[g]] # "none"

RInv == PostedOK /\ RunningOK /\ CalleesOK

\* Posting a frame adds it to the posted ones, once if it was not there.
LEMMA PostOnce ==
    ASSUME NEW q \in [Executors -> Seq(Frames)], NEW x \in Executors, NEW f \in Frames,
           NEW r, r[x] = Append(q[x], f), \A e \in Executors : e # x => r[e] = q[e]
    PROVE  /\ \A g : Posted(r, g) <=> Posted(q, g) \/ g = f
           /\ Once(q) /\ ~Posted(q, f) => Once(r)
  <1> DEFINE n == Len(q[x])
  <1>1. /\ n \in Nat /\ DOMAIN q[x] = 1 .. n
        /\ DOMAIN r[x] = 1 .. n + 1 /\ r[x][n + 1] = f
        /\ \A i \in 1 .. n : r[x][i] = q[x][i]
    <2>1. q[x] \in Seq(Frames) /\ r[x] = Append(q[x], f)  OBVIOUS
    <2>. QED  BY <2>1, AppendProperties, LenProperties
  <1>2. \A e \in Executors : e # x => r[e] = q[e]  OBVIOUS
  <1>3. /\ \A i \in 1 .. n + 1 : i \in 1 .. n \/ i = n + 1
        /\ \A i \in 1 .. n : i \in 1 .. n + 1
        /\ n + 1 \in 1 .. n + 1
    BY <1>1
  <1> HIDE DEF n
  <1>4. ASSUME NEW e \in Executors, NEW i \in DOMAIN r[e]
        PROVE  (i \in DOMAIN q[e] /\ r[e][i] = q[e][i]) \/ (e = x /\ i = n + 1 /\ r[e][i] = f)
    BY <1>1, <1>2, <1>3, <1>4
  <1>5. ASSUME NEW e \in Executors, NEW i \in DOMAIN q[e]
        PROVE  i \in DOMAIN r[e] /\ r[e][i] = q[e][i]
    BY <1>1, <1>2, <1>3, <1>5
  <1>6. \A g : Posted(r, g) <=> Posted(q, g) \/ g = f
    BY <1>1, <1>3, <1>4, <1>5 DEF Posted
  <1>7. Once(q) /\ ~Posted(q, f) => Once(r)
    BY <1>4 DEF Posted, Once
  <1>. QED  BY <1>6, <1>7

\* Taking the head of a queue leaves what else was posted.
LEMMA TakeOnce ==
    ASSUME NEW q \in [Executors -> Seq(Frames)], NEW x \in Executors, q[x] # <<>>,
           NEW r, r[x] = Tail(q[x]), \A e \in Executors : e # x => r[e] = q[e], Once(q)
    PROVE  /\ Head(q[x]) \in Frames /\ Posted(q, Head(q[x]))
           /\ \A g : Posted(r, g) <=> Posted(q, g) /\ g # Head(q[x])
           /\ Once(r)
  <1> DEFINE n == Len(q[x])  h == Head(q[x])
  <1>1. /\ n \in Nat /\ DOMAIN q[x] = 1 .. n /\ 1 \in 1 .. n
        /\ h = q[x][1] /\ h \in Frames
        /\ DOMAIN r[x] = 1 .. n - 1
        /\ \A i \in 1 .. n - 1 : r[x][i] = q[x][i + 1]
    <2>1. q[x] \in Seq(Frames) /\ r[x] = Tail(q[x])  OBVIOUS
    <2>2. /\ Head(q[x]) \in Frames /\ Head(q[x]) = q[x][1]
          /\ Tail(q[x]) \in Seq(Frames) /\ Len(Tail(q[x])) = n - 1
          /\ \A i \in 1 .. n - 1 : Tail(q[x])[i] = q[x][i + 1]
      BY <2>1, HeadTailProperties
    <2>3. DOMAIN q[x] = 1 .. n /\ DOMAIN Tail(q[x]) = 1 .. n - 1 /\ n \in Nat \ {0}
      BY <2>1, <2>2, LenProperties, EmptySeq
    <2>. QED  BY <2>1, <2>2, <2>3
  <1>2. \A e \in Executors : e # x => r[e] = q[e]  OBVIOUS
  <1>3. /\ \A i \in 1 .. n - 1 : i + 1 \in 1 .. n /\ i + 1 # 1
        /\ \A i \in 1 .. n : i = 1 \/ (i - 1 \in 1 .. n - 1 /\ (i - 1) + 1 = i)
        /\ \A i, j \in 1 .. n - 1 : i + 1 = j + 1 => i = j
    BY <1>1
  <1> HIDE DEF n, h
  <1>4. Posted(q, h)  BY <1>1 DEF Posted
  <1>5. ASSUME NEW e \in Executors, NEW i \in DOMAIN r[e]
        PROVE  \E j \in DOMAIN q[e] : r[e][i] = q[e][j] /\ ~(e = x /\ j = 1)
    <2>1. CASE e = x
      <3>1. i \in 1 .. n - 1  BY <1>1, <1>5, <2>1
      <3>2. i + 1 \in DOMAIN q[x] /\ i + 1 # 1 /\ r[x][i] = q[x][i + 1]  BY <1>1, <1>3, <3>1
      <3>. QED  BY <2>1, <3>2
    <2>2. CASE e # x  BY <1>2, <1>5, <2>2
    <2>. QED  BY <2>1, <2>2
  <1>6. ASSUME NEW e \in Executors, NEW j \in DOMAIN q[e], ~(e = x /\ j = 1)
        PROVE  \E i \in DOMAIN r[e] : r[e][i] = q[e][j]
    <2>1. CASE e = x
      <3>1. j - 1 \in DOMAIN r[x] /\ r[x][j - 1] = q[x][j]  BY <1>1, <1>3, <1>6, <2>1
      <3>. QED  BY <2>1, <3>1
    <2>2. CASE e # x  BY <1>2, <2>2
    <2>. QED  BY <2>1, <2>2
  <1>7. \A e \in Executors : \A j \in DOMAIN q[e] : q[e][j] = h <=> e = x /\ j = 1
    BY <1>1 DEF Once
  <1>8. ASSUME NEW g PROVE Posted(r, g) <=> Posted(q, g) /\ g # h
    <2>1. ASSUME Posted(r, g) PROVE Posted(q, g) /\ g # h
      BY <1>5, <1>7, <2>1 DEF Posted
    <2>2. ASSUME Posted(q, g), g # h PROVE Posted(r, g)
      <3>0. PICK e \in Executors : \E j \in DOMAIN q[e] : q[e][j] = g  BY <2>2 DEF Posted
      <3>1. PICK j \in DOMAIN q[e] : q[e][j] = g  BY <3>0
      <3>2. ~(e = x /\ j = 1)  BY <1>7, <2>2, <3>1
      <3>. QED  BY <1>6, <3>1, <3>2 DEF Posted
    <2>. QED  BY <2>1, <2>2
  <1>9. Once(r)
    <2> SUFFICES ASSUME NEW d \in Executors, NEW e \in Executors,
                        NEW i \in DOMAIN r[d], NEW j \in DOMAIN r[e], r[d][i] = r[e][j]
                 PROVE  d = e /\ i = j
      BY DEF Once
    <2>1. CASE d = x /\ e = x
      <3>1. i + 1 \in DOMAIN q[x] /\ j + 1 \in DOMAIN q[x] /\ q[x][i + 1] = q[x][j + 1]
        BY <1>1, <1>3, <2>1
      <3>2. i + 1 = j + 1  BY <3>1 DEF Once
      <3>. QED  BY <1>1, <1>3, <2>1, <3>2
    <2>2. CASE d # x /\ e # x  BY <1>2, <2>2 DEF Once
    <2>3. CASE d = x /\ e # x  BY <1>2, <1>5, <2>3 DEF Once
    <2>4. CASE d # x /\ e = x  BY <1>2, <1>5, <2>4 DEF Once
    <2>. QED  BY <2>1, <2>2, <2>3, <2>4
  <1>. QED  BY <1>1, <1>4, <1>8, <1>9 DEF h

LEMMA InitRInv == Init => RInv
  <1> SUFFICES ASSUME Init PROVE RInv  OBVIOUS
  <1>1. PostedOK  BY DEF Init, PostedOK, Once, Posted
  <1>2. RunningOK  BY FramesAssumption DEF Init, RunningOK
  <1>3. CalleesOK  BY DEF Init, CalleesOK, Active
  <1>. QED  BY <1>1, <1>2, <1>3 DEF RInv

\* A new frame comes after every other and nobody knows it yet.
LEMMA FreshIsLast ==
    ASSUME TypeOK, CalleesOK, NEW f \in Fresh
    PROVE  /\ f \in Frames /\ status[f] = "none" /\ f # 0 /\ caller[f] = 0
           /\ \A g \in Frames : caller[g] # f
           /\ \A g \in Frames : status[g] # "none" => g < f
           /\ \A g \in Frames : g < f => status[g] # "none"
  <1>1. /\ f \in Frames /\ status[f] = "none" /\ f # 0 /\ f \in Nat
        /\ \A g \in Frames : g \in Nat
        /\ \A g \in Frames : g < f => status[g] # "none"
    BY FramesAssumption DEF Fresh
  <1>2. ASSUME NEW g \in Frames, status[g] # "none" PROVE g < f
    <2>1. ~(f < g) /\ f # g  BY <1>1, <1>2 DEF CalleesOK
    <2>. QED  BY <1>1, <2>1
  <1>3. caller[f] = 0 /\ \A g \in Frames : caller[g] # f  BY <1>1 DEF CalleesOK
  <1>. QED  BY <1>1, <1>2, <1>3

LEMMA SpawnRInv ==
    ASSUME IInv, RInv, NEW x \in Executors, Spawn(x)
    PROVE  RInv'
  <1>0. TypeOK /\ PostedOK /\ RunningOK /\ CalleesOK  BY DEF IInv, RInv
  <1>1. PICK f \in Fresh :
           /\ Create(f, x, 0, NoExecutor)
           /\ status' = [status EXCEPT ![f] = "ready"]
           /\ PostResume(x, f)
           /\ UNCHANGED <<running, result>>
    BY DEF Spawn
  <1>2. /\ f \in Frames /\ status[f] = "none" /\ f # 0 /\ caller[f] = 0
        /\ \A g \in Frames : caller[g] # f
        /\ \A g \in Frames : g < f => status[g] # "none"
    BY <1>0, FreshIsLast
  <1>3. caller' = caller  BY <1>0, <1>1, <1>2 DEF Create, TypeOK
  <1>4. \A g \in Frames : status'[g] = IF g = f THEN "ready" ELSE status[g]
    BY <1>0, <1>1, <1>2 DEF TypeOK
  <1>5. PostedOK'
    <2>1. ~Posted(queue, f)  BY <1>0, <1>2 DEF PostedOK
    <2>2. Once(queue') /\ \A g : Posted(queue', g) <=> Posted(queue, g) \/ g = f
      <3>1. /\ queue \in [Executors -> Seq(Frames)] /\ Once(queue)
            /\ queue'[x] = Append(queue[x], f)
            /\ \A e \in Executors : e # x => queue'[e] = queue[e]
        BY <1>0, <1>1 DEF PostedOK, PostResume, TypeOK
      <3>. QED  BY <1>2, <2>1, <3>1, PostOnce
    <2>. QED  BY <1>0, <1>4, <2>2 DEF PostedOK
  <1>6. RunningOK'  BY <1>0, <1>1, <1>2, <1>4 DEF RunningOK
  <1>7. CalleesOK'  BY <1>0, <1>1, <1>2, <1>3, <1>4 DEF CalleesOK, Active, TypeOK
  <1>. QED  BY <1>5, <1>6, <1>7 DEF RInv

\* A step that makes no frame and ends no frame's wait keeps who waits for whom.
LEMMA CalleesSame ==
    ASSUME TypeOK, CalleesOK, UNCHANGED <<caller, result>>,
           \A g \in Frames :
              /\ status'[g] = "none" <=> status[g] = "none"
              /\ status'[g] = "awaiting" <=> status[g] = "awaiting"
              /\ status'[g] \in {"ready", "running"} <=> status[g] \in {"ready", "running"}
    PROVE  CalleesOK'
  <1>1. \A g \in Frames : caller[g] # 0 => caller[g] \in Frames  BY DEF TypeOK
  <1>2. \A g \in Frames : Active(g)' <=> Active(g)  BY DEF Active
  <1>3. ASSUME NEW g \in Frames, caller[g] # 0, Active(g)
        PROVE  status'[caller[g]] = "awaiting" /\ \A k \in Frames : caller[k] = caller[g] => k <= g
    BY <1>1, <1>3 DEF CalleesOK
  <1>4. \A f \in Frames : status'[f] = "awaiting" => \E g \in Frames : caller[g] = f /\ Active(g)
    BY DEF CalleesOK
  <1>5. \A f, g \in Frames : status'[f] \in {"ready", "running"} /\ caller[g] = f => g <= result[f]
    BY DEF CalleesOK
  <1>6. \A g \in Frames : caller[g] # 0 => status'[caller[g]] # "none"
    BY <1>1 DEF CalleesOK
  <1>7. /\ \A f, g \in Frames : status'[g] # "none" /\ f < g => status'[f] # "none"
        /\ \A g \in Frames : status'[g] = "none" => caller[g] = 0
        /\ result \in [Frames -> Frames \cup {0}]
    BY DEF CalleesOK
  <1>. QED  BY <1>2, <1>3, <1>4, <1>5, <1>6, <1>7 DEF CalleesOK

LEMMA ResumeRInv ==
    ASSUME IInv, RInv, NEW e \in Executors, Resume(e)
    PROVE  RInv'
  <1> DEFINE f == Head(queue[e])
  <1>0. TypeOK /\ PostedOK /\ RunningOK /\ CalleesOK  BY DEF IInv, RInv
  <1>1. /\ f \in Frames /\ Posted(queue, f)
        /\ \A g : Posted(queue', g) <=> Posted(queue, g) /\ g # f
        /\ Once(queue')
    <2>1. /\ queue \in [Executors -> Seq(Frames)] /\ Once(queue) /\ queue[e] # <<>>
          /\ queue'[e] = Tail(queue[e])
          /\ \A d \in Executors : d # e => queue'[d] = queue[d]
      BY <1>0 DEF PostedOK, Resume, TypeOK
    <2>. QED  BY <2>1, TakeOnce
  <1>2. status[f] = "ready" /\ f # 0  BY <1>0, <1>1, FramesAssumption DEF PostedOK
  <1>3. /\ running[e] = 0 /\ running' = [running EXCEPT ![e] = f]
        /\ status' = [status EXCEPT ![f] = "running"]
        /\ UNCHANGED <<caller, result>>
    BY DEF Resume
  <1> HIDE DEF f
  <1>4. \A g \in Frames : status'[g] = IF g = f THEN "running" ELSE status[g]
    BY <1>0, <1>1, <1>3 DEF TypeOK
  <1>5. \A d \in Executors : running'[d] = IF d = e THEN f ELSE running[d]
    BY <1>0, <1>3 DEF TypeOK
  <1>6. PostedOK'  BY <1>0, <1>1, <1>2, <1>4 DEF PostedOK
  <1>7. RunningOK'
    <2>1. \A d \in Executors : running[d] # f  BY <1>0, <1>1, <1>2 DEF RunningOK
    <2>2. \A d, c \in Executors : running'[d] = running'[c] /\ running'[d] # 0 => d = c
      BY <1>0, <1>5, <2>1 DEF RunningOK
    <2>3. ASSUME NEW g \in Frames
          PROVE  (\E d \in Executors : running'[d] = g) <=> status'[g] \in {"running", "final"}
      <3>1. g # 0  BY FramesAssumption
      <3>2. CASE g = f  BY <1>4, <1>5, <3>2
      <3>3. CASE g # f
        <4>1. \A d \in Executors : running'[d] = g <=> running[d] = g
          BY <1>3, <1>5, <3>1, <3>3
        <4>. QED  BY <1>0, <1>4, <3>3, <4>1 DEF RunningOK
      <3>. QED  BY <3>2, <3>3
    <2>. QED  BY <2>2, <2>3 DEF RunningOK
  <1>8. CalleesOK'
    <2>1. \A g \in Frames : /\ status'[g] = "none" <=> status[g] = "none"
                            /\ status'[g] = "awaiting" <=> status[g] = "awaiting"
                            /\ status'[g] \in {"ready", "running"} <=> status[g] \in {"ready", "running"}
      BY <1>2, <1>4
    <2>. QED  BY <1>0, <1>3, <2>1, CalleesSame
  <1>. QED  BY <1>6, <1>7, <1>8 DEF RInv

\* A running frame makes a callee and waits for it, wherever the callee goes.
LEMMA AwaitCallees ==
    ASSUME TypeOK, CalleesOK, NEW f \in Fresh, NEW r \in Frames, status[r] = "running",
           UNCHANGED result,
           \A g \in Frames : caller'[g] = IF g = f THEN r ELSE caller[g],
           status'[f] \in {"ready", "running"}, status'[r] = "awaiting",
           \A g \in Frames : g # f /\ g # r => status'[g] = status[g]
    PROVE  CalleesOK'
  <1>1. /\ f \in Frames /\ status[f] = "none" /\ f # 0 /\ caller[f] = 0 /\ f # r
        /\ \A g \in Frames : caller[g] # f
        /\ \A g \in Frames : status[g] # "none" => g < f
        /\ \A g \in Frames : g < f => status[g] # "none"
    BY FreshIsLast
  <1>2. /\ \A g \in Frames : g # 0 /\ g <= g /\ g \in Nat
        /\ \A g, k \in Frames : g < k => g <= k
        /\ \A g \in Frames : caller[g] # 0 => caller[g] \in Frames
    BY FramesAssumption DEF TypeOK
  <1>3. \A g \in Frames : g # f => /\ Active(g)' <=> Active(g)
                                   /\ status'[g] = "none" <=> status[g] = "none"
    BY DEF Active
  <1>4. ASSUME NEW g \in Frames, caller'[g] # 0, Active(g)'
        PROVE  /\ status'[caller'[g]] = "awaiting"
               /\ \A k \in Frames : caller'[k] = caller'[g] => k <= g
    <2>1. CASE g = f
      <3>1. caller'[g] = r  BY <2>1
      <3>2. ASSUME NEW k \in Frames, caller'[k] = r PROVE k <= f
        <4>1. CASE k # f
          <5>1. caller[k] = r /\ status[k] # "none"  BY <1>2, <3>2, <4>1 DEF CalleesOK
          <5>. QED  BY <1>1, <1>2, <5>1
        <4>. QED  BY <1>1, <1>2, <4>1
      <3>. QED  BY <2>1, <3>1, <3>2
    <2>2. CASE g # f
      <3>1. caller'[g] = caller[g] /\ caller[g] # 0 /\ Active(g)  BY <1>3, <1>4, <2>2
      <3>2. /\ status[caller[g]] = "awaiting" /\ caller[g] \in Frames
            /\ \A k \in Frames : caller[k] = caller[g] => k <= g
        BY <1>2, <3>1 DEF CalleesOK
      <3>3. caller[g] # r /\ caller[g] # f  BY <1>1, <3>2
      <3>. QED  BY <3>1, <3>2, <3>3
    <2>. QED  BY <2>1, <2>2
  <1>5. ASSUME NEW h \in Frames, status'[h] = "awaiting"
        PROVE  \E g \in Frames : caller'[g] = h /\ Active(g)'
    <2>1. CASE h = r  BY <1>1, <2>1 DEF Active
    <2>2. CASE h # r
      <3>1. h # f /\ status[h] = "awaiting" /\ h # 0  BY <1>2, <1>5, <2>2
      <3>2. PICK g \in Frames : caller[g] = h /\ Active(g)  BY <3>1 DEF CalleesOK
      <3>3. g # f  BY <1>1, <3>1, <3>2
      <3>. QED  BY <1>3, <3>2, <3>3
    <2>. QED  BY <2>1, <2>2
  <1>6. ASSUME NEW h \in Frames, NEW g \in Frames,
               status'[h] \in {"ready", "running"}, caller'[g] = h
        PROVE  g <= result'[h]
    <2>1. h # r  BY <1>6
    <2>2. g # f /\ caller[g] = h  BY <1>6, <2>1
    <2>3. h # f /\ status[h] \in {"ready", "running"}  BY <1>1, <1>6, <2>1, <2>2
    <2>. QED  BY <2>2, <2>3 DEF CalleesOK
  <1>7. ASSUME NEW g \in Frames
        PROVE  /\ status'[g] = "none" => caller'[g] = 0
               /\ caller'[g] # 0 => status'[caller'[g]] # "none"
    <2>1. CASE g = f  BY <2>1
    <2>2. CASE g # f
      <3>1. caller'[g] = caller[g]  BY <2>2
      <3>2. status'[g] = "none" => caller'[g] = 0  BY <1>3, <2>2, <3>1 DEF CalleesOK
      <3>3. ASSUME caller[g] # 0 PROVE status'[caller[g]] # "none"
        <4>1. caller[g] \in Frames /\ status[caller[g]] # "none" /\ caller[g] # f
          BY <1>1, <1>2, <3>3 DEF CalleesOK
        <4>. QED  BY <1>3, <4>1
      <3>. QED  BY <3>1, <3>2, <3>3
    <2>. QED  BY <2>1, <2>2
  <1>8. ASSUME NEW h \in Frames, NEW g \in Frames, status'[g] # "none", h < g
        PROVE  status'[h] # "none"
    <2>1. CASE g = f
      <3>1. h # f  BY <1>2, <1>8, <2>1
      <3>. QED  BY <1>1, <1>3, <1>8, <2>1, <3>1
    <2>2. CASE g # f
      <3>1. CASE h # f  BY <1>3, <1>8, <2>2, <3>1 DEF CalleesOK
      <3>. QED  BY <3>1
    <2>. QED  BY <2>1, <2>2
  <1>9. result' \in [Frames -> Frames \cup {0}]  BY DEF CalleesOK
  <1>. QED  BY <1>4, <1>5, <1>6, <1>7, <1>8, <1>9 DEF CalleesOK

LEMMA AwaitOnRInv ==
    ASSUME IInv, RInv, NEW e \in Executors, NEW x \in Executors, AwaitOn(e, x)
    PROVE  RInv'
  <1> DEFINE r == running[e]
  <1>0. TypeOK /\ PostedOK /\ RunningOK /\ CalleesOK  BY DEF IInv, RInv
  <1>1. PICK f \in Fresh :
           /\ Create(f, x, r, e)
           /\ status' = [status EXCEPT ![r] = "awaiting", ![f] = "ready"]
           /\ PostResume(x, f)
           /\ running' = [running EXCEPT ![e] = 0]
           /\ UNCHANGED result
    BY DEF AwaitOn
  <1>2. r \in Frames /\ r # 0 /\ status[r] = "running"
    BY <1>0 DEF AwaitOn, MayAct, TypeOK
  <1>3. /\ f \in Frames /\ status[f] = "none" /\ f # r
    BY <1>0, <1>2, FreshIsLast
  <1>4. \A g \in Frames : status'[g] = IF g = f THEN "ready"
                                       ELSE IF g = r THEN "awaiting" ELSE status[g]
    BY <1>0, <1>1, <1>2, <1>3 DEF TypeOK
  <1>5. \A g \in Frames : caller'[g] = IF g = f THEN r ELSE caller[g]
    BY <1>0, <1>1, <1>3 DEF TypeOK, Create
  <1>6. \A d \in Executors : running'[d] = IF d = e THEN 0 ELSE running[d]
    BY <1>0, <1>1 DEF TypeOK
  <1>7. PostedOK'
    <2>1. ~Posted(queue, f)  BY <1>0, <1>3 DEF PostedOK
    <2>2. Once(queue') /\ \A g : Posted(queue', g) <=> Posted(queue, g) \/ g = f
      <3>1. /\ queue \in [Executors -> Seq(Frames)] /\ Once(queue)
            /\ queue'[x] = Append(queue[x], f)
            /\ \A d \in Executors : d # x => queue'[d] = queue[d]
        BY <1>0, <1>1 DEF PostedOK, PostResume, TypeOK
      <3>. QED  BY <1>3, <2>1, <3>1, PostOnce
    <2>. QED  BY <1>0, <1>2, <1>4, <2>2 DEF PostedOK
  <1>8. RunningOK'
    <2>1. \A g \in Frames : g # 0  BY FramesAssumption
    <2>2. \A d \in Executors : d # e => running[d] # r  BY <1>0, <1>2 DEF RunningOK
    <2>3. \A d, c \in Executors : running'[d] = running'[c] /\ running'[d] # 0 => d = c
      BY <1>0, <1>6 DEF RunningOK
    <2>4. ASSUME NEW g \in Frames
          PROVE  (\E d \in Executors : running'[d] = g) <=> status'[g] \in {"running", "final"}
      <3>1. CASE g = r  BY <1>3, <1>4, <1>6, <2>1, <2>2, <3>1
      <3>2. CASE g # r
        <4>1. \A d \in Executors : running'[d] = g <=> running[d] = g
          BY <1>6, <2>1, <3>2
        <4>2. status'[g] \in {"running", "final"} <=> status[g] \in {"running", "final"}
          BY <1>3, <1>4, <3>2
        <4>. QED  BY <1>0, <4>1, <4>2 DEF RunningOK
      <3>. QED  BY <3>1, <3>2
    <2>. QED  BY <2>3, <2>4 DEF RunningOK
  <1>9. CalleesOK'
    <2>1. /\ status'[f] \in {"ready", "running"} /\ status'[r] = "awaiting"
          /\ \A g \in Frames : g # f /\ g # r => status'[g] = status[g]
      BY <1>2, <1>3, <1>4
    <2>2. UNCHANGED result  BY <1>1
    <2> HIDE DEF r
    <2>. QED  BY <1>0, <1>2, <1>5, <2>1, <2>2, AwaitCallees
  <1>. QED  BY <1>7, <1>8, <1>9 DEF RInv

LEMMA AwaitInlineRInv ==
    ASSUME IInv, RInv, NEW e \in Executors, AwaitInline(e)
    PROVE  RInv'
  <1> DEFINE r == running[e]
  <1>0. TypeOK /\ PostedOK /\ RunningOK /\ CalleesOK  BY DEF IInv, RInv
  <1>1. PICK f \in Fresh :
           /\ Create(f, NoExecutor, r, e)
           /\ status' = [status EXCEPT ![r] = "awaiting", ![f] = "running"]
           /\ running' = [running EXCEPT ![e] = f]
           /\ UNCHANGED <<queue, result>>
    BY DEF AwaitInline
  <1>2. r \in Frames /\ r # 0 /\ status[r] = "running"
    BY <1>0 DEF AwaitInline, MayAct, TypeOK
  <1>3. /\ f \in Frames /\ status[f] = "none" /\ f # r
    BY <1>0, <1>2, FreshIsLast
  <1>4. \A g \in Frames : status'[g] = IF g = f THEN "running"
                                       ELSE IF g = r THEN "awaiting" ELSE status[g]
    BY <1>0, <1>1, <1>2, <1>3 DEF TypeOK
  <1>5. \A g \in Frames : caller'[g] = IF g = f THEN r ELSE caller[g]
    BY <1>0, <1>1, <1>3 DEF TypeOK, Create
  <1>6. \A d \in Executors : running'[d] = IF d = e THEN f ELSE running[d]
    BY <1>0, <1>1 DEF TypeOK
  <1>7. PostedOK'
    <2>1. \A g \in Frames : status'[g] = "ready" <=> status[g] = "ready"  BY <1>2, <1>3, <1>4
    <2>2. queue' = queue  BY <1>1
    <2>. QED  BY <1>0, <2>1, <2>2 DEF PostedOK
  <1>8. RunningOK'
    <2>1. \A d \in Executors : /\ running[d] # f
                               /\ d # e => running[d] # r
      BY <1>0, <1>2, <1>3 DEF RunningOK
    <2>2. \A d, c \in Executors : running'[d] = running'[c] /\ running'[d] # 0 => d = c
      BY <1>0, <1>6, <2>1 DEF RunningOK
    <2>3. ASSUME NEW g \in Frames
          PROVE  (\E d \in Executors : running'[d] = g) <=> status'[g] \in {"running", "final"}
      <3>1. CASE g = r  BY <1>3, <1>4, <1>6, <2>1, <3>1
      <3>2. CASE g = f  BY <1>4, <1>6, <3>2
      <3>3. CASE g # r /\ g # f
        <4>1. \A d \in Executors : running'[d] = g <=> running[d] = g
          BY <1>6, <3>3
        <4>. QED  BY <1>0, <1>4, <3>3, <4>1 DEF RunningOK
      <3>. QED  BY <3>1, <3>2, <3>3
    <2>. QED  BY <2>2, <2>3 DEF RunningOK
  <1>9. CalleesOK'
    <2>1. /\ status'[f] \in {"ready", "running"} /\ status'[r] = "awaiting"
          /\ \A g \in Frames : g # f /\ g # r => status'[g] = status[g]
      BY <1>2, <1>3, <1>4
    <2>2. UNCHANGED result  BY <1>1
    <2> HIDE DEF r
    <2>. QED  BY <1>0, <1>2, <1>5, <2>1, <2>2, AwaitCallees
  <1>. QED  BY <1>7, <1>8, <1>9 DEF RInv

LEMMA FinalSuspendRInv ==
    ASSUME IInv, RInv, NEW e \in Executors, FinalSuspend(e)
    PROVE  RInv'
  <1> DEFINE f == running[e]  c == caller[f]
  <1>0. TypeOK /\ PostedOK /\ RunningOK /\ CalleesOK /\ PlacesKnown  BY DEF IInv, RInv
  <1>1. f \in Frames /\ f # 0 /\ status[f] = "running"
    BY <1>0 DEF FinalSuspend, MayAct, TypeOK
  <1>2. /\ \A g \in Frames : g # 0 /\ g \in Nat
        /\ \A g \in Frames : caller[g] # 0 => caller[g] \in Frames
    BY <1>0, FramesAssumption DEF TypeOK
  <1>3. UNCHANGED <<running, caller>>  BY DEF FinalSuspend
  <1>4. CASE c = 0
    <2>1. UNCHANGED <<queue, result>> /\ status' = [status EXCEPT ![f] = "final"]
      BY <1>4 DEF FinalSuspend
    <2>2. \A g \in Frames : status'[g] = IF g = f THEN "final" ELSE status[g]
      BY <1>0, <1>1, <2>1 DEF TypeOK
    <2> HIDE DEF f
    <2>3. PostedOK'
      <3>1. \A g \in Frames : status'[g] = "ready" <=> status[g] = "ready"  BY <1>1, <2>2
      <3>. QED  BY <1>0, <2>1, <3>1 DEF PostedOK
    <2>4. RunningOK'
      <3>1. \A g \in Frames : status'[g] \in {"running", "final"} <=> status[g] \in {"running", "final"}
        BY <1>1, <2>2
      <3>. QED  BY <1>0, <1>3, <3>1 DEF RunningOK
    <2>5. CalleesOK'
      <3>1. \A g \in Frames : /\ Active(g)' => Active(g)
                              /\ Active(g) /\ g # f => Active(g)'
                              /\ status'[g] = "none" <=> status[g] = "none"
                              /\ status'[g] = "awaiting" <=> status[g] = "awaiting"
                              /\ status'[g] \in {"ready", "running"} => status[g] \in {"ready", "running"}
        BY <1>1, <2>2 DEF Active
      <3>2. ASSUME NEW h \in Frames, status'[h] = "awaiting"
            PROVE  \E g \in Frames : caller[g] = h /\ Active(g)'
        <4>1. PICK g \in Frames : caller[g] = h /\ Active(g)  BY <1>0, <3>1, <3>2 DEF CalleesOK
        <4>2. g # f  BY <1>2, <1>4, <4>1
        <4>. QED  BY <3>1, <4>1, <4>2
      <3>3. ASSUME NEW g \in Frames, caller[g] # 0, Active(g)'
            PROVE  /\ status'[caller[g]] = "awaiting"
                   /\ \A k \in Frames : caller[k] = caller[g] => k <= g
        BY <1>0, <1>2, <3>1, <3>3 DEF CalleesOK
      <3>4. \A h, g \in Frames : status'[h] \in {"ready", "running"} /\ caller[g] = h => g <= result[h]
        BY <1>0, <3>1 DEF CalleesOK
      <3>5. /\ \A h, g \in Frames : status'[g] # "none" /\ h < g => status'[h] # "none"
            /\ \A g \in Frames : status'[g] = "none" => caller[g] = 0
            /\ \A g \in Frames : caller[g] # 0 => status'[caller[g]] # "none"
            /\ result \in [Frames -> Frames \cup {0}]
        BY <1>0, <1>2, <3>1 DEF CalleesOK
      <3>. QED  BY <1>3, <2>1, <3>2, <3>3, <3>4, <3>5 DEF CalleesOK
    <2>. QED  BY <2>3, <2>4, <2>5 DEF RInv
  <1>5. CASE c # 0
    <2>1. /\ status' = [status EXCEPT ![f] = "final", ![c] = "ready"]
          /\ result' = [result EXCEPT ![c] = f]
          /\ PostResume(home[f], c)
      BY <1>5 DEF FinalSuspend, ReturnTo
    <2>2. /\ c \in Frames /\ home[f] \in Executors
          /\ status[c] = "awaiting" /\ c # f
          /\ \A k \in Frames : caller[k] = c => k <= f
      BY <1>0, <1>1, <1>2, <1>5 DEF PlacesKnown, CalleesOK, Active
    <2>3. \A g \in Frames : status'[g] = IF g = c THEN "ready"
                                         ELSE IF g = f THEN "final" ELSE status[g]
      BY <1>0, <1>1, <2>1, <2>2 DEF TypeOK
    <2>4. /\ result' \in [Frames -> Frames \cup {0}]
          /\ result'[c] = f /\ \A g \in Frames : g # c => result'[g] = result[g]
      BY <1>0, <1>1, <2>1, <2>2 DEF CalleesOK
    <2>5. PostedOK'
      <3>1. ~Posted(queue, c)  BY <1>0, <2>2 DEF PostedOK
      <3>2. Once(queue') /\ \A g : Posted(queue', g) <=> Posted(queue, g) \/ g = c
        <4> DEFINE x == home[f]
        <4>1. /\ queue \in [Executors -> Seq(Frames)] /\ Once(queue)
              /\ x \in Executors
              /\ queue'[x] = Append(queue[x], c)
              /\ \A d \in Executors : d # x => queue'[d] = queue[d]
          BY <1>0, <2>1, <2>2 DEF PostedOK, PostResume, TypeOK
        <4> HIDE DEF x, c
        <4>. QED  BY <2>2, <3>1, <4>1, PostOnce
      <3>3. \A g \in Frames : status'[g] = "ready" <=> status[g] = "ready" \/ g = c
        BY <1>1, <2>2, <2>3
      <3> HIDE DEF c, f
      <3>. QED  BY <1>0, <3>2, <3>3 DEF PostedOK
    <2> HIDE DEF f
    <2>6. RunningOK'
      <3>1. \A g \in Frames : status'[g] \in {"running", "final"} <=> status[g] \in {"running", "final"}
        BY <1>1, <2>2, <2>3
      <3>. QED  BY <1>0, <1>3, <3>1 DEF RunningOK
    <2>7. CalleesOK'
      <3>1. \A g \in Frames : /\ Active(g)' => Active(g)
                              /\ Active(g) /\ g # f => Active(g)'
                              /\ status'[g] = "none" <=> status[g] = "none"
                              /\ status'[g] = "awaiting" <=> status[g] = "awaiting" /\ g # c
                              /\ status'[g] \in {"ready", "running"} =>
                                    status[g] \in {"ready", "running"} \/ g = c
                              /\ Active(g)' => g # f
        BY <1>1, <2>2, <2>3 DEF Active
      <3>2. ASSUME NEW h \in Frames, status'[h] = "awaiting"
            PROVE  \E g \in Frames : caller[g] = h /\ Active(g)'
        <4>1. PICK g \in Frames : caller[g] = h /\ Active(g)  BY <1>0, <3>1, <3>2 DEF CalleesOK
        <4>2. g # f  BY <3>1, <3>2, <4>1
        <4>. QED  BY <3>1, <4>1, <4>2
      <3>3. ASSUME NEW g \in Frames, caller[g] # 0, Active(g)'
            PROVE  /\ status'[caller[g]] = "awaiting"
                   /\ \A k \in Frames : caller[k] = caller[g] => k <= g
        <4>1. g # f /\ Active(g) /\ caller[g] \in Frames  BY <1>2, <3>1, <3>3
        <4>2. /\ status[caller[g]] = "awaiting"
              /\ \A k \in Frames : caller[k] = caller[g] => k <= g
          BY <1>0, <3>3, <4>1 DEF CalleesOK
        <4>3. caller[g] # c
          <5> SUFFICES ASSUME caller[g] = c PROVE FALSE  OBVIOUS
          <5>1. g <= f  BY <2>2
          <5>2. f <= g  BY <1>1, <4>2
          <5>. QED  BY <1>1, <1>2, <4>1, <5>1, <5>2
        <4>. QED  BY <3>1, <4>1, <4>2, <4>3
      <3>4. ASSUME NEW h \in Frames, NEW g \in Frames,
                   status'[h] \in {"ready", "running"}, caller[g] = h
            PROVE  g <= result'[h]
        <4>1. CASE h = c  BY <2>2, <2>4, <3>4, <4>1
        <4>2. CASE h # c  BY <1>0, <2>4, <3>1, <3>4, <4>2 DEF CalleesOK
        <4>. QED  BY <4>1, <4>2
      <3>5. /\ \A h, g \in Frames : status'[g] # "none" /\ h < g => status'[h] # "none"
            /\ \A g \in Frames : status'[g] = "none" => caller[g] = 0
            /\ \A g \in Frames : caller[g] # 0 => status'[caller[g]] # "none"
        BY <1>0, <1>2, <3>1 DEF CalleesOK
      <3> HIDE DEF c
      <3>. QED  BY <1>3, <2>4, <3>2, <3>3, <3>4, <3>5 DEF CalleesOK
    <2>. QED  BY <2>5, <2>6, <2>7 DEF RInv
  <1>. QED  BY <1>4, <1>5

LEMMA DestroyRInv ==
    ASSUME IInv, RInv, NEW e \in Executors, Destroy(e)
    PROVE  RInv'
  <1> DEFINE f == running[e]
  <1>0. TypeOK /\ PostedOK /\ RunningOK /\ CalleesOK  BY DEF IInv, RInv
  <1>1. f \in Frames /\ f # 0 /\ status[f] = "final"
    BY <1>0 DEF Destroy, TypeOK
  <1>2. UNCHANGED <<queue, caller, result>>  BY DEF Destroy
  <1>3. /\ \A g \in Frames : status'[g] = IF g = f THEN "gone" ELSE status[g]
        /\ \A d \in Executors : running'[d] = IF d = e THEN 0 ELSE running[d]
    BY <1>0 DEF Destroy, Destroyed, TypeOK
  <1>4. PostedOK'
    <2>1. \A g \in Frames : status'[g] = "ready" <=> status[g] = "ready"  BY <1>1, <1>3
    <2>. QED  BY <1>0, <1>2, <2>1 DEF PostedOK
  <1>5. RunningOK'
    <2>1. \A g \in Frames : g # 0  BY FramesAssumption
    <2>2. \A d \in Executors : d # e => running[d] # f  BY <1>0, <1>1 DEF RunningOK
    <2>3. \A d, k \in Executors : running'[d] = running'[k] /\ running'[d] # 0 => d = k
      BY <1>0, <1>3 DEF RunningOK
    <2>4. ASSUME NEW g \in Frames
          PROVE  (\E d \in Executors : running'[d] = g) <=> status'[g] \in {"running", "final"}
      <3>1. CASE g = f  BY <1>3, <2>1, <2>2, <3>1
      <3>2. CASE g # f
        <4>1. \A d \in Executors : running'[d] = g <=> running[d] = g  BY <1>3, <2>1, <3>2
        <4>. QED  BY <1>0, <1>3, <3>2, <4>1 DEF RunningOK
      <3>. QED  BY <3>1, <3>2
    <2>. QED  BY <2>3, <2>4 DEF RunningOK
  <1>6. CalleesOK'
    <2>1. \A g \in Frames : /\ status'[g] = "none" <=> status[g] = "none"
                            /\ status'[g] = "awaiting" <=> status[g] = "awaiting"
                            /\ status'[g] \in {"ready", "running"} <=> status[g] \in {"ready", "running"}
      BY <1>1, <1>3
    <2>. QED  BY <1>0, <1>2, <2>1, CalleesSame
  <1>. QED  BY <1>4, <1>5, <1>6 DEF RInv

LEMMA ResumesInductive == Spec => []RInv
  <1>1. Init => RInv  BY InitRInv
  <1>2. IInv /\ RInv /\ [Next]_vars => RInv'
    <2> SUFFICES ASSUME IInv, RInv, [Next]_vars PROVE RInv'  OBVIOUS
    <2>1. ASSUME NEW x \in Executors, Spawn(x) PROVE RInv'  BY <2>1, SpawnRInv
    <2>2. ASSUME NEW e \in Executors, ExecutorStep(e) PROVE RInv'
      <3>1. CASE Resume(e)  BY <3>1, ResumeRInv
      <3>2. CASE AwaitInline(e)  BY <3>2, AwaitInlineRInv
      <3>3. CASE \E x \in Executors : AwaitOn(e, x)  BY <3>3, AwaitOnRInv
      <3>4. CASE FinalSuspend(e)  BY <3>4, FinalSuspendRInv
      <3>5. CASE Destroy(e)  BY <3>5, DestroyRInv
      <3>. QED  BY <2>2, <3>1, <3>2, <3>3, <3>4, <3>5 DEF ExecutorStep
    <2>3. CASE UNCHANGED vars
      BY <2>3 DEF RInv, PostedOK, Once, Posted, RunningOK, CalleesOK, Active, vars
    <2>. QED  BY <2>1, <2>2, <2>3 DEF Next
  <1>. QED  BY <1>1, <1>2, FramesPlaced, PTL DEF Spec

-----------------------------------------------------------------------------
\* A set with at most one element has as many as it has.
LEMMA AtMostOne ==
    ASSUME NEW S, \A x, y \in S : x = y
    PROVE  Cardinality(S) = IF \E x : x \in S THEN 1 ELSE 0
  <1>1. CASE \E x : x \in S
    <2>1. PICK x : x \in S  BY <1>1
    <2>2. S = {x}  BY <2>1
    <2>. QED  BY <1>1, <2>2, FS_Singleton
  <1>2. CASE ~\E x : x \in S
    <2>1. S = {}  BY <1>2
    <2>. QED  BY <1>2, <2>1, FS_EmptySet
  <1>. QED  BY <1>1, <1>2

\* A coroutine handle is resumed once for every suspension, a frame is never resumed
\* after FinalDestroyer has destroyed it, and the caller that is resumed finds the
\* value of the callee it awaited last.
THEOREM FramesResumedOnce == Spec => []ResumedOnce
  <1>1. IInv /\ RInv => ResumedOnce
    <2> SUFFICES ASSUME TypeOK, PostedOK, RunningOK, CalleesOK, NEW f \in Frames
                 PROVE  /\ Places(f) = IF status[f] \in {"ready", "running", "final"} THEN 1 ELSE 0
                        /\ Cardinality(Callees(f)) = IF status[f] = "awaiting" THEN 1 ELSE 0
                        /\ status[f] \in {"ready", "running"} =>
                              \A g \in Frames : caller[g] = f => g <= result[f]
      BY DEF IInv, RInv, ResumedOnce
    <2> DEFINE R == {e \in Executors : running[e] = f}
               Q == UNION {{e} \X {i \in DOMAIN queue[e] : queue[e][i] = f} : e \in Executors}
    <2>0. f # 0 /\ f \in Nat  BY FramesAssumption
    <2>1. Cardinality(R) = IF status[f] \in {"running", "final"} THEN 1 ELSE 0
      <3>1. \A x, y \in R : x = y  BY <2>0 DEF RunningOK
      <3>2. (\E x : x \in R) <=> status[f] \in {"running", "final"}  BY DEF RunningOK
      <3> HIDE DEF R
      <3>. QED  BY <3>1, <3>2, AtMostOne
    <2>2. Cardinality(Q) = IF status[f] = "ready" THEN 1 ELSE 0
      <3>1. \A x \in Q : \E e \in Executors : \E i \in DOMAIN queue[e] :
                            x = <<e, i>> /\ queue[e][i] = f
        OBVIOUS
      <3>2. \A e \in Executors : \A i \in DOMAIN queue[e] : queue[e][i] = f => <<e, i>> \in Q
        OBVIOUS
      <3> HIDE DEF Q
      <3>3. \A x, y \in Q : x = y  BY <3>1 DEF PostedOK, Once
      <3>4. (\E x : x \in Q) <=> status[f] = "ready"  BY <3>1, <3>2 DEF PostedOK, Posted
      <3>. QED  BY <3>3, <3>4, AtMostOne
    <2>3. Places(f) = IF status[f] \in {"ready", "running", "final"} THEN 1 ELSE 0
      BY <2>1, <2>2 DEF Places
    <2>4. Cardinality(Callees(f)) = IF status[f] = "awaiting" THEN 1 ELSE 0
      <3>1. ASSUME NEW x \in Callees(f), NEW y \in Callees(f) PROVE x = y
        <4>1. x \in Frames /\ y \in Frames /\ Active(x) /\ Active(y) /\ caller[x] = f /\ caller[y] = f
          BY DEF Callees, Active
        <4>2. x <= y /\ y <= x  BY <2>0, <4>1 DEF CalleesOK
        <4>. QED  BY <4>1, <4>2, FramesAssumption
      <3>2. (\E x : x \in Callees(f)) <=> status[f] = "awaiting"
        <4>1. \A g \in Frames : g \in Callees(f) <=> caller[g] = f /\ Active(g)
          BY DEF Callees, Active
        <4>2. \A x \in Callees(f) : x \in Frames  BY DEF Callees
        <4>3. \A g \in Frames : caller[g] = f /\ Active(g) => status[f] = "awaiting"
          BY <2>0 DEF CalleesOK
        <4>4. status[f] = "awaiting" => \E g \in Frames : caller[g] = f /\ Active(g)
          BY DEF CalleesOK
        <4>. QED  BY <4>1, <4>2, <4>3, <4>4
      <3>. QED  BY <3>1, <3>2, AtMostOne
    <2>. QED  BY <2>3, <2>4 DEF CalleesOK
  <1>. QED  BY <1>1, FramesPlaced, ResumesInductive, PTL
=============================================================================
