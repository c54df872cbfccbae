-------------------------- MODULE CallWorkerProofs --------------------------
(***************************************************************************)
(* Theorems about CallWorker, for every number of tasks, attempts,         *)
(* threads, requests and disturbances.                                     *)
(***************************************************************************)
EXTENDS CallWorker, TLAPS

(* The end of a call keeps the worker's variables well typed. *)
LEMMA EndsType ==
  ASSUME RowsOK, WorkerOK, NEW th \in Threads, pc[th] \in HasTask,
         NEW s \in Outcome, NEW b \in BOOLEAN,
         Ends(th, s, b) \/ EndsExpired(th, s, b), UNCHANGED <<held, found>>
  PROVE  WorkerOK'
<1>1. held[th] \in Task
  BY DEF WorkerOK
<1>2. seen' \in [Threads -> 1..MaxAttempts]
  BY <1>1 DEF RowsOK, WorkerOK, Ends, EndsExpired
<1>3. pc' = [pc EXCEPT ![th] = "settle"]
  BY DEF Ends, EndsExpired, Goto
<1>4. verdict' \in [Threads -> [status : Outcome, retry : BOOLEAN]]
  BY DEF WorkerOK, Ends, EndsExpired
<1> QED
  BY <1>1, <1>2, <1>3, <1>4 DEF WorkerOK, Labels, HasTask, Handling, InCall

(* So does a step of a thread that keeps its task. *)
LEMMA GotoType ==
  ASSUME WorkerOK, NEW th \in Threads, NEW l \in Labels, Goto(th, l),
         l \in HasTask => held[th] \in Task,
         UNCHANGED <<held, verdict, found>>,
         seen' \in [Threads -> 1..MaxAttempts]
  PROVE  WorkerOK'
BY DEF WorkerOK, Goto, Labels, HasTask, Handling, InCall

(* At most one more disturbance, and only while the bound allows it. *)
UpsetStep ==
    \/ UNCHANGED upsets
    \/ upsets < MaxUpsets /\ upsets' = upsets + 1

(* A step that leaves the requests alone and disturbs at most once keeps   *)
(* them and the rest of the environment well typed.                        *)
LEMMA RestType ==
  ASSUME RestOK, live' \in SUBSET Task, UNCHANGED req, UpsetStep
  PROVE  RestOK'
<1>1. upsets' \in 0..MaxUpsets
  BY CallWorkerAssumption DEF RestOK, UpsetStep
<1> QED
  BY <1>1 DEF RestOK

(* The history variables stay well typed. *)
LEMMA MarksStep ==
  ASSUME TypeOK, [Next]_vars
  PROVE  MarksOK'
<1> USE DEF marks, rows
<1>1. /\ unhung \subseteq live /\ live \in SUBSET Task
      /\ abandoned \in SUBSET Threads /\ shared \in SUBSET Task
      /\ unsaved \in SUBSET Task
      /\ \A th \in Threads : found[th] \in SUBSET Task /\ held[th] \in Task \cup {NoTask}
      /\ \A th \in Threads : pc[th] \in HasTask => held[th] \in Task
  BY DEF TypeOK, MarksOK, RestOK, WorkerOK
<1>2. ASSUME UNCHANGED <<marks, live>> PROVE MarksOK'
  BY <1>1, <1>2 DEF MarksOK
<1>3. ASSUME NEW t \in Task, NetworkReleases(t) PROVE MarksOK'
  BY <1>1, <1>3 DEF NetworkReleases, StaysUp, MarksOK
<1>4. CASE ServiceStep
  BY <1>1, <1>4 DEF ServiceStep, Boot, SwitchOn, Stop, SwitchOffJoined, SaveSwitch,
     ShutdownJoined, Crash, ProcessEnds, InHand, NoTask, MarksOK
<1>5. ASSUME NEW th \in Threads, ThreadStep(th) PROVE MarksOK'
  <2>1. CASE LoopTop(th) \/ SmsBatchEnds(th) \/ ClaimRead(th) \/ ClaimCommit(th)
    BY <1>1, <2>1 DEF LoopTop, SmsBatchEnds, ClaimRead, ClaimCommit, Shares, MarksOK
  <2>2. CASE RecoverRead(th) \/ RecoverCommit(th)
    BY <1>1, <2>2 DEF RecoverRead, RecoverCommit, Shares, Stale, HangUp, StaysUp,
       LeavesUp, MarksOK
  <2>3. CASE Dial(th) \/ Settle(th) \/ Answered(th)
    BY <1>1, <2>3 DEF Dial, Settle, Answered, LeavesUp, MarksOK, HasTask, Handling,
       InCall
  <2>4. CASE RingEnds(th) \/ TalkEnds(th)
    BY <1>1, <2>4 DEF RingEnds, TalkEnds, HangUp, StaysUp, LeavesUp, EndReported,
       MarksOK
  <2> QED
    BY <1>5, <2>1, <2>2, <2>3, <2>4 DEF ThreadStep, CallStep
<1>6. ASSUME NEW r \in Requests, RequeueApply(r) PROVE MarksOK'
  BY <1>1, <1>6 DEF RequeueApply, RequeueWrite, MarksOK, TypeOK, RestOK
<1>7. CASE \/ Tick \/ UNCHANGED vars
           \/ \E t \in Task : Enqueue(t) \/ \E r \in Requests : RequeueLoad(r, t)
  BY <1>2, <1>7 DEF Tick, Enqueue, RequeueLoad, vars
<1> QED
  BY <1>3, <1>4, <1>5, <1>6, <1>7 DEF Next

(* A manual requeue writes well-typed rows, also from a stale read.        *)
LEMMA RequeueWriteType ==
  ASSUME RowsOK, RestOK,
         NEW q \in [pc : {"idle", "loaded", "done"},
                    task : Task \cup {NoTask}, status : Status,
                    attempt : 1..MaxAttempts],
         q.task \in Task, RequeueWrite(q)
  PROVE  RowsOK' /\ upsets' \in 0..MaxUpsets
<1> USE CallWorkerAssumption
<1>1. CASE /\ q.status \notin ActiveStatus
           /\ Commits
           /\ status' = [status EXCEPT ![q.task] = "queued"]
           /\ attempt' = [attempt EXCEPT ![q.task] =
                            IF q.attempt = 1 THEN @ ELSE 1]
           /\ due' = [due EXCEPT ![q.task] = 0]
           /\ dials' = [dials EXCEPT ![q.task] = 0]
  <2>1. attempt' \in [Task -> 1..MaxAttempts]
    BY <1>1 DEF RowsOK
  <2>2. due' \in [Task -> -MaxAge..RetryDelay]
    BY <1>1 DEF RowsOK
  <2>3. status' \in [Task -> Status] /\ dials' \in [Task -> Nat]
    BY <1>1 DEF RowsOK, Status, ActiveStatus
  <2> QED
    BY <1>1, <2>1, <2>2, <2>3 DEF RowsOK, RestOK, Commits
<1>2. CASE UNCHANGED rows /\ (CommitFails \/ UNCHANGED upsets)
  BY <1>2 DEF RowsOK, RestOK, rows, CommitFails, Disturb
<1> QED
  BY <1>1, <1>2 DEF RequeueWrite

(* Type correctness: in particular an attempt number never leaves          *)
(* 1..MaxAttempts, whatever a thread or a request wrote from a stale read. *)
THEOREM TypeCorrect == Spec => []TypeOK
<1> USE CallWorkerAssumption DEF Labels, HasTask, Handling, InCall
<1>1. Init => TypeOK
  <2>1. Init => RowsOK
    <3>1. 0 \in -MaxAge..RetryDelay /\ 1 \in 1..MaxAttempts
      OBVIOUS
    <3>2. Init => due \in [Task -> -MaxAge..RetryDelay]
      BY <3>1 DEF Init
    <3> QED
      BY <3>1, <3>2 DEF Init, RowsOK, Status
  <2>4. Init => ServiceOK
    BY DEF Init, ServiceOK
  <2>2. Init => WorkerOK
    BY DEF Init, WorkerOK, NoVerdict, Outcome
  <2>3. Init => RestOK
    BY DEF Init, RestOK, Request, Status, NoTask
  <2>5. Init => MarksOK
    BY DEF Init, MarksOK
  <2> QED
    BY <2>1, <2>2, <2>3, <2>4, <2>5 DEF TypeOK
<1>2. TypeOK /\ [Next]_vars => TypeOK'
  <2> DEFINE Types == RowsOK /\ ServiceOK /\ WorkerOK /\ RestOK
  <2> SUFFICES ASSUME RowsOK, ServiceOK, WorkerOK, RestOK, [Next]_vars
               PROVE  Types'
    BY MarksStep DEF TypeOK
  <2> USE DEF service, flags, request, rows, job, worker
  <2>1. ASSUME NEW t \in Task, Enqueue(t) PROVE Types'
    BY <2>1 DEF Enqueue, RowsOK, ServiceOK, WorkerOK, RestOK, Status, ActiveStatus
  <2>2. ASSUME NEW t \in Task, NetworkReleases(t) PROVE Types'
    BY <2>2 DEF NetworkReleases, StaysUp, RowsOK, ServiceOK, WorkerOK, RestOK
  <2>3. CASE Tick
    <3>1. due' \in [Task -> -MaxAge..RetryDelay]
      BY <2>3 DEF Tick, RowsOK
    <3> QED
      BY <2>3, <3>1 DEF Tick, RowsOK, ServiceOK, WorkerOK, RestOK
  <2>4. CASE ServiceStep
    <3>1. CASE Boot \/ SwitchOn
      <4>1. ServiceOK'
        BY <3>1 DEF Boot, SwitchOn, Start, ServiceOK
      <4>2. WorkerOK'
        BY <3>1 DEF Boot, SwitchOn, Start, Goto, WorkerOK
      <4>3. RowsOK' /\ RestOK'
        BY <3>1 DEF Boot, SwitchOn, Disturb, RowsOK, RestOK
      <4> QED
        BY <4>1, <4>2, <4>3
    <3>2. CASE Stop("join") \/ Stop("exit")
      <4>1. RestOK'
        BY <3>2, RestType DEF Stop, Disturb, UpsetStep, RestOK
      <4> QED
        BY <3>2, <4>1 DEF Stop, RowsOK, ServiceOK, WorkerOK
    <3>3. CASE SwitchOffJoined
      BY <3>3 DEF SwitchOffJoined, RowsOK, ServiceOK, WorkerOK, RestOK
    <3>4. CASE SaveSwitch
      <4>1. UpsetStep
        BY <3>4 DEF SaveSwitch, Commits, CommitFails, Disturb, UpsetStep
      <4>2. RestOK'
        BY <3>4, <4>1, RestType DEF SaveSwitch, RestOK
      <4> QED
        BY <3>4, <4>2 DEF SaveSwitch, RowsOK, ServiceOK, WorkerOK
    <3>5. CASE ShutdownJoined \/ Crash
      <4>1. ProcessEnds /\ upsets' \in 0..MaxUpsets
        BY <3>5 DEF ShutdownJoined, Crash, Disturb, RestOK
      <4>2. RowsOK' /\ ServiceOK'
        BY <4>1 DEF ProcessEnds, RowsOK, ServiceOK
      <4>3. WorkerOK'
        BY <4>1 DEF ProcessEnds, WorkerOK, NoVerdict, Outcome
      <4>4. RestOK'
        BY <4>1 DEF ProcessEnds, RestOK, Request, Status, NoTask
      <4> QED
        BY <4>2, <4>3, <4>4
    <3> QED
      BY <2>4, <3>1, <3>2, <3>3, <3>4, <3>5 DEF ServiceStep
  <2>5. ASSUME NEW th \in Threads, ThreadStep(th) PROVE Types'
    <3> DEFINE Seen == seen' \in [Threads -> 1..MaxAttempts]
    <3>0. UNCHANGED seen => Seen
      BY DEF WorkerOK
    <3>1. CASE LoopTop(th)
      <4>1. WorkerOK'
        BY <3>0, <3>1, GotoType DEF LoopTop, AfterRecovery
      <4> QED
        BY <3>1, <4>1 DEF LoopTop, RowsOK, ServiceOK, RestOK
    <3>2. CASE RecoverRead(th)
      <4>1. PICK l \in Labels \ HasTask : Goto(th, l)
        BY <3>2 DEF RecoverRead, AfterRecovery
      <4>2. found' \in [Threads -> SUBSET Task]
        BY <3>2 DEF RecoverRead, Stale, WorkerOK
      <4>3. WorkerOK'
        BY <3>2, <4>1, <4>2 DEF RecoverRead, WorkerOK, Goto
      <4>4. RestOK'
        BY <3>2 DEF RecoverRead, HangUp, StaysUp, LeavesUp, Disturb, RestOK
      <4> QED
        BY <3>2, <4>3, <4>4 DEF RecoverRead, RowsOK, ServiceOK
    <3>3. CASE RecoverCommit(th)
      <4>1. PICK l \in Labels \ HasTask : Goto(th, l)
        BY <3>3 DEF RecoverCommit, AfterRecovery
      <4>2. WorkerOK'
        BY <3>3, <4>1 DEF RecoverCommit, WorkerOK, Goto
      <4>3. RowsOK' /\ ServiceOK'
        BY <3>3 DEF RecoverCommit, RowsOK, ServiceOK, Status, Outcome
      <4>4. RestOK'
        BY <3>3 DEF RecoverCommit, Commits, CommitFails, Disturb, RestOK
      <4> QED
        BY <4>2, <4>3, <4>4
    <3>4. CASE SmsBatchEnds(th)
      <4>1. WorkerOK'
        BY <3>0, <3>4, GotoType DEF SmsBatchEnds
      <4> QED
        BY <3>4, <4>1 DEF SmsBatchEnds, RowsOK, ServiceOK, RestOK
    <3>5. CASE ClaimRead(th)
      <4>1. CASE UNCHANGED held /\ Goto(th, "top")
        BY <3>0, <3>5, <4>1, GotoType DEF ClaimRead, RowsOK,
           ServiceOK, RestOK
      <4>2. ASSUME NEW t \in Task, held' = [held EXCEPT ![th] = t],
                   Goto(th, "claimed")
            PROVE  WorkerOK'
        BY <3>5, <4>2 DEF ClaimRead, WorkerOK, Goto
      <4> QED
        BY <3>5, <4>1, <4>2 DEF ClaimRead, RowsOK, ServiceOK, RestOK
    <3>6. CASE ClaimCommit(th)
      <4>1. pc[th] \in HasTask /\ held[th] \in Task
        BY <3>6 DEF ClaimCommit, WorkerOK
      <4>2. CASE Commits /\ Goto(th, "handle")
        <5>1. Seen
          BY <3>6, <4>1, <4>2 DEF ClaimCommit, WorkerOK, RowsOK
        <5>2. WorkerOK'
          <6>1. UNCHANGED held
            BY <3>6, <4>2 DEF ClaimCommit, WorkerOK, Goto
          <6> QED
            BY <3>6, <4>1, <4>2, <5>1, <6>1, GotoType DEF ClaimCommit
        <5>3. status' \in [Task -> Status]
          BY <3>6, <4>1, <4>2 DEF ClaimCommit, Goto, RowsOK, Status, ActiveStatus
        <5> QED
          BY <3>6, <4>1, <4>2, <5>2, <5>3 DEF ClaimCommit, Commits, RowsOK,
             ServiceOK, RestOK
      <4>3. CASE CommitFails /\ LetsGo(th) /\ Goto(th, "top")
        <5>1. WorkerOK'
          BY <3>6, <4>3 DEF ClaimCommit, WorkerOK, Goto, LetsGo
        <5>2. UNCHANGED status /\ UpsetStep
          BY <3>6, <4>3 DEF ClaimCommit, CommitFails, Disturb, Goto, UpsetStep,
                            WorkerOK
        <5> QED
          BY <3>6, <5>1, <5>2, RestType DEF ClaimCommit, RowsOK, ServiceOK, RestOK
      <4> QED
        BY <3>6, <4>2, <4>3 DEF ClaimCommit
    <3>7. CASE Dial(th)
      <4>1. pc[th] \in HasTask /\ held[th] \in Task
        BY <3>7 DEF Dial, WorkerOK
      <4>2. WorkerOK'
        <5>1. CASE Goto(th, "ringing") /\ UNCHANGED <<seen, verdict>>
          BY <3>0, <3>7, <4>1, <5>1, GotoType DEF Dial
        <5>2. ASSUME NEW b \in BOOLEAN, Ends(th, "failed", b) PROVE WorkerOK'
          BY <3>7, <4>1, <5>2, EndsType DEF Dial, Outcome
        <5> QED
          BY <3>7, <5>1, <5>2 DEF Dial
      <4>3. dials' \in [Task -> Nat]
        <5>1. dials[held[th]] + 1 \in Nat
          BY <4>1 DEF RowsOK
        <5>2. \/ UNCHANGED dials
              \/ dials' = [dials EXCEPT ![held[th]] = @ + 1]
          BY <3>7 DEF Dial
        <5> QED
          BY <5>1, <5>2 DEF RowsOK
      <4>4. live' \in SUBSET Task /\ UNCHANGED req /\ UpsetStep
        BY <3>7, <4>1 DEF Dial, Disturb, RestOK, UpsetStep
      <4> QED
        BY <3>7, <4>2, <4>3, <4>4, RestType DEF Dial, RowsOK, ServiceOK
    <3>8. CASE RingEnds(th)
      <4>1. pc[th] \in HasTask
        BY <3>8 DEF RingEnds
      <4>2. PICK s \in Outcome, b \in BOOLEAN : Ends(th, s, b)
        BY <3>8 DEF RingEnds, Outcome
      <4>3. WorkerOK'
        BY <3>8, <4>1, <4>2, EndsType DEF RingEnds
      <4>4. live' \in SUBSET Task /\ UNCHANGED req /\ UpsetStep
        BY <3>8 DEF RingEnds, HangUp, StaysUp, LeavesUp, EndReported, Disturb, RestOK,
           UpsetStep
      <4> QED
        BY <3>8, <4>3, <4>4, RestType DEF RingEnds, RowsOK, ServiceOK
    <3>9. CASE Answered(th)
      <4>1. pc[th] \in HasTask /\ held[th] \in Task
        BY <3>9 DEF Answered, WorkerOK
      <4>2. WorkerOK'
        <5>1. CASE Goto(th, "talking") /\ UNCHANGED <<held, seen>>
          BY <3>0, <3>9, <4>1, <5>1, GotoType DEF Answered
        <5>2. CASE Goto(th, "top") /\ LetsGo(th) /\ seen' = [seen EXCEPT ![th] = 1]
          <6>1. held' \in [Threads -> Task \cup {NoTask}]
            BY <5>2 DEF WorkerOK, LetsGo
          <6>2. seen' \in [Threads -> 1..MaxAttempts]
            BY <5>2 DEF WorkerOK
          <6>3. pc' = [pc EXCEPT ![th] = "top"] /\ UNCHANGED <<verdict, found>>
            BY <3>9, <5>2 DEF Answered, Goto
          <6>4. \A o \in Threads \ {th} : held'[o] = held[o]
            BY <5>2 DEF WorkerOK, LetsGo
          <6> QED
            BY <6>1, <6>2, <6>3, <6>4 DEF WorkerOK
        <5> QED
          BY <3>9, <5>1, <5>2 DEF Answered
      <4>3. RowsOK' /\ ServiceOK'
        BY <3>9, <4>1 DEF Answered, RowsOK, ServiceOK, Status, ActiveStatus
      <4>4. UNCHANGED <<live, req>> /\ UpsetStep
        BY <3>9 DEF Answered, LeavesUp, Commits, CommitFails, Disturb, UpsetStep
      <4>5. RestOK'
        BY <4>4, RestType DEF RestOK
      <4> QED
        BY <4>2, <4>3, <4>5
    <3>10. CASE TalkEnds(th)
      <4>1. pc[th] \in HasTask
        BY <3>10 DEF TalkEnds
      <4>2. PICK s \in Outcome, b \in BOOLEAN : EndsExpired(th, s, b)
        BY <3>10 DEF TalkEnds, Outcome
      <4>3. WorkerOK'
        BY <3>10, <4>1, <4>2, EndsType DEF TalkEnds
      <4>4. live' \in SUBSET Task /\ UNCHANGED req /\ UpsetStep
        BY <3>10 DEF TalkEnds, HangUp, StaysUp, LeavesUp, EndReported, Disturb, RestOK,
           UpsetStep
      <4> QED
        BY <3>10, <4>3, <4>4, RestType DEF TalkEnds, RowsOK, ServiceOK
    <3>11. CASE Settle(th)
      <4>1. /\ held[th] \in Task
            /\ seen[th] \in 1..MaxAttempts
            /\ verdict[th].status \in Outcome
        BY <3>11 DEF Settle, WorkerOK
      <4>2. attempt' \in [Task -> 1..MaxAttempts]
        BY <3>11, <4>1 DEF Settle, Retries, RowsOK
      <4>3. due' \in [Task -> -MaxAge..RetryDelay]
        BY <3>11, <4>1 DEF Settle, RowsOK
      <4>4. status' \in [Task -> Status]
        BY <3>11, <4>1 DEF Settle, RowsOK, Status, ActiveStatus
      <4>5. WorkerOK'
        BY <3>11 DEF Settle, LetsGo, Goto, NoVerdict, WorkerOK,
                     Outcome
      <4>6. RestOK'
        BY <3>11 DEF Settle, Commits, CommitFails, Disturb, RestOK
      <4> QED
        BY <3>11, <4>2, <4>3, <4>4, <4>5, <4>6 DEF Settle, RowsOK, ServiceOK
    <3> QED
      BY <2>5, <3>1, <3>2, <3>3, <3>4, <3>5, <3>6, <3>7, <3>8, <3>9, <3>10,
         <3>11 DEF ThreadStep, CallStep
  <2>6. ASSUME NEW r \in Requests, RequeueApply(r) PROVE Types'
    <3>1. RowsOK' /\ upsets' \in 0..MaxUpsets
      BY <2>6, RequeueWriteType DEF RequeueApply, RestOK
    <3> QED
      BY <2>6, <3>1 DEF RequeueApply, Request, ServiceOK, WorkerOK, RestOK,
                        Status, NoTask
  <2>7. ASSUME NEW r \in Requests, NEW t \in Task, RequeueLoad(r, t)
        PROVE  Types'
    <3>1. Request("loaded", t) \in
             [pc : {"idle", "loaded", "done"}, task : Task \cup {NoTask},
              status : Status, attempt : 1..MaxAttempts]
      BY DEF Request, RowsOK, Task, NoTask
    <3>2. Request("loaded", t).task = t
      BY DEF Request
    <3>3. RestOK'
      BY <2>7, <3>1, <3>2 DEF RequeueLoad, RestOK
    <3> QED
      BY <2>7, <3>3 DEF RequeueLoad, RowsOK, ServiceOK, WorkerOK
  <2>8. CASE UNCHANGED vars
    BY <2>8 DEF vars, RowsOK, ServiceOK, WorkerOK, RestOK
  <2> QED
    BY <2>1, <2>2, <2>3, <2>4, <2>5, <2>6, <2>7, <2>8 DEF Next
<1> QED
  BY <1>1, <1>2, PTL DEF Spec
-----------------------------------------------------------------------------
(* Who may be in its loop: the thread the service refers to, the one a     *)
(* pending stop() is joining, or one that a join has given up on.  stop()  *)
(* clears the reference before it joins, so apart from abandoned threads   *)
(* there is never more than one.                                           *)
Crew ==
    /\ \A th \in Threads :
          Alive(th) => \/ th \in abandoned
                       \/ th = thread
                       \/ admin \in {"join", "exit"} /\ th = joining
    /\ admin \in {"join", "exit"} => thread = NoThread
    /\ ~up => admin = "idle"

(* At most one thread is in its loop unabandoned.                          *)
LEMMA OneIsNotAbandoned ==
  ASSUME Crew, NEW a \in Threads, NEW b \in Threads, Alive(a), Alive(b),
         a \notin abandoned, b \notin abandoned
  PROVE  a = b
BY CallWorkerAssumption DEF Crew

(* Starting the service leaves no other thread but abandoned ones alive.   *)
LEMMA StartedAlone ==
  ASSUME TypeOK, Crew, admin = "idle", Start
  PROVE  \A th \in Threads : pc'[th] # "off" => th = thread' \/ th \in abandoned
<1>1. CASE Running /\ UNCHANGED <<flags, pc>>
  BY <1>1 DEF Crew, Alive, flags
<1>2. ASSUME ~Running, NEW th \in Threads, thread' = th, Goto(th, "top")
      PROVE  \A o \in Threads : pc'[o] # "off" => o = thread' \/ o \in abandoned
  BY <1>2 DEF Crew, Running, Alive, Goto, TypeOK, WorkerOK
<1> QED
  BY <1>1, <1>2 DEF Start

(* A thread's own step neither starts a thread nor concerns the service.   *)
(* It leaves the threads that were given up on, but for itself at its end, *)
(* and changes no row but those it has in hand.                            *)
LEMMA ThreadStepIsLocal ==
  ASSUME TypeOK, NEW th \in Threads, ThreadStep(th)
  PROVE  /\ UNCHANGED <<up, stop, thread, request, req>>
         /\ Alive(th)
         /\ abandoned' = IF pc'[th] = "off" THEN abandoned \ {th} ELSE abandoned
         /\ shared \subseteq shared'
         /\ \A o \in Threads \ {th} :
               /\ pc'[o] = pc[o] /\ held'[o] = held[o] /\ seen'[o] = seen[o]
               /\ verdict'[o] = verdict[o] /\ found'[o] = found[o]
         /\ \A t \in Task \ InHand(th) :
               /\ status'[t] = status[t] /\ attempt'[t] = attempt[t]
               /\ dials'[t] = dials[t]
<1> USE DEF service, flags, request, rows, job, worker, marks, Goto, Alive, TypeOK,
            WorkerOK, RowsOK, InHand
<1>1. CASE LoopTop(th)
  BY <1>1 DEF LoopTop, AfterRecovery
<1>2. CASE RecoverRead(th) \/ RecoverCommit(th) \/ SmsBatchEnds(th)
  BY <1>2 DEF AfterRecovery, RecoverRead, RecoverCommit, SmsBatchEnds, Shares
<1>3. CASE ClaimRead(th)
  BY <1>3 DEF ClaimRead, Shares
<1>4. CASE ClaimCommit(th)
  <2>1. held[th] \in Task
    BY <1>4 DEF ClaimCommit, HasTask
  <2>2. held[th] \in InHand(th)
    BY <2>1 DEF Task, NoTask
  <2> QED
    BY <1>4, <2>1, <2>2 DEF ClaimCommit, LetsGo
<1>5. CASE Dial(th) \/ RingEnds(th) \/ Answered(th) \/ TalkEnds(th) \/ Settle(th)
  <2>1. held[th] \in Task /\ pc[th] # "off"
    BY <1>5 DEF Dial, RingEnds, Answered, TalkEnds, Settle, HasTask, Handling, InCall
  <2>2. held[th] \in InHand(th)
    BY <2>1 DEF Task, NoTask
  <2>3. CASE Dial(th) \/ RingEnds(th)
    BY <2>1, <2>2, <2>3 DEF Dial, RingEnds, Ends
  <2>4. CASE Answered(th) \/ TalkEnds(th)
    BY <2>1, <2>2, <2>4 DEF Answered, TalkEnds, EndsExpired, LetsGo
  <2>5. CASE Settle(th)
    BY <2>1, <2>2, <2>5 DEF Settle, LetsGo
  <2> QED
    BY <1>5, <2>3, <2>4, <2>5
<1> QED
  BY <1>1, <1>2, <1>3, <1>4, <1>5 DEF ThreadStep, CallStep

(* Every step of the service, its threads and its clients keeps Crew.      *)
LEMMA CrewStep ==
  ASSUME TypeOK, Crew, [Next]_vars
  PROVE  Crew'
<1> USE DEF service, flags, request, rows, worker, marks
<1>1. CASE Boot \/ SwitchOn
  <2>1. \A th \in Threads : pc'[th] # "off" => th = thread' \/ th \in abandoned
    BY <1>1, StartedAlone DEF Boot, SwitchOn, Crew
  <2> QED
    BY <1>1, <2>1 DEF Boot, SwitchOn, Crew, Alive
<1>2. CASE Stop("join") \/ Stop("exit")
  BY <1>2 DEF Stop, Crew, Alive
<1>3. CASE SwitchOffJoined
  BY <1>3 DEF SwitchOffJoined, Crew, Alive
<1>4. CASE SaveSwitch
  BY <1>4 DEF SaveSwitch, Crew, Alive
<1>5. CASE ShutdownJoined \/ Crash
  BY <1>5 DEF ShutdownJoined, Crash, ProcessEnds, Crew, Alive
<1>6. ASSUME NEW th \in Threads, ThreadStep(th) PROVE Crew'
  BY <1>6, ThreadStepIsLocal DEF Crew, Alive
<1>7. CASE UNCHANGED <<up, service, pc, abandoned>>
  BY <1>7 DEF Crew, Alive
<1>8. ASSUME NEW t \in Task, Enqueue(t) \/ NetworkReleases(t)
      PROVE  UNCHANGED <<up, service, pc, abandoned>>
  BY <1>8 DEF Enqueue, NetworkReleases
<1>9. CASE Tick
  BY <1>7, <1>9 DEF Tick
<1>10. ASSUME NEW r \in Requests, NEW t \in Task, RequeueLoad(r, t)
       PROVE  UNCHANGED <<up, service, pc, abandoned>>
  BY <1>10 DEF RequeueLoad
<1>11. ASSUME NEW r \in Requests, RequeueApply(r)
       PROVE  UNCHANGED <<up, service, pc, abandoned>>
  BY <1>11 DEF RequeueApply
<1> QED
  BY <1>1, <1>2, <1>3, <1>4, <1>5, <1>6, <1>7, <1>8, <1>9, <1>10, <1>11
     DEF Next, ServiceStep, vars

THEOREM CrewAlways == Spec => []Crew
<1>1. Init => Crew
  BY DEF Init, Crew, Alive
<1> QED
  BY <1>1, TypeCorrect, CrewStep, PTL DEF Spec

(* Of two threads at the modem one was given up on by a join, for any      *)
(* number of threads, through every crash, restart and use of the switch.  *)
THEOREM ModemIsIntrudedOnly == Spec => []OnlyAbandonedIntrude
<1>1. Crew => OnlyAbandonedIntrude
  BY OneIsNotAbandoned DEF OnlyAbandonedIntrude, UsesPort, InCall, Alive
<1> QED
  BY <1>1, CrewAlways, PTL
-----------------------------------------------------------------------------
(* Why the redial budget holds.  The attempt number counts the dials: it   *)
(* is never behind them, and is ahead of them while the next dial is due.  *)
(* For that a thread must count on from the attempt in the row, which is   *)
(* what HeldRowIsCurrent says and what a second hand on the row breaks.    *)
RowsCounted ==
    \A t \in Task \ shared :
        /\ dials[t] <= attempt[t]
        /\ status[t] \in {"absent", "queued"} => dials[t] < attempt[t]

NextIsCounted(th) == pc[th] = "handle" => dials[held[th]] < attempt[held[th]]

HeldIsCounted(th) ==
    held[th] \notin shared => HeldIsCurrent(th) /\ NextIsCounted(th)

(* What a thread that was given up on has in hand is marked. *)
AbandonedShare == \A th \in abandoned : InHand(th) \subseteq shared

Budget ==
    /\ RowsCounted
    /\ AbandonedShare
    /\ \A th \in Threads : HeldIsCounted(th)

(* A task in no marked hand is in one hand: a thread that is given up on   *)
(* does not touch it, and no other thread has it beside its holder.        *)
LEMMA OneHand ==
  ASSUME TypeOK, Crew, AbandonedShare, NEW a \in Threads, NEW b \in Threads,
         Alive(a), Alive(b), NEW t \in InHand(a), t \in InHand(b), t \notin shared
  PROVE  a = b
BY OneIsNotAbandoned DEF AbandonedShare

LEMMA HeldInHand ==
  ASSUME TypeOK, NEW th \in Threads, pc[th] \in HasTask
  PROVE  held[th] \in Task /\ held[th] \in InHand(th) /\ Alive(th)
<1>1. held[th] \in Task
  BY DEF TypeOK, WorkerOK
<1> QED
  BY <1>1 DEF InHand, Task, NoTask, Alive, HasTask, Handling, InCall

(* A thread that was given up on marks what it takes in hand. *)
LEMMA AbandonedStep ==
  ASSUME TypeOK, AbandonedShare, NEW th \in Threads, ThreadStep(th)
  PROVE  AbandonedShare'
<1> USE DEF service, flags, request, rows, job, worker, marks
<1>1. /\ shared \subseteq shared' /\ abandoned' \subseteq abandoned
      /\ \A o \in Threads \ {th} : held'[o] = held[o] /\ found'[o] = found[o]
  BY ThreadStepIsLocal
<1>2. held \in [Threads -> Task \cup {NoTask}] /\ found \in [Threads -> SUBSET Task]
      /\ abandoned \subseteq Threads
  BY DEF TypeOK, WorkerOK, MarksOK
<1>3. SUFFICES th \in abandoned => InHand(th)' \subseteq shared'
  BY <1>1, <1>2 DEF AbandonedShare, InHand
<1>4. th \in abandoned => InHand(th) \subseteq shared
  BY DEF AbandonedShare
<1>5. CASE UNCHANGED <<held, found>>
  BY <1>1, <1>4, <1>5 DEF InHand
<1>6. CASE LoopTop(th) \/ SmsBatchEnds(th) \/ Dial(th) \/ RingEnds(th) \/ TalkEnds(th)
  BY <1>5, <1>6 DEF LoopTop, SmsBatchEnds, Dial, RingEnds, TalkEnds
<1>7. CASE RecoverRead(th) \/ RecoverCommit(th)
  BY <1>1, <1>2, <1>4, <1>7 DEF RecoverRead, RecoverCommit, Shares, InHand
<1>8. CASE ClaimRead(th)
  BY <1>1, <1>2, <1>4, <1>8 DEF ClaimRead, Shares, InHand
<1>9. CASE ClaimCommit(th) \/ Answered(th) \/ Settle(th)
  BY <1>1, <1>2, <1>4, <1>9 DEF ClaimCommit, Answered, Settle, LetsGo, InHand
<1> QED
  BY <1>6, <1>7, <1>8, <1>9 DEF ThreadStep, CallStep

(* The step of a thread keeps the count of the tasks it has in hand, as    *)
(* far as they are in its hand alone.                                      *)
LEMMA ThreadCounts ==
  ASSUME TypeOK, RowsCounted, AbandonedShare, NEW th \in Threads, HeldIsCounted(th),
         ThreadStep(th)
  PROVE  /\ \A t \in InHand(th) \ shared' :
               /\ dials'[t] <= attempt'[t]
               /\ status'[t] \in {"absent", "queued"} => dials'[t] < attempt'[t]
         /\ HeldIsCounted(th)'
<1> USE DEF service, flags, request, rows, job, worker, marks
<1> DEFINE Mine == HeldIsCounted(th)
           Quiet == UNCHANGED <<status, attempt, dials, held, seen>>
           Count == \A t \in Task \ shared :
                       /\ dials'[t] <= attempt'[t]
                       /\ status'[t] \in {"absent", "queued"} => dials'[t] < attempt'[t]
<1>1. /\ status \in [Task -> Status] /\ attempt \in [Task -> Nat]
      /\ dials \in [Task -> Nat] /\ seen \in [Threads -> Nat]
      /\ held \in [Threads -> Task \cup {NoTask}]
      /\ found \in [Threads -> SUBSET Task]
      /\ pc \in [Threads -> Labels]
      /\ pc[th] \in HasTask => held[th] \in Task
  BY CallWorkerAssumption DEF TypeOK, RowsOK, WorkerOK
<1>2. RowsCounted /\ Mine /\ shared \subseteq shared'
  BY ThreadStepIsLocal
<1>3. SUFFICES Count /\ Mine'
  <2>1. InHand(th) \subseteq Task
    BY <1>1 DEF InHand
  <2> QED
    BY <1>2, <1>3, <2>1
<1> HIDE DEF Mine
<1>5. ASSUME Quiet, NEW l \in {"off", "top", "recover", "recovering", "sms", "claim"},
             Goto(th, l)
      PROVE  Count /\ Mine'
  BY <1>1, <1>2, <1>5 DEF Mine, RowsCounted, HeldIsCounted, HeldIsCurrent,
     NextIsCounted, Goto, Handling, InCall
<1>6. CASE LoopTop(th) \/ RecoverRead(th) \/ SmsBatchEnds(th)
  BY <1>5, <1>6 DEF LoopTop, RecoverRead, SmsBatchEnds, AfterRecovery
<1>7. CASE RecoverCommit(th)
  <2>1. PICK l \in {"top", "sms", "claim"} : Goto(th, l)
    BY <1>7 DEF RecoverCommit, AfterRecovery
  <2>2. UNCHANGED <<attempt, dials>>
    BY <1>7 DEF RecoverCommit
  <2>3. \A t \in Task : status'[t] = status[t] \/ status'[t] = "failed"
    BY <1>1, <1>7 DEF RecoverCommit
  <2>4. Mine'
    BY <1>1, <2>1 DEF Mine, HeldIsCounted, HeldIsCurrent, NextIsCounted, Goto,
       Handling, InCall
  <2> QED
    BY <1>2, <2>2, <2>3, <2>4 DEF RowsCounted
<1>8. CASE ClaimRead(th)
  <2>1. CASE Goto(th, "top") /\ UNCHANGED held
    BY <1>5, <1>8, <2>1 DEF ClaimRead
  <2>2. ASSUME NEW t \in Task, Claimable(t), Goto(th, "claimed"),
               held' = [held EXCEPT ![th] = t]
        PROVE  Mine'
    BY <1>1, <1>8, <2>2 DEF ClaimRead, Claimable, Mine, HeldIsCounted, HeldIsCurrent,
       NextIsCounted, Goto, Handling, InCall
  <2>3. Count
    BY <1>2, <1>8 DEF ClaimRead, RowsCounted
  <2> QED
    BY <1>8, <2>1, <2>2, <2>3 DEF ClaimRead
<1>4. pc[th] \in HasTask /\ held[th] \notin shared =>
        /\ held[th] \in Task /\ HeldIsCurrent(th) /\ NextIsCounted(th)
        /\ dials[held[th]] <= attempt[held[th]]
        /\ status[held[th]] = "queued" => dials[held[th]] < attempt[held[th]]
  BY <1>1, <1>2 DEF Mine, HeldIsCounted, RowsCounted
<1>9. CASE ClaimCommit(th)
  <2>1. held[th] \in Task /\ pc[th] = "claimed" /\ UNCHANGED shared
    BY <1>1, <1>9 DEF ClaimCommit, HasTask
  <2>2. CASE /\ Goto(th, "handle") /\ UNCHANGED <<held, attempt, dials>>
             /\ status' = [status EXCEPT ![held[th]] = "dialing"]
             /\ seen' = [seen EXCEPT ![th] = attempt[held[th]]]
    <3>1. Count
      BY <1>1, <1>2, <2>1, <2>2 DEF RowsCounted
    <3>2. Mine'
      BY <1>1, <1>4, <2>1, <2>2 DEF Mine, HeldIsCounted, HeldIsCurrent, NextIsCounted,
         Goto, InProgress, HasTask
    <3> QED
      BY <3>1, <3>2
  <2>3. CASE Goto(th, "top") /\ UNCHANGED <<status, attempt, dials>>
    <3>1. Mine'
      BY <1>1, <2>3 DEF Mine, HeldIsCounted, HeldIsCurrent, NextIsCounted, Goto,
         Handling, InCall
    <3> QED
      BY <1>2, <2>3, <3>1 DEF RowsCounted
  <2> QED
    BY <1>9, <2>2, <2>3 DEF ClaimCommit
<1>10. CASE Dial(th)
  <2> DEFINE t == held[th]
  <2>1. t \in Task /\ pc[th] = "handle" /\ UNCHANGED shared
    BY <1>1, <1>10 DEF Dial, HasTask, Handling
  <2>2. PICK l \in {"settle", "ringing"} : Goto(th, l)
    BY <1>10 DEF Dial, Ends
  <2>3. UNCHANGED <<status, attempt, held, seen>>
    BY <1>10 DEF Dial, Ends
  <2>4. t \notin shared => /\ dials[t] < attempt[t] /\ status[t] \in InProgress
                           /\ seen[th] = attempt[t]
    BY <1>4, <2>1 DEF HeldIsCurrent, NextIsCounted, HasTask, Handling, InCall
  <2>5. Mine'
    BY <1>1, <2>1, <2>2, <2>3, <2>4 DEF Mine, HeldIsCounted, HeldIsCurrent,
       NextIsCounted, Goto, Handling, InCall
  <2>6. UNCHANGED dials \/ dials' = [dials EXCEPT ![t] = @ + 1]
    BY <1>10 DEF Dial
  <2>7. Count
    BY <1>1, <1>2, <2>1, <2>3, <2>4, <2>6 DEF RowsCounted, InProgress
  <2> QED
    BY <2>5, <2>7
<1>11. ASSUME NEW l \in {"talking", "settle"}, Goto(th, l),
              UNCHANGED <<attempt, dials, held, shared>>,
              pc[th] \in Handling,
              \/ UNCHANGED status
              \/ status' = [status EXCEPT ![held[th]] = "connected"],
              l = "settle" /\ held[th] \notin shared => seen'[th] = attempt[held[th]]
       PROVE  Count /\ Mine'
  <2>1. /\ held[th] \in Task
        /\ held[th] \notin shared => status[held[th]] \in InProgress
    BY <1>1, <1>4, <1>11 DEF HasTask, HeldIsCurrent
  <2>2. Count
    BY <1>1, <1>2, <1>11, <2>1 DEF RowsCounted
  <2>3. Mine'
    BY <1>1, <1>11, <2>1 DEF Mine, HeldIsCounted, HeldIsCurrent, NextIsCounted, Goto,
       Handling, InCall, InProgress
  <2> QED
    BY <2>2, <2>3
<1>12. CASE RingEnds(th)
  <2>1. /\ pc[th] = "ringing"
        /\ held[th] \notin shared => seen[th] = attempt[held[th]]
    BY <1>4, <1>12 DEF RingEnds, HeldIsCurrent, Handling, InCall, HasTask
  <2>2. Goto(th, "settle") /\ UNCHANGED <<rows, held, seen, shared>>
    BY <1>12 DEF RingEnds, Ends
  <2> QED
    BY <1>11, <2>1, <2>2 DEF Handling, InCall
<1>13. CASE Answered(th)
  <2>1. CASE /\ Goto(th, "talking") /\ UNCHANGED <<attempt, dials, held>>
             /\ status' = [status EXCEPT ![held[th]] = "connected"]
    BY <1>11, <1>13, <2>1 DEF Answered, Handling, InCall
  <2>2. CASE Goto(th, "top") /\ UNCHANGED <<status, attempt, dials>>
    <3>1. Mine'
      BY <1>1, <2>2 DEF Mine, HeldIsCounted, HeldIsCurrent, NextIsCounted, Goto,
         Handling, InCall
    <3> QED
      BY <1>2, <2>2, <3>1 DEF RowsCounted
  <2> QED
    BY <1>13, <2>1, <2>2 DEF Answered
<1>14. CASE TalkEnds(th)
  <2>1. pc[th] = "talking" /\ UNCHANGED <<rows, held, shared>>
    BY <1>14 DEF TalkEnds
  <2>2. Goto(th, "settle") /\ seen' = [seen EXCEPT ![th] = attempt[held[th]]]
    BY <1>14 DEF TalkEnds, EndsExpired
  <2>3. seen'[th] = attempt[held[th]]
    BY <1>1, <2>2
  <2> QED
    BY <1>11, <2>1, <2>2, <2>3 DEF Handling, InCall
<1>15. CASE Settle(th)
  <2> DEFINE t == held[th]
  <2>1. /\ t \in Task /\ UNCHANGED shared
        /\ t \notin shared => seen[th] = attempt[t] /\ status[t] \in InProgress
    BY <1>1, <1>4, <1>15 DEF Settle, HasTask, HeldIsCurrent, Handling
  <2>2. Goto(th, "top") /\ UNCHANGED dials
    BY <1>15 DEF Settle
  <2>3. Mine'
    BY <1>1, <2>2 DEF Mine, HeldIsCounted, HeldIsCurrent, NextIsCounted, Goto,
       Handling, InCall
  <2>4. CASE /\ status' = [status EXCEPT ![t] = "queued"]
             /\ attempt' = [attempt EXCEPT ![t] = seen[th] + 1]
    BY <1>1, <1>2, <2>1, <2>2, <2>3, <2>4 DEF RowsCounted
  <2>5. CASE UNCHANGED <<status, attempt>>
    BY <1>2, <2>2, <2>3, <2>5 DEF RowsCounted
  <2>6. CASE status' = [status EXCEPT ![t] = verdict[th].status] /\ UNCHANGED attempt
    <3>1. verdict[th].status \in Outcome
      BY DEF TypeOK, WorkerOK
    <3>2. verdict[th].status \notin {"absent", "queued"}
      BY <3>1 DEF Outcome
    <3> QED
      BY <1>1, <1>2, <2>1, <2>2, <2>3, <2>6, <3>2 DEF RowsCounted
  <2> QED
    BY <1>15, <2>4, <2>5, <2>6 DEF Settle
<1> QED
  BY <1>6, <1>7, <1>8, <1>9, <1>10, <1>12, <1>13, <1>14, <1>15
     DEF ThreadStep, CallStep

(* So it keeps the budget of every task: the rows it changes it has in     *)
(* hand, and nobody else has them unless they are marked.                  *)
LEMMA ThreadKeepsBudget ==
  ASSUME TypeOK, TypeOK', Crew, Budget, NEW th \in Threads, ThreadStep(th)
  PROVE  Budget'
<1>1. RowsCounted /\ AbandonedShare /\ \A o \in Threads : HeldIsCounted(o)
  BY DEF Budget
<1>2. /\ shared \subseteq shared'
      /\ \A o \in Threads \ {th} :
            pc'[o] = pc[o] /\ held'[o] = held[o] /\ seen'[o] = seen[o]
      /\ \A t \in Task \ InHand(th) :
            status'[t] = status[t] /\ attempt'[t] = attempt[t] /\ dials'[t] = dials[t]
      /\ Alive(th)
  BY ThreadStepIsLocal
<1>3. RowsCounted'
  BY <1>1, <1>2, ThreadCounts DEF RowsCounted
<1>4. HeldIsCounted(th)'
  BY <1>1, ThreadCounts
<1>5. ASSUME NEW o \in Threads \ {th} PROVE HeldIsCounted(o)'
  <2>1. CASE pc[o] \notin HasTask
    BY <1>2, <2>1 DEF HeldIsCounted, HeldIsCurrent, NextIsCounted, HasTask, Handling
  <2>2. CASE pc[o] \in HasTask /\ held[o] \in shared
    BY <1>2, <2>2 DEF HeldIsCounted
  <2>3. CASE pc[o] \in HasTask /\ held[o] \notin shared
    <3>1. held[o] \in Task /\ held[o] \in InHand(o) /\ Alive(o)
      BY <2>3, HeldInHand
    <3>2. held[o] \notin InHand(th)
      BY <1>1, <1>2, <2>3, <3>1, OneHand
    <3> QED
      BY <1>1, <1>2, <2>3, <3>1, <3>2 DEF HeldIsCounted, HeldIsCurrent, NextIsCounted
  <2> QED
    BY <2>1, <2>2, <2>3
<1> QED
  BY <1>1, <1>3, <1>4, <1>5, AbandonedStep DEF Budget

(* A manual requeue resets a task nobody holds and its budget with it, or  *)
(* it marks the task.                                                      *)
LEMMA RequeueKeepsBudget ==
  ASSUME TypeOK, Budget, NEW r \in Requests, RequeueApply(r)
  PROVE  Budget'
<1> USE DEF worker, job, rows
<1> DEFINE q == req[r]
           t == q.task
<1>1. /\ status \in [Task -> Status] /\ attempt \in [Task -> Nat]
      /\ dials \in [Task -> Nat] /\ held \in [Threads -> Task \cup {NoTask}]
      /\ \A th \in Threads : pc[th] \in HasTask => held[th] \in Task
      /\ t \in Task
  BY CallWorkerAssumption DEF TypeOK, RowsOK, WorkerOK, RestOK, RequeueApply
<1>2. UNCHANGED <<pc, held, seen, found, abandoned>>
  BY DEF RequeueApply
<1>3. RowsCounted /\ AbandonedShare /\ \A th \in Threads : HeldIsCounted(th)
  BY DEF Budget
<1>4. CASE UNCHANGED <<status, attempt, dials, shared>>
  BY <1>2, <1>3, <1>4 DEF Budget, RowsCounted, AbandonedShare, InHand, HeldIsCounted,
     HeldIsCurrent, NextIsCounted
<1>5. CASE /\ q.status \notin ActiveStatus
           /\ status' = [status EXCEPT ![t] = "queued"]
           /\ attempt' = [attempt EXCEPT ![t] = IF q.attempt = 1 THEN @ ELSE 1]
           /\ dials' = [dials EXCEPT ![t] = 0]
           /\ shared' = IF Overtaken(q) THEN shared \cup {t} ELSE shared
  <2>1. AbandonedShare'
    BY <1>2, <1>3, <1>5 DEF AbandonedShare, InHand
  <2>2. 0 < attempt'[t]
    BY <1>1, <1>5, CallWorkerAssumption DEF TypeOK, RowsOK
  <2>3. RowsCounted'
    BY <1>1, <1>3, <1>5, <2>2 DEF RowsCounted
  <2>4. ASSUME NEW th \in Threads PROVE HeldIsCounted(th)'
    <3>1. HeldIsCounted(th)
      BY <1>3
    <3>2. CASE pc[th] \in HasTask /\ held[th] \notin shared'
      <4>1. held[th] \in Task /\ held[th] \notin shared
        BY <1>1, <1>5, <3>2
      <4>2. status[held[th]] \in ActiveStatus
        BY <3>1, <3>2, <4>1 DEF HeldIsCounted, HeldIsCurrent, HasTask, ActiveStatus,
           InProgress
      <4>3. held[th] # t
        BY <1>5, <3>2, <4>2 DEF Overtaken
      <4> QED
        BY <1>1, <1>2, <1>5, <3>1, <4>1, <4>3 DEF HeldIsCounted, HeldIsCurrent,
           NextIsCounted
    <3>3. CASE pc[th] \notin HasTask
      BY <1>2, <3>3 DEF HeldIsCounted, HeldIsCurrent, NextIsCounted, HasTask, Handling
    <3>4. CASE held[th] \in shared'
      BY <1>2, <3>4 DEF HeldIsCounted
    <3> QED
      BY <3>2, <3>3, <3>4
  <2> QED
    BY <2>1, <2>3, <2>4 DEF Budget
<1> QED
  BY <1>4, <1>5 DEF RequeueApply, RequeueWrite

(* Every step keeps the budget. *)
LEMMA BudgetStep ==
  ASSUME TypeOK, TypeOK', Crew, Budget, [Next]_vars
  PROVE  Budget'
<1> USE DEF service, flags, request, rows, job, worker, marks
<1>0. RowsCounted /\ AbandonedShare /\ \A th \in Threads : HeldIsCounted(th)
  BY DEF Budget
<1>1. ASSUME UNCHANGED <<status, attempt, dials, pc, held, seen, found, shared,
                         abandoned>>
      PROVE  Budget'
  BY <1>1 DEF Budget, RowsCounted, AbandonedShare, InHand, HeldIsCounted,
     HeldIsCurrent, NextIsCounted
<1>2. ASSUME NEW t \in Task, Enqueue(t) PROVE Budget'
  <2>1. /\ status \in [Task -> Status]
        /\ \A th \in Threads : pc[th] \in HasTask => held[th] \in Task
    BY DEF TypeOK, RowsOK, WorkerOK
  <2>2. /\ status[t] = "absent" /\ status' = [status EXCEPT ![t] = "queued"]
        /\ UNCHANGED <<attempt, dials, pc, held, seen, found, shared, abandoned>>
    BY <1>2 DEF Enqueue
  <2>3. RowsCounted' /\ AbandonedShare'
    BY <1>0, <2>1, <2>2 DEF RowsCounted, AbandonedShare, InHand
  <2>4. ASSUME NEW th \in Threads PROVE HeldIsCounted(th)'
    <3>1. HeldIsCounted(th)
      BY <1>0
    <3>2. pc[th] \in HasTask /\ held[th] \notin shared => held[th] # t /\ held[th] \in Task
      BY <2>1, <2>2, <3>1 DEF HeldIsCounted, HeldIsCurrent, HasTask, InProgress
    <3> QED
      BY <2>1, <2>2, <3>1, <3>2 DEF HeldIsCounted, HeldIsCurrent, NextIsCounted,
         HasTask, Handling
  <2> QED
    BY <2>3, <2>4 DEF Budget
<1>3. ASSUME NEW t \in Task, NetworkReleases(t) PROVE Budget'
  BY <1>1, <1>3 DEF NetworkReleases
<1>4. CASE Tick
  BY <1>1, <1>4 DEF Tick
<1>5. CASE Boot \/ SwitchOn
  <2>1. UNCHANGED <<status, attempt, dials, held, seen, found, shared, abandoned>> /\ Start
    BY <1>5 DEF Boot, SwitchOn
  <2>2. \A th \in Threads : pc'[th] = pc[th] \/ pc'[th] = "top"
    BY <2>1 DEF Start, Goto, TypeOK, WorkerOK
  <2>3. AbandonedShare' /\ RowsCounted'
    BY <1>0, <2>1 DEF AbandonedShare, InHand, RowsCounted
  <2> QED
    BY <1>0, <2>1, <2>2, <2>3 DEF Budget, HeldIsCounted, HeldIsCurrent,
       NextIsCounted, Handling, InCall
<1>6. CASE Stop("join") \/ Stop("exit") \/ SaveSwitch
  BY <1>1, <1>6 DEF Stop, SaveSwitch
<1>7. CASE SwitchOffJoined
  <2>1. /\ UNCHANGED <<status, attempt, dials, pc, held, seen, found>>
        /\ \/ UNCHANGED <<abandoned, shared>>
           \/ \E th \in Threads : /\ abandoned' = abandoned \cup {th}
                                  /\ shared' = shared \cup InHand(th)
    BY <1>7 DEF SwitchOffJoined
  <2>2. AbandonedShare'
    BY <1>0, <2>1 DEF AbandonedShare, InHand
  <2>3. shared \subseteq shared'
    BY <2>1
  <2>4. RowsCounted'
    BY <1>0, <2>1, <2>3 DEF RowsCounted
  <2>5. ASSUME NEW th \in Threads PROVE HeldIsCounted(th)'
    BY <1>0, <2>1, <2>3 DEF HeldIsCounted, HeldIsCurrent, NextIsCounted
  <2> QED
    BY <2>2, <2>4, <2>5 DEF Budget
<1>8. CASE ShutdownJoined \/ Crash
  <2>1. ProcessEnds
    BY <1>8 DEF ShutdownJoined, Crash
  <2>2. \A th \in Threads : pc'[th] = "off"
    BY <2>1 DEF ProcessEnds
  <2>3. RowsCounted' /\ AbandonedShare'
    BY <1>0, <2>1 DEF ProcessEnds, RowsCounted, AbandonedShare
  <2> QED
    BY <2>2, <2>3 DEF Budget, HeldIsCounted, HeldIsCurrent, NextIsCounted, Handling,
       InCall
<1>9. ASSUME NEW th \in Threads, ThreadStep(th) PROVE Budget'
  BY <1>9, ThreadKeepsBudget
<1>10. ASSUME NEW r \in Requests, RequeueApply(r) PROVE Budget'
  BY <1>10, RequeueKeepsBudget
<1>11. ASSUME NEW r \in Requests, NEW t \in Task, RequeueLoad(r, t) PROVE Budget'
  BY <1>1, <1>11 DEF RequeueLoad
<1>12. CASE UNCHANGED vars
  BY <1>1, <1>12 DEF vars
<1> QED
  BY <1>2, <1>3, <1>4, <1>5, <1>6, <1>7, <1>8, <1>9, <1>10, <1>11, <1>12
     DEF Next, ServiceStep

(* The inductive invariant behind the next two theorems.                   *)
THEOREM BudgetAlways == Spec => []Budget
<1>1. Init => Budget
  BY DEF Init, Budget, RowsCounted, AbandonedShare, HeldIsCounted, HeldIsCurrent,
     NextIsCounted, Handling, InCall
<1> QED
  BY <1>1, BudgetStep, TypeCorrect, CrewAlways, PTL DEF Spec

(* Whoever settles a call still holds the row it claimed, unless the task  *)
(* was in two hands, for any number of tasks, threads, requests and        *)
(* disturbances, crashes and joins that give up included.                  *)
THEOREM HeldRowStaysCurrent == Spec => []HeldRowIsCurrent
<1>1. Budget => HeldRowIsCurrent
  BY DEF Budget, HeldIsCounted, HeldRowIsCurrent
<1> QED
  BY <1>1, BudgetAlways, PTL

(* Between two (re)queueings a customer is dialled at most MaxAttempts     *)
(* times, whatever fails, crashes or is switched in between, unless the    *)
(* task was in two hands.                                                  *)
THEOREM RedialsAreBounded == Spec => []RedialBudget
<1>1. TypeOK /\ Budget => RedialBudget
  BY CallWorkerAssumption DEF TypeOK, RowsOK, Budget, RowsCounted, RedialBudget
<1> QED
  BY <1>1, TypeCorrect, BudgetAlways, PTL
=============================================================================
