--------------------------- MODULE LifecycleProofs ---------------------------
(***************************************************************************)
(* Proofs that the pipeline of CallWorker implements TaskLifecycle, that   *)
(* no call in progress is left without an owner and that the modem carries *)
(* one call at a time.  They rest on the invariants of CallWorkerProofs    *)
(* and on one more, Phases: what a thread is about to write fits the row   *)
(* it holds.                                                               *)
(***************************************************************************)
EXTENDS CallWorkerProofs

(* Where a thread is in a call tells the status of the row, and how the    *)
(* call ended can be written over that status.                             *)
Fits(th) ==
    /\ pc[th] \in {"handle", "ringing"} => status[held[th]] = "dialing"
    /\ pc[th] = "talking" => status[held[th]] = "connected"
    /\ pc[th] = "settle" /\ status[held[th]] = "connected" =>
          /\ verdict[th].status \in {"short_call", "completed", "failed"}
    /\ pc[th] = "settle" /\ status[held[th]] = "dialing" =>
          /\ verdict[th].status \notin {"short_call", "completed"}
          /\ verdict[th].retry \/ verdict[th].status \in {"rejected", "failed"}

(* What a recovery pass has found is still all that is in progress. *)
FoundIsStale(th) ==
    pc[th] = "recovering" =>
        \A t \in Task \ shared : t \in found[th] <=> status[t] \in InProgress

(* Nothing that was not enqueued is in anybody's hand. *)
Present ==
    /\ \A th \in Threads : \A t \in InHand(th) : status[t] # "absent"
    /\ \A r \in Requests :
          req[r].pc = "loaded" => /\ req[r].status # "absent"
                                  /\ status[req[r].task] # "absent"

Phases ==
    /\ \A th \in Threads : held[th] \notin shared => Fits(th)
    /\ \A th \in Threads \ abandoned : FoundIsStale(th)
    /\ Present
-----------------------------------------------------------------------------
(* A thread's step keeps what its own phase says of the task it holds.     *)
LEMMA ThreadFits ==
  ASSUME TypeOK, NEW th \in Threads, ThreadStep(th),
         held[th] \notin shared => HeldIsCurrent(th) /\ Fits(th)
  PROVE  held'[th] \notin shared' => Fits(th)'
<1> USE DEF service, flags, request, rows, job, worker, marks
<1>1. /\ status \in [Task -> Status] /\ pc \in [Threads -> Labels]
      /\ held \in [Threads -> Task \cup {NoTask}]
      /\ verdict \in [Threads -> [status : Outcome, retry : BOOLEAN]]
      /\ pc[th] \in HasTask => held[th] \in Task
  BY DEF TypeOK, RowsOK, WorkerOK
<1>2. ASSUME NEW l \in {"off", "top", "recover", "recovering", "sms", "claim", "claimed"},
             Goto(th, l)
      PROVE  Fits(th)'
  BY <1>1, <1>2 DEF Goto, Fits
<1>3. CASE LoopTop(th) \/ SmsBatchEnds(th) \/ ClaimRead(th) \/ RecoverCommit(th)
           \/ Settle(th) \/ RecoverRead(th)
  BY <1>2, <1>3 DEF LoopTop, SmsBatchEnds, ClaimRead, RecoverCommit, RecoverRead,
     Settle, AfterRecovery
<1>4. CASE ClaimCommit(th)
  <2>1. CASE /\ Goto(th, "handle") /\ UNCHANGED held
             /\ status' = [status EXCEPT ![held[th]] = "dialing"]
    BY <1>1, <1>4, <2>1 DEF ClaimCommit, Goto, Fits, HasTask
  <2> QED
    BY <1>2, <1>4, <2>1 DEF ClaimCommit
<1>5. ASSUME pc[th] \in {"handle", "ringing", "talking"},
             UNCHANGED <<status, held, shared>>,
             pc' = [pc EXCEPT ![th] = "settle"],
             NEW s \in Outcome, NEW b \in BOOLEAN,
             verdict' = [verdict EXCEPT ![th] = [status |-> s, retry |-> b]],
             IF pc[th] = "talking" THEN s \in {"short_call", "completed", "failed"}
             ELSE /\ s \notin {"short_call", "completed"}
                  /\ b \/ s \in {"rejected", "failed"}
      PROVE  held'[th] \notin shared' => Fits(th)'
  BY <1>1, <1>5 DEF Fits
<1>6. CASE Dial(th)
  <2>1. ASSUME NEW b \in BOOLEAN, Ends(th, "failed", b)
        PROVE  held'[th] \notin shared' => Fits(th)'
    BY <1>5, <1>6, <2>1 DEF Dial, Ends, Goto, Outcome
  <2>2. CASE Goto(th, "ringing")
    BY <1>1, <1>6, <2>2 DEF Dial, Goto, Fits
  <2> QED
    BY <1>6, <2>1, <2>2 DEF Dial
<1>7. CASE RingEnds(th)
  <2>1. \/ Ends(th, "rejected", FALSE)
        \/ \E s \in {"cancelled_or_failed", "no_answer", "busy", "failed"} :
              Ends(th, s, TRUE)
    BY <1>7 DEF RingEnds
  <2> QED
    BY <1>5, <1>7, <2>1 DEF RingEnds, Ends, Goto, Outcome
<1>8. CASE Answered(th)
  <2>1. CASE /\ Goto(th, "talking") /\ UNCHANGED held
             /\ status' = [status EXCEPT ![held[th]] = "connected"]
    BY <1>1, <1>8, <2>1 DEF Answered, Goto, Fits, HasTask, Handling, InCall
  <2> QED
    BY <1>2, <1>8, <2>1 DEF Answered
<1>9. CASE TalkEnds(th)
  <2>1. \E s \in {"short_call", "completed", "failed"}, b \in BOOLEAN :
           EndsExpired(th, s, b)
    BY <1>9 DEF TalkEnds
  <2> QED
    BY <1>5, <1>9, <2>1 DEF TalkEnds, EndsExpired, Goto, Outcome
<1> QED
  BY <1>3, <1>4, <1>6, <1>7, <1>8, <1>9 DEF ThreadStep, CallStep

(* A thread makes a task in progress only by handling it, and takes into   *)
(* its hand only what is in a queue or in progress.                        *)
LEMMA ThreadPresent ==
  ASSUME TypeOK, NEW th \in Threads, ThreadStep(th), Present
  PROVE  Present'
<1> USE DEF service, flags, request, rows, job, worker, marks
<1>1. /\ status \in [Task -> Status] /\ held \in [Threads -> Task \cup {NoTask}]
      /\ found \in [Threads -> SUBSET Task] /\ pc \in [Threads -> Labels]
      /\ verdict[th].status \in Outcome
      /\ \A r \in Requests : req[r].pc = "loaded" => req[r].task \in Task
  BY DEF TypeOK, RowsOK, WorkerOK, RestOK
<1>2. UNCHANGED req
  BY ThreadStepIsLocal
<1>3. \A t \in Task : status[t] # "absent" => status'[t] # "absent"
  <2>1. CASE UNCHANGED status
    BY <2>1
  <2>2. CASE \E t : status' = [status EXCEPT ![t] = "dialing"]
    BY <1>1, <2>2
  <2>3. CASE Answered(th)
    BY <1>1, <2>3 DEF Answered
  <2>4. CASE Settle(th)
    BY <1>1, <2>4 DEF Settle, Outcome
  <2>5. CASE RecoverCommit(th)
    BY <1>1, <2>5 DEF RecoverCommit
  <2>6. ASSUME ~(Answered(th) \/ Settle(th) \/ RecoverCommit(th))
        PROVE  \/ UNCHANGED status
               \/ \E t : status' = [status EXCEPT ![t] = "dialing"]
    BY <2>6 DEF ThreadStep, CallStep, LoopTop, RecoverRead, SmsBatchEnds, ClaimRead,
       ClaimCommit, Dial, RingEnds, TalkEnds
  <2> QED
    BY <2>1, <2>2, <2>3, <2>4, <2>5, <2>6
<1>4. \A o \in Threads : InHand(o) \subseteq Task
  BY <1>1 DEF InHand
<1>5. ASSUME NEW o \in Threads \ {th} PROVE InHand(o)' = InHand(o)
  BY ThreadStepIsLocal DEF InHand
<1>6. ASSUME NEW t \in InHand(th)' PROVE t \in Task /\ status[t] # "absent"
  <2>1. CASE t \in InHand(th)
    BY <1>4, <2>1 DEF Present
  <2>2. CASE ClaimRead(th)
    BY <1>1, <1>6, <2>1, <2>2 DEF ClaimRead, Claimable, InHand, Present
  <2>3. CASE RecoverRead(th)
    BY <1>1, <1>6, <2>1, <2>3 DEF RecoverRead, Stale, InProgress, InHand, Present
  <2>4. CASE ClaimCommit(th) \/ RecoverCommit(th) \/ Answered(th) \/ Settle(th)
    BY <1>1, <1>6, <2>1, <2>4 DEF ClaimCommit, RecoverCommit, Answered, Settle, LetsGo,
       InHand
  <2>5. CASE UNCHANGED <<held, found>>
    BY <1>6, <2>1, <2>5 DEF InHand
  <2>6. ASSUME ~(ClaimRead(th) \/ RecoverRead(th) \/ ClaimCommit(th)
                 \/ RecoverCommit(th) \/ Answered(th) \/ Settle(th))
        PROVE  UNCHANGED <<held, found>>
    BY <2>6 DEF ThreadStep, CallStep, LoopTop, SmsBatchEnds, Dial, RingEnds, TalkEnds
  <2> QED
    BY <2>2, <2>3, <2>4, <2>5, <2>6
<1> QED
  BY <1>1, <1>2, <1>3, <1>4, <1>5, <1>6 DEF Present

(* A thread's step changes what is in progress only in the rows it has in  *)
(* hand, so that a recovery pass of another thread is not disturbed in     *)
(* what it has found of the tasks in one hand.                             *)
LEMMA ThreadFinds ==
  ASSUME TypeOK, Crew, Budget, NEW th \in Threads, ThreadStep(th),
         \A o \in Threads \ abandoned : FoundIsStale(o)
  PROVE  \A o \in Threads \ abandoned' : FoundIsStale(o)'
<1> USE DEF service, flags, request, rows, job, worker, marks
<1>1. /\ Alive(th) /\ shared \subseteq shared'
      /\ abandoned' = IF pc'[th] = "off" THEN abandoned \ {th} ELSE abandoned
      /\ \A o \in Threads \ {th} : pc'[o] = pc[o] /\ found'[o] = found[o]
      /\ \A t \in Task \ InHand(th) : status'[t] = status[t]
  BY ThreadStepIsLocal
<1>2. ASSUME NEW o \in Threads \ abandoned', o # th, pc'[o] = "recovering"
      PROVE  FoundIsStale(o)'
  <2>1. o \notin abandoned /\ Alive(o)
    BY <1>1, <1>2 DEF Alive
  <2>2. th \in abandoned
    BY <1>1, <1>2, <2>1, OneIsNotAbandoned
  <2>3. InHand(th) \subseteq shared
    BY <2>2 DEF Budget, AbandonedShare
  <2> QED
    BY <1>1, <1>2, <2>1, <2>3 DEF FoundIsStale
<1>3. ASSUME pc'[th] = "recovering" PROVE FoundIsStale(th)'
  <2>1. pc \in [Threads -> Labels] /\ found \in [Threads -> SUBSET Task]
    BY DEF TypeOK, WorkerOK
  <2>2. RecoverRead(th)
    BY <1>3, <2>1 DEF ThreadStep, CallStep, LoopTop, AfterRecovery, RecoverCommit,
       SmsBatchEnds, ClaimRead, ClaimCommit, Dial, RingEnds, Answered, TalkEnds, Settle,
       Ends, EndsExpired, Goto
  <2>3. found' = [found EXCEPT ![th] = Stale] /\ UNCHANGED status
    BY <1>3, <2>1, <2>2 DEF RecoverRead, AfterRecovery, Goto
  <2> QED
    BY <2>1, <2>3 DEF FoundIsStale, Stale
<1> QED
  BY <1>2, <1>3 DEF FoundIsStale

LEMMA ThreadPhases ==
  ASSUME TypeOK, Crew, Budget, Phases, NEW th \in Threads, ThreadStep(th)
  PROVE  Phases'
<1>1. /\ \A o \in Threads : HeldIsCounted(o) /\ (held[o] \notin shared => Fits(o))
      /\ AbandonedShare /\ Present
      /\ \A o \in Threads \ abandoned : FoundIsStale(o)
  BY DEF Budget, Phases
<1>2. held'[th] \notin shared' => Fits(th)'
  BY <1>1, ThreadFits DEF HeldIsCounted
<1>3. /\ shared \subseteq shared' /\ Alive(th)
      /\ \A o \in Threads \ {th} :
            pc'[o] = pc[o] /\ held'[o] = held[o] /\ verdict'[o] = verdict[o]
      /\ \A t \in Task \ InHand(th) : status'[t] = status[t]
  BY ThreadStepIsLocal
<1>4. ASSUME NEW o \in Threads \ {th}, held[o] \notin shared' PROVE Fits(o)'
  <2>1. CASE pc[o] \notin HasTask
    BY <1>3, <2>1 DEF Fits, HasTask, Handling, InCall
  <2>2. CASE pc[o] \in HasTask
    <3>1. held[o] \in Task /\ held[o] \in InHand(o) /\ Alive(o)
      BY <2>2, HeldInHand
    <3>2. held[o] \notin InHand(th)
      BY <1>1, <1>3, <1>4, <3>1, OneHand
    <3> QED
      BY <1>1, <1>3, <1>4, <3>1, <3>2 DEF Fits
  <2> QED
    BY <2>1, <2>2
<1> QED
  BY <1>1, <1>2, <1>3, <1>4, ThreadFinds, ThreadPresent DEF Phases

(* What the steps of everyone but a worker thread come to: nothing the     *)
(* life cycle sees, a start, the end of the process, tasks that get into   *)
(* two hands, or a row that is put into the queue.                         *)
Rests ==
    /\ UNCHANGED <<status, attempt, dials, pc, held, verdict, found, recovered, shared,
                   abandoned, unsaved>>
    /\ live' \subseteq live /\ unhung' = unhung \cap live'

Starts ==
    /\ UNCHANGED <<status, attempt, dials, live, held, verdict, found, shared, abandoned,
                   unsaved, unhung, req>>
    /\ recovered' = FALSE
    /\ \A th \in Threads : pc'[th] = pc[th] \/ (pc[th] = "off" /\ pc'[th] = "top")

Stops ==
    /\ UNCHANGED <<status, attempt, dials, live, shared, unsaved, unhung>>
    /\ recovered' = FALSE /\ abandoned' = {}
    /\ \A th \in Threads : pc'[th] = "off" /\ InHand(th)' = {}
    /\ \A r \in Requests : req'[r].pc # "loaded"

GivesUp(th) ==
    /\ UNCHANGED <<status, attempt, dials, pc, held, verdict, found, recovered, live,
                   unsaved, unhung, req>>
    /\ abandoned' = abandoned \cup {th}
    /\ shared' = shared \cup InHand(th)

Queues(t) ==
    /\ \A u \in Task \ {t} : /\ status'[u] = status[u] /\ attempt'[u] = attempt[u]
                             /\ ~(dials'[u] > dials[u])
    /\ status'[t] = "queued" /\ ~(dials'[t] > dials[t])
    /\ UNCHANGED <<pc, held, verdict, found, recovered, live, abandoned, unsaved, unhung>>
    /\ \/ /\ status[t] = "absent" /\ UNCHANGED <<shared, attempt>>
       \/ /\ status[t] \in Outcome /\ attempt'[t] = 1 /\ UNCHANGED shared
       \/ /\ status[t] # "absent" /\ shared' = shared \cup {t}

(* A request queues its row with a first attempt or marks it. *)
LEMMA RequeueQueues ==
  ASSUME TypeOK, Present, NEW r \in Requests, RequeueApply(r)
  PROVE  Rests \/ \E t \in Task : Queues(t)
<1> DEFINE q == req[r]
           t == q.task
<1>1. /\ status \in [Task -> Status] /\ attempt \in [Task -> Nat]
      /\ dials \in [Task -> Nat] /\ t \in Task
      /\ q.status # "absent" /\ status[t] # "absent" /\ q.status \in Status
      /\ unhung \subseteq live
  BY CallWorkerAssumption DEF TypeOK, RowsOK, RestOK, MarksOK, RequeueApply, Present
<1>2. UNCHANGED <<pc, held, verdict, found, recovered, live, abandoned, unsaved, unhung>>
  BY DEF RequeueApply, service, flags, worker, job
<1>3. CASE UNCHANGED <<rows, shared>>
  BY <1>1, <1>2, <1>3 DEF Rests, rows
<1>4. CASE /\ q.status \notin ActiveStatus
           /\ status' = [status EXCEPT ![t] = "queued"]
           /\ attempt' = [attempt EXCEPT ![t] = IF q.attempt = 1 THEN @ ELSE 1]
           /\ dials' = [dials EXCEPT ![t] = 0]
           /\ shared' = IF Overtaken(q) THEN shared \cup {t} ELSE shared
  <2>1. /\ \A u \in Task \ {t} : /\ status'[u] = status[u] /\ attempt'[u] = attempt[u]
                                 /\ ~(dials'[u] > dials[u])
        /\ status'[t] = "queued" /\ ~(dials'[t] > dials[t])
    BY <1>1, <1>4
  <2>2. CASE Overtaken(q)
    BY <1>1, <1>2, <1>4, <2>1, <2>2 DEF Queues
  <2>3. CASE ~Overtaken(q)
    <3>1. status[t] \in Outcome /\ attempt'[t] = 1
      BY <1>1, <1>4, <2>3 DEF Overtaken, Status, ActiveStatus
    <3> QED
      BY <1>1, <1>2, <1>4, <2>1, <2>3, <3>1 DEF Queues
  <2> QED
    BY <2>2, <2>3
<1> QED
  BY <1>3, <1>4 DEF RequeueApply, RequeueWrite, rows

LEMMA Kinds ==
  ASSUME TypeOK, Crew, Present, [Next]_vars
  PROVE  \/ \E th \in Threads : ThreadStep(th)
         \/ Rests \/ Starts \/ Stops
         \/ \E th \in Threads : GivesUp(th)
         \/ \E t \in Task : Queues(t)
<1> USE DEF service, flags, request, rows, job, worker, marks
<1>0. unhung \subseteq live
  BY DEF TypeOK, MarksOK
<1>1. ASSUME NEW t \in Task, Enqueue(t) PROVE Queues(t)
  <2>1. /\ status[t] = "absent" /\ status' = [status EXCEPT ![t] = "queued"]
        /\ UNCHANGED <<attempt, dials, pc, held, verdict, found, recovered, live, shared,
                       abandoned, unsaved, unhung>>
    BY <1>1 DEF Enqueue
  <2>2. status \in [Task -> Status] /\ dials \in [Task -> Nat]
    BY DEF TypeOK, RowsOK
  <2> QED
    BY <2>1, <2>2 DEF Queues
<1>2. ASSUME NEW t \in Task, NetworkReleases(t) PROVE Rests
  BY <1>2 DEF NetworkReleases, StaysUp, Rests
<1>3. CASE Tick
  BY <1>0, <1>3 DEF Tick, Rests
<1>4. CASE Boot \/ SwitchOn
  <2>1. /\ UNCHANGED <<status, attempt, dials, held, verdict, found, live, shared,
                       abandoned, unsaved, unhung, req>>
        /\ Start
    BY <1>4 DEF Boot, SwitchOn
  <2>2. CASE UNCHANGED <<flags, pc>>
    BY <1>0, <2>1, <2>2 DEF Rests
  <2>3. ASSUME NEW th \in Threads, ~Alive(th), Goto(th, "top"), recovered' = FALSE
        PROVE  Starts
    <3>1. pc \in [Threads -> Labels]
      BY DEF TypeOK, WorkerOK
    <3> QED
      BY <2>1, <2>3, <3>1 DEF Starts, Alive, Goto
  <2> QED
    BY <2>1, <2>2, <2>3 DEF Start
<1>5. CASE Stop("join") \/ Stop("exit") \/ SaveSwitch
  BY <1>0, <1>5 DEF Stop, SaveSwitch, Rests
<1>6. CASE SwitchOffJoined
  <2>1. CASE UNCHANGED <<abandoned, shared>>
    BY <1>0, <1>6, <2>1 DEF SwitchOffJoined, Rests
  <2>2. ASSUME NEW th \in Threads, abandoned' = abandoned \cup {th},
               shared' = shared \cup InHand(th)
        PROVE  GivesUp(th)
    BY <1>6, <2>2 DEF SwitchOffJoined, GivesUp
  <2> QED
    BY <1>6, <2>1, <2>2 DEF SwitchOffJoined
<1>7. CASE ShutdownJoined \/ Crash
  <2>1. ProcessEnds
    BY <1>7 DEF ShutdownJoined, Crash
  <2>2. \A th \in Threads : pc'[th] = "off" /\ InHand(th)' = {}
    BY <2>1 DEF ProcessEnds, InHand
  <2>3. \A r \in Requests : req'[r].pc # "loaded"
    BY <2>1 DEF ProcessEnds, Request
  <2> QED
    BY <2>1, <2>2, <2>3 DEF ProcessEnds, Stops
<1>8. ASSUME NEW r \in Requests, RequeueApply(r)
      PROVE  Rests \/ \E t \in Task : Queues(t)
  BY <1>8, RequeueQueues
<1>9. ASSUME NEW r \in Requests, NEW t \in Task, RequeueLoad(r, t) PROVE Rests
  BY <1>0, <1>9 DEF RequeueLoad, Rests
<1>10. CASE UNCHANGED vars
  BY <1>0, <1>10 DEF vars, Rests
<1> QED
  BY <1>1, <1>2, <1>3, <1>4, <1>5, <1>6, <1>7, <1>8, <1>9, <1>10
     DEF Next, ServiceStep

(* Nobody's step puts an absent task into a hand or a request. *)
LEMMA PresentStep ==
  ASSUME TypeOK, Crew, Present, [Next]_vars
  PROVE  Present'
<1>1. ASSUME NEW th \in Threads, ThreadStep(th) PROVE Present'
  BY <1>1, ThreadPresent
<1>2. /\ status \in [Task -> Status] /\ held \in [Threads -> Task \cup {NoTask}]
      /\ found \in [Threads -> SUBSET Task]
      /\ \A th \in Threads : InHand(th) \subseteq Task
      /\ \A r \in Requests : req[r].pc = "loaded" => req[r].task \in Task
  BY DEF TypeOK, RowsOK, WorkerOK, RestOK, InHand
<1>3. ASSUME NEW r \in Requests, NEW t \in Task, RequeueLoad(r, t) PROVE Present'
  <2>1. /\ req' = [req EXCEPT ![r] = Request("loaded", t)] /\ status[t] # "absent"
        /\ UNCHANGED <<status, held, found>>
    BY <1>3 DEF RequeueLoad, rows, worker, job
  <2>2. Request("loaded", t).task = t /\ Request("loaded", t).status = status[t]
    BY DEF Request, Task, NoTask
  <2>3. \A s \in Requests : req'[s] = IF s = r THEN Request("loaded", t) ELSE req[s]
    BY <2>1 DEF TypeOK, RestOK
  <2> QED
    BY <1>2, <2>1, <2>2, <2>3 DEF Present, InHand
<1>4. ASSUME NEW r \in Requests, RequeueApply(r) PROVE Present'
  <2>1. /\ req' = [req EXCEPT ![r] = Request("done", NoTask)]
        /\ UNCHANGED <<held, found>>
    BY <1>4 DEF RequeueApply, worker, job
  <2>2. Request("done", NoTask).pc = "done"
    BY DEF Request
  <2>3. \A s \in Requests : req'[s] = IF s = r THEN Request("done", NoTask) ELSE req[s]
    BY <2>1 DEF TypeOK, RestOK
  <2>4. \A t \in Task : status[t] # "absent" => status'[t] # "absent"
    BY <1>2, <1>4 DEF RequeueApply, RequeueWrite, rows
  <2> QED
    BY <1>2, <2>1, <2>2, <2>3, <2>4 DEF Present, InHand
<1>5. CASE Stops
  BY <1>5 DEF Stops, Present
<1>6. ASSUME UNCHANGED <<held, found, req>>,
             \A t \in Task : status[t] # "absent" => status'[t] # "absent"
      PROVE  Present'
  BY <1>2, <1>6 DEF Present, InHand
<1>7. CASE Starts \/ \E th \in Threads : GivesUp(th)
  BY <1>6, <1>7 DEF Starts, GivesUp
<1>8. ASSUME NEW t \in Task, Enqueue(t) \/ NetworkReleases(t) PROVE Present'
  BY <1>2, <1>6, <1>8 DEF Enqueue, NetworkReleases, rows, worker, job
<1>9. CASE Tick \/ Stop("join") \/ Stop("exit") \/ SaveSwitch \/ SwitchOffJoined
           \/ Boot \/ SwitchOn \/ UNCHANGED vars
  BY <1>6, <1>9 DEF Tick, Stop, SaveSwitch, SwitchOffJoined, Boot, SwitchOn, vars,
     rows, worker, job
<1>10. CASE ShutdownJoined \/ Crash
  <2>1. /\ \A th \in Threads : InHand(th)' = {}
        /\ \A r \in Requests : req'[r].pc # "loaded"
    BY <1>10 DEF ShutdownJoined, Crash, ProcessEnds, InHand, Request
  <2> QED
    BY <2>1 DEF Present
<1> QED
  BY <1>1, <1>3, <1>4, <1>8, <1>9, <1>10 DEF Next, ServiceStep

LEMMA PhasesStep ==
  ASSUME TypeOK, Crew, Budget, Phases, [Next]_vars
  PROVE  Phases'
<1>0. /\ \A th \in Threads : held[th] \notin shared => HeldIsCurrent(th) /\ Fits(th)
      /\ \A th \in Threads \ abandoned : FoundIsStale(th)
      /\ Present
      /\ status \in [Task -> Status]
      /\ \A th \in Threads : pc[th] \in HasTask => held[th] \in Task
      /\ shared \subseteq Task
  BY DEF Budget, HeldIsCounted, Phases, TypeOK, RowsOK, WorkerOK, MarksOK
<1> DEFINE Q == /\ \A th \in Threads : held[th] \notin shared => Fits(th)
                /\ \A th \in Threads \ abandoned : FoundIsStale(th)
<1>1. ASSUME NEW th \in Threads, ThreadStep(th) PROVE Phases'
  BY <1>1, ThreadPhases
<1>2. ASSUME Rests PROVE Q'
  BY <1>0, <1>2 DEF Rests, Fits, FoundIsStale
<1>3. ASSUME Starts PROVE Q'
  BY <1>0, <1>3 DEF Starts, Fits, FoundIsStale
<1>4. ASSUME Stops PROVE Q'
  BY <1>4 DEF Stops, Fits, FoundIsStale
<1>5. ASSUME NEW th \in Threads, GivesUp(th) PROVE Q'
  BY <1>0, <1>5 DEF GivesUp, Fits, FoundIsStale
<1>6. ASSUME NEW t \in Task, Queues(t) PROVE Q'
  <2>1. t \notin shared' => status[t] \notin InProgress
    BY <1>0, <1>6 DEF Queues, Outcome, InProgress
  <2>2. shared \subseteq shared' /\ status'[t] \notin InProgress
    BY <1>6 DEF Queues, InProgress
  <2>3. ASSUME NEW th \in Threads, held'[th] \notin shared' PROVE Fits(th)'
    <3>1. HeldIsCurrent(th) /\ Fits(th)
      BY <1>0, <1>6, <2>2, <2>3 DEF Queues
    <3>2. pc[th] \in Handling => held[th] # t /\ held[th] \in Task
      BY <1>0, <1>6, <2>1, <2>3, <3>1 DEF Queues, HeldIsCurrent, HasTask
    <3> QED
      BY <1>6, <3>1, <3>2 DEF Queues, Fits, Handling, InCall
  <2>4. ASSUME NEW th \in Threads \ abandoned' PROVE FoundIsStale(th)'
    BY <1>0, <1>6, <2>1, <2>2, <2>4 DEF Queues, FoundIsStale
  <2> QED
    BY <2>3, <2>4
<1>7. Q' => Phases'
  BY <1>0, PresentStep DEF Phases
<1> QED
  BY <1>0, <1>1, <1>2, <1>3, <1>4, <1>5, <1>6, <1>7, Kinds

(* The invariant of this module: the phases of a call. *)
THEOREM PhasesAlways == Spec => []Phases
<1>1. Init => Phases
  BY DEF Init, Phases, Fits, FoundIsStale, Present, InHand, Request
<1> QED
  BY <1>1, PhasesStep, TypeCorrect, CrewAlways, BudgetAlways, PTL DEF Spec
-----------------------------------------------------------------------------
(* The refinement: each step of the pipeline is a step of the life cycle   *)
(* or changes nothing that the life cycle sees.                            *)
Same == UNCHANGED Lifecycle!lvars

(* A row that gets into two hands leaves the life cycle; whatever happens  *)
(* to rows that are in two hands is not seen.                              *)
LEMMA Contests ==
  ASSUME TypeOK, shared \subseteq shared', shared' \subseteq Task,
         \A t \in shared' \ shared : status[t] # "absent",
         \A t \in Task \ shared' : status'[t] = status[t] /\ attempt'[t] = attempt[t]
  PROVE  Same \/ Lifecycle!Contest
<1>1. CASE shared' = shared
  BY <1>1 DEF Same, Lifecycle!lvars
<1>2. CASE shared' # shared
  <2> DEFINE S == shared' \ shared
  <2>1. S # {} /\ S \in SUBSET Task
    BY <1>2
  <2>2. \A t \in S : status[t] \in {"queued", "dialing", "connected", "contested"}
                                  \cup Lifecycle!Final
    BY <2>1 DEF TypeOK, RowsOK, Status, ActiveStatus, Outcome, Lifecycle!Final,
       Lifecycle!Retryable
  <2>3. Lifecycle!Moves(S, {"queued", "dialing", "connected", "contested"}
                           \cup Lifecycle!Final, "contested")
    BY <2>1, <2>2 DEF Lifecycle!Moves
  <2>4. [t \in Task |-> IF t \in shared' THEN 1 ELSE attempt'[t]]
        = [t \in Task |-> IF t \in S THEN 1
                          ELSE [u \in Task |-> IF u \in shared THEN 1 ELSE attempt[u]][t]]
    BY <2>1
  <2> QED
    BY <2>1, <2>3, <2>4 DEF Lifecycle!Contest
<1> QED
  BY <1>1, <1>2

(* A row in one hand moves in the life cycle as it moves in the table. *)
LEMMA MovesOne ==
  ASSUME TypeOK, UNCHANGED shared, NEW t \in Task \ shared, NEW from, NEW to,
         status[t] \in from, status' = [status EXCEPT ![t] = to]
  PROVE  Lifecycle!Moves({t}, from, to)
<1>1. status \in [Task -> Status]
  BY DEF TypeOK, RowsOK
<1> QED
  BY <1>1 DEF Lifecycle!Moves

(* A recovery pass interrupts what is in progress, all at once. *)
LEMMA RecoveryInterrupts ==
  ASSUME TypeOK, Budget, Phases, NEW th \in Threads, RecoverCommit(th)
  PROVE  Same \/ Lifecycle!Interrupt
<1>1. UNCHANGED <<attempt, shared>> /\ pc[th] = "recovering"
  BY DEF RecoverCommit, rows
<1>2. status \in [Task -> Status]
  BY DEF TypeOK, RowsOK
<1>3. CASE \A t \in Task \ shared : status'[t] = status[t]
  BY <1>1, <1>3 DEF Same, Lifecycle!lvars
<1>4. CASE /\ status' = [t \in Task |-> IF t \in found[th] THEN "failed" ELSE status[t]]
           /\ th \in abandoned
  <2>1. found[th] \subseteq shared
    BY <1>4 DEF Budget, AbandonedShare, InHand
  <2> QED
    BY <1>3, <1>4, <2>1
<1>5. CASE /\ status' = [t \in Task |-> IF t \in found[th] THEN "failed" ELSE status[t]]
           /\ th \notin abandoned
  <2>1. \A t \in Task \ shared : t \in found[th] <=> status[t] \in InProgress
    BY <1>1, <1>5 DEF Phases, FoundIsStale
  <2> DEFINE AS == [t \in Task |-> IF t \in shared THEN "contested" ELSE status[t]]
             S == {t \in Task : AS[t] \in {"dialing", "connected"}}
  <2>2. S = {t \in Task \ shared : status[t] \in InProgress}
    BY DEF InProgress
  <2>3. CASE S = {}
    BY <1>3, <1>5, <2>1, <2>2, <2>3
  <2>4. CASE S # {}
    <3>1. \A t \in Task : (IF t \in shared' THEN "contested" ELSE status'[t])
                          = IF t \in S THEN "failed" ELSE AS[t]
      BY <1>1, <1>5, <2>1, <2>2
    <3>2. [t \in Task |-> IF t \in shared' THEN "contested" ELSE status'[t]]
          = [t \in Task |-> IF t \in S THEN "failed" ELSE AS[t]]
      BY <3>1
    <3>3. Lifecycle!Moves(S, {"dialing", "connected"}, "failed")
      BY <2>4, <3>2 DEF Lifecycle!Moves
    <3> QED
      BY <1>1, <3>3 DEF Lifecycle!Interrupt
  <2> QED
    BY <2>3, <2>4
<1> QED
  BY <1>3, <1>4, <1>5 DEF RecoverCommit

(* The outcome of a call is tried again or final. *)
LEMMA SettlingMoves ==
  ASSUME TypeOK, Budget, Phases, NEW th \in Threads, Settle(th)
  PROVE  \/ Same
         \/ \E t \in Task : \/ Lifecycle!Retry(t) \/ Lifecycle!RetryReached(t)
                            \/ Lifecycle!GiveUp(t) \/ Lifecycle!EndCall(t)
<1>a. PICK t \in Task : t = held[th]
  BY DEF Settle, TypeOK, WorkerOK, HasTask, Handling
<1>b. PICK v \in [status : Outcome, retry : BOOLEAN] : v = verdict[th]
  BY DEF TypeOK, WorkerOK
<1>1. /\ t \in Task /\ held[th] = t /\ verdict[th] = v
      /\ pc[th] = "settle" /\ UNCHANGED shared
      /\ v.status \in Outcome /\ v.retry \in BOOLEAN
      /\ status \in [Task -> Status] /\ attempt \in [Task -> 1..MaxAttempts]
  BY <1>a, <1>b DEF Settle, TypeOK, RowsOK
<1>2. CASE UNCHANGED <<status, attempt>>
  BY <1>1, <1>2 DEF Same, Lifecycle!lvars
<1>3. CASE t \in shared
  <2>1. \A u \in Task \ shared : status'[u] = status[u] /\ attempt'[u] = attempt[u]
    BY <1>1, <1>3 DEF Settle
  <2> QED
    BY <1>1, <2>1 DEF Same, Lifecycle!lvars
<1>4. ASSUME t \notin shared
      PROVE  /\ status[t] \in {"dialing", "connected"} /\ seen[th] = attempt[t]
             /\ Fits(th)
  BY <1>1, <1>4 DEF Budget, HeldIsCounted, Phases, HeldIsCurrent, Handling, InProgress
<1>5. ASSUME t \notin shared, v.retry, seen[th] < MaxAttempts,
             status' = [status EXCEPT ![t] = "queued"],
             attempt' = [attempt EXCEPT ![t] = seen[th] + 1]
      PROVE  Lifecycle!Retry(t) \/ Lifecycle!RetryReached(t)
  <2>1. Lifecycle!Moves({t}, {"dialing"}, "queued")
        \/ Lifecycle!Moves({t}, {"connected"}, "queued")
    BY <1>1, <1>4, <1>5, MovesOne DEF Lifecycle!Moves
  <2> DEFINE AA == [u \in Task |-> IF u \in shared THEN 1 ELSE attempt[u]]
  <2>2. AA[t] = attempt[t] /\ AA[t] < MaxAttempts
    BY <1>1, <1>4, <1>5
  <2>3. [u \in Task |-> IF u \in shared' THEN 1 ELSE attempt'[u]]
        = [AA EXCEPT ![t] = @ + 1]
    BY <1>1, <1>4, <1>5
  <2> QED
    BY <1>1, <2>1, <2>2, <2>3 DEF Lifecycle!Retry, Lifecycle!RetryReached
<1>6. ASSUME t \notin shared, ~(v.retry /\ seen[th] < MaxAttempts),
             status' = [status EXCEPT ![t] = v.status], UNCHANGED attempt
      PROVE  Lifecycle!GiveUp(t) \/ Lifecycle!EndCall(t)
  <2>1. UNCHANGED [u \in Task |-> IF u \in shared THEN 1 ELSE attempt[u]]
    BY <1>1, <1>6
  <2>2. CASE status[t] = "connected"
    <3>1. v.status \in {"short_call", "completed", "failed"}
      BY <1>1, <1>4, <1>6, <2>2 DEF Fits
    <3>2. Lifecycle!Moves({t}, {"connected"}, v.status)
      BY <1>1, <1>6, <2>2, MovesOne DEF Lifecycle!Moves
    <3> QED
      BY <1>1, <1>6, <2>1, <3>1, <3>2 DEF Lifecycle!EndCall
  <2>3. CASE status[t] = "dialing"
    <3>1. /\ v.status \notin {"short_call", "completed"}
          /\ v.retry \/ v.status \in {"rejected", "failed"}
      BY <1>1, <1>4, <1>6, <2>3 DEF Fits
    <3>2. v.status \in Lifecycle!Final
      BY <1>1 DEF Outcome, Lifecycle!Final, Lifecycle!Retryable
    <3>3. ASSUME v.status \in Lifecycle!Retryable \ {"failed"}
          PROVE  attempt[t] >= MaxAttempts
      <4>1. v.retry
        BY <3>1, <3>3 DEF Lifecycle!Retryable
      <4> QED
        BY <1>1, <1>4, <1>6, <4>1, CallWorkerAssumption
    <3>4. Lifecycle!Moves({t}, {"dialing"}, v.status)
      BY <1>1, <1>6, <2>3, MovesOne DEF Lifecycle!Moves
    <3>5. [u \in Task |-> IF u \in shared THEN 1 ELSE attempt[u]][t] = attempt[t]
      BY <1>1, <1>6
    <3> QED
      BY <1>1, <1>6, <2>1, <3>1, <3>2, <3>3, <3>4, <3>5 DEF Lifecycle!GiveUp
  <2> QED
    BY <1>4, <1>6, <2>2, <2>3
<1> QED
  BY <1>1, <1>2, <1>3, <1>5, <1>6 DEF Settle, Retries

LEMMA ThreadImplements ==
  ASSUME TypeOK, Budget, Phases, MarksOK', NEW th \in Threads, ThreadStep(th)
  PROVE  Same \/ Lifecycle!Next
<1> USE DEF rows, marks
<1>1. /\ status \in [Task -> Status]
      /\ pc[th] \in HasTask => held[th] \in Task
      /\ held[th] \notin shared => HeldIsCurrent(th) /\ Fits(th)
      /\ shared \subseteq shared' /\ shared' \subseteq Task
  BY ThreadStepIsLocal DEF TypeOK, RowsOK, WorkerOK, Budget, HeldIsCounted, Phases,
     MarksOK
<1>2. CASE LoopTop(th) \/ SmsBatchEnds(th) \/ Dial(th) \/ RingEnds(th) \/ TalkEnds(th)
  <2>1. UNCHANGED <<status, attempt, shared>>
    BY <1>2 DEF LoopTop, SmsBatchEnds, Dial, RingEnds, TalkEnds
  <2> QED
    BY <2>1 DEF Same, Lifecycle!lvars
<1>3. CASE RecoverRead(th) \/ ClaimRead(th)
  <2>1. UNCHANGED <<status, attempt>>
    BY <1>3 DEF RecoverRead, ClaimRead
  <2>2. \A t \in shared' \ shared : status[t] # "absent"
    BY <1>3 DEF RecoverRead, ClaimRead, Shares, Stale, Claimable, InProgress
  <2> QED
    BY <1>1, <2>1, <2>2, Contests DEF Lifecycle!Next
<1>4. CASE RecoverCommit(th)
  BY <1>4, RecoveryInterrupts DEF Lifecycle!Next
<1>5. CASE Settle(th)
  BY <1>5, SettlingMoves DEF Lifecycle!Next
<1>6. ASSUME ClaimCommit(th) \/ Answered(th)
      PROVE  /\ UNCHANGED <<attempt, shared>> /\ held[th] \in Task
             /\ pc[th] \in {"claimed", "ringing"}
             /\ \/ UNCHANGED status
                \/ /\ pc[th] = "claimed" /\ status' = [status EXCEPT ![held[th]] = "dialing"]
                \/ /\ pc[th] = "ringing"
                   /\ status' = [status EXCEPT ![held[th]] = "connected"]
  BY <1>1, <1>6 DEF ClaimCommit, Answered, HasTask, Handling, InCall
<1>7. CASE ClaimCommit(th) \/ Answered(th)
  <2> DEFINE t == held[th]
  <2>1. UNCHANGED [u \in Task |-> IF u \in shared THEN 1 ELSE attempt[u]]
    BY <1>6, <1>7
  <2>2. CASE UNCHANGED status \/ t \in shared
    <3>1. \A u \in Task \ shared : status'[u] = status[u]
      BY <1>1, <1>6, <1>7, <2>2
    <3> QED
      BY <1>6, <1>7, <2>1, <3>1 DEF Same, Lifecycle!lvars
  <2>3. CASE /\ pc[th] = "claimed" /\ t \notin shared
             /\ status' = [status EXCEPT ![t] = "dialing"]
    <3>1. Lifecycle!Moves({t}, {"queued"}, "dialing")
      BY <1>1, <1>6, <1>7, <2>3, MovesOne DEF HeldIsCurrent, Lifecycle!Moves
    <3> QED
      BY <1>6, <1>7, <2>1, <3>1 DEF Lifecycle!Claim, Lifecycle!Next
  <2>4. CASE /\ pc[th] = "ringing" /\ t \notin shared
             /\ status' = [status EXCEPT ![t] = "connected"]
    <3>1. Lifecycle!Moves({t}, {"dialing"}, "connected")
      BY <1>1, <1>6, <1>7, <2>4, MovesOne DEF Fits, Lifecycle!Moves
    <3> QED
      BY <1>6, <1>7, <2>1, <3>1 DEF Lifecycle!Connect, Lifecycle!Next
  <2> QED
    BY <1>6, <1>7, <2>2, <2>3, <2>4
<1> QED
  BY <1>2, <1>3, <1>4, <1>5, <1>7 DEF ThreadStep, CallStep

(* So does a row that is put into the queue. *)
LEMMA QueueingMoves ==
  ASSUME TypeOK, MarksOK', NEW t \in Task, Queues(t)
  PROVE  Same \/ Lifecycle!Next
<1>1. /\ status \in [Task -> Status] /\ attempt \in [Task -> 1..MaxAttempts]
      /\ shared' \subseteq Task
      /\ \A u \in Task \ {t} : status'[u] = status[u] /\ attempt'[u] = attempt[u]
      /\ status'[t] = "queued"
  BY DEF TypeOK, RowsOK, MarksOK, Queues
<1>2. CASE status[t] # "absent" /\ shared' = shared \cup {t}
  BY <1>1, <1>2, Contests DEF Lifecycle!Next
<1>3. CASE t \in shared /\ UNCHANGED shared
  BY <1>1, <1>3, Contests DEF Lifecycle!Next
<1>4. ASSUME t \notin shared, UNCHANGED shared, NEW from, status[t] \in from
      PROVE  Lifecycle!Moves({t}, from, "queued")
  <2>1. [u \in Task |-> IF u \in shared' THEN "contested" ELSE status'[u]]
        = [u \in Task |-> IF u \in {t} THEN "queued"
             ELSE [w \in Task |-> IF w \in shared THEN "contested" ELSE status[w]][u]]
    BY <1>1, <1>4
  <2> QED
    BY <1>4, <2>1 DEF Lifecycle!Moves
<1>5. CASE t \notin shared /\ status[t] = "absent" /\ UNCHANGED <<shared, attempt>>
  BY <1>4, <1>5 DEF Lifecycle!Enqueue, Lifecycle!Next
<1>6. CASE /\ t \notin shared /\ status[t] \in Outcome /\ attempt'[t] = 1
           /\ UNCHANGED shared
  <2>1. [u \in Task |-> IF u \in shared' THEN 1 ELSE attempt'[u]]
        = [[u \in Task |-> IF u \in shared THEN 1 ELSE attempt[u]] EXCEPT ![t] = 1]
    BY <1>1, <1>6
  <2>2. status[t] \in Lifecycle!Final
    BY <1>6 DEF Outcome, Lifecycle!Final, Lifecycle!Retryable
  <2> QED
    BY <1>4, <1>6, <2>1, <2>2 DEF Lifecycle!Requeue, Lifecycle!Next
<1> QED
  BY <1>2, <1>3, <1>5, <1>6 DEF Queues

LEMMA Implements ==
  ASSUME TypeOK, Crew, Budget, Phases, [Next]_vars
  PROVE  Same \/ Lifecycle!Next
<1>0. MarksOK'
  BY MarksStep
<1>1. ASSUME NEW th \in Threads, ThreadStep(th) PROVE Same \/ Lifecycle!Next
  BY <1>0, <1>1, ThreadImplements
<1>2. CASE Rests \/ Starts \/ Stops
  BY <1>2 DEF Rests, Starts, Stops, Same, Lifecycle!lvars
<1>3. ASSUME NEW t \in Task, Queues(t) PROVE Same \/ Lifecycle!Next
  BY <1>0, <1>3, QueueingMoves
<1>4. ASSUME NEW th \in Threads, GivesUp(th) PROVE Same \/ Lifecycle!Next
  <2>1. \A t \in shared' \ shared : status[t] # "absent"
    BY <1>4 DEF GivesUp, Phases, Present
  <2>2. shared' \subseteq Task
    BY <1>0 DEF MarksOK
  <2> QED
    BY <1>4, <2>1, <2>2, Contests DEF GivesUp, Lifecycle!Next
<1> QED
  BY <1>1, <1>2, <1>3, <1>4, Kinds DEF Phases

(* The pipeline implements the life cycle for any number of tasks, threads *)
(* and requests, through crashes, restarts, exceptions, lost hang-ups,     *)
(* failing commits, the runtime switch and joins that give up: retryable   *)
(* outcomes are final only with the last attempt, a restart fails all that *)
(* was in progress at once, and only a finished task is queued again by a  *)
(* person.  A task that gets into two hands is outside the promise.        *)
THEOREM LifecycleImplemented == Spec => ImplementsLifecycle
<1>1. Init => Lifecycle!Init
  BY DEF Init, Lifecycle!Init
<1>2. TypeOK /\ Crew /\ Budget /\ Phases /\ [Next]_vars
      => [Lifecycle!Next]_(Lifecycle!lvars)
  BY Implements DEF Same
<1> QED
  BY <1>1, <1>2, TypeCorrect, CrewAlways, BudgetAlways, PhasesAlways,
     PTL DEF Spec, ImplementsLifecycle, Lifecycle!Spec
-----------------------------------------------------------------------------
(* A row in progress has its thread, is marked as let go of, or a recovery *)
(* pass is still to come; what a pass has missed has its thread or is      *)
(* marked.                                                                 *)
Passed(th) ==
    pc[th] = "recovering" =>
        \A t \in Task : status[t] \in InProgress =>
            t \in found[th] \/ Owned(t) \/ t \in unsaved

Owners == InProgressIsOwned /\ \A th \in Threads : Passed(th)

LEMMA ThreadOwns ==
  ASSUME TypeOK, Owners, NEW th \in Threads, ThreadStep(th)
  PROVE  Owners'
<1> USE DEF rows, service, flags, worker, job, marks
<1> DEFINE Mine(t) == held[th] = t /\ pc[th] \in Handling
           Others(t) == \E o \in Threads \ {th} : held[o] = t /\ pc[o] \in Handling
<1>1. /\ status \in [Task -> Status] /\ pc \in [Threads -> Labels]
      /\ held \in [Threads -> Task \cup {NoTask}]
      /\ found \in [Threads -> SUBSET Task]
      /\ pc[th] \in HasTask => held[th] \in Task
      /\ verdict[th].status \in Outcome
  BY DEF TypeOK, RowsOK, WorkerOK
<1>2. /\ \A o \in Threads \ {th} :
            pc'[o] = pc[o] /\ held'[o] = held[o] /\ found'[o] = found[o]
      /\ \A t : Others(t)' <=> Others(t)
  BY ThreadStepIsLocal
<1>3. \A t : /\ Owned(t) <=> Mine(t) \/ Others(t)
             /\ Owned(t)' <=> Mine(t)' \/ Others(t)'
  BY DEF Owned
<1>4. ASSUME NEW t \in Task, status'[t] \in InProgress
      PROVE  \/ Mine(t)' \/ Others(t) \/ t \in unsaved'
             \/ /\ ~Mine(t) /\ t \notin unsaved /\ status'[t] = status[t]
                /\ pc[th] = "recovering" => t \notin found[th] \/ UNCHANGED recovered
  <2>1. CASE \/ LoopTop(th) \/ SmsBatchEnds(th) \/ ClaimRead(th) \/ RecoverRead(th)
    BY <1>1, <2>1 DEF LoopTop, SmsBatchEnds, ClaimRead, RecoverRead, Handling, InCall
  <2>2. CASE RecoverCommit(th)
    <3>1. CASE UNCHANGED <<status, unsaved, recovered>>
      BY <2>2, <3>1 DEF RecoverCommit, Handling, InCall
    <3>2. CASE /\ status' = [u \in Task |-> IF u \in found[th] THEN "failed" ELSE status[u]]
               /\ unsaved' = unsaved \ found[th]
      <4>1. t \notin found[th]
        BY <1>4, <3>2 DEF InProgress
      <4> QED
        BY <2>2, <3>2, <4>1 DEF RecoverCommit, Handling, InCall
    <3> QED
      BY <2>2, <3>1, <3>2 DEF RecoverCommit
  <2>3. CASE ClaimCommit(th) \/ Dial(th) \/ RingEnds(th) \/ Answered(th) \/ TalkEnds(th)
    <3>1. /\ held[th] \in Task
          /\ \A u \in Task \ {held[th]} : status'[u] = status[u]
          /\ unsaved \subseteq unsaved' /\ pc[th] # "recovering"
      BY <1>1, <2>3 DEF ClaimCommit, Dial, RingEnds, Answered, TalkEnds, HasTask,
         Handling, InCall
    <3>2. \/ UNCHANGED held /\ pc'[th] \in Handling
          \/ held[th] \in unsaved'
          \/ UNCHANGED status /\ pc[th] = "claimed"
      BY <1>1, <2>3 DEF ClaimCommit, Dial, RingEnds, Answered, TalkEnds, Ends,
         EndsExpired, Goto, Handling, InCall
    <3> QED
      BY <3>1, <3>2 DEF Handling, InCall
  <2>4. CASE Settle(th)
    <3>1. /\ held[th] \in Task /\ unsaved \subseteq unsaved' /\ pc[th] # "recovering"
          /\ status'[held[th]] \notin InProgress \/ held[th] \in unsaved'
          /\ \A u \in Task \ {held[th]} : status'[u] = status[u]
      BY <1>1, <2>4 DEF Settle, HasTask, Handling, Outcome, InProgress
    <3> QED
      BY <1>4, <3>1
  <2> QED
    BY <2>1, <2>2, <2>3, <2>4 DEF ThreadStep, CallStep
<1>5. ASSUME recovered' # recovered, NEW t \in Task, status[t] \in InProgress
      PROVE  pc[th] = "recovering"
  BY <1>5 DEF ThreadStep, CallStep, LoopTop, SmsBatchEnds, ClaimRead, RecoverRead,
     RecoverCommit, ClaimCommit, Dial, RingEnds, Answered, TalkEnds, Settle, Stale
<1>6. ASSUME NEW t \in Task, status'[t] \in InProgress
      PROVE  Owned(t)' \/ ~recovered' \/ t \in unsaved'
  <2>1. CASE Mine(t)' \/ Others(t) \/ t \in unsaved'
    BY <1>2, <1>3, <2>1
  <2>2. CASE /\ ~Mine(t) /\ ~Others(t) /\ t \notin unsaved /\ status'[t] = status[t]
             /\ pc[th] = "recovering" => t \notin found[th] \/ UNCHANGED recovered
    <3>1. ~Owned(t)
      BY <1>3, <2>2
    <3>2. ~recovered
      BY <1>6, <2>2, <3>1 DEF Owners, InProgressIsOwned
    <3>3. pc[th] = "recovering" => t \in found[th]
      BY <1>6, <2>2, <3>1 DEF Owners, Passed
    <3> QED
      BY <1>5, <1>6, <2>2, <3>2, <3>3
  <2> QED
    BY <1>4, <1>6, <2>1, <2>2
<1>7. ASSUME NEW o \in Threads, pc'[o] = "recovering",
             NEW t \in Task, status'[t] \in InProgress
      PROVE  t \in found'[o] \/ Owned(t)' \/ t \in unsaved'
  <2>1. CASE o # th
    BY <1>2, <1>3, <1>4, <1>7, <2>1 DEF Owners, Passed
  <2>2. CASE o = th
    <3>1. RecoverRead(th)
      BY <1>1, <1>7, <2>2 DEF ThreadStep, CallStep, LoopTop, AfterRecovery,
         RecoverCommit, SmsBatchEnds, ClaimRead, ClaimCommit, Dial, RingEnds, Answered,
         TalkEnds, Settle, Ends, EndsExpired, Goto
    <3>2. found' = [found EXCEPT ![th] = Stale] /\ UNCHANGED status
      BY <1>1, <1>7, <2>2, <3>1 DEF RecoverRead, AfterRecovery, Goto
    <3> QED
      BY <1>1, <1>7, <2>2, <3>2 DEF Stale
  <2> QED
    BY <2>1, <2>2
<1> QED
  BY <1>6, <1>7 DEF Owners, InProgressIsOwned, Passed

LEMMA OwnersStep ==
  ASSUME TypeOK, Crew, Phases, Owners, [Next]_vars
  PROVE  Owners'
<1>1. ASSUME NEW th \in Threads, ThreadStep(th) PROVE Owners'
  BY <1>1, ThreadOwns
<1>2. CASE Rests
  BY <1>2 DEF Rests, Owners, InProgressIsOwned, Passed, Owned
<1>3. CASE Starts
  BY <1>3 DEF Starts, Owners, InProgressIsOwned, Passed, Owned, Handling, InCall
<1>4. CASE Stops
  BY <1>4 DEF Stops, Owners, InProgressIsOwned, Passed
<1>5. ASSUME NEW th \in Threads, GivesUp(th) PROVE Owners'
  BY <1>5 DEF GivesUp, Owners, InProgressIsOwned, Passed, Owned
<1>6. ASSUME NEW t \in Task, Queues(t) PROVE Owners'
  <2>1. \A u \in Task : status'[u] \in InProgress => status[u] \in InProgress
    BY <1>6 DEF Queues, InProgress
  <2> QED
    BY <1>6, <2>1 DEF Queues, Owners, InProgressIsOwned, Passed, Owned
<1> QED
  BY <1>1, <1>2, <1>3, <1>4, <1>5, <1>6, Kinds DEF Phases

(* No crash, stop, abandoned thread, exception, restart or requeue strands *)
(* a call in progress, for any number of tasks, threads and requests; only *)
(* a failed commit does, and only until the next recovery pass.            *)
THEOREM CallsAreOwned == Spec => []InProgressIsOwned
<1>1. Init => Owners
  BY DEF Init, Owners, InProgressIsOwned, Passed, InProgress
<1>2. Owners => InProgressIsOwned
  BY DEF Owners
<1> QED
  BY <1>1, <1>2, OwnersStep, TypeCorrect, CrewAlways, PhasesAlways, PTL DEF Spec
-----------------------------------------------------------------------------
(* A call that will be hung up is the call of a thread that is in it, or   *)
(* one a dead process has left: then its row is still in progress and the  *)
(* next pass of a thread is the recovery, which hangs up before it dials.  *)
LeftOver(c) ==
    /\ ~recovered /\ status[c] \in InProgress
    /\ \A th \in Threads : pc[th] \in {"off", "top", "recover"}

Calls ==
    \A c \in live \ (unhung \cup shared) :
        (\E th \in Threads : pc[th] \in InCall /\ held[th] = c) \/ LeftOver(c)

LEMMA ThreadCalls ==
  ASSUME TypeOK, Calls, NEW th \in Threads, ThreadStep(th)
  PROVE  Calls'
<1> USE DEF rows, service, flags, worker, job, marks
<1>1. /\ pc \in [Threads -> Labels] /\ held \in [Threads -> Task \cup {NoTask}]
      /\ pc[th] \in HasTask => held[th] \in Task
      /\ unhung \subseteq live /\ live \subseteq Task
  BY DEF TypeOK, WorkerOK, RestOK, MarksOK
<1>2. /\ shared \subseteq shared'
      /\ \A o \in Threads \ {th} : pc'[o] = pc[o] /\ held'[o] = held[o]
  BY ThreadStepIsLocal
<1>3. SUFFICES ASSUME NEW c \in live' \ (unhung' \cup shared')
               PROVE  \/ \E o \in Threads : pc'[o] \in InCall /\ held'[o] = c
                      \/ LeftOver(c)'
  BY DEF Calls
<1>4. CASE pc[th] \in {"top", "recover"}
  <2>1. ASSUME c \in live \ unhung, LeftOver(c), UNCHANGED <<status, recovered>>,
               pc'[th] \in {"off", "top", "recover"}
        PROVE  LeftOver(c)'
    BY <1>2, <2>1 DEF LeftOver
  <2>2. CASE LoopTop(th)
    <3>1. UNCHANGED <<live, unhung, status, recovered>> /\ pc[th] = "top"
          /\ (~recovered => pc'[th] \in {"off", "recover"})
      BY <1>1, <2>2 DEF LoopTop, Goto
    <3>2. c \in live \ (unhung \cup shared)
      BY <1>2, <1>3, <3>1
    <3> QED
      BY <1>2, <2>1, <3>1, <3>2 DEF Calls, InCall, LeftOver
  <2>3. CASE RecoverRead(th)
    <3>1. CASE Stale = {} /\ UNCHANGED <<live, unhung>>
      <4>1. c \in live \ (unhung \cup shared) /\ ~LeftOver(c)
        BY <1>1, <1>2, <1>3, <3>1 DEF LeftOver, Stale
      <4> QED
        BY <1>2, <2>3, <4>1 DEF Calls, RecoverRead, InCall
    <3>2. CASE HangUp(live)
      BY <1>3, <3>2 DEF HangUp, StaysUp, LeavesUp
    <3> QED
      BY <2>3, <3>1, <3>2 DEF RecoverRead
  <2> QED
    BY <1>4, <2>2, <2>3 DEF ThreadStep, CallStep, RecoverCommit, SmsBatchEnds, ClaimRead,
       ClaimCommit, Dial, RingEnds, Answered, TalkEnds, Settle
<1>5. CASE pc[th] \notin {"top", "recover"}
  <2>1. \A d : ~LeftOver(d)
    BY <1>5, ThreadStepIsLocal DEF LeftOver, Alive
  <2>2. ASSUME c \in live \ unhung,
               pc[th] \in InCall /\ held[th] = c => pc'[th] \in InCall /\ UNCHANGED held
        PROVE  \E o \in Threads : pc'[o] \in InCall /\ held'[o] = c
    BY <1>2, <1>3, <2>1, <2>2 DEF Calls
  <2>3. CASE RecoverCommit(th) \/ SmsBatchEnds(th) \/ ClaimRead(th) \/ ClaimCommit(th)
             \/ Settle(th)
    BY <1>3, <2>2, <2>3 DEF RecoverCommit, SmsBatchEnds, ClaimRead, ClaimCommit,
       Settle, InCall
  <2>4. CASE Dial(th)
    <3>1. pc[th] = "handle" /\ UNCHANGED <<unhung, held>>
          /\ \/ UNCHANGED live
             \/ live' = live \cup {held[th]} /\ pc'[th] = "ringing"
      BY <1>1, <2>4 DEF Dial, Goto
    <3> QED
      BY <1>3, <2>2, <3>1 DEF InCall
  <2>5. ASSUME HangUp({held[th]}) \/ EndReported(th) \/ LeavesUp({held[th]})
        PROVE  c \in live \ unhung /\ c # held[th]
    BY <1>1, <1>3, <2>5 DEF HangUp, StaysUp, LeavesUp, EndReported
  <2>6. CASE RingEnds(th) \/ TalkEnds(th)
    <3>1. HangUp({held[th]}) \/ EndReported(th) \/ LeavesUp({held[th]})
      BY <2>6 DEF RingEnds, TalkEnds
    <3> QED
      BY <2>2, <2>5, <3>1
  <2>7. CASE Answered(th)
    <3>1. \/ UNCHANGED <<live, unhung, held>> /\ pc'[th] = "talking"
          \/ LeavesUp({held[th]})
      BY <1>1, <2>7 DEF Answered, Goto
    <3> QED
      BY <1>3, <2>2, <2>5, <3>1 DEF InCall
  <2> QED
    BY <1>5, <2>3, <2>4, <2>6, <2>7 DEF ThreadStep, CallStep, LoopTop, RecoverRead
<1> QED
  BY <1>4, <1>5

(* Whoever dials a task in one hand finds the modem empty, but for what    *)
(* nobody will hang up.                                                    *)
LEMMA DialsAlone ==
  ASSUME TypeOK, Crew, Budget, Calls, NEW th \in Threads, ThreadStep(th),
         NEW t \in Task \ shared, dials'[t] > dials[t]
  PROVE  live \subseteq unhung \cup shared
<1> USE DEF rows
<1>1. dials \in [Task -> Nat]
  BY DEF TypeOK, RowsOK
<1>2. ~(dials[t] > dials[t])
  BY <1>1
<1>3. Dial(th)
  BY <1>2 DEF ThreadStep, CallStep, LoopTop, RecoverRead, RecoverCommit, SmsBatchEnds,
     ClaimRead, ClaimCommit, RingEnds, Answered, TalkEnds, Settle
<1>4. held[th] = t /\ pc[th] = "handle"
  BY <1>1, <1>2, <1>3 DEF Dial
<1>5. th \notin abandoned
  BY <1>4, HeldInHand DEF Budget, AbandonedShare, HasTask, Handling
<1>6. SUFFICES ASSUME NEW c \in live \ (unhung \cup shared) PROVE FALSE
  OBVIOUS
<1>7. PICK o \in Threads : pc[o] \in InCall /\ held[o] = c
  BY <1>4, <1>6 DEF Calls, LeftOver
<1>8. o \notin abandoned /\ Alive(o) /\ Alive(th)
  BY <1>4, <1>6, <1>7, HeldInHand DEF Budget, AbandonedShare, HasTask, Handling, InCall
<1>9. o = th
  BY <1>5, <1>8, OneIsNotAbandoned
<1> QED
  BY <1>4, <1>7, <1>9 DEF InCall

LEMMA CallsStep ==
  ASSUME TypeOK, Crew, Budget, Phases, Calls, [Next]_vars
  PROVE  /\ Calls'
         /\ (\E t \in Task \ shared : dials'[t] > dials[t])
               => live \subseteq unhung \cup shared
<1> DEFINE Empty == (\E t \in Task \ shared : dials'[t] > dials[t])
                       => live \subseteq unhung \cup shared
<1>1. /\ dials \in [Task -> Nat] /\ live \subseteq Task
      /\ \A t \in Task : ~(dials[t] > dials[t])
      /\ \A th \in Threads : pc[th] \in HasTask => held[th] \in Task
  BY DEF TypeOK, RowsOK, WorkerOK, RestOK
<1>2. ASSUME NEW th \in Threads, ThreadStep(th) PROVE Calls' /\ Empty
  BY <1>2, ThreadCalls, DialsAlone
<1>3. CASE Rests
  BY <1>1, <1>3 DEF Rests, Calls, LeftOver
<1>4. CASE Starts
  BY <1>1, <1>4 DEF Starts, Calls, LeftOver, InCall
<1>5. CASE Stops
  <2>1. ASSUME NEW c \in live \ (unhung \cup shared) PROVE status[c] \in InProgress
    BY <1>1, <2>1 DEF Calls, LeftOver, Budget, HeldIsCounted, HeldIsCurrent, HasTask,
       Handling, InCall
  <2> QED
    BY <1>1, <1>5, <2>1 DEF Stops, Calls, LeftOver
<1>6. ASSUME NEW th \in Threads, GivesUp(th) PROVE Calls' /\ Empty
  BY <1>1, <1>6 DEF GivesUp, Calls, LeftOver
<1>7. ASSUME NEW t \in Task, Queues(t) PROVE Calls' /\ Empty
  <2>1. status[t] \in InProgress => t \in shared'
    BY <1>7 DEF Queues, InProgress, Outcome
  <2>2. shared \subseteq shared'
    BY <1>7 DEF Queues
  <2>3. Calls'
    BY <1>1, <1>7, <2>1, <2>2 DEF Queues, Calls, LeftOver
  <2> QED
    BY <1>7, <2>3 DEF Queues
<1> QED
  BY <1>2, <1>3, <1>4, <1>5, <1>6, <1>7, Kinds DEF Phases

(* ATD meets an empty modem, crashes and restarts included, but for calls  *)
(* whose AT+CHUP was lost or never sent and calls of tasks in two hands.   *)
THEOREM OneCallAlways == Spec => OneCall
<1> DEFINE Empty == (\E t \in Task \ shared : dials'[t] > dials[t])
                       => live \subseteq unhung \cup shared
<1>1. Init => Calls
  BY DEF Init, Calls
<1>2. TypeOK /\ Crew /\ Budget /\ Phases /\ Calls /\ [Next]_vars
      => Calls' /\ [Empty]_vars
  BY CallsStep
<1> QED
  BY <1>1, <1>2, TypeCorrect, CrewAlways, BudgetAlways, PhasesAlways, PTL
     DEF Spec, OneCall
=============================================================================
