----------------------------- MODULE CallWorker -----------------------------
(***************************************************************************)
(* The outbound-call pipeline of app/services/call_worker.py: the queue of *)
(* CallTask rows, the worker thread that claims, dials, settles and        *)
(* retries them, the service object that starts and stops that thread, the *)
(* recovery pass after a restart and the manual requeue of the web pages.  *)
(*                                                                         *)
(* A step is what happens between two points where another actor can get   *)
(* in: a database read, a commit, a blocking wait on the serial port.  The *)
(* rows status, attempt and due are committed; what a thread or a request  *)
(* read earlier and still relies on is in seen, verdict, found and req.    *)
(*                                                                         *)
(* Time is relative: due[t] is due_at minus now, so the clock never ends.  *)
(***************************************************************************)
EXTENDS Integers, FiniteSets

CONSTANTS
    NTasks,          \* tasks are numbered in the order of created_at
    MaxAttempts,     \* CallTask.max_attempts (MAX_CALL_ATTEMPTS)
    RetryDelay,      \* RETRY_DELAY_SECONDS, in clock ticks
    MaxAge,          \* bound: how long an overdue task keeps its due order
    Threads,         \* bound: thread objects alive at the same time
    NoThread,        \* the value None of CallWorkerService._thread
    Requests,        \* bound: requeue requests ever made by web clients
    Upsets,          \* which disturbances may occur, see Disturb
    MaxUpsets        \* bound: how many of them may occur

ASSUME CallWorkerAssumption ==
    /\ NTasks \in Nat
    /\ MaxAttempts \in Nat \ {0}
    /\ RetryDelay \in Nat
    /\ MaxAge \in Nat
    /\ NoThread \notin Threads
    /\ MaxUpsets \in Nat

Task == 1..NTasks
NoTask == 0

(* models.CALL_STATUSES without "missed", which no code path assigns. *)
Outcome == {"no_answer", "rejected", "cancelled_or_failed", "busy",
            "short_call", "failed", "completed"}
ActiveStatus == {"queued", "dialing", "connected"}   \* ACTIVE_TASK_STATUSES
InProgress == {"dialing", "connected"}
Status == {"absent"} \cup ActiveStatus \cup Outcome

VARIABLES
    status,     \* committed CallTask.status
    attempt,    \* committed CallTask.attempt
    due,        \* committed CallTask.due_at, minus now
    up,         \* the server process is running
    enabled,    \* committed AppSetting call_worker_enabled
    stop,       \* CallWorkerService._stop
    thread,     \* CallWorkerService._thread
    recovered,  \* CallWorkerService._recovery_done
    admin,      \* the switch request or shutdown occupying the event loop
    joining,    \* the thread that request waits for
    switch,     \* the value that request is about to save
    pc,         \* where each worker thread is in _loop / _tick
    held,       \* the task a thread has selected or is handling
    seen,       \* that task's attempt as the thread's session read it
    verdict,    \* how the call ended: status and whether it may be retried
    found,      \* the stale tasks a thread's recovery pass has read
    live,       \* tasks whose call the modem still carries
    req,        \* manual requeue requests
    dials,      \* history: ATD commands since the task was last (re)queued
    upsets,     \* disturbances so far
    abandoned,  \* history: running threads that a join has given up on
    shared,     \* history: tasks that were ever in two hands, see below
    unsaved,    \* history: tasks let go of by a commit that failed
    unhung      \* history: calls in live that their thread left up

flags   == <<stop, thread, recovered>>
request == <<admin, joining, switch>>
service == <<enabled, flags, request>>
job     == <<held, seen, verdict>>
worker  == <<pc, job, found>>
rows    == <<status, attempt, due, dials>>
marks   == <<abandoned, shared, unsaved, unhung>>
vars    == <<rows, up, service, worker, live, req, upsets, marks>>

NoVerdict == [status |-> "failed", retry |-> FALSE]
Request(l, t) ==
    [pc |-> l, task |-> t,
     status |-> IF t = NoTask THEN "absent" ELSE status[t],
     attempt |-> IF t = NoTask THEN 1 ELSE attempt[t]]

InCall == {"ringing", "talking"}
Handling == {"handle", "settle"} \cup InCall
UsesPort == {"recovering", "sms"} \cup InCall

(* A disturbance the environment may inject a bounded number of times:     *)
(* "serial"  the port, the modem or ffmpeg's launch raises;                *)
(* "chup"    an AT+CHUP does not reach the modem;                          *)
(* "commit"  a commit raises, e.g. SQLite stays locked past busy_timeout;  *)
(* "crash"   the process dies;                                             *)
(* "switch"  an administrator uses the runtime switch or stops the server. *)
Disturb(kind) ==
    /\ kind \in Upsets
    /\ upsets < MaxUpsets
    /\ upsets' = upsets + 1

Commits == UNCHANGED upsets
CommitFails == Disturb("commit")

Goto(th, l) == pc' = [pc EXCEPT ![th] = l]
Settled(t) == status[t] \in Outcome

(* A task is in two hands once a thread that a join has given up on has    *)
(* it, or once a requeue has overwritten a row that had moved on.          *)
InHand(th) == found[th] \cup ({held[th]} \ {NoTask})

Shares(th, S) == shared' = IF th \in abandoned THEN shared \cup S ELSE shared

(* The calls up after a step, and those of them nobody will hang up. *)
StaysUp(S) == live' = S /\ unhung' = unhung \cap S
LeavesUp(S) == UNCHANGED live /\ unhung' = unhung \cup (S \cap live)
-----------------------------------------------------------------------------
(* scans._create_*_task: a scan commits a new queued row, due at once. *)
Enqueue(t) ==
    /\ up
    /\ status[t] = "absent"
    /\ \A u \in Task : u < t => status[u] # "absent"
    /\ status' = [status EXCEPT ![t] = "queued"]
    /\ due' = [due EXCEPT ![t] = 0]
    /\ UNCHANGED <<attempt, dials, up, service, worker, live, req, upsets, marks>>

Tick ==
    /\ \E t \in Task : due[t] > -MaxAge
    /\ due' = [t \in Task |-> IF due[t] > -MaxAge THEN due[t] - 1 ELSE due[t]]
    /\ UNCHANGED <<status, attempt, dials, up, service, worker, live, req,
                   upsets, marks>>

(* The far end or the network drops a call nobody is listening to. *)
NetworkReleases(t) ==
    /\ t \in live
    /\ \A th \in Threads : ~(pc[th] \in InCall /\ held[th] = t)
    /\ StaysUp(live \ {t})
    /\ UNCHANGED <<rows, up, service, worker, req, upsets, abandoned, shared,
                   unsaved>>
-----------------------------------------------------------------------------
(* CallWorkerService: start, stop, the switch route, the lifespan, crashes. *)

Alive(th) == pc[th] # "off"

Running == \E th \in Threads : th = thread /\ Alive(th)

(* Mutant: a start() that does not ask whether the thread is alive. *)
StartAgain ==
    /\ \E th \in Threads : ~Alive(th) /\ thread' = th /\ Goto(th, "top")
    /\ stop' = FALSE
    /\ recovered' = FALSE

Start ==
    \/ Running /\ UNCHANGED <<flags, pc>>
    \/ /\ ~Running
       /\ \E th \in Threads : ~Alive(th) /\ thread' = th /\ Goto(th, "top")
       /\ stop' = FALSE
       /\ recovered' = FALSE

Boot ==
    /\ ~up
    /\ up' = TRUE
    /\ Start
    /\ UNCHANGED <<rows, enabled, request, job, found, live, req, upsets, marks>>

SwitchOn ==
    /\ up /\ admin = "idle"
    /\ Disturb("switch")
    /\ Start
    /\ admin' = "save"
    /\ switch' = TRUE
    /\ UNCHANGED <<rows, up, enabled, joining, job, found, live, req, marks>>

(* Mutant: stop() that forgets to set the event. *)
StopUnheard(next) ==
    /\ up /\ admin = "idle"
    /\ Disturb("switch")
    /\ thread' = NoThread
    /\ admin' = next
    /\ joining' = thread
    /\ switch' = FALSE
    /\ UNCHANGED <<rows, up, enabled, stop, recovered, worker, live, req, marks>>

(* stop() up to the join; `next' tells the switch route from the lifespan. *)
Stop(next) ==
    /\ up /\ admin = "idle"
    /\ Disturb("switch")
    /\ stop' = TRUE
    /\ thread' = NoThread
    /\ admin' = next
    /\ joining' = thread
    /\ switch' = FALSE
    /\ UNCHANGED <<rows, up, enabled, recovered, worker, live, req, marks>>

(* thread.join(timeout=15) returns when the thread has ended or when the   *)
(* time is up; nobody asks which of the two it was.                        *)
SwitchOffJoined ==
    /\ admin = "join"
    /\ \/ /\ \A th \in Threads : th = joining => ~Alive(th)
          /\ UNCHANGED <<abandoned, shared>>
       \/ \E th \in Threads :
             /\ th = joining /\ Alive(th)
             /\ abandoned' = abandoned \cup {th}
             /\ shared' = shared \cup InHand(th)
    /\ admin' = "save"
    /\ joining' = NoThread
    /\ UNCHANGED <<rows, up, enabled, flags, switch, worker, live, req, upsets,
                   unsaved, unhung>>

SaveSwitch ==
    /\ admin = "save"
    /\ admin' = "idle"
    /\ switch' = FALSE
    /\ \/ Commits /\ enabled' = switch
       \/ CommitFails /\ UNCHANGED enabled
    /\ UNCHANGED <<rows, up, flags, joining, worker, live, req, marks>>

(* The process ends: daemon threads and open requests die where they are. *)
ProcessEnds ==
    /\ up' = FALSE
    /\ stop' = FALSE
    /\ thread' = NoThread
    /\ recovered' = FALSE
    /\ admin' = "idle"
    /\ joining' = NoThread
    /\ switch' = FALSE
    /\ pc' = [th \in Threads |-> "off"]
    /\ held' = [th \in Threads |-> NoTask]
    /\ seen' = [th \in Threads |-> 1]
    /\ verdict' = [th \in Threads |-> NoVerdict]
    /\ found' = [th \in Threads |-> {}]
    /\ req' = [r \in Requests |->
                 IF req[r].pc = "loaded" THEN Request("done", NoTask) ELSE req[r]]
    /\ abandoned' = {}
    /\ UNCHANGED <<rows, enabled, live, shared, unsaved, unhung>>

Crash == up /\ Disturb("crash") /\ ProcessEnds

(* The process ends whether or not the join was in time. *)
ShutdownJoined ==
    /\ admin = "exit"
    /\ ProcessEnds
    /\ UNCHANGED upsets
-----------------------------------------------------------------------------
(* CallWorkerService._loop and _tick: one iteration of the thread. *)

AfterRecovery(th) == \E l \in {"sms", "claim"} : Goto(th, l)

(* The while test; the runtime switch gates the tick. *)
LoopTop(th) ==
    /\ pc[th] = "top"
    /\ \/ /\ stop
          /\ Goto(th, "off")
          /\ abandoned' = abandoned \ {th}
       \/ /\ ~stop /\ enabled /\ recovered
          /\ AfterRecovery(th)
          /\ UNCHANGED abandoned
       \/ /\ ~stop /\ enabled /\ ~recovered
          /\ Goto(th, "recover")
          /\ UNCHANGED abandoned
    /\ UNCHANGED <<rows, up, service, job, found, live, req, upsets, shared,
                   unsaved, unhung>>

NoHangUp(S) == UNCHANGED <<live, upsets, unhung>>    \* mutant: no AT+CHUP

(* AT+CHUP for the calls S; it ends every call, its failure is swallowed.  *)
HangUp(S) ==
    \/ StaysUp({}) /\ UNCHANGED upsets
    \/ Disturb("chup") /\ LeavesUp(S)

DialingOnly == {t \in Task : status[t] = "dialing"}    \* mutant

Stale == {t \in Task : status[t] \in InProgress}

(* recover_interrupted_tasks: read the stale rows, then one AT+CHUP. *)
RecoverRead(th) ==
    /\ pc[th] = "recover"
    /\ \/ /\ Stale = {}
          /\ recovered' = TRUE
          /\ AfterRecovery(th)
          /\ UNCHANGED <<found, live, upsets, shared, unhung>>
       \/ /\ Stale # {}
          /\ found' = [found EXCEPT ![th] = Stale]
          /\ Shares(th, Stale)
          /\ Goto(th, "recovering")
          /\ HangUp(live)
          /\ UNCHANGED recovered
    /\ UNCHANGED <<rows, up, enabled, stop, thread, request, job, req, abandoned,
                   unsaved>>

RecoverCommit(th) ==
    /\ pc[th] = "recovering"
    /\ found' = [found EXCEPT ![th] = {}]
    /\ \/ /\ Commits
          /\ status' = [t \in Task |->
                          IF t \in found[th] THEN "failed" ELSE status[t]]
          /\ unsaved' = unsaved \ found[th]
          /\ recovered' = TRUE
          /\ AfterRecovery(th)
       \/ /\ CommitFails
          /\ Goto(th, "top")
          /\ UNCHANGED <<status, recovered, unsaved>>
    /\ UNCHANGED <<attempt, due, dials, up, enabled, stop, thread, request, job,
                   live, req, abandoned, shared, unhung>>

(* process_pending_sms keeps the port open for a whole batch; whatever     *)
(* happens in it, the tick goes on to the call queue.                      *)
SmsBatchEnds(th) ==
    /\ pc[th] = "sms"
    /\ Goto(th, "claim")
    /\ UNCHANGED <<rows, up, service, job, found, live, req, upsets, marks>>

ClaimableOnTheDot(t) == status[t] = "queued" /\ due[t] = 0    \* mutant

Claimable(t) == status[t] = "queued" /\ due[t] <= 0

Before(t, u) == due[t] < due[u] \/ (due[t] = due[u] /\ t <= u)

ClaimRead(th) ==
    /\ pc[th] = "claim"
    /\ \/ /\ \A t \in Task : ~Claimable(t)
          /\ Goto(th, "top")
          /\ UNCHANGED <<held, shared>>
       \/ \E t \in Task :
             /\ Claimable(t)
             /\ \A u \in Task : Claimable(u) => Before(t, u)
             /\ held' = [held EXCEPT ![th] = t]
             /\ Shares(th, {t})
             /\ Goto(th, "claimed")
    /\ UNCHANGED <<rows, up, service, seen, verdict, found, live, req, upsets,
                   abandoned, unsaved, unhung>>

LetsGo(th) == held' = [held EXCEPT ![th] = NoTask]

(* The early commit of _tick; the row is read again on its next use. *)
ClaimCommit(th) ==
    LET t == held[th] IN
    /\ pc[th] = "claimed"
    /\ \/ /\ Commits
          /\ status' = [status EXCEPT ![t] = "dialing"]
          /\ seen' = [seen EXCEPT ![th] = attempt[t]]
          /\ Goto(th, "handle")
          /\ UNCHANGED held
       \/ /\ CommitFails
          /\ LetsGo(th)
          /\ Goto(th, "top")
          /\ UNCHANGED <<status, seen>>
    /\ UNCHANGED <<attempt, due, dials, up, service, verdict, found, live, req,
                   marks>>

(* The call is over for the code: what handle_task will settle. *)
Ends(th, s, retry) ==
    /\ verdict' = [verdict EXCEPT ![th] = [status |-> s, retry |-> retry]]
    /\ Goto(th, "settle")
    /\ UNCHANGED seen

(* The same once the commit of "connected" has expired the row in the      *)
(* session: handle_task then reads its attempt again.                      *)
EndsExpired(th, s, retry) ==
    /\ verdict' = [verdict EXCEPT ![th] = [status |-> s, retry |-> retry]]
    /\ Goto(th, "settle")
    /\ seen' = [seen EXCEPT ![th] = attempt[held[th]]]

(* handle_task's checks, opening the port and ATD. *)
Dial(th) ==
    LET t == held[th] IN
    /\ pc[th] = "handle"
    /\ \/ /\ Ends(th, "failed", FALSE)           \* no number or no audio file
          /\ UNCHANGED <<live, dials, upsets>>
       \/ /\ Disturb("serial")                   \* the port does not open
          /\ Ends(th, "failed", TRUE)
          /\ UNCHANGED <<live, dials>>
       \/ /\ live' = live \cup {t}               \* ATD
          /\ dials' = [dials EXCEPT ![t] = @ + 1]
          /\ Goto(th, "ringing")
          /\ UNCHANGED <<seen, verdict, upsets>>
    /\ UNCHANGED <<status, attempt, due, up, service, held, found, req, marks>>

(* The modem reports the end of a call.  The line does not say which one:  *)
(* with several calls up a thread may take another's end for that of its   *)
(* own, which it then leaves up.                                           *)
EndReported(th) ==
    \E c \in live \cup {held[th]} :
        /\ live' = live \ {c}
        /\ unhung' = (unhung \cup {held[th]}) \cap live'
        /\ UNCHANGED upsets

(* _dial_and_play until the call is answered, ended, timed out, cancelled  *)
(* by the stop event, or broken by an exception, which does not hang up.   *)
RingEnds(th) ==
    /\ pc[th] = "ringing"
    /\ \/ /\ \/ Ends(th, "rejected", FALSE)     \* END, NO CARRIER or BUSY
             \/ \E s \in {"cancelled_or_failed", "no_answer", "busy"} :
                   Ends(th, s, TRUE)
          /\ EndReported(th)
       \/ /\ Ends(th, "no_answer", TRUE)         \* connect timeout
          /\ HangUp({held[th]})
       \/ /\ stop                                \* cancel_check
          /\ Ends(th, "cancelled_or_failed", TRUE)
          /\ HangUp({held[th]})
       \/ /\ Disturb("serial")
          /\ Ends(th, "failed", TRUE)
          /\ LeavesUp({held[th]})
    /\ UNCHANGED <<rows, up, service, held, found, req, abandoned, shared, unsaved>>

(* VOICE CALL: BEGIN and the commit of "connected".  Once that commit has  *)
(* failed the session refuses the row to handle_task's except branch too,  *)
(* so the error leaves the tick with the row and the call as they are.     *)
Answered(th) ==
    /\ pc[th] = "ringing"
    /\ live # {}
    /\ \/ /\ Commits
          /\ status' = [status EXCEPT ![held[th]] = "connected"]
          /\ Goto(th, "talking")
          /\ UNCHANGED <<held, seen, live, unsaved, unhung>>
       \/ /\ CommitFails
          /\ LetsGo(th)
          /\ seen' = [seen EXCEPT ![th] = 1]
          /\ Goto(th, "top")
          /\ LeavesUp({held[th]})
          /\ unsaved' = unsaved \cup {held[th]}
          /\ UNCHANGED status
    /\ UNCHANGED <<attempt, due, dials, up, service, verdict, found, req,
                   abandoned, shared>>

(* Playback and the linger. *)
TalkEnds(th) ==
    /\ pc[th] = "talking"
    /\ \/ /\ EndsExpired(th, "failed", FALSE)    \* ffmpeg failed
          /\ HangUp({held[th]})
       \/ /\ \E s \in {"short_call", "completed"} : EndsExpired(th, s, FALSE)
          /\ \/ EndReported(th)
             \/ HangUp({held[th]})               \* nothing heard in the linger
       \/ /\ Disturb("serial")
          /\ EndsExpired(th, "failed", TRUE)
          /\ LeavesUp({held[th]})
    /\ UNCHANGED <<rows, up, service, held, found, req, abandoned, shared, unsaved>>

RetriesForEver(th) == verdict[th].retry                        \* mutant
RetriesOnceMore(th) == verdict[th].retry /\ seen[th] <= MaxAttempts  \* mutant

Retries(th) == verdict[th].retry /\ seen[th] < MaxAttempts

(* _schedule_retry or _finalize, with the last commit of _tick. *)
Settle(th) ==
    LET t == held[th] IN
    /\ pc[th] = "settle"
    /\ Goto(th, "top")
    /\ LetsGo(th)
    /\ \/ /\ Commits
          /\ Retries(th)
          /\ status' = [status EXCEPT ![t] = "queued"]
          /\ attempt' = [attempt EXCEPT ![t] = seen[th] + 1]
          /\ due' = [due EXCEPT ![t] = RetryDelay]
          /\ UNCHANGED unsaved
       \/ /\ Commits
          /\ ~Retries(th)
          /\ status' = [status EXCEPT ![t] = verdict[th].status]
          /\ UNCHANGED <<attempt, due, unsaved>>
       \/ /\ CommitFails
          /\ unsaved' = unsaved \cup {t}
          /\ UNCHANGED <<status, attempt, due>>
    /\ verdict' = [verdict EXCEPT ![th] = NoVerdict]
    /\ seen' = [seen EXCEPT ![th] = 1]
    /\ UNCHANGED <<dials, up, service, found, live, req, abandoned, shared, unhung>>
-----------------------------------------------------------------------------
(* Mutant: a requeue that does not look at the status. *)
RequeueAlways(q) ==
    /\ Commits
    /\ status' = [status EXCEPT ![q.task] = "queued"]
    /\ attempt' = [attempt EXCEPT ![q.task] = 1]
    /\ due' = [due EXCEPT ![q.task] = 0]
    /\ dials' = [dials EXCEPT ![q.task] = 0]
    /\ UNCHANGED shared

Overtaken(q) == status[q.task] # q.status \/ attempt[q.task] # q.attempt

(* main.task_requeue loads the row, awaits the form, and only then does    *)
(* plans.requeue_call_task test the status that was loaded.  Only columns  *)
(* that differ from the loaded row are written, so a loaded attempt of 1   *)
(* leaves whatever the row holds by now.                                   *)
RequeueWrite(q) ==
    \/ /\ q.status \notin ActiveStatus
       /\ Commits
       /\ status' = [status EXCEPT ![q.task] = "queued"]
       /\ attempt' = [attempt EXCEPT ![q.task] = IF q.attempt = 1 THEN @ ELSE 1]
       /\ due' = [due EXCEPT ![q.task] = 0]
       /\ dials' = [dials EXCEPT ![q.task] = 0]
       /\ shared' = IF Overtaken(q) THEN shared \cup {q.task} ELSE shared
    \/ /\ q.status \notin ActiveStatus
       /\ CommitFails
       /\ UNCHANGED <<rows, shared>>
    \/ /\ q.status \in ActiveStatus
       /\ UNCHANGED <<rows, shared, upsets>>

EventLoopFree == up /\ admin = "idle"

RequeueLoad(r, t) ==
    /\ EventLoopFree
    /\ req[r].pc = "idle"
    /\ status[t] # "absent"
    /\ req' = [req EXCEPT ![r] = Request("loaded", t)]
    /\ UNCHANGED <<rows, up, service, worker, live, upsets, marks>>

RequeueApply(r) ==
    /\ EventLoopFree
    /\ req[r].pc = "loaded"
    /\ RequeueWrite(req[r])
    /\ req' = [req EXCEPT ![r] = Request("done", NoTask)]
    /\ UNCHANGED <<up, service, worker, live, abandoned, unsaved, unhung>>
-----------------------------------------------------------------------------
Init ==
    /\ status = [t \in Task |-> "absent"]
    /\ attempt = [t \in Task |-> 1]
    /\ due = [t \in Task |-> 0]
    /\ dials = [t \in Task |-> 0]
    /\ up = FALSE
    /\ enabled = TRUE
    /\ stop = FALSE
    /\ thread = NoThread
    /\ recovered = FALSE
    /\ admin = "idle"
    /\ joining = NoThread
    /\ switch = FALSE
    /\ pc = [th \in Threads |-> "off"]
    /\ held = [th \in Threads |-> NoTask]
    /\ seen = [th \in Threads |-> 1]
    /\ verdict = [th \in Threads |-> NoVerdict]
    /\ found = [th \in Threads |-> {}]
    /\ live = {}
    /\ req = [r \in Requests |-> Request("idle", NoTask)]
    /\ upsets = 0
    /\ abandoned = {} /\ shared = {} /\ unsaved = {} /\ unhung = {}

CallStep(th) ==
    Dial(th) \/ RingEnds(th) \/ Answered(th) \/ TalkEnds(th) \/ Settle(th)

ThreadStep(th) ==
    \/ LoopTop(th) \/ RecoverRead(th) \/ RecoverCommit(th)
    \/ SmsBatchEnds(th) \/ ClaimRead(th) \/ ClaimCommit(th)
    \/ CallStep(th)

ServiceStep ==
    \/ Boot \/ SwitchOn \/ Stop("join") \/ Stop("exit")
    \/ SwitchOffJoined \/ SaveSwitch \/ ShutdownJoined \/ Crash

Next ==
    \/ \E t \in Task : Enqueue(t) \/ NetworkReleases(t)
    \/ Tick
    \/ ServiceStep
    \/ \E th \in Threads : ThreadStep(th)
    \/ \E r \in Requests :
          \/ RequeueApply(r)
          \/ \E t \in Task : RequeueLoad(r, t)

Spec == Init /\ [][Next]_vars

(* The operating system schedules the threads, the clock runs, the service *)
(* manager restarts the server and the event loop finishes what it began.  *)
(* Every wait on the modem has a deadline; play_audio has none, so WF of   *)
(* TalkEnds assumes that ffmpeg terminates.                                *)
Fairness ==
    /\ WF_vars(Tick)
    /\ WF_vars(Boot)
    /\ WF_vars(SwitchOffJoined \/ SaveSwitch \/ ShutdownJoined)
    /\ \A th \in Threads : WF_vars(ThreadStep(th))
    /\ \A r \in Requests : WF_vars(RequeueApply(r))

FairSpec == Spec /\ Fairness
-----------------------------------------------------------------------------
Labels == {"off", "top", "recover", "recovering", "sms", "claim", "claimed",
           "handle", "ringing", "talking", "settle"}

RowsOK ==
    /\ status \in [Task -> Status]
    /\ attempt \in [Task -> 1..MaxAttempts]
    /\ due \in [Task -> -MaxAge..RetryDelay]
    /\ dials \in [Task -> Nat]

ServiceOK ==
    /\ up \in BOOLEAN /\ enabled \in BOOLEAN /\ stop \in BOOLEAN
    /\ recovered \in BOOLEAN /\ switch \in BOOLEAN
    /\ admin \in {"idle", "join", "save", "exit"}
    /\ thread \in Threads \cup {NoThread}
    /\ joining \in Threads \cup {NoThread}

HasTask == {"claimed"} \cup Handling

WorkerOK ==
    /\ pc \in [Threads -> Labels]
    /\ held \in [Threads -> Task \cup {NoTask}]
    /\ \A th \in Threads : pc[th] \in HasTask => held[th] \in Task
    /\ seen \in [Threads -> 1..MaxAttempts]
    /\ verdict \in [Threads -> [status : Outcome, retry : BOOLEAN]]
    /\ found \in [Threads -> SUBSET Task]

RestOK ==
    /\ live \in SUBSET Task
    /\ req \in [Requests -> [pc : {"idle", "loaded", "done"},
                             task : Task \cup {NoTask}, status : Status,
                             attempt : 1..MaxAttempts]]
    /\ \A r \in Requests : req[r].pc = "loaded" => req[r].task \in Task
    /\ upsets \in 0..MaxUpsets

MarksOK ==
    /\ abandoned \in SUBSET Threads
    /\ shared \in SUBSET Task /\ unsaved \in SUBSET Task
    /\ unhung \in SUBSET live

TypeOK == RowsOK /\ ServiceOK /\ WorkerOK /\ RestOK /\ MarksOK
-----------------------------------------------------------------------------
(* There is one modem with one voice channel and only the worker touches   *)
(* it: at no time do two threads sit in a call, a text-message batch or    *)
(* the recovery hang-up (hardware.md section 3: one worker, serially).     *)
SingleChannel ==
    \A a, b \in Threads :
        pc[a] \in UsesPort /\ pc[b] \in UsesPort => a = b

(* The join that gives up is the only way to break it: of two threads at   *)
(* the modem one was told to stop and was still at it 15 seconds later.    *)
OnlyAbandonedIntrude ==
    \A a, b \in Threads :
        pc[a] \in UsesPort /\ pc[b] \in UsesPort
            => a = b \/ a \in abandoned \/ b \in abandoned

(* ATD is only sent when the call before it was ended by the network or    *)
(* hung up, restarts included.  What may still be up is a call whose       *)
(* AT+CHUP was lost, or never sent after an exception, and the call of a   *)
(* task in two hands.                                                      *)
OneCall ==
    [][(\E t \in Task \ shared : dials'[t] > dials[t])
          => live \subseteq unhung \cup shared]_vars

(* Between two (re)queueings a customer is dialled at most MaxAttempts     *)
(* times, whatever fails, crashes or is switched in between, unless the    *)
(* task was in two hands.                                                  *)
RedialBudget == \A t \in Task \ shared : dials[t] <= MaxAttempts

(* Whoever settles a call still holds the row it claimed: it is in         *)
(* progress, and the attempt the thread will count from is the row's.      *)
HeldIsCurrent(th) ==
    /\ pc[th] = "claimed" => status[held[th]] = "queued"
    /\ pc[th] \in Handling => status[held[th]] \in InProgress
    /\ pc[th] \in Handling \ {"talking"} => seen[th] = attempt[held[th]]

(* Only a thread that a join has given up on, or a requeue that decided on *)
(* a row that has moved on, can pull the row from under a thread.          *)
HeldRowIsCurrent == \A th \in Threads : held[th] \notin shared => HeldIsCurrent(th)

Owned(t) == \E th \in Threads : held[th] = t /\ pc[th] \in Handling

(* A row left in dialing or connected is either being handled by a running *)
(* thread or waits for a recovery pass that is still to come: no crash,    *)
(* stop, abandoned thread, exception or requeue strands a task in          *)
(* progress.  A commit that fails does, until the next start.              *)
InProgressIsOwned ==
    \A t \in Task :
        status[t] \in InProgress => Owned(t) \/ ~recovered \/ t \in unsaved

(* A customer who was reached is not dialled again without a human asking: *)
(* the worker never puts a connected task back into the queue (the comment *)
(* of _dial_and_play on a call that was answered).                         *)
ReachedIsNotRequeued ==
    [][\A t \in Task :
          status[t] = "connected" => status'[t] # "queued"]_vars

(* The worker is switched off, or a failed commit has stranded the task. *)
Excused(t) == ~enabled \/ thread = NoThread \/ t \in unsaved

(* Every queued task gets an outcome, unless it is excused: none is        *)
(* overlooked, retried for ever or starved by the others.                  *)
EveryTaskSettles ==
    \A t \in Task : status[t] = "queued" ~> Settled(t) \/ Excused(t)

(* A call in progress does not stay so, across crashes and restarts.       *)
InProgressEnds ==
    \A t \in Task :
        status[t] \in InProgress ~> status[t] \notin InProgress \/ Excused(t)

(* After a stop every thread leaves its loop, also one the join has given  *)
(* up on, unless the service is started again: start() takes the event     *)
(* back for the old threads too.                                           *)
StopIsObeyed ==
    admin \in {"join", "exit"}
        ~> (\A th \in Threads : ~Alive(th)) \/ thread # NoThread

(* The pipeline implements the task life cycle; a task in two hands is     *)
(* outside it from then on.                                                *)
Lifecycle ==
    INSTANCE TaskLifecycle WITH
        status <- [t \in Task |-> IF t \in shared THEN "contested" ELSE status[t]],
        attempt <- [t \in Task |-> IF t \in shared THEN 1 ELSE attempt[t]]

ImplementsLifecycle == Lifecycle!Spec
=============================================================================
