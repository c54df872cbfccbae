---------------------------- MODULE TaskLifecycle ----------------------------
(***************************************************************************)
(* What the outbound-call queue promises about a call task, without        *)
(* threads, sessions, crashes or the modem: the statuses of models.py, who *)
(* may move a task between them, and what an attempt is good for.  The     *)
(* status groups follow docs/hardware.md sections 2, 3 and 6 and           *)
(* plans.ACTIVE_TASK_STATUSES; CallWorker implements this module.          *)
(***************************************************************************)
EXTENDS Integers

CONSTANTS Task, MaxAttempts

VARIABLES status, attempt

lvars == <<status, attempt>>

Retryable == {"no_answer", "cancelled_or_failed", "busy", "failed"}
Final == {"rejected", "short_call", "completed"} \cup Retryable

Moves(S, from, to) ==
    /\ S # {} /\ \A t \in S : status[t] \in from
    /\ status' = [t \in Task |-> IF t \in S THEN to ELSE status[t]]

Init ==
    /\ status = [t \in Task |-> "absent"]
    /\ attempt = [t \in Task |-> 1]

Enqueue(t) == Moves({t}, {"absent"}, "queued") /\ UNCHANGED attempt

Claim(t) == Moves({t}, {"queued"}, "dialing") /\ UNCHANGED attempt

Connect(t) == Moves({t}, {"dialing"}, "connected") /\ UNCHANGED attempt

(* A call is tried again while attempts are left; each try uses up one.    *)
Retry(t) ==
    /\ attempt[t] < MaxAttempts
    /\ Moves({t}, {"dialing"}, "queued")
    /\ attempt' = [attempt EXCEPT ![t] = @ + 1]

(* A retryable outcome is final only when the attempts are used up, except *)
(* for a task that cannot be dialled at all.                               *)
GiveUp(t) ==
    /\ \E s \in Final :
          /\ s \in Retryable \ {"failed"} => attempt[t] >= MaxAttempts
          /\ s \notin {"short_call", "completed"}
          /\ Moves({t}, {"dialing"}, s)
    /\ UNCHANGED attempt

(* An exception after the answer (the port or the launch of ffmpeg) is     *)
(* handled like one before it, see the run CallWorkerReached.              *)
RetryReached(t) ==
    /\ attempt[t] < MaxAttempts
    /\ Moves({t}, {"connected"}, "queued")
    /\ attempt' = [attempt EXCEPT ![t] = @ + 1]

EndCall(t) ==
    /\ \E s \in {"short_call", "completed", "failed"} :
          Moves({t}, {"connected"}, s)
    /\ UNCHANGED attempt

(* After a restart everything that was in progress has failed, at once. *)
Interrupt ==
    /\ Moves({t \in Task : status[t] \in {"dialing", "connected"}},
             {"dialing", "connected"}, "failed")
    /\ UNCHANGED attempt

(* A person may give a finished task a fresh set of attempts. *)
Requeue(t) ==
    /\ Moves({t}, Final, "queued")
    /\ attempt' = [attempt EXCEPT ![t] = 1]

(* Tasks that get into two hands; nothing is promised of them any more. *)
Contest ==
    \E S \in SUBSET Task :
        /\ Moves(S, {"queued", "dialing", "connected", "contested"} \cup Final,
                 "contested")
        /\ attempt' = [t \in Task |-> IF t \in S THEN 1 ELSE attempt[t]]

Next ==
    \/ \E t \in Task :
          \/ Enqueue(t) \/ Claim(t) \/ Connect(t) \/ Retry(t) \/ RetryReached(t)
          \/ GiveUp(t) \/ EndCall(t) \/ Requeue(t)
    \/ Interrupt
    \/ Contest

Spec == Init /\ [][Next]_lvars
=============================================================================
