---------------------------- MODULE ModemSession ----------------------------
(***************************************************************************)
(* The serial dialogue with the A7670E modem, line by line: the batch of   *)
(* text messages (CallWorker.process_pending_sms, services/sms.py) and the *)
(* lines of a call (_dial_and_play, modem/parser.py), which share the port *)
(* and the one worker thread.                                              *)
(*                                                                         *)
(* The modem handles what it is sent in order and at its own pace, so a    *)
(* wait of the program may run out before the answer: the answer then      *)
(* stays in the input buffer and is read by whatever is asked next.        *)
(* CallWorker treats a call as an outcome; this module is about which line *)
(* an outcome is read from.                                                *)
(***************************************************************************)
EXTENDS Naturals, Sequences, FiniteSets

CONSTANTS
    NSms,        \* sms_notifications rows, numbered by id
    NCalls,      \* dial attempts, in the order they are claimed
    BatchLimit,  \* SMS_BATCH_LIMIT
    MaxFaults    \* bound: failed commits and crashes

ASSUME ModemAssumption ==
    /\ NSms \in Nat /\ NCalls \in Nat
    /\ BatchLimit \in Nat \ {0}
    /\ MaxFaults \in Nat

Sms == 1..NSms
Call == 1..NCalls
None == 0

VARIABLES
    sms,      \* committed SmsNotification.status
    outcome,  \* how each dial attempt ended, as _dial_and_play returns it
    pc,       \* where the worker thread is
    batch,    \* messages of the selected batch still to be sent
    cur,      \* the message or the call at hand
    step,     \* which command of send_sms_text is being answered
    result,   \* what send_sms_text has come to for cur
    age,      \* time since ATD: see Early, Middle, Long, TimedOut
    open,     \* the program holds the serial port
    rx,       \* commands written and not yet handled by the modem
    tx,       \* lines in the program's input buffer
    entry,    \* the modem's text entry: for which message, and still clean
    voice,    \* the modem's call, and whether it was answered
    texts,    \* history: texts the network accepted
    accepted, \* history: how often it accepted each message unspoilt
    source,   \* history: the call whose line decided the outcome of a call
    rushed,   \* history: calls dialled while the modem had another call to end
    late,     \* history: a message was begun with a whole old dialogue to come
    faults    \* failed commits and crashes so far

rowVars  == <<sms, outcome>>
hostVars == <<pc, batch, cur, step, result, age, open>>
lineVars == <<rx, tx>>
modem    == <<entry, voice>>
history  == <<texts, accepted, source, rushed, late, faults>>
vars     == <<rowVars, hostVars, lineVars, modem, history>>

Early == 0      \* less than REJECTED_END_SECONDS
Middle == 1     \* less than NO_ANSWER_END_SECONDS
Long == 2       \* less than CALL_CONNECT_TIMEOUT_SECONDS
TimedOut == 3

Unconnected == {"rejected", "cancelled_or_failed", "no_answer", "busy"}
Ended == Unconnected \cup {"short_call", "completed", "failed"}

(* send_sms_text: each command with the text _expect waits for. *)
Dialogue == << <<"CMEE", "OK">>, <<"CPIN", "+CPIN">>, <<"CSQ", "+CSQ">>,
               <<"CMGF", "OK">>, <<"CSCS", "OK">>, <<"CMGS", ">">> >>

Commands == {"CMEE", "CPIN", "CSQ", "CMGF", "CSCS", "CMGS", "text", "ATD", "CHUP"}
Command(c, of) == [cmd |-> c, of |-> of]
Line(kind, of) == [kind |-> kind, of |-> of]
NoEntry == [to |-> None, clean |-> TRUE]
NoVoice == [call |-> None, up |-> FALSE]

(* parser.END_EVENT_TYPES; the digits of `VOICE CALL: END: n' are a class. *)
EndKinds == {"END", "END zero", "END short", "END long", "NO CARRIER"}

Write(commands) == rx' = rx \o commands
Pending == {m \in Sms : sms[m] = "pending"}
Least(S) == CHOOSE m \in S : \A k \in S : m <= k

Fault ==
    /\ faults < MaxFaults
    /\ faults' = faults + 1
    /\ UNCHANGED <<texts, accepted, source, rushed, late>>
-----------------------------------------------------------------------------
(* The modem. It handles one command at a time; a line it sends while the *)
(* port is closed is lost.                                                 *)

Emit(lines) == tx' = IF open THEN tx \o lines ELSE tx

(* Outside text entry a command is answered, well or badly. *)
Answers(c) ==
    CASE c.cmd = "CPIN" -> {<<"+CPIN", "OK">>, <<"+CPIN locked", "OK">>, <<"ERROR">>}
      [] c.cmd = "CSQ"  -> {<<"+CSQ", "OK">>, <<"ERROR">>}
      [] c.cmd = "CMGS" -> {<<">">>, <<"ERROR">>}
      [] c.cmd = "text" -> {<<"ERROR">>}
      [] OTHER          -> {<<"OK">>, <<"ERROR">>}

Lines(kinds, of) == [i \in DOMAIN kinds |-> Line(kinds[i], of)]

ModemAnswers ==
    /\ rx # <<>> /\ entry = NoEntry
    /\ LET c == Head(rx) IN
       /\ c.cmd \notin {"ATD", "CHUP"}
       /\ \E kinds \in Answers(c) :
            /\ Emit(Lines(kinds, c.of))
            /\ entry' = IF kinds = <<">">> THEN [to |-> c.of, clean |-> TRUE]
                        ELSE entry
    /\ rx' = Tail(rx)
    /\ UNCHANGED <<rowVars, hostVars, voice, history>>

(* In text entry everything up to Ctrl-Z is text: each carriage return     *)
(* brings another prompt.                                                  *)
ModemTakesAsText ==
    /\ rx # <<>> /\ entry # NoEntry
    /\ Head(rx).cmd # "text"
    /\ entry' = [entry EXCEPT !.clean = FALSE]
    /\ Emit(<<Line(">", entry.to)>>)
    /\ rx' = Tail(rx)
    /\ UNCHANGED <<rowVars, hostVars, voice, history>>

(* Ctrl-Z: the text goes to the number of the entry, or is refused. *)
ModemSubmits ==
    /\ rx # <<>> /\ entry # NoEntry
    /\ Head(rx).cmd = "text"
    /\ LET of == Head(rx).of
           own == entry = [to |-> of, clean |-> TRUE]
       IN \/ /\ Emit(Lines(<<"+CMGS", "OK">>, of))
             /\ texts' = texts \cup {[to |-> entry.to, of |-> of, clean |-> entry.clean]}
             /\ accepted' = IF own THEN [accepted EXCEPT ![of] = @ + 1] ELSE accepted
          \/ /\ Emit(Lines(<<"+CMS ERROR">>, of))
             /\ UNCHANGED <<texts, accepted>>
    /\ entry' = NoEntry
    /\ rx' = Tail(rx)
    /\ UNCHANGED <<rowVars, hostVars, voice, source, rushed, late, faults>>

(* ATD sets a call up; AT+CHUP releases the one there is. *)
ModemVoice ==
    /\ rx # <<>> /\ entry = NoEntry
    /\ LET c == Head(rx) IN
       \/ /\ c.cmd = "ATD"
          /\ IF voice = NoVoice
             THEN /\ voice' = [call |-> c.of, up |-> FALSE]
                  /\ Emit(Lines(<<"OK">>, c.of))
             ELSE /\ voice' = voice
                  /\ Emit(Lines(<<"ERROR">>, c.of))
       \/ /\ c.cmd = "CHUP"
          /\ voice' = NoVoice
          /\ Emit(IF voice = NoVoice THEN Lines(<<"OK">>, None)
                  ELSE Lines(<<"OK", "END long", "NO CARRIER">>, voice.call))
    /\ rx' = Tail(rx)
    /\ UNCHANGED <<rowVars, hostVars, entry, history>>

(* The network: the call is answered, refused as busy, or released. *)
NetworkEvent ==
    /\ voice # NoVoice
    /\ \/ /\ ~voice.up
          /\ voice' = [voice EXCEPT !.up = TRUE]
          /\ Emit(Lines(<<"BEGIN">>, voice.call))
       \/ /\ ~voice.up
          /\ voice' = NoVoice
          /\ \E kinds \in {<<"BUSY">>, <<"NO CARRIER">>, <<"END", "NO CARRIER">>} :
                Emit(Lines(kinds, voice.call))
       \/ /\ voice.up
          /\ voice' = NoVoice
          /\ \E kind \in {"END zero", "END short", "END long"} :
                Emit(Lines(<<kind, "NO CARRIER">>, voice.call))
    /\ UNCHANGED <<rowVars, hostVars, rx, entry, history>>
-----------------------------------------------------------------------------
(* ModemClient.__enter__ and __exit__: opening discards buffered input. *)
OpenPortUnflushed == open' = TRUE /\ tx' = tx                 \* mutant
OpenPort == open' = TRUE /\ tx' = <<>>
ClosePort == open' = FALSE

(* The port is closed and what was local to its use is gone. *)
Leaves ==
    /\ ClosePort
    /\ batch' = {} /\ cur' = None /\ step' = 1
    /\ result' = "failed" /\ age' = Early

(* A mutant: the settings are made once, for the first message of a batch. *)
BeginsSetUpOnce(m) ==
    LET first == IF pc = "save" THEN Len(Dialogue) ELSE 1 IN
    /\ cur' = m /\ step' = first /\ pc' = "ask" /\ late' = late
    /\ Write(<<Command(Dialogue[first][1], m)>>)

(* What is still to come, answered or not, can pass for a whole dialogue:  *)
(* an OK (of any command), then a +CPIN, then a prompt.                    *)
OldDialogueIn(lines) ==
    LET toCome == 1..(Len(lines) + Len(rx))
        Brings(i, kind, commands) ==
            IF i <= Len(lines) THEN lines[i].kind = kind
                               ELSE rx[i - Len(lines)].cmd \in commands
    IN \E i, j, k \in toCome :
          /\ i < j /\ Brings(i, "OK", Commands)
          /\ j < k /\ Brings(j, "+CPIN", {"CPIN"})
          /\ Brings(k, ">", {"CMGS"})

(* Ask for message m: the first command of send_sms_text, whatever is     *)
(* still to come of the messages before: each wait that runs out leaves    *)
(* the modem one command further behind.                                   *)
Begins(m) ==
    /\ cur' = m /\ step' = 1 /\ pc' = "ask"
    /\ late' = (late \/ OldDialogueIn(tx'))
    /\ Write(<<Command(Dialogue[1][1], m)>>)

(* process_pending_sms: the oldest pending rows, at most a batch of them. *)
Selected == {m \in Pending : Cardinality({k \in Pending : k < m}) < BatchLimit}

BatchBegins ==
    /\ pc = "tick"
    /\ IF Pending = {}
       THEN pc' = "claim" /\ UNCHANGED <<batch, cur, step, open, rx, tx, late>>
       ELSE /\ OpenPort
            /\ batch' = Selected \ {Least(Selected)}
            /\ Begins(Least(Selected))
    /\ UNCHANGED <<rowVars, result, age, modem, texts, accepted, source, rushed, faults>>

Decide(r) == pc' = "save" /\ result' = r

(* _expect: error texts before expected ones, other lines are skipped. The *)
(* prompt is answered with the text and Ctrl-Z at once.                    *)
ReadAnswer ==
    /\ pc = "ask" /\ tx # <<>>
    /\ tx' = Tail(tx)
    /\ LET kind == Head(tx).kind IN
       \/ /\ kind \in {"ERROR", "+CMS ERROR", "+CPIN locked"}
          /\ kind = "+CPIN locked" => Dialogue[step][1] = "CPIN"
          /\ Decide("failed")
          /\ UNCHANGED <<step, rx>>
       \/ /\ kind = Dialogue[step][2]
          /\ IF step < Len(Dialogue)
             THEN /\ step' = step + 1
                  /\ Write(<<Command(Dialogue[step + 1][1], cur)>>)
                  /\ pc' = pc
             ELSE /\ Write(<<Command("text", cur)>>)
                  /\ pc' = "final"
                  /\ step' = step
          /\ result' = result
       \/ /\ kind \notin {"ERROR", "+CMS ERROR", Dialogue[step][2]}
          /\ kind = "+CPIN locked" => Dialogue[step][1] # "CPIN"
          /\ UNCHANGED <<pc, step, result, rx>>
    /\ UNCHANGED <<rowVars, batch, cur, age, open, modem, history>>

(* The loop after Ctrl-Z: +CMGS, +CMS ERROR or a bare ERROR decide. *)
ReadFinal ==
    /\ pc = "final" /\ tx # <<>>
    /\ tx' = Tail(tx)
    /\ LET kind == Head(tx).kind IN
       \/ kind = "+CMGS" /\ Decide("sent")
       \/ kind \in {"+CMS ERROR", "ERROR"} /\ Decide("failed")
       \/ /\ kind \notin {"+CMGS", "+CMS ERROR", "ERROR"}
          /\ UNCHANGED <<pc, result>>
    /\ UNCHANGED <<rowVars, batch, cur, step, age, open, rx, modem, history>>

(* Mutants: the last wait has no deadline; silence counts as success; a    *)
(* text that was not confirmed is sent once more.                          *)
WaitForEver ==
    /\ pc = "ask" /\ tx = <<>>
    /\ Decide("failed")
    /\ UNCHANGED <<rowVars, batch, cur, step, age, open, lineVars, modem, history>>

SilenceIsConsent ==
    /\ pc \in {"ask", "final"} /\ tx = <<>>
    /\ Decide(IF pc = "final" THEN "sent" ELSE "failed")
    /\ UNCHANGED <<rowVars, batch, cur, step, age, open, lineVars, modem, history>>

SilenceIsRetried ==
    /\ pc \in {"ask", "final"} /\ tx = <<>> /\ UNCHANGED tx
    /\ IF pc = "final"
       THEN Begins(cur) /\ UNCHANGED result
       ELSE Decide("failed") /\ UNCHANGED <<cur, step, rx, late>>
    /\ UNCHANGED <<rowVars, batch, age, open, modem, texts, accepted, source, rushed, faults>>

(* A deadline passes while no line is there: 5 s, or 40 s after Ctrl-Z. *)
WaitRunsOut ==
    /\ pc \in {"ask", "final"} /\ tx = <<>>
    /\ Decide("failed")
    /\ UNCHANGED <<rowVars, batch, cur, step, age, open, lineVars, modem, history>>

(* _send_one_sms: one commit per message, then the next one of the batch. *)
SaveResult ==
    /\ pc = "save"
    /\ sms' = [sms EXCEPT ![cur] = result]
    /\ tx' = tx
    /\ IF batch = {}
       THEN pc' = "claim" /\ Leaves /\ UNCHANGED <<rx, late>>
       ELSE /\ batch' = batch \ {Least(batch)}
            /\ Begins(Least(batch))
            /\ UNCHANGED <<result, age, open>>
    /\ UNCHANGED <<outcome, modem, texts, accepted, source, rushed, faults>>

(* The commit raises: the batch is given up and rolled back. *)
SaveFails ==
    /\ pc = "save" /\ Fault
    /\ pc' = "claim" /\ Leaves
    /\ UNCHANGED <<rowVars, lineVars, modem>>
-----------------------------------------------------------------------------
(* claim_next_task finds no task. *)
NothingToDial ==
    /\ pc = "claim"
    /\ \A c \in Call : outcome[c] # "queued"
    /\ pc' = "tick"
    /\ UNCHANGED <<rowVars, batch, cur, step, result, age, open, lineVars,
                   modem, history>>

(* The modem has not released a call, or has yet to set one up. *)
CallInModem == voice # NoVoice \/ \E i \in DOMAIN rx : rx[i].cmd = "ATD"

(* claim_next_task and the ATD of _dial_and_play, written whatever the     *)
(* modem is still at.                                                      *)
Dial ==
    /\ pc = "claim"
    /\ \E c \in Call :
         /\ outcome[c] = "queued"
         /\ \A b \in Call : b < c => outcome[b] # "queued"
         /\ outcome' = [outcome EXCEPT ![c] = "dialing"]
         /\ cur' = c
         /\ Write(<<Command("ATD", c)>>)
         /\ rushed' = IF CallInModem THEN rushed \cup {c} ELSE rushed
    /\ OpenPort
    /\ age' = Early /\ pc' = "ring"
    /\ UNCHANGED <<sms, batch, step, result, modem, texts, accepted, source,
                   late, faults>>

(* The outcome is settled and the port closed; of names the call whose     *)
(* line decided it, None when no line did.                                 *)
Ends(how, of) ==
    /\ outcome' = [outcome EXCEPT ![cur] = how]
    /\ source' = [source EXCEPT ![cur] = of]
    /\ pc' = "tick" /\ Leaves
    /\ UNCHANGED <<sms, modem, texts, accepted, rushed, late, faults>>

HangUp == Write(<<Command("CHUP", cur)>>)
NoHangUp == UNCHANGED rx

TimePassesLate ==                                              \* mutant
    /\ pc = "ring" /\ age <= TimedOut
    /\ age' = age + 1
    /\ UNCHANGED <<rowVars, batch, cur, step, result, pc, open, lineVars,
                   modem, history>>

TimePasses ==
    /\ pc = "ring" /\ age < TimedOut
    /\ age' = age + 1
    /\ UNCHANGED <<rowVars, batch, cur, step, result, pc, open, lineVars,
                   modem, history>>

(* _classify_unconnected: by the duration in the line if it has one, else *)
(* by the time since ATD.                                                  *)
Classify(kind) ==
    LET elapsed == CASE kind \in {"END zero", "END short"} -> Early
                     [] kind = "END long"                  -> Middle
                     [] OTHER                              -> age
    IN CASE elapsed = Early  -> "rejected"
         [] elapsed = Middle -> "cancelled_or_failed"
         [] OTHER            -> "no_answer"

(* The loop that waits for the connection, as parse_modem_line sorts lines. *)
RingReads ==
    /\ pc = "ring" /\ age < TimedOut /\ tx # <<>>
    /\ tx' = Tail(tx)
    /\ LET kind == Head(tx).kind
           of == Head(tx).of
       IN \/ /\ kind = "BEGIN"
             /\ pc' = "play"
             /\ source' = [source EXCEPT ![cur] = of]
             /\ UNCHANGED <<rowVars, batch, cur, step, result, age, open, rx,
                            modem, texts, accepted, rushed, late, faults>>
          \/ kind = "BUSY" /\ Ends("busy", of) /\ NoHangUp
          \/ kind \in EndKinds /\ Ends(Classify(kind), of) /\ NoHangUp
          \/ /\ kind \notin {"BEGIN", "BUSY"} \cup EndKinds
             /\ UNCHANGED <<rowVars, hostVars, rx, modem, history>>

RingTimesOut ==
    /\ pc = "ring" /\ age = TimedOut
    /\ Ends("no_answer", None)
    /\ HangUp /\ UNCHANGED tx

(* play_audio returns; lines pile up in the buffer meanwhile. *)
PlaybackEnds ==
    /\ pc = "play"
    /\ \/ /\ pc' = "linger"
          /\ UNCHANGED <<rowVars, batch, cur, step, result, age, open,
                         lineVars, modem, history>>
       \/ Ends("failed", source[cur]) /\ HangUp /\ UNCHANGED tx

(* A duration of 0 counts as none, and the program's own clock is used. *)
Durations(kind) ==
    CASE kind = "END short" -> {"short"}
      [] kind = "END long"  -> {"long"}
      [] OTHER              -> {"short", "long"}

Finished(duration) == IF duration = "short" THEN "short_call" ELSE "completed"

LingerReads ==
    /\ pc = "linger" /\ tx # <<>>
    /\ tx' = Tail(tx)
    /\ LET kind == Head(tx).kind IN
       \/ /\ kind \in EndKinds
          /\ \E d \in Durations(kind) : Ends(Finished(d), Head(tx).of)
          /\ NoHangUp
       \/ /\ kind \notin EndKinds
          /\ UNCHANGED <<rowVars, hostVars, rx, modem, history>>

LingerTimesOut ==
    /\ pc = "linger" /\ tx = <<>>
    /\ \E d \in {"short", "long"} : Ends(Finished(d), source[cur])
    /\ HangUp /\ UNCHANGED tx
-----------------------------------------------------------------------------
(* The process dies with what it holds in memory; the modem goes on. *)
Crash ==
    /\ pc # "down" /\ Fault
    /\ pc' = "down" /\ Leaves
    /\ UNCHANGED <<rowVars, lineVars, modem>>

(* recover_interrupted_tasks, before the first batch: one AT+CHUP if a     *)
(* call was in progress, which is settled as failed.                       *)
Recover ==
    /\ pc = "down"
    /\ pc' = "tick"
    /\ IF \E c \in Call : outcome[c] = "dialing"
       THEN /\ outcome' = [c \in Call |-> IF outcome[c] = "dialing" THEN "failed"
                                          ELSE outcome[c]]
            /\ Write(<<Command("CHUP", None)>>)
       ELSE UNCHANGED <<outcome, rx>>
    /\ UNCHANGED <<sms, batch, cur, step, result, age, open, tx, modem, history>>

Init ==
    /\ sms = [m \in Sms |-> "pending"]
    /\ outcome = [c \in Call |-> "queued"]
    /\ pc = "tick" /\ batch = {} /\ cur = None /\ step = 1
    /\ result = "failed" /\ age = Early /\ open = FALSE
    /\ rx = <<>> /\ tx = <<>>
    /\ entry = NoEntry /\ voice = NoVoice
    /\ texts = {} /\ accepted = [m \in Sms |-> 0]
    /\ source = [c \in Call |-> None] /\ rushed = {} /\ late = FALSE /\ faults = 0

Program ==
    \/ BatchBegins \/ ReadAnswer \/ ReadFinal \/ WaitRunsOut \/ SaveResult
    \/ NothingToDial \/ Dial \/ TimePasses \/ RingReads \/ RingTimesOut
    \/ PlaybackEnds \/ LingerReads \/ LingerTimesOut \/ Recover

Modem == ModemAnswers \/ ModemTakesAsText \/ ModemSubmits \/ ModemVoice

Next == Program \/ SaveFails \/ Crash \/ Modem \/ NetworkEvent

Spec == Init /\ [][Next]_vars
FairSpec == Spec /\ WF_vars(Program)
-----------------------------------------------------------------------------
Kinds == {"OK", "ERROR", "+CPIN", "+CPIN locked", "+CSQ", ">", "+CMGS",
          "+CMS ERROR", "BEGIN", "BUSY"} \cup EndKinds
Owner == Sms \cup Call \cup {None}

TypeOK ==
    /\ sms \in [Sms -> {"pending", "sent", "failed"}]
    /\ outcome \in [Call -> {"queued", "dialing"} \cup Ended]
    /\ pc \in {"tick", "ask", "final", "save", "claim", "ring", "play",
               "linger", "down"}
    /\ batch \subseteq Sms /\ cur \in Owner
    /\ step \in 1..Len(Dialogue) /\ result \in {"sent", "failed"}
    /\ age \in Early..TimedOut /\ open \in BOOLEAN
    /\ rx \in Seq([cmd : Commands, of : Owner])
    /\ tx \in Seq([kind : Kinds, of : Owner])
    /\ entry \in [to : Sms \cup {None}, clean : BOOLEAN]
    /\ voice \in [call : Call \cup {None}, up : BOOLEAN]
    /\ texts \subseteq [to : Sms \cup {None}, of : Sms, clean : BOOLEAN]
    /\ accepted \in [Sms -> Nat] /\ source \in [Call -> Call \cup {None}]
    /\ rushed \subseteq Call /\ late \in BOOLEAN /\ faults \in 0..MaxFaults

(* Every text the network accepts is one message, whole, under its own     *)
(* number: no AT command and no other message is in it. The wait for the   *)
(* prompt is what keeps a slow modem and the program together, unless a    *)
(* message was begun with the answers of a whole dialogue still to come.   *)
CleanTexts == late \/ \A t \in texts : t.to = t.of /\ t.clean

(* A row that says sent was accepted by the network: the +CMGS that        *)
(* send_sms_text read was the answer to this message, not one that came    *)
(* late; with the same exception.                                          *)
SentWasAccepted == late \/ \A m \in Sms : sms[m] = "sent" => accepted[m] > 0

(* One message reaches its person once, and once more only for each failed *)
(* commit or crash that kept the row pending.                              *)
BoundedResends == \A m \in Sms : accepted[m] <= 1 + faults

(* The outcome of a call was read from that call's own lines, or from no   *)
(* line at all, never from what an earlier call left in the input: the     *)
(* flush on opening sees to it.  It does not when the modem ends the       *)
(* earlier call after the flush: the program dials without waiting for the *)
(* answer of AT+CHUP, after a time-out or a recovery.                      *)
OutcomeIsItsOwn == \A c \in Call \ rushed : source[c] \in {None, c}

(* Every use of the port comes to an end, whatever the modem answers: text *)
(* messages cannot keep calls from being claimed, and a call cannot keep   *)
(* the messages waiting.                                                   *)
PortIsReleased == open ~> ~open
=============================================================================
