-------------------------- MODULE ModemTextProofs --------------------------
(***************************************************************************)
(* Where the modem is while the program talks to it, and what follows for  *)
(* the texts it accepts: a program that never begins a message with a      *)
(* whole old dialogue still to come sends every text whole and under its   *)
(* own number, and marks as sent what was sent. And, however far behind:   *)
(* how often a text is sent.                                               *)
(***************************************************************************)
EXTENDS ModemProofs

-----------------------------------------------------------------------------
(* Where the modem is while the program talks to it. The program may be    *)
(* several commands ahead, so CleanTexts needs to know what is still on    *)
(* the way, and at each command of a message which older prompts the       *)
(* program could take for its own.                                         *)

InRx == 1..Len(rx)
InTx == 1..Len(tx)

(* A text is only ever written into the entry of its own message. *)
TextHasEntry == \A i \in InRx :
                   rx[i].cmd = "text" => /\ i = 1
                                         /\ entry = [to |-> rx[i].of, clean |-> TRUE]

(* A prompt to be read is that of the entry the modem is in. Behind it is  *)
(* nothing the program waits for, and all that was answered is before one. *)
Noise == {">"} \cup Events
PromptHasEntry == \A i \in InTx :
                     tx[i].kind = ">" => /\ entry # NoEntry
                                         /\ rx # <<>> => rx[1].cmd # "text"
OnlyNoiseFollows == \A i, j \in InTx :
                       (i < j /\ tx[i].kind = ">") => tx[j].kind \in Noise
PromptFollows == \A j \in InTx :
                    (entry # NoEntry /\ tx[j].kind \notin Noise)
                      => \E i \in InTx : j < i /\ tx[i].kind = ">"
OnePrompt == \A i, j \in InTx :
                (entry.clean /\ tx[i].kind = ">" /\ tx[j].kind = ">") => i = j

(* The last commands written are the ones of the message at hand.          *)
OwnCommands == \A j \in InRx :
                  Len(rx) - j < step
                    => rx[j] = Command(Dialogue[step - (Len(rx) - j)][1], cur)

(* Before AT+CPIN? is asked: an older +CPIN that a prompt follows comes    *)
(* before every OK, so it is skipped while OK is awaited.                  *)
AheadOfOk ==
    /\ \A k, i, j \in InTx :
         (j < k /\ k < i /\ tx[k].kind = "+CPIN" /\ tx[i].kind = ">")
           => tx[j].kind # "OK"
    /\ \A k, q \in InRx :
         (k < q /\ rx[k].cmd = "CPIN" /\ rx[q].cmd = "CMGS")
           => k = 1 /\ \A j \in InTx : tx[j].kind # "OK"
    /\ \A k, j \in InTx, q \in InRx :
         (j < k /\ tx[k].kind = "+CPIN" /\ rx[q].cmd = "CMGS") => tx[j].kind # "OK"

(* While +CPIN is awaited: no older one is before a prompt. *)
AheadOfPin ==
    /\ \A k, i \in InTx : (k < i /\ tx[i].kind = ">") => tx[k].kind # "+CPIN"
    /\ \A k, q \in InRx : (k < q /\ rx[q].cmd = "CMGS") => rx[k].cmd # "CPIN"
    /\ \A k \in InTx, q \in InRx : rx[q].cmd = "CMGS" => tx[k].kind # "+CPIN"

(* Then the modem has left every older message behind. *)
NoOlderPrompt == entry = NoEntry /\ \A q \in InRx : rx[q].cmd # "CMGS"
OwnPrompt ==
    /\ rx # <<>> => /\ entry = NoEntry
                   /\ \A q \in InRx : rx[q].cmd = "CMGS" => q = Len(rx)
    /\ rx = <<>> => entry \in {NoEntry, [to |-> cur, clean |-> TRUE]}

(* After Ctrl-Z: the text is still to be taken or the answer is its own.   *)
OwnText ==
    /\ \/ rx = <<>> /\ entry = NoEntry
       \/ /\ Len(rx) = 1 /\ rx[1] = Command("text", cur)
          /\ entry = [to |-> cur, clean |-> TRUE]
    /\ \A i \in InTx : tx[i].kind # ">"
    /\ \A i \in InTx : tx[i].kind = "+CMGS" => rx = <<>> /\ accepted[cur] > 0

Prompted == PromptHasEntry /\ OnlyNoiseFollows /\ PromptFollows /\ OnePrompt
Asking ==
    /\ OwnCommands
    /\ step = 1 => AheadOfOk
    /\ step = 2 => AheadOfPin
    /\ step \in 3..5 => NoOlderPrompt
    /\ step = 6 => OwnPrompt

InStep ==
    /\ TextHasEntry
    /\ pc \in Talking => Prompted
    /\ pc = "ask" => Asking
    /\ pc = "final" => OwnText
    /\ (pc = "save" /\ result = "sent") => accepted[cur] > 0

Following == late \/ InStep

(* Positions are numbers from 1 up to the length.                          *)
Ints == /\ Len(rx) \in Nat /\ \A i \in InRx : i \in Int
        /\ Len(tx) \in Nat /\ \A i \in InTx : i \in Int
Bounds == /\ \A i \in InRx : 1 <= i /\ i <= Len(rx)
          /\ \A i \in InTx : 1 <= i /\ i <= Len(tx)

LEMMA BoundsHold ==
  ASSUME Typed
  PROVE  /\ Ints /\ Bounds
         /\ \A i \in InRx : rx[i] \in Asked
         /\ \A i \in InTx : tx[i] \in Told
         /\ rx = <<>> <=> Len(rx) = 0
<1>1. rx \in Seq(Asked) /\ tx \in Seq(Told)
  BY DEF Typed, StreamsOK
<1>2. Len(rx) \in Nat /\ Len(tx) \in Nat
  BY <1>1, LenProperties
<1>3. rx = <<>> <=> Len(rx) = 0
  BY <1>1, EmptySeq
<1>4. Ints /\ Bounds
  BY <1>2 DEF Ints, Bounds, InRx, InTx
<1> QED
  BY <1>1, <1>3, <1>4, ElementOfSeq DEF InRx, InTx

LEMMA BoundsNext ==
  ASSUME Typed'
  PROVE  Ints' /\ Bounds' /\ (rx' = <<>> <=> Len(rx') = 0)
<1>1. (Typed => Ints /\ Bounds /\ (rx = <<>> <=> Len(rx) = 0))'
  BY BoundsHold, PTL
<1> QED
  BY <1>1

(* How the streams move: the modem takes a command and says so many lines, *)
(* the program reads a line and writes a command.                          *)
Taken == /\ Len(rx') = Len(rx) - 1
         /\ \A i \in InRx' : i + 1 \in InRx /\ rx'[i] = rx[i + 1]
Said(n) == /\ n \in Nat /\ Len(tx') = Len(tx) + n
           /\ \A i \in InTx : i \in InTx' /\ tx'[i] = tx[i]
           /\ \A i \in InTx' : i \in InTx \/ i > Len(tx)
Read == /\ Len(tx') = Len(tx) - 1
        /\ \A i \in InTx' : i + 1 \in InTx /\ tx'[i] = tx[i + 1]
Written(c) == /\ Len(rx') = Len(rx) + 1
              /\ \A i \in InRx' : \/ i \in InRx /\ rx'[i] = rx[i]
                                  \/ i = Len(rx) + 1 /\ rx'[i] = c

LEMMA Takes ==
  ASSUME Typed, Typed', rx # <<>>, rx' = Tail(rx)
  PROVE  Taken /\ rx[1] = Head(rx) /\ rx[1] \in Asked /\ 1 \in InRx
<1>1. /\ Len(rx) \in Nat \ {0} /\ Len(rx') = Len(rx) - 1
      /\ Head(rx) = rx[1] /\ rx[1] \in Asked
      /\ \A i \in 1..Len(rx) - 1 : rx'[i] = rx[i + 1]
  BY TakeKeeps DEF Typed, StreamsOK
<1> QED
  BY <1>1 DEF Taken, InRx

LEMMA Reads ==
  ASSUME Typed, Typed', tx # <<>>, tx' = Tail(tx)
  PROVE  Read /\ tx[1] = Head(tx) /\ tx[1] \in Told /\ 1 \in InTx
<1>1. /\ Len(tx) \in Nat \ {0} /\ Len(tx') = Len(tx) - 1
      /\ Head(tx) = tx[1] /\ tx[1] \in Told
      /\ \A i \in 1..Len(tx) - 1 : tx'[i] = tx[i + 1]
  BY ReadKeeps DEF Typed, StreamsOK
<1> QED
  BY <1>1 DEF Read, InTx

LEMMA Writes ==
  ASSUME Typed, Typed', NEW c \in Asked, Write(<<c>>)
  PROVE  Written(c)
<1>1. /\ Len(rx) \in Nat /\ Len(rx') = Len(rx) + 1
      /\ \A i \in 1..Len(rx) : rx'[i] = rx[i]
      /\ rx'[Len(rx) + 1] = c
  BY WriteKeeps DEF Typed, StreamsOK
<1> QED
  BY <1>1 DEF Written, InRx

LEMMA Says ==
  ASSUME Typed, Typed', pc \in Talking, NEW kinds, NEW of, Sayable(kinds, of),
         Emit(Lines(kinds, of))
  PROVE  /\ Said(Len(kinds))
         /\ \A i \in InTx' : i > Len(tx) => /\ i - Len(tx) \in 1..Len(kinds)
                                          /\ tx'[i].kind = kinds[i - Len(tx)]
<1>1. /\ Len(tx) \in Nat /\ Len(kinds) \in Nat
      /\ Len(tx') = Len(tx) + Len(kinds)
      /\ \A i \in 1..Len(tx) : tx'[i] = tx[i]
      /\ \A i \in 1..Len(kinds) : tx'[Len(tx) + i] = Line(kinds[i], of)
  <2>1. tx \in Seq(Told) /\ open \in BOOLEAN /\ open
    BY DEF Typed, StreamsOK, TypeOK, HostOK
  <2> QED
    BY <2>1, EmitKeeps
<1>2. Said(Len(kinds))
  BY <1>1 DEF Said, InTx
<1>3. ASSUME NEW i \in InTx', i > Len(tx)
      PROVE  /\ i - Len(tx) \in 1..Len(kinds)
             /\ tx'[i].kind = kinds[i - Len(tx)]
  <2>1. i - Len(tx) \in 1..Len(kinds) /\ Len(tx) + (i - Len(tx)) = i
    BY <1>1, <1>3 DEF InTx
  <2>2. tx'[i] = Line(kinds[i - Len(tx)], of)
    BY <1>1, <2>1
  <2> QED
    BY <2>1, <2>2 DEF Line
<1> QED
  BY <1>2, <1>3

(* Lines that are no prompt and no +CPIN. *)
Plain == \A i \in InTx' : i > Len(tx) => tx'[i].kind \notin {">", "+CPIN"}

LEMMA PlainIsOld ==
  ASSUME NEW n \in Nat, Said(n), Plain
  PROVE  \A i \in InTx' : tx'[i].kind \in {">", "+CPIN"} =>
                             i \in InTx /\ tx'[i] = tx[i]
BY DEF Said, Plain

(* Taking a command leaves no text behind the first one.                   *)
LEMMA TakenLeavesNoText ==
  ASSUME TextHasEntry, Ints', Bounds', Taken
  PROVE  \A i \in InRx' : rx'[i].cmd # "text"
<1> SUFFICES ASSUME NEW i \in InRx', rx'[i].cmd = "text"
             PROVE  FALSE
  OBVIOUS
<1>1. i + 1 \in InRx /\ rx[i + 1].cmd = "text" /\ i \in Int
  BY DEF Taken, Ints
<1>2. i + 1 = 1
  BY <1>1 DEF TextHasEntry
<1>3. 1 <= i
  BY DEF Bounds
<1> QED
  BY <1>1, <1>2, <1>3

(* Nor does it change what the last commands written are.                  *)
LEMMA OwnCommandsStay ==
  ASSUME OwnCommands, Ints, Ints', Taken \/ rx' = rx, UNCHANGED <<step, cur>>
  PROVE  OwnCommands'
<1>1. CASE rx' = rx
  BY <1>1 DEF OwnCommands, InRx
<1>2. CASE Taken
  <2> SUFFICES ASSUME NEW j \in InRx', Len(rx') - j < step'
               PROVE  rx'[j] = Command(Dialogue[step' - (Len(rx') - j)][1], cur')
    BY DEF OwnCommands
  <2>1. /\ j \in Int /\ j + 1 \in InRx /\ rx'[j] = rx[j + 1]
        /\ Len(rx') = Len(rx) - 1 /\ Len(rx) \in Nat
    BY <1>2 DEF Taken, Ints
  <2>2. Len(rx') - j = Len(rx) - (j + 1)
    BY <2>1
  <2> QED
    BY <2>1, <2>2 DEF OwnCommands
<1> QED
  BY <1>1, <1>2

LEMMA PlainKeepsAhead ==
  ASSUME Ints, Ints', Bounds', NEW n \in Nat, Said(n), Plain, Taken
  PROVE  /\ AheadOfOk => AheadOfOk'
         /\ AheadOfPin => AheadOfPin'
<1>1. \A i \in InTx' : tx'[i].kind \in {">", "+CPIN"} =>
                             i \in InTx /\ tx'[i] = tx[i]
  BY PlainIsOld
<1>2. ASSUME NEW j \in InTx', NEW k \in InTx, j < k
      PROVE  j \in InTx /\ tx'[j] = tx[j]
  <2>1. j \in Int /\ k \in Int /\ k <= Len(tx) /\ Len(tx) \in Nat
    BY DEF Ints, InTx
  <2>2. ~(j > Len(tx))
    BY <1>2, <2>1
  <2> QED
    BY <2>2 DEF Said
<1>3. ASSUME AheadOfOk
      PROVE  AheadOfOk'
  <2>1. ASSUME NEW k \in InTx', NEW i \in InTx', NEW j \in InTx', j < k, k < i,
               tx'[k].kind = "+CPIN", tx'[i].kind = ">"
        PROVE  tx'[j].kind # "OK"
    <3>1. /\ k \in InTx /\ tx'[k] = tx[k] /\ i \in InTx /\ tx'[i] = tx[i]
          /\ j \in InTx /\ tx'[j] = tx[j]
      BY <1>1, <1>2, <2>1
    <3> QED
      BY <1>3, <2>1, <3>1 DEF AheadOfOk
  <2>2. ASSUME NEW k \in InRx', NEW q \in InRx', k < q, rx'[k].cmd = "CPIN",
               rx'[q].cmd = "CMGS"
        PROVE  FALSE
    <3>1. /\ k + 1 \in InRx /\ rx[k + 1].cmd = "CPIN" /\ k \in Int /\ 1 <= k
          /\ q + 1 \in InRx /\ rx[q + 1].cmd = "CMGS" /\ k + 1 < q + 1
      BY <2>2 DEF Taken, Ints, Bounds
    <3>2. k + 1 = 1
      BY <1>3, <3>1 DEF AheadOfOk
    <3> QED
      BY <3>1, <3>2
  <2>3. ASSUME NEW k \in InTx', NEW j \in InTx', NEW q \in InRx', j < k,
               tx'[k].kind = "+CPIN", rx'[q].cmd = "CMGS"
        PROVE  tx'[j].kind # "OK"
    <3>1. /\ k \in InTx /\ tx'[k] = tx[k] /\ j \in InTx /\ tx'[j] = tx[j]
          /\ q + 1 \in InRx /\ rx[q + 1].cmd = "CMGS"
      BY <1>1, <1>2, <2>3 DEF Taken
    <3> QED
      BY <1>3, <2>3, <3>1 DEF AheadOfOk
  <2> QED
    BY <2>1, <2>2, <2>3 DEF AheadOfOk
<1>4. ASSUME AheadOfPin
      PROVE  AheadOfPin'
  <2>1. ASSUME NEW k \in InTx', NEW i \in InTx', k < i, tx'[i].kind = ">",
               tx'[k].kind = "+CPIN"
        PROVE  FALSE
    <3>1. /\ k \in InTx /\ tx'[k] = tx[k] /\ i \in InTx /\ tx'[i] = tx[i]
      BY <1>1, <2>1
    <3> QED
      BY <1>4, <2>1, <3>1 DEF AheadOfPin
  <2>2. ASSUME NEW k \in InRx', NEW q \in InRx', k < q, rx'[k].cmd = "CPIN",
               rx'[q].cmd = "CMGS"
        PROVE  FALSE
    <3>1. /\ k + 1 \in InRx /\ rx[k + 1].cmd = "CPIN"
          /\ q + 1 \in InRx /\ rx[q + 1].cmd = "CMGS" /\ k + 1 < q + 1
      BY <2>2 DEF Taken, Ints
    <3> QED
      BY <1>4, <3>1 DEF AheadOfPin
  <2>3. ASSUME NEW k \in InTx', NEW q \in InRx', rx'[q].cmd = "CMGS",
               tx'[k].kind = "+CPIN"
        PROVE  FALSE
    <3>1. /\ k \in InTx /\ tx'[k] = tx[k] /\ q + 1 \in InRx
          /\ rx[q + 1].cmd = "CMGS"
      BY <1>1, <2>3 DEF Taken
    <3> QED
      BY <1>4, <2>3, <3>1 DEF AheadOfPin
  <2> QED
    BY <2>1, <2>2, <2>3 DEF AheadOfPin
<1> QED
  BY <1>3, <1>4

(* An answer without a prompt, when none is to be read: the modem is then  *)
(* not in text entry, and everything but the text just sent stays true.    *)
LEMMA PlainAnswer ==
  ASSUME Typed, Typed', InStep, Taken, entry' = NoEntry, \A i \in InTx : tx[i].kind # ">",
         UNCHANGED <<pc, step, cur>>,
         pc \in Talking => \E n \in Nat : Said(n) /\ Plain
  PROVE  /\ TextHasEntry'
         /\ pc' \in Talking => Prompted'
         /\ pc' = "ask" => Asking'
<1>1. Ints /\ Ints' /\ Bounds' /\ step \in 1..6
  BY BoundsHold, BoundsNext, TypedParts DEF RestOK
<1>2. TextHasEntry'
  BY <1>1, TakenLeavesNoText DEF InStep, TextHasEntry
<1>3. ASSUME pc \in Talking
      PROVE  Prompted'
  <2>1. PICK n \in Nat : Said(n) /\ Plain
    BY <1>3
  <2>2. \A i \in InTx' : tx'[i].kind # ">"
    BY <2>1, PlainIsOld
  <2> QED
    BY <2>2 DEF Prompted, PromptHasEntry, OnlyNoiseFollows, PromptFollows, OnePrompt
<1>4. ASSUME pc = "ask"
      PROVE  Asking'
  <2>1. PICK n \in Nat : Said(n) /\ Plain
    BY <1>4 DEF Talking
  <2>2. Asking
    BY <1>4 DEF InStep
  <2>3. OwnCommands'
    BY <1>1, <2>1, <2>2, OwnCommandsStay DEF Asking
  <2>4. (step = 1 => AheadOfOk') /\ (step = 2 => AheadOfPin')
    BY <1>1, <2>1, <2>2, PlainKeepsAhead DEF Asking
  <2>5. step \in 3..5 => NoOlderPrompt'
    BY <2>2 DEF Asking, NoOlderPrompt, Taken
  <2>6. step = 6 => OwnPrompt'
    <3> SUFFICES ASSUME step = 6, NEW q \in InRx', rx'[q].cmd = "CMGS"
                 PROVE  q = Len(rx')
      BY DEF OwnPrompt
    <3>1. /\ q + 1 \in InRx /\ rx[q + 1].cmd = "CMGS" /\ q \in Int
          /\ Len(rx') = Len(rx) - 1 /\ Len(rx) \in Nat
      BY <1>1 DEF Taken, Ints
    <3>2. rx # <<>>
      BY <3>1 DEF InRx
    <3>3. q + 1 = Len(rx)
      BY <2>2, <3>1, <3>2 DEF Asking, OwnPrompt
    <3> QED
      BY <3>1, <3>3
  <2> QED
    BY <2>3, <2>4, <2>5, <2>6 DEF Asking
<1> QED
  BY <1>2, <1>3, <1>4

(* A text's entry is not the one of no message. *)
LEMMA EntryOfSms ==
  ASSUME NEW m \in Sms, NEW b
  PROVE  [to |-> m, clean |-> b] # NoEntry
<1>1. m # None
  BY ModemAssumption DEF Sms, None
<1> QED
  BY <1>1 DEF NoEntry

LEMMA NoTextOutsideEntry ==
  ASSUME Typed, TextHasEntry, entry = NoEntry
  PROVE  \A i \in InRx : rx[i].cmd # "text"
<1> SUFFICES ASSUME NEW i \in InRx, rx[i].cmd = "text"
             PROVE  FALSE
  OBVIOUS
<1>1. rx[i].of \in Sms
  BY BoundsHold DEF Asked
<1>2. entry = [to |-> rx[i].of, clean |-> TRUE]
  BY DEF TextHasEntry
<1> QED
  BY <1>1, <1>2, EntryOfSms

(* While the answer to the text is awaited the modem is in text entry as   *)
(* long as it has anything to do.                                          *)
LEMMA FinalEntry ==
  ASSUME Typed, OwnText, pc \in Talking, rx # <<>>
  PROVE  entry # NoEntry /\ rx[1] = Command("text", cur) /\ Len(rx) = 1
<1>1. cur \in Sms
  BY DEF Typed, HostOK, Pending
<1> QED
  BY <1>1, EntryOfSms DEF OwnText

(* Calls. *)
LEMMA VoiceFollowing ==
  ASSUME Typed, Typed', InStep, ModemVoice
  PROVE  InStep'
<1>1. /\ rx # <<>> /\ rx' = Tail(rx) /\ entry = NoEntry
      /\ Head(rx).cmd \in {"ATD", "CHUP"}
      /\ UNCHANGED <<rowVars, hostVars, entry, history>>
  BY DEF ModemVoice
<1>2. /\ Taken /\ rx[1] = Head(rx) /\ rx[1] \in Asked
  BY <1>1, Takes
<1>3. ASSUME pc \in Talking
      PROVE  \E n \in Nat : Said(n) /\ Plain
  <2>1. PICK of \in Call \cup {None},
            kinds \in {<<"OK">>, <<"ERROR">>, <<"OK", "END long", "NO CARRIER">>} :
          Emit(Lines(kinds, of))
    <3>1. Head(rx).cmd = "ATD" => Head(rx).of \in Call
      BY <1>2 DEF Asked
    <3>2. voice.call \in Call \cup {None}
      BY DEF Typed, TypeOK
    <3> QED
      BY <3>1, <3>2 DEF ModemVoice
  <2>2. Sayable(kinds, of)
    BY VoiceSayable
  <2>3. /\ Said(Len(kinds))
        /\ \A i \in InTx' : i > Len(tx) => /\ i - Len(tx) \in 1..Len(kinds)
                                         /\ tx'[i].kind = kinds[i - Len(tx)]
    BY <1>3, <2>1, <2>2, Says
  <2>4. /\ Len(kinds) \in Nat /\ Len(kinds) >= 1
        /\ \A i \in 1..Len(kinds) : kinds[i] \notin {">", "+CPIN"}
    <3>1. CASE kinds = <<"OK">>
      BY <3>1
    <3>2. CASE kinds = <<"ERROR">>
      BY <3>2
    <3>3. CASE kinds = <<"OK", "END long", "NO CARRIER">>
      <4>1. /\ Len(kinds) \in Nat /\ Len(kinds) >= 1
            /\ \A i \in 1..Len(kinds) : kinds[i] \in {"OK", "END long", "NO CARRIER"}
        BY <3>3, ThreeLong, Zenon
      <4> QED
        BY <4>1, Zenon
    <3> QED
      BY <2>1, <3>1, <3>2, <3>3
  <2>5. Plain
    BY <2>3, <2>4 DEF Plain
  <2> QED
    BY <2>3, <2>4, <2>5
<1>4. CASE pc \in Talking
  <2>1. \A i \in InTx : tx[i].kind # ">"
    BY <1>1, <1>4 DEF InStep, Prompted, PromptHasEntry
  <2>2. /\ TextHasEntry'
        /\ pc' \in Talking => Prompted'
        /\ pc' = "ask" => Asking'
    BY <1>1, <1>2, <1>3, <2>1, PlainAnswer DEF hostVars
  <2>3. pc # "final"
    BY <1>1, <1>4, FinalEntry DEF InStep
  <2> QED
    BY <1>1, <2>2, <2>3 DEF InStep, hostVars, history
<1>5. CASE pc \notin Talking
  <2>1. TextHasEntry'
    BY <1>2, BoundsHold, BoundsNext, TakenLeavesNoText
    DEF InStep, TextHasEntry
  <2> QED
    BY <1>1, <1>5, <2>1 DEF InStep, hostVars, Talking
<1> QED
  BY <1>4, <1>5

(* AT+CPIN? is answered: +CPIN and OK.                                     *)
PinAnswer ==
    /\ pc \in Talking /\ Taken /\ Said(2)
    /\ 1 \in InRx /\ rx[1].cmd = "CPIN" /\ entry = NoEntry /\ entry' = NoEntry
    /\ UNCHANGED <<pc, step, cur>>
    /\ \A i \in InTx' : i > Len(tx) =>
         /\ tx'[i].kind \in {"+CPIN", "OK"}
         /\ tx'[i].kind = "+CPIN" => i = Len(tx) + 1

LEMMA PinLines ==
  ASSUME Typed, Typed', InStep, PinAnswer
  PROVE  /\ \A i \in InTx' :
              \/ i \in InTx /\ tx'[i] = tx[i] /\ i <= Len(tx)
              \/ i = Len(tx) + 1 /\ tx'[i].kind \in {"+CPIN", "OK"}
              \/ i = Len(tx) + 2 /\ tx'[i].kind = "OK"
         /\ \A q \in InRx' : rx'[q].cmd = "CMGS" =>
              /\ q + 1 \in InRx /\ rx[q + 1].cmd = "CMGS" /\ q \in Int /\ 1 <= q
              /\ 1 < q + 1
         /\ \A i \in InTx : tx[i].kind # ">"
         /\ \A i \in InTx' : tx'[i].kind # ">"
<1>1. Ints /\ Ints' /\ Bounds /\ Bounds' /\ step \in 1..6
  BY BoundsHold, BoundsNext, TypedParts DEF RestOK
<1>2. ASSUME NEW i \in InTx'
      PROVE  \/ i \in InTx /\ tx'[i] = tx[i] /\ i <= Len(tx)
             \/ i = Len(tx) + 1 /\ tx'[i].kind \in {"+CPIN", "OK"}
             \/ i = Len(tx) + 2 /\ tx'[i].kind = "OK"
  <2>1. i \in Int /\ i <= Len(tx) + 2 /\ Len(tx) \in Nat
    BY <1>1 DEF PinAnswer, Said, Ints, Bounds
  <2>2. i > Len(tx) => i = Len(tx) + 1 \/ i = Len(tx) + 2
    BY <2>1
  <2>3. ~(i > Len(tx)) => i <= Len(tx)
    BY <2>1
  <2>4. i # Len(tx) + 1 \/ i # Len(tx) + 2
    BY <2>1
  <2> QED
    BY <2>1, <2>2, <2>3, <2>4 DEF PinAnswer, Said
<1>3. ASSUME NEW q \in InRx', rx'[q].cmd = "CMGS"
      PROVE  /\ q + 1 \in InRx /\ rx[q + 1].cmd = "CMGS" /\ q \in Int /\ 1 <= q
             /\ 1 < q + 1
  <2>1. q + 1 \in InRx /\ rx[q + 1].cmd = "CMGS" /\ q \in Int /\ 1 <= q
    BY <1>1, <1>3 DEF PinAnswer, Taken, Ints, Bounds
  <2> QED
    BY <2>1
<1>4. /\ \A i \in InTx : tx[i].kind # ">"
      /\ \A i \in InTx' : tx'[i].kind # ">"
  <2>1. \A i \in InTx : tx[i].kind # ">"
    BY DEF PinAnswer, InStep, Prompted, PromptHasEntry
  <2> QED
    BY <1>2, <2>1
<1> QED
  BY <1>2, <1>3, <1>4

LEMMA PinAsking ==
  ASSUME Typed, Typed', InStep, PinAnswer, pc = "ask"
  PROVE  Asking'
<1>1. Ints /\ Ints' /\ Bounds /\ Bounds' /\ step \in 1..6
  BY BoundsHold, BoundsNext, TypedParts DEF RestOK
<1>2. \A i \in InTx' :
              \/ i \in InTx /\ tx'[i] = tx[i] /\ i <= Len(tx)
              \/ i = Len(tx) + 1 /\ tx'[i].kind \in {"+CPIN", "OK"}
              \/ i = Len(tx) + 2 /\ tx'[i].kind = "OK"
  BY PinLines
<1>3. \A q \in InRx' : rx'[q].cmd = "CMGS" =>
              /\ q + 1 \in InRx /\ rx[q + 1].cmd = "CMGS" /\ q \in Int /\ 1 <= q
              /\ 1 < q + 1
  BY PinLines
<1>4. /\ \A i \in InTx : tx[i].kind # ">"
      /\ \A i \in InTx' : tx'[i].kind # ">"
  BY PinLines
<1>p. /\ pc \in Talking /\ Taken /\ Said(2) /\ 1 \in InRx /\ rx[1].cmd = "CPIN"
      /\ entry = NoEntry /\ entry' = NoEntry /\ UNCHANGED <<pc, step, cur>>
  BY DEF PinAnswer
<1>5. Asking
  BY DEF InStep
<1>6. OwnCommands'
  BY <1>p, <1>1, <1>5, OwnCommandsStay DEF Asking
<1>7. ASSUME step = 1
      PROVE  AheadOfOk'
  <2>1. AheadOfOk
    BY <1>5, <1>7 DEF Asking
  <2>2. ASSUME NEW k \in InRx', NEW q \in InRx', k < q, rx'[k].cmd = "CPIN",
               rx'[q].cmd = "CMGS"
        PROVE  FALSE
    <3>1. /\ k + 1 \in InRx /\ rx[k + 1].cmd = "CPIN" /\ k \in Int /\ 1 <= k
          /\ q + 1 \in InRx /\ rx[q + 1].cmd = "CMGS" /\ k + 1 < q + 1
      <4>1. /\ k + 1 \in InRx /\ rx[k + 1].cmd = "CPIN"
            /\ q + 1 \in InRx /\ rx[q + 1].cmd = "CMGS"
        BY <1>p, <2>2 DEF Taken
      <4>2. k \in Int /\ q \in Int /\ 1 <= k
        BY <1>1, <1>p DEF Ints, Bounds
      <4> QED
        BY <2>2, <4>1, <4>2
    <3>2. k + 1 = 1
      BY <2>1, <3>1 DEF AheadOfOk
    <3> QED
      BY <3>1, <3>2
  <2>3. ASSUME NEW k \in InTx', NEW j \in InTx', NEW q \in InRx', j < k,
               tx'[k].kind = "+CPIN", rx'[q].cmd = "CMGS"
        PROVE  tx'[j].kind # "OK"
    <3>1. /\ q + 1 \in InRx /\ rx[q + 1].cmd = "CMGS" /\ 1 < q + 1
          /\ j \in Int /\ k \in Int /\ Len(tx) \in Nat
      BY <1>p, <1>1, <1>3, <2>3 DEF Ints
    <3>2. \A i \in InTx : tx[i].kind # "OK"
      BY <1>p, <2>1, <3>1 DEF AheadOfOk
    <3>3. k <= Len(tx) + 1
      BY <1>2, <2>3, <3>1
    <3>4. j \in InTx /\ tx'[j] = tx[j]
      BY <1>2, <2>3, <3>1, <3>3
    <3> QED
      BY <3>2, <3>4
  <2> QED
    BY <1>4, <2>2, <2>3 DEF AheadOfOk
<1>8. ASSUME step = 2
       PROVE  AheadOfPin'
  <2>1. AheadOfPin
    BY <1>5, <1>8 DEF Asking
  <2>2. ASSUME NEW q \in InRx', rx'[q].cmd = "CMGS"
        PROVE  FALSE
    <3>1. q + 1 \in InRx /\ rx[q + 1].cmd = "CMGS" /\ 1 < q + 1
      BY <1>3, <2>2
    <3> QED
      BY <1>p, <2>1, <3>1 DEF AheadOfPin
  <2> QED
    BY <1>4, <2>2 DEF AheadOfPin
<1>9. step \in 3..5 => NoOlderPrompt'
  BY <1>p, <1>5 DEF Asking, NoOlderPrompt, Taken
<1>10. step = 6 => OwnPrompt'
  <2> SUFFICES ASSUME step = 6, NEW q \in InRx', rx'[q].cmd = "CMGS"
               PROVE  q = Len(rx')
    BY <1>p DEF OwnPrompt
  <2>1. /\ q + 1 \in InRx /\ rx[q + 1].cmd = "CMGS" /\ q \in Int
        /\ Len(rx') = Len(rx) - 1 /\ Len(rx) \in Nat
    BY <1>p, <1>1 DEF Taken, Ints
  <2>2. rx # <<>>
    BY <2>1 DEF InRx
  <2>3. q + 1 = Len(rx)
    BY <1>5, <2>1, <2>2 DEF Asking, OwnPrompt
  <2> QED
    BY <2>1, <2>3
<1> QED
  BY <1>p, <1>6, <1>7, <1>8, <1>9, <1>10 DEF Asking

(* AT+CMGS is answered with the prompt, and the modem is in text entry.    *)
PromptAnswer ==
    /\ pc \in Talking /\ Taken /\ Said(1)
    /\ 1 \in InRx /\ rx[1].cmd = "CMGS" /\ entry = NoEntry
    /\ entry' = [to |-> rx[1].of, clean |-> TRUE] /\ entry' # NoEntry
    /\ UNCHANGED <<pc, step, cur>>
    /\ \A i \in InTx' : i > Len(tx) => tx'[i].kind = ">"

LEMMA PromptLines ==
  ASSUME Typed, Typed', InStep, PromptAnswer
  PROVE  /\ \A i \in InTx' : \/ i \in InTx /\ tx'[i] = tx[i] /\ i <= Len(tx)
                             \/ i = Len(tx) + 1 /\ tx'[i].kind = ">"
         /\ Len(tx) + 1 \in InTx' /\ tx'[Len(tx) + 1].kind = ">"
         /\ \A i \in InTx : tx[i].kind # ">"
<1>1. Ints /\ Ints' /\ Bounds /\ Bounds'
  BY BoundsHold, BoundsNext
<1>2. ASSUME NEW i \in InTx'
      PROVE  \/ i \in InTx /\ tx'[i] = tx[i] /\ i <= Len(tx)
             \/ i = Len(tx) + 1 /\ tx'[i].kind = ">"
  <2>1. i \in Int /\ i <= Len(tx) + 1 /\ Len(tx) \in Nat
    BY <1>1 DEF PromptAnswer, Said, Ints, Bounds
  <2>2. i > Len(tx) => i = Len(tx) + 1
    BY <2>1
  <2>3. ~(i > Len(tx)) => i <= Len(tx)
    BY <2>1
  <2> QED
    BY <2>1, <2>2, <2>3 DEF PromptAnswer, Said
<1>3. Len(tx) + 1 \in InTx'
  <2>1. Len(tx) \in Nat /\ Len(tx') = Len(tx) + 1
    BY <1>1 DEF PromptAnswer, Said, Ints
  <2> QED
    BY <2>1 DEF InTx
<1>4. tx'[Len(tx) + 1].kind = ">"
  <2>1. Len(tx) \in Nat /\ Len(tx) + 1 > Len(tx)
    BY <1>1 DEF Ints
  <2> QED
    BY <1>3, <2>1 DEF PromptAnswer
<1>5. \A i \in InTx : tx[i].kind # ">"
  BY DEF PromptAnswer, InStep, Prompted, PromptHasEntry
<1> QED
  BY <1>2, <1>3, <1>4, <1>5

LEMMA PromptPrompted ==
  ASSUME Typed, Typed', InStep, PromptAnswer
  PROVE  Prompted'
<1>1. Ints /\ Ints' /\ Bounds /\ Bounds'
  BY BoundsHold, BoundsNext
<1>2. \A i \in InTx' : \/ i \in InTx /\ tx'[i] = tx[i] /\ i <= Len(tx)
                       \/ i = Len(tx) + 1 /\ tx'[i].kind = ">"
  BY PromptLines
<1>3. Len(tx) + 1 \in InTx' /\ tx'[Len(tx) + 1].kind = ">"
  BY PromptLines
<1>4. \A i \in InTx : tx[i].kind # ">"
  BY PromptLines
<1>5. \A i \in InTx' : tx'[i].kind = ">" => i = Len(tx) + 1
  BY <1>2, <1>4
<1>6. /\ pc \in Talking /\ Taken /\ Said(1) /\ 1 \in InRx /\ rx[1].cmd = "CMGS"
      /\ entry' # NoEntry
  BY DEF PromptAnswer
<1>7. PromptHasEntry'
  <2>1. 1 \in InRx' => rx'[1].cmd # "text"
    BY <1>1, <1>6, TakenLeavesNoText DEF InStep
  <2>2. rx' # <<>> => 1 \in InRx'
    BY <1>1, BoundsNext DEF InRx, Ints
  <2> QED
    BY <1>6, <2>1, <2>2 DEF PromptHasEntry
<1>8. OnlyNoiseFollows'
  <2> SUFFICES ASSUME NEW i \in InTx', NEW j \in InTx', i < j, tx'[i].kind = ">"
               PROVE  FALSE
    BY DEF OnlyNoiseFollows
  <2>1. i = Len(tx) + 1 /\ j \in Int /\ Len(tx) \in Nat
    BY <1>1, <1>5 DEF Ints
  <2>2. j <= Len(tx) + 1
    BY <1>2, <2>1
  <2> QED
    BY <2>1, <2>2
<1>9. PromptFollows'
  <2> SUFFICES ASSUME NEW j \in InTx', tx'[j].kind \notin Noise
               PROVE  \E i \in InTx' : j < i /\ tx'[i].kind = ">"
    BY DEF PromptFollows
  <2>1. j <= Len(tx)
    BY <1>2 DEF Noise
  <2>2. j \in Int /\ Len(tx) \in Nat
    BY <1>1 DEF Ints
  <2>3. j < Len(tx) + 1
    BY <2>1, <2>2
  <2> QED
    BY <1>3, <2>3
<1>10. OnePrompt'
  BY <1>5 DEF OnePrompt
<1> QED
  BY <1>7, <1>8, <1>9, <1>10 DEF Prompted

LEMMA PromptAsking ==
  ASSUME Typed, Typed', InStep, PromptAnswer, pc = "ask"
  PROVE  Asking'
<1>1. Ints /\ Ints' /\ Bounds /\ Bounds' /\ step \in 1..6
  BY BoundsHold, BoundsNext, TypedParts DEF RestOK
<1>2. \A i \in InTx' : \/ i \in InTx /\ tx'[i] = tx[i] /\ i <= Len(tx)
                       \/ i = Len(tx) + 1 /\ tx'[i].kind = ">"
  BY PromptLines
<1>3. \A i \in InTx : tx[i].kind # ">"
  BY PromptLines
<1>4. \A i \in InTx' : tx'[i].kind # ">" => i \in InTx /\ tx'[i] = tx[i]
  BY <1>2
<1>5. /\ Taken /\ Said(1) /\ 1 \in InRx /\ rx[1].cmd = "CMGS"
      /\ UNCHANGED <<pc, step, cur>>
      /\ entry = NoEntry /\ entry' = [to |-> rx[1].of, clean |-> TRUE]
  BY DEF PromptAnswer
<1>6. Asking
  BY DEF InStep
<1>7. OwnCommands'
  BY <1>1, <1>5, <1>6, OwnCommandsStay DEF Asking
<1>8. ASSUME step = 1
       PROVE  AheadOfOk'
  <2>1. AheadOfOk
    BY <1>6, <1>8 DEF Asking
  <2>2. ASSUME NEW k \in InTx', NEW j \in InTx', j < k, tx'[k].kind = "+CPIN"
        PROVE  tx'[j].kind # "OK"
    <3>1. k \in InTx /\ tx[k].kind = "+CPIN"
      BY <1>4, <2>2
    <3>2. CASE tx'[j].kind = ">"
      BY <3>2
    <3>3. CASE j \in InTx /\ tx'[j] = tx[j]
      BY <1>5, <2>1, <2>2, <3>1, <3>3 DEF AheadOfOk
    <3> QED
      BY <1>4, <3>2, <3>3
  <2>3. ASSUME NEW k \in InRx', NEW q \in InRx', k < q, rx'[k].cmd = "CPIN",
               rx'[q].cmd = "CMGS"
        PROVE  FALSE
    <3>1. /\ k + 1 \in InRx /\ rx[k + 1].cmd = "CPIN" /\ k \in Int /\ 1 <= k
          /\ q + 1 \in InRx /\ rx[q + 1].cmd = "CMGS" /\ k + 1 < q + 1
      BY <1>1, <1>5, <2>3 DEF Taken, Ints, Bounds
    <3>2. k + 1 = 1
      BY <2>1, <3>1 DEF AheadOfOk
    <3> QED
      BY <3>1, <3>2
  <2> QED
    BY <2>2, <2>3 DEF AheadOfOk
<1>9. ASSUME step = 2
       PROVE  AheadOfPin'
  <2>1. AheadOfPin
    BY <1>6, <1>9 DEF Asking
  <2>2. ASSUME NEW k \in InTx', tx'[k].kind = "+CPIN"
        PROVE  FALSE
    <3>1. k \in InTx /\ tx[k].kind = "+CPIN"
      BY <1>4, <2>2
    <3> QED
      BY <1>5, <2>1, <3>1 DEF AheadOfPin
  <2>3. ASSUME NEW k \in InRx', NEW q \in InRx', k < q, rx'[k].cmd = "CPIN",
               rx'[q].cmd = "CMGS"
        PROVE  FALSE
    <3>1. /\ k + 1 \in InRx /\ rx[k + 1].cmd = "CPIN"
          /\ q + 1 \in InRx /\ rx[q + 1].cmd = "CMGS" /\ k + 1 < q + 1
      BY <1>1, <1>5, <2>3 DEF Taken, Ints
    <3> QED
      BY <2>1, <3>1 DEF AheadOfPin
  <2> QED
    BY <2>2, <2>3 DEF AheadOfPin
<1>10. step \notin 3..5
  BY <1>5, <1>6 DEF Asking, NoOlderPrompt
<1>11. ASSUME step = 6
       PROVE  OwnPrompt'
  <2>1. rx # <<>> /\ OwnPrompt /\ OwnCommands
    BY <1>5, <1>6, <1>11 DEF Asking, InRx
  <2>2. Len(rx) = 1
    BY <1>5, <2>1 DEF OwnPrompt
  <2>3. rx[1] = Command(Dialogue[6][1], cur)
    <3>1. Len(rx) - 1 < step /\ step - (Len(rx) - 1) = 6
      BY <1>11, <2>2
    <3> QED
      BY <1>5, <2>1, <3>1 DEF OwnCommands
  <2>4. entry' = [to |-> cur, clean |-> TRUE]
    BY <1>5, <2>3 DEF Command
  <2>5. Len(rx') = 0
    BY <1>5, <2>2 DEF Taken
  <2>6. rx' = <<>>
    BY <2>5, BoundsNext
  <2> QED
    BY <1>5, <2>4, <2>6 DEF OwnPrompt
<1> QED
  BY <1>1, <1>5, <1>7, <1>8, <1>9, <1>10, <1>11 DEF Asking

(* An answer to a command outside text entry.                              *)
LEMMA AnswersFollowing ==
  ASSUME Typed, Typed', InStep, ModemAnswers
  PROVE  InStep'
<1>1. /\ rx # <<>> /\ rx' = Tail(rx) /\ entry = NoEntry
      /\ Head(rx).cmd \notin {"ATD", "CHUP"}
      /\ UNCHANGED <<rowVars, hostVars, voice, history>>
  BY DEF ModemAnswers
<1>2. /\ Taken /\ rx[1] = Head(rx) /\ rx[1] \in Asked /\ 1 \in InRx
  BY <1>1, Takes
<1>3. PICK kinds \in Answers(Head(rx)) :
         /\ Emit(Lines(kinds, Head(rx).of))
         /\ entry' = IF kinds = <<">">> THEN [to |-> Head(rx).of, clean |-> TRUE]
                     ELSE entry
  BY DEF ModemAnswers
<1>4. /\ rx[1].cmd # "text" /\ \A i \in InRx : rx[i].cmd # "text"
      /\ rx[1].of \in Sms
  BY <1>1, <1>2, NoTextOutsideEntry DEF InStep, Asked
<1>5. CASE pc \notin Talking
  <2>1. \A i \in InRx' : rx'[i].cmd # "text"
    BY <1>2, BoundsHold, BoundsNext, TakenLeavesNoText DEF InStep
  <2> QED
    BY <1>1, <1>5, <2>1 DEF InStep, hostVars, Talking, TextHasEntry
<1>6. CASE pc \in Talking
  <2>1. \A i \in InTx : tx[i].kind # ">"
    BY <1>1, <1>6 DEF InStep, Prompted, PromptHasEntry
  <2>2. pc # "final"
    BY <1>1, <1>6, FinalEntry DEF InStep
  <2>3. \A i \in InRx' : rx'[i].cmd # "text"
    BY <1>2, BoundsHold, BoundsNext, TakenLeavesNoText DEF InStep
  <2>4. TextHasEntry'
    BY <2>3 DEF TextHasEntry
  <2>5. Sayable(kinds, Head(rx).of)
    BY <1>1, <1>2, AnswersSayable
  <2>6. /\ Said(Len(kinds))
        /\ \A i \in InTx' : i > Len(tx) => /\ i - Len(tx) \in 1..Len(kinds)
                                         /\ tx'[i].kind = kinds[i - Len(tx)]
    BY <1>3, <1>6, <2>5, Says
  <2>7. UNCHANGED <<pc, step, cur, result, accepted>>
    BY <1>1 DEF hostVars, history
  <2>8. Prompted' /\ (pc = "ask" => Asking')
    <3>1. CASE kinds = <<">">>
      <4>1. rx[1].cmd = "CMGS"
        BY <1>2, <1>3, <3>1 DEF Answers
      <4>2. entry' = [to |-> rx[1].of, clean |-> TRUE] /\ entry' # NoEntry
        BY <1>2, <1>3, <1>4, <3>1, EntryOfSms
      <4>3. Len(kinds) = 1 /\ kinds[1] = ">"
        BY <3>1, OneFacts
      <4>4. \A i \in InTx' : i > Len(tx) => tx'[i].kind = ">"
        BY <2>6, <4>3
      <4>5. PromptAnswer
        BY <1>1, <1>2, <1>6, <2>6, <2>7, <4>1, <4>2, <4>3, <4>4 DEF PromptAnswer
      <4> QED
        BY <4>5, PromptPrompted, PromptAsking
    <3>2. CASE kinds = <<"+CPIN", "OK">>
      <4>1. rx[1].cmd = "CPIN"
        BY <1>2, <1>3, <3>2 DEF Answers
      <4>2. entry' = NoEntry
        BY <1>1, <1>3, <3>2
      <4>3. Len(kinds) = 2 /\ kinds[1] = "+CPIN" /\ kinds[2] = "OK"
        BY <3>2, TwoLong
      <4>4. \A i \in InTx' : i > Len(tx) =>
               /\ tx'[i].kind \in {"+CPIN", "OK"}
               /\ tx'[i].kind = "+CPIN" => i = Len(tx) + 1
        <5> SUFFICES ASSUME NEW i \in InTx', i > Len(tx)
                     PROVE  /\ tx'[i].kind \in {"+CPIN", "OK"}
                            /\ tx'[i].kind = "+CPIN" => i = Len(tx) + 1
          OBVIOUS
        <5>1. i - Len(tx) \in 1..2 /\ tx'[i].kind = kinds[i - Len(tx)]
          BY <2>6, <4>3
        <5>2. i \in Int /\ Len(tx) \in Nat
          BY BoundsHold, BoundsNext DEF Ints
        <5>3. CASE i - Len(tx) = 1
          BY <4>3, <5>1, <5>2, <5>3
        <5>4. CASE i - Len(tx) = 2
          BY <4>3, <5>1, <5>4
        <5> QED
          BY <5>1, <5>2, <5>3, <5>4
      <4>5. PinAnswer
        BY <1>1, <1>2, <1>6, <2>6, <2>7, <4>1, <4>2, <4>3, <4>4 DEF PinAnswer
      <4>6. Prompted'
        <5>1. \A i \in InTx' : tx'[i].kind # ">"
          BY <4>5, PinLines
        <5> QED
          BY <4>2, <5>1 DEF Prompted, PromptHasEntry, OnlyNoiseFollows,
                            PromptFollows, OnePrompt
      <4> QED
        BY <4>5, <4>6, PinAsking
    <3>3. CASE kinds \notin {<<">">>, <<"+CPIN", "OK">>}
      <4>1. entry' = NoEntry
        BY <1>1, <1>3, <3>3
      <4>2. kinds \in {<<"+CPIN locked", "OK">>, <<"ERROR">>, <<"+CSQ", "OK">>, <<"OK">>}
        BY <1>3, <3>3 DEF Answers
      <4>3. /\ Len(kinds) \in Nat /\ Len(kinds) >= 1
            /\ \A i \in 1..Len(kinds) : kinds[i] \notin {">", "+CPIN"}
        <5>1. CASE kinds = <<"ERROR">>
          BY <5>1
        <5>2. CASE kinds = <<"OK">>
          BY <5>2
        <5>3. CASE kinds = <<"+CPIN locked", "OK">>
          <6>1. /\ Len(kinds) \in Nat /\ Len(kinds) >= 1
                /\ \A i \in 1..Len(kinds) : kinds[i] \in {"+CPIN locked", "OK"}
            BY <5>3, TwoLong, Zenon
          <6> QED
            BY <6>1, Zenon
        <5>4. CASE kinds = <<"+CSQ", "OK">>
          <6>1. /\ Len(kinds) \in Nat /\ Len(kinds) >= 1
                /\ \A i \in 1..Len(kinds) : kinds[i] \in {"+CSQ", "OK"}
            BY <5>4, TwoLong, Zenon
          <6> QED
            BY <6>1, Zenon
        <5> QED
          BY <4>2, <5>1, <5>2, <5>3, <5>4
      <4>4. Plain
        BY <2>6, <4>3 DEF Plain
      <4> QED
        BY <1>2, <1>6, <2>1, <2>6, <2>7, <4>1, <4>3, <4>4, PlainAnswer
    <3> QED
      BY <3>1, <3>2, <3>3
  <2> QED
    BY <1>6, <2>2, <2>3, <2>4, <2>7, <2>8 DEF InStep
<1> QED
  BY <1>5, <1>6

(* In text entry a command is taken as text and brings another prompt.     *)
LEMMA TextFollowing ==
  ASSUME Typed, Typed', InStep, ModemTakesAsText
  PROVE  InStep'
<1>1. /\ rx # <<>> /\ rx' = Tail(rx) /\ entry # NoEntry
      /\ Head(rx).cmd # "text"
      /\ entry' = [entry EXCEPT !.clean = FALSE]
      /\ Emit(<<Line(">", entry.to)>>)
      /\ UNCHANGED <<rowVars, hostVars, voice, history>>
  BY DEF ModemTakesAsText
<1>2. /\ Taken /\ rx[1] = Head(rx) /\ 1 \in InRx
  BY <1>1, Takes
<1>3. Ints /\ Ints' /\ Bounds /\ Bounds' /\ step \in 1..6
  BY BoundsHold, BoundsNext, TypedParts DEF RestOK
<1>4. entry' # NoEntry /\ entry'.clean = FALSE
  <2>1. entry \in [to : Sms \cup {None}, clean : BOOLEAN]
    BY DEF Typed, TypeOK
  <2>2. entry'.clean = FALSE
    BY <1>1, <2>1
  <2>3. NoEntry.clean = TRUE
    BY DEF NoEntry
  <2> QED
    BY <2>2, <2>3
<1>5. TextHasEntry'
  <2>1. \A i \in InRx' : rx'[i].cmd # "text"
    BY <1>2, <1>3, TakenLeavesNoText DEF InStep
  <2> QED
    BY <2>1 DEF TextHasEntry
<1>6. ASSUME pc \in Talking
      PROVE  /\ Said(1)
             /\ \A i \in InTx' : \/ i \in InTx /\ tx'[i] = tx[i] /\ i <= Len(tx)
                                 \/ i = Len(tx) + 1 /\ tx'[i].kind = ">"
             /\ Len(tx) + 1 \in InTx' /\ tx'[Len(tx) + 1].kind = ">"
  <2>1. <<Line(">", entry.to)>> = Lines(<<">">>, entry.to)
    BY DEF Lines
  <2>2. entry.to \in Sms \cup {None}
    BY DEF Typed, TypeOK
  <2>3. Sayable(<<">">>, entry.to)
    BY <2>2, SmsSayable
  <2>4. Len(<<">">>) = 1 /\ <<">">>[1] = ">"
    BY OneFacts
  <2>5. /\ Said(1)
        /\ \A i \in InTx' : i > Len(tx) => /\ i - Len(tx) \in 1..1
                                         /\ tx'[i].kind = <<">">>[i - Len(tx)]
    BY <1>1, <1>6, <2>1, <2>3, <2>4, Says
  <2>6. ASSUME NEW i \in InTx'
        PROVE  \/ i \in InTx /\ tx'[i] = tx[i] /\ i <= Len(tx)
               \/ i = Len(tx) + 1 /\ tx'[i].kind = ">"
    <3>1. i \in Int /\ Len(tx) \in Nat
      BY <1>3 DEF Ints
    <3>2. CASE i > Len(tx)
      <4>1. i - Len(tx) = 1
        BY <2>5, <3>1, <3>2
      <4> QED
        BY <2>4, <2>5, <3>1, <3>2, <4>1
    <3>3. CASE ~(i > Len(tx))
      BY <2>5, <3>1, <3>3 DEF Said
    <3> QED
      BY <3>2, <3>3
  <2>7. Len(tx) + 1 \in InTx'
    <3>1. Len(tx) \in Nat /\ Len(tx') = Len(tx) + 1
      BY <1>3, <2>5 DEF Said, Ints
    <3> QED
      BY <3>1 DEF InTx
  <2>8. tx'[Len(tx) + 1].kind = ">"
    <3>1. Len(tx) \in Nat /\ Len(tx) + 1 # Len(tx) /\ ~(Len(tx) + 1 <= Len(tx))
      BY <1>3 DEF Ints
    <3> QED
      BY <2>6, <2>7, <3>1
  <2> QED
    BY <2>5, <2>6, <2>7, <2>8
<1>7. ASSUME pc \in Talking, NEW k \in InTx', tx'[k].kind \notin Noise
      PROVE  /\ k \in InTx /\ tx'[k] = tx[k]
             /\ \E i \in InTx : k < i /\ tx[i].kind = ">"
  <2>1. k \in InTx /\ tx'[k] = tx[k]
    BY <1>6, <1>7 DEF Noise
  <2> QED
    BY <1>1, <1>7, <2>1 DEF InStep, Prompted, PromptFollows
<1>8. "+CPIN" \notin Noise
  BY DEF Noise, Events, EndKinds
<1>9. ASSUME pc \in Talking
       PROVE  Prompted'
  <2>1. PromptHasEntry'
    <3>1. 1 \in InRx' => rx'[1].cmd # "text"
      BY <1>2, <1>3, TakenLeavesNoText DEF InStep
    <3>2. rx' # <<>> => 1 \in InRx'
      BY <1>3, BoundsNext DEF InRx, Ints
    <3> QED
      BY <1>4, <3>1, <3>2 DEF PromptHasEntry
  <2>2. OnlyNoiseFollows'
    <3> SUFFICES ASSUME NEW i \in InTx', NEW j \in InTx', i < j, tx'[i].kind = ">",
                        tx'[j].kind \notin Noise
                 PROVE  FALSE
      BY DEF OnlyNoiseFollows
    <3>1. j \in InTx /\ tx'[j] = tx[j] /\ j <= Len(tx)
      BY <1>6, <1>9 DEF Noise
    <3>2. i \in InTx /\ tx'[i] = tx[i]
      <4>1. i \in Int /\ j \in Int /\ Len(tx) \in Nat
        BY <1>3 DEF Ints
      <4>2. i # Len(tx) + 1
        BY <3>1, <4>1
      <4> QED
        BY <1>6, <1>9, <4>2
    <3> QED
      BY <1>9, <3>1, <3>2 DEF InStep, Prompted, OnlyNoiseFollows
  <2>3. PromptFollows'
    <3> SUFFICES ASSUME NEW j \in InTx', tx'[j].kind \notin Noise
                 PROVE  \E i \in InTx' : j < i /\ tx'[i].kind = ">"
      BY DEF PromptFollows
    <3>1. PICK i \in InTx : j < i /\ tx[i].kind = ">"
      BY <1>7, <1>9
    <3>2. i \in InTx' /\ tx'[i] = tx[i]
      BY <1>6, <1>9 DEF Said
    <3> QED
      BY <3>1, <3>2
  <2>4. OnePrompt'
    BY <1>4 DEF OnePrompt
  <2> QED
    BY <2>1, <2>2, <2>3, <2>4 DEF Prompted
<1>10. ASSUME pc = "ask"
       PROVE  Asking'
  <2>1. Asking /\ pc \in Talking /\ UNCHANGED <<step, cur>>
    BY <1>1, <1>10 DEF InStep, Talking, hostVars
  <2>2. OwnCommands'
    BY <1>2, <1>3, <2>1, OwnCommandsStay DEF Asking
  <2>3. ASSUME step = 1
        PROVE  AheadOfOk'
    <3>1. AheadOfOk
      BY <2>1, <2>3 DEF Asking
    <3>2. ASSUME NEW k \in InTx', NEW j \in InTx', j < k, tx'[k].kind = "+CPIN"
          PROVE  tx'[j].kind # "OK"
      <4>1. PICK i \in InTx : k < i /\ tx[i].kind = ">"
        BY <1>7, <1>8, <2>1, <3>2
      <4>2. k \in InTx /\ tx[k].kind = "+CPIN"
        BY <1>7, <1>8, <2>1, <3>2
      <4>3. CASE tx'[j].kind = ">"
        BY <4>3
      <4>4. CASE j \in InTx /\ tx'[j] = tx[j]
        BY <3>1, <3>2, <4>1, <4>2, <4>4 DEF AheadOfOk
      <4> QED
        BY <1>6, <2>1, <4>3, <4>4
    <3>3. ASSUME NEW k \in InRx', NEW q \in InRx', k < q, rx'[k].cmd = "CPIN",
                 rx'[q].cmd = "CMGS"
          PROVE  FALSE
      <4>1. /\ k + 1 \in InRx /\ rx[k + 1].cmd = "CPIN" /\ k \in Int /\ 1 <= k
            /\ q + 1 \in InRx /\ rx[q + 1].cmd = "CMGS" /\ k + 1 < q + 1
        BY <1>2, <1>3, <3>3 DEF Taken, Ints, Bounds
      <4>2. k + 1 = 1
        BY <3>1, <4>1 DEF AheadOfOk
      <4> QED
        BY <4>1, <4>2
    <3> QED
      BY <3>2, <3>3 DEF AheadOfOk
  <2>4. ASSUME step = 2
        PROVE  AheadOfPin'
    <3>1. AheadOfPin
      BY <2>1, <2>4 DEF Asking
    <3>2. ASSUME NEW k \in InTx', tx'[k].kind = "+CPIN"
          PROVE  FALSE
      <4>1. PICK i \in InTx : k < i /\ tx[i].kind = ">"
        BY <1>7, <1>8, <2>1, <3>2
      <4>2. k \in InTx /\ tx[k].kind = "+CPIN"
        BY <1>7, <1>8, <2>1, <3>2
      <4> QED
        BY <3>1, <4>1, <4>2 DEF AheadOfPin
    <3>3. ASSUME NEW k \in InRx', NEW q \in InRx', k < q, rx'[k].cmd = "CPIN",
                 rx'[q].cmd = "CMGS"
          PROVE  FALSE
      <4>1. /\ k + 1 \in InRx /\ rx[k + 1].cmd = "CPIN"
            /\ q + 1 \in InRx /\ rx[q + 1].cmd = "CMGS" /\ k + 1 < q + 1
        BY <1>2, <1>3, <3>3 DEF Taken, Ints
      <4> QED
        BY <3>1, <4>1 DEF AheadOfPin
    <3> QED
      BY <3>2, <3>3 DEF AheadOfPin
  <2>5. step \notin 3..6
    <3>1. step \in 3..5 => entry = NoEntry
      BY <2>1 DEF Asking, NoOlderPrompt
    <3>2. step = 6 => entry = NoEntry
      BY <1>1, <2>1 DEF Asking, OwnPrompt
    <3> QED
      BY <1>1, <1>3, <3>1, <3>2
  <2> QED
    BY <1>3, <2>1, <2>2, <2>3, <2>4, <2>5 DEF Asking
<1>11. pc # "final"
  <2> SUFFICES ASSUME pc = "final"
               PROVE  FALSE
    OBVIOUS
  <2>1. rx[1] = Command("text", cur)
    BY <1>1, FinalEntry DEF InStep, Talking
  <2> QED
    BY <1>1, <1>2, <2>1 DEF Command
<1> QED
  BY <1>1, <1>5, <1>9, <1>10, <1>11 DEF InStep, hostVars, history

(* Ctrl-Z: the text went into its own entry, so what the network accepts   *)
(* is this message.                                                        *)
LEMMA SubmitsOwn ==
  ASSUME Typed, TextHasEntry, ModemSubmits
  PROVE  /\ Head(rx).of \in Sms
         /\ entry = [to |-> Head(rx).of, clean |-> TRUE]
         /\ \/ /\ Emit(Lines(<<"+CMGS", "OK">>, Head(rx).of))
               /\ texts' = texts \cup {[to |-> Head(rx).of, of |-> Head(rx).of,
                                        clean |-> TRUE]}
               /\ accepted' = [accepted EXCEPT ![Head(rx).of] = @ + 1]
            \/ /\ Emit(Lines(<<"+CMS ERROR">>, Head(rx).of))
               /\ UNCHANGED <<texts, accepted>>
<1>1. rx # <<>> /\ Head(rx).cmd = "text"
  BY DEF ModemSubmits
<1>2. rx[1] = Head(rx) /\ rx[1] \in Asked /\ 1 \in InRx
  <2>1. /\ Len(rx) \in Nat \ {0} /\ Head(rx) = rx[1] /\ rx[1] \in Asked
    BY <1>1, TailFacts DEF Typed, StreamsOK
  <2> QED
    BY <2>1 DEF InRx
<1>3. Head(rx).of \in Sms
  BY <1>1, <1>2 DEF Asked
<1>4. entry = [to |-> Head(rx).of, clean |-> TRUE]
  BY <1>1, <1>2 DEF TextHasEntry
<1>5. entry.to = Head(rx).of /\ entry.clean = TRUE
  BY <1>4
<1> QED
  BY <1>3, <1>4, <1>5 DEF ModemSubmits

LEMMA SubmitFollowing ==
  ASSUME Typed, Typed', InStep, ModemSubmits
  PROVE  InStep'
<1>1. /\ rx # <<>> /\ rx' = Tail(rx) /\ entry # NoEntry
      /\ Head(rx).cmd = "text" /\ entry' = NoEntry
      /\ UNCHANGED <<rowVars, hostVars, voice, source, rushed, late, faults>>
  BY DEF ModemSubmits
<1>2. /\ Taken /\ rx[1] = Head(rx) /\ 1 \in InRx
  BY <1>1, Takes
<1>3. /\ Head(rx).of \in Sms
      /\ \/ /\ Emit(Lines(<<"+CMGS", "OK">>, Head(rx).of))
            /\ accepted' = [accepted EXCEPT ![Head(rx).of] = @ + 1]
         \/ /\ Emit(Lines(<<"+CMS ERROR">>, Head(rx).of))
            /\ UNCHANGED <<texts, accepted>>
  BY SubmitsOwn DEF InStep
<1>4. accepted \in [Sms -> Nat] /\ UNCHANGED <<pc, step, cur, result>>
  BY <1>1 DEF Typed, TypeOK, hostVars
<1>5. CASE pc \notin Talking
  <2>1. \A i \in InRx' : rx'[i].cmd # "text"
    BY <1>2, BoundsHold, BoundsNext, TakenLeavesNoText DEF InStep
  <2> QED
    BY <1>4, <1>5, <2>1 DEF InStep, Talking, TextHasEntry
<1>6. CASE pc \in Talking
  <2>1. \A i \in InTx : tx[i].kind # ">"
    BY <1>1, <1>2, <1>6 DEF InStep, Prompted, PromptHasEntry
  <2>2. PICK kinds :
           /\ kinds \in {<<"+CMGS", "OK">>, <<"+CMS ERROR">>}
           /\ Emit(Lines(kinds, Head(rx).of))
           /\ kinds[1] = "+CMGS" => accepted' = [accepted EXCEPT ![Head(rx).of] = @ + 1]
    <3>1. <<"+CMS ERROR">>[1] # "+CMGS"
      BY OneFacts
    <3> QED
      BY <1>3, <3>1
  <2>3. /\ Said(Len(kinds))
        /\ \A i \in InTx' : i > Len(tx) => /\ i - Len(tx) \in 1..Len(kinds)
                                         /\ tx'[i].kind = kinds[i - Len(tx)]
    <3>1. kinds \in {<<">">>, <<"+CMGS", "OK">>, <<"+CMS ERROR">>}
      BY <2>2, Zenon
    <3>2. Sayable(kinds, Head(rx).of)
      BY <1>3, <3>1, SmsSayable, Zenon
    <3> QED
      BY <1>6, <2>2, <3>2, Says, Zenon
  <2>4. /\ Len(kinds) \in Nat /\ Len(kinds) >= 1
        /\ \A i \in 1..Len(kinds) :
             /\ kinds[i] \notin {">", "+CPIN"}
             /\ kinds[i] = "+CMGS" => kinds[1] = "+CMGS"
    <3>1. CASE kinds = <<"+CMS ERROR">>
      <4>1. /\ Len(kinds) \in Nat /\ Len(kinds) >= 1
            /\ \A i \in 1..Len(kinds) : kinds[i] = "+CMS ERROR"
        BY <3>1, OneLong, Zenon
      <4> QED
        BY <4>1, Zenon
    <3>2. CASE kinds = <<"+CMGS", "OK">>
      <4>1. /\ Len(kinds) \in Nat /\ Len(kinds) >= 1
            /\ \A i \in 1..Len(kinds) : kinds[i] \in {"+CMGS", "OK"}
            /\ kinds[1] = "+CMGS"
        BY <3>2, TwoLong, Zenon
      <4> QED
        BY <4>1, Zenon
    <3> QED
      BY <2>2, <3>1, <3>2
  <2>5. Plain
    BY <2>3, <2>4 DEF Plain
  <2>6. /\ TextHasEntry'
        /\ pc' \in Talking => Prompted'
        /\ pc' = "ask" => Asking'
    BY <1>1, <1>2, <1>4, <2>1, <2>3, <2>4, <2>5, PlainAnswer
  <2>7. ASSUME pc = "final"
        PROVE  OwnText'
    <3>1. rx[1] = Command("text", cur) /\ Len(rx) = 1
      BY <1>1, <1>6, <2>7, FinalEntry DEF InStep
    <3>2. Head(rx).of = cur
      <4>1. Command("text", cur).of = cur
        BY DEF Command
      <4> QED
        BY <1>2, <3>1, <4>1, Zenon
    <3>3. Len(rx') = 0
      <4>1. Len(rx) = 1 /\ Len(rx') = Len(rx) - 1
        BY <1>2, <3>1, Zenon DEF Taken
      <4> QED
        BY <4>1
    <3>4. rx' = <<>>
      BY <3>3, BoundsNext
    <3>5. \A i \in InTx' : tx'[i].kind # ">"
      BY <2>1, <2>3, <2>5, PlainIsOld
    <3>6. ASSUME NEW i \in InTx', tx'[i].kind = "+CMGS"
          PROVE  accepted'[cur'] > 0
      <4>1. CASE i \in InTx /\ tx'[i] = tx[i]
        BY <1>1, <2>7, <3>6, <4>1 DEF InStep, OwnText
      <4>2. CASE i > Len(tx)
        <5>1. kinds[1] = "+CMGS"
          BY <2>3, <2>4, <3>6, <4>2
        <5>2. accepted'[cur] = accepted[cur] + 1 /\ accepted[cur] \in Nat
          BY <1>3, <1>4, <2>2, <3>2, <5>1
        <5>3. accepted'[cur] > 0
          BY <5>2
        <5> QED
          BY <1>4, <5>3, Zenon
      <4> QED
        BY <2>3, <4>1, <4>2 DEF Said
    <3> QED
      BY <1>1, <3>4, <3>5, <3>6 DEF OwnText
  <2>8. ASSUME pc = "save", result = "sent"
        PROVE  accepted'[cur'] > 0
    <3>1. accepted[cur] > 0 /\ cur \in Sms
      BY <1>6, <2>8 DEF InStep, Typed, HostOK, Pending
    <3>2. accepted[cur] \in Nat
      BY <1>4, <3>1
    <3>3. accepted'[cur] = accepted[cur] \/ accepted'[cur] = accepted[cur] + 1
      BY <1>3, <1>4, <3>1
    <3>4. accepted'[cur] > 0
      BY <3>1, <3>2, <3>3
    <3> QED
      BY <1>4, <3>4, Zenon
  <2> QED
    BY <1>4, <2>6, <2>7, <2>8 DEF InStep
<1> QED
  BY <1>5, <1>6

(* The network speaks up about a call.                                     *)
LEMMA NetworkFollowing ==
  ASSUME Typed, Typed', InStep, NetworkEvent
  PROVE  InStep'
<1>1. UNCHANGED <<rowVars, hostVars, rx, entry, history>>
  BY DEF NetworkEvent
<1>2. UNCHANGED <<pc, step, cur, result, accepted, rx, entry>> /\ InRx' = InRx
  BY <1>1 DEF hostVars, history, InRx
<1>3. Ints /\ Ints' /\ Bounds /\ Bounds' /\ step \in 1..6
  BY BoundsHold, BoundsNext, TypedParts DEF RestOK
<1>4. TextHasEntry'
  BY <1>2 DEF InStep, TextHasEntry
<1>5. ASSUME pc \in Talking
      PROVE  \E n \in Nat : /\ Said(n) /\ Plain
                            /\ \A i \in InTx' : i > Len(tx) => tx'[i].kind \in Events
  <2>1. PICK kinds :
           /\ kinds \in {<<"BEGIN">>, <<"BUSY">>, <<"NO CARRIER">>,
                        <<"END", "NO CARRIER">>, <<"END zero", "NO CARRIER">>,
                        <<"END short", "NO CARRIER">>, <<"END long", "NO CARRIER">>}
           /\ Emit(Lines(kinds, voice.call))
    BY DEF NetworkEvent
  <2>2. voice.call \in Call \cup {None}
    BY DEF Typed, TypeOK
  <2>3. Sayable(kinds, voice.call)
    BY <2>1, <2>2, VoiceSayable
  <2>4. /\ Said(Len(kinds))
        /\ \A i \in InTx' : i > Len(tx) => /\ i - Len(tx) \in 1..Len(kinds)
                                         /\ tx'[i].kind = kinds[i - Len(tx)]
    BY <1>5, <2>1, <2>3, Says
  <2>5. Len(kinds) \in Nat /\ \A i \in 1..Len(kinds) : kinds[i] \in Events
    <3>1. {"BEGIN", "BUSY", "END", "END zero", "END short", "END long", "NO CARRIER"}
             \subseteq Events
      BY DEF Events, EndKinds
    <3>2. CASE kinds \in {<<"BEGIN">>, <<"BUSY">>, <<"NO CARRIER">>}
      <4>1. PICK a \in Events : kinds = <<a>>
        BY <3>1, <3>2
      <4>2. Len(kinds) = 1 /\ kinds[1] = a
        BY <4>1, OneFacts, Zenon
      <4>3. \A i \in 1..Len(kinds) : i = 1
        BY <4>2
      <4> QED
        BY <4>1, <4>2, <4>3
    <3>3. CASE kinds \in {<<"END", "NO CARRIER">>, <<"END zero", "NO CARRIER">>,
                         <<"END short", "NO CARRIER">>, <<"END long", "NO CARRIER">>}
      <4>1. PICK a \in Events, b \in Events : kinds = <<a, b>>
        BY <3>1, <3>3
      <4>2. /\ Len(kinds) \in Nat
            /\ \A i \in 1..Len(kinds) : kinds[i] \in {a, b}
        BY <4>1, TwoLong, Zenon
      <4> QED
        BY <4>2, Zenon
    <3> QED
      BY <2>1, <3>2, <3>3
  <2>6. \A i \in InTx' : i > Len(tx) => tx'[i].kind \in Events
    BY <2>4, <2>5
  <2>7. Plain
    BY <2>6 DEF Plain, Events, EndKinds
  <2> QED
    BY <2>4, <2>5, <2>6, <2>7
<1>6. ASSUME pc \in Talking
      PROVE  /\ \A i \in InTx : i \in InTx' /\ tx'[i] = tx[i]
             /\ \A i \in InTx' : tx'[i].kind \notin Events => i \in InTx /\ tx'[i] = tx[i]
  BY <1>5, <1>6 DEF Said
<1>7. {">", "+CPIN", "OK", "+CMGS"} \cap Events = {}
  BY DEF Events, EndKinds
<1>8. ASSUME pc \in Talking
      PROVE  Prompted'
  <2>1. Prompted
    BY <1>8 DEF InStep
  <2>2. PromptHasEntry'
    BY <1>2, <1>6, <1>7, <1>8, <2>1 DEF Prompted, PromptHasEntry
  <2>3. OnlyNoiseFollows'
    BY <1>6, <1>7, <1>8, <2>1 DEF Prompted, OnlyNoiseFollows, Noise
  <2>4. PromptFollows'
    <3> SUFFICES ASSUME NEW j \in InTx', tx'[j].kind \notin Noise, entry # NoEntry
                 PROVE  \E i \in InTx' : j < i /\ tx'[i].kind = ">"
      BY <1>2 DEF PromptFollows
    <3>1. j \in InTx /\ tx'[j] = tx[j]
      BY <1>6, <1>8 DEF Noise
    <3>2. PICK i \in InTx : j < i /\ tx[i].kind = ">"
      BY <2>1, <3>1 DEF Prompted, PromptFollows
    <3> QED
      BY <1>6, <1>8, <3>2
  <2>5. OnePrompt'
    BY <1>2, <1>6, <1>7, <1>8, <2>1 DEF Prompted, OnePrompt
  <2> QED
    BY <2>2, <2>3, <2>4, <2>5 DEF Prompted
<1>9. ASSUME pc = "ask"
      PROVE  Asking'
  <2>1. Asking /\ pc \in Talking
    BY <1>9 DEF InStep, Talking
  <2>2. OwnCommands'
    BY <1>2, <1>3, <1>5, <2>1, OwnCommandsStay DEF Asking
  <2>3. AheadOfOk => AheadOfOk'
    <3>1. \A i \in InTx' : tx'[i].kind \in {">", "+CPIN", "OK"} => i \in InTx /\ tx'[i] = tx[i]
      BY <1>6, <1>7, <2>1
    <3> QED
      BY <1>2, <3>1 DEF AheadOfOk
  <2>4. AheadOfPin => AheadOfPin'
    <3>1. \A i \in InTx' : tx'[i].kind \in {">", "+CPIN"} => i \in InTx /\ tx'[i] = tx[i]
      BY <1>6, <1>7, <2>1
    <3> QED
      BY <1>2, <3>1 DEF AheadOfPin
  <2>5. NoOlderPrompt => NoOlderPrompt'
    BY <1>2 DEF NoOlderPrompt
  <2>6. OwnPrompt => OwnPrompt'
    BY <1>2 DEF OwnPrompt
  <2> QED
    BY <1>2, <2>1, <2>2, <2>3, <2>4, <2>5, <2>6 DEF Asking
<1>10. ASSUME pc = "final"
       PROVE  OwnText'
  <2>1. OwnText /\ pc \in Talking
    BY <1>10 DEF InStep, Talking
  <2>2. \A i \in InTx' : tx'[i].kind \in {">", "+CMGS"} => i \in InTx /\ tx'[i] = tx[i]
    BY <1>6, <1>7, <2>1
  <2> QED
    BY <1>2, <2>1, <2>2 DEF OwnText
<1> QED
  BY <1>2, <1>4, <1>8, <1>9, <1>10 DEF InStep

-----------------------------------------------------------------------------
(* The program reads a line. Reading alone changes no distance.            *)
ReadBack == \A i \in InTx : 1 < i => i - 1 \in InTx' /\ tx'[i - 1] = tx[i]

LEMMA ReadShifts ==
  ASSUME Read, Ints, Ints', Bounds
  PROVE  ReadBack /\ \A i \in InTx' : i + 1 \in InTx /\ tx'[i] = tx[i + 1] /\ i \in Int
<1>1. \A i \in InTx' : i + 1 \in InTx /\ tx'[i] = tx[i + 1] /\ i \in Int
  BY DEF Read, Ints
<1>2. ReadBack
  <2> SUFFICES ASSUME NEW i \in InTx, 1 < i
               PROVE  i - 1 \in InTx' /\ tx'[i - 1] = tx[i]
    BY DEF ReadBack
  <2>1. /\ i \in Int /\ i <= Len(tx) /\ Len(tx) \in Nat /\ Len(tx') \in Nat
        /\ Len(tx') = Len(tx) - 1
    BY DEF Ints, Bounds, Read
  <2>2. i - 1 \in InTx'
    BY <2>1 DEF InTx
  <2>3. tx'[i - 1] = tx[(i - 1) + 1] /\ (i - 1) + 1 = i
    BY <1>1, <2>1, <2>2
  <2> QED
    BY <2>2, <2>3
<1> QED
  BY <1>1, <1>2

(* A command that is no AT+CMGS may be written at the same time.           *)
Adds(c) == rx' = rx \/ Written(c)

LEMMA AddsIsOld ==
  ASSUME NEW c, Adds(c), Ints
  PROVE  \A q \in InRx' : (q \in InRx /\ rx'[q] = rx[q]) \/ rx'[q] = c
BY DEF Adds, Written, InRx

LEMMA ReadKeepsPrompted ==
  ASSUME Prompted, Ints, Ints', Bounds, Read, UNCHANGED entry,
         NEW c, Adds(c), c.cmd # "text", rx = <<>> <=> Len(rx) = 0, 1 \in InRx' \/ rx' = <<>>
  PROVE  Prompted'
<1>1. \A i \in InTx' : i + 1 \in InTx /\ tx'[i] = tx[i + 1] /\ i \in Int
  BY ReadShifts
<1>2. PromptHasEntry'
  <2> SUFFICES ASSUME NEW i \in InTx', tx'[i].kind = ">"
               PROVE  entry # NoEntry /\ (rx' # <<>> => rx'[1].cmd # "text")
    BY DEF PromptHasEntry
  <2>1. entry # NoEntry /\ (rx # <<>> => rx[1].cmd # "text")
    BY <1>1 DEF Prompted, PromptHasEntry
  <2>2. ASSUME rx' # <<>>
        PROVE  rx'[1].cmd # "text"
    <3>1. (1 \in InRx /\ rx'[1] = rx[1]) \/ rx'[1] = c
      BY <2>2, AddsIsOld
    <3>2. 1 \in InRx => rx # <<>>
      BY DEF InRx, Ints
    <3> QED
      BY <2>1, <3>1, <3>2
  <2> QED
    BY <2>1, <2>2
<1>3. OnlyNoiseFollows'
  <2> SUFFICES ASSUME NEW i \in InTx', NEW j \in InTx', i < j, tx'[i].kind = ">"
               PROVE  tx'[j].kind \in Noise
    BY DEF OnlyNoiseFollows
  <2>1. /\ i + 1 \in InTx /\ tx[i + 1].kind = ">" /\ i \in Int
        /\ j + 1 \in InTx /\ tx'[j] = tx[j + 1] /\ j \in Int
    BY <1>1
  <2>2. i + 1 < j + 1
    BY <2>1
  <2> QED
    BY <2>1, <2>2 DEF Prompted, OnlyNoiseFollows
<1>4. PromptFollows'
  <2> SUFFICES ASSUME NEW j \in InTx', entry # NoEntry, tx'[j].kind \notin Noise
               PROVE  \E i \in InTx' : j < i /\ tx'[i].kind = ">"
    BY DEF PromptFollows
  <2>1. j + 1 \in InTx /\ tx[j + 1].kind \notin Noise /\ j \in Int
    BY <1>1
  <2>2. PICK i \in InTx : j + 1 < i /\ tx[i].kind = ">"
    BY <2>1 DEF Prompted, PromptFollows
  <2>3. i \in Int /\ 1 <= j + 1
    BY <2>1 DEF Ints, Bounds
  <2>4. 1 < i /\ j < i - 1
    BY <2>1, <2>2, <2>3
  <2>5. i - 1 \in InTx' /\ tx'[i - 1] = tx[i]
    BY <2>4, ReadShifts DEF ReadBack
  <2> QED
    BY <2>2, <2>4, <2>5
<1>5. OnePrompt'
  <2> SUFFICES ASSUME NEW i \in InTx', NEW j \in InTx', entry.clean,
                      tx'[i].kind = ">", tx'[j].kind = ">"
               PROVE  i = j
    BY DEF OnePrompt
  <2>1. /\ i + 1 \in InTx /\ tx[i + 1].kind = ">" /\ i \in Int
        /\ j + 1 \in InTx /\ tx[j + 1].kind = ">" /\ j \in Int
    BY <1>1
  <2>2. i + 1 = j + 1
    BY <2>1 DEF Prompted, OnePrompt
  <2> QED
    BY <2>1, <2>2
<1> QED
  BY <1>2, <1>3, <1>4, <1>5 DEF Prompted

LEMMA ReadKeepsAhead ==
  ASSUME Ints, Ints', Bounds, Read, rx' = rx
  PROVE  /\ AheadOfOk => AheadOfOk'
         /\ AheadOfPin => AheadOfPin'
<1>1. \A i \in InTx' : i + 1 \in InTx /\ tx'[i] = tx[i + 1] /\ i \in Int
  BY ReadShifts
<1>2. \A i, j \in InTx' : i < j => i + 1 < j + 1
  BY <1>1
<1>3. InRx' = InRx
  BY DEF InRx
<1>4. ASSUME AheadOfOk
      PROVE  AheadOfOk'
  <2>1. ASSUME NEW k \in InTx', NEW i \in InTx', NEW j \in InTx', j < k, k < i,
               tx'[k].kind = "+CPIN", tx'[i].kind = ">"
        PROVE  tx'[j].kind # "OK"
    <3>1. /\ k + 1 \in InTx /\ tx[k + 1].kind = "+CPIN"
          /\ i + 1 \in InTx /\ tx[i + 1].kind = ">"
          /\ j + 1 \in InTx /\ tx'[j] = tx[j + 1]
          /\ j + 1 < k + 1 /\ k + 1 < i + 1
      BY <1>1, <1>2, <2>1
    <3> QED
      BY <1>4, <3>1 DEF AheadOfOk
  <2>2. ASSUME NEW k \in InTx', NEW j \in InTx', NEW q \in InRx', j < k,
               tx'[k].kind = "+CPIN", rx'[q].cmd = "CMGS"
        PROVE  tx'[j].kind # "OK"
    <3>1. /\ k + 1 \in InTx /\ tx[k + 1].kind = "+CPIN"
          /\ j + 1 \in InTx /\ tx'[j] = tx[j + 1]
          /\ j + 1 < k + 1 /\ q \in InRx /\ rx[q].cmd = "CMGS"
      BY <1>1, <1>2, <1>3, <2>2
    <3> QED
      BY <1>4, <3>1 DEF AheadOfOk
  <2>3. ASSUME NEW k \in InRx', NEW q \in InRx', k < q, rx'[k].cmd = "CPIN",
               rx'[q].cmd = "CMGS"
        PROVE  k = 1 /\ \A j \in InTx' : tx'[j].kind # "OK"
    BY <1>1, <1>3, <1>4, <2>3 DEF AheadOfOk
  <2> QED
    BY <2>1, <2>2, <2>3 DEF AheadOfOk
<1>5. ASSUME AheadOfPin
      PROVE  AheadOfPin'
  <2>1. ASSUME NEW k \in InTx', NEW i \in InTx', k < i, tx'[i].kind = ">"
        PROVE  tx'[k].kind # "+CPIN"
    <3>1. /\ k + 1 \in InTx /\ tx'[k] = tx[k + 1]
          /\ i + 1 \in InTx /\ tx[i + 1].kind = ">" /\ k + 1 < i + 1
      BY <1>1, <1>2, <2>1
    <3> QED
      BY <1>5, <3>1 DEF AheadOfPin
  <2>2. \A k, q \in InRx' : (k < q /\ rx'[q].cmd = "CMGS") => rx'[k].cmd # "CPIN"
    BY <1>3, <1>5 DEF AheadOfPin
  <2>3. \A k \in InTx', q \in InRx' : rx'[q].cmd = "CMGS" => tx'[k].kind # "+CPIN"
    BY <1>1, <1>3, <1>5 DEF AheadOfPin
  <2> QED
    BY <2>1, <2>2, <2>3 DEF AheadOfPin
<1> QED
  BY <1>4, <1>5

(* One more command of the message at hand, when its turn comes. *)
LEMMA NextCommand ==
  ASSUME Typed, Typed', OwnCommands, TextHasEntry, Read,
         step < 6, step' = step + 1, UNCHANGED <<cur, entry>>,
         Written(Command(Dialogue[step + 1][1], cur))
  PROVE  OwnCommands' /\ TextHasEntry'
<1>1. Ints /\ Ints' /\ Bounds /\ Bounds' /\ step \in 1..6
  BY BoundsHold, BoundsNext, TypedParts DEF RestOK
<1>2. /\ Len(rx) \in Nat /\ Len(tx) \in Nat /\ step \in 1..5 /\ step \in Int
      /\ Len(rx') = Len(rx) + 1 /\ Len(tx') = Len(tx) - 1
  BY <1>1 DEF Ints, Written, Read
<1>3. OwnCommands'
  <2> SUFFICES ASSUME NEW j \in InRx', Len(rx') - j < step'
               PROVE  rx'[j] = Command(Dialogue[step' - (Len(rx') - j)][1], cur')
    BY DEF OwnCommands
  <2>1. CASE j = Len(rx) + 1 /\ rx'[j] = Command(Dialogue[step + 1][1], cur)
    <3>1. step' - (Len(rx') - j) = step + 1
      BY <1>2, <2>1
    <3> QED
      BY <2>1, <3>1
  <2>2. CASE j \in InRx /\ rx'[j] = rx[j]
    <3>1. j \in Int
      BY <1>1, <2>2 DEF Ints
    <3>2. /\ Len(rx) - j < step
          /\ step' - (Len(rx') - j) = step - (Len(rx) - j)
      BY <1>2, <3>1
    <3> QED
      BY <2>2, <3>2 DEF OwnCommands
  <2> QED
    BY <2>1, <2>2 DEF Written
<1>4. \A i \in 1..6 : /\ Command(Dialogue[i][1], cur).cmd = Dialogue[i][1]
                      /\ Dialogue[i][1] = "CMGS" => i = 6
                      /\ Dialogue[i][1] = "CPIN" => i = 2
                      /\ Dialogue[i][1] # "text"
  BY DialogueIs DEF Command
<1>5. TextHasEntry'
  <2> SUFFICES ASSUME NEW i \in InRx', rx'[i].cmd = "text"
               PROVE  i = 1 /\ entry = [to |-> rx'[i].of, clean |-> TRUE]
    BY DEF TextHasEntry
  <2>1. step + 1 \in 1..6
    BY <1>2
  <2>2. i \in InRx /\ rx'[i] = rx[i]
    BY <1>4, <2>1 DEF Written
  <2> QED
    BY <2>2 DEF TextHasEntry
<1> QED
  BY <1>3, <1>5

(* AT+CPIN? is written once OK was read: an older +CPIN with a prompt      *)
(* behind it would have been read before that OK.                          *)
LEMMA AsksForPin ==
  ASSUME Typed, Typed', AheadOfOk, Read, 1 \in InTx, tx[1].kind = "OK",
         NEW c, Written(c), c.cmd # "CMGS"
  PROVE  AheadOfPin'
<1>1. Ints /\ Ints' /\ Bounds /\ Bounds'
  BY BoundsHold, BoundsNext
<1>2. \A i \in InTx' : /\ i + 1 \in InTx /\ tx'[i] = tx[i + 1] /\ i \in Int
                       /\ 1 < i + 1
  <2>1. \A i \in InTx' : i + 1 \in InTx /\ tx'[i] = tx[i + 1] /\ i \in Int /\ 1 <= i
    BY <1>1, ReadShifts DEF Bounds
  <2> QED
    BY <2>1
<1>3. ASSUME NEW k \in InTx', NEW i \in InTx', k < i, tx'[k].kind = "+CPIN",
             tx'[i].kind = ">"
      PROVE  FALSE
  <2>1. /\ k + 1 \in InTx /\ tx[k + 1].kind = "+CPIN" /\ k \in Int /\ 1 < k + 1
        /\ i + 1 \in InTx /\ tx[i + 1].kind = ">" /\ i \in Int
    BY <1>2, <1>3
  <2>2. k + 1 < i + 1
    BY <1>3, <2>1
  <2> QED
    BY <2>1, <2>2 DEF AheadOfOk
<1>4. ASSUME NEW q \in InRx', rx'[q].cmd = "CMGS"
      PROVE  q \in InRx /\ rx[q].cmd = "CMGS"
  BY <1>4 DEF Written
<1>5. ASSUME NEW k \in InRx', NEW q \in InRx', k < q, rx'[k].cmd = "CPIN",
             rx'[q].cmd = "CMGS"
      PROVE  FALSE
  <2>1. q \in InRx /\ rx[q].cmd = "CMGS"
    BY <1>4, <1>5
  <2>2. k \in Int /\ q \in Int /\ q <= Len(rx) /\ Len(rx) \in Nat
    BY <1>1, <2>1 DEF Ints, Bounds
  <2>3. k \in InRx /\ rx'[k] = rx[k]
    BY <1>5, <2>2 DEF Written
  <2> QED
    BY <1>5, <2>1, <2>3 DEF AheadOfOk
<1>6. ASSUME NEW k \in InTx', NEW q \in InRx', tx'[k].kind = "+CPIN",
             rx'[q].cmd = "CMGS"
      PROVE  FALSE
  <2>1. q \in InRx /\ rx[q].cmd = "CMGS"
    BY <1>4, <1>6
  <2>2. k + 1 \in InTx /\ tx[k + 1].kind = "+CPIN" /\ 1 < k + 1
    BY <1>2, <1>6
  <2> QED
    BY <2>1, <2>2 DEF AheadOfOk
<1> QED
  BY <1>3, <1>5, <1>6 DEF AheadOfPin

(* And once +CPIN was read the modem has handled every older AT+CMGS.      *)
LEMMA LeavesOlderBehind ==
  ASSUME Typed, Typed', AheadOfPin, Prompted, 1 \in InTx, tx[1].kind = "+CPIN",
         NEW c, Written(c), c.cmd # "CMGS", UNCHANGED entry
  PROVE  NoOlderPrompt'
<1>1. entry = NoEntry
  <2> SUFFICES ASSUME entry # NoEntry
               PROVE  FALSE
    OBVIOUS
  <2>1. tx[1].kind \notin Noise
    BY DEF Noise, Events, EndKinds
  <2>2. PICK i \in InTx : 1 < i /\ tx[i].kind = ">"
    BY <2>1 DEF Prompted, PromptFollows
  <2> QED
    BY <2>2 DEF AheadOfPin
<1>2. ASSUME NEW q \in InRx'
      PROVE  rx'[q].cmd # "CMGS"
  BY DEF Written, AheadOfPin
<1> QED
  BY <1>1, <1>2 DEF NoOlderPrompt

(* The last command of the dialogue: its prompt is the only one to come.   *)
LEMMA AsksForPrompt ==
  ASSUME Typed, Typed', Asking, Prompted, Read, step \in 1..5, step' = step + 1,
         1 \in InTx, tx[1].kind = Dialogue[step][2], UNCHANGED <<cur, entry>>,
         Written(Command(Dialogue[step + 1][1], cur))
  PROVE  /\ step' = 2 => AheadOfPin'
         /\ step' \in 3..5 => NoOlderPrompt'
         /\ step' = 6 => OwnPrompt'
<1> DEFINE c == Command(Dialogue[step + 1][1], cur)
<1>1. Ints /\ Ints' /\ Bounds /\ Bounds' /\ (rx' = <<>> <=> Len(rx') = 0)
  BY BoundsHold, BoundsNext
<1>2. \A i \in 1..6 : /\ Command(Dialogue[i][1], cur).cmd = Dialogue[i][1]
                      /\ Dialogue[i][1] = "CMGS" => i = 6
                      /\ i = 1 => Dialogue[i][2] = "OK"
                      /\ i = 2 => Dialogue[i][2] = "+CPIN"
  BY DialogueIs DEF Command
<1>3. step + 1 \in 1..6 /\ step \in 1..6 /\ step \in Int
  OBVIOUS
<1>4. ASSUME step' = 2
      PROVE  AheadOfPin'
  <2>1. step = 1 /\ tx[1].kind = "OK"
    BY <1>2, <1>3, <1>4
  <2>2. c.cmd # "CMGS"
    BY <1>2, <1>3, <2>1
  <2>3. AheadOfOk
    BY <2>1 DEF Asking
  <2> HIDE DEF c
  <2> QED
    BY <2>1, <2>2, <2>3, AsksForPin DEF c
<1>5. ASSUME step' \in 3..5
      PROVE  NoOlderPrompt'
  <2>1. c.cmd # "CMGS"
    BY <1>2, <1>3, <1>5
  <2>2. CASE step = 2
    <3>1. tx[1].kind = "+CPIN" /\ AheadOfPin
      BY <1>2, <1>3, <2>2 DEF Asking
    <3> QED
      BY <2>1, <3>1, LeavesOlderBehind DEF c
  <2>3. CASE step \in 3..5
    <3>1. NoOlderPrompt
      BY <2>3 DEF Asking
    <3> QED
      BY <2>1, <3>1 DEF NoOlderPrompt, Written
  <2> QED
    BY <1>3, <1>5, <2>2, <2>3
<1>6. ASSUME step' = 6
      PROVE  OwnPrompt'
  <2>1. step \in 3..5
    BY <1>3, <1>6
  <2>2. NoOlderPrompt
    BY <2>1 DEF Asking
  <2>3. Len(rx') = Len(rx) + 1 /\ Len(rx) \in Nat
    BY <1>1 DEF Written, Ints
  <2>4. rx' # <<>>
    BY <1>1, <2>3
  <2>5. \A q \in InRx' : rx'[q].cmd = "CMGS" => q = Len(rx')
    BY <2>2, <2>3 DEF Written, NoOlderPrompt
  <2> QED
    BY <2>2, <2>4, <2>5 DEF OwnPrompt, NoOlderPrompt
<1> QED
  BY <1>4, <1>5, <1>6

(* The prompt is read: it is this message's, in an entry that is clean and *)
(* with nothing on the way, so the text goes where it belongs and the next *)
(* +CMGS is the answer to it.                                              *)
LEMMA WritesOwnText ==
  ASSUME Typed, Typed', InStep, pc = "ask", step = 6, Read, 1 \in InTx,
         tx[1].kind = ">", Written(Command("text", cur)), pc' = "final",
         UNCHANGED <<cur, entry>>
  PROVE  InStep'
<1> DEFINE c == Command("text", cur)
<1>1. /\ Ints /\ Ints' /\ Bounds /\ Bounds'
      /\ (rx = <<>> <=> Len(rx) = 0) /\ (rx' = <<>> <=> Len(rx') = 0)
  BY BoundsHold, BoundsNext
<1>2. pc \in Talking /\ Asking /\ Prompted
  BY DEF InStep, Talking
<1>3. entry # NoEntry
  BY <1>2 DEF Prompted, PromptHasEntry
<1>4. rx = <<>> /\ entry = [to |-> cur, clean |-> TRUE]
  BY <1>2, <1>3 DEF Asking, OwnPrompt
<1>5. c.cmd = "text" /\ c.of = cur
  BY DEF Command
<1>6. Len(rx') = 1 /\ \A i \in InRx' : i = 1 /\ rx'[i] = c
  <2>1. Len(rx) = 0 /\ Len(rx') = Len(rx) + 1
    BY <1>1, <1>4 DEF Written
  <2>2. \A i \in InRx : FALSE
    BY <2>1 DEF InRx
  <2> QED
    BY <2>1, <2>2 DEF Written
<1>7. rx'[1] = c
  BY <1>6 DEF InRx
<1>8. \A i \in InTx' : i + 1 \in InTx /\ tx'[i] = tx[i + 1] /\ i \in Int /\ 1 < i + 1
  <2>1. \A i \in InTx' : i + 1 \in InTx /\ tx'[i] = tx[i + 1] /\ i \in Int /\ 1 <= i
    BY <1>1, ReadShifts DEF Bounds
  <2> QED
    BY <2>1
<1>9. \A i \in InTx' : tx'[i].kind \in Noise /\ tx'[i].kind # ">"
  <2> SUFFICES ASSUME NEW i \in InTx'
               PROVE  tx'[i].kind \in Noise /\ tx'[i].kind # ">"
    OBVIOUS
  <2>1. i + 1 \in InTx /\ tx'[i] = tx[i + 1] /\ 1 < i + 1 /\ i + 1 # 1
    BY <1>8
  <2>2. tx[i + 1].kind \in Noise
    BY <1>2, <2>1 DEF Prompted, OnlyNoiseFollows
  <2>3. entry.clean
    BY <1>4
  <2>4. tx[i + 1].kind # ">"
    BY <1>2, <2>1, <2>3 DEF Prompted, OnePrompt
  <2> QED
    BY <2>1, <2>2, <2>4
<1>10. TextHasEntry'
  BY <1>4, <1>5, <1>6 DEF TextHasEntry
<1>11. Prompted'
  BY <1>9 DEF Prompted, PromptHasEntry, OnlyNoiseFollows, PromptFollows, OnePrompt
<1>12. OwnText'
  <2>1. "+CMGS" \notin Noise
    BY DEF Noise, Events, EndKinds
  <2> QED
    BY <1>4, <1>6, <1>7, <1>9, <2>1 DEF OwnText
<1> QED
  BY <1>10, <1>11, <1>12 DEF InStep

LEMMA AnswerFollowing ==
  ASSUME Typed, Typed', InStep, ReadAnswer
  PROVE  InStep'
<1>1. /\ pc = "ask" /\ tx # <<>> /\ tx' = Tail(tx)
      /\ UNCHANGED <<cur, entry, accepted, late>>
  BY DEF ReadAnswer, modem, history
<1>2. Read /\ tx[1] = Head(tx) /\ 1 \in InTx
  BY <1>1, Reads
<1>3. /\ Ints /\ Ints' /\ Bounds /\ Bounds' /\ step \in 1..6
      /\ (rx = <<>> <=> Len(rx) = 0) /\ (rx' = <<>> <=> Len(rx') = 0)
  BY BoundsHold, BoundsNext, TypedParts DEF RestOK
<1>4. pc \in Talking /\ Asking /\ Prompted /\ TextHasEntry /\ cur \in Sms
  BY <1>1 DEF InStep, Talking, Typed, HostOK, Pending
<1>5. 1 \in InRx' \/ rx' = <<>>
  BY <1>3 DEF InRx, Ints
<1>6. ASSUME rx' = rx
      PROVE  TextHasEntry' /\ Prompted'
  <2>1. TextHasEntry'
    BY <1>1, <1>4, <1>6 DEF TextHasEntry, InRx
  <2>2. Adds(Command("CMEE", cur)) /\ Command("CMEE", cur).cmd = "CMEE"
    BY <1>6 DEF Adds, Command
  <2> QED
    BY <1>1, <1>2, <1>3, <1>4, <1>5, <2>1, <2>2, ReadKeepsPrompted
<1>7. CASE Decide("failed") /\ UNCHANGED <<step, rx>>
  BY <1>6, <1>7 DEF InStep, Decide
<1>8. CASE UNCHANGED <<pc, step, result, rx>>
  <2>1. OwnCommands'
    BY <1>1, <1>4, <1>8 DEF Asking, OwnCommands, InRx
  <2>2. /\ AheadOfOk => AheadOfOk'
        /\ AheadOfPin => AheadOfPin'
    BY <1>2, <1>3, <1>4, <1>8, ReadKeepsAhead DEF Asking
  <2>3. /\ NoOlderPrompt => NoOlderPrompt'
        /\ OwnPrompt => OwnPrompt'
    BY <1>1, <1>8 DEF NoOlderPrompt, OwnPrompt, InRx
  <2>4. Asking'
    BY <1>4, <1>8, <2>1, <2>2, <2>3 DEF Asking
  <2> QED
    BY <1>1, <1>6, <1>8, <2>4 DEF InStep
<1>9. CASE /\ tx[1].kind = Dialogue[step][2] /\ step < 6
           /\ step' = step + 1 /\ pc' = pc
           /\ Write(<<Command(Dialogue[step + 1][1], cur)>>)
  <2> DEFINE c == Command(Dialogue[step + 1][1], cur)
  <2>1. step \in 1..5 /\ step + 1 \in 1..6
    BY <1>3, <1>9
  <2>2. Command(Dialogue[step + 1][1], cur) \in Asked
    BY <1>4, <2>1, DialogueAsked
  <2>3. Written(c)
    BY <1>9, <2>2, Writes
  <2>4. OwnCommands' /\ TextHasEntry'
    BY <1>1, <1>2, <1>4, <1>9, <2>1, <2>3, NextCommand DEF Asking
  <2>5. /\ step' = 2 => AheadOfPin'
        /\ step' \in 3..5 => NoOlderPrompt'
        /\ step' = 6 => OwnPrompt'
    BY <1>1, <1>2, <1>4, <1>9, <2>1, <2>3, AsksForPrompt
  <2>6. step' # 1
    BY <1>9, <2>1
  <2>7. Asking'
    BY <2>4, <2>5, <2>6 DEF Asking
  <2>8. c.cmd # "text" /\ (c.cmd = "CMGS" => step = 5)
    <3>1. \A i \in 1..6 : /\ Command(Dialogue[i][1], cur).cmd = Dialogue[i][1]
                          /\ Dialogue[i][1] = "CMGS" => i = 6
                          /\ Dialogue[i][1] # "text"
      BY DialogueIs DEF Command
    <3>2. step + 1 = 6 => step = 5
      BY <2>1
    <3> QED
      BY <2>1, <3>1, <3>2
  <2>9. Adds(c)
    BY <2>3 DEF Adds
  <2> HIDE DEF c
  <2>10. Prompted'
    BY <1>1, <1>2, <1>3, <1>4, <1>5, <2>8, <2>9, ReadKeepsPrompted
  <2> QED
    BY <1>1, <1>9, <2>4, <2>7, <2>10 DEF InStep
<1>10. CASE /\ tx[1].kind = Dialogue[step][2] /\ step = 6
            /\ step' = step /\ pc' = "final"
            /\ Write(<<Command("text", cur)>>)
  <2>1. Command("text", cur) \in Asked
    BY <1>4, SmsAsked
  <2>2. Written(Command("text", cur))
    BY <1>10, <2>1, Writes
  <2>3. tx[1].kind = ">"
    BY <1>10, DialogueIs
  <2> QED
    BY <1>1, <1>2, <1>10, <2>2, <2>3, WritesOwnText
<1> QED
  <2>1. \/ Decide("failed") /\ UNCHANGED <<step, rx>>
        \/ /\ Head(tx).kind = Dialogue[step][2]
           /\ \/ /\ step < 6 /\ step' = step + 1 /\ pc' = pc
                 /\ Write(<<Command(Dialogue[step + 1][1], cur)>>)
              \/ /\ ~(step < 6) /\ step' = step /\ pc' = "final"
                 /\ Write(<<Command("text", cur)>>)
        \/ UNCHANGED <<pc, step, result, rx>>
    BY DialogueLength DEF ReadAnswer
  <2>2. ~(step < 6) => step = 6
    BY <1>3
  <2> QED
    BY <1>2, <1>7, <1>8, <1>9, <1>10, <2>1, <2>2

LEMMA FinalFollowing ==
  ASSUME Typed, Typed', InStep, ReadFinal \/ WaitRunsOut
  PROVE  InStep'
<1>1. /\ Ints /\ Ints' /\ Bounds /\ Bounds'
      /\ (rx = <<>> <=> Len(rx) = 0) /\ (rx' = <<>> <=> Len(rx') = 0)
  BY BoundsHold, BoundsNext
<1>2. 1 \in InRx' \/ rx' = <<>>
  BY <1>1 DEF InRx, Ints
<1>3. CASE ReadFinal
  <2>1. /\ pc = "final" /\ tx # <<>> /\ tx' = Tail(tx) /\ rx' = rx
        /\ UNCHANGED <<cur, entry, accepted>>
        /\ \/ Head(tx).kind = "+CMGS" /\ Decide("sent")
           \/ Decide("failed")
           \/ UNCHANGED <<pc, result>>
    BY <1>3 DEF ReadFinal, modem, history
  <2>2. Read /\ tx[1] = Head(tx) /\ 1 \in InTx
    BY <2>1, Reads
  <2>3. Prompted /\ TextHasEntry /\ OwnText
    BY <2>1 DEF InStep, Talking
  <2>4. TextHasEntry'
    BY <2>1, <2>3 DEF TextHasEntry, InRx
  <2>5. Adds(Command("CMEE", cur)) /\ Command("CMEE", cur).cmd = "CMEE"
    BY <2>1 DEF Adds, Command
  <2>6. Prompted'
    BY <1>1, <1>2, <2>1, <2>2, <2>3, <2>5, ReadKeepsPrompted
  <2>7. CASE Head(tx).kind = "+CMGS" /\ Decide("sent")
    <3>1. accepted[cur] > 0
      BY <2>2, <2>3, <2>7 DEF OwnText
    <3>2. accepted'[cur'] > 0
      BY <2>1, <3>1
    <3> QED
      BY <2>4, <2>6, <2>7, <3>2 DEF InStep, Decide
  <2>8. CASE Decide("failed")
    BY <2>4, <2>6, <2>8 DEF InStep, Decide
  <2>9. CASE UNCHANGED <<pc, result>>
    <3>1. \A i \in InTx' : i + 1 \in InTx /\ tx'[i] = tx[i + 1]
      BY <1>1, <2>2, ReadShifts
    <3>2. OwnText'
      BY <2>1, <2>3, <3>1 DEF OwnText
    <3> QED
      BY <2>1, <2>4, <2>6, <2>9, <3>2 DEF InStep
  <2> QED
    BY <2>1, <2>7, <2>8, <2>9
<1>4. CASE WaitRunsOut
  <2>1. /\ pc \in {"ask", "final"} /\ pc' = "save" /\ result' = "failed"
        /\ UNCHANGED <<rx, tx, entry>>
    BY <1>4 DEF WaitRunsOut, Decide, lineVars, modem
  <2>2. TextHasEntry' /\ Prompted'
    BY <2>1 DEF InStep, Talking, TextHasEntry, Prompted, PromptHasEntry,
                OnlyNoiseFollows, PromptFollows, OnePrompt, InRx, InTx
  <2> QED
    BY <2>1, <2>2 DEF InStep
<1> QED
  BY <1>3, <1>4

(* A message is begun. What is left of the messages before cannot pass for *)
(* this one's answers if it has no OK before a +CPIN before a prompt.      *)
LEMMA NothingOld ==
  ASSUME Typed, Typed', NEW i \in Int, NEW j \in Int, NEW k \in Int,
         1 <= i, i < j, j < k, k <= Len(tx') + Len(rx), ~OldDialogueIn(tx'),
         IF k <= Len(tx') THEN tx'[k].kind = ">" ELSE rx[k - Len(tx')].cmd = "CMGS",
         IF j <= Len(tx') THEN tx'[j].kind = "+CPIN" ELSE rx[j - Len(tx')].cmd = "CPIN"
  PROVE  i <= Len(tx') /\ tx'[i].kind # "OK"
<1>1. Ints /\ Ints'
  BY BoundsHold, BoundsNext
<1>2. /\ i \in 1..(Len(tx') + Len(rx)) /\ j \in 1..(Len(tx') + Len(rx))
      /\ k \in 1..(Len(tx') + Len(rx))
  BY <1>1 DEF Ints
<1>3. ~(IF i <= Len(tx') THEN tx'[i].kind = "OK" ELSE rx[i - Len(tx')].cmd \in Commands)
  BY <1>2 DEF OldDialogueIn
<1>4. ASSUME ~(i <= Len(tx'))
      PROVE  rx[i - Len(tx')].cmd \in Commands
  <2>1. i - Len(tx') \in InRx
    BY <1>1, <1>2, <1>4 DEF InRx, Ints
  <2>2. rx[i - Len(tx')] \in Asked
    BY <2>1, BoundsHold
  <2> QED
    BY <2>2 DEF Asked, RxItem
<1> QED
  BY <1>3, <1>4

(* So the first OK that is read is the answer to this message's AT+CMEE,   *)
(* or no prompt follows the +CPIN behind it.                               *)
LEMMA BeginsFollowing ==
  ASSUME Typed, Typed', TextHasEntry, NEW m \in Sms, Begins(m), ~late',
         UNCHANGED entry, (tx' = tx /\ Prompted) \/ tx' = <<>>
  PROVE  InStep'
<1> DEFINE c == Command("CMEE", m)
<1>1. /\ Ints /\ Ints' /\ Bounds /\ Bounds'
      /\ (rx = <<>> <=> Len(rx) = 0) /\ (rx' = <<>> <=> Len(rx') = 0)
  BY BoundsHold, BoundsNext
<1>2. c.cmd = "CMEE"
  BY DEF Command
<1>3. Written(c) /\ step' = 1 /\ pc' = "ask" /\ cur' = m
  <2>1. Command("CMEE", m) \in Asked
    BY SmsAsked
  <2>2. Dialogue[1][1] = "CMEE"
    BY DialogueIs
  <2> QED
    BY <2>1, <2>2, Writes DEF Begins
<1>4. /\ Len(rx) \in Nat /\ Len(tx') \in Nat /\ Len(rx') = Len(rx) + 1
      /\ ~OldDialogueIn(tx')
  BY <1>1, <1>3 DEF Begins, Ints, Written
<1> HIDE DEF c
<1>5. \A q \in InRx' : (q \in InRx /\ rx'[q] = rx[q]) \/ rx'[q] = c
  BY <1>3 DEF Written
<1>6. TextHasEntry'
  BY <1>2, <1>5 DEF TextHasEntry
<1>7. \A i \in InTx' : tx' = tx /\ i \in InTx
  <2>1. tx' = <<>> => Len(tx') = 0
    OBVIOUS
  <2>2. tx' = tx => InTx' = InTx
    BY DEF InTx
  <2> QED
    BY <1>4, <2>1, <2>2 DEF InTx
<1>8. ASSUME NEW i \in InTx'
      PROVE  Prompted /\ tx'[i] = tx[i] /\ i \in InTx
  <2>1. Len(tx') # 0
    BY <1>1 DEF Bounds, Ints
  <2>2. tx' # <<>>
    BY <2>1
  <2> QED
    BY <1>7, <2>2
<1>9. Prompted'
  <2>1. PromptHasEntry'
    <3> SUFFICES ASSUME NEW i \in InTx', tx'[i].kind = ">"
                 PROVE  entry # NoEntry /\ (rx' # <<>> => rx'[1].cmd # "text")
      BY DEF PromptHasEntry
    <3>1. entry # NoEntry /\ (rx # <<>> => rx[1].cmd # "text")
      BY <1>8 DEF Prompted, PromptHasEntry
    <3>2. 1 \in InRx'
      BY <1>4 DEF InRx
    <3>3. 1 \in InRx => rx # <<>>
      BY <1>1 DEF InRx
    <3> QED
      BY <1>2, <1>5, <3>1, <3>2, <3>3
  <2>2. OnlyNoiseFollows'
    BY <1>8 DEF Prompted, OnlyNoiseFollows
  <2>3. PromptFollows'
    <3> SUFFICES ASSUME NEW j \in InTx', entry # NoEntry, tx'[j].kind \notin Noise
                 PROVE  \E i \in InTx' : j < i /\ tx'[i].kind = ">"
      BY DEF PromptFollows
    <3>1. PICK i \in InTx : j < i /\ tx[i].kind = ">"
      BY <1>8 DEF Prompted, PromptFollows
    <3>2. tx' = tx /\ i \in InTx'
      BY <1>7 DEF InTx
    <3> QED
      BY <3>1, <3>2
  <2>4. OnePrompt'
    BY <1>8 DEF Prompted, OnePrompt
  <2> QED
    BY <2>1, <2>2, <2>3, <2>4 DEF Prompted
<1>10. OwnCommands'
  <2> SUFFICES ASSUME NEW j \in InRx', Len(rx') - j < step'
               PROVE  rx'[j] = Command(Dialogue[step' - (Len(rx') - j)][1], cur')
    BY DEF OwnCommands
  <2>1. j \in Int /\ j <= Len(rx')
    BY <1>1 DEF Ints, Bounds
  <2>2. j = Len(rx) + 1
    BY <1>3, <1>4, <2>1
  <2>3. ~(j \in InRx)
    BY <1>1, <1>4, <2>2 DEF Bounds
  <2>4. rx'[j] = c
    BY <1>5, <2>3
  <2>5. step' - (Len(rx') - j) = 1
    BY <1>3, <1>4, <2>2
  <2> QED
    BY <1>3, <2>4, <2>5, DialogueIs DEF c
<1>11. AheadOfOk'
  <2>1. ASSUME NEW k \in InTx', NEW i \in InTx', NEW j \in InTx', j < k, k < i,
               tx'[k].kind = "+CPIN", tx'[i].kind = ">"
        PROVE  tx'[j].kind # "OK"
    <3>1. /\ i \in Int /\ k \in Int /\ j \in Int
          /\ 1 <= j /\ i <= Len(tx') /\ k <= Len(tx') /\ i <= Len(tx') + Len(rx)
      BY <1>1, <1>4, <2>1 DEF Ints, Bounds
    <3> QED
      BY <1>4, <2>1, <3>1, NothingOld
  <2>2. ASSUME NEW k \in InRx', NEW q \in InRx', k < q, rx'[k].cmd = "CPIN",
               rx'[q].cmd = "CMGS"
        PROVE  k = 1 /\ \A j \in InTx' : tx'[j].kind # "OK"
    <3>1. q \in InRx /\ k \in InRx /\ rx[k].cmd = "CPIN" /\ rx[q].cmd = "CMGS"
      BY <1>2, <1>5, <2>2
    <3>2. q \in Int /\ k \in Int /\ 1 <= k /\ q <= Len(rx)
      BY <1>1, <3>1 DEF Ints, Bounds
    <3> DEFINE n == Len(tx')
    <3>3. n \in Nat /\ n = Len(tx')
      BY <1>4
    <3> HIDE DEF n
    <3>4. /\ n + k \in Int /\ n + q \in Int /\ ~(n + k <= n) /\ ~(n + q <= n)
          /\ (n + k) - n = k /\ (n + q) - n = q
          /\ n + k < n + q /\ n + q <= n + Len(rx)
      BY <1>4, <2>2, <3>2, <3>3
    <3>5. ASSUME NEW i \in Int, 1 <= i, i < n + k
          PROVE  i <= n /\ tx'[i].kind # "OK"
      BY <1>4, <3>1, <3>3, <3>4, <3>5, NothingOld
    <3>6. k = 1
      <4>1. CASE k # 1
        <5>1. n + 1 \in Int /\ 1 <= n + 1 /\ n + 1 < n + k /\ ~(n + 1 <= n)
          BY <3>2, <3>3, <4>1
        <5> QED
          BY <3>5, <5>1
      <4> QED
        BY <4>1
    <3>7. ASSUME NEW j \in InTx'
          PROVE  tx'[j].kind # "OK"
      <4>1. j \in Int /\ 1 <= j /\ j < n + k
        BY <1>1, <3>2, <3>3, <3>7 DEF Ints, Bounds
      <4> QED
        BY <3>5, <4>1
    <3> QED
      BY <3>6, <3>7
  <2>3. ASSUME NEW k \in InTx', NEW j \in InTx', NEW q \in InRx', j < k,
               tx'[k].kind = "+CPIN", rx'[q].cmd = "CMGS"
        PROVE  tx'[j].kind # "OK"
    <3>1. q \in InRx /\ rx[q].cmd = "CMGS"
      BY <1>2, <1>5, <2>3
    <3>2. /\ q \in Int /\ k \in Int /\ j \in Int /\ 1 <= j /\ k <= Len(tx')
          /\ 1 <= q /\ q <= Len(rx)
      BY <1>1, <3>1 DEF Ints, Bounds
    <3> DEFINE i == Len(tx') + q
    <3>3. /\ i \in Int /\ ~(i <= Len(tx')) /\ i - Len(tx') = q
          /\ k < i /\ i <= Len(tx') + Len(rx)
      BY <1>4, <3>2
    <3> HIDE DEF i
    <3> QED
      BY <1>4, <2>3, <3>1, <3>2, <3>3, NothingOld
  <2> QED
    BY <2>1, <2>2, <2>3 DEF AheadOfOk
<1> QED
  BY <1>3, <1>6, <1>9, <1>10, <1>11 DEF InStep, Asking

(* While no message is being sent, only what is on its way matters.        *)
LEMMA IdleFollowing ==
  ASSUME Typed, Typed', InStep, UNCHANGED entry, pc' \notin Talking,
         NEW c, rx' = rx \/ Written(c), c.cmd \in {"ATD", "CHUP"}
  PROVE  InStep'
<1>1. Ints
  BY BoundsHold
<1>2. \A q \in InRx' : (q \in InRx /\ rx'[q] = rx[q]) \/ rx'[q] = c
  BY <1>1, AddsIsOld DEF Adds
<1>3. TextHasEntry'
  BY <1>2 DEF InStep, TextHasEntry
<1> QED
  BY <1>3 DEF InStep, Talking

LEMMA StaysIdle ==
  ASSUME TextHasEntry, UNCHANGED <<entry, rx>>, pc' \notin Talking
  PROVE  InStep'
BY DEF InStep, TextHasEntry, InRx, Talking

LEMMA HangUpStaysIdle ==
  ASSUME Typed, Typed', InStep, UNCHANGED entry, pc' \notin Talking,
         NEW of \in Owner, Write(<<Command("CHUP", of)>>)
  PROVE  InStep'
<1>1. Command("CHUP", of) \in Asked /\ Command("CHUP", of).cmd = "CHUP"
  BY ChupAsked DEF Command
<1> QED
  BY <1>1, Writes, IdleFollowing

LEMMA ProgramFollowing ==
  ASSUME Typed, Typed', InStep, ~late', Program \/ SaveFails \/ Crash
  PROVE  InStep'
<1>1. /\ TextHasEntry
      /\ pc \in Talking => Prompted
  BY DEF InStep
<1>2. CASE BatchBegins
  <2>1. CASE Pending = {}
    <3>1. UNCHANGED <<entry, rx>> /\ pc' = "claim"
      BY <1>2, <2>1 DEF BatchBegins, modem
    <3> QED
      BY <1>1, <3>1, StaysIdle DEF Talking
  <2>2. CASE Pending # {}
    <3>1. OpenPort /\ Begins(Least(Selected)) /\ UNCHANGED entry
      BY <1>2, <2>2 DEF BatchBegins, modem
    <3>2. Least(Selected) \in Sms
      BY <2>2, SelectedIsPending DEF Pending
    <3>3. tx' = <<>>
      BY <3>1 DEF OpenPort
    <3> QED
      BY <1>1, <3>1, <3>2, <3>3, BeginsFollowing
  <2> QED
    BY <2>1, <2>2
<1>3. CASE ReadAnswer
  BY <1>3, AnswerFollowing
<1>4. CASE ReadFinal \/ WaitRunsOut
  BY <1>4, FinalFollowing
<1>5. CASE SaveResult
  <2>1. pc = "save" /\ tx' = tx /\ UNCHANGED entry
    BY <1>5 DEF SaveResult, modem
  <2>2. CASE batch = {}
    <3>1. UNCHANGED rx /\ pc' = "claim"
      BY <1>5, <2>2 DEF SaveResult
    <3> QED
      BY <1>1, <2>1, <3>1, StaysIdle DEF Talking
  <2>3. CASE batch # {}
    <3>1. Begins(Least(batch))
      BY <1>5, <2>3 DEF SaveResult
    <3>2. Least(batch) \in Sms
      BY <2>3, BatchLeast DEF Typed, TypeOK
    <3>3. Prompted
      BY <1>1, <2>1 DEF Talking
    <3> QED
      BY <1>1, <2>1, <3>1, <3>2, <3>3, BeginsFollowing
  <2> QED
    BY <2>2, <2>3
<1>6. CASE SaveFails \/ Crash \/ NothingToDial \/ TimePasses
  <2>1. /\ UNCHANGED <<entry, rx>>
        /\ pc' \in {"claim", "down", "tick"} \/ (pc' = pc /\ pc = "ring")
    BY <1>6 DEF SaveFails, Crash, NothingToDial, TimePasses, lineVars, modem
  <2>2. pc' \notin Talking
    BY <2>1 DEF Talking
  <2> QED
    BY <1>1, <2>1, <2>2, StaysIdle
<1>7. CASE Dial
  <2>1. PICK of \in Call : Write(<<Command("ATD", of)>>)
    BY <1>7 DEF Dial
  <2>2. UNCHANGED entry /\ pc' \notin Talking
    BY <1>7 DEF Dial, modem, Talking
  <2>3. Command("ATD", of) \in Asked /\ Command("ATD", of).cmd = "ATD"
    BY DEF Command, Asked, RxItem, Commands, Owner
  <2> QED
    BY <2>1, <2>2, <2>3, Writes, IdleFollowing
<1>8. CASE RingReads \/ RingTimesOut \/ PlaybackEnds \/ LingerReads \/ LingerTimesOut
  <2>1. /\ UNCHANGED entry /\ cur \in Owner
        /\ UNCHANGED rx \/ Write(<<Command("CHUP", cur)>>)
        /\ pc' \in {"play", "tick", "linger"}
             \/ (pc' = pc /\ pc \in {"ring", "linger"})
    <3>1. cur \in Owner
      BY DEF Typed, TypeOK
    <3>2. CASE RingReads
      BY <3>1, <3>2 DEF RingReads, Ends, NoHangUp, modem, hostVars
    <3>3. CASE RingTimesOut
      BY <3>1, <3>3 DEF RingTimesOut, Ends, HangUp, modem
    <3>4. CASE PlaybackEnds
      BY <3>1, <3>4 DEF PlaybackEnds, Ends, HangUp, modem, lineVars
    <3>5. CASE LingerReads
      BY <3>1, <3>5 DEF LingerReads, Ends, NoHangUp, modem, hostVars
    <3>6. CASE LingerTimesOut
      BY <3>1, <3>6 DEF LingerTimesOut, Ends, HangUp, modem
    <3> QED
      BY <1>8, <3>2, <3>3, <3>4, <3>5, <3>6
  <2>2. pc' \notin Talking
    BY <2>1 DEF Talking
  <2>3. CASE UNCHANGED rx
    BY <1>1, <2>1, <2>2, <2>3, StaysIdle
  <2>4. CASE Write(<<Command("CHUP", cur)>>)
    BY <2>1, <2>2, <2>4, HangUpStaysIdle
  <2> QED
    BY <2>1, <2>3, <2>4
<1>9. CASE Recover
  <2>1. /\ UNCHANGED entry /\ pc' = "tick"
        /\ UNCHANGED rx \/ Write(<<Command("CHUP", None)>>)
    BY <1>9 DEF Recover, modem
  <2>2. pc' \notin Talking /\ None \in Owner
    BY <2>1 DEF Talking, Owner
  <2>3. CASE UNCHANGED rx
    BY <1>1, <2>1, <2>2, <2>3, StaysIdle
  <2>4. CASE Write(<<Command("CHUP", None)>>)
    BY <2>1, <2>2, <2>4, HangUpStaysIdle
  <2> QED
    BY <2>1, <2>3, <2>4
<1> QED
  BY <1>2, <1>3, <1>4, <1>5, <1>6, <1>7, <1>8, <1>9 DEF Program

LEMMA ModemFollowing ==
  ASSUME Typed, Typed', InStep, Modem \/ NetworkEvent
  PROVE  InStep'
BY AnswersFollowing, TextFollowing, SubmitFollowing, VoiceFollowing, NetworkFollowing
   DEF Modem

(* Once a message was begun too far behind, that is not taken back.        *)
LEMMA LateStays ==
  ASSUME [Next]_vars, late
  PROVE  late'
<1>1. CASE UNCHANGED vars
  BY <1>1 DEF vars, history
<1>2. CASE Modem \/ NetworkEvent
  BY <1>2 DEF Modem, NetworkEvent, ModemAnswers, ModemTakesAsText, ModemSubmits,
              ModemVoice, history
<1>3. CASE BatchBegins \/ SaveResult
  BY <1>3 DEF BatchBegins, SaveResult, Begins
<1>4. CASE SaveFails \/ Crash
  BY <1>4 DEF SaveFails, Crash, Fault
<1>5. CASE \/ ReadAnswer \/ ReadFinal \/ WaitRunsOut \/ NothingToDial \/ Dial
           \/ TimePasses \/ Recover
  BY <1>5 DEF ReadAnswer, ReadFinal, WaitRunsOut, NothingToDial, Dial, TimePasses,
              Recover, history
<1>6. CASE RingReads \/ RingTimesOut \/ PlaybackEnds \/ LingerReads \/ LingerTimesOut
  BY <1>6 DEF RingReads, RingTimesOut, PlaybackEnds, LingerReads, LingerTimesOut, Ends,
              history
<1> QED
  BY <1>1, <1>2, <1>3, <1>4, <1>5, <1>6 DEF Next, Program

LEMMA FollowingStep ==
  ASSUME Typed, Typed', Following, [Next]_vars
  PROVE  Following'
<1> SUFFICES ASSUME ~late'
             PROVE  InStep'
  BY DEF Following
<1>1. InStep
  BY LateStays DEF Following
<1>2. CASE UNCHANGED vars
  BY <1>1, <1>2 DEF vars, hostVars, lineVars, modem, history, InStep,
     TextHasEntry, Prompted, PromptHasEntry, OnlyNoiseFollows, PromptFollows,
     OnePrompt, Asking, OwnCommands, AheadOfOk, AheadOfPin, NoOlderPrompt, OwnPrompt, OwnText, InRx, InTx
<1>3. CASE Next
  BY <1>1, <1>3, ProgramFollowing, ModemFollowing DEF Next
<1> QED
  BY <1>2, <1>3

LEMMA FollowingInit == Init => Following
<1> SUFFICES ASSUME Init
             PROVE  InStep
  BY DEF Following
<1>1. rx = <<>> /\ pc = "tick"
  BY DEF Init
<1>2. \A i \in InRx : FALSE
  BY <1>1 DEF InRx
<1> QED
  BY <1>1, <1>2 DEF InStep, TextHasEntry, Talking

LEMMA FollowingAlways == Spec => [](Typed /\ Following)
<1>1. Init => Typed /\ Following
  BY TypedInit, FollowingInit
<1>2. Typed /\ Following /\ [Next]_vars => (Typed /\ Following)'
  BY TypedStep, FollowingStep
<1> QED
  BY <1>1, <1>2, PTL DEF Spec

-----------------------------------------------------------------------------
(* What the network has accepted, and what the rows say of it.             *)
LEMMA CleanStep ==
  ASSUME Typed, Following, CleanTexts, [Next]_vars
  PROVE  CleanTexts'
<1> SUFFICES ASSUME ~late'
             PROVE  \A t \in texts' : t.to = t.of /\ t.clean
  BY DEF CleanTexts
<1>1. InStep /\ \A t \in texts : t.to = t.of /\ t.clean
  BY LateStays DEF Following, CleanTexts
<1>2. CASE ModemSubmits
  <2> DEFINE new == [to |-> Head(rx).of, of |-> Head(rx).of, clean |-> TRUE]
  <2>1. texts' = texts \cup {new} \/ texts' = texts
    BY <1>1, <1>2, SubmitsOwn DEF InStep
  <2>2. new.to = new.of /\ new.clean
    OBVIOUS
  <2> HIDE DEF new
  <2> QED
    BY <1>1, <2>1, <2>2
<1>3. CASE texts' = texts
  BY <1>1, <1>3
<1> QED
  BY <1>2, <1>3, TextsStay

(* No text the network accepts holds anything but one message, and none    *)
(* goes to another number, whatever the modem answers and however late,    *)
(* as long as no message is begun with an OK, a +CPIN and a prompt still   *)
(* to come, in this order, of the messages before.                         *)
THEOREM TextsAreClean == Spec => []CleanTexts
<1>1. Init => CleanTexts
  BY DEF Init, CleanTexts
<1>2. Typed /\ Following /\ CleanTexts /\ [Next]_vars => CleanTexts'
  BY CleanStep
<1> QED
  BY <1>1, <1>2, FollowingAlways, PTL DEF Spec

LEMMA AcceptedGrows ==
  ASSUME Typed, [Next]_vars, NEW m \in Sms, accepted[m] > 0
  PROVE  accepted'[m] > 0
<1>1. accepted \in [Sms -> Nat]
  BY DEF Typed, TypeOK
<1>2. CASE accepted' = accepted
  BY <1>2
<1>3. CASE \E of : accepted' = [accepted EXCEPT ![of] = @ + 1]
  <2>1. PICK of : accepted' = [accepted EXCEPT ![of] = @ + 1]
    BY <1>3
  <2>2. accepted'[m] = accepted[m] \/ accepted'[m] = accepted[m] + 1
    BY <1>1, <2>1
  <2>3. accepted[m] \in Nat
    BY <1>1
  <2> QED
    BY <2>2, <2>3
<1> QED
  BY <1>2, <1>3, AcceptedOnSubmit

LEMMA SentStep ==
  ASSUME Typed, Following, SentWasAccepted, [Next]_vars
  PROVE  SentWasAccepted'
<1> SUFFICES ASSUME ~late', NEW m \in Sms, sms'[m] = "sent"
             PROVE  accepted'[m] > 0
  BY DEF SentWasAccepted
<1>1. InStep /\ (sms[m] = "sent" => accepted[m] > 0)
  BY LateStays DEF Following, SentWasAccepted
<1>2. CASE sms[m] = "sent"
  BY <1>1, <1>2, AcceptedGrows
<1>3. CASE sms[m] # "sent"
  <2>1. SaveResult
    BY <1>3, RowsAreSaved
  <2>2. pc = "save" /\ sms' = [sms EXCEPT ![cur] = result]
    BY <2>1 DEF SaveResult
  <2>3. m = cur /\ result = "sent"
    BY <1>3, <2>2 DEF Typed, TypeOK
  <2>4. accepted[m] > 0
    BY <1>1, <2>2, <2>3 DEF InStep
  <2> QED
    BY <2>4, AcceptedGrows
<1> QED
  BY <1>2, <1>3

(* A row is marked sent only if the network accepted that message: the     *)
(* +CMGS that was read was its own, not one that came late, under the same *)
(* exception.                                                              *)
THEOREM SentIsAccepted == Spec => []SentWasAccepted
<1>1. Init => SentWasAccepted
  BY DEF Init, SentWasAccepted
<1>2. Typed /\ Following /\ SentWasAccepted /\ [Next]_vars => SentWasAccepted'
  BY SentStep
<1> QED
  BY <1>1, <1>2, FollowingAlways, PTL DEF Spec

-----------------------------------------------------------------------------
(* How often one message can reach its person. Each copy of it that was    *)
(* accepted, or is on its way, or that the row still asks for, is paid for *)
(* by the row itself or by a failed commit or a crash.                     *)

CopiesOf(m) == {i \in InRx : rx[i].cmd = "text" /\ rx[i].of = m}
Copies(m) == Cardinality(CopiesOf(m))
Owed(m) == IF sms[m] = "pending" /\ ~(cur = m /\ pc \in {"final", "save"}) THEN 1 ELSE 0
PaidFor(m) == accepted[m] + Copies(m) + Owed(m) <= 1 + faults

LEMMA CopiesFinite ==
  ASSUME Typed, NEW m
  PROVE  IsFiniteSet(CopiesOf(m)) /\ Copies(m) \in Nat
<1>1. Len(rx) \in Int /\ 1 \in Int
  BY BoundsHold DEF Ints
<1>2. IsFiniteSet(InRx)
  BY <1>1, FS_Interval DEF InRx
<1>3. CopiesOf(m) \in SUBSET InRx
  BY DEF CopiesOf
<1>4. IsFiniteSet(CopiesOf(m))
  BY <1>2, <1>3, FS_Subset
<1> QED
  BY <1>4, FS_CardinalityType DEF Copies

LEMMA CopiesFiniteNext ==
  ASSUME Typed', NEW m
  PROVE  IsFiniteSet(CopiesOf(m)') /\ Copies(m)' \in Nat
<1>1. (Typed => IsFiniteSet(CopiesOf(m)) /\ Copies(m) \in Nat)'
  BY CopiesFinite, PTL
<1> QED
  BY <1>1

(* Taking the first command takes one copy away if it is one.              *)
LEMMA CopiesTaken ==
  ASSUME Typed, Typed', Taken, 1 \in InRx, NEW m
  PROVE  /\ Copies(m)' <= Copies(m)
         /\ rx[1].cmd = "text" /\ rx[1].of = m => Copies(m)' <= Copies(m) - 1
<1> DEFINE S == CopiesOf(m)
           R == CopiesOf(m)'
           f == [i \in R |-> i + 1]
<1>1. Ints' /\ Bounds' /\ IsFiniteSet(S) /\ IsFiniteSet(R)
  BY BoundsNext, CopiesFinite, CopiesFiniteNext
<1>2. \A i \in R : i \in Int /\ 1 <= i /\ i + 1 \in S \ {1}
  <2> SUFFICES ASSUME NEW i \in R
               PROVE  i \in Int /\ 1 <= i /\ i + 1 \in S \ {1}
    OBVIOUS
  <2>1. i \in InRx' /\ rx'[i].cmd = "text" /\ rx'[i].of = m
    BY DEF CopiesOf
  <2>2. i + 1 \in InRx /\ rx'[i] = rx[i + 1]
    BY <2>1 DEF Taken
  <2>3. i \in Int /\ 1 <= i
    BY <1>1, <2>1 DEF Ints, Bounds
  <2>4. i + 1 # 1
    BY <2>3
  <2> QED
    BY <2>1, <2>2, <2>3, <2>4 DEF CopiesOf
<1>3. IsFiniteSet(S \ {1})
  BY <1>1, FS_RemoveElement
<1>4. f \in Injection(R, S \ {1})
  <2>1. f \in [R -> S \ {1}]
    BY <1>2
  <2>2. ASSUME NEW a \in R, NEW b \in R, f[a] = f[b]
        PROVE  a = b
    <3>1. a \in Int /\ b \in Int /\ a + 1 = b + 1
      BY <1>2, <2>2
    <3> QED
      BY <3>1
  <2> HIDE DEF f, R, S
  <2> QED
    BY <2>1, <2>2 DEF Injection, IsInjective
<1>5. Cardinality(R) <= Cardinality(S \ {1})
  <2> HIDE DEF f, R, S
  <2> QED
    BY <1>3, <1>4, FS_Injection
<1>6. Cardinality(S \ {1}) = IF 1 \in S THEN Cardinality(S) - 1 ELSE Cardinality(S)
  <2> HIDE DEF f, R, S
  <2> QED
    BY <1>1, FS_RemoveElement
<1>7. rx[1].cmd = "text" /\ rx[1].of = m => 1 \in S
  BY DEF CopiesOf
<1>8. Copies(m) = Cardinality(S) /\ Copies(m)' = Cardinality(R) /\ Copies(m) \in Nat
      /\ Copies(m)' \in Nat
  BY CopiesFinite, CopiesFiniteNext DEF Copies
<1> HIDE DEF f, R, S
<1> QED
  BY <1>5, <1>6, <1>7, <1>8

LEMMA CopiesAdded ==
  ASSUME Typed, Typed', NEW c, Adds(c), NEW m
  PROVE  /\ Copies(m)' <= Copies(m) + 1
         /\ ~(c.cmd = "text" /\ c.of = m) => Copies(m)' <= Copies(m)
<1> DEFINE S == CopiesOf(m)
           R == CopiesOf(m)'
           n == Len(rx) + 1
<1>1. IsFiniteSet(S) /\ IsFiniteSet(R) /\ Cardinality(S) \in Nat /\ Cardinality(R) \in Nat
  BY CopiesFinite, CopiesFiniteNext DEF Copies
<1>2. R \subseteq S \cup {n}
  <2> SUFFICES ASSUME NEW i \in R
               PROVE  i \in S \cup {n}
    OBVIOUS
  <2>1. i \in InRx' /\ rx'[i].cmd = "text" /\ rx'[i].of = m
    BY DEF CopiesOf
  <2>2. (i \in InRx /\ rx'[i] = rx[i]) \/ i = n
    BY <2>1 DEF Adds, Written, InRx
  <2> QED
    BY <2>1, <2>2 DEF CopiesOf
<1>3. ~(c.cmd = "text" /\ c.of = m) => R \subseteq S
  <2> SUFFICES ASSUME ~(c.cmd = "text" /\ c.of = m), NEW i \in R
               PROVE  i \in S
    OBVIOUS
  <2>1. i \in InRx' /\ rx'[i].cmd = "text" /\ rx'[i].of = m
    BY DEF CopiesOf
  <2>2. (i \in InRx /\ rx'[i] = rx[i]) \/ rx'[i] = c
    BY <2>1, BoundsHold, AddsIsOld
  <2> QED
    BY <2>1, <2>2 DEF CopiesOf
<1>4. Copies(m) = Cardinality(S) /\ Copies(m)' = Cardinality(R)
  BY DEF Copies
<1> HIDE DEF R, S, n
<1>5. /\ IsFiniteSet(S \cup {n}) /\ Cardinality(S \cup {n}) \in Nat
      /\ Cardinality(S \cup {n}) <= Cardinality(S) + 1
  <2>1. /\ IsFiniteSet(S \cup {n})
        /\ Cardinality(S \cup {n}) = IF n \in S THEN Cardinality(S) ELSE Cardinality(S) + 1
    BY <1>1, FS_AddElement
  <2> QED
    BY <1>1, <2>1
<1>6. Cardinality(R) <= Cardinality(S \cup {n})
  BY <1>2, <1>5, FS_Subset
<1>7. R \subseteq S => Cardinality(R) <= Cardinality(S)
  BY <1>1, FS_Subset
<1> QED
  BY <1>1, <1>3, <1>4, <1>5, <1>6, <1>7

(* The counts are numbers, and the sum does not grow if none of them does. *)
LEMMA CountsAre ==
  ASSUME Typed, Typed', NEW m \in Sms
  PROVE  /\ accepted[m] \in Nat /\ accepted'[m] \in Nat
         /\ Copies(m) \in Nat /\ Copies(m)' \in Nat
         /\ Owed(m) \in 0..1 /\ Owed(m)' \in 0..1
         /\ faults \in Nat /\ faults' \in Nat
<1>1. /\ accepted \in [Sms -> Nat] /\ accepted' \in [Sms -> Nat]
      /\ faults \in 0..MaxFaults /\ faults' \in 0..MaxFaults
  BY DEF Typed, TypeOK
<1>2. accepted[m] \in Nat /\ accepted'[m] \in Nat
  BY <1>1
<1>3. Copies(m) \in Nat /\ Copies(m)' \in Nat
  BY CopiesFinite, CopiesFiniteNext
<1>4. Owed(m) \in 0..1 /\ Owed(m)' \in 0..1
  BY DEF Owed
<1>5. faults \in Nat /\ faults' \in Nat
  BY <1>1, ModemAssumption
<1> QED
  BY <1>2, <1>3, <1>4, <1>5

LEMMA NoneGrows ==
  ASSUME Typed, Typed', NEW m \in Sms, PaidFor(m),
         accepted' = accepted, faults' = faults,
         Copies(m)' <= Copies(m), Owed(m)' <= Owed(m)
  PROVE  PaidFor(m)'
<1>1. accepted[m] \in Nat /\ Copies(m) \in Nat /\ Copies(m)' \in Nat
      /\ Owed(m) \in 0..1 /\ Owed(m)' \in 0..1 /\ faults \in Nat
  BY CountsAre
<1>2. accepted[m] + Copies(m) + Owed(m) <= 1 + faults
  BY DEF PaidFor
<1>3. accepted[m] + Copies(m)' + Owed(m)' <= 1 + faults
  BY <1>1, <1>2
<1> QED
  BY <1>3 DEF PaidFor

(* The modem takes a command: at most the copy at hand becomes a text.     *)
LEMMA ModemPaidFor ==
  ASSUME Typed, Typed', NEW m \in Sms, PaidFor(m), Modem \/ NetworkEvent
  PROVE  PaidFor(m)'
<1>1. UNCHANGED <<rowVars, hostVars, faults>>
  BY DEF Modem, NetworkEvent, ModemAnswers, ModemTakesAsText, ModemSubmits,
         ModemVoice, history
<1>2. Owed(m)' = Owed(m)
  BY <1>1 DEF Owed, rowVars, hostVars
<1>3. accepted[m] \in Nat /\ accepted'[m] \in Nat /\ Copies(m) \in Nat /\ Copies(m)' \in Nat
      /\ Owed(m) \in 0..1 /\ Owed(m)' \in 0..1 /\ faults \in Nat
  BY CountsAre
<1>4. CASE ModemAnswers \/ ModemTakesAsText \/ ModemVoice
  <2>1. rx # <<>> /\ rx' = Tail(rx) /\ accepted' = accepted
    BY <1>4 DEF ModemAnswers, ModemTakesAsText, ModemVoice, history
  <2>2. Copies(m)' <= Copies(m)
    BY <2>1, Takes, CopiesTaken
  <2> QED
    BY <1>1, <1>2, <1>3, <2>1, <2>2, NoneGrows
<1>5. CASE NetworkEvent
  <2>1. rx' = rx /\ accepted' = accepted
    BY <1>5 DEF NetworkEvent, history
  <2>2. CopiesOf(m)' = CopiesOf(m)
    BY <2>1 DEF CopiesOf, InRx
  <2>3. Copies(m)' <= Copies(m)
    BY <1>3, <2>2 DEF Copies
  <2> QED
    BY <1>1, <1>2, <1>3, <2>1, <2>3, NoneGrows
<1>6. CASE ModemSubmits
  <2>1. /\ rx # <<>> /\ rx' = Tail(rx) /\ Head(rx).cmd = "text"
        /\ \/ accepted' = accepted
           \/ accepted' = [accepted EXCEPT ![Head(rx).of] = @ + 1]
    BY <1>6 DEF ModemSubmits
  <2>2. Taken /\ 1 \in InRx /\ rx[1] = Head(rx)
    BY <2>1, Takes
  <2>3. /\ Copies(m)' <= Copies(m)
        /\ rx[1].of = m => Copies(m)' <= Copies(m) - 1
    BY <2>1, <2>2, CopiesTaken
  <2>4. \/ accepted'[m] = accepted[m]
        \/ rx[1].of = m /\ accepted'[m] = accepted[m] + 1
    <3>1. accepted \in [Sms -> Nat]
      BY DEF Typed, TypeOK
    <3> QED
      BY <2>1, <2>2, <3>1
  <2>5. accepted'[m] + Copies(m)' <= accepted[m] + Copies(m)
    BY <1>3, <2>3, <2>4
  <2>6. accepted[m] + Copies(m) + Owed(m) <= 1 + faults
    BY DEF PaidFor
  <2>7. accepted'[m] + Copies(m)' + Owed(m)' <= 1 + faults'
    BY <1>1, <1>2, <1>3, <2>5, <2>6
  <2> QED
    BY <2>7 DEF PaidFor
<1> QED
  BY <1>4, <1>5, <1>6 DEF Modem

(* A commit that fails and a crash put one more message on the account.    *)
LEMMA FaultPaidFor ==
  ASSUME Typed, Typed', NEW m \in Sms, PaidFor(m), SaveFails \/ Crash
  PROVE  PaidFor(m)'
<1>1. accepted' = accepted /\ faults' = faults + 1 /\ rx' = rx
  BY DEF SaveFails, Crash, Fault, lineVars
<1>2. accepted[m] \in Nat /\ Copies(m) \in Nat
      /\ Owed(m) \in 0..1 /\ Owed(m)' \in 0..1 /\ faults \in Nat
  BY CountsAre
<1>3. Copies(m)' = Copies(m)
  BY <1>1 DEF Copies, CopiesOf, InRx
<1>4. accepted[m] + Copies(m) + Owed(m) <= 1 + faults
  BY DEF PaidFor
<1>5. accepted'[m] + Copies(m)' + Owed(m)' <= 1 + faults'
  BY <1>1, <1>2, <1>3, <1>4
<1> QED
  BY <1>5 DEF PaidFor

(* A step of the program adds no copy without taking it off the row.       *)
LEMMA KeepsCopies ==
  ASSUME Typed, Typed', NEW m \in Sms, PaidFor(m), UNCHANGED <<accepted, faults>>,
         NEW c, Adds(c), c.cmd # "text",
         sms'[m] = "pending" => sms[m] = "pending",
         \/ pc \notin {"final", "save"}
         \/ cur' = cur /\ pc' \in {"final", "save"}
         \/ sms'[m] # "pending" \/ cur # m
  PROVE  PaidFor(m)'
<1>1. Copies(m)' <= Copies(m)
  BY CopiesAdded
<1>2. Owed(m)' <= Owed(m)
  <2>1. Owed(m) \in 0..1 /\ Owed(m)' \in 0..1
    BY CountsAre
  <2>2. Owed(m) = 0 => Owed(m)' = 0
    BY DEF Owed
  <2> QED
    BY <2>1, <2>2
<1> QED
  BY <1>1, <1>2, NoneGrows

LEMMA BeginsAdds ==
  ASSUME Typed, Typed', NEW k \in Sms, Begins(k)
  PROVE  \E c : Adds(c) /\ c.cmd # "text"
<1>1. Command("CMEE", k) \in Asked /\ Command("CMEE", k).cmd # "text"
  BY SmsAsked DEF Command
<1>2. Write(<<Command("CMEE", k)>>)
  BY DialogueIs DEF Begins
<1> QED
  BY <1>1, <1>2, Writes DEF Adds

LEMMA ProgramPaidFor ==
  ASSUME Typed, Typed', NEW m \in Sms, PaidFor(m), Program
  PROVE  PaidFor(m)'
<1> DEFINE a == Command("CMEE", m)
<1>1. a.cmd # "text"
  BY DEF Command
<1>2. UNCHANGED <<accepted, faults>>
  <2>1. CASE \/ ReadAnswer \/ ReadFinal \/ WaitRunsOut \/ NothingToDial \/ Dial
             \/ TimePasses \/ Recover
    BY <2>1 DEF ReadAnswer, ReadFinal, WaitRunsOut, NothingToDial, Dial, TimePasses,
                Recover, history
  <2>2. CASE RingReads \/ RingTimesOut \/ PlaybackEnds \/ LingerReads \/ LingerTimesOut
    BY <2>2 DEF RingReads, RingTimesOut, PlaybackEnds, LingerReads, LingerTimesOut,
                Ends, history
  <2>3. CASE BatchBegins \/ SaveResult
    BY <2>3 DEF BatchBegins, SaveResult
  <2> QED
    BY <2>1, <2>2, <2>3 DEF Program
<1>3. \A i \in 1..6 : Command(Dialogue[i][1], cur).cmd # "text"
  BY DialogueIs DEF Command
<1>4. CASE BatchBegins
  <2>1. /\ pc = "tick" /\ sms' = sms
        /\ rx' = rx \/ (Pending # {} /\ Begins(Least(Selected)))
    BY <1>4 DEF BatchBegins, rowVars
  <2>2. PICK c : Adds(c) /\ c.cmd # "text"
    BY <1>1, <2>1, SelectedIsPending, BeginsAdds DEF Adds, Pending
  <2> QED
    BY <1>2, <2>1, <2>2, KeepsCopies
<1>5. CASE ReadAnswer
  <2>1. /\ pc = "ask" /\ sms' = sms /\ cur' = cur /\ cur \in Sms
        /\ \/ rx' = rx
           \/ step < 6 /\ Write(<<Command(Dialogue[step + 1][1], cur)>>)
           \/ Write(<<Command("text", cur)>>) /\ pc' = "final"
    BY <1>5, DialogueLength DEF ReadAnswer, rowVars, Decide, Typed, HostOK, Talking, Pending
  <2>2. CASE rx' = rx
    BY <1>1, <1>2, <2>1, <2>2, KeepsCopies DEF Adds
  <2>3. CASE step < 6 /\ Write(<<Command(Dialogue[step + 1][1], cur)>>)
    <3>1. step + 1 \in 1..6
      BY <2>3, TypedParts DEF RestOK
    <3>2. Written(Command(Dialogue[step + 1][1], cur))
      BY <2>1, <2>3, <3>1, DialogueAsked, Writes
    <3> QED
      BY <1>2, <1>3, <2>1, <3>1, <3>2, KeepsCopies DEF Adds
  <2>4. CASE Write(<<Command("text", cur)>>) /\ pc' = "final"
    <3>1. Command("text", cur) \in Asked
      BY <2>1, SmsAsked
    <3>2. Adds(Command("text", cur))
      BY <2>4, <3>1, Writes DEF Adds
    <3>3. /\ Command("text", cur).cmd = "text" /\ Command("text", cur).of = cur
      BY DEF Command
    <3>4. Copies(m)' <= Copies(m) + 1 /\ (cur # m => Copies(m)' <= Copies(m))
      BY <3>2, <3>3, CopiesAdded
    <3>5. accepted[m] \in Nat /\ Copies(m) \in Nat /\ Copies(m)' \in Nat
          /\ Owed(m) \in 0..1 /\ Owed(m)' \in 0..1 /\ faults \in Nat
      BY CountsAre
    <3>6. CASE cur # m
      <4>1. Owed(m)' <= Owed(m)
        BY <2>1, <3>6 DEF Owed
      <4> QED
        BY <1>2, <3>4, <3>6, <4>1, NoneGrows
    <3>7. CASE cur = m
      <4>1. sms[m] = "pending"
        BY <2>1, <3>7 DEF Typed, HostOK, Talking, Pending
      <4>2. Owed(m) = 1 /\ Owed(m)' = 0
        BY <2>1, <2>4, <3>7, <4>1 DEF Owed
      <4>3. accepted[m] + Copies(m) + Owed(m) <= 1 + faults
        BY DEF PaidFor
      <4>4. accepted'[m] + Copies(m)' + Owed(m)' <= 1 + faults'
        BY <1>2, <3>4, <3>5, <4>2, <4>3
      <4> QED
        BY <4>4 DEF PaidFor
    <3> QED
      BY <3>6, <3>7
  <2> QED
    BY <2>1, <2>2, <2>3, <2>4
<1>6. CASE ReadFinal \/ WaitRunsOut
  <2>1. /\ sms' = sms /\ cur' = cur /\ rx' = rx
        /\ pc = "ask" \/ pc' \in {"final", "save"}
    BY <1>6 DEF ReadFinal, WaitRunsOut, rowVars, Decide, lineVars
  <2> QED
    BY <1>1, <1>2, <2>1, KeepsCopies DEF Adds
<1>7. CASE SaveResult
  <2>1. /\ sms' = [sms EXCEPT ![cur] = result] /\ cur \in Sms
        /\ rx' = rx \/ (batch # {} /\ Begins(Least(batch)))
    BY <1>7 DEF SaveResult, Typed, HostOK, Talking, Pending
  <2>2. cur = m => sms'[m] # "pending"
    BY <2>1 DEF Typed, TypeOK
  <2>3. cur # m => sms'[m] = sms[m]
    BY <2>1 DEF Typed, TypeOK
  <2>4. batch \in SUBSET Sms
    BY DEF Typed, TypeOK
  <2>5. PICK c : Adds(c) /\ c.cmd # "text"
    BY <1>1, <2>1, <2>4, BatchLeast, BeginsAdds DEF Adds
  <2> QED
    BY <1>2, <2>2, <2>3, <2>5, KeepsCopies
<1>8. CASE NothingToDial \/ TimePasses \/ Recover \/ Dial
  <2>1. /\ pc \notin {"final", "save"} /\ sms' = sms
        /\ \/ rx' = rx
           \/ Write(<<Command("CHUP", None)>>)
           \/ \E of \in Call : Write(<<Command("ATD", of)>>)
    BY <1>8 DEF NothingToDial, TimePasses, Recover, Dial, rowVars, lineVars
  <2>2. PICK c : Adds(c) /\ c.cmd # "text"
    <3>1. \A of \in Call : Command("ATD", of) \in Asked /\ Command("ATD", of).cmd # "text"
      BY DEF Command, Asked, RxItem, Commands, Owner
    <3>2. Command("CHUP", None) \in Asked /\ Command("CHUP", None).cmd # "text"
      BY ChupAsked DEF Command, Owner
    <3> QED
      BY <1>1, <2>1, <3>1, <3>2, Writes DEF Adds
  <2> QED
    BY <1>2, <2>1, <2>2, KeepsCopies
<1>9. CASE RingReads \/ RingTimesOut \/ PlaybackEnds \/ LingerReads \/ LingerTimesOut
  <2>1. /\ pc \notin {"final", "save"} /\ sms' = sms
        /\ rx' = rx \/ Write(<<Command("CHUP", cur)>>)
    <3>1. CASE RingReads
      BY <3>1 DEF RingReads, Ends, NoHangUp, rowVars
    <3>2. CASE RingTimesOut
      BY <3>2 DEF RingTimesOut, Ends, HangUp, rowVars
    <3>3. CASE PlaybackEnds
      BY <3>3 DEF PlaybackEnds, Ends, HangUp, rowVars, lineVars
    <3>4. CASE LingerReads
      BY <3>4 DEF LingerReads, Ends, NoHangUp, rowVars
    <3>5. CASE LingerTimesOut
      BY <3>5 DEF LingerTimesOut, Ends, HangUp, rowVars
    <3> QED
      BY <1>9, <3>1, <3>2, <3>3, <3>4, <3>5
  <2>2. PICK c : Adds(c) /\ c.cmd # "text"
    <3>1. cur \in Owner
      BY DEF Typed, TypeOK
    <3>2. Command("CHUP", cur) \in Asked /\ Command("CHUP", cur).cmd # "text"
      BY <3>1, ChupAsked DEF Command
    <3> QED
      BY <1>1, <2>1, <3>2, Writes DEF Adds
  <2> QED
    BY <1>2, <2>1, <2>2, KeepsCopies
<1> QED
  BY <1>4, <1>5, <1>6, <1>7, <1>8, <1>9 DEF Program

LEMMA PaidForInit ==
  ASSUME Init, NEW m \in Sms
  PROVE  PaidFor(m)
<1>1. rx = <<>> /\ accepted[m] = 0 /\ faults = 0 /\ sms[m] = "pending" /\ pc = "tick"
  BY DEF Init
<1>2. CopiesOf(m) = {}
  BY <1>1 DEF CopiesOf, InRx
<1>3. Copies(m) = 0
  BY <1>2, FS_EmptySet DEF Copies
<1>4. Owed(m) = 1
  BY <1>1 DEF Owed
<1> QED
  BY <1>1, <1>3, <1>4 DEF PaidFor

LEMMA PaidForStep ==
  ASSUME Typed, Typed', NEW m \in Sms, PaidFor(m), [Next]_vars
  PROVE  PaidFor(m)'
<1>1. CASE UNCHANGED vars
  <2>1. UNCHANGED <<accepted, faults, rx, sms, cur, pc>>
    BY <1>1 DEF vars, rowVars, hostVars, lineVars, modem, history
  <2> QED
    BY <2>1 DEF PaidFor, Copies, CopiesOf, InRx, Owed
<1>2. CASE Next
  BY <1>2, ProgramPaidFor, FaultPaidFor, ModemPaidFor DEF Next
<1> QED
  BY <1>1, <1>2

(* No person gets a message more often than once and once more for each    *)
(* failed commit or crash: neither a wait that ran out nor an answer that  *)
(* came late makes the program send a text again. This needs no bound on   *)
(* how far the modem is behind.                                            *)
THEOREM ResendsAreBounded == Spec => []BoundedResends
<1> DEFINE AllPaid == \A m \in Sms : PaidFor(m)
<1>1. Init => AllPaid
  BY PaidForInit
<1>2. Typed /\ Typed' /\ AllPaid /\ [Next]_vars => AllPaid'
  BY PaidForStep
<1>3. Typed /\ AllPaid => BoundedResends
  <2> SUFFICES ASSUME Typed, NEW m \in Sms, PaidFor(m)
               PROVE  accepted[m] <= 1 + faults
    BY DEF BoundedResends
  <2>1. /\ accepted[m] \in Nat /\ Copies(m) \in Nat /\ Owed(m) \in 0..1 /\ faults \in Nat
    <3>1. accepted \in [Sms -> Nat] /\ faults \in 0..MaxFaults
      BY DEF Typed, TypeOK
    <3> QED
      BY <3>1, CopiesFinite, ModemAssumption DEF Owed
  <2>2. accepted[m] + Copies(m) + Owed(m) <= 1 + faults
    BY DEF PaidFor
  <2> QED
    BY <2>1, <2>2
<1> HIDE DEF AllPaid
<1> QED
  BY <1>1, <1>2, <1>3, TypedAlways, PTL DEF Spec
=============================================================================
