---------------------------- MODULE ModemProofs ----------------------------
(***************************************************************************)
(* Theorems about ModemSession, for every number of messages, calls and    *)
(* faults and for every batch limit: types, and the lines of a call. The   *)
(* texts of the messages are in ModemTextProofs.                           *)
(***************************************************************************)
EXTENDS ModemSession, SequenceTheorems, FiniteSetTheorems,
        WellFoundedInduction, TLAPS

-----------------------------------------------------------------------------
(* The two streams as functions: what reading and writing do to positions. *)

RxItem == [cmd : Commands, of : Owner]
TxItem == [kind : Kinds, of : Owner]

LEMMA TailFacts ==
  ASSUME NEW S, NEW s \in Seq(S), s # <<>>
  PROVE  /\ Tail(s) \in Seq(S) /\ Head(s) = s[1] /\ Head(s) \in S
         /\ Len(s) \in Nat \ {0}
         /\ Len(Tail(s)) = Len(s) - 1
         /\ \A i \in 1..Len(s) - 1 : Tail(s)[i] = s[i + 1]
BY HeadTailProperties, EmptySeq

LEMMA ConcatFacts ==
  ASSUME NEW S, NEW s \in Seq(S), NEW t \in Seq(S)
  PROVE  /\ s \o t \in Seq(S)
         /\ Len(s) \in Nat /\ Len(t) \in Nat
         /\ Len(s \o t) = Len(s) + Len(t)
         /\ \A i \in 1..Len(s) : (s \o t)[i] = s[i]
         /\ \A i \in 1..Len(t) : (s \o t)[Len(s) + i] = t[i]
<1>1. Len(s) \in Nat /\ Len(t) \in Nat
  BY LenProperties
<1>2. ASSUME NEW i \in 1..Len(s)
      PROVE  (s \o t)[i] = s[i]
  BY <1>1, ConcatProperties
<1>3. ASSUME NEW i \in 1..Len(t)
      PROVE  (s \o t)[Len(s) + i] = t[i]
  <2>1. Len(s) + i \in 1..(Len(s) + Len(t)) /\ ~(Len(s) + i <= Len(s))
    BY <1>1
  <2>2. (Len(s) + i) - Len(s) = i
    BY <1>1
  <2>3. (s \o t)[Len(s) + i] = t[(Len(s) + i) - Len(s)]
    BY <2>1, ConcatProperties
  <2> QED
    BY <2>2, <2>3
<1> QED
  BY <1>1, <1>2, <1>3, ConcatProperties

LEMMA OneFacts ==
  ASSUME NEW S, NEW c \in S
  PROVE  <<c>> \in Seq(S) /\ Len(<<c>>) = 1 /\ <<c>>[1] = c
OBVIOUS

(* The lines of an answer: as many as its kinds, each about the same owner. *)
LEMMA LinesFacts ==
  ASSUME NEW kinds \in Seq(Kinds), NEW of \in Owner
  PROVE  /\ Lines(kinds, of) \in Seq(TxItem)
         /\ Len(Lines(kinds, of)) = Len(kinds)
         /\ \A i \in 1..Len(kinds) : Lines(kinds, of)[i] = Line(kinds[i], of)
<1>1. Len(kinds) \in Nat /\ DOMAIN kinds = 1..Len(kinds)
  BY LenProperties
<1>2. \A i \in 1..Len(kinds) : kinds[i] \in Kinds
  BY ElementOfSeq
<1>3. \A i \in 1..Len(kinds) : Line(kinds[i], of) \in TxItem
  BY <1>2 DEF Line, TxItem
<1>4. Lines(kinds, of) = [i \in 1..Len(kinds) |-> Line(kinds[i], of)]
  BY <1>1 DEF Lines
<1>5. Lines(kinds, of) \in [1..Len(kinds) -> TxItem]
  BY <1>3, <1>4
<1>6. Lines(kinds, of) \in Seq(TxItem)
  BY <1>1, <1>5, SeqDef
<1> QED
  BY <1>1, <1>4, <1>6, LenProperties

(* A set of natural numbers has a least member, and Least names it. *)
LEMMA LeastIsIn ==
  ASSUME NEW S \in SUBSET Nat, S # {}
  PROVE  /\ Least(S) \in S
         /\ \A k \in S : Least(S) <= k
<1>1. \E m \in S : \A k \in S : ~(<<k, m>> \in OpToRel(<, Nat))
  BY NatLessThanWellFounded, WFMin
<1>2. PICK m \in S : \A k \in S : ~(<<k, m>> \in OpToRel(<, Nat))
  BY <1>1
<1>3. ASSUME NEW k \in S
      PROVE  m <= k
  <2>1. ~(<<k, m>> \in {ss \in Nat \X Nat : ss[1] < ss[2]})
    BY <1>2 DEF OpToRel
  <2> QED
    BY <2>1
<1>4. \E x \in S : \A k \in S : x <= k
  BY <1>3
<1> QED
  BY <1>4 DEF Least
-----------------------------------------------------------------------------
(* Types. TypeOK is not inductive: whose number a text is under and whose  *)
(* call a line is about follow from who writes which command, and that the *)
(* row at hand is pending from how a batch is worked through.              *)

Talking == {"ask", "final", "save"}
Calling == {"ring", "play", "linger"}
Events == {"BEGIN", "BUSY"} \cup EndKinds

(* Commands and lines that are about a message, a call or nothing. *)
Asked == {c \in RxItem : /\ c.cmd = "ATD" => c.of \in Call
                         /\ c.cmd \notin {"ATD", "CHUP"} => c.of \in Sms}
Told == {l \in TxItem : l.kind \in Events => l.of \in Call \cup {None}}

StreamsOK == rx \in Seq(Asked) /\ tx \in Seq(Told)

HostOK ==
    /\ open <=> pc \in Talking \cup Calling
    /\ pc \in Talking => cur \in Pending /\ batch \subseteq Pending \ {cur}
    /\ pc \in Calling => cur \in Call

Typed == TypeOK /\ StreamsOK /\ HostOK

RestOK == /\ sms \in [Sms -> {"pending", "sent", "failed"}]
          /\ outcome \in [Call -> {"queued", "dialing"} \cup Ended]
          /\ pc \in {"tick", "ask", "final", "save", "claim", "ring", "play",
                     "linger", "down"}
          /\ batch \subseteq Sms /\ cur \in Owner
          /\ step \in 1..6 /\ result \in {"sent", "failed"}
          /\ age \in Early..TimedOut /\ open \in BOOLEAN
ModemOK == /\ entry \in [to : Sms \cup {None}, clean : BOOLEAN]
           /\ voice \in [call : Call \cup {None}, up : BOOLEAN]
           /\ texts \subseteq [to : Sms \cup {None}, of : Sms, clean : BOOLEAN]
           /\ accepted \in [Sms -> Nat] /\ source \in [Call -> Call \cup {None}]
           /\ rushed \subseteq Call /\ late \in BOOLEAN /\ faults \in 0..MaxFaults

LEMMA DialogueLength == Len(Dialogue) = 6
BY DEF Dialogue

LEMMA TypedParts == Typed <=> RestOK /\ ModemOK /\ StreamsOK /\ HostOK
<1>1. Asked \subseteq RxItem /\ Told \subseteq TxItem
  BY DEF Asked, Told
<1>2. StreamsOK => rx \in Seq(RxItem) /\ tx \in Seq(TxItem)
  BY <1>1, SeqMonotonic DEF StreamsOK
<1> QED
  BY <1>2, DialogueLength DEF Typed, TypeOK, RestOK, ModemOK, RxItem, TxItem

(* Writing one more well-addressed command, and reading a line. *)
LEMMA WriteKeeps ==
  ASSUME rx \in Seq(Asked), NEW c \in Asked, Write(<<c>>)
  PROVE  /\ rx' \in Seq(Asked)
         /\ Len(rx) \in Nat /\ Len(rx') = Len(rx) + 1
         /\ \A i \in 1..Len(rx) : rx'[i] = rx[i]
         /\ rx'[Len(rx) + 1] = c
<1>1. <<c>> \in Seq(Asked) /\ Len(<<c>>) = 1 /\ <<c>>[1] = c
  BY OneFacts
<1>2. rx' = rx \o <<c>>
  BY DEF Write
<1> HIDE DEF Asked
<1>3. 1 \in 1..Len(<<c>>)
  BY <1>1
<1> QED
  BY <1>1, <1>2, <1>3, ConcatFacts

LEMMA ReadKeeps ==
  ASSUME tx \in Seq(Told), tx # <<>>, tx' = Tail(tx)
  PROVE  /\ tx' \in Seq(Told)
         /\ Len(tx) \in Nat \ {0} /\ Len(tx') = Len(tx) - 1
         /\ Head(tx) = tx[1] /\ tx[1] \in Told
         /\ \A i \in 1..Len(tx) - 1 : tx'[i] = tx[i + 1]
BY TailFacts

(* The modem takes a command. *)
LEMMA TakeKeeps ==
  ASSUME rx \in Seq(Asked), rx # <<>>, rx' = Tail(rx)
  PROVE  /\ rx' \in Seq(Asked)
         /\ Len(rx) \in Nat \ {0} /\ Len(rx') = Len(rx) - 1
         /\ Head(rx) = rx[1] /\ rx[1] \in Asked
         /\ \A i \in 1..Len(rx) - 1 : rx'[i] = rx[i + 1]
BY TailFacts

(* The modem says something about someone. *)
Sayable(kinds, of) ==
    /\ kinds \in Seq(Kinds) /\ of \in Owner
    /\ of \in Call \cup {None} \/ \A i \in 1..Len(kinds) : kinds[i] \notin Events

LEMMA LinesTold ==
  ASSUME NEW kinds, NEW of, Sayable(kinds, of)
  PROVE  Lines(kinds, of) \in Seq(Told)
<1>0. kinds \in Seq(Kinds) /\ of \in Owner /\ Len(kinds) \in Nat
  BY LenProperties DEF Sayable
<1>a. \A i \in 1..Len(kinds) : kinds[i] \in Kinds
  BY <1>0, ElementOfSeq
<1>b. \A i \in 1..Len(kinds) : Line(kinds[i], of) \in Told
  BY <1>0, <1>a DEF Sayable, Told, TxItem, Line
<1>1. /\ Len(kinds) \in Nat
      /\ \A i \in 1..Len(kinds) : Lines(kinds, of)[i] \in Told
  BY <1>0, <1>b, LinesFacts
<1>2. /\ DOMAIN Lines(kinds, of) = 1..Len(kinds)
      /\ Lines(kinds, of) \in [1..Len(kinds) -> TxItem]
  BY LinesFacts, LenProperties DEF Sayable
<1>3. Lines(kinds, of) \in [1..Len(kinds) -> Told]
  BY <1>1, <1>2
<1> QED
  BY <1>1, <1>3, SeqDef

(* ConcatFacts for the input buffer. *)
LEMMA TxConcat ==
  ASSUME tx \in Seq(Told), NEW more \in Seq(Told)
  PROVE  /\ tx \o more \in Seq(Told)
         /\ Len(tx \o more) = Len(tx) + Len(more)
         /\ \A i \in 1..Len(tx) : (tx \o more)[i] = tx[i]
         /\ \A i \in 1..Len(more) : (tx \o more)[Len(tx) + i] = more[i]
BY ConcatFacts

LEMMA EmitKeeps ==
  ASSUME tx \in Seq(Told), NEW kinds, NEW of, Sayable(kinds, of),
         Emit(Lines(kinds, of)), open \in BOOLEAN
  PROVE  /\ tx' \in Seq(Told)
         /\ Len(tx) \in Nat /\ Len(kinds) \in Nat
         /\ open => /\ Len(tx') = Len(tx) + Len(kinds)
                    /\ \A i \in 1..Len(tx) : tx'[i] = tx[i]
                    /\ \A i \in 1..Len(kinds) :
                         tx'[Len(tx) + i] = Line(kinds[i], of)
         /\ ~open => tx' = tx
<1>1. Lines(kinds, of) \in Seq(Told)
  BY LinesTold
<1>2. /\ Len(Lines(kinds, of)) = Len(kinds) /\ Len(kinds) \in Nat
      /\ \A i \in 1..Len(kinds) : Lines(kinds, of)[i] = Line(kinds[i], of)
  BY LinesFacts, LenProperties DEF Sayable
<1>3. Len(tx) \in Nat
  BY LenProperties
<1>4. CASE open
  <2> DEFINE more == Lines(kinds, of)
  <2>1. tx' = tx \o more
    BY <1>4 DEF Emit
  <2>2. /\ more \in Seq(Told) /\ Len(more) = Len(kinds)
        /\ \A i \in 1..Len(kinds) : more[i] = Line(kinds[i], of)
    BY <1>1, <1>2
  <2> HIDE DEF more
  <2>3. /\ tx \o more \in Seq(Told)
        /\ Len(tx \o more) = Len(tx) + Len(more)
        /\ \A i \in 1..Len(tx) : (tx \o more)[i] = tx[i]
        /\ \A i \in 1..Len(more) : (tx \o more)[Len(tx) + i] = more[i]
    BY <2>2, TxConcat
  <2>4. tx' \in Seq(Told) /\ Len(tx') = Len(tx) + Len(kinds)
    BY <2>1, <2>2, <2>3
  <2>5. \A i \in 1..Len(tx) : tx'[i] = tx[i]
    BY <2>1, <2>3
  <2>6. ASSUME NEW i \in 1..Len(kinds)
        PROVE  tx'[Len(tx) + i] = Line(kinds[i], of)
    BY <2>1, <2>2, <2>3
  <2> QED
    BY <1>2, <1>3, <1>4, <2>4, <2>5, <2>6
<1>5. CASE ~open
  BY <1>2, <1>3, <1>5 DEF Emit
<1> QED
  BY <1>4, <1>5

(* The modem's own steps: what it says can be said, whoever it is about.   *)
LEMMA SaysOne ==
  ASSUME NEW of \in Owner, NEW a \in Kinds,
         of \in Call \cup {None} \/ a \notin Events
  PROVE  Sayable(<<a>>, of)
<1>1. <<a>> \in Seq(Kinds) /\ Len(<<a>>) = 1 /\ <<a>>[1] = a
  BY OneFacts
<1> QED
  BY <1>1 DEF Sayable

LEMMA SaysTwo ==
  ASSUME NEW of \in Owner, NEW a \in Kinds, NEW b \in Kinds,
         of \in Call \cup {None} \/ (a \notin Events /\ b \notin Events)
  PROVE  Sayable(<<a, b>>, of)
<1>1. <<a, b>> \in Seq(Kinds) /\ Len(<<a, b>>) = 2
  OBVIOUS
<1>2. \A i \in 1..2 : <<a, b>>[i] \in {a, b}
  OBVIOUS
<1> QED
  BY <1>1, <1>2 DEF Sayable

LEMMA OneLong ==
  ASSUME NEW a
  PROVE  /\ Len(<<a>>) \in Nat /\ Len(<<a>>) >= 1
         /\ \A i \in 1..Len(<<a>>) : <<a>>[i] = a
OBVIOUS

LEMMA TwoLong ==
  ASSUME NEW a, NEW b
  PROVE  /\ Len(<<a, b>>) = 2
         /\ <<a, b>>[1] = a /\ <<a, b>>[2] = b
         /\ Len(<<a, b>>) \in Nat /\ Len(<<a, b>>) >= 1
         /\ \A i \in 1..Len(<<a, b>>) : <<a, b>>[i] \in {a, b}
OBVIOUS

LEMMA ThreeLong ==
  ASSUME NEW a, NEW b, NEW c
  PROVE  /\ Len(<<a, b, c>>) \in Nat /\ Len(<<a, b, c>>) >= 1
         /\ \A i \in 1..Len(<<a, b, c>>) : <<a, b, c>>[i] \in {a, b, c}
<1>1. Len(<<a, b, c>>) = 3
  OBVIOUS
<1>2. <<a, b, c>>[1] = a /\ <<a, b, c>>[2] = b /\ <<a, b, c>>[3] = c
  OBVIOUS
<1>3. \A i \in 1..3 : i = 1 \/ i = 2 \/ i = 3
  OBVIOUS
<1> QED
  BY <1>1, <1>2, <1>3

LEMMA SaysThree ==
  ASSUME NEW of \in Call \cup {None},
         NEW a \in Kinds, NEW b \in Kinds, NEW c \in Kinds
  PROVE  Sayable(<<a, b, c>>, of)
<1>1. <<a, b, c>> \in Seq(Kinds) /\ Len(<<a, b, c>>) = 3
  OBVIOUS
<1> QED
  BY <1>1 DEF Sayable, Owner

LEMMA KindsAre ==
  /\ {"OK", "ERROR", "+CPIN", "+CPIN locked", "+CSQ", ">", "+CMGS", "+CMS ERROR",
      "BEGIN", "BUSY", "END", "END zero", "END short", "END long", "NO CARRIER"}
       = Kinds
  /\ \A k \in {"OK", "ERROR", "+CPIN", "+CPIN locked", "+CSQ", ">", "+CMGS",
               "+CMS ERROR"} : k \notin Events
BY DEF Kinds, Events, EndKinds

LEMMA AnswersSayable ==
  ASSUME NEW c \in Asked, c.cmd \notin {"ATD", "CHUP"}, NEW kinds \in Answers(c)
  PROVE  Sayable(kinds, c.of)
<1>1. c.of \in Owner
  BY DEF Asked, RxItem
<1>2. kinds \in {<<"+CPIN", "OK">>, <<"+CPIN locked", "OK">>, <<"ERROR">>,
                <<"+CSQ", "OK">>, <<">">>, <<"OK">>}
  BY DEF Answers
<1> QED
  BY <1>1, <1>2, SaysOne, SaysTwo, KindsAre

LEMMA VoiceSayable ==
  ASSUME NEW of \in Call \cup {None},
         NEW kinds \in {<<"OK">>, <<"ERROR">>, <<"OK", "END long", "NO CARRIER">>,
                       <<"BEGIN">>, <<"BUSY">>, <<"NO CARRIER">>,
                       <<"END", "NO CARRIER">>, <<"END zero", "NO CARRIER">>,
                       <<"END short", "NO CARRIER">>, <<"END long", "NO CARRIER">>}
  PROVE  Sayable(kinds, of)
<1> of \in Owner
  BY DEF Owner
<1>1. CASE kinds \in {<<"OK">>, <<"ERROR">>, <<"BEGIN">>, <<"BUSY">>,
                     <<"NO CARRIER">>}
  BY <1>1, SaysOne, KindsAre
<1>2. CASE kinds \in {<<"END", "NO CARRIER">>, <<"END zero", "NO CARRIER">>,
                     <<"END short", "NO CARRIER">>, <<"END long", "NO CARRIER">>}
  BY <1>2, SaysTwo, KindsAre
<1>3. CASE kinds = <<"OK", "END long", "NO CARRIER">>
  BY <1>3, SaysThree, KindsAre
<1> QED
  BY <1>1, <1>2, <1>3

LEMMA SmsSayable ==
  ASSUME NEW of \in Sms \cup {None},
         NEW kinds \in {<<">">>, <<"+CMGS", "OK">>, <<"+CMS ERROR">>}
  PROVE  Sayable(kinds, of)
<1> of \in Owner
  BY DEF Owner
<1> QED
  BY SaysOne, SaysTwo, KindsAre

(* A step of the modem that keeps the streams and its own variables typed  *)
(* keeps everything typed.                                                 *)
LEMMA ModemStepTyped ==
  ASSUME Typed, UNCHANGED <<rowVars, hostVars>>, StreamsOK', ModemOK'
  PROVE  Typed'
<1>1. RestOK /\ HostOK
  BY TypedParts
<1>2. RestOK' /\ HostOK'
  BY <1>1 DEF RestOK, HostOK, rowVars, hostVars, Pending
<1>3. (RestOK /\ ModemOK /\ StreamsOK /\ HostOK)' => Typed'
  BY TypedParts, PTL
<1> QED
  BY <1>2, <1>3

LEMMA ModemTyped ==
  ASSUME Typed, Modem \/ NetworkEvent
  PROVE  Typed'
<1>1. /\ rx \in Seq(Asked) /\ tx \in Seq(Told) /\ ModemOK
      /\ open \in BOOLEAN
  BY TypedParts DEF StreamsOK, RestOK
<1>2. CASE ModemAnswers
  <2>1. /\ rx # <<>> /\ rx' = Tail(rx) /\ Head(rx).cmd \notin {"ATD", "CHUP"}
        /\ UNCHANGED <<rowVars, hostVars, voice, history>>
    BY <1>2 DEF ModemAnswers
  <2>2. PICK kinds \in Answers(Head(rx)) :
           /\ Emit(Lines(kinds, Head(rx).of))
           /\ entry' = IF kinds = <<">">> THEN [to |-> Head(rx).of, clean |-> TRUE]
                       ELSE entry
    BY <1>2 DEF ModemAnswers
  <2>3. rx' \in Seq(Asked) /\ Head(rx) \in Asked
    BY <1>1, <2>1, TakeKeeps
  <2>4. Head(rx).of \in Sms
    BY <2>1, <2>3 DEF Asked
  <2>5. tx' \in Seq(Told)
    BY <1>1, <2>1, <2>2, <2>3, AnswersSayable, EmitKeeps
  <2>6. ModemOK'
    BY <1>1, <2>1, <2>2, <2>4 DEF ModemOK, history
  <2> QED
    BY <2>1, <2>3, <2>5, <2>6, ModemStepTyped DEF StreamsOK
<1>3. CASE ModemTakesAsText
  <2>1. /\ rx # <<>> /\ rx' = Tail(rx)
        /\ entry' = [entry EXCEPT !.clean = FALSE]
        /\ Emit(Lines(<<">">>, entry.to))
        /\ UNCHANGED <<rowVars, hostVars, voice, history>>
    <3>1. <<Line(">", entry.to)>> = Lines(<<">">>, entry.to)
      BY DEF Lines
    <3> QED
      BY <1>3, <3>1 DEF ModemTakesAsText
  <2>2. rx' \in Seq(Asked)
    BY <1>1, <2>1, TakeKeeps
  <2>3. entry.to \in Sms \cup {None}
    BY <1>1 DEF ModemOK
  <2>4. tx' \in Seq(Told)
    BY <1>1, <2>1, <2>3, SmsSayable, EmitKeeps
  <2>5. ModemOK'
    BY <1>1, <2>1, <2>3 DEF ModemOK, history
  <2> QED
    BY <2>1, <2>2, <2>4, <2>5, ModemStepTyped DEF StreamsOK
<1>4. CASE ModemSubmits
  <2>1. /\ rx # <<>> /\ rx' = Tail(rx) /\ Head(rx).cmd = "text"
        /\ entry' = NoEntry
        /\ UNCHANGED <<rowVars, hostVars, voice, source, rushed, late, faults>>
    BY <1>4 DEF ModemSubmits
  <2>2. rx' \in Seq(Asked) /\ Head(rx) \in Asked
    BY <1>1, <2>1, TakeKeeps
  <2>3. Head(rx).of \in Sms
    BY <2>1, <2>2 DEF Asked
  <2>4. tx' \in Seq(Told)
    <3>1. \/ Emit(Lines(<<"+CMGS", "OK">>, Head(rx).of))
          \/ Emit(Lines(<<"+CMS ERROR">>, Head(rx).of))
      BY <1>4 DEF ModemSubmits
    <3> QED
      BY <1>1, <2>3, <3>1, SmsSayable, EmitKeeps
  <2>5. /\ texts' \subseteq [to : Sms \cup {None}, of : Sms, clean : BOOLEAN]
        /\ accepted' \in [Sms -> Nat]
    <3>1. CASE UNCHANGED <<texts, accepted>>
      BY <1>1, <3>1 DEF ModemOK
    <3>2. CASE /\ texts' = texts \cup {[to |-> entry.to, of |-> Head(rx).of,
                                       clean |-> entry.clean]}
               /\ \/ accepted' = [accepted EXCEPT ![Head(rx).of] = @ + 1]
                  \/ accepted' = accepted
      <4>1. [to |-> entry.to, of |-> Head(rx).of, clean |-> entry.clean]
              \in [to : Sms \cup {None}, of : Sms, clean : BOOLEAN]
        BY <1>1, <2>3 DEF ModemOK
      <4>2. accepted' \in [Sms -> Nat]
        <5>1. accepted \in [Sms -> Nat]
          BY <1>1 DEF ModemOK
        <5> QED
          BY <2>3, <3>2, <5>1
      <4> QED
        BY <1>1, <3>2, <4>1, <4>2 DEF ModemOK
    <3> QED
      BY <1>4, <3>1, <3>2 DEF ModemSubmits
  <2>6. entry' \in [to : Sms \cup {None}, clean : BOOLEAN]
    BY <2>1 DEF NoEntry
  <2>7. ModemOK'
    BY <1>1, <2>1, <2>5, <2>6 DEF ModemOK
  <2> QED
    BY <2>1, <2>2, <2>4, <2>7, ModemStepTyped DEF StreamsOK
<1>5. CASE ModemVoice
  <2>1. /\ rx # <<>> /\ rx' = Tail(rx)
        /\ UNCHANGED <<rowVars, hostVars, entry, history>>
    BY <1>5 DEF ModemVoice
  <2>2. rx' \in Seq(Asked) /\ Head(rx) \in Asked
    BY <1>1, <2>1, TakeKeeps
  <2>3. voice.call \in Call \cup {None}
    BY <1>1 DEF ModemOK
  <2>4. CASE Head(rx).cmd = "ATD"
    <3>1. Head(rx).of \in Call
      BY <2>2, <2>4 DEF Asked
    <3>2. \/ Emit(Lines(<<"OK">>, Head(rx).of))
          \/ Emit(Lines(<<"ERROR">>, Head(rx).of))
      BY <1>5, <2>4 DEF ModemVoice
    <3>3. tx' \in Seq(Told)
      BY <1>1, <3>1, <3>2, VoiceSayable, EmitKeeps
    <3>4. voice' = voice \/ voice' = [call |-> Head(rx).of, up |-> FALSE]
      BY <1>5, <2>4 DEF ModemVoice
    <3>5. voice' \in [call : Call \cup {None}, up : BOOLEAN]
      <4>1. voice \in [call : Call \cup {None}, up : BOOLEAN]
        BY <1>1 DEF ModemOK
      <4>2. CASE voice' = voice
        BY <4>1, <4>2
      <4>3. CASE voice' = [call |-> Head(rx).of, up |-> FALSE]
        BY <3>1, <4>3
      <4> QED
        BY <3>4, <4>2, <4>3
    <3>6. ModemOK'
      BY <1>1, <2>1, <3>5 DEF ModemOK, history
    <3> QED
      BY <2>1, <2>2, <3>3, <3>6, ModemStepTyped DEF StreamsOK
  <2>5. CASE Head(rx).cmd = "CHUP"
    <3>1. \/ Emit(Lines(<<"OK">>, None))
          \/ Emit(Lines(<<"OK", "END long", "NO CARRIER">>, voice.call))
      BY <1>5, <2>5 DEF ModemVoice
    <3>2. tx' \in Seq(Told)
      BY <1>1, <2>3, <3>1, VoiceSayable, EmitKeeps
    <3>3. voice' = NoVoice
      BY <1>5, <2>5 DEF ModemVoice
    <3>4. ModemOK'
      BY <1>1, <2>1, <3>3 DEF ModemOK, history, NoVoice
    <3> QED
      BY <2>1, <2>2, <3>2, <3>4, ModemStepTyped DEF StreamsOK
  <2> QED
    BY <1>5, <2>4, <2>5 DEF ModemVoice
<1>6. CASE NetworkEvent
  <2>1. UNCHANGED <<rowVars, hostVars, rx, entry, history>>
    BY <1>6 DEF NetworkEvent
  <2>2. voice.call \in Call \cup {None}
    BY <1>1 DEF ModemOK
  <2>3. \E kinds \in {<<"BEGIN">>, <<"BUSY">>, <<"NO CARRIER">>,
                      <<"END", "NO CARRIER">>, <<"END zero", "NO CARRIER">>,
                      <<"END short", "NO CARRIER">>, <<"END long", "NO CARRIER">>} :
           Emit(Lines(kinds, voice.call))
    BY <1>6 DEF NetworkEvent
  <2>4. tx' \in Seq(Told)
    BY <1>1, <2>2, <2>3, VoiceSayable, EmitKeeps
  <2>5. voice' = NoVoice \/ voice' = [voice EXCEPT !.up = TRUE]
    BY <1>6 DEF NetworkEvent
  <2>a. voice \in [call : Call \cup {None}, up : BOOLEAN]
    BY <1>1 DEF ModemOK
  <2>6. voice' \in [call : Call \cup {None}, up : BOOLEAN]
    <3>1. CASE voice' = NoVoice
      BY <3>1 DEF NoVoice
    <3>2. CASE voice' = [voice EXCEPT !.up = TRUE]
      BY <2>a, <3>2
    <3> QED
      BY <2>5, <3>1, <3>2
  <2>7. ModemOK'
    BY <1>1, <2>1, <2>6 DEF ModemOK, history
  <2> QED
    BY <1>1, <2>1, <2>4, <2>7, ModemStepTyped DEF StreamsOK
<1> QED
  BY <1>2, <1>3, <1>4, <1>5, <1>6 DEF Modem

(* The batch: what is selected is pending, and something is. *)
LEMMA SelectedIsPending ==
  ASSUME Pending # {}
  PROVE  /\ Selected \subseteq Pending /\ Selected # {}
         /\ Least(Selected) \in Selected
<1>1. Pending \subseteq Nat
  BY ModemAssumption DEF Pending, Sms
<1>2. Selected \subseteq Pending
  BY DEF Selected
<1>3. PICK m \in Pending : \A k \in Pending : m <= k
  BY <1>1, LeastIsIn
<1>a. ASSUME NEW k \in Pending
      PROVE  ~(k < m)
  BY <1>1, <1>3
<1>4. {k \in Pending : k < m} = {}
  BY <1>a
<1>5. Cardinality({k \in Pending : k < m}) = 0
  BY <1>4, FS_EmptySet
<1>6. m \in Selected
  BY <1>5, ModemAssumption DEF Selected
<1> QED
  BY <1>1, <1>2, <1>6, LeastIsIn

LEMMA BatchLeast ==
  ASSUME NEW S \in SUBSET Sms, S # {}
  PROVE  Least(S) \in S
<1>1. S \subseteq Nat
  BY ModemAssumption DEF Sms
<1> QED
  BY <1>1, LeastIsIn

(* The commands of a message. *)
LEMMA DialogueIs ==
  /\ Dialogue[1] = <<"CMEE", "OK">> /\ Dialogue[2] = <<"CPIN", "+CPIN">>
  /\ Dialogue[3] = <<"CSQ", "+CSQ">> /\ Dialogue[4] = <<"CMGF", "OK">>
  /\ Dialogue[5] = <<"CSCS", "OK">> /\ Dialogue[6] = <<"CMGS", ">">>
BY DEF Dialogue

LEMMA SmsAsked ==
  ASSUME NEW m \in Sms,
         NEW c \in {"CMEE", "CPIN", "CSQ", "CMGF", "CSCS", "CMGS", "text"}
  PROVE  Command(c, m) \in Asked
BY DEF Asked, RxItem, Command, Commands, Owner

LEMMA DialogueAsked ==
  ASSUME NEW m \in Sms, NEW i \in 1..6
  PROVE  Command(Dialogue[i][1], m) \in Asked
<1>1. i \in {1, 2, 3, 4, 5, 6}
  OBVIOUS
<1>2. Dialogue[i][1] \in {"CMEE", "CPIN", "CSQ", "CMGF", "CSCS", "CMGS"}
  BY <1>1, DialogueIs
<1> QED
  BY <1>2, SmsAsked

(* A step of the program that leaves the modem's variables typed. *)
LEMMA HostStepTyped ==
  ASSUME Typed, RestOK', ModemOK', StreamsOK', HostOK'
  PROVE  Typed'
<1>1. (RestOK /\ ModemOK /\ StreamsOK /\ HostOK)' => Typed'
  BY TypedParts, PTL
<1> QED
  BY <1>1

(* The port is left. *)
LEMMA LeavesTyped ==
  ASSUME Typed, Leaves, pc' \in {"tick", "claim", "down"}
  PROVE  /\ HostOK'
         /\ batch' \subseteq Sms /\ cur' \in Owner /\ step' \in 1..6
         /\ result' \in {"sent", "failed"} /\ age' \in Early..TimedOut
         /\ open' \in BOOLEAN
<1>1. /\ open' = FALSE /\ batch' = {} /\ cur' = None /\ step' = 1
      /\ result' = "failed" /\ age' = 0
  BY DEF Leaves, ClosePort, Early
<1>2. pc' \notin Talking /\ pc' \notin Calling
  BY DEF Talking, Calling
<1>3. HostOK'
  BY <1>1, <1>2 DEF HostOK
<1>4. cur' \in Owner /\ open' \in BOOLEAN /\ batch' \subseteq Sms
  BY <1>1 DEF Owner
<1>5. step' \in 1..6 /\ age' \in Early..TimedOut
  BY <1>1 DEF Early, TimedOut
<1> QED
  BY <1>1, <1>3, <1>4, <1>5

LEMMA BatchTyped ==
  ASSUME Typed, BatchBegins
  PROVE  Typed'
<1>1. RestOK /\ ModemOK /\ StreamsOK /\ HostOK
  BY TypedParts
<1>2. UNCHANGED <<rowVars, result, age, modem, texts, accepted, source, rushed, faults>>
  BY DEF BatchBegins
<1>3. CASE Pending = {}
  <2>1. pc = "tick" /\ pc' = "claim" /\ UNCHANGED <<batch, cur, step, open, rx, tx, late>>
    BY <1>3 DEF BatchBegins
  <2>2. RestOK' /\ HostOK' /\ StreamsOK' /\ ModemOK'
    BY <1>1, <1>2, <2>1
    DEF RestOK, HostOK, StreamsOK, ModemOK, rowVars, modem, Talking, Calling
  <2> QED
    BY <2>2, HostStepTyped
<1>4. CASE Pending # {}
  <2> DEFINE m == Least(Selected)
  <2>1. m \in Selected /\ Selected \subseteq Pending
    BY <1>4, SelectedIsPending
  <2>2. Pending \subseteq Sms
    BY DEF Pending
  <2>3. /\ open' = TRUE /\ tx' = <<>> /\ batch' = Selected \ {m}
        /\ cur' = m /\ step' = 1 /\ pc' = "ask"
        /\ late' = (late \/ OldDialogueIn(tx'))
        /\ Write(<<Command(Dialogue[1][1], m)>>)
    BY <1>4 DEF BatchBegins, OpenPort, Begins
  <2> HIDE DEF m
  <2>4. rx' \in Seq(Asked)
    BY <1>1, <2>1, <2>2, <2>3, DialogueAsked, WriteKeeps DEF StreamsOK
  <2>5. StreamsOK'
    BY <2>3, <2>4 DEF StreamsOK
  <2>6. Pending' = Pending
    BY <1>2 DEF Pending, rowVars
  <2>7. HostOK'
    BY <2>1, <2>3, <2>6 DEF HostOK, Talking, Calling
  <2>8. RestOK'
    BY <1>1, <1>2, <2>1, <2>2, <2>3 DEF RestOK, rowVars, Owner
  <2>9. ModemOK'
    BY <1>1, <1>2, <2>3 DEF ModemOK, modem
  <2> QED
    BY <2>5, <2>7, <2>8, <2>9, HostStepTyped
<1> QED
  BY <1>3, <1>4

LEMMA AskTyped ==
  ASSUME Typed, ReadAnswer \/ ReadFinal \/ WaitRunsOut
  PROVE  Typed'
<1>1. RestOK /\ ModemOK /\ StreamsOK /\ HostOK
  BY TypedParts
<1>2. CASE ReadAnswer
  <2>1. /\ pc = "ask" /\ tx # <<>> /\ tx' = Tail(tx)
        /\ UNCHANGED <<rowVars, batch, cur, age, open, modem, history>>
    BY <1>2 DEF ReadAnswer
  <2>2. cur \in Pending /\ cur \in Sms /\ step \in 1..6
    BY <1>1, <2>1 DEF HostOK, Talking, Pending, RestOK
  <2>3. tx' \in Seq(Told)
    BY <1>1, <2>1, ReadKeeps DEF StreamsOK
  <2>4. /\ \/ pc' = "save" /\ result' = "failed" /\ UNCHANGED <<step, rx>>
           \/ /\ step < 6 /\ step' = step + 1 /\ pc' = pc /\ result' = result
              /\ Write(<<Command(Dialogue[step + 1][1], cur)>>)
           \/ /\ step = 6 /\ step' = step /\ pc' = "final" /\ result' = result
              /\ Write(<<Command("text", cur)>>)
           \/ UNCHANGED <<pc, step, result, rx>>
    <3>1. CASE Decide("failed") /\ UNCHANGED <<step, rx>>
      BY <3>1 DEF Decide
    <3>2. CASE /\ IF step < Len(Dialogue)
                  THEN /\ step' = step + 1
                       /\ Write(<<Command(Dialogue[step + 1][1], cur)>>)
                       /\ pc' = pc
                  ELSE /\ Write(<<Command("text", cur)>>)
                       /\ pc' = "final"
                       /\ step' = step
               /\ result' = result
      <4>1. CASE step < 6
        BY <3>2, <4>1, DialogueLength
      <4>2. CASE step = 6
        BY <3>2, <4>2, DialogueLength
      <4> QED
        BY <2>2, <4>1, <4>2
    <3>3. CASE UNCHANGED <<pc, step, result, rx>>
      BY <3>3
    <3> QED
      BY <1>2, <3>1, <3>2, <3>3 DEF ReadAnswer
  <2>5. rx' \in Seq(Asked)
    <3>1. CASE step < 6 /\ Write(<<Command(Dialogue[step + 1][1], cur)>>)
      <4>1. step + 1 \in 1..6
        BY <2>2, <3>1
      <4> QED
        BY <1>1, <2>2, <3>1, <4>1, DialogueAsked, WriteKeeps DEF StreamsOK
    <3>2. CASE Write(<<Command("text", cur)>>)
      BY <1>1, <2>2, <3>2, SmsAsked, WriteKeeps DEF StreamsOK
    <3> QED
      BY <1>1, <2>4, <3>1, <3>2 DEF StreamsOK
  <2>6. /\ pc' \in Talking /\ step' \in 1..6 /\ result' \in {"sent", "failed"}
    BY <1>1, <2>1, <2>2, <2>4 DEF RestOK, Talking
  <2>7. RestOK' /\ HostOK' /\ ModemOK' /\ StreamsOK'
    BY <1>1, <2>1, <2>3, <2>5, <2>6
    DEF RestOK, HostOK, ModemOK, StreamsOK, rowVars, modem, history, Pending,
        Talking, Calling
  <2> QED
    BY <2>7, HostStepTyped
<1>3. CASE ReadFinal
  <2>1. /\ pc = "final" /\ tx # <<>> /\ tx' = Tail(tx)
        /\ pc' \in {"final", "save"} /\ result' \in {"sent", "failed"}
        /\ UNCHANGED <<rowVars, batch, cur, step, age, open, rx, modem, history>>
    BY <1>1, <1>3 DEF ReadFinal, Decide, RestOK
  <2>2. tx' \in Seq(Told)
    BY <1>1, <2>1, ReadKeeps DEF StreamsOK
  <2>3. RestOK' /\ HostOK' /\ ModemOK' /\ StreamsOK'
    BY <1>1, <2>1, <2>2
    DEF RestOK, HostOK, ModemOK, StreamsOK, rowVars, modem, history, Pending,
        Talking, Calling
  <2> QED
    BY <2>3, HostStepTyped
<1>4. CASE WaitRunsOut
  <2>1. /\ pc \in {"ask", "final"} /\ pc' = "save" /\ result' = "failed"
        /\ UNCHANGED <<rowVars, batch, cur, step, age, open, lineVars, modem, history>>
    BY <1>4 DEF WaitRunsOut, Decide
  <2>2. RestOK' /\ HostOK' /\ ModemOK' /\ StreamsOK'
    BY <1>1, <2>1
    DEF RestOK, HostOK, ModemOK, StreamsOK, rowVars, lineVars, modem, history,
        Pending, Talking, Calling
  <2> QED
    BY <2>2, HostStepTyped
<1> QED
  BY <1>2, <1>3, <1>4

LEMMA SaveTyped ==
  ASSUME Typed, SaveResult \/ SaveFails
  PROVE  Typed'
<1>1. RestOK /\ ModemOK /\ StreamsOK /\ HostOK
  BY TypedParts
<1>2. CASE SaveResult
  <2>1. /\ pc = "save" /\ sms' = [sms EXCEPT ![cur] = result] /\ tx' = tx
        /\ UNCHANGED <<outcome, modem, texts, accepted, source, rushed, faults>>
    BY <1>2 DEF SaveResult
  <2>2. cur \in Pending /\ cur \in Sms /\ batch \subseteq Pending \ {cur}
    BY <1>1, <2>1 DEF HostOK, Talking, Pending
  <2>3. sms' \in [Sms -> {"pending", "sent", "failed"}]
    BY <1>1, <2>1, <2>2 DEF RestOK
  <2>4. CASE batch = {}
    <3>1. pc' = "claim" /\ Leaves /\ UNCHANGED <<rx, late>>
      BY <1>2, <2>4 DEF SaveResult
    <3>2. ModemOK' /\ StreamsOK'
      BY <1>1, <2>1, <3>1 DEF ModemOK, StreamsOK, modem
    <3>3. RestOK'
      BY <1>1, <2>1, <2>3, <3>1, LeavesTyped DEF RestOK
    <3> QED
      BY <3>1, <3>2, <3>3, LeavesTyped, HostStepTyped
  <2>5. CASE batch # {}
    <3> DEFINE m == Least(batch)
    <3>1. m \in batch /\ m \in Sms
      BY <1>1, <2>5, BatchLeast DEF RestOK
    <3>2. /\ batch' = batch \ {m} /\ cur' = m /\ step' = 1 /\ pc' = "ask"
          /\ late' = (late \/ OldDialogueIn(tx'))
          /\ Write(<<Command(Dialogue[1][1], m)>>)
          /\ UNCHANGED <<result, age, open>>
      BY <1>2, <2>5 DEF SaveResult, Begins
    <3> HIDE DEF m
    <3>3. rx' \in Seq(Asked)
      BY <1>1, <3>1, <3>2, DialogueAsked, WriteKeeps DEF StreamsOK
    <3>4. StreamsOK'
      BY <1>1, <2>1, <3>3 DEF StreamsOK
    <3>5. Pending \ {cur} \subseteq Pending'
      BY <1>1, <2>1, <2>2 DEF Pending, RestOK
    <3>6. HostOK'
      BY <1>1, <2>1, <2>2, <3>1, <3>2, <3>5 DEF HostOK, Talking, Calling
    <3>7. RestOK' /\ ModemOK'
      BY <1>1, <2>1, <2>3, <3>1, <3>2 DEF RestOK, ModemOK, modem, Owner
    <3> QED
      BY <3>4, <3>6, <3>7, HostStepTyped
  <2> QED
    BY <2>4, <2>5
<1>3. CASE SaveFails
  <2>1. /\ pc' = "claim" /\ Leaves /\ UNCHANGED <<rowVars, lineVars, modem>>
        /\ faults < MaxFaults /\ faults' = faults + 1
        /\ UNCHANGED <<texts, accepted, source, rushed, late>>
    BY <1>3 DEF SaveFails, Fault
  <2>2. StreamsOK' /\ ModemOK'
    BY <1>1, <2>1, ModemAssumption DEF StreamsOK, ModemOK, lineVars, modem
  <2>3. RestOK'
    BY <1>1, <2>1, LeavesTyped DEF RestOK, rowVars
  <2> QED
    BY <2>1, <2>2, <2>3, LeavesTyped, HostStepTyped
<1> QED
  BY <1>2, <1>3

LEMMA ChupAsked ==
  ASSUME NEW of \in Owner
  PROVE  Command("CHUP", of) \in Asked
BY DEF Asked, RxItem, Command, Commands

LEMMA EndsTyped ==
  ASSUME Typed, pc \in Calling, NEW how \in Ended, NEW of \in Call \cup {None},
         Ends(how, of), HangUp \/ NoHangUp, tx' \in Seq(Told)
  PROVE  Typed'
<1>1. RestOK /\ ModemOK /\ StreamsOK /\ HostOK
  BY TypedParts
<1>2. cur \in Call /\ cur \in Owner
  BY <1>1 DEF HostOK, Owner
<1>3. /\ outcome' = [outcome EXCEPT ![cur] = how]
      /\ source' = [source EXCEPT ![cur] = of]
      /\ pc' = "tick" /\ Leaves
      /\ UNCHANGED <<sms, modem, texts, accepted, rushed, late, faults>>
  BY DEF Ends
<1>4. rx' \in Seq(Asked)
  BY <1>1, <1>2, ChupAsked, WriteKeeps DEF StreamsOK, HangUp, NoHangUp
<1>5. StreamsOK'
  BY <1>4 DEF StreamsOK
<1>6. outcome' \in [Call -> {"queued", "dialing"} \cup Ended]
  BY <1>1, <1>2, <1>3 DEF RestOK
<1>7. source' \in [Call -> Call \cup {None}]
  BY <1>1, <1>2, <1>3 DEF ModemOK
<1>8. ModemOK'
  BY <1>1, <1>3, <1>7 DEF ModemOK, modem
<1>9. RestOK'
  BY <1>1, <1>3, <1>6, LeavesTyped DEF RestOK
<1> QED
  BY <1>3, <1>5, <1>8, <1>9, LeavesTyped, HostStepTyped

LEMMA ClassifyEnds ==
  ASSUME NEW kind
  PROVE  Classify(kind) \in Ended
<1> DEFINE elapsed == CASE kind \in {"END zero", "END short"} -> Early
                       [] kind = "END long"                  -> Middle
                       [] OTHER                              -> age
<1>1. Classify(kind) = CASE elapsed = Early  -> "rejected"
                         [] elapsed = Middle -> "cancelled_or_failed"
                         [] OTHER            -> "no_answer"
  BY DEF Classify
<1> HIDE DEF elapsed
<1>2. Classify(kind) \in {"rejected", "cancelled_or_failed", "no_answer"}
  BY <1>1 DEF Early, Middle
<1> QED
  BY <1>2 DEF Ended, Unconnected

LEMMA FinishedEnds ==
  ASSUME NEW d
  PROVE  Finished(d) \in Ended
BY DEF Finished, Ended

LEMMA CallTyped ==
  ASSUME Typed, \/ RingReads \/ RingTimesOut \/ PlaybackEnds \/ LingerReads
                \/ LingerTimesOut \/ TimePasses
  PROVE  Typed'
<1>1. RestOK /\ ModemOK /\ StreamsOK /\ HostOK
  BY TypedParts
<1>2. pc \in Calling
  BY DEF RingReads, RingTimesOut, PlaybackEnds, LingerReads, LingerTimesOut,
         TimePasses, Calling
<1>3. cur \in Call
  BY <1>1, <1>2 DEF HostOK
<1>4. source[cur] \in Call \cup {None}
  BY <1>1, <1>3 DEF ModemOK
<1>5. tx' = tx => tx' \in Seq(Told)
  BY <1>1 DEF StreamsOK
<1>6. ASSUME tx # <<>>, tx' = Tail(tx)
      PROVE  /\ tx' \in Seq(Told)
             /\ Head(tx).kind \in Events => Head(tx).of \in Call \cup {None}
  BY <1>1, <1>6, ReadKeeps DEF StreamsOK, Told
<1>7. CASE RingReads
  <2>1. tx # <<>> /\ tx' = Tail(tx)
    BY <1>7 DEF RingReads
  <2>2. CASE /\ Head(tx).kind = "BEGIN" /\ pc' = "play"
             /\ source' = [source EXCEPT ![cur] = Head(tx).of]
             /\ UNCHANGED <<rowVars, batch, cur, step, result, age, open, rx,
                            modem, texts, accepted, rushed, late, faults>>
    <3>1. source' \in [Call -> Call \cup {None}]
      BY <1>1, <1>3, <1>6, <2>1, <2>2 DEF ModemOK, Events
    <3>2. RestOK' /\ HostOK' /\ ModemOK' /\ StreamsOK'
      BY <1>1, <1>2, <1>6, <2>1, <2>2, <3>1
      DEF RestOK, HostOK, ModemOK, StreamsOK, rowVars, modem, Talking, Calling
    <3> QED
      BY <3>2, HostStepTyped
  <2>3. CASE Head(tx).kind = "BUSY" /\ Ends("busy", Head(tx).of) /\ NoHangUp
    BY <1>2, <1>6, <2>1, <2>3, EndsTyped DEF Events, Ended, Unconnected
  <2>4. CASE /\ Head(tx).kind \in EndKinds
             /\ Ends(Classify(Head(tx).kind), Head(tx).of) /\ NoHangUp
    <3>1. Classify(Head(tx).kind) \in Ended
      BY ClassifyEnds
    <3> QED
      BY <1>2, <1>6, <2>1, <2>4, <3>1, EndsTyped DEF Events
  <2>5. CASE UNCHANGED <<rowVars, hostVars, rx, modem, history>>
    <3>1. RestOK' /\ HostOK' /\ ModemOK' /\ StreamsOK'
      BY <1>1, <1>6, <2>1, <2>5
      DEF RestOK, HostOK, ModemOK, StreamsOK, rowVars, hostVars, modem, history,
          Pending
    <3> QED
      BY <3>1, HostStepTyped
  <2> QED
    BY <1>7, <2>2, <2>3, <2>4, <2>5 DEF RingReads
<1>8. CASE RingTimesOut
  BY <1>2, <1>5, <1>8, EndsTyped DEF RingTimesOut, Ended, Unconnected
<1>9. CASE PlaybackEnds
  <2>1. CASE /\ pc' = "linger"
             /\ UNCHANGED <<rowVars, batch, cur, step, result, age, open,
                            lineVars, modem, history>>
    <3>1. RestOK' /\ HostOK' /\ ModemOK' /\ StreamsOK'
      BY <1>1, <1>2, <2>1
      DEF RestOK, HostOK, ModemOK, StreamsOK, rowVars, lineVars, modem, history,
          Talking, Calling
    <3> QED
      BY <3>1, HostStepTyped
  <2>2. CASE Ends("failed", source[cur]) /\ HangUp /\ UNCHANGED tx
    BY <1>2, <1>4, <1>5, <2>2, EndsTyped DEF Ended
  <2> QED
    BY <1>9, <2>1, <2>2 DEF PlaybackEnds
<1>10. CASE LingerReads
  <2>1. tx # <<>> /\ tx' = Tail(tx)
    BY <1>10 DEF LingerReads
  <2>2. CASE /\ Head(tx).kind \in EndKinds /\ NoHangUp
             /\ \E d \in Durations(Head(tx).kind) : Ends(Finished(d), Head(tx).of)
    <3>1. PICK d : Ends(Finished(d), Head(tx).of)
      BY <2>2
    <3> QED
      BY <1>2, <1>6, <2>1, <2>2, <3>1, FinishedEnds, EndsTyped DEF Events
  <2>3. CASE UNCHANGED <<rowVars, hostVars, rx, modem, history>>
    <3>1. RestOK' /\ HostOK' /\ ModemOK' /\ StreamsOK'
      BY <1>1, <1>6, <2>1, <2>3
      DEF RestOK, HostOK, ModemOK, StreamsOK, rowVars, hostVars, modem, history,
          Pending
    <3> QED
      BY <3>1, HostStepTyped
  <2> QED
    BY <1>10, <2>2, <2>3 DEF LingerReads
<1>11. CASE LingerTimesOut
  <2>1. PICK d : Ends(Finished(d), source[cur])
    BY <1>11 DEF LingerTimesOut
  <2> QED
    BY <1>2, <1>4, <1>5, <1>11, <2>1, FinishedEnds, EndsTyped DEF LingerTimesOut
<1>12. CASE TimePasses
  <2>1. /\ age' \in Early..TimedOut
        /\ UNCHANGED <<rowVars, batch, cur, step, result, pc, open, lineVars,
                       modem, history>>
    BY <1>1, <1>12 DEF TimePasses, RestOK, Early, TimedOut
  <2>2. RestOK' /\ HostOK' /\ ModemOK' /\ StreamsOK'
    BY <1>1, <2>1
    DEF RestOK, HostOK, ModemOK, StreamsOK, rowVars, lineVars, modem, history,
        Pending
  <2> QED
    BY <2>2, HostStepTyped
<1> QED
  BY <1>7, <1>8, <1>9, <1>10, <1>11, <1>12

LEMMA IdleTyped ==
  ASSUME Typed, NothingToDial \/ Dial \/ Crash \/ Recover
  PROVE  Typed'
<1>1. RestOK /\ ModemOK /\ StreamsOK /\ HostOK
  BY TypedParts
<1>2. CASE NothingToDial
  <2>1. /\ pc' = "tick" /\ pc = "claim"
        /\ UNCHANGED <<rowVars, batch, cur, step, result, age, open, lineVars,
                       modem, history>>
    BY <1>2 DEF NothingToDial
  <2>2. RestOK' /\ HostOK' /\ ModemOK' /\ StreamsOK'
    BY <1>1, <2>1
    DEF RestOK, HostOK, ModemOK, StreamsOK, rowVars, lineVars, modem, history,
        Talking, Calling
  <2> QED
    BY <2>2, HostStepTyped
<1>3. CASE Dial
  <2>1. /\ pc' = "ring" /\ age' = Early /\ open' = TRUE /\ tx' = <<>>
        /\ UNCHANGED <<sms, batch, step, result, modem, texts, accepted, source,
                       late, faults>>
        /\ rushed' \subseteq rushed \cup Call
    BY <1>3 DEF Dial, OpenPort
  <2>2. PICK c \in Call : /\ outcome' = [outcome EXCEPT ![c] = "dialing"]
                          /\ cur' = c /\ Write(<<Command("ATD", c)>>)
    BY <1>3 DEF Dial
  <2>3. Command("ATD", c) \in Asked
    BY DEF Asked, RxItem, Command, Commands, Owner
  <2>4. rx' \in Seq(Asked)
    BY <1>1, <2>2, <2>3, WriteKeeps DEF StreamsOK
  <2>5. StreamsOK'
    BY <2>1, <2>4 DEF StreamsOK
  <2>6. HostOK'
    BY <2>1, <2>2 DEF HostOK, Talking, Calling
  <2>7. outcome' \in [Call -> {"queued", "dialing"} \cup Ended]
    BY <1>1, <2>2 DEF RestOK
  <2>8. RestOK'
    BY <1>1, <2>1, <2>2, <2>7 DEF RestOK, Owner, Early, TimedOut
  <2>9. ModemOK'
    BY <1>1, <2>1 DEF ModemOK, modem
  <2> QED
    BY <2>5, <2>6, <2>8, <2>9, HostStepTyped
<1>4. CASE Crash
  <2>1. /\ pc' = "down" /\ Leaves /\ UNCHANGED <<rowVars, lineVars, modem>>
        /\ faults < MaxFaults /\ faults' = faults + 1
        /\ UNCHANGED <<texts, accepted, source, rushed, late>>
    BY <1>4 DEF Crash, Fault
  <2>2. StreamsOK' /\ ModemOK'
    BY <1>1, <2>1, ModemAssumption DEF StreamsOK, ModemOK, lineVars, modem
  <2>3. RestOK'
    BY <1>1, <2>1, LeavesTyped DEF RestOK, rowVars
  <2> QED
    BY <2>1, <2>2, <2>3, LeavesTyped, HostStepTyped
<1>5. CASE Recover
  <2>1. /\ pc = "down" /\ pc' = "tick"
        /\ UNCHANGED <<sms, batch, cur, step, result, age, open, tx, modem, history>>
    BY <1>5 DEF Recover
  <2>2. /\ outcome' \in [Call -> {"queued", "dialing"} \cup Ended]
        /\ rx' \in Seq(Asked)
    <3>1. CASE /\ outcome' = [c \in Call |-> IF outcome[c] = "dialing" THEN "failed"
                                             ELSE outcome[c]]
               /\ Write(<<Command("CHUP", None)>>)
      <4>1. \A c \in Call : outcome[c] \in {"queued", "dialing"} \cup Ended
        BY <1>1 DEF RestOK
      <4>2. outcome' \in [Call -> {"queued", "dialing"} \cup Ended]
        BY <3>1, <4>1 DEF Ended
      <4>3. None \in Owner
        BY DEF Owner
      <4> QED
        BY <1>1, <3>1, <4>2, <4>3, ChupAsked, WriteKeeps DEF StreamsOK
    <3>2. CASE UNCHANGED <<outcome, rx>>
      BY <1>1, <3>2 DEF RestOK, StreamsOK
    <3> QED
      BY <1>5, <3>1, <3>2 DEF Recover
  <2>3. RestOK' /\ HostOK' /\ ModemOK' /\ StreamsOK'
    BY <1>1, <2>1, <2>2
    DEF RestOK, HostOK, ModemOK, StreamsOK, modem, history, Talking, Calling
  <2> QED
    BY <2>3, HostStepTyped
<1> QED
  BY <1>2, <1>3, <1>4, <1>5

LEMMA TypedStep ==
  ASSUME Typed, [Next]_vars
  PROVE  Typed'
<1>1. CASE UNCHANGED vars
  BY <1>1 DEF Typed, TypeOK, StreamsOK, HostOK, Pending, vars, rowVars, hostVars,
              lineVars, modem, history
<1>2. CASE Next
  BY <1>2, ModemTyped, BatchTyped, AskTyped, SaveTyped, CallTyped, IdleTyped
  DEF Next, Program
<1> QED
  BY <1>1, <1>2

LEMMA TypedInit == Init => Typed
<1> SUFFICES ASSUME Init
             PROVE  Typed
  OBVIOUS
<1>1. /\ sms = [m \in Sms |-> "pending"] /\ outcome = [c \in Call |-> "queued"]
      /\ pc = "tick" /\ batch = {} /\ cur = None /\ step = 1
      /\ result = "failed" /\ age = Early /\ open = FALSE
  BY DEF Init
<1>2. /\ rx = <<>> /\ tx = <<>> /\ entry = NoEntry /\ voice = NoVoice
      /\ texts = {} /\ accepted = [m \in Sms |-> 0]
      /\ source = [c \in Call |-> None] /\ rushed = {} /\ late = FALSE /\ faults = 0
  BY DEF Init
<1>3. StreamsOK
  BY <1>2 DEF StreamsOK
<1>4. HostOK
  BY <1>1 DEF HostOK, Talking, Calling
<1>a. /\ sms \in [Sms -> {"pending", "sent", "failed"}]
      /\ outcome \in [Call -> {"queued", "dialing"} \cup Ended]
  BY <1>1
<1>b. age \in Early..TimedOut /\ step \in 1..6
  BY <1>1 DEF Early, TimedOut
<1>c. cur \in Owner /\ batch \subseteq Sms /\ open \in BOOLEAN
  BY <1>1 DEF Owner
<1>5. RestOK
  BY <1>1, <1>a, <1>b, <1>c DEF RestOK
<1>d. entry \in [to : Sms \cup {None}, clean : BOOLEAN]
  BY <1>2 DEF NoEntry
<1>e. voice \in [call : Call \cup {None}, up : BOOLEAN]
  BY <1>2 DEF NoVoice
<1>f. /\ accepted \in [Sms -> Nat] /\ source \in [Call -> Call \cup {None}]
      /\ texts \subseteq [to : Sms \cup {None}, of : Sms, clean : BOOLEAN]
  BY <1>2
<1>g. faults \in 0..MaxFaults
  BY <1>2, ModemAssumption
<1>h. rushed \subseteq Call /\ late \in BOOLEAN
  BY <1>2
<1>6. ModemOK
  BY <1>d, <1>e, <1>f, <1>g, <1>h DEF ModemOK
<1> QED
  BY <1>3, <1>4, <1>5, <1>6, TypedParts

LEMMA TypedAlways == Spec => []Typed
BY TypedInit, TypedStep, PTL DEF Spec

(* Every variable of the session has its type, for every number of         *)
(* messages, calls and faults: a text is only ever for a message, a line   *)
(* about a call names a call, and a message being sent is a pending row.   *)
THEOREM TypeCorrect == Spec => []TypeOK
<1>1. Typed => TypeOK
  BY DEF Typed
<1> QED
  BY <1>1, TypedAlways, PTL

-----------------------------------------------------------------------------
(* What few steps change: the rows, the texts and the sources.             *)
LEMMA RowsAreSaved ==
  ASSUME [Next]_vars
  PROVE  SaveResult \/ sms' = sms
<1>1. CASE UNCHANGED vars
  BY <1>1 DEF vars, rowVars
<1>2. CASE Modem \/ NetworkEvent
  BY <1>2 DEF Modem, NetworkEvent, ModemAnswers, ModemTakesAsText, ModemSubmits,
              ModemVoice, rowVars
<1>3. CASE BatchBegins \/ SaveFails \/ Crash
  BY <1>3 DEF BatchBegins, SaveFails, Crash, rowVars
<1>4. CASE \/ ReadAnswer \/ ReadFinal \/ WaitRunsOut \/ NothingToDial \/ Dial
           \/ TimePasses \/ Recover
  BY <1>4 DEF ReadAnswer, ReadFinal, WaitRunsOut, NothingToDial, Dial, TimePasses,
              Recover, rowVars
<1>5. CASE RingReads \/ RingTimesOut \/ PlaybackEnds \/ LingerReads \/ LingerTimesOut
  BY <1>5 DEF RingReads, RingTimesOut, PlaybackEnds, LingerReads, LingerTimesOut, Ends,
              rowVars
<1> QED
  BY <1>1, <1>2, <1>3, <1>4, <1>5 DEF Next, Program

LEMMA TextsStay ==
  ASSUME [Next]_vars
  PROVE  ModemSubmits \/ UNCHANGED <<texts, accepted>>
<1>1. CASE UNCHANGED vars
  BY <1>1 DEF vars, history
<1>2. CASE ModemAnswers \/ ModemTakesAsText \/ ModemVoice \/ NetworkEvent
  BY <1>2 DEF NetworkEvent, ModemAnswers, ModemTakesAsText, ModemVoice, history
<1>3. CASE BatchBegins \/ SaveResult \/ SaveFails \/ Crash
  BY <1>3 DEF BatchBegins, SaveResult, SaveFails, Crash, Fault
<1>4. CASE \/ ReadAnswer \/ ReadFinal \/ WaitRunsOut \/ NothingToDial \/ Dial
           \/ TimePasses \/ Recover
  BY <1>4 DEF ReadAnswer, ReadFinal, WaitRunsOut, NothingToDial, Dial, TimePasses,
              Recover, history
<1>5. CASE RingReads \/ RingTimesOut \/ PlaybackEnds \/ LingerReads \/ LingerTimesOut
  BY <1>5 DEF RingReads, RingTimesOut, PlaybackEnds, LingerReads, LingerTimesOut, Ends,
              history
<1> QED
  BY <1>1, <1>2, <1>3, <1>4, <1>5 DEF Next, Program, Modem

LEMMA AcceptedOnSubmit ==
  ASSUME [Next]_vars
  PROVE  \/ accepted' = accepted
         \/ \E of : accepted' = [accepted EXCEPT ![of] = @ + 1]
BY TextsStay DEF ModemSubmits

-----------------------------------------------------------------------------
(* The lines of a call. While a call is at hand everything that can still  *)
(* be read about a call is about this one, if the modem had no call to end *)
(* when it was dialled.                                                    *)

AskedOf(c) == {d \in RxItem : d.cmd = "ATD" => d.of \in {None, c}}
ToldOf(c) == {l \in TxItem : l.kind \in Events => l.of \in {None, c}}

OwnCall == pc \in Calling /\ cur \notin rushed =>
    /\ rx \in Seq(AskedOf(cur)) /\ tx \in Seq(ToldOf(cur))
    /\ voice.call \in {None, cur}

LEMMA LinesToldOf ==
  ASSUME NEW c, NEW kinds \in Seq(Kinds), NEW of \in Owner,
         of \in {None, c} \/ \A i \in 1..Len(kinds) : kinds[i] \notin Events
  PROVE  Lines(kinds, of) \in Seq(ToldOf(c))
<1>1. Len(kinds) \in Nat
  BY LenProperties
<1>2. \A i \in 1..Len(kinds) : kinds[i] \in Kinds
  BY ElementOfSeq
<1>3. \A i \in 1..Len(kinds) : Line(kinds[i], of) \in ToldOf(c)
  BY <1>2 DEF ToldOf, TxItem, Line
<1>4. \A i \in 1..Len(kinds) : Lines(kinds, of)[i] \in ToldOf(c)
  BY <1>3, LinesFacts
<1>5. /\ DOMAIN Lines(kinds, of) = 1..Len(kinds)
      /\ Lines(kinds, of) \in [1..Len(kinds) -> TxItem]
  BY LinesFacts, LenProperties
<1>6. Lines(kinds, of) \in [1..Len(kinds) -> ToldOf(c)]
  BY <1>4, <1>5
<1> QED
  BY <1>1, <1>6, SeqDef

LEMMA EmitToldOf ==
  ASSUME NEW c, tx \in Seq(ToldOf(c)), NEW more \in Seq(ToldOf(c)), Emit(more)
  PROVE  tx' \in Seq(ToldOf(c))
BY ConcatFacts DEF Emit

(* What is said about a message, and what is said about the call.          *)
Quiet(kinds) == kinds \in Seq(Kinds \ Events)

LEMMA EmitQuiet ==
  ASSUME NEW c, tx \in Seq(ToldOf(c)), NEW of \in Owner,
         NEW kinds, Quiet(kinds), Emit(Lines(kinds, of))
  PROVE  tx' \in Seq(ToldOf(c))
<1>1. \A i \in 1..Len(kinds) : kinds[i] \in Kinds \ Events
  BY ElementOfSeq DEF Quiet
<1>2. kinds \in Seq(Kinds)
  BY SeqMonotonic DEF Quiet
<1> QED
  BY <1>1, <1>2, LinesToldOf, EmitToldOf

LEMMA EmitOwn ==
  ASSUME NEW c, tx \in Seq(ToldOf(c)), NEW of, of \in {None, c},
         NEW kinds, Sayable(kinds, of), Emit(Lines(kinds, of))
  PROVE  tx' \in Seq(ToldOf(c))
BY LinesToldOf, EmitToldOf DEF Sayable

LEMMA QuietOne ==
  ASSUME NEW a \in Kinds, a \notin Events
  PROVE  Quiet(<<a>>)
BY OneFacts DEF Quiet

LEMMA PairIn ==
  ASSUME NEW S, NEW a \in S, NEW b \in S
  PROVE  <<a, b>> \in Seq(S)
OBVIOUS

LEMMA QuietTwo ==
  ASSUME NEW a \in Kinds, NEW b \in Kinds, a \notin Events, b \notin Events
  PROVE  Quiet(<<a, b>>)
BY PairIn DEF Quiet

LEMMA QuietKinds ==
  ASSUME NEW kinds \in {<<"+CPIN", "OK">>, <<"+CPIN locked", "OK">>, <<"ERROR">>,
                       <<"+CSQ", "OK">>, <<">">>, <<"OK">>, <<"+CMGS", "OK">>,
                       <<"+CMS ERROR">>}
  PROVE  Quiet(kinds)
<1>1. CASE kinds \in {<<"ERROR">>, <<">">>, <<"OK">>, <<"+CMS ERROR">>}
  BY <1>1, QuietOne, KindsAre
<1>2. CASE kinds \in {<<"+CPIN", "OK">>, <<"+CPIN locked", "OK">>, <<"+CSQ", "OK">>,
                     <<"+CMGS", "OK">>}
  BY <1>2, QuietTwo, KindsAre
<1> QED
  BY <1>1, <1>2

LEMMA ModemOwnCall ==
  ASSUME Typed, OwnCall, Modem \/ NetworkEvent
  PROVE  OwnCall'
<1>1. UNCHANGED <<rowVars, hostVars, rushed>>
  BY DEF Modem, NetworkEvent, ModemAnswers, ModemTakesAsText, ModemSubmits, ModemVoice,
         history
<1> SUFFICES ASSUME pc \in Calling, cur \notin rushed
             PROVE  /\ rx' \in Seq(AskedOf(cur)) /\ tx' \in Seq(ToldOf(cur))
                    /\ voice'.call \in {None, cur}
  BY <1>1 DEF OwnCall, hostVars
<1>2. /\ rx \in Seq(AskedOf(cur)) /\ tx \in Seq(ToldOf(cur)) /\ voice.call \in {None, cur}
      /\ rx \in Seq(Asked) /\ voice \in [call : Call \cup {None}, up : BOOLEAN]
      /\ voice.call \in Call \cup {None}
  BY DEF OwnCall, Typed, TypeOK, StreamsOK
<1>3. ASSUME rx # <<>>, rx' = Tail(rx)
      PROVE  /\ rx' \in Seq(AskedOf(cur)) /\ Head(rx) \in AskedOf(cur)
             /\ Head(rx) \in Asked /\ Head(rx).of \in Owner
  <2>1. Head(rx) \in Asked
    BY <1>2, <1>3, TailFacts
  <2> QED
    BY <1>2, <1>3, <2>1, TailFacts DEF Asked, RxItem
<1>4. CASE ModemAnswers
  <2>1. rx # <<>> /\ rx' = Tail(rx) /\ voice' = voice
        /\ Head(rx).cmd \notin {"ATD", "CHUP"}
    BY <1>4 DEF ModemAnswers
  <2>2. PICK kinds : kinds \in Answers(Head(rx)) /\ Emit(Lines(kinds, Head(rx).of))
    BY <1>4 DEF ModemAnswers
  <2>3. kinds \in {<<"+CPIN", "OK">>, <<"+CPIN locked", "OK">>, <<"ERROR">>,
                  <<"+CSQ", "OK">>, <<">">>, <<"OK">>}
    BY <2>2 DEF Answers
  <2>4. Quiet(kinds)
    BY <2>3, QuietKinds
  <2> QED
    BY <1>2, <1>3, <2>1, <2>2, <2>4, EmitQuiet
<1>5. CASE ModemTakesAsText
  <2>1. rx # <<>> /\ rx' = Tail(rx) /\ voice' = voice /\ Emit(Lines(<<">">>, entry.to))
    <3>1. <<Line(">", entry.to)>> = Lines(<<">">>, entry.to)
      BY DEF Lines
    <3> QED
      BY <1>5, <3>1 DEF ModemTakesAsText
  <2>2. entry.to \in Owner
    BY DEF Typed, TypeOK, Owner
  <2>3. Quiet(<<">">>)
    BY QuietKinds
  <2> QED
    BY <1>2, <1>3, <2>1, <2>2, <2>3, EmitQuiet
<1>6. CASE ModemSubmits
  <2>1. /\ rx # <<>> /\ rx' = Tail(rx) /\ voice' = voice
        /\ \/ Emit(Lines(<<"+CMGS", "OK">>, Head(rx).of))
           \/ Emit(Lines(<<"+CMS ERROR">>, Head(rx).of))
    BY <1>6 DEF ModemSubmits
  <2>2. /\ Quiet(<<"+CMGS", "OK">>)
        /\ Quiet(<<"+CMS ERROR">>)
    BY QuietKinds
  <2> QED
    BY <1>2, <1>3, <2>1, <2>2, EmitQuiet
<1>7. CASE ModemVoice
  <2>1. rx # <<>> /\ rx' = Tail(rx)
    BY <1>7 DEF ModemVoice
  <2>2. CASE Head(rx).cmd = "ATD"
    <3>1. Head(rx).of \in {None, cur} /\ Head(rx).of \in Owner
      BY <1>3, <2>1, <2>2 DEF AskedOf
    <3>2. \/ Emit(Lines(<<"OK">>, Head(rx).of))
          \/ Emit(Lines(<<"ERROR">>, Head(rx).of))
      BY <1>7, <2>2 DEF ModemVoice
    <3>3. voice' = voice \/ voice' = [call |-> Head(rx).of, up |-> FALSE]
      BY <1>7, <2>2 DEF ModemVoice
    <3>4. Quiet(<<"OK">>) /\ Quiet(<<"ERROR">>)
      BY QuietKinds
    <3>5. voice'.call \in {None, cur}
      BY <1>2, <3>1, <3>3
    <3> QED
      BY <1>2, <1>3, <2>1, <3>1, <3>2, <3>4, <3>5, EmitQuiet
  <2>3. CASE Head(rx).cmd = "CHUP"
    <3>1. voice' = NoVoice
      BY <1>7, <2>3 DEF ModemVoice
    <3>2. \/ Emit(Lines(<<"OK">>, None))
          \/ Emit(Lines(<<"OK", "END long", "NO CARRIER">>, voice.call))
      BY <1>7, <2>3 DEF ModemVoice
    <3>3. /\ Sayable(<<"OK">>, None)
          /\ Sayable(<<"OK", "END long", "NO CARRIER">>, voice.call)
      BY <1>2, VoiceSayable
    <3>4. tx' \in Seq(ToldOf(cur))
      BY <1>2, <3>2, <3>3, EmitOwn
    <3> QED
      BY <1>3, <2>1, <3>1, <3>4 DEF NoVoice
  <2> QED
    BY <1>7, <2>2, <2>3 DEF ModemVoice
<1>8. CASE NetworkEvent
  <2>1. rx' = rx /\ (voice' = NoVoice \/ voice' = [voice EXCEPT !.up = TRUE])
    BY <1>8 DEF NetworkEvent
  <2>2. PICK kinds :
           /\ kinds \in {<<"BEGIN">>, <<"BUSY">>, <<"NO CARRIER">>,
                        <<"END", "NO CARRIER">>, <<"END zero", "NO CARRIER">>,
                        <<"END short", "NO CARRIER">>, <<"END long", "NO CARRIER">>}
           /\ Emit(Lines(kinds, voice.call))
    BY <1>8 DEF NetworkEvent
  <2>3. Sayable(kinds, voice.call)
    BY <1>2, <2>2, VoiceSayable
  <2>4. tx' \in Seq(ToldOf(cur))
    BY <1>2, <2>2, <2>3, EmitOwn
  <2>5. voice'.call \in {None, cur}
    <3>1. CASE voice' = NoVoice
      BY <3>1 DEF NoVoice
    <3>2. CASE voice' = [voice EXCEPT !.up = TRUE]
      BY <1>2, <3>2
    <3> QED
      BY <2>1, <3>1, <3>2
  <2> QED
    BY <1>2, <2>1, <2>4, <2>5
<1> QED
  BY <1>4, <1>5, <1>6, <1>7, <1>8 DEF Modem

(* A step of the program leaves the call, or reads on, or begins the next  *)
(* one, which is noted as rushed when the modem has a call to end.         *)
LEMMA ProgramOwnCall ==
  ASSUME Typed, OwnCall, Program \/ SaveFails \/ Crash
  PROVE  OwnCall'
<1>1. CASE Dial
  <2>1. PICK c \in Call : /\ cur' = c /\ Write(<<Command("ATD", c)>>)
                          /\ rushed' = IF CallInModem THEN rushed \cup {c} ELSE rushed
    BY <1>1 DEF Dial
  <2>2. voice' = voice /\ tx' = <<>>
    BY <1>1 DEF Dial, modem, OpenPort
  <2>3. CASE CallInModem
    BY <2>1, <2>3 DEF OwnCall
  <2>4. CASE ~CallInModem
    <3>1. voice' = NoVoice /\ \A i \in DOMAIN rx : rx[i].cmd # "ATD"
      BY <2>2, <2>4 DEF CallInModem
    <3>2. rx \in Seq(RxItem)
      BY DEF Typed, TypeOK, RxItem
    <3>3. rx \in Seq(AskedOf(c))
      <4>1. /\ Len(rx) \in Nat /\ DOMAIN rx = 1..Len(rx)
            /\ rx \in [1..Len(rx) -> RxItem]
        BY <3>2, LenProperties
      <4>2. \A i \in 1..Len(rx) : rx[i] \in AskedOf(c)
        BY <3>1, <4>1 DEF AskedOf
      <4>3. rx \in [1..Len(rx) -> AskedOf(c)]
        BY <4>1, <4>2
      <4> QED
        BY <4>1, <4>3, SeqDef
    <3>4. Command("ATD", c) \in AskedOf(c)
      BY DEF Command, AskedOf, RxItem, Commands, Owner
    <3>5. <<Command("ATD", c)>> \in Seq(AskedOf(c))
      BY <3>4, OneFacts
    <3>6. rx' \in Seq(AskedOf(c))
      BY <2>1, <3>3, <3>5, ConcatFacts DEF Write
    <3>7. tx' \in Seq(ToldOf(c))
      BY <2>2
    <3> QED
      BY <2>1, <3>1, <3>6, <3>7 DEF OwnCall, NoVoice
  <2> QED
    BY <2>3, <2>4
<1>2. CASE RingReads \/ LingerReads \/ TimePasses \/ PlaybackEnds
  <2>1. \/ pc' = "tick"
        \/ /\ pc \in Calling /\ UNCHANGED <<cur, rx, voice, rushed>>
           /\ tx' = tx \/ (tx # <<>> /\ tx' = Tail(tx))
    <3>1. CASE RingReads
      BY <3>1 DEF RingReads, Ends, hostVars, modem, history, Calling
    <3>2. CASE LingerReads
      BY <3>2 DEF LingerReads, Ends, hostVars, modem, history, Calling
    <3>3. CASE TimePasses \/ PlaybackEnds
      BY <3>3 DEF TimePasses, PlaybackEnds, Ends, lineVars, modem, history, Calling
    <3> QED
      BY <1>2, <3>1, <3>2, <3>3
  <2>2. CASE pc' = "tick"
    BY <2>2 DEF OwnCall, Calling
  <2>3. CASE pc \in Calling /\ UNCHANGED <<cur, rx, voice, rushed>>
             /\ (tx' = tx \/ (tx # <<>> /\ tx' = Tail(tx)))
    <3> SUFFICES ASSUME cur \notin rushed
                 PROVE  /\ rx \in Seq(AskedOf(cur)) /\ tx' \in Seq(ToldOf(cur))
                        /\ voice.call \in {None, cur}
      BY <2>3 DEF OwnCall
    <3>1. /\ rx \in Seq(AskedOf(cur)) /\ tx \in Seq(ToldOf(cur))
          /\ voice.call \in {None, cur}
      BY <2>3 DEF OwnCall
    <3> QED
      BY <2>3, <3>1, TailFacts
  <2> QED
    BY <2>1, <2>2, <2>3
<1>3. CASE RingTimesOut \/ LingerTimesOut
  BY <1>3 DEF RingTimesOut, LingerTimesOut, Ends, OwnCall, Calling
<1>4. CASE BatchBegins \/ SaveResult \/ SaveFails \/ Crash \/ NothingToDial \/ Recover
  BY <1>4 DEF BatchBegins, SaveResult, SaveFails, Crash, NothingToDial, Recover, Begins,
              OwnCall, Calling
<1>5. CASE ReadAnswer \/ ReadFinal \/ WaitRunsOut
  BY <1>5 DEF ReadAnswer, ReadFinal, WaitRunsOut, Decide, OwnCall, Calling
<1> QED
  BY <1>1, <1>2, <1>3, <1>4, <1>5 DEF Program

LEMMA OwnCallStep ==
  ASSUME Typed, OwnCall, [Next]_vars
  PROVE  OwnCall'
<1>1. CASE UNCHANGED vars
  BY <1>1 DEF vars, hostVars, lineVars, modem, history, OwnCall
<1>2. CASE Next
  BY <1>2, ProgramOwnCall, ModemOwnCall DEF Next
<1> QED
  BY <1>1, <1>2

(* An outcome is decided by a line of the call at hand.                    *)
LEMMA OutcomeStep ==
  ASSUME Typed, OwnCall, OutcomeIsItsOwn, [Next]_vars
  PROVE  OutcomeIsItsOwn'
<1>0. rushed \subseteq rushed'
  <2>1. CASE Dial
    BY <2>1 DEF Dial
  <2>2. CASE \/ BatchBegins \/ ReadAnswer \/ ReadFinal \/ WaitRunsOut \/ SaveResult
             \/ SaveFails \/ Crash \/ NothingToDial \/ TimePasses \/ Recover
    BY <2>2 DEF BatchBegins, ReadAnswer, ReadFinal, WaitRunsOut, SaveResult, SaveFails,
                Crash, Fault, NothingToDial, TimePasses, Recover, history
  <2>3. CASE RingReads \/ RingTimesOut \/ PlaybackEnds \/ LingerReads \/ LingerTimesOut
    BY <2>3 DEF RingReads, RingTimesOut, PlaybackEnds, LingerReads, LingerTimesOut,
                Ends, history
  <2>4. CASE Modem \/ NetworkEvent \/ UNCHANGED vars
    BY <2>4 DEF Modem, NetworkEvent, ModemAnswers, ModemTakesAsText, ModemSubmits,
                ModemVoice, history, vars
  <2> QED
    BY <2>1, <2>2, <2>3, <2>4 DEF Next, Program
<1>1. source \in [Call -> Call \cup {None}] /\ \A c \in Call \ rushed : source[c] \in {None, c}
  BY DEF Typed, TypeOK, OutcomeIsItsOwn
<1>2. CASE source' = source
  BY <1>0, <1>1, <1>2 DEF OutcomeIsItsOwn
<1>3. ASSUME NEW of, cur \in rushed \/ of \in {None, cur},
             source' = [source EXCEPT ![cur] = of]
      PROVE  OutcomeIsItsOwn'
  BY <1>0, <1>1, <1>3 DEF OutcomeIsItsOwn
<1>4. ASSUME pc \in Calling, tx # <<>>, Head(tx).kind \in Events
      PROVE  cur \in rushed \/ Head(tx).of \in {None, cur}
  BY <1>4, TailFacts DEF OwnCall, ToldOf
<1>5. pc \in Calling => cur \in rushed \/ source[cur] \in {None, cur}
  BY <1>1 DEF Typed, HostOK
<1>6. CASE RingReads
  <2>1. pc \in Calling /\ tx # <<>>
    BY <1>6 DEF RingReads, Calling
  <2>2. \/ source' = source
        \/ Head(tx).kind \in Events /\ source' = [source EXCEPT ![cur] = Head(tx).of]
    BY <1>6 DEF RingReads, Ends, Events, history
  <2> QED
    BY <1>2, <1>3, <1>4, <2>1, <2>2
<1>7. CASE LingerReads
  <2>1. pc \in Calling /\ tx # <<>>
    BY <1>7 DEF LingerReads, Calling
  <2>2. \/ source' = source
        \/ Head(tx).kind \in Events /\ source' = [source EXCEPT ![cur] = Head(tx).of]
    BY <1>7 DEF LingerReads, Ends, Events, history
  <2> QED
    BY <1>2, <1>3, <1>4, <2>1, <2>2
<1>8. CASE RingTimesOut \/ PlaybackEnds \/ LingerTimesOut
  <2>1. /\ pc \in Calling
        /\ \/ source' = source
           \/ source' = [source EXCEPT ![cur] = source[cur]]
           \/ source' = [source EXCEPT ![cur] = None]
    BY <1>8 DEF RingTimesOut, PlaybackEnds, LingerTimesOut, Ends, history, Calling
  <2> QED
    BY <1>2, <1>3, <1>5, <2>1
<1>9. CASE UNCHANGED vars
  BY <1>2, <1>9 DEF vars, history
<1>10. CASE Modem \/ NetworkEvent
  BY <1>2, <1>10 DEF Modem, NetworkEvent, ModemAnswers, ModemTakesAsText, ModemSubmits,
                     ModemVoice, history
<1>11. CASE \/ BatchBegins \/ ReadAnswer \/ ReadFinal \/ WaitRunsOut \/ SaveResult
            \/ SaveFails \/ Crash
  BY <1>2, <1>11 DEF BatchBegins, ReadAnswer, ReadFinal, WaitRunsOut, SaveResult,
                     SaveFails, Crash, Fault, history
<1>12. CASE NothingToDial \/ Dial \/ TimePasses \/ Recover
  BY <1>2, <1>12 DEF NothingToDial, Dial, TimePasses, Recover, history
<1> QED
  BY <1>6, <1>7, <1>8, <1>9, <1>10, <1>11, <1>12 DEF Next, Program

(* The outcome of a call comes from that call's own lines or from none,    *)
(* however the lines of one call and the hang-up of the other come         *)
(* together, unless the modem had a call to end when this one was dialled: *)
(* only then is the end of an earlier call read as the end of this one.    *)
THEOREM OutcomesAreOwn == Spec => []OutcomeIsItsOwn
<1>1. Init => OwnCall /\ OutcomeIsItsOwn
  BY DEF Init, OwnCall, OutcomeIsItsOwn, Calling
<1>2. Typed /\ OwnCall /\ OutcomeIsItsOwn /\ [Next]_vars => (OwnCall /\ OutcomeIsItsOwn)'
  BY OwnCallStep, OutcomeStep
<1> QED
  BY <1>1, <1>2, TypedAlways, PTL DEF Spec
=============================================================================
