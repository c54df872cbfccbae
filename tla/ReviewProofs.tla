--------------------------- MODULE ReviewProofs ---------------------------
(***************************************************************************)
(* Theorems about ReviewCenter, for any ledger, any number of change sets  *)
(* and any number of requests in progress.                                 *)
(***************************************************************************)
EXTENDS ReviewCenter, FiniteSetTheorems, TLAPS

-----------------------------------------------------------------------------
(* Invariants. *)

Op == OnLoop \cup {"idle", "import", "apply"}

(* Change sets are made in order, and a request that decides or applies    *)
(* has one that was made.                                                  *)
FreeAbove == \A s, u \in Set : s < u /\ state[s] = "free" => state[u] = "free"
SubjectIsMade ==
    \A c \in Clients : pc[c] \in {"decide", "apply"} => state[subject[c]] # "free"

Made == FreeAbove /\ SubjectIsMade

(* No record is ever deleted: the services that ApplyRead found and the    *)
(* record that was loaded for editing are still there.                     *)
ParentsRemain == \A c \in Clients : pc[c] = "apply" =>
    \A r \in items[subject[c]] \cap Devices : version[Parent[r]] > 0
LoadedRemains == \A c \in Clients : pc[c] = "edit" =>
    \A r \in Record : seen[c][r] > 0 => version[r] > 0

Ledger == DeviceHasService /\ ParentsRemain /\ LoadedRemains

(* A set is marked as imported when it is made, by a batch that exists. *)
ImportedIsMade == \A s \in Set : imported[s] => state[s] # "free" /\ batch # "none"

Batch == BatchFollowsItsSets /\ ImportedIsMade

IInv == TypeOK /\ Made /\ Ledger /\ Batch

(* Between the test and the write of a decision nobody else decides on the *)
(* same set, or the set is disputed.  Two requests may apply the same set. *)
SubjectIsUndecided == \A c \in Clients :
    /\ pc[c] = "decide" /\ subject[c] \notin disputed => state[subject[c]] = "submitted"
    /\ pc[c] = "apply" /\ subject[c] \notin disputed
          => state[subject[c]] \in {"approved", "applied"}

(* An application from the work lists is for a record that exists. *)
ApplicationsRefer == \A s \in Set :
    ~imported[s] => \A r \in items[s] : base[s][r] # 0

(* OneApplicationPerRecord without cardinalities. *)
ApplicationsDiffer == \A s, u \in Set \ disputed :
    /\ s # u /\ ~imported[s] /\ ~imported[u]
    /\ state[s] \in Pending /\ state[u] \in Pending
    => items[s] \cap items[u] = {}

OneVerdict == SubjectIsUndecided /\ ApplicationsRefer /\ ApplicationsDiffer
-----------------------------------------------------------------------------
(* Type correctness. *)

LEMMA VersionsTyped ==
  /\ Nothing \in [Record -> Version]
  /\ \A R, v : v \in [Record -> Version] => Only(R, v) \in [Record -> Version]
<1>1. 0 \in Version
  BY ReviewAssumption DEF Version
<1> QED
  BY <1>1 DEF Nothing, Only

(* A request that reads keeps every type. *)
LEMMA ReadsTypes ==
  ASSUME TypeOK, NEW c \in Clients, NEW op \in Op, NEW s \in Set \cup {NoSet},
         op \in {"decide", "apply"} => s \in Set,
         NEW v \in [Record -> Version], Reads(c, op, s, v)
  PROVE  TypeOK'
BY DEF Reads, TypeOK, Op, sets, import

(* So does one that answers, in what belongs to the requests. *)
LEMMA AnswersTypes ==
  ASSUME TypeOK, NEW c \in Clients, NEW op, Answers(c, op)
  PROVE  /\ pc' \in [Clients -> OnLoop \cup {"idle", "import", "apply"}]
         /\ subject' \in [Clients -> Set \cup {NoSet}]
         /\ \A o \in Clients : pc'[o] \in {"decide", "apply"} => subject'[o] \in Set
         /\ seen' \in [Clients -> [Record -> Version]]
         /\ pc'[c] = "idle"
         /\ \A o \in Clients \ {c} : /\ pc'[o] = pc[o] /\ subject'[o] = subject[o]
                                     /\ seen'[o] = seen[o]
BY VersionsTyped DEF Answers, TypeOK

LEMMA TypesInit == Init => TypeOK
<1>1. {0, 1} \subseteq Version
  BY ReviewAssumption DEF Version
<1> SUFFICES ASSUME Init PROVE TypeOK
  OBVIOUS
<1>2. version \in [Record -> Version]
  BY <1>1 DEF Init
<1>3. /\ state \in [Set -> SetStatus] /\ items \in [Set -> SUBSET Record]
      /\ imported \in [Set -> BOOLEAN] /\ batch \in BatchStatus
      /\ staged \in SUBSET Record /\ errors \in BOOLEAN
  BY DEF Init, SetStatus, BatchStatus
<1>4. base \in [Set -> [Record -> Version]] /\ rowBase \in [Record -> Version]
  BY VersionsTyped DEF Init
<1>6. disputed \in SUBSET Set
  BY DEF Init
<1>5. /\ pc \in [Clients -> OnLoop \cup {"idle", "import", "apply"}]
      /\ subject \in [Clients -> Set \cup {NoSet}]
      /\ \A c \in Clients : pc[c] \notin {"decide", "apply"}
      /\ seen \in [Clients -> [Record -> Version]]
  BY VersionsTyped DEF Init
<1> QED
  BY <1>2, <1>3, <1>4, <1>5, <1>6 DEF TypeOK

(* An import makes the next one or two change sets. *)
MakesSets(made) ==
    /\ made # {} /\ \E b \in Set : Fresh(b) /\ made \subseteq {b, b + 1} /\ b \in made
    /\ state' = [s \in Set |-> IF s \in made THEN "submitted" ELSE state[s]]
    /\ imported' = [s \in Set |-> s \in made \/ imported[s]]
    /\ items' \in [Set -> SUBSET Record]
    /\ \A s \in Set \ made : items'[s] = items[s] /\ base'[s] = base[s]

LEMMA ImportMakes ==
  ASSUME TypeOK, NEW c \in Clients, ImportSubmitCommit(c)
  PROVE  \E made \in SUBSET Set : MakesSets(made)
<1>1. PICK changed \in (SUBSET staged) \ {{}}, b \in Set, n \in Set :
        Generates(changed, b, n, seen[c])
  BY DEF ImportSubmitCommit
<1> DEFINE business == changed \cap Services
           network == changed \cap Devices
           made == (IF business = {} THEN {} ELSE {b})
                      \cup (IF network = {} THEN {} ELSE {n})
<1>2. business \cup network = changed /\ changed # {}
  BY SMT DEF TypeOK, Record
<1>3. made \subseteq {b, b + 1} /\ b \in made /\ made \in SUBSET Set
  BY <1>1, <1>2 DEF Generates
<1>4. business \in SUBSET Record /\ network \in SUBSET Record
  BY DEF Record
<1>5. /\ state' = [s \in Set |-> IF s \in made THEN "submitted" ELSE state[s]]
      /\ imported' = [s \in Set |-> s \in made \/ imported[s]]
      /\ items' = [s \in Set |->
                     IF s \notin made THEN items[s]
                     ELSE IF s = b /\ business # {} THEN business ELSE network]
      /\ base' = [s \in Set |-> IF s \in made THEN Only(items'[s], seen[c]) ELSE base[s]]
      /\ Fresh(b)
  BY <1>1, Zenon DEF Generates
<1> HIDE DEF business, network, made
<1>6. /\ items' \in [Set -> SUBSET Record]
      /\ \A s \in Set \ made : items'[s] = items[s] /\ base'[s] = base[s]
  BY <1>4, <1>5 DEF TypeOK
<1> QED
  BY <1>3, <1>5, <1>6 DEF MakesSets

LEMMA TypesStep ==
  ASSUME TypeOK, [Next]_vars
  PROVE  TypeOK'
<1> USE DEF Record
<1>1. CASE UNCHANGED vars
  BY <1>1 DEF vars, sets, import, client, TypeOK
<1>2. ASSUME NEW c \in Clients,
             CorrectLoad(c) \/ ImportSubmitRead(c)
                \/ (\E s \in Set : DecideLoad(c, s) \/ ApplyRead(c, s))
      PROVE  TypeOK'
  <2>1. CASE CorrectLoad(c)
    BY <2>1, ReadsTypes, VersionsTyped DEF CorrectLoad, OnLoop, Op
  <2>2. CASE ImportSubmitRead(c)
    BY <2>2, ReadsTypes DEF ImportSubmitRead, Op, TypeOK
  <2>3. ASSUME NEW s \in Set, DecideLoad(c, s) PROVE TypeOK'
    BY <2>3, ReadsTypes, VersionsTyped DEF DecideLoad, OnLoop, Op
  <2>4. ASSUME NEW s \in Set, ApplyRead(c, s) PROVE TypeOK'
    BY <2>4, ReadsTypes DEF ApplyRead, Op, TypeOK
  <2> QED
    BY <1>2, <2>1, <2>2, <2>3, <2>4
<1>3. ASSUME NEW c \in Clients, NEW r \in Record, SubmitLoad(c, r) \/ EditLoad(c, r)
      PROVE  TypeOK'
  <2>1. [Nothing EXCEPT ![r] = version[r]] \in [Record -> Version]
    BY VersionsTyped DEF TypeOK
  <2>2. CASE SubmitLoad(c, r)
    <3>1. (IF r \in Devices THEN "recover" ELSE "submit") \in OnLoop
      BY DEF OnLoop
    <3>2. (IF r \in Devices THEN "recover" ELSE "submit") \notin {"decide", "apply"}
      OBVIOUS
    <3> QED
      BY <2>1, <2>2, <3>1, <3>2, ReadsTypes DEF SubmitLoad, Op
  <2>3. CASE EditLoad(c, r)
    BY <2>1, <2>3, ReadsTypes DEF EditLoad, OnLoop, Op
  <2> QED
    BY <1>3, <2>2, <2>3
<1>4. ASSUME NEW c \in Clients, Upload(c) PROVE TypeOK'
  BY <1>4, VersionsTyped DEF Upload, TypeOK, BatchStatus, sets, client
<1>5. ASSUME NEW c \in Clients, Correct(c) PROVE TypeOK'
  BY <1>5, AnswersTypes, VersionsTyped DEF Correct, TypeOK, sets
<1>6. ASSUME NEW c \in Clients, ImportSubmitCommit(c) PROVE TypeOK'
  <2>1. /\ state' \in [Set -> SetStatus] /\ items' \in [Set -> SUBSET Record]
        /\ imported' \in [Set -> BOOLEAN]
    <3>1. PICK made \in SUBSET Set : MakesSets(made)
      BY <1>6, ImportMakes
    <3> QED
      BY <3>1 DEF MakesSets, TypeOK, SetStatus
  <2>2. base' \in [Set -> [Record -> Version]]
    <3>0. PICK changed \in (SUBSET staged) \ {{}}, b \in Set, n \in Set :
            Generates(changed, b, n, seen[c])
      BY <1>6 DEF ImportSubmitCommit
    <3>1. PICK made : base' = [s \in Set |-> IF s \in made THEN Only(items'[s], seen[c])
                                                           ELSE base[s]]
      BY <3>0, Zenon DEF Generates
    <3>2. \A R : Only(R, seen[c]) \in [Record -> Version]
      BY VersionsTyped DEF TypeOK
    <3> QED
      BY <3>1, <3>2 DEF TypeOK
  <2>3. Answers(c, "import") /\ UNCHANGED <<version, disputed, staged, rowBase, errors>>
        /\ batch' = "reviewing"
    BY <1>6 DEF ImportSubmitCommit
  <2> QED
    BY <2>1, <2>2, <2>3, AnswersTypes DEF TypeOK, BatchStatus
<1>7. ASSUME NEW c \in Clients, NEW r \in Record, Submit(c, r) PROVE TypeOK'
  <2>1. /\ state' \in [Set -> SetStatus] /\ items' \in [Set -> SUBSET Record]
        /\ base' \in [Set -> [Record -> Version]]
    <3>1. PICK s \in Set : /\ state' = [state EXCEPT ![s] = "submitted"]
                           /\ items' = [items EXCEPT ![s] = {r}]
                           /\ base' = [base EXCEPT ![s] = seen[c]]
      BY <1>7 DEF Submit
    <3>2. {r} \in SUBSET Record /\ seen[c] \in [Record -> Version]
      BY DEF TypeOK
    <3>3. state' \in [Set -> SetStatus]
      BY <3>1 DEF TypeOK, SetStatus
    <3>4. items' \in [Set -> SUBSET Record]
      BY <3>1, <3>2 DEF TypeOK
    <3>5. base' \in [Set -> [Record -> Version]]
      BY <3>1, <3>2 DEF TypeOK
    <3> QED
      BY <3>3, <3>4, <3>5
  <2>2. PICK op : Answers(c, op)
    BY <1>7 DEF Submit
  <2> QED
    BY <1>7, <2>1, <2>2, AnswersTypes DEF Submit, import, TypeOK
<1>8. ASSUME NEW c \in Clients, NEW d \in Decision, DecideCommit(c, d) PROVE TypeOK'
  <2>1. state' \in [Set -> SetStatus]
    BY <1>8 DEF DecideCommit, Decision, SetStatus, TypeOK
  <2>2. batch' \in BatchStatus
    BY <1>8 DEF DecideCommit, BatchStatus, TypeOK
  <2>3. Answers(c, "decide") /\ disputed' \in SUBSET Set
    BY <1>8 DEF DecideCommit, Answers, TypeOK
  <2> QED
    BY <1>8, <2>1, <2>2, <2>3, AnswersTypes DEF DecideCommit, TypeOK
<1>9. ASSUME NEW c \in Clients, ApplyCommit(c) PROVE TypeOK'
  <2>1. Answers(c, "apply") /\ subject[c] \in Set
    BY <1>9 DEF ApplyCommit, Answers, TypeOK
  <2>2. \A r \in Record : r \in items[subject[c]] => seen[c][r] + 1 \in Version
    BY <1>9, ReviewAssumption DEF ApplyCommit, TypeOK, Version
  <2>3. version' \in [Record -> Version]
    BY <1>9, <2>2 DEF ApplyCommit, TypeOK
  <2>4. state' \in [Set -> SetStatus] /\ batch' \in BatchStatus
    BY <1>9 DEF ApplyCommit, RefreshBatch, TypeOK, SetStatus, BatchStatus
  <2> QED
    BY <1>9, <2>1, <2>3, <2>4, AnswersTypes DEF ApplyCommit, TypeOK
<1>10. ASSUME NEW c \in Clients, GiveUp(c) PROVE TypeOK'
  <2>1. Answers(c, pc[c])
    BY <1>10 DEF GiveUp
  <2> QED
    BY <1>10, <2>1, AnswersTypes DEF GiveUp, sets, import, TypeOK
<1>11. ASSUME NEW c \in Clients, NEW r \in Record, Edit(c, r) PROVE TypeOK'
  <2>1. seen[c][r] + 1 \in Version
    BY <1>11, ReviewAssumption DEF Edit, Write, TypeOK, Version
  <2> QED
    BY <1>11, <2>1, AnswersTypes DEF Edit, Write, sets, import, TypeOK
<1>12. ASSUME NEW c \in Clients, NEW r \in Record, Create(c, r) PROVE TypeOK'
  <2>1. 1 \in Version
    BY ReviewAssumption DEF Version
  <2> QED
    BY <1>12, <2>1 DEF Create, Write, sets, import, client, TypeOK
<1> QED
  BY <1>1, <1>2, <1>3, <1>4, <1>5, <1>6, <1>7, <1>8, <1>9, <1>10, <1>11, <1>12
     DEF Next, ImportStep, RecordStep, ReviewStep

(* Every variable has its type, and a request that decides or applies has  *)
(* loaded a change set.                                                    *)
THEOREM TypeCorrect == Spec => []TypeOK
BY TypesInit, TypesStep, PTL DEF Spec
-----------------------------------------------------------------------------
(* What the steps do to the change sets. *)

(* A request keeps the set it has loaded; only the one that takes the step *)
(* may have loaded it just now.                                            *)
Bystander(o) == pc'[o] = pc[o] /\ subject'[o] = subject[o]
Quiet == UNCHANGED <<version, sets, import>>

LEMMA ClientSteps ==
  ASSUME TypeOK, [Next]_vars
  PROVE  \A o \in Clients : \/ Bystander(o)
                            \/ pc'[o] = "idle"
                            \/ Quiet /\ pc'[o] \notin {"decide", "apply"}
                            \/ Quiet /\ pc'[o] = "decide" /\ state[subject'[o]] = "submitted"
                               /\ subject'[o] \in Set
                            \/ Quiet /\ pc'[o] = "apply" /\ state[subject'[o]] = "approved"
                               /\ subject'[o] \in Set /\ Mergeable(subject'[o])
<1> SUFFICES ASSUME NEW o \in Clients
             PROVE  \/ Bystander(o)
                    \/ pc'[o] = "idle"
                    \/ Quiet /\ pc'[o] \notin {"decide", "apply"}
                    \/ Quiet /\ pc'[o] = "decide" /\ state[subject'[o]] = "submitted"
                               /\ subject'[o] \in Set
                    \/ Quiet /\ pc'[o] = "apply" /\ state[subject'[o]] = "approved"
                               /\ subject'[o] \in Set /\ Mergeable(subject'[o])
  OBVIOUS
<1>1. CASE UNCHANGED client
  BY <1>1 DEF client, Bystander
<1>2. ASSUME NEW c \in Clients, NEW op, Answers(c, op)
      PROVE  Bystander(o) \/ pc'[o] = "idle"
  BY <1>2, AnswersTypes DEF Bystander
<1>3. ASSUME NEW c \in Clients, NEW op, NEW s, NEW v, Reads(c, op, s, v)
      PROVE  Quiet /\ (Bystander(o) \/ (pc'[o] = op /\ subject'[o] = s))
  BY <1>3 DEF Reads, Bystander, TypeOK, Quiet
<1>4. ASSUME NEW c \in Clients, CorrectLoad(c) \/ ImportSubmitRead(c)
      PROVE  Bystander(o) \/ (Quiet /\ pc'[o] \notin {"decide", "apply"})
  BY <1>3, <1>4 DEF CorrectLoad, ImportSubmitRead
<1>5. ASSUME NEW c \in Clients, NEW r \in Record, SubmitLoad(c, r) \/ EditLoad(c, r)
      PROVE  Bystander(o) \/ (Quiet /\ pc'[o] \notin {"decide", "apply"})
  <2>1. CASE EditLoad(c, r)
    BY <1>3, <2>1 DEF EditLoad
  <2>2. CASE SubmitLoad(c, r)
    <3> DEFINE op == IF r \in Devices THEN "recover" ELSE "submit"
    <3>1. op \notin {"decide", "apply"}
      OBVIOUS
    <3> HIDE DEF op
    <3> QED
      BY <1>3, <2>2, <3>1 DEF SubmitLoad, op
  <2> QED
    BY <1>5, <2>1, <2>2
<1>6. ASSUME NEW c \in Clients, NEW s \in Set, DecideLoad(c, s)
      PROVE  Bystander(o) \/ (Quiet /\ pc'[o] = "decide" /\ state[subject'[o]] = "submitted"
                               /\ subject'[o] \in Set)
  BY <1>3, <1>6 DEF DecideLoad, Decidable
<1>7. ASSUME NEW c \in Clients, NEW s \in Set, ApplyRead(c, s)
      PROVE  Bystander(o) \/ (Quiet /\ pc'[o] = "apply" /\ state[subject'[o]] = "approved"
                               /\ subject'[o] \in Set /\ Mergeable(subject'[o]))
  BY <1>3, <1>7 DEF ApplyRead
<1>8. ASSUME NEW c \in Clients,
             Correct(c) \/ ImportSubmitCommit(c) \/ GiveUp(c) \/ ApplyCommit(c)
                \/ (\E d \in Decision : DecideCommit(c, d))
                \/ (\E r \in Record : Submit(c, r) \/ Edit(c, r))
      PROVE  Bystander(o) \/ pc'[o] = "idle"
  BY <1>2, <1>8 DEF Correct, ImportSubmitCommit, GiveUp, ApplyCommit, DecideCommit,
                    Submit, Edit
<1>9. CASE \/ UNCHANGED vars
           \/ \E c \in Clients : Upload(c) \/ \E r \in Record : Create(c, r)
  BY <1>1, <1>9 DEF vars, Upload, Create
<1> QED
  BY <1>4, <1>5, <1>6, <1>7, <1>8, <1>9
     DEF Next, ImportStep, RecordStep, ReviewStep

(* What a step does to the change sets. *)
SetsStay == /\ UNCHANGED sets
            /\ UNCHANGED batch \/ (batch = "none" /\ batch' = "ready")
MakesOne == \E s \in Set, r \in Record :
    /\ Fresh(s) /\ PendingFor(r) = {}
    /\ state' = [state EXCEPT ![s] = "submitted"]
    /\ items' = [items EXCEPT ![s] = {r}]
    /\ base' = [base EXCEPT ![s] = base'[s]] /\ base'[s][r] # 0
    /\ UNCHANGED <<imported, disputed, version, batch>>

LEMMA SetSteps ==
  ASSUME TypeOK, [Next]_vars
  PROVE  \/ SetsStay
         \/ \E made \in SUBSET Set : MakesSets(made) /\ batch' = "reviewing"
                                     /\ UNCHANGED <<version, disputed>>
         \/ MakesOne
         \/ \E c \in Clients, d \in Decision : DecideCommit(c, d)
         \/ \E c \in Clients : ApplyCommit(c)
<1> USE DEF sets, import
<1>1. CASE \/ UNCHANGED vars
           \/ \E c \in Clients : Upload(c) \/ CorrectLoad(c) \/ Correct(c)
                 \/ ImportSubmitRead(c) \/ GiveUp(c)
  BY <1>1 DEF vars, Upload, CorrectLoad, Correct, ImportSubmitRead, GiveUp, Reads,
     SetsStay, sets
<1>2. ASSUME NEW c \in Clients, NEW r \in Record,
             SubmitLoad(c, r) \/ EditLoad(c, r) \/ Edit(c, r) \/ Create(c, r)
      PROVE  SetsStay
  BY <1>2 DEF SubmitLoad, EditLoad, Edit, Create, Reads, Write, SetsStay, sets
<1>3. ASSUME NEW c \in Clients, NEW s \in Set, DecideLoad(c, s) \/ ApplyRead(c, s)
      PROVE  SetsStay
  BY <1>3 DEF DecideLoad, ApplyRead, Reads, SetsStay, sets
<1>4. ASSUME NEW c \in Clients, ImportSubmitCommit(c)
      PROVE  \E made \in SUBSET Set : MakesSets(made) /\ batch' = "reviewing"
                                      /\ UNCHANGED <<version, disputed>>
  BY <1>4, ImportMakes DEF ImportSubmitCommit
<1>5. ASSUME NEW c \in Clients, NEW r \in Record, Submit(c, r) PROVE MakesOne
  <2>1. PICK s \in Set : /\ Fresh(s)
                         /\ state' = [state EXCEPT ![s] = "submitted"]
                         /\ items' = [items EXCEPT ![s] = {r}]
                         /\ base' = [base EXCEPT ![s] = seen[c]]
    BY <1>5 DEF Submit
  <2>2. base'[s] = seen[c] /\ seen[c] \in [Record -> Version] /\ seen[c][r] > 0
    BY <1>5, <2>1 DEF Submit, TypeOK
  <2>3. base'[s][r] # 0
    <3>1. ~(0 > 0)
      OBVIOUS
    <3> QED
      BY <2>2, <3>1
  <2>4. base' = [base EXCEPT ![s] = base'[s]]
    BY <2>1, <2>2, Zenon
  <2> QED
    BY <1>5, <2>1, <2>3, <2>4 DEF Submit, Refuses, MakesOne
<1> QED
  BY <1>1, <1>2, <1>3, <1>4, <1>5 DEF Next, ImportStep, RecordStep, ReviewStep

(* Only free sets are made, and the free ones stay above the others. *)
LEMMA FreeIsMade ==
  ASSUME FreeAbove, NEW made \in SUBSET Set, MakesSets(made)
  PROVE  \A s \in made : state[s] = "free"
<1> USE ReviewAssumption DEF Set
<1>1. PICK b \in Set : Fresh(b) /\ made \subseteq {b, b + 1}
  BY DEF MakesSets
<1>2. b < b + 1 /\ state[b] = "free"
  BY <1>1 DEF Fresh
<1> QED
  BY <1>1, <1>2 DEF FreeAbove

(* A change set that has been made stays made, of the same records. *)
LEMMA MadeStays ==
  ASSUME TypeOK, FreeAbove, [Next]_vars, NEW s \in Set, state[s] # "free"
  PROVE  state'[s] # "free" /\ items'[s] = items[s] /\ imported'[s] = imported[s]
<1>1. CASE SetsStay
  BY <1>1 DEF SetsStay, sets
<1>2. ASSUME NEW made \in SUBSET Set, MakesSets(made)
      PROVE  /\ state'[s] # "free" /\ imported'[s] = imported[s]
             /\ items'[s] = items[s]
  <2>1. s \notin made
    BY <1>2, FreeIsMade
  <2> QED
    BY <1>2, <2>1 DEF MakesSets, TypeOK
<1>3. CASE MakesOne
  BY <1>3 DEF MakesOne, TypeOK, Fresh
<1>4. ASSUME NEW c \in Clients, NEW d \in Decision, DecideCommit(c, d)
      PROVE  state'[s] # "free" /\ items'[s] = items[s] /\ imported'[s] = imported[s]
  BY <1>4 DEF DecideCommit, Decision, TypeOK
<1>5. ASSUME NEW c \in Clients, ApplyCommit(c)
      PROVE  state'[s] # "free" /\ items'[s] = items[s] /\ imported'[s] = imported[s]
  BY <1>5 DEF ApplyCommit, TypeOK
<1> QED
  BY <1>1, <1>2, <1>3, <1>4, <1>5, SetSteps

LEMMA MadeStep ==
  ASSUME TypeOK, Made, [Next]_vars
  PROVE  Made'
<1> USE ReviewAssumption DEF Made
<1>1. ASSUME NEW o \in Clients, pc'[o] \in {"decide", "apply"}
      PROVE  state'[subject'[o]] # "free"
  <2>1. CASE Bystander(o)
    BY <1>1, <2>1, MadeStays DEF Bystander, SubjectIsMade, TypeOK
  <2>2. CASE Quiet /\ state[subject'[o]] \in {"submitted", "approved"}
    BY <2>2 DEF Quiet, sets
  <2> QED
    BY <1>1, <2>1, <2>2, ClientSteps
<1>2. ASSUME NEW s \in Set, NEW u \in Set, s < u, state'[s] = "free"
      PROVE  state'[u] = "free"
  <2>0. state[s] = "free" /\ state[u] = "free"
    BY <1>2, MadeStays DEF FreeAbove
  <2>1. CASE SetsStay
    BY <2>0, <2>1 DEF SetsStay, sets
  <2>2. ASSUME NEW made \in SUBSET Set, MakesSets(made) PROVE state'[u] = "free"
    <3>1. PICK b \in Set : Fresh(b) /\ b \in made /\ made \subseteq {b, b + 1}
      BY <2>2 DEF MakesSets
    <3>2. s \notin made
      BY <1>2, <2>2 DEF MakesSets
    <3>3. ~(s < b)
      BY <2>0, <3>1 DEF Fresh
    <3>4. u \notin made
      BY <1>2, <3>1, <3>2, <3>3 DEF Set
    <3> QED
      BY <2>0, <2>2, <3>4 DEF MakesSets
  <2>3. CASE MakesOne
    <3>1. PICK b \in Set : Fresh(b) /\ state' = [state EXCEPT ![b] = "submitted"]
      BY <2>3 DEF MakesOne
    <3>2. s # b
      BY <1>2, <3>1 DEF TypeOK
    <3>3. ~(s < b)
      BY <2>0, <3>1 DEF Fresh
    <3>4. u # b
      BY <1>2, <3>2, <3>3 DEF Set
    <3> QED
      BY <2>0, <3>1, <3>4
  <2>4. ASSUME NEW c \in Clients, NEW d \in Decision, DecideCommit(c, d)
        PROVE  state'[u] = "free"
    BY <2>0, <2>4 DEF DecideCommit, Answers, SubjectIsMade
  <2>5. ASSUME NEW c \in Clients, ApplyCommit(c) PROVE state'[u] = "free"
    BY <2>0, <2>5 DEF ApplyCommit, Answers, SubjectIsMade
  <2> QED
    BY <2>1, <2>2, <2>3, <2>4, <2>5, SetSteps
<1> QED
  BY <1>1, <1>2 DEF SubjectIsMade, FreeAbove
-----------------------------------------------------------------------------
(* The ledger. *)

LEMMA Growth ==
  ASSUME TypeOK, [Next]_vars, NEW r \in Record, version'[r] # version[r]
  PROVE  \E c \in Clients :
            \/ Edit(c, r) /\ seen[c][r] > 0 /\ version'[r] = seen[c][r] + 1 /\ pc[c] = "edit"
            \/ Create(c, r) /\ version'[r] = 1
            \/ /\ ApplyCommit(c) /\ r \in items[subject[c]] /\ pc[c] = "apply"
               /\ version'[r] = seen[c][r] + 1
<1>1. CASE UNCHANGED version
  BY <1>1
<1>2. CASE \/ UNCHANGED vars
           \/ \E c \in Clients :
                \/ Upload(c) \/ CorrectLoad(c) \/ Correct(c) \/ ImportSubmitRead(c)
                \/ ImportSubmitCommit(c) \/ GiveUp(c)
                \/ \E d \in Decision : DecideCommit(c, d)
                \/ \E s \in Set : DecideLoad(c, s) \/ ApplyRead(c, s)
                \/ \E q \in Record : SubmitLoad(c, q) \/ EditLoad(c, q) \/ Submit(c, q)
  BY <1>1, <1>2 DEF vars, Upload, CorrectLoad, Correct, ImportSubmitRead,
       ImportSubmitCommit, GiveUp, DecideCommit, DecideLoad, ApplyRead, SubmitLoad,
       EditLoad, Submit, Reads
<1>3. ASSUME NEW c \in Clients, NEW q \in Record, Edit(c, q)
      PROVE  q = r /\ seen[c][r] > 0 /\ version'[r] = seen[c][r] + 1 /\ pc[c] = "edit"
  BY <1>3 DEF Edit, Write, Answers, TypeOK
<1>4. ASSUME NEW c \in Clients, NEW q \in Record, Create(c, q)
      PROVE  q = r /\ version'[r] = 1
  BY <1>4 DEF Create, Write, TypeOK
<1>5. ASSUME NEW c \in Clients, ApplyCommit(c)
      PROVE  r \in items[subject[c]] /\ version'[r] = seen[c][r] + 1 /\ pc[c] = "apply"
  BY <1>5 DEF ApplyCommit, Answers
<1> QED
  BY <1>2, <1>3, <1>4, <1>5 DEF Next, ImportStep, RecordStep, ReviewStep

LEMMA RecordsRemain ==
  ASSUME TypeOK, [Next]_vars, NEW r \in Record, version[r] > 0
  PROVE  version'[r] > 0
<1>1. \A c \in Clients : seen[c][r] \in Nat
  BY ReviewAssumption DEF TypeOK, Version
<1> QED
  BY <1>1, Growth

LEMMA LedgerStep ==
  ASSUME TypeOK, Made, Ledger, [Next]_vars
  PROVE  Ledger'
<1> USE ReviewAssumption DEF Ledger, Made
<1>0. \A r \in Record : version[r] \in Nat
  BY DEF TypeOK, Version
<1>1. ASSUME NEW d \in Devices, version'[d] > 0 PROVE version'[Parent[d]] > 0
  <2>0. d \in Record /\ Parent[d] \in Record
    BY DEF Record
  <2>1. CASE version[d] > 0
    BY <2>0, <2>1, RecordsRemain DEF DeviceHasService
  <2>2. CASE version'[d] # version[d] /\ ~(version[d] > 0)
    <3>1. PICK c \in Clients :
             \/ seen[c][d] > 0 /\ pc[c] = "edit"
             \/ Create(c, d)
             \/ ApplyCommit(c) /\ d \in items[subject[c]] /\ pc[c] = "apply"
      BY <2>0, <2>2, Growth
    <3>2. ~(seen[c][d] > 0 /\ pc[c] = "edit")
      BY <2>0, <2>2 DEF LoadedRemains
    <3>3. version[Parent[d]] > 0
      BY <3>1, <3>2 DEF Create, ParentsRemain
    <3> QED
      BY <2>0, <3>3, RecordsRemain
  <2> QED
    BY <1>1, <2>1, <2>2
<1>2. ASSUME NEW o \in Clients, pc'[o] = "apply",
             NEW d \in items'[subject'[o]] \cap Devices
      PROVE  version'[Parent[d]] > 0
  <2>0. Parent[d] \in Record
    BY DEF Record
  <2>1. CASE Bystander(o)
    <3>1. items'[subject'[o]] = items[subject[o]]
      BY <1>2, <2>1, MadeStays DEF Bystander, SubjectIsMade, TypeOK
    <3>2. version[Parent[d]] > 0
      BY <1>2, <2>1, <3>1 DEF Bystander, ParentsRemain
    <3> QED
      BY <2>0, <3>2, RecordsRemain
  <2>2. CASE Quiet /\ Mergeable(subject'[o])
    BY <1>2, <2>2 DEF Quiet, sets, Mergeable
  <2> QED
    BY <1>2, <2>1, <2>2, ClientSteps
<1>3. ASSUME NEW o \in Clients, pc'[o] = "edit", NEW r \in Record, seen'[o][r] > 0
      PROVE  version'[r] > 0
  <2>1. CASE pc[o] = "edit" /\ seen'[o] = seen[o]
    BY <1>3, <2>1, RecordsRemain DEF LoadedRemains
  <2>2. ASSUME NEW c \in Clients, NEW q \in Record, EditLoad(c, q)
        PROVE  version'[r] > 0
    <3>1. CASE c # o
      BY <1>3, <2>1, <2>2, <3>1 DEF EditLoad, Reads, TypeOK
    <3>2. CASE c = o
      <4>1. /\ version' = version
            /\ seen'[o] = [Nothing EXCEPT ![q] = version[q]] /\ version[q] > 0
        BY <2>2, <3>2 DEF EditLoad, Reads, TypeOK
      <4>2. seen'[o][r] = IF r = q THEN version[q] ELSE 0
        BY <4>1 DEF Nothing
      <4> QED
        BY <1>3, <4>1, <4>2
    <3> QED
      BY <3>1, <3>2
  <2>3. ASSUME NEW c \in Clients, NEW op, Answers(c, op)
        PROVE  version'[r] > 0
    BY <1>3, <2>1, <2>3, AnswersTypes
  <2>4. ASSUME NEW c \in Clients, NEW op, op # "edit", NEW s, NEW v, Reads(c, op, s, v)
        PROVE  version'[r] > 0
    BY <1>3, <2>1, <2>4 DEF Reads, TypeOK
  <2>5. CASE UNCHANGED client
    BY <1>3, <2>1, <2>5 DEF client
  <2>6. CASE \/ UNCHANGED vars
             \/ \E c \in Clients : Upload(c) \/ \E q \in Record : Create(c, q)
    BY <2>5, <2>6 DEF vars, Upload, Create
  <2>7. ASSUME NEW c \in Clients,
               \/ CorrectLoad(c) \/ ImportSubmitRead(c)
               \/ \E s \in Set : DecideLoad(c, s) \/ ApplyRead(c, s)
        PROVE  version'[r] > 0
    BY <2>4, <2>7 DEF CorrectLoad, ImportSubmitRead, DecideLoad, ApplyRead
  <2>8. ASSUME NEW c \in Clients, NEW q \in Record, SubmitLoad(c, q)
        PROVE  version'[r] > 0
    <3> DEFINE op == IF q \in Devices THEN "recover" ELSE "submit"
    <3>1. op # "edit"
      OBVIOUS
    <3>2. Reads(c, op, NoSet, [Nothing EXCEPT ![q] = version[q]])
      BY <2>8 DEF SubmitLoad
    <3> HIDE DEF op
    <3> QED
      BY <2>4, <3>1, <3>2
  <2>9. ASSUME NEW c \in Clients,
               \/ Correct(c) \/ ImportSubmitCommit(c) \/ GiveUp(c) \/ ApplyCommit(c)
               \/ \E d \in Decision : DecideCommit(c, d)
               \/ \E q \in Record : Submit(c, q) \/ Edit(c, q)
        PROVE  version'[r] > 0
    BY <2>3, <2>9 DEF Correct, ImportSubmitCommit, GiveUp, ApplyCommit, DecideCommit,
                      Submit, Edit
  <2> QED
    BY <2>2, <2>6, <2>7, <2>8, <2>9 DEF Next, ImportStep, RecordStep, ReviewStep
<1> QED
  BY <1>1, <1>2, <1>3 DEF DeviceHasService, ParentsRemain, LoadedRemains
-----------------------------------------------------------------------------
(* The batch. *)

LEMMA BatchRemains ==
  ASSUME [Next]_vars, batch # "none"
  PROVE  batch' # "none"
BY DEF Next, vars, sets, import, ImportStep, RecordStep, ReviewStep, Upload,
       CorrectLoad, Correct, ImportSubmitRead, ImportSubmitCommit, GiveUp, Reads,
       DecideLoad, ApplyRead, DecideCommit, ApplyCommit, RefreshBatch, SubmitLoad,
       Submit, EditLoad, Edit, Create, Write, Decision

LEMMA ImportedStep ==
  ASSUME TypeOK, Made, ImportedIsMade, [Next]_vars
  PROVE  ImportedIsMade'
<1> USE DEF Made
<1> SUFFICES ASSUME NEW s \in Set, imported'[s] PROVE state'[s] # "free" /\ batch' # "none"
  BY DEF ImportedIsMade
<1>1. CASE imported[s]
  BY <1>1, MadeStays, BatchRemains DEF ImportedIsMade
<1>2. ASSUME NEW made \in SUBSET Set, MakesSets(made), batch' = "reviewing", ~imported[s]
      PROVE  state'[s] # "free" /\ batch' # "none"
  BY <1>2 DEF MakesSets
<1>3. SetsStay \/ MakesOne \/ (\E c \in Clients, d \in Decision : DecideCommit(c, d))
         \/ (\E c \in Clients : ApplyCommit(c)) => imported' = imported
  BY DEF SetsStay, sets, MakesOne, DecideCommit, ApplyCommit
<1> QED
  BY <1>1, <1>2, <1>3, SetSteps

LEMMA BatchStep ==
  ASSUME TypeOK, Made, Batch, [Next]_vars
  PROVE  Batch'
<1> USE DEF Made, Batch
<1>0. /\ \A s \in Set : imported[s] \in BOOLEAN /\ state[s] \in SetStatus
      /\ state \in [Set -> SetStatus] /\ imported \in [Set -> BOOLEAN]
  BY DEF TypeOK
<1>1. CASE SetsStay
  <2>1. batch = "none" => Imported = {}
    BY DEF ImportedIsMade, Imported
  <2>2. Imported' = Imported /\ AllApplied' = AllApplied
    BY <1>1 DEF SetsStay, sets, Imported, AllApplied
  <2> QED
    BY <1>1, <2>1, <2>2, ImportedStep DEF SetsStay, sets, BatchFollowsItsSets
<1>3. ASSUME NEW made \in SUBSET Set, MakesSets(made), batch' = "reviewing"
      PROVE  BatchFollowsItsSets'
  <2>1. PICK s \in made : imported'[s] /\ state'[s] = "submitted"
    BY <1>3 DEF MakesSets
  <2> QED
    BY <1>3, <2>1 DEF BatchFollowsItsSets, AllApplied, Imported
<1>4. CASE MakesOne
  <2>1. PICK b \in Set : /\ Fresh(b) /\ state' = [state EXCEPT ![b] = "submitted"]
                         /\ UNCHANGED <<imported, batch>>
    BY <1>4 DEF MakesOne
  <2>2. ~imported[b]
    BY <2>1 DEF ImportedIsMade, Fresh
  <2>3. Imported' = Imported /\ AllApplied' = AllApplied
    BY <1>0, <2>1, <2>2 DEF Imported, AllApplied
  <2> QED
    BY <2>1, <2>3, ImportedStep DEF BatchFollowsItsSets
<1>5. ASSUME NEW c \in Clients, NEW d \in Decision, DecideCommit(c, d)
      PROVE  BatchFollowsItsSets'
  <2>1. subject[c] \in Set /\ d \in {"approved", "returned", "rejected"}
    BY <1>5 DEF DecideCommit, Answers, TypeOK, Decision
  <2>2. CASE imported[subject[c]]
    <3>1. ~AllApplied'
      BY <1>0, <1>5, <2>1, <2>2 DEF DecideCommit, AllApplied, Imported
    <3>2. batch' # "applied"
      BY <1>5, <2>1, <2>2 DEF DecideCommit
    <3> QED
      BY <3>1, <3>2 DEF BatchFollowsItsSets
  <2>3. CASE ~imported[subject[c]]
    <3>1. Imported' = Imported /\ AllApplied' = AllApplied /\ batch' = batch
      BY <1>0, <1>5, <2>3 DEF DecideCommit, AllApplied, Imported
    <3> QED
      BY <3>1 DEF BatchFollowsItsSets
  <2> QED
    BY <2>2, <2>3
<1>6. ASSUME NEW c \in Clients, ApplyCommit(c) PROVE BatchFollowsItsSets'
  <2>0. /\ subject[c] \in Set /\ Imported' = Imported
        /\ state' = [state EXCEPT ![subject[c]] = "applied"]
    BY <1>6 DEF ApplyCommit, Answers, TypeOK, Imported
  <2>1. CASE imported[subject[c]] /\ AllApplied'
    BY <1>6, <2>1 DEF ApplyCommit, RefreshBatch, BatchFollowsItsSets
  <2>2. CASE ~imported[subject[c]]
    <3>1. AllApplied' = AllApplied /\ batch' = batch
      BY <1>0, <1>6, <2>0, <2>2 DEF ApplyCommit, RefreshBatch, AllApplied, Imported
    <3> QED
      BY <2>0, <3>1 DEF BatchFollowsItsSets
  <2>3. CASE imported[subject[c]] /\ ~AllApplied'
    <3>1. batch' = batch
      BY <1>6, <2>3 DEF ApplyCommit, RefreshBatch
    <3>2. ~AllApplied
      BY <1>0, <2>0, <2>3 DEF AllApplied, Imported
    <3> QED
      BY <2>3, <3>1, <3>2 DEF BatchFollowsItsSets
  <2> QED
    BY <2>1, <2>2, <2>3
<1> QED
  BY <1>1, <1>3, <1>4, <1>5, <1>6, SetSteps, ImportedStep
-----------------------------------------------------------------------------
(* Verdicts. *)

LEMMA DisputedGrows ==
  ASSUME TypeOK, [Next]_vars
  PROVE  disputed \subseteq disputed'
<1>1. ASSUME NEW c \in Clients, NEW d \in Decision, DecideCommit(c, d)
      PROVE  disputed \subseteq disputed'
  BY <1>1 DEF DecideCommit
<1>2. ASSUME NEW c \in Clients, ApplyCommit(c) PROVE disputed \subseteq disputed'
  BY <1>2 DEF ApplyCommit
<1> QED
  BY <1>1, <1>2, SetSteps DEF SetsStay, sets, MakesOne

(* The set a request has loaded, and what others do to it. *)
LEMMA UndecidedStep ==
  ASSUME TypeOK, Made, SubjectIsUndecided, [Next]_vars
  PROVE  SubjectIsUndecided'
<1> USE DEF Made
<1> SUFFICES ASSUME NEW o \in Clients, pc'[o] \in {"decide", "apply"},
                    subject'[o] \notin disputed'
             PROVE  /\ pc'[o] = "decide" => state'[subject'[o]] = "submitted"
                    /\ pc'[o] = "apply" => state'[subject'[o]] \in {"approved", "applied"}
  BY DEF SubjectIsUndecided
<1>1. CASE Quiet /\ pc'[o] = "decide" /\ state[subject'[o]] = "submitted"
  BY <1>1 DEF Quiet, sets
<1>2. CASE Quiet /\ pc'[o] = "apply" /\ state[subject'[o]] = "approved"
  BY <1>2 DEF Quiet, sets
<1>3. CASE Bystander(o)
  <2> DEFINE s == subject[o]
  <2>a. disputed \subseteq disputed'
    BY DisputedGrows
  <2>0. /\ s \in Set /\ state[s] # "free" /\ subject'[o] = s /\ pc'[o] = pc[o]
        /\ s \notin disputed /\ s \notin disputed'
        /\ pc[o] = "decide" => state[s] = "submitted"
        /\ pc[o] = "apply" => state[s] \in {"approved", "applied"}
    BY <1>3, <2>a DEF Bystander, TypeOK, SubjectIsMade, SubjectIsUndecided
  <2> HIDE DEF s
  <2>1. CASE SetsStay
    BY <2>0, <2>1 DEF SetsStay, sets
  <2>2. ASSUME NEW made \in SUBSET Set, MakesSets(made)
        PROVE  state'[s] = state[s]
    BY <2>0, <2>2, FreeIsMade DEF MakesSets
  <2>3. CASE MakesOne
    BY <2>0, <2>3 DEF MakesOne, Fresh
  <2>4. ASSUME NEW c \in Clients, NEW d \in Decision, DecideCommit(c, d)
        PROVE  state'[s] = state[s]
    <3>1. pc[c] = "decide" /\ pc'[c] = "idle" /\ c # o
      BY <2>0, <2>4, AnswersTypes DEF DecideCommit, Answers
    <3>2. CASE subject[c] = s
      <4>1. pc[o] # "decide"
        BY <2>0, <2>4, <3>1, <3>2 DEF DecideCommit, s
      <4> QED
        BY <2>0, <3>1, <3>2, <4>1 DEF SubjectIsUndecided
    <3>3. CASE subject[c] # s
      BY <2>0, <2>4, <3>3 DEF DecideCommit, TypeOK
    <3> QED
      BY <3>2, <3>3
  <2>5. ASSUME NEW c \in Clients, ApplyCommit(c)
        PROVE  state'[s] = state[s] \/ (pc[o] = "apply" /\ state'[s] = "applied")
    <3>1. subject[c] = s => state[s] \in {"approved", "applied"}
      BY <2>0, <2>5 DEF ApplyCommit, Answers, SubjectIsUndecided
    <3> QED
      BY <2>0, <2>5, <3>1 DEF ApplyCommit, TypeOK
  <2> QED
    BY <2>0, <2>1, <2>2, <2>3, <2>4, <2>5, SetSteps
<1> QED
  BY <1>1, <1>2, <1>3, ClientSteps

(* What a request makes refers to the record it has loaded. *)
LEMMA ReferStep ==
  ASSUME TypeOK, Made, ApplicationsRefer, [Next]_vars
  PROVE  ApplicationsRefer'
<1> SUFFICES ASSUME NEW s \in Set, ~imported'[s], NEW q \in items'[s]
             PROVE  base'[s][q] # 0
  BY DEF ApplicationsRefer
<1>1. CASE SetsStay
  BY <1>1 DEF SetsStay, sets, ApplicationsRefer
<1>2. ASSUME NEW made \in SUBSET Set, MakesSets(made) PROVE base'[s][q] # 0
  <2>1. s \notin made /\ ~imported[s]
    BY <1>2 DEF MakesSets
  <2> QED
    BY <1>2, <2>1 DEF MakesSets, ApplicationsRefer
<1>3. CASE MakesOne
  <2>1. PICK n \in Set, r \in Record :
           /\ items' = [items EXCEPT ![n] = {r}]
           /\ base' = [base EXCEPT ![n] = base'[n]] /\ base'[n][r] # 0
           /\ imported' = imported
    BY <1>3 DEF MakesOne
  <2>2. CASE s = n
    BY <2>1, <2>2 DEF TypeOK
  <2>3. CASE s # n
    BY <2>1, <2>3 DEF TypeOK, ApplicationsRefer
  <2> QED
    BY <2>2, <2>3
<1>4. ASSUME NEW c \in Clients, NEW d \in Decision, DecideCommit(c, d)
      PROVE  base'[s][q] # 0
  BY <1>4 DEF DecideCommit, ApplicationsRefer
<1>5. ASSUME NEW c \in Clients, ApplyCommit(c) PROVE base'[s][q] # 0
  BY <1>5 DEF ApplyCommit, ApplicationsRefer
<1> QED
  BY <1>1, <1>2, <1>3, <1>4, <1>5, SetSteps

LEMMA DifferStep ==
  ASSUME TypeOK, Made, OneVerdict, [Next]_vars
  PROVE  ApplicationsDiffer'
<1> USE DEF Made, Pending, OneVerdict
<1>0. disputed \subseteq disputed'
  BY DisputedGrows
<1> SUFFICES ASSUME NEW s \in Set \ disputed', NEW u \in Set \ disputed', s # u, ~imported'[s], ~imported'[u],
                    state'[s] \in Pending, state'[u] \in Pending
             PROVE  items'[s] \cap items'[u] = {}
  BY DEF ApplicationsDiffer
<1>1. CASE SetsStay
  BY <1>0, <1>1 DEF SetsStay, sets, ApplicationsDiffer
<1>2. ASSUME NEW made \in SUBSET Set, MakesSets(made)
      PROVE  items'[s] \cap items'[u] = {}
  <2>1. s \notin made /\ u \notin made
    BY <1>2 DEF MakesSets
  <2>2. /\ state'[s] = state[s] /\ state'[u] = state[u]
        /\ items'[s] = items[s] /\ items'[u] = items[u]
    BY <1>2, <2>1 DEF MakesSets
  <2>3. ~imported[s] /\ ~imported[u]
    BY <1>2 DEF MakesSets
  <2> QED
    BY <1>0, <2>2, <2>3 DEF ApplicationsDiffer
<1>3. CASE MakesOne
  <2>1. PICK n \in Set, r \in Record :
           /\ PendingFor(r) = {}
           /\ state' = [state EXCEPT ![n] = "submitted"]
           /\ items' = [items EXCEPT ![n] = {r}]
           /\ imported' = imported
    BY <1>3 DEF MakesOne
  <2>2. ASSUME NEW k \in Set, state[k] \in Pending, ~imported[k] PROVE r \notin items[k]
    BY <2>1, <2>2 DEF PendingFor, ApplicationsRefer
  <2>3. \A k \in Set \ {n} : state'[k] = state[k] /\ items'[k] = items[k]
    BY <2>1 DEF TypeOK
  <2>4. items'[n] = {r}
    BY <2>1 DEF TypeOK
  <2>5. CASE s = n
    BY <2>1, <2>2, <2>3, <2>4, <2>5
  <2>6. CASE u = n
    BY <2>1, <2>2, <2>3, <2>4, <2>6
  <2>7. CASE s # n /\ u # n
    BY <1>0, <2>1, <2>3, <2>7 DEF ApplicationsDiffer
  <2> QED
    BY <2>5, <2>6, <2>7
<1>4. ASSUME NEW c \in Clients, NEW d \in Decision, DecideCommit(c, d)
      PROVE  items'[s] \cap items'[u] = {}
  <2>1. subject[c] \notin disputed => state[subject[c]] = "submitted"
    BY <1>4 DEF DecideCommit, Answers, SubjectIsUndecided
  <2>2. state[s] \in Pending /\ state[u] \in Pending
    BY <1>0, <1>4, <2>1 DEF DecideCommit, TypeOK
  <2> QED
    BY <1>0, <1>4, <2>2 DEF DecideCommit, ApplicationsDiffer
<1>5. ASSUME NEW c \in Clients, ApplyCommit(c) PROVE items'[s] \cap items'[u] = {}
  <2>1. state[s] \in Pending /\ state[u] \in Pending
    BY <1>5 DEF ApplyCommit, TypeOK
  <2> QED
    BY <1>0, <1>5, <2>1 DEF ApplyCommit, ApplicationsDiffer
<1> QED
  BY <1>1, <1>2, <1>3, <1>4, <1>5, SetSteps

(* A decided set changes only by being applied. *)
LEMMA FinalStep ==
  ASSUME TypeOK, Made, SubjectIsUndecided, [Next]_vars, NEW s \in Set \ disputed'
  PROVE  /\ state[s] \in {"returned", "rejected", "applied"} => state'[s] = state[s]
         /\ state[s] = "approved" => state'[s] \in {"approved", "applied"}
<1> USE DEF Made
<1>0. s \notin disputed
  BY DisputedGrows
<1>1. CASE SetsStay
  BY <1>1 DEF SetsStay, sets
<1>2. ASSUME NEW made \in SUBSET Set, MakesSets(made)
      PROVE  state'[s] = state[s] \/ state[s] = "free"
  BY <1>2, FreeIsMade DEF MakesSets
<1>3. CASE MakesOne
  BY <1>3 DEF MakesOne, Fresh, TypeOK
<1>4. ASSUME NEW c \in Clients, NEW d \in Decision, DecideCommit(c, d)
      PROVE  state'[s] = state[s] \/ state[s] = "submitted"
  BY <1>0, <1>4 DEF DecideCommit, Answers, SubjectIsUndecided, TypeOK
<1>5. ASSUME NEW c \in Clients, ApplyCommit(c)
      PROVE  state'[s] = state[s] \/ (state[s] = "approved" /\ state'[s] = "applied")
  BY <1>0, <1>5 DEF ApplyCommit, Answers, SubjectIsUndecided, TypeOK
<1> QED
  BY <1>1, <1>2, <1>3, <1>4, <1>5, SetSteps
-----------------------------------------------------------------------------
(* The theorems. *)

LEMMA InitInv == Init => IInv /\ OneVerdict
<1> SUFFICES ASSUME Init PROVE IInv /\ OneVerdict
  OBVIOUS
<1>1. TypeOK
  BY TypesInit
<1>2. /\ \A c \in Clients : pc[c] = "idle"
      /\ \A s \in Set : state[s] = "free" /\ ~imported[s]
      /\ batch = "none"
  BY DEF Init
<1>3. Made /\ OneVerdict
  BY <1>2 DEF Init, Made, FreeAbove, SubjectIsMade, OneVerdict, SubjectIsUndecided,
              ApplicationsRefer, ApplicationsDiffer, Pending
<1>4. Ledger
  BY <1>2 DEF Init, Ledger, DeviceHasService, ParentsRemain, LoadedRemains
<1>5. Batch
  BY <1>2 DEF Batch, BatchFollowsItsSets, ImportedIsMade, Imported
<1> QED
  BY <1>1, <1>3, <1>4, <1>5 DEF IInv

(* The inductive invariant: change sets are made in order and once, the    *)
(* ledger only grows, and the batch follows its change sets.               *)
THEOREM Invariant == Spec => []IInv
<1>1. IInv /\ [Next]_vars => IInv'
  BY TypesStep, MadeStep, LedgerStep, BatchStep DEF IInv
<1> QED
  BY <1>1, InitInv, PTL DEF Spec

(* No device without its service, whatever is imported, refused, edited or *)
(* applied in whatever order (apply_change_set, the ledger forms).         *)
THEOREM DevicesHaveServices == Spec => []DeviceHasService
<1>1. IInv => DeviceHasService
  BY DEF IInv, Ledger
<1> QED
  BY <1>1, Invariant, PTL

(* The batch is marked applied exactly when the last of its change sets is *)
(* applied (_refresh_batch_status, review_decision).                       *)
THEOREM BatchesFollow == Spec => []BatchFollowsItsSets
<1>1. IInv => BatchFollowsItsSets
  BY DEF IInv, Batch
<1> QED
  BY <1>1, Invariant, PTL

(* A decision finds the set undecided and an application finds it approved *)
(* or applied, and no two applications for a record are pending, except    *)
(* for sets that two open decisions disputed.                              *)
THEOREM OneVerdictAlways == Spec => []OneVerdict
<1>1. IInv /\ OneVerdict /\ [Next]_vars => OneVerdict'
  BY UndecidedStep, ReferStep, DifferStep DEF OneVerdict, IInv
<1> QED
  BY <1>1, InitInv, Invariant, PTL DEF Spec

(* Nothing but two overlapping decisions overturns a verdict: no number of *)
(* applications, imports, work-list requests and further decisions does    *)
(* (review_decision, review_apply).                                        *)
THEOREM VerdictsAreFinal == Spec => VerdictIsFinal
<1>1. IInv /\ OneVerdict /\ [Next]_vars =>
        [\A s \in Set \ disputed' :
          /\ state[s] \in {"returned", "rejected", "applied"}
                => state'[s] = state[s]
          /\ state[s] = "approved" => state'[s] \in {"approved", "applied"}]_vars
  BY FinalStep DEF IInv, OneVerdict
<1> QED
  BY <1>1, Invariant, OneVerdictAlways, PTL DEF Spec, VerdictIsFinal

(* A record has at most one pending application from the work lists beside *)
(* disputed ones (_reject_if_pending and the decisions).                   *)
THEOREM OneApplication == Spec => []OneApplicationPerRecord
<1>1. TypeOK /\ OneVerdict => OneApplicationPerRecord
  <2> SUFFICES ASSUME TypeOK, OneVerdict, NEW r \in Record
               PROVE  Cardinality({s \in PendingFor(r) : ~imported[s]} \ disputed) <= 1
    BY DEF OneApplicationPerRecord
  <2> DEFINE A == {s \in PendingFor(r) : ~imported[s]} \ disputed
  <2>1. \A s, u \in A : s = u
    BY DEF PendingFor, OneVerdict, ApplicationsDiffer
  <2>2. A = {} \/ \E s \in A : A = {s}
    BY <2>1
  <2> HIDE DEF A
  <2>3. Cardinality(A) <= 1
    <3>1. CASE A = {}
      <4>1. Cardinality(A) = 0
        BY <3>1, FS_EmptySet
      <4> QED
        BY <4>1
    <3>2. ASSUME NEW s \in A, A = {s} PROVE Cardinality(A) <= 1
      <4>1. Cardinality({s}) = 1
        BY FS_Singleton
      <4> QED
        BY <3>2, <4>1
    <3> QED
      BY <2>2, <3>1, <3>2
  <2> QED
    BY <2>3 DEF A
<1> QED
  BY <1>1, TypeCorrect, OneVerdictAlways, PTL
=============================================================================
