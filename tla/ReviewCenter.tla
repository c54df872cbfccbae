---------------------------- MODULE ReviewCenter ----------------------------
(***************************************************************************)
(* The review center: change sets that people submit for one ledger record *)
(* (services/change_requests.py) or that an import batch generates         *)
(* (services/reviews.py), the decision on them, and their application to   *)
(* the ledger with optimistic version checks (main.py, reviews.py).        *)
(*                                                                         *)
(* Routes declared `def' run in a thread pool: two of them interleave      *)
(* between what they read and their commit.  Routes declared `async def'   *)
(* share the event loop, and let others in only where they await the form. *)
(* SQLite admits one writer at a time, so the statements from a request's  *)
(* first flush to its commit are one step.                                 *)
(***************************************************************************)
EXTENDS Integers, FiniteSets

CONSTANTS
    Services,        \* BusinessService rows that exist or may be created
    Devices,         \* NetworkDevice rows
    Parent,          \* the service a device belongs to
    NSets,           \* bound: change sets ever made
    MaxVersion,      \* bound: versions of a record
    Clients,         \* bound: requests in progress at the same time
    NoSet,           \* no change set
    Edited           \* the records people also enter or edit directly

ASSUME ReviewAssumption ==
    /\ Services \cap Devices = {}
    /\ Parent \in [Devices -> Services]
    /\ NSets \in Nat /\ MaxVersion \in Nat \ {0}
    /\ NoSet \notin 1..NSets
    /\ Edited \subseteq Services \cup Devices

Record == Services \cup Devices
Set == 1..NSets
Version == 0..MaxVersion        \* 0: the record does not exist

AnyDecision == {"approved", "returned", "rejected", ""}   \* mutant: unchecked

Decision == {"approved", "returned", "rejected"}
Pending == {"submitted", "approved"}     \* PENDING_CHANGE_STATUSES
SetStatus == {"free", "submitted", "approved", "returned", "rejected", "applied"}
BatchStatus == {"none", "ready", "reviewing", "rejected", "applied"}

VARIABLES
    version,    \* committed version of each record
    state,      \* ChangeSet.status
    items,      \* the records a change set has an item for
    base,       \* ChangeItem.base_version (0: operation "create")
    imported,   \* change sets with import_batch_id
    batch,      \* ImportBatch.status
    staged,     \* the records of the batch's staging rows
    rowBase,    \* base_version in the staging rows
    errors,     \* error_count of the batch is positive
    disputed,   \* history: change sets decided while another decision was open
    pc, subject, seen   \* what each request in progress does and has read

sets   == <<state, items, base, imported, disputed>>
import == <<batch, staged, rowBase, errors>>
client == <<pc, subject, seen>>
vars   == <<version, sets, import, client>>

Only(R, versions) == [r \in Record |-> IF r \in R THEN versions[r] ELSE 0]
Nothing == [r \in Record |-> 0]
Imported == {s \in Set : imported[s]}
Fresh(s) == state[s] = "free" /\ \A u \in Set : u < s => state[u] # "free"

(* Requests that run on the event loop, and those of them that keep it from *)
(* their first read to their commit; the others await their form between.  *)
OnLoop == {"correct", "submit", "recover", "decide", "edit"}
KeepLoop == {"submit"}
LoopFree(c) == \A o \in Clients \ {c} : pc[o] \notin KeepLoop

(* A request reads, and acts on what it has read in a later step. *)
Reads(c, op, s, versions) ==
    /\ pc[c] = "idle"
    /\ op \in OnLoop => LoopFree(c)
    /\ pc' = [pc EXCEPT ![c] = op]
    /\ subject' = [subject EXCEPT ![c] = s]
    /\ seen' = [seen EXCEPT ![c] = versions]
    /\ UNCHANGED <<version, sets, import>>

Answers(c, op) ==
    /\ pc[c] = op
    /\ op \in OnLoop => LoopFree(c)
    /\ pc' = [pc EXCEPT ![c] = "idle"]
    /\ subject' = [subject EXCEPT ![c] = NoSet]
    /\ seen' = [seen EXCEPT ![c] = Nothing]

(* Whatever it has read, a request may end without effect: invalid input,  *)
(* a missing permission, a disconnected browser, a failed commit.          *)
GiveUp(c) ==
    /\ pc[c] # "idle"
    /\ Answers(c, pc[c])
    /\ UNCHANGED <<version, sets, import>>
-----------------------------------------------------------------------------
(* Imports: upload, correction of staging rows, submission for review. *)

(* import_upload: the rows carry the versions of the day; validation may   *)
(* find errors.  A row that names a device also names its service.         *)
Upload(c) ==
    /\ pc[c] = "idle" /\ LoopFree(c)
    /\ batch = "none"
    /\ staged' \in (SUBSET Record) \ {{}}
    /\ \A d \in staged' \cap Devices : Parent[d] \in staged'
    /\ rowBase' = Only(staged', version)
    /\ errors' \in BOOLEAN
    /\ batch' = "ready"
    /\ UNCHANGED <<version, sets, client>>

(* import_row_correct tests the status it loads, awaits the form and then  *)
(* validates all rows again.  The status it assigns is the one it loaded,  *)
(* so the column is not written.                                           *)
CorrectLoad(c) == batch = "ready" /\ Reads(c, "correct", NoSet, Nothing)

Correct(c) ==
    /\ Answers(c, "correct")
    /\ rowBase' = Only(staged, version)
    /\ errors' \in BOOLEAN
    /\ UNCHANGED <<version, sets, batch, staged>>

(* build_import_change_sets: the checks and the staging rows are read ...  *)
ImportSubmitRead(c) ==
    /\ batch = "ready"
    /\ \A s \in Imported : state[s] \notin Pending
    /\ ~errors
    /\ Reads(c, "import", NoSet, rowBase)

(* ... and one change set per domain is written, the business one first,   *)
(* with an item for every record the rows change, every new record among   *)
(* them; a domain without items gets no change set.                        *)
Generates(changed, b, n, versions) ==
    LET business == changed \cap Services
        network == changed \cap Devices
        made == (IF business = {} THEN {} ELSE {b})
                   \cup (IF network = {} THEN {} ELSE {n})
    IN
    /\ Fresh(b)
    /\ n = IF business = {} \/ network = {} THEN b ELSE b + 1
    /\ state' = [s \in Set |-> IF s \in made THEN "submitted" ELSE state[s]]
    /\ items' = [s \in Set |->
                   IF s \notin made THEN items[s]
                   ELSE IF s = b /\ business # {} THEN business ELSE network]
    /\ base' = [s \in Set |-> IF s \in made THEN Only(items'[s], versions)
                                            ELSE base[s]]
    /\ imported' = [s \in Set |-> s \in made \/ imported[s]]

ImportSubmitCommit(c) ==
    /\ Answers(c, "import")
    /\ \E changed \in (SUBSET staged) \ {{}}, b, n \in Set :
          /\ \A r \in staged : seen[c][r] = 0 => r \in changed
          /\ Generates(changed, b, n, seen[c])
    /\ batch' = "reviewing"
    /\ UNCHANGED <<version, disputed, staged, rowBase, errors>>
-----------------------------------------------------------------------------
(* Applications from the work lists: renew, retire, recover. *)

(* The open change sets with an item that refers to the record; the item   *)
(* of a new record carries no entity_id, so nothing finds it.              *)
PendingFor(r) ==
    {s \in Set : state[s] \in Pending /\ r \in items[s] /\ base[s][r] # 0}

(* due_work_recover loads the device before it awaits the form; the        *)
(* business routes load the service after it.                              *)
SubmitLoad(c, r) ==
    /\ version[r] > 0
    /\ Reads(c, IF r \in Devices THEN "recover" ELSE "submit", NoSet,
             [Nothing EXCEPT ![r] = version[r]])

NeverRefuses(r) == FALSE           \* mutant: no _reject_if_pending

Refuses(r) == PendingFor(r) # {}

(* submit_business_update and submit_device_recovery: refused while any    *)
(* change set for the record is pending, written as submitted otherwise.   *)
Submit(c, r) ==
    /\ Answers(c, IF r \in Devices THEN "recover" ELSE "submit")
    /\ seen[c][r] > 0
    /\ ~Refuses(r)
    /\ \E s \in Set :
          /\ Fresh(s)
          /\ state' = [state EXCEPT ![s] = "submitted"]
          /\ items' = [items EXCEPT ![s] = {r}]
          /\ base' = [base EXCEPT ![s] = seen[c]]
    /\ UNCHANGED <<imported, disputed, version, import>>
-----------------------------------------------------------------------------
DecidableTwice(s) == state[s] \in Pending     \* mutant

(* review_decision tests the status after the form, on the row it loaded   *)
(* before.  The batch of an imported set is marked as well.                *)
Decidable(s) == state[s] = "submitted"

DecideLoad(c, s) == Decidable(s) /\ Reads(c, "decide", s, Nothing)

DecideCommit(c, d) ==
    LET s == subject[c] IN
    /\ Answers(c, "decide")
    /\ state' = [state EXCEPT ![s] = d]
    /\ batch' = IF ~imported[s] THEN batch
                ELSE CASE d = "rejected" -> "rejected"
                       [] d = "returned" -> "ready"
                       [] OTHER -> "reviewing"
    /\ disputed' = IF \E o \in Clients \ {c} : pc[o] = "decide" /\ subject[o] = s
                   THEN disputed \cup {s} ELSE disputed
    /\ UNCHANGED <<version, items, base, imported, staged, rowBase, errors>>
-----------------------------------------------------------------------------
(* review_apply / apply_change_set. *)

(* Mutant: a device does not need its service. *)
MergeableAlone(s) == \A r \in items[s] : version[r] = base[s][r]

(* A version that has moved, a new record that exists by now, or a device  *)
(* whose service does not exist yet refuses the whole set.                 *)
Mergeable(s) ==
    \A r \in items[s] :
        /\ version[r] = base[s][r]
        /\ r \in Devices => version[Parent[r]] > 0

ApplyRead(c, s) ==
    /\ state[s] = "approved" /\ items[s] # {}
    /\ Mergeable(s)
    /\ Reads(c, "apply", s, base[s])

AllApplied == \A s \in Imported : state[s] = "applied"

(* Mutant: no flush, the set itself still reads as approved. *)
RefreshUnflushed(s) ==
    batch' = IF imported[s] /\ AllApplied THEN "applied" ELSE batch

(* _refresh_batch_status, after the flush of the set's own new status. *)
RefreshBatch(s) ==
    batch' = IF imported[s] /\ AllApplied' THEN "applied" ELSE batch

(* The write: an UPDATE sets the version that was read plus one; a second  *)
(* INSERT of the same record breaks its unique index and rolls back.       *)
ApplyCommit(c) ==
    LET s == subject[c] IN
    /\ Answers(c, "apply")
    /\ \A r \in items[s] :
          /\ seen[c][r] < MaxVersion
          /\ seen[c][r] = 0 => version[r] = 0
    /\ version' = [r \in Record |->
                     IF r \in items[s] THEN seen[c][r] + 1 ELSE version[r]]
    /\ state' = [state EXCEPT ![s] = "applied"]
    /\ UNCHANGED <<items, base, imported, disputed, staged, rowBase, errors>>
    /\ RefreshBatch(s)
-----------------------------------------------------------------------------
(* Direct entry: service_update and device_update overwrite what they      *)
(* loaded before the form; service_create and device_create.               *)
EditLoad(c, r) ==
    /\ r \in Edited /\ version[r] > 0
    /\ Reads(c, "edit", NoSet, [Nothing EXCEPT ![r] = version[r]])

Write(r, v) ==
    /\ v <= MaxVersion
    /\ version' = [version EXCEPT ![r] = v]
    /\ UNCHANGED <<sets, import>>

Edit(c, r) ==
    /\ Answers(c, "edit")
    /\ seen[c][r] > 0
    /\ Write(r, seen[c][r] + 1)

Create(c, r) ==
    /\ r \in Edited
    /\ pc[c] = "idle" /\ LoopFree(c)
    /\ version[r] = 0
    /\ r \in Devices => version[Parent[r]] > 0
    /\ Write(r, 1)
    /\ UNCHANGED client
-----------------------------------------------------------------------------
Init ==
    /\ version \in [Record -> {0, 1}]
    /\ \A d \in Devices : version[d] > 0 => version[Parent[d]] > 0
    /\ state = [s \in Set |-> "free"]
    /\ items = [s \in Set |-> {}]
    /\ base = [s \in Set |-> Nothing]
    /\ imported = [s \in Set |-> FALSE]
    /\ batch = "none"
    /\ staged = {}
    /\ rowBase = Nothing
    /\ errors = FALSE
    /\ disputed = {}
    /\ pc = [c \in Clients |-> "idle"]
    /\ subject = [c \in Clients |-> NoSet]
    /\ seen = [c \in Clients |-> Nothing]

ImportStep(c) ==
    \/ Upload(c) \/ CorrectLoad(c) \/ Correct(c)
    \/ ImportSubmitRead(c) \/ ImportSubmitCommit(c)

RecordStep(c, r) ==
    \/ SubmitLoad(c, r) \/ Submit(c, r)
    \/ EditLoad(c, r) \/ Edit(c, r) \/ Create(c, r)

ReviewStep(c) ==
    \/ \E s \in Set : DecideLoad(c, s) \/ ApplyRead(c, s)
    \/ \E d \in Decision : DecideCommit(c, d)
    \/ ApplyCommit(c)

Next ==
    \E c \in Clients :
        \/ ImportStep(c) \/ ReviewStep(c) \/ GiveUp(c)
        \/ \E r \in Record : RecordStep(c, r)

Spec == Init /\ [][Next]_vars
-----------------------------------------------------------------------------
TypeOK ==
    /\ version \in [Record -> Version]
    /\ state \in [Set -> SetStatus] /\ items \in [Set -> SUBSET Record]
    /\ base \in [Set -> [Record -> Version]] /\ imported \in [Set -> BOOLEAN]
    /\ batch \in BatchStatus /\ staged \in SUBSET Record
    /\ rowBase \in [Record -> Version] /\ errors \in BOOLEAN
    /\ disputed \in SUBSET Set
    /\ pc \in [Clients -> OnLoop \cup {"idle", "import", "apply"}]
    /\ subject \in [Clients -> Set \cup {NoSet}]
    /\ \A c \in Clients : pc[c] \in {"decide", "apply"} => subject[c] \in Set
    /\ seen \in [Clients -> [Record -> Version]]

(* A change set is applied only on top of the versions it was made from,   *)
(* so it never overwrites an update its applicant has not seen             *)
(* (product.md sections 2.1 and 2.3).                                      *)
AppliedOnItsBase ==
    [][\A s \in Set :
          state[s] # "applied" /\ state'[s] = "applied"
             => \A r \in items[s] : version[r] = base[s][r]]_vars

(* A verdict is final whatever runs beside it: once returned, rejected or  *)
(* applied, a change set keeps that status, and an approved one can only   *)
(* be applied.  The one way to overturn it is a second decision that had   *)
(* the set loaded, still undecided, while the first one was given.         *)
VerdictIsFinal ==
    [][\A s \in Set \ disputed' :
          /\ state[s] \in {"returned", "rejected", "applied"}
                => state'[s] = state[s]
          /\ state[s] = "approved" => state'[s] \in {"approved", "applied"}]_vars

(* A record has at most one pending application from the work lists, apart *)
(* from what overlapping decisions have brought back.                      *)
OneApplicationPerRecord ==
    \A r \in Record :
        Cardinality({s \in PendingFor(r) : ~imported[s]} \ disputed) <= 1

(* The batch is marked applied exactly when the last of its change sets    *)
(* is: neither earlier, nor is the mark missed when both domains are       *)
(* applied at the same time (product.md section 2.3).                      *)
BatchFollowsItsSets ==
    /\ batch = "applied" => AllApplied
    /\ Imported # {} /\ AllApplied => batch = "applied"

(* The ledger never holds a device without its service, whatever is        *)
(* imported, refused or applied in whatever order.                         *)
DeviceHasService ==
    \A d \in Devices : version[d] > 0 => version[Parent[d]] > 0
=============================================================================
