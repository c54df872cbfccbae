---------------------------- MODULE Notifications ----------------------------
(***************************************************************************)
(* The daily notifications: SchedulerService.tick runs the three scans of  *)
(* services/scans.py, which turn what is due into one call task per owner  *)
(* and day, while people change what is due through applications           *)
(* (services/change_requests.py), the review center and the ledger forms.  *)
(*                                                                         *)
(* Time is counted in slots: a slot is a minute some schedule may match.   *)
(* A tick may miss a slot or run twice in it.  A scan reads in one step    *)
(* and writes in a later one: reads take no snapshot with the sqlite       *)
(* driver, the first insert takes the write lock until the commit.  Days   *)
(* are those of the default zone, which is also the one a schedule gets    *)
(* (models.py:83, config.py:88); a schedule that an administrator has      *)
(* moved to another zone is not modelled.                                  *)
(***************************************************************************)
EXTENDS Integers, Sequences, FiniteSets

CONSTANTS
    Service, Device,
    NPhones,        \* phone numbers of people, 1..NPhones; 0 is no number
    Reviewer,       \* numbers of the enabled users that may review
    SlotsPerDay, Days,
    MaxExpiry,      \* last day an agreement may end on
    DefaultLead,    \* DEFAULT_LEAD_DAYS
    Leads,          \* values of lead_days an administrator chooses from
    Cron,           \* for each scan, the slots of the day it matches
    Ledgers,        \* what the ledger may hold at first
    MaxActs,        \* bound: submissions, edits and switches by people
    Faults, MaxFaults  \* kinds of fault, and how many

DueRenewal == "due_renewal"
DeviceRecycle == "device_recycle"
ReviewStuck == "review_stuck"
Scans == <<DueRenewal, DeviceRecycle, ReviewStuck>>   \* by created_at, id
Scan == {Scans[i] : i \in 1..3}
Phone == 1..NPhones
NoPhone == 0
Slot == 0..(SlotsPerDay * Days - 1)
Day == 0..(Days - 1)
Expiry == 0..MaxExpiry

ServiceRow == [expiry : Expiry, owner : Phone \cup {NoPhone}, retired : BOOLEAN]
DeviceRow  == [service : Service, phone : Phone \cup {NoPhone}, recovered : BOOLEAN]

ASSUME NotificationsAssumption ==
    /\ Service \cap Device = {} /\ IsFiniteSet(Service) /\ IsFiniteSet(Device)
    /\ NPhones \in Nat \ {0} /\ Reviewer \subseteq Phone
    /\ SlotsPerDay \in Nat \ {0} /\ Days \in Nat \ {0}
    /\ MaxExpiry \in Nat /\ DefaultLead \in Nat /\ Leads \subseteq Nat
    /\ DefaultLead \in Leads
    /\ \A first \in Ledgers : /\ first.services \in [Service -> ServiceRow]
                             /\ first.devices \in [Device -> DeviceRow]
    /\ Cron \in [Scan -> SUBSET (0..(SlotsPerDay - 1))]
    /\ Faults \subseteq {"scan", "commit", "handler", "crash", "speech"}
    /\ MaxActs \in Nat /\ MaxFaults \in Nat

VARIABLES
    now,          \* the clock, a slot
    services,     \* BusinessService: expiry day, account manager, 退网 label
    devices,      \* NetworkDevice: its service, maintenance phone, recovered
    application,  \* the pending ChangeSet of a record, or NoApplication
    schedules,    \* ScanSchedule: enabled, lead_days, last_error set or empty
    scheduler,    \* AppSetting scheduler_enabled
    tasks,        \* CallTask rows of the scans with their Script
    files,        \* data/audio: name and spoken text
    tick,         \* the running tick: its time, positions in Scans, lead_days
    plan,         \* what the running scan has read: a group per owner
    owed,         \* history: matching schedules this tick has yet to run
    failed,       \* history: the last attempt of a scan failed
    acts, faults

ledger == <<services, devices, application>>
config == <<schedules, scheduler>>
rows   == <<tasks, files>>
ticking == <<tick, plan, owed, failed>>
vars == <<now, ledger, config, rows, ticking, acts, faults>>

NoApplication == [status |-> "none"]
NoPlan == [read |-> FALSE, groups |-> {}]
Idle == [at |-> 0, todo |-> {}, lead |-> 0]

Today == now \div SlotsPerDay
-----------------------------------------------------------------------------
(* What is due.  A service without an end date behaves as one that ends    *)
(* after the last day; is_active is true of every row the program writes.  *)

IsRetired(s, day) == services[s].retired \/ services[s].expiry < day

(* The window of the scan, and the phones it has called today. *)
InWindow(s, day, lead) == services[s].expiry \in day..(day + lead)
Notified(scan, day) ==
    {t.phone : t \in {u \in tasks : u.source = scan /\ u.day = day}}

Group(items, phone(_)) ==
    {[phone |-> p, targets |-> {i \in items : phone(i) = p}] :
        p \in {phone(i) : i \in items} \ {NoPhone}}

DueGroups(day, lead) ==
    Group({s \in Service : InWindow(s, day, lead)}, LAMBDA s : services[s].owner)

RecycleGroups(day) ==
    Group({d \in Device : IsRetired(devices[d].service, day) /\ ~devices[d].recovered},
          LAMBDA d : devices[d].phone)

(* Only a change set with an item of an existing business counts. *)
StuckGroups ==
    LET stuck == {s \in Service : application[s].status = "submitted"} IN
    IF stuck = {} THEN {} ELSE {[phone |-> p, targets |-> stuck] : p \in Reviewer}

Groups(scan, day, lead) ==
    CASE scan = DueRenewal    -> DueGroups(day, lead)
      [] scan = DeviceRecycle -> RecycleGroups(day)
      [] scan = ReviewStuck   -> StuckGroups

(* mutant *)
GroupsAgain(scan, day, lead) == Groups(scan, day, lead)

FreshGroups(scan, day, lead) ==
    {g \in Groups(scan, day, lead) : g.phone \notin Notified(scan, day)}
-----------------------------------------------------------------------------
(* The tick. *)

Quiet == UNCHANGED <<ledger, acts>>

(* A tick reads the enabled schedules once and runs them in the order of   *)
(* Scans; the first one keeps the lead_days it was read with, the others   *)
(* have none.                                                              *)
ToRun == IF scheduler THEN {i \in DOMAIN Scans : schedules[Scans[i]].enabled} ELSE {}

StartTick ==
    /\ tick = Idle
    /\ IF ToRun = {} THEN UNCHANGED <<tick, owed>>
       ELSE /\ tick' = [at |-> now, todo |-> ToRun, lead |-> schedules[DueRenewal].lead]
            /\ owed' = {t \in Scan : schedules[t].enabled
                                     /\ now % SlotsPerDay \in Cron[t]}
    /\ UNCHANGED <<now, config, rows, plan, failed, faults>> /\ Quiet

Turn == CHOOSE i \in tick.todo : \A j \in tick.todo : i <= j
Current == Scans[Turn]
Matches == tick.at % SlotsPerDay \in Cron[Current]
Proceeds ==
    tick' = IF tick.todo = {Turn} THEN Idle ELSE [tick EXCEPT !.todo = @ \ {Turn}]
Breaks == tick' = Idle

(* cron_matches_now looks at the minute of the tick only. *)
NotDue ==
    /\ tick # Idle /\ ~plan.read /\ ~Matches
    /\ Proceeds
    /\ UNCHANGED <<now, config, rows, plan, owed, failed, faults>> /\ Quiet

ScanRead ==
    /\ tick # Idle /\ ~plan.read /\ Matches
    /\ plan' = [read |-> TRUE, groups |-> FreshGroups(Current, Today, tick.lead)]
    /\ UNCHANGED <<now, config, rows, tick, owed, failed, faults>> /\ Quiet

(* Script rows are numbered on: an id that was rolled back is used again.  *)
(* The audio of a script is named by its id and its text, and is reused    *)
(* when there is a file of that name.                                      *)
ScriptId(g) ==
    Cardinality(tasks) + Cardinality({h \in plan.groups : h.phone <= g.phone})
Body(g) == [scan |-> Current, to |-> g.phone, list |-> g.targets]

(* mutant *)
AudioOfId(id, body) == [id |-> id]

AudioName(id, body) == [id |-> id, digest |-> body]
NoAudio == [id |-> 0]

Task(g, spoken) ==
    [source |-> Current, day |-> Today, phone |-> g.phone, targets |-> g.targets,
     script |-> Body(g),
     audio |-> IF spoken THEN AudioName(ScriptId(g), Body(g)) ELSE NoAudio]
NewTasks(spoken) == {Task(g, spoken) : g \in plan.groups}

InstallAudio(ts) ==
    files' = files \cup
        {[name |-> t.audio, says |-> t.script] :
            t \in {u \in ts : /\ u.audio # NoAudio
                              /\ \A f \in files : f.name # u.audio}}

EndsScan == plan' = NoPlan /\ owed' = owed \ {Current}
Records(t, error, enabled) ==
    schedules' = [schedules EXCEPT ![t] = [@ EXCEPT !.error = error, !.enabled = enabled]]
Reports(error) == Records(Current, error, schedules[Current].enabled)

Fault(kind) ==
    /\ kind \in Faults /\ faults < MaxFaults
    /\ faults' = faults + 1

Commits(spoken) ==
    /\ plan.read
    /\ tasks' = tasks \cup NewTasks(spoken)
    /\ InstallAudio(NewTasks(spoken))
    /\ Reports(FALSE)
    /\ failed' = [failed EXCEPT ![Current] = FALSE]
    /\ EndsScan /\ Proceeds
    /\ UNCHANGED <<now, scheduler>> /\ Quiet

ScanCommit == Commits(TRUE) /\ UNCHANGED faults

(* Speech synthesis fails; the tasks are queued all the same. *)
ScanCommitMute == Commits(FALSE) /\ Fault("speech")

(* The scan raises: run_scan_for_schedule rolls back, stores the error and *)
(* returns 0, which the tick takes for a success.                          *)
ScanRaises ==
    /\ plan.read /\ Fault("scan")
    /\ Reports(FALSE)
    /\ failed' = [failed EXCEPT ![Current] = TRUE]
    /\ EndsScan /\ Proceeds
    /\ UNCHANGED <<now, scheduler, rows>> /\ Quiet

(* mutant *)
CommitFailsAndBreaks ==
    /\ plan.read /\ Fault("commit")
    /\ InstallAudio(NewTasks(TRUE))
    /\ Reports(TRUE)
    /\ failed' = [failed EXCEPT ![Current] = TRUE]
    /\ EndsScan /\ Breaks
    /\ UNCHANGED <<now, scheduler, tasks>> /\ Quiet

(* The commit of the tick fails: the rows are rolled back, the audio files *)
(* stay; the handler stores the error with a commit of its own.            *)
CommitFails ==
    /\ plan.read /\ Fault("commit")
    /\ InstallAudio(NewTasks(TRUE))
    /\ Reports(TRUE)
    /\ failed' = [failed EXCEPT ![Current] = TRUE]
    /\ EndsScan /\ Proceeds
    /\ UNCHANGED <<now, scheduler, tasks>> /\ Quiet

(* That commit fails too: the exception leaves tick, and the schedules     *)
(* still to go are not run.                                                *)
HandlerFails ==
    /\ plan.read /\ Fault("handler")
    /\ InstallAudio(NewTasks(TRUE))
    /\ failed' = [failed EXCEPT ![Current] = TRUE]
    /\ plan' = NoPlan /\ owed' = {} /\ Breaks
    /\ UNCHANGED <<now, config, tasks>> /\ Quiet

(* The process dies and is started again. *)
Crash ==
    /\ tick # Idle /\ Fault("crash")
    /\ plan' = NoPlan /\ owed' = {} /\ Breaks
    /\ UNCHANGED <<now, config, rows, failed>> /\ Quiet

Passes ==
    /\ now + 1 \in Slot
    /\ now' = now + 1
    /\ UNCHANGED <<config, rows, ticking, faults>> /\ Quiet
-----------------------------------------------------------------------------
(* People.  A patch is a full snapshot of the record with the change in it *)
(* (business_snapshot_patch, device_snapshot_patch); fresh says that the   *)
(* record still has the base_version of the application.                   *)

Acts == acts < MaxActs /\ acts' = acts + 1
Elsewhere == UNCHANGED <<now, rows, ticking, faults>>

Pending(r) == application[r].status \in {"submitted", "approved"}

Files(r, patch) ==
    /\ ~Pending(r)
    /\ application' = [application EXCEPT ![r] =
          [status |-> "submitted", patch |-> patch, fresh |-> TRUE]]
    /\ UNCHANGED <<services, devices, config>>

SubmitRenewal(s) ==
    \E end \in {e \in Expiry : e > Today} :
        Files(s, [services[s] EXCEPT !.expiry = end])
SubmitRetirement(s) == Files(s, [services[s] EXCEPT !.retired = TRUE])
SubmitRecovery(d) ==
    ~devices[d].recovered /\ Files(d, [devices[d] EXCEPT !.recovered = TRUE])

(* mutant *)
DecideAndKeep(r) ==
    /\ application[r].status = "submitted"
    /\ \E verdict \in {"approved", "returned", "rejected"} :
         application' = [application EXCEPT ![r].status = verdict]
    /\ UNCHANGED <<services, devices, config, acts>>

(* review_decision; a set that is returned or rejected is pending no more. *)
Decide(r) ==
    /\ application[r].status = "submitted"
    /\ \/ application' = [application EXCEPT ![r].status = "approved"]
       \/ application' = [application EXCEPT ![r] = NoApplication]
    /\ UNCHANGED <<services, devices, config, acts>>

(* A patch on another version is refused: the set stays approved. *)
Apply(r) ==
    /\ application[r].status = "approved" /\ application[r].fresh
    /\ IF r \in Service
       THEN /\ services' = [services EXCEPT ![r] = application[r].patch]
            /\ UNCHANGED devices
       ELSE /\ devices' = [devices EXCEPT ![r] = application[r].patch]
            /\ UNCHANGED services
    /\ application' = [application EXCEPT ![r] = NoApplication]
    /\ UNCHANGED <<config, acts>>

NewVersion(r) ==
    application' = IF Pending(r) THEN [application EXCEPT ![r].fresh = FALSE]
                   ELSE application

(* The ledger forms write every field; one that differs at a time is tried. *)
OneChange(new, old) == Cardinality({f \in DOMAIN old : new[f] # old[f]}) = 1

EditService(s) ==
    /\ \E row \in ServiceRow : /\ OneChange(row, services[s])
                               /\ services' = [services EXCEPT ![s] = row]
    /\ NewVersion(s)
    /\ UNCHANGED <<devices, config>>

EditDevice(d) ==
    /\ \E row \in DeviceRow : /\ OneChange(row, devices[d])
                              /\ devices' = [devices EXCEPT ![d] = row]
    /\ NewVersion(d)
    /\ UNCHANGED <<services, config>>

(* lead_days is kept for the due renewals only. *)
EditSchedule(t) ==
    /\ \E enabled \in BOOLEAN, lead \in Leads :
         schedules' = [schedules EXCEPT ![t] =
             [@ EXCEPT !.enabled = enabled,
                       !.lead = IF t = DueRenewal THEN lead ELSE schedules[t].lead]]
    /\ UNCHANGED <<scheduler, ledger>>

ToggleSchedule(t) ==
    /\ Records(t, schedules[t].error, ~schedules[t].enabled)
    /\ UNCHANGED <<scheduler, ledger>>

ToggleScheduler ==
    /\ scheduler' = ~scheduler
    /\ UNCHANGED <<schedules, ledger>>

Acting ==
    \/ \E s \in Service : SubmitRenewal(s) \/ SubmitRetirement(s) \/ EditService(s)
    \/ \E d \in Device : SubmitRecovery(d) \/ EditDevice(d)
    \/ \E t \in Scan : EditSchedule(t) \/ ToggleSchedule(t)
    \/ ToggleScheduler

People ==
    /\ \/ Acting /\ Acts
       \/ \E r \in Service \cup Device : Decide(r) \/ Apply(r)
    /\ Elsewhere

Ticks == StartTick \/ NotDue \/ ScanRead \/ ScanCommit
Fails == ScanCommitMute \/ ScanRaises \/ CommitFails \/ HandlerFails \/ Crash

Init ==
    /\ now = 0
    /\ \E first \in Ledgers : services = first.services /\ devices = first.devices
    /\ application = [r \in Service \cup Device |-> NoApplication]
    /\ schedules = [t \in Scan |-> [enabled |-> TRUE, lead |-> DefaultLead, error |-> FALSE]]
    /\ scheduler = TRUE
    /\ tasks = {} /\ files = {}
    /\ tick = Idle /\ plan = NoPlan /\ owed = {}
    /\ failed = [t \in Scan |-> FALSE]
    /\ acts = 0 /\ faults = 0

Next == Ticks \/ Fails \/ Passes \/ People

Spec == Init /\ [][Next]_vars
-----------------------------------------------------------------------------
(* Every variable has its type, and a scan has read only inside a tick. *)
TypeOK ==
    /\ now \in Slot
    /\ services \in [Service -> ServiceRow]
    /\ devices \in [Device -> DeviceRow]
    /\ \A r \in Service \cup Device :
         application[r] # NoApplication =>
            /\ application[r].status \in {"submitted", "approved"}
            /\ application[r].fresh \in BOOLEAN
            /\ application[r].patch \in ServiceRow \cup DeviceRow
    /\ schedules \in [Scan -> [enabled : BOOLEAN, lead : Leads, error : BOOLEAN]]
    /\ scheduler \in BOOLEAN
    /\ tick.todo \subseteq DOMAIN Scans /\ tick.at \in Slot
    /\ plan # NoPlan => tick # Idle
    /\ owed \subseteq Scan /\ failed \in [Scan -> BOOLEAN]
    /\ acts \in 0..MaxActs /\ faults \in 0..MaxFaults

(* An owner gets at most one call task of a scan per day, whatever the     *)
(* ticks of the day, their failures and the changes in between: docs       *)
(* product.md section 2.2, scans._existing_owner_phones.                   *)
OneTaskPerOwnerDay ==
    \A t, u \in tasks :
        t.source = u.source /\ t.day = u.day /\ t.phone = u.phone => t = u

(* The recording of a task says the text of that task, although the ids of *)
(* rolled back scripts are used again and files outlive the rollback.      *)
AudioSaysTheTask ==
    \A t \in tasks :
        t.audio # NoAudio =>
            /\ \E f \in files : f.name = t.audio
            /\ \A f \in files : f.name = t.audio => f.says = t.script

(* A failing scan does not keep the other scans of its tick from running:  *)
(* when a tick is over, each schedule that matched has been attempted,     *)
(* unless the process died or the error itself could not be stored.        *)
OthersStillRun == tick = Idle => owed = {}

(* A service that is retired is no longer announced as due: docs           *)
(* product.md section 2.2 and the head of change_requests.py.  Not so: the *)
(* due renewal scan does not look at the status.                           *)
RetiredLeftAlone ==
    [][~plan.read /\ plan'.read /\ Current = DueRenewal =>
         \A g \in plan'.groups : \A s \in g.targets : ~services[s].retired]_vars

(* The error of a scan is to be seen until the scan has succeeded again:   *)
(* test_scheduler_flow.py promises so.  Not so for an error inside the     *)
(* scan, which the tick empties at once.                                   *)
ErrorStaysVisible == \A t \in Scan : failed[t] => schedules[t].error
=============================================================================
