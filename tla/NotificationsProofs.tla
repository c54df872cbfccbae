------------------------ MODULE NotificationsProofs ------------------------
(***************************************************************************)
(* Theorems about Notifications, for every ledger, every number of people, *)
(* days and slots, every cron table and every sequence of faults.          *)
(***************************************************************************)
EXTENDS Notifications, TLAPS

-----------------------------------------------------------------------------
(* The inductive invariant. *)

Filed(Row) == [status : {"submitted", "approved"}, patch : Row, fresh : BOOLEAN]
Application == {NoApplication} \cup Filed(ServiceRow) \cup Filed(DeviceRow)
Running == [at : Slot, todo : SUBSET DOMAIN Scans, lead : Leads]

LedgerTypes ==
    /\ services \in [Service -> ServiceRow]
    /\ devices \in [Device -> DeviceRow]
    /\ application \in [Service \cup Device -> Application]
    /\ \A s \in Service : application[s] \in {NoApplication} \cup Filed(ServiceRow)
    /\ \A d \in Device : application[d] \in {NoApplication} \cup Filed(DeviceRow)

ConfigTypes ==
    /\ schedules \in [Scan -> [enabled : BOOLEAN, lead : Leads, error : BOOLEAN]]
    /\ scheduler \in BOOLEAN

TickTypes ==
    /\ now \in Slot
    /\ tick = Idle \/ (tick \in Running /\ tick.todo # {})
    /\ plan = NoPlan \/ (plan.read = TRUE /\ tick # Idle)
    /\ owed \subseteq Scan /\ failed \in [Scan -> BOOLEAN]
    /\ acts \in 0..MaxActs /\ faults \in 0..MaxFaults

Types == LedgerTypes /\ ConfigTypes /\ TickTypes

(* What is owed is still to go, and matches the time of the tick. *)
OwedToGo ==
    /\ tick = Idle => owed = {}
    /\ \A t \in owed : /\ \E i \in tick.todo : t = Scans[i]
                       /\ tick.at % SlotsPerDay \in Cron[t]

(* What a scan has read names each owner once, and no owner that has been  *)
(* called today: the clock may go on to another day before the commit, but *)
(* no other tick runs meanwhile.                                           *)
PlanIsFresh == plan.read =>
    /\ \A g, h \in plan.groups : g.phone = h.phone => g = h
    /\ \A t \in tasks : \A g \in plan.groups :
          t.source = Current /\ t.phone = g.phone => t.day < Today

TasksInThePast == \A t \in tasks : t.day \in Int /\ t.day <= Today

(* A file is named by the digest of what it says. *)
FilesSayTheirName == \A f \in files : f.name.digest = f.says

AudioOfTasks == \A t \in tasks : t.audio # NoAudio =>
    /\ t.audio.digest = t.script
    /\ \E f \in files : f.name = t.audio
-----------------------------------------------------------------------------
(* The clock, and the schedule whose turn it is. *)

LEMMA SlotsOfDays ==
  /\ 0 \in Slot /\ Slot \subseteq Nat
  /\ Scan = {DueRenewal, DeviceRecycle, ReviewStuck}
  /\ DOMAIN Scans = 1..3
<1>1. SlotsPerDay * Days >= 1
  BY NotificationsAssumption
<1> QED
  BY <1>1, NotificationsAssumption DEF Slot, Scan, Scans

LEMMA TurnsInOrder ==
  ASSUME tick \in Running, tick.todo # {}
  PROVE  Turn \in tick.todo /\ Current = Scans[Turn] /\ Current \in Scan
<1>1. tick.todo \subseteq 1..3
  BY SlotsOfDays DEF Running
<1>2. \E i \in tick.todo : \A j \in tick.todo : i <= j
  <2>1. CASE 1 \in tick.todo
    BY <1>1, <2>1
  <2>2. CASE 1 \notin tick.todo /\ 2 \in tick.todo
    BY <1>1, <2>2
  <2>3. CASE tick.todo = {3}
    BY <2>3
  <2> QED
    BY <1>1, <2>1, <2>2, <2>3
<1>3. Turn \in tick.todo
  BY <1>2 DEF Turn
<1> QED
  BY <1>1, <1>3 DEF Current, Scan

LEMMA ProceedsTypes ==
  ASSUME TickTypes, tick # Idle, Proceeds
  PROVE  tick' = Idle \/ (tick' \in Running /\ tick'.todo # {})
<1>1. Turn \in tick.todo
  BY TurnsInOrder DEF TickTypes
<1> QED
  BY <1>1 DEF TickTypes, Proceeds, Running

(* The day never goes back. *)
LEMMA DayGoesOn ==
  ASSUME now \in Slot
  PROVE  /\ Today \in Int
         /\ now' = now + 1 => Today' \in Int /\ Today <= Today'
<1>1. now \in Nat /\ SlotsPerDay \in Nat \ {0}
  BY SlotsOfDays, NotificationsAssumption
<1> QED
  BY <1>1 DEF Today
-----------------------------------------------------------------------------
(* Type correctness. *)

(* Starting, finishing and failing: what concerns a tick. *)
TickStep == Ticks \/ Fails

LEMMA TicksTyped ==
  ASSUME Types, TickStep
  PROVE  Types'
<1> USE DEF ledger, config, rows, ticking, Quiet, Types
<1>1. CASE StartTick
  <2>1. UNCHANGED <<ledger, config, now, plan, failed, acts, faults>>
    BY <1>1 DEF StartTick
  <2>2. CASE ToRun = {} /\ UNCHANGED <<tick, owed>>
    BY <2>1, <2>2 DEF LedgerTypes, ConfigTypes, TickTypes
  <2>3. CASE /\ ToRun # {}
             /\ tick' = [at |-> now, todo |-> ToRun, lead |-> schedules[DueRenewal].lead]
             /\ owed' \subseteq Scan
    <3>1. schedules[DueRenewal].lead \in Leads /\ ToRun \subseteq DOMAIN Scans
      BY SlotsOfDays DEF ConfigTypes, ToRun
    <3>2. tick' \in Running /\ tick'.todo # {}
      BY <2>3, <3>1 DEF Running, TickTypes
    <3>3. tick' # Idle
      BY <3>2 DEF Idle
    <3> QED
      BY <2>1, <2>3, <3>2, <3>3 DEF LedgerTypes, ConfigTypes, TickTypes
  <2> QED
    BY <1>1, <2>2, <2>3 DEF StartTick
<1>2. ASSUME tick # Idle, ~plan.read \/ plan' = NoPlan, Proceeds \/ Breaks,
             plan' = plan \/ plan' = NoPlan
      PROVE  /\ tick' = Idle \/ (tick' \in Running /\ tick'.todo # {})
             /\ plan' = NoPlan
  BY <1>2, ProceedsTypes DEF Breaks, TickTypes, NoPlan
<1>3. CASE NotDue
  BY <1>2, <1>3 DEF NotDue, LedgerTypes, ConfigTypes, TickTypes
<1>4. CASE ScanRead
  BY <1>4 DEF ScanRead, LedgerTypes, ConfigTypes, TickTypes
<1>5. ASSUME NEW error \in BOOLEAN, tick # Idle, Reports(error)
      PROVE  schedules' \in [Scan -> [enabled : BOOLEAN, lead : Leads, error : BOOLEAN]]
  <2>1. Current \in Scan
    BY <1>5, TurnsInOrder DEF TickTypes
  <2> QED
    BY <1>5, <2>1 DEF Reports, Records, ConfigTypes
<1>6. ASSUME NEW b \in BOOLEAN, tick # Idle, failed' = [failed EXCEPT ![Current] = b]
      PROVE  failed' \in [Scan -> BOOLEAN]
  <2>1. Current \in Scan
    BY <1>6, TurnsInOrder DEF TickTypes
  <2> QED
    BY <1>6, <2>1 DEF TickTypes
<1>7. ASSUME NEW kind, Fault(kind) PROVE faults' \in 0..MaxFaults
  BY <1>7, NotificationsAssumption DEF Fault, TickTypes
<1>8. plan.read => tick # Idle
  BY DEF TickTypes, NoPlan
<1>9. CASE ScanCommit \/ ScanCommitMute
  <2>1. PICK spoken \in BOOLEAN : Commits(spoken)
    BY <1>9 DEF ScanCommit, ScanCommitMute
  <2>2. /\ plan.read /\ Reports(FALSE) /\ failed' = [failed EXCEPT ![Current] = FALSE]
        /\ EndsScan /\ Proceeds /\ UNCHANGED <<now, scheduler, ledger, acts>>
    BY <2>1 DEF Commits
  <2>3. faults' \in 0..MaxFaults
    BY <1>7, <1>9 DEF ScanCommit, ScanCommitMute, TickTypes
  <2> QED
    BY <1>2, <1>5, <1>6, <1>8, <2>2, <2>3
       DEF EndsScan, LedgerTypes, ConfigTypes, TickTypes
<1>10. CASE ScanRaises
  BY <1>2, <1>5, <1>6, <1>7, <1>8, <1>10
     DEF ScanRaises, EndsScan, LedgerTypes, ConfigTypes, TickTypes
<1>11. CASE CommitFails
  BY <1>2, <1>5, <1>6, <1>7, <1>8, <1>11
     DEF CommitFails, EndsScan, LedgerTypes, ConfigTypes, TickTypes
<1>12. CASE HandlerFails
  BY <1>2, <1>6, <1>7, <1>8, <1>12
     DEF HandlerFails, LedgerTypes, ConfigTypes, TickTypes
<1>13. CASE Crash
  BY <1>2, <1>7, <1>13 DEF Crash, LedgerTypes, ConfigTypes, TickTypes
<1> QED
  BY <1>1, <1>3, <1>4, <1>9, <1>10, <1>11, <1>12, <1>13 DEF TickStep, Ticks, Fails

(* An application is replaced by one of the same record. *)
ApplicationTypes ==
    /\ application \in [Service \cup Device -> Application]
    /\ \A s \in Service : application[s] \in {NoApplication} \cup Filed(ServiceRow)
    /\ \A d \in Device : application[d] \in {NoApplication} \cup Filed(DeviceRow)

LEMMA ApplicationReplaced ==
  ASSUME LedgerTypes, NEW r \in Service \cup Device, NEW x \in Application,
         r \in Service => x \in {NoApplication} \cup Filed(ServiceRow),
         r \in Device => x \in {NoApplication} \cup Filed(DeviceRow),
         application' = [application EXCEPT ![r] = x]
  PROVE  ApplicationTypes'
BY DEF LedgerTypes, ApplicationTypes

LEMMA FilesTyped ==
  ASSUME LedgerTypes, NEW r \in Service \cup Device, NEW patch, Files(r, patch),
         \/ r \in Service /\ patch \in ServiceRow
         \/ r \in Device /\ patch \in DeviceRow
  PROVE  LedgerTypes'
<1> DEFINE new == [status |-> "submitted", patch |-> patch, fresh |-> TRUE]
<1>1. application' = [application EXCEPT ![r] = new] /\ UNCHANGED <<services, devices>>
  BY DEF Files
<1>2. \/ r \in Service /\ new \in Filed(ServiceRow)
      \/ r \in Device /\ new \in Filed(DeviceRow)
  BY DEF Filed
<1>3. Service \cap Device = {}
  BY NotificationsAssumption
<1> HIDE DEF new
<1> QED
  BY <1>1, <1>2, <1>3, ApplicationReplaced DEF Application, LedgerTypes, ApplicationTypes

LEMMA ActingTyped ==
  ASSUME LedgerTypes, ConfigTypes, Acting
  PROVE  LedgerTypes' /\ ConfigTypes'
<1> USE DEF config, ledger
<1>0. Service \cap Device = {}
  BY NotificationsAssumption
<1>1. ASSUME NEW s \in Service, SubmitRenewal(s) \/ SubmitRetirement(s)
      PROVE  LedgerTypes' /\ ConfigTypes'
  <2>1. PICK patch \in ServiceRow : Files(s, patch)
    BY <1>1 DEF SubmitRenewal, SubmitRetirement, LedgerTypes, ServiceRow
  <2> QED
    BY <2>1, FilesTyped DEF Files, ConfigTypes
<1>2. ASSUME NEW d \in Device, SubmitRecovery(d)
      PROVE  LedgerTypes' /\ ConfigTypes'
  <2>1. PICK patch \in DeviceRow : Files(d, patch)
    BY <1>2 DEF SubmitRecovery, LedgerTypes, DeviceRow
  <2> QED
    BY <2>1, FilesTyped DEF Files, ConfigTypes
<1>3. ASSUME NEW r \in Service \cup Device, NewVersion(r)
      PROVE  ApplicationTypes'
  <2>1. CASE application' = application
    BY <2>1 DEF LedgerTypes, ApplicationTypes
  <2>2. CASE Pending(r) /\ application' = [application EXCEPT ![r].fresh = FALSE]
    <3>1. application[r] # NoApplication
      BY <2>2 DEF Pending, NoApplication
    <3>2. \A Row : application[r] \in Filed(Row) =>
             [application[r] EXCEPT !.fresh = FALSE] \in Filed(Row)
      BY DEF Filed
    <3>3. application' = [application EXCEPT ![r] = [application[r] EXCEPT !.fresh = FALSE]]
      BY <2>2
    <3> DEFINE older == [application[r] EXCEPT !.fresh = FALSE]
    <3>4. /\ older \in Application
          /\ r \in Service => older \in Filed(ServiceRow)
          /\ r \in Device => older \in Filed(DeviceRow)
      BY <3>1, <3>2 DEF LedgerTypes, Application
    <3> HIDE DEF older
    <3> QED
      BY <3>3, <3>4, ApplicationReplaced DEF older
  <2> QED
    BY <1>3, <2>1, <2>2 DEF NewVersion
<1>4. ASSUME NEW s \in Service, EditService(s)
      PROVE  LedgerTypes' /\ ConfigTypes'
  <2>1. services' \in [Service -> ServiceRow] /\ UNCHANGED <<devices, config>>
    BY <1>4 DEF EditService, LedgerTypes
  <2> QED
    BY <1>3, <1>4, <2>1 DEF EditService, LedgerTypes, ApplicationTypes, ConfigTypes
<1>5. ASSUME NEW d \in Device, EditDevice(d)
      PROVE  LedgerTypes' /\ ConfigTypes'
  <2>1. devices' \in [Device -> DeviceRow] /\ UNCHANGED <<services, config>>
    BY <1>5 DEF EditDevice, LedgerTypes
  <2> QED
    BY <1>3, <1>5, <2>1 DEF EditDevice, LedgerTypes, ApplicationTypes, ConfigTypes
<1>6. ASSUME NEW t \in Scan, EditSchedule(t) \/ ToggleSchedule(t)
      PROVE  LedgerTypes' /\ ConfigTypes'
  <2>1. schedules' \in [Scan -> [enabled : BOOLEAN, lead : Leads, error : BOOLEAN]]
    <3>1. CASE EditSchedule(t)
      BY <3>1 DEF EditSchedule, ConfigTypes
    <3>2. CASE ToggleSchedule(t)
      BY <3>2 DEF ToggleSchedule, Records, ConfigTypes
    <3> QED
      BY <1>6, <3>1, <3>2
  <2>2. UNCHANGED <<scheduler, ledger>>
    BY <1>6 DEF EditSchedule, ToggleSchedule
  <2> QED
    BY <2>1, <2>2 DEF LedgerTypes, ConfigTypes
<1>7. CASE ToggleScheduler
  BY <1>7 DEF ToggleScheduler, LedgerTypes, ConfigTypes
<1> QED
  BY <1>1, <1>2, <1>4, <1>5, <1>6, <1>7 DEF Acting

LEMMA DecisionsTyped ==
  ASSUME LedgerTypes, ConfigTypes, NEW r \in Service \cup Device, Decide(r) \/ Apply(r)
  PROVE  LedgerTypes' /\ ConfigTypes'
<1> USE DEF config
<1>0. Service \cap Device = {}
  BY NotificationsAssumption
<1>1. ConfigTypes'
  BY DEF Decide, Apply, ConfigTypes
<1>2. application[r] # NoApplication
  BY DEF Decide, Apply, NoApplication
<1>3. /\ r \in Service => application[r] \in Filed(ServiceRow)
      /\ r \in Device => application[r] \in Filed(DeviceRow)
  BY <1>2 DEF LedgerTypes
<1>4. CASE application' = [application EXCEPT ![r] = NoApplication]
           /\ UNCHANGED <<services, devices>>
  <2>1. ApplicationTypes'
    <3>1. NoApplication \in Application
      BY DEF Application
    <3> QED
      BY <1>4, <3>1, ApplicationReplaced
  <2> QED
    BY <1>1, <1>4, <2>1 DEF LedgerTypes, ApplicationTypes
<1>5. CASE application' = [application EXCEPT ![r].status = "approved"]
           /\ UNCHANGED <<services, devices>>
  <2> DEFINE new == [application[r] EXCEPT !.status = "approved"]
  <2>1. /\ r \in Service => new \in Filed(ServiceRow)
        /\ r \in Device => new \in Filed(DeviceRow)
    BY <1>3 DEF Filed
  <2>2. application' = [application EXCEPT ![r] = new]
    BY <1>5
  <2> HIDE DEF new
  <2> QED
    <3>1. new \in Application
      BY <2>1 DEF Application
    <3>2. ApplicationTypes'
      BY <2>1, <2>2, <3>1, ApplicationReplaced
    <3> QED
      BY <1>1, <1>5, <3>2 DEF LedgerTypes, ApplicationTypes
<1>6. CASE Apply(r)
  <2>1. /\ r \in Service => application[r].patch \in ServiceRow
        /\ r \in Device => application[r].patch \in DeviceRow
    BY <1>3 DEF Filed
  <2>2. application' = [application EXCEPT ![r] = NoApplication]
    BY <1>6 DEF Apply
  <2>3. services' \in [Service -> ServiceRow] /\ devices' \in [Device -> DeviceRow]
    BY <1>6, <2>1 DEF Apply, LedgerTypes
  <2> QED
    <3>1. NoApplication \in Application
      BY DEF Application
    <3>2. ApplicationTypes'
      BY <2>2, <3>1, ApplicationReplaced
    <3> QED
      BY <1>1, <2>3, <3>2 DEF LedgerTypes, ApplicationTypes
<1> QED
  BY <1>1, <1>4, <1>5, <1>6 DEF Decide

LEMMA TypesKept ==
  ASSUME Types, [Next]_vars
  PROVE  Types'
<1> USE DEF Types, ledger, config, rows, ticking
<1>1. CASE TickStep
  BY <1>1, TicksTyped
<1>2. CASE Passes
  BY <1>2 DEF Passes, Quiet, LedgerTypes, ConfigTypes, TickTypes
<1>3. CASE People
  <2>1. LedgerTypes' /\ ConfigTypes'
    BY <1>3, ActingTyped, DecisionsTyped DEF People
  <2>2. acts' \in 0..MaxActs
    BY <1>3, NotificationsAssumption DEF People, Acts, Decide, Apply, TickTypes
  <2>3. UNCHANGED <<now, tick, plan, owed, failed, faults>>
    BY <1>3 DEF People, Elsewhere
  <2> QED
    BY <2>1, <2>2, <2>3 DEF TickTypes
<1>4. CASE UNCHANGED vars
  BY <1>4 DEF vars, LedgerTypes, ConfigTypes, TickTypes
<1> QED
  BY <1>1, <1>2, <1>3, <1>4 DEF Next, TickStep

LEMMA TypesInit == Init => Types
<1> SUFFICES ASSUME Init PROVE Types
  OBVIOUS
<1>1. LedgerTypes
  BY NotificationsAssumption DEF Init, LedgerTypes, Application
<1>2. ConfigTypes
  BY NotificationsAssumption DEF Init, ConfigTypes
<1>3. TickTypes
  BY SlotsOfDays, NotificationsAssumption DEF Init, TickTypes
<1> QED
  BY <1>1, <1>2, <1>3 DEF Types

LEMMA TypesGiveTypeOK == Types => TypeOK
<1> SUFFICES ASSUME Types PROVE TypeOK
  OBVIOUS
<1>1. \A r \in Service \cup Device : application[r] # NoApplication =>
         /\ application[r].status \in {"submitted", "approved"}
         /\ application[r].fresh \in BOOLEAN
         /\ application[r].patch \in ServiceRow \cup DeviceRow
  BY DEF Types, LedgerTypes, Filed
<1>2. tick.todo \subseteq DOMAIN Scans /\ tick.at \in Slot
  BY SlotsOfDays DEF Types, TickTypes, Idle, Running
<1> QED
  BY <1>1, <1>2 DEF TypeOK, Types, LedgerTypes, ConfigTypes, TickTypes

LEMMA TypesAlways == Spec => []Types
BY TypesInit, TypesKept, PTL DEF Spec

(* Every variable keeps its type, and a scan has read only inside a tick:  *)
(* the type invariant of the scans, the ledger and the applications.       *)
THEOREM TypeCorrect == Spec => []TypeOK
BY TypesAlways, TypesGiveTypeOK, PTL
-----------------------------------------------------------------------------
(* Where a tick goes: each step of it keeps the plan or ends the scan of   *)
(* the schedule whose turn it is.                                          *)

LEMMA ReadMeansTick ==
  ASSUME Types, plan.read
  PROVE  /\ tick # Idle /\ tick \in Running /\ Turn \in tick.todo
         /\ Current = Scans[Turn]
BY TurnsInOrder DEF Types, TickTypes, NoPlan

LEMMA OwedKept ==
  ASSUME Types, OwedToGo, [Next]_vars
  PROVE  OwedToGo'
<1> USE DEF config, ticking, rows
<1>1. CASE StartTick
  <2>1. CASE UNCHANGED <<tick, owed>>
    BY <2>1 DEF OwedToGo
  <2>2. CASE /\ ToRun # {}
             /\ tick' = [at |-> now, todo |-> ToRun, lead |-> schedules[DueRenewal].lead]
             /\ owed' = {t \in Scan : schedules[t].enabled
                                      /\ now % SlotsPerDay \in Cron[t]}
    <3>1. CASE scheduler
      <4>1. ToRun = {i \in DOMAIN Scans : schedules[Scans[i]].enabled}
        BY <3>1 DEF ToRun
      <4>2. \A t \in owed' : \E i \in ToRun : t = Scans[i]
        BY <2>2, <4>1, SlotsOfDays DEF Scan
      <4>3. tick' # Idle
        BY <2>2 DEF Idle
      <4> QED
        BY <2>2, <4>2, <4>3 DEF OwedToGo
    <3>2. CASE ~scheduler
      BY <2>2, <3>2 DEF ToRun
    <3> QED
      BY <3>1, <3>2
  <2> QED
    BY <1>1, <2>1, <2>2 DEF StartTick
<1>2. ASSUME tick # Idle, Proceeds,
             owed' = owed \ {Current} \/ (owed' = owed /\ Current \notin owed)
      PROVE  OwedToGo'
  <2>1. tick \in Running /\ Turn \in tick.todo /\ Current = Scans[Turn]
    BY <1>2, TurnsInOrder DEF Types, TickTypes
  <2>2. CASE tick.todo = {Turn}
    BY <1>2, <2>1, <2>2 DEF OwedToGo, Proceeds, Idle
  <2>3. CASE tick.todo # {Turn}
    <3>1. tick' = [tick EXCEPT !.todo = @ \ {Turn}]
      BY <1>2, <2>3 DEF Proceeds
    <3>2. tick'.todo = tick.todo \ {Turn} /\ tick'.at = tick.at /\ tick' # Idle
      BY <2>1, <2>3, <3>1 DEF Running, Idle
    <3> QED
      BY <1>2, <2>1, <3>2 DEF OwedToGo
  <2> QED
    BY <2>2, <2>3
<1>3. CASE NotDue
  <2>1. tick # Idle /\ Proceeds /\ owed' = owed /\ Current \notin owed
    BY <1>3 DEF NotDue, Matches, OwedToGo
  <2> QED
    BY <1>2, <2>1
<1>4. CASE plan.read /\ EndsScan /\ Proceeds
  BY <1>2, <1>4, ReadMeansTick DEF EndsScan
<1>5. CASE Breaks /\ owed' = {}
  BY <1>5 DEF Breaks, OwedToGo
<1>6. CASE UNCHANGED <<tick, owed>>
  BY <1>6 DEF OwedToGo
<1> QED
  BY <1>1, <1>3, <1>4, <1>5, <1>6
     DEF Next, Ticks, Fails, ScanRead, ScanCommit, ScanCommitMute, Commits,
         ScanRaises, CommitFails, HandlerFails, Crash, Passes, People, Elsewhere, vars

LEMMA OwedAlways == Spec => []OwedToGo
<1>1. Init => OwedToGo
  BY DEF Init, OwedToGo
<1> QED
  BY <1>1, OwedKept, TypesAlways, PTL DEF Spec

(* A failing scan keeps no other scan of its tick from running: when a     *)
(* tick is over, each schedule that matched has been attempted, unless the *)
(* process died or the error could not be stored.                          *)
THEOREM OthersRun == Spec => []OthersStillRun
<1>1. OwedToGo => OthersStillRun
  BY DEF OwedToGo, OthersStillRun
<1> QED
  BY <1>1, OwedAlways, PTL
-----------------------------------------------------------------------------
(* Tasks and recordings. *)

(* The groups of a scan name each owner once. *)
LEMMA GroupsHaveOneOwner ==
  ASSUME NEW scan \in Scan, NEW day, NEW lead,
         NEW g \in Groups(scan, day, lead), NEW h \in Groups(scan, day, lead),
         g.phone = h.phone
  PROVE  g = h
<1>0. scan \in {DueRenewal, DeviceRecycle, ReviewStuck}
  BY SlotsOfDays
<1> USE DEF DueRenewal, DeviceRecycle, ReviewStuck
<1>1. CASE scan = DueRenewal
  <2>1. Groups(scan, day, lead) = DueGroups(day, lead)
    BY <1>1 DEF Groups
  <2> DEFINE due == {s \in Service : InWindow(s, day, lead)}
  <2>2. DueGroups(day, lead) =
          {[phone |-> p, targets |-> {i \in due : services[i].owner = p}] :
             p \in {services[i].owner : i \in due} \ {NoPhone}}
    BY DEF DueGroups, Group
  <2> HIDE DEF due
  <2>3. \A x \in DueGroups(day, lead) :
          x = [phone |-> x.phone, targets |-> {i \in due : services[i].owner = x.phone}]
    BY <2>2
  <2> QED
    BY <2>1, <2>3
<1>2. CASE scan = DeviceRecycle
  BY <1>2 DEF Groups, RecycleGroups, Group
<1>3. CASE scan = ReviewStuck
  <2>1. Groups(scan, day, lead) = StuckGroups
    BY <1>3 DEF Groups
  <2> DEFINE stuck == {s \in Service : application[s].status = "submitted"}
  <2>2. StuckGroups \subseteq {[phone |-> p, targets |-> stuck] : p \in Reviewer}
    BY DEF StuckGroups
  <2> HIDE DEF stuck
  <2> QED
    BY <2>1, <2>2
<1> QED
  BY <1>0, <1>1, <1>2, <1>3

LEMMA FreshIsFresh ==
  ASSUME Types, TasksInThePast, ScanRead
  PROVE  PlanIsFresh'
<1>1. tick # Idle /\ UNCHANGED <<now, tasks, tick>>
      /\ plan' = [read |-> TRUE, groups |-> FreshGroups(Current, Today, tick.lead)]
  BY DEF ScanRead, rows
<1>2. Current \in Scan
  BY <1>1, TurnsInOrder DEF Types, TickTypes
<1>3. Current' = Current /\ Today' = Today
  BY <1>1 DEF Current, Turn, Today
<1>4. \A g, h \in plan'.groups : g.phone = h.phone => g = h
  BY <1>1, <1>2, GroupsHaveOneOwner DEF FreshGroups
<1>5. ASSUME NEW t \in tasks, NEW g \in plan'.groups, t.source = Current, t.phone = g.phone
      PROVE  t.day < Today
  <2>1. g.phone \notin Notified(Current, Today)
    BY <1>1 DEF FreshGroups
  <2>2. t.day # Today
    BY <1>5, <2>1 DEF Notified
  <2> QED
    BY <2>2, DayGoesOn DEF TasksInThePast, Types, TickTypes
<1> QED
  BY <1>1, <1>3, <1>4, <1>5 DEF PlanIsFresh

(* The tasks of a commit are of today, and of owners not called today. *)
LEMMA CommitIsFresh ==
  ASSUME Types, TasksInThePast, PlanIsFresh, OneTaskPerOwnerDay,
         NEW spoken \in BOOLEAN, Commits(spoken)
  PROVE  TasksInThePast' /\ OneTaskPerOwnerDay'
<1>1. plan.read /\ tasks' = tasks \cup NewTasks(spoken) /\ now' = now
  BY DEF Commits
<1>2. Today' = Today /\ Today \in Int
  BY <1>1, DayGoesOn DEF Today, Types, TickTypes
<1>3. \A t \in NewTasks(spoken) : \E g \in plan.groups :
         /\ t = Task(g, spoken)
         /\ t.source = Current /\ t.day = Today /\ t.phone = g.phone
  BY DEF NewTasks, Task
<1>4. \A t, u \in NewTasks(spoken) : t.phone = u.phone => t = u
  BY <1>1, <1>3 DEF PlanIsFresh
<1>5. \A t \in NewTasks(spoken) : \A u \in tasks :
         ~(t.source = u.source /\ t.day = u.day /\ t.phone = u.phone)
  BY <1>1, <1>2, <1>3 DEF PlanIsFresh, TasksInThePast
<1> QED
  BY <1>1, <1>2, <1>3, <1>4, <1>5 DEF TasksInThePast, OneTaskPerOwnerDay

Calls == TasksInThePast /\ PlanIsFresh /\ OneTaskPerOwnerDay

LEMMA CallsKept ==
  ASSUME Types, Calls, [Next]_vars
  PROVE  Calls'
<1> USE DEF config, ticking, rows
<1>1. CASE ScanCommit \/ ScanCommitMute
  <2>1. PICK spoken \in BOOLEAN : Commits(spoken)
    BY <1>1 DEF ScanCommit, ScanCommitMute
  <2>2. ~plan'.read
    BY <2>1 DEF Commits, EndsScan, NoPlan
  <2> QED
    BY <2>1, <2>2, CommitIsFresh DEF Calls, PlanIsFresh
<1>2. CASE ScanRead
  <2>1. UNCHANGED <<now, tasks>>
    BY <1>2 DEF ScanRead
  <2> QED
    BY <1>2, <2>1, FreshIsFresh DEF Calls, TasksInThePast, OneTaskPerOwnerDay, Today
<1>3. CASE UNCHANGED <<now, tasks>> /\ (plan' = NoPlan \/ (~plan.read /\ plan' = plan))
  BY <1>3 DEF Calls, TasksInThePast, PlanIsFresh, OneTaskPerOwnerDay, Today, NoPlan
<1>4. CASE UNCHANGED <<tasks, plan, tick>> /\ now' \in {now, now + 1}
  <2>1. Today \in Int /\ Today' \in Int /\ Today <= Today'
    BY <1>4, DayGoesOn DEF Types, TickTypes, Today
  <2>2. Current' = Current
    BY <1>4 DEF Current, Turn
  <2>3. TasksInThePast'
    BY <1>4, <2>1 DEF Calls, TasksInThePast
  <2>4. PlanIsFresh'
    BY <1>4, <2>1, <2>2 DEF Calls, TasksInThePast, PlanIsFresh
  <2> QED
    BY <1>4, <2>3, <2>4 DEF Calls, OneTaskPerOwnerDay
<1>5. tick = Idle => ~plan.read
  BY ReadMeansTick
<1> QED
  BY <1>1, <1>2, <1>3, <1>4, <1>5
     DEF Next, Ticks, Fails, StartTick, NotDue, EndsScan, ScanRaises, CommitFails,
         HandlerFails, Crash, Passes, People, Elsewhere, vars

LEMMA CallsAlways == Spec => []Calls
<1>1. Init => Calls
  BY DEF Init, Calls, TasksInThePast, PlanIsFresh, OneTaskPerOwnerDay, NoPlan
<1> QED
  BY <1>1, CallsKept, TypesAlways, PTL DEF Spec

(* An owner gets at most one call task of a scan per day, whatever the     *)
(* ticks of the day, their failures, crashes and the changes in between,   *)
(* and although a commit may fall on the day after the reading.            *)
THEOREM OneCallADay == Spec => []OneTaskPerOwnerDay
<1>1. Calls => OneTaskPerOwnerDay
  BY DEF Calls
<1> QED
  BY <1>1, CallsAlways, PTL

Recordings == FilesSayTheirName /\ AudioOfTasks

LEMMA InstallSpeaks ==
  ASSUME Recordings, NEW spoken \in BOOLEAN, InstallAudio(NewTasks(spoken))
  PROVE  /\ FilesSayTheirName'
         /\ files \subseteq files'
         /\ \A t \in NewTasks(spoken) : t.audio # NoAudio =>
               t.audio.digest = t.script /\ \E f \in files' : f.name = t.audio
<1>1. \A t \in NewTasks(spoken) : t.audio # NoAudio => t.audio.digest = t.script
  BY DEF NewTasks, Task, AudioName
<1>2. files \subseteq files'
  BY DEF InstallAudio
<1>3. \A f \in files' \ files : \E t \in NewTasks(spoken) :
         t.audio # NoAudio /\ f.name = t.audio /\ f.says = t.script
  BY DEF InstallAudio
<1>4. ASSUME NEW t \in NewTasks(spoken), t.audio # NoAudio
      PROVE  \E f \in files' : f.name = t.audio
  <2>1. CASE \E f \in files : f.name = t.audio
    BY <1>2, <2>1
  <2>2. CASE \A f \in files : f.name # t.audio
    <3>1. [name |-> t.audio, says |-> t.script] \in files'
      BY <1>4, <2>2 DEF InstallAudio
    <3> QED
      BY <3>1
  <2> QED
    BY <2>1, <2>2
<1> QED
  BY <1>1, <1>2, <1>3, <1>4 DEF Recordings, FilesSayTheirName

LEMMA RecordingsKept ==
  ASSUME Recordings, [Next]_vars
  PROVE  Recordings'
<1> USE DEF config, ticking, rows
<1>1. CASE ScanCommit \/ ScanCommitMute
  <2>1. PICK spoken \in BOOLEAN : Commits(spoken)
    BY <1>1 DEF ScanCommit, ScanCommitMute
  <2> QED
    BY <2>1, InstallSpeaks DEF Commits, Recordings, AudioOfTasks
<1>2. CASE InstallAudio(NewTasks(TRUE)) /\ UNCHANGED tasks
  BY <1>2, InstallSpeaks DEF Recordings, AudioOfTasks
<1>3. CASE UNCHANGED <<tasks, files>>
  BY <1>3 DEF Recordings, AudioOfTasks, FilesSayTheirName
<1> QED
  BY <1>1, <1>2, <1>3
     DEF Next, Ticks, Fails, StartTick, NotDue, ScanRead, ScanRaises, CommitFails,
         HandlerFails, Crash, Passes, People, Elsewhere, vars

(* The recording of a task says the text of that task, although the ids of *)
(* rolled back scripts are given away again and their files outlive them.  *)
THEOREM AudioIsRight == Spec => []AudioSaysTheTask
<1>1. Init => Recordings
  BY DEF Init, Recordings, FilesSayTheirName, AudioOfTasks
<1>2. Recordings => AudioSaysTheTask
  BY DEF Recordings, FilesSayTheirName, AudioOfTasks, AudioSaysTheTask
<1> QED
  BY <1>1, <1>2, RecordingsKept, PTL DEF Spec
=============================================================================
