---------------------------- MODULE LedgerImport ----------------------------
(***************************************************************************)
(* The ledger's way out and back in: the export (main.py), the validation  *)
(* of an uploaded sheet against the ledger and the correction of its rows  *)
(* (services/imports.py), the two change sets made of what differs, the    *)
(* decisions on them and their application (services/reviews.py, main.py), *)
(* while other people edit services and devices in the forms.              *)
(*                                                                         *)
(* A sheet is a sequence of rows, one per link of a service and a device.  *)
(* A manager stands for all business columns, a keeper for the maintenance *)
(* columns, which may be blank, and recovery for the other columns of a    *)
(* device: labels of the dictionary, dates, prices and contacts.  What is  *)
(* stored of a text, what is refused and when, is up to the text.  A row   *)
(* that repeats a code, which validation refuses at once, is left out, and *)
(* a workbook gives its cells back as they were written.  One batch is     *)
(* followed; what others apply reaches the ledger as the forms' edits do.  *)
(***************************************************************************)
EXTENDS Integers, Sequences, FiniteSets, SequencesExt

CONSTANTS
    Numbers,        \* service numbers
    Codes,          \* device codes
    Texts,          \* what the columns of a service or a device say
    Blank,          \* an empty cell; columns with nothing that is not required
    Stored,     \* what is stored of a text: no label outside the dictionary
    Shown,      \* what the export writes of a stored text: a date without time
    Parts,      \* the codes a text in the code column is split into
    Refused,    \* phones, names and codes the checks of a row refuse
    Entered,    \* what people write in the forms and in the cells they change
    Unreadable, \* prices and dates that nothing reads before the application
    Services0, Devices0,    \* the ledger to begin with
    TypedSheets,    \* sheets people fill in by hand
    MaxUploads, MaxCorrections, MaxEdits    \* bounds on what people do

Domain == {"business", "network"}
NoId == 0

(* The forms store what they are given, or refuse it: their labels join    *)
(* the dictionary, and neither phones nor codes are checked.               *)
Held == {t \in Texts \ Unreadable : Stored[t] = t}

ServiceRow == [number : Numbers, manager : Held, version : Nat \ {0}]
DeviceRow == [code : Codes, service : Nat \ {0}, keeper : Texts,
              recovery : Held, version : Nat \ {0}]
Row == [number : Numbers \cup {Blank}, manager : Texts, codes : SUBSET Codes,
        keeper : Texts, recovery : Texts,
        sid : Nat, sver : Nat, did : Nat, dver : Nat]

ASSUME LedgerAssumption ==
    /\ Blank \in Held /\ Blank \notin Numbers \cup Codes \cup Refused
    /\ Entered \subseteq Held
    /\ Refused \subseteq Texts \cup Codes /\ Unreadable \subseteq Texts
    /\ Stored \in [Texts -> Held] /\ Shown \in [Held -> Held]
    /\ Parts \in [Codes \cup {Blank} -> SUBSET Codes] /\ Parts[Blank] = {}
    /\ \A c \in Codes : IsFiniteSet(Parts[c]) /\ \A part \in Parts[c] : Parts[part] = {part}
    /\ Services0 \in Seq(ServiceRow) /\ Devices0 \in Seq(DeviceRow)
    /\ \A s, t \in DOMAIN Services0 : Services0[s].number = Services0[t].number => s = t
    /\ \A d, e \in DOMAIN Devices0 : Devices0[d].code = Devices0[e].code => d = e
    /\ \A d \in DOMAIN Devices0 : Devices0[d].service \in DOMAIN Services0
    /\ \A sheet \in TypedSheets : sheet \in Seq(Row) /\ \A i \in DOMAIN sheet :
          /\ IsFiniteSet(sheet[i].codes)
          /\ sheet[i].sid = 0 /\ sheet[i].sver = 0     \* hidden columns of an export
          /\ sheet[i].did = 0 /\ sheet[i].dver = 0
    /\ MaxUploads \in Nat /\ MaxCorrections \in Nat /\ MaxEdits \in Nat

VARIABLES
    services, devices,  \* the tables, in the order of their ids
    exported,   \* the ledger when it was last exported
    batch,      \* ImportBatch with its staging rows
    sets,       \* the batch's newest change set of each domain
    left,       \* an older set of the batch was returned or rejected
    fresh,      \* nobody else changed the ledger since the validation
    uploads, corrections, edits

ledger == <<services, devices>>
counters == <<uploads, corrections, edits>>
vars == <<ledger, exported, batch, sets, left, fresh, counters>>

NoBatch == [status |-> "none", rows |-> <<>>, staged |-> <<>>, from |-> <<>>]
NoSet == [status |-> "none", items |-> {}]
NoSets == [d \in Domain |-> NoSet]
Pending == {"submitted", "approved"}

Ids(table) == 1..Len(table)
Numbered(table, n) == {s \in Ids(table) : table[s].number = n}
Coded(table, c) == {d \in Ids(table) : table[d].code = c}
IdIn(ids) == IF ids = {} THEN NoId ELSE CHOOSE i \in ids : TRUE
VersionOf(table, i) == IF i = NoId THEN 0 ELSE table[i].version
-----------------------------------------------------------------------------
(* The export: a row per device, or one for a service without devices. *)

Line(s, service, d, device) ==
    [number |-> service.number, manager |-> Shown[service.manager],
     codes |-> Parts[device.code], keeper |-> device.keeper,
     recovery |-> device.recovery, sid |-> s, sver |-> service.version,
     did |-> d, dver |-> device.version]

NoDevice == [code |-> Blank, keeper |-> Blank, recovery |-> Blank, version |-> 0]

Export(S, D) ==
    LET Its(s) == {d \in Ids(D) : D[d].service = s} IN
    SetToSeq(UNION {
        IF Its(s) = {} THEN {Line(s, S[s], NoId, NoDevice)}
        ELSE {Line(s, S[s], d, D[d]) : d \in Its(s)} : s \in Ids(S)})
-----------------------------------------------------------------------------
(* Validation: _validate_rows for each row of a sheet. *)

Group(sheet, n) == {i \in Ids(sheet) : sheet[i].number = n}
First(rows) == CHOOSE i \in rows : \A j \in rows : i <= j
Holders(sheet, c) == {i \in Ids(sheet) : c \in sheet[i].codes}

(* The service a row is about, and the device a code in it is. *)
ServiceOf(r) == IdIn(Numbered(services, r.number))
DeviceOf(c) == IdIn(Coded(devices, c))

WrongService(r) == r.sid # NoId /\ ServiceOf(r) # r.sid

NeverOutdated(r) == FALSE       \* mutant: the version column is not compared

ServiceOutdated(r) ==
    /\ ServiceOf(r) # NoId /\ r.sver # 0
    /\ services[ServiceOf(r)].version # r.sver

ConflictsInRow(sheet, i) ==     \* mutant: takes in the keeper's column
    LET anchor == sheet[First(Group(sheet, sheet[i].number))] IN
    anchor.manager # sheet[i].manager \/ anchor.keeper # sheet[i].keeper

Conflicts(sheet, i) ==
    sheet[First(Group(sheet, sheet[i].number))].manager # sheet[i].manager

LacksCode(sheet, i) ==
    /\ sheet[i].codes = {}
    /\ \E j \in Group(sheet, sheet[i].number) : sheet[j].codes # {}

RepeatsNever(sheet, i) == FALSE     \* mutant: device_rows is not consulted

RepeatsCode(sheet, i) == \E c \in sheet[i].codes : First(Holders(sheet, c)) # i

WrongDevice(r) == r.did # NoId /\ \E c \in r.codes : DeviceOf(c) # r.did

OwnsAnything(r) == FALSE    \* mutant: devices of other services pass

OwnedByOther(r) == \E c \in r.codes :
    DeviceOf(c) # NoId /\ devices[DeviceOf(c)].service # ServiceOf(r)

DeviceOutdated(r) == \E c \in r.codes :
    DeviceOf(c) # NoId /\ r.dver # 0 /\ devices[DeviceOf(c)].version # r.dver

Faulty(sheet, i) ==
    LET r == sheet[i] IN
    \/ r.number = Blank
    \/ ({r.manager, r.keeper} \cup r.codes) \cap Refused # {}
    \/ WrongService(r) \/ ServiceOutdated(r)
    \/ r.number # Blank /\ (Conflicts(sheet, i) \/ LacksCode(sheet, i))
    \/ RepeatsCode(sheet, i)
    \/ WrongDevice(r) \/ OwnedByOther(r) \/ DeviceOutdated(r)

(* mapped_json: the records a row was matched with and their versions. *)
Stage(sheet, i) ==
    LET r == sheet[i] IN
    [number |-> r.number, manager |-> r.manager, sver |-> r.sver, dver |-> r.dver,
     id |-> ServiceOf(r), base |-> VersionOf(services, ServiceOf(r)),
     devices |-> {[code |-> c, id |-> DeviceOf(c),
                   base |-> VersionOf(devices, DeviceOf(c)),
                   keeper |-> r.keeper, recovery |-> r.recovery] : c \in r.codes},
     error |-> Faulty(sheet, i)]

Validate(sheet) == [i \in Ids(sheet) |-> Stage(sheet, i)]
Clean(staged) == \A i \in Ids(staged) : ~staged[i].error
-----------------------------------------------------------------------------
(* What a validated sheet would change, compared when it is submitted. *)

BusinessChanged(row) ==
    row.id = NoId \/ services[row.id].manager # row.manager

DeviceChanged(data) ==
    \/ data.id = NoId
    \/ devices[data.id].recovery # data.recovery
    \/ data.keeper # Blank /\ devices[data.id].keeper # data.keeper

(* Only the first row of a number speaks for its service. *)
BusinessItems(staged) ==
    LET firsts == {staged[First(Group(staged, staged[i].number))] : i \in Ids(staged)} IN
    {[id |-> row.id, base |-> row.base, number |-> row.number,
      manager |-> row.manager, from |-> row.sver] :
        row \in {r \in firsts : BusinessChanged(r)}}

DeviceItems(staged) ==
    UNION {{[id |-> data.id, base |-> data.base, number |-> staged[i].number,
             code |-> data.code, keeper |-> data.keeper,
             recovery |-> data.recovery, from |-> staged[i].dver] :
                data \in {x \in staged[i].devices : DeviceChanged(x)}} :
           i \in Ids(staged)}

ItemsOf(staged) == [d \in Domain |->
    IF d = "business" THEN BusinessItems(staged) ELSE DeviceItems(staged)]
Same(staged) == \A d \in Domain : ItemsOf(staged)[d] = {}
-----------------------------------------------------------------------------
(* Uploads, corrections and submission. *)

ExportLedger ==
    /\ exported # ledger
    /\ uploads < MaxUploads      \* bound: a later one is never used
    /\ exported' = ledger
    /\ UNCHANGED <<ledger, batch, sets, left, fresh, counters>>

(* People change a cell of the sheet they exported, and all the rows of a  *)
(* service when it is a business column.                                   *)
Altered(sheet) ==
    {[i \in Ids(sheet) |->
        IF sheet[i].number = n THEN [sheet[i] EXCEPT !.manager = p] ELSE sheet[i]] :
            n \in Numbers, p \in Entered}
    \cup {[sheet EXCEPT ![i].keeper = p] :
            i \in Ids(sheet), p \in Entered \cup {Blank}}
    \cup {[sheet EXCEPT ![i].recovery = p] : i \in Ids(sheet), p \in Entered \cup Unreadable}

Begin(sheet, from) ==
    /\ uploads < MaxUploads
    /\ batch.status \in {"none", "ready", "applied", "rejected"}
    /\ \A d \in Domain : sets[d].status \notin Pending
    /\ batch' = [status |-> "ready", rows |-> sheet, staged |-> Validate(sheet),
                 from |-> from]
    /\ sets' = NoSets /\ left' = FALSE /\ fresh' = TRUE
    /\ uploads' = uploads + 1
    /\ exported' = IF uploads' = MaxUploads THEN <<>> ELSE exported    \* no use for it
    /\ UNCHANGED <<ledger, corrections, edits>>

Upload ==
    \/ \E sheet \in TypedSheets : Begin(sheet, <<>>)
    \/ /\ exported # <<>>
       /\ \E sheet \in Altered(Export(exported[1], exported[2])) : Begin(sheet, exported)

(* The whole batch is validated again, against the ledger of now. *)
Correct ==
    /\ batch.status = "ready"
    /\ corrections < MaxCorrections
    /\ \E i \in Ids(batch.rows) :
       \E row \in {[batch.rows[i] EXCEPT !.number = n] : n \in Numbers}
             \cup {[batch.rows[i] EXCEPT !.codes = Parts[c]] : c \in Codes}
             \cup {[batch.rows[i] EXCEPT !.sid = NoId, !.sver = 0,
                                         !.did = NoId, !.dver = 0]} :
          /\ row # batch.rows[i]
          /\ LET sheet == [batch.rows EXCEPT ![i] = row] IN
             batch' = [batch EXCEPT !.rows = sheet, !.staged = Validate(sheet)]
    /\ fresh' = (fresh \/ \A d \in Domain : sets[d].status \notin Pending)
    /\ corrections' = corrections + 1
    /\ UNCHANGED <<ledger, exported, sets, left, uploads, edits>>

(* A date that cannot be read may end the submission, and nothing happens. *)
(* Decided sets of the batch stay in the database beside the new ones.     *)
(* The rows still carry the versions of their validation, which a set that *)
(* was applied meanwhile has passed.                                       *)
Submit ==
    /\ batch.status = "ready"
    /\ \A d \in Domain : sets[d].status \notin Pending
    /\ Clean(batch.staged)
    /\ ~Same(batch.staged)
    /\ sets' = [d \in Domain |->
          LET items == ItemsOf(batch.staged)[d] IN
          IF items = {} THEN NoSet ELSE [status |-> "submitted", items |-> items]]
    /\ left' = (left \/ \E d \in Domain : sets[d].status \in {"returned", "rejected"})
    /\ fresh' = (fresh /\ \A d \in Domain : sets[d].status # "applied")
    /\ batch' = [batch EXCEPT !.status = "reviewing"]
    /\ UNCHANGED <<ledger, exported, counters>>

BatchAfter(decision) ==
    CASE decision = "approved" -> "reviewing"
      [] decision = "returned" -> "ready"
      [] decision = "rejected" -> "rejected"

Decide(d) ==
    /\ sets[d].status = "submitted"
    /\ \E decision \in {"approved", "returned", "rejected"} :
          /\ sets' = [sets EXCEPT ![d].status = decision]
          /\ batch' = [batch EXCEPT !.status = BatchAfter(decision)]
    /\ UNCHANGED <<ledger, exported, left, fresh, counters>>
-----------------------------------------------------------------------------
(* Application. *)

BusinessAppliesAgain(item) ==       \* mutant: a create is not checked
    /\ item.manager \notin Unreadable
    /\ item.id # NoId => services[item.id].version = item.base

BusinessApplies(item) ==
    /\ item.manager \notin Unreadable
    /\ IF item.id = NoId THEN Numbered(services, item.number) = {}
       ELSE services[item.id].version = item.base

(* The number is the key: an update leaves the one the service has now. *)
ApplyBusiness(items) ==
    LET updated == [s \in Ids(services) |->
            LET its == {x \in items : x.id = s} IN
            IF its = {} THEN services[s]
            ELSE [services[s] EXCEPT !.manager = Stored[(CHOOSE x \in its : TRUE).manager],
                                     !.version = @ + 1]]
        created == {[number |-> x.number, manager |-> Stored[x.manager], version |-> 1] :
                       x \in {y \in items : y.id = NoId}}
    IN  services' = updated \o SetToSeq(created)

DeviceAppliesAnywhere(item) ==      \* mutant: the service is not compared
    /\ item.recovery \notin Unreadable
    /\ Numbered(services, item.number) # {}
    /\ IF item.id = NoId THEN Coded(devices, item.code) = {}
       ELSE devices[item.id].version = item.base

DeviceApplies(item) ==
    /\ item.recovery \notin Unreadable
    /\ Numbered(services, item.number) # {}
    /\ IF item.id = NoId THEN Coded(devices, item.code) = {}
       ELSE /\ devices[item.id].version = item.base
            /\ devices[item.id].service = IdIn(Numbered(services, item.number))

WrittenWithoutKeeper(item, version) ==      \* mutant: a new column is forgotten
    [code |-> item.code, service |-> IdIn(Numbered(services, item.number)),
     keeper |-> Blank, recovery |-> Stored[item.recovery], version |-> version]

Written(item, version) ==
    [code |-> item.code, service |-> IdIn(Numbered(services, item.number)),
     keeper |-> item.keeper, recovery |-> Stored[item.recovery], version |-> version]

ApplyDevices(items) ==
    LET updated == [d \in Ids(devices) |->
            LET its == {x \in items : x.id = d} IN
            IF its = {} THEN devices[d]
            ELSE [Written(CHOOSE x \in its : TRUE, devices[d].version + 1)
                    EXCEPT !.code = devices[d].code]]
        created == {Written(x, 1) : x \in {y \in items : y.id = NoId}}
    IN  devices' = updated \o SetToSeq(created)

Applicable(d) == \A item \in sets[d].items :
    IF d = "business" THEN BusinessApplies(item) ELSE DeviceApplies(item)

(* All items or none: what raises is rolled back.  _refresh_batch_status   *)
(* waits for every set of the batch, the decided ones included.            *)
Apply(d) ==
    /\ sets[d].status = "approved"
    /\ Applicable(d)
    /\ IF d = "business"
       THEN ApplyBusiness(sets[d].items) /\ UNCHANGED devices
       ELSE ApplyDevices(sets[d].items) /\ UNCHANGED services
    /\ sets' = [sets EXCEPT ![d].status = "applied"]
    /\ batch' = IF ~left /\ \A o \in Domain \ {d} : sets[o].status \in {"none", "applied"}
                THEN [batch EXCEPT !.status = "applied"] ELSE batch
    /\ UNCHANGED <<exported, left, fresh, counters>>
-----------------------------------------------------------------------------
(* The forms; an edit before all exports and uploads is another beginning. *)

Edits ==
    /\ edits < MaxEdits
    /\ exported # <<>> \/ uploads > 0
    /\ edits' = edits + 1
    /\ fresh' = FALSE
    /\ UNCHANGED <<exported, batch, sets, left, uploads, corrections>>

CreateService ==
    /\ Edits
    /\ \E n \in Numbers, p \in Entered :
          /\ Numbered(services, n) = {}
          /\ services' = Append(services, [number |-> n, manager |-> p, version |-> 1])
    /\ UNCHANGED devices

EditService ==
    /\ Edits
    /\ \E s \in Ids(services) :
       \E row \in {[services[s] EXCEPT !.number = n] :
                      n \in {x \in Numbers : Numbered(services, x) = {}}}
              \cup {[services[s] EXCEPT !.manager = p] :
                      p \in Entered \ {services[s].manager}} :
          services' = [services EXCEPT ![s] = [row EXCEPT !.version = @ + 1]]
    /\ UNCHANGED devices

EditDevice ==
    /\ Edits
    /\ \E d \in Ids(devices) :
       \E row \in {[devices[d] EXCEPT !.code = c] :
                      c \in {x \in Codes : Coded(devices, x) = {}}}
              \cup {[devices[d] EXCEPT !.service = s] :
                      s \in Ids(services) \ {devices[d].service}}
              \cup {[devices[d] EXCEPT !.keeper = p] :
                      p \in Entered \ {devices[d].keeper}} :
          devices' = [devices EXCEPT ![d] = [row EXCEPT !.version = @ + 1]]
    /\ UNCHANGED services

Init ==
    /\ services = Services0 /\ devices = Devices0
    /\ exported = <<>>
    /\ batch = NoBatch /\ sets = NoSets
    /\ left = FALSE /\ fresh = TRUE
    /\ uploads = 0 /\ corrections = 0 /\ edits = 0

Next ==
    \/ ExportLedger \/ Upload \/ Correct \/ Submit
    \/ \E d \in Domain : Decide(d) \/ Apply(d)
    \/ CreateService \/ EditService \/ EditDevice

Spec == Init /\ [][Next]_vars
-----------------------------------------------------------------------------
(* The ledger keeps its keys: numbers and codes are unique, and each       *)
(* device has a service, however imports and forms follow each other.      *)
TypeOK ==
    /\ services \in Seq(ServiceRow) /\ devices \in Seq(DeviceRow)
    /\ \A n \in Numbers : Cardinality(Numbered(services, n)) <= 1
    /\ \A c \in Codes : Cardinality(Coded(devices, c)) <= 1
    /\ \A d \in Ids(devices) : devices[d].service \in Ids(services)
    /\ batch.status \in {"none", "ready", "reviewing", "rejected", "applied"}
    /\ \A d \in Domain : sets[d].status \in
          {"none", "submitted", "approved", "returned", "rejected", "applied"}
    /\ left \in BOOLEAN /\ fresh \in BOOLEAN

(* _validate_rows and the grouping leave one item for each record: no two  *)
(* items of a change set update one record or create one key, else the     *)
(* last row would win silently, or the set could never be applied.         *)
OneItemPerRecord == \A d \in Domain : \A a, b \in sets[d].items :
    a # b =>
        /\ a.id # NoId => a.id # b.id
        /\ IF d = "business" THEN a.number # b.number ELSE a.code # b.code

(* What validation let through can be applied, business set first, as long *)
(* as nobody else changed the ledger and no set of the batch was applied   *)
(* before the rows were submitted again: the errors of _apply_business and *)
(* _apply_device are for ledgers that changed, not for sheets.  Prices and *)
(* dates are the exception: nothing reads them before the application.     *)
Readable(d) == \A item \in sets[d].items :
    (IF d = "business" THEN item.manager ELSE item.recovery) \notin Unreadable

CleanBatchApplies == fresh =>
    /\ sets["business"].status = "approved" /\ Readable("business")
          => Applicable("business")
    /\ sets["network"].status = "approved" /\ sets["business"].status \in {"none", "applied"}
          /\ Readable("network") => Applicable("network")

(* An export uploaded as it is has no errors and nothing to review ("文件内 *)
(* 容与当前正式台账一致"): validation reads the rows as the export wrote    *)
(* them, whatever the ledger has become.  The forms accept what the checks *)
(* of a row refuse: an error is due to such a value, in this row or in one *)
(* whose code falls apart into a code of this row.  A date the export cuts *)
(* short is the only change found.                                         *)
Refusable(r) ==
    \/ ({r.manager, r.keeper} \cup r.codes) \cap Refused # {}
    \/ r.did # NoId /\ r.codes # {devices[r.did].code}

ExportIsUnchanged ==
    LET sheet == Export(services, devices)
        staged == Validate(sheet)
    IN  /\ \A i \in Ids(staged) : staged[i].error =>
              \E j \in Ids(sheet) : Refusable(sheet[j])
                 /\ (j = i \/ sheet[j].codes \cap sheet[i].codes # {})
        /\ Clean(staged) =>
              /\ DeviceItems(staged) = {}
              /\ \A item \in BusinessItems(staged) : item.id # NoId
                    /\ Shown[services[item.id].manager] # services[item.id].manager

(* Uploading the rows of an applied batch once more, without the technical *)
(* columns, finds nothing to review: what was applied is what the sheet    *)
(* said.  A text that is not stored as it stands (a label the dictionary   *)
(* lacks, yes for recovered, a third decimal) is compared as it stands and *)
(* differs for ever.                                                       *)
ReimportIsQuiet ==
    LET again == [i \in Ids(batch.rows) |->
            [batch.rows[i] EXCEPT !.sid = NoId, !.sver = 0, !.did = NoId, !.dver = 0]]
    IN  batch.status = "applied" /\ fresh
        /\ (\A i \in Ids(again) : {again[i].manager, again[i].recovery} \subseteq Held)
            => Clean(Validate(again)) /\ Same(Validate(again))

(* An import never writes over what someone changed after the export it    *)
(* was made from: a row that still has its technical columns is applied    *)
(* only to the record it was copied from, not to a later one.              *)
StaleExportNeverWins == [][
    \A d \in Domain : sets[d].status = "approved" /\ sets'[d].status = "applied" =>
        \A item \in sets[d].items : item.id # NoId /\ item.from # 0 =>
            IF d = "business" THEN services[item.id] = batch.from[1][item.id]
            ELSE devices[item.id] = batch.from[2][item.id]]_vars

(* Applying a change set never hands a device to another service, though   *)
(* an item names the service by a number that may have been given away     *)
(* since; only the device form moves devices.                              *)
NoDeviceMoves == [][
    sets'["network"].status = "applied" /\ sets["network"].status = "approved" =>
        \A d \in Ids(devices) : devices'[d].service = devices[d].service]_vars
=============================================================================
