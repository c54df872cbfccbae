------------------------------ MODULE Backups ------------------------------
(***************************************************************************)
(* BackupService (services/backups.py): archives of the database and of    *)
(* the files its rows refer to, taken while requests and the scheduler go  *)
(* on writing both.  The periodic thread and a manual request of the       *)
(* thread pool run create_backup without a lock between them, share the    *)
(* status and prune each other's archives.                                 *)
(*                                                                         *)
(* A file is an import (written in place, then its batch is committed) or  *)
(* an audio file (written beside and renamed, audio.write_wav_atomic).     *)
(* Time is counted in days, the unit of the retention.                     *)
(***************************************************************************)
EXTENDS Integers, FiniteSets

CONSTANTS
    Job,            \* threads in create_backup
    Import, Audio,  \* the files that come to be written
    Retries,        \* backup_max_retries
    Retention,      \* backup_retention_days
    Remote,         \* WebDAV is configured
    LastDay,        \* bound on the clock
    MaxBackups,     \* bound on the backups begun
    MaxFaults       \* bound on failing steps and crashes

File == Import \cup Audio
Day == 0..LastDay
Id == 1..MaxBackups

ASSUME BackupsAssumption ==
    /\ Import \cap Audio = {}
    /\ Retries \in Nat /\ LastDay \in Nat /\ Remote \in BOOLEAN
    /\ Retention \in 0..LastDay
    /\ MaxBackups \in Nat \ {0} /\ MaxFaults \in Nat

VARIABLES
    now,
    disk,       \* state of each file: none, partial, temporary or full
    rows,       \* files that committed rows refer to
    archives,   \* the backup directory: archives under their final name
    remote,     \* the WebDAV collection
    job,        \* locals of create_backup in each thread
    status,     \* BackupService._status: last backup and last failure
    begun, faults

vars == <<now, disk, rows, archives, remote, job, status, begun, faults>>
writers == <<disk, rows>>
stores  == <<archives, remote>>
service == <<job, status>>

None == 0
Nothing == [rows |-> {}, manifest |-> {}, content |-> {}]
IdleJob == [pc |-> "idle", id |-> None, created |-> 0, attempt |-> 0,
            data |-> Nothing, seen |-> {}, cutoff |-> 0, error |-> FALSE]
NoStatus == [last |-> None, failure |-> FALSE]

(* A file with the state it was read in. *)
Read(f) == [file |-> f, state |-> disk[f]]
Complete(files) == {r.file : r \in {x \in files : x.state = "full"}}

Fault == faults < MaxFaults /\ faults' = faults + 1
-----------------------------------------------------------------------------
(* The writers.  A row is committed after its file is complete. *)

Writes(f, state) ==
    /\ disk' = [disk EXCEPT ![f] = state]
    /\ UNCHANGED <<now, rows, stores, service, begun, faults>>

WriteImport(f) ==
    \/ disk[f] = "none" /\ Writes(f, "partial")
    \/ disk[f] = "partial" /\ Writes(f, "full")

InstallAudio(f) ==
    \/ disk[f] = "none" /\ Writes(f, "temporary")
    \/ disk[f] = "temporary" /\ Writes(f, "full")

CommitRow(f) ==
    /\ disk[f] = "full" /\ f \notin rows
    /\ rows' = rows \cup {f}
    /\ UNCHANGED <<now, disk, stores, service, begun, faults>>
-----------------------------------------------------------------------------
(* create_backup. *)

At(j, pc) == job[j].pc = pc
Goes(j, pc) == job' = [job EXCEPT ![j].pc = pc]
Outside == UNCHANGED <<now, writers>>

Begin(j) ==
    /\ At(j, "idle") /\ begun < MaxBackups
    /\ begun' = begun + 1
    /\ job' = [job EXCEPT ![j] = [IdleJob EXCEPT !.pc = "snapshot",
                                    !.id = begun + 1, !.created = now]]
    /\ UNCHANGED <<stores, status, faults>> /\ Outside

(* mutant *)
FailsAndPrunes(j) ==
    /\ archives' = {a \in archives : a.created >= now - Retention}
    /\ remote' = remote
    /\ status' = [status EXCEPT !.failure = TRUE]
    /\ job' = [job EXCEPT ![j] = IdleJob]

(* The exception path: the temporary archive is removed, the rest stays. *)
Fails(j) ==
    /\ UNCHANGED stores
    /\ status' = [status EXCEPT !.failure = TRUE]
    /\ job' = [job EXCEPT ![j] = IdleJob]

(* mutant *)
AttemptsOnceMore(j) ==
    IF job[j].attempt <= Retries
    THEN /\ job' = [job EXCEPT ![j].pc = "snapshot", ![j].attempt = @ + 1,
                             ![j].data = Nothing]
         /\ UNCHANGED <<stores, status>>
    ELSE Fails(j)

(* An exception while the files are gathered starts all over. *)
Attempts(j) ==
    IF job[j].attempt < Retries
    THEN /\ job' = [job EXCEPT ![j].pc = "snapshot", ![j].attempt = @ + 1,
                             ![j].data = Nothing]
         /\ UNCHANGED <<stores, status>>
    ELSE Fails(j)

Snapshot(j) ==
    /\ At(j, "snapshot")
    /\ job' = [job EXCEPT ![j].pc = "list", ![j].data.rows = rows]
    /\ UNCHANGED <<stores, status, begun, faults>> /\ Outside

ListFiles(j) ==
    /\ At(j, "list")
    /\ job' = [job EXCEPT ![j].pc = "zip",
                 ![j].data.manifest = {Read(f) : f \in {g \in File : disk[g] # "none"}}]
    /\ UNCHANGED <<stores, status, begun, faults>> /\ Outside

Vanished(j) ==
    \E r \in job[j].data.manifest : r.state = "temporary" /\ disk[r.file] # "temporary"

(* mutant *)
ZipLiveDatabase(j) ==
    /\ At(j, "zip") /\ ~Vanished(j)
    /\ job' = [job EXCEPT ![j].pc = "validate", ![j].data.rows = rows,
                 ![j].data.content = {Read(r.file) : r \in job[j].data.manifest}]
    /\ UNCHANGED <<stores, status, begun, faults>> /\ Outside

Zip(j) ==
    /\ At(j, "zip") /\ ~Vanished(j)
    /\ job' = [job EXCEPT ![j].pc = "validate",
                 ![j].data.content = {Read(r.file) : r \in job[j].data.manifest}]
    /\ UNCHANGED <<stores, status, begun, faults>> /\ Outside

(* A temporary file was renamed after it had been listed. *)
ZipMisses(j) ==
    /\ At(j, "zip") /\ Vanished(j)
    /\ Attempts(j)
    /\ UNCHANGED <<begun, faults>> /\ Outside

GatherFails(j) ==
    /\ job[j].pc \in {"snapshot", "list", "zip"} /\ Fault
    /\ Attempts(j)
    /\ UNCHANGED begun /\ Outside

(* mutant *)
ValidUnread(data) == TRUE

(* validate_backup: sizes and checksums of the manifest. *)
Valid(data) == data.content = data.manifest

(* Of an archive we keep whether it is what its manifest says, and whether *)
(* restore_backup, which places exactly its files, gives a whole directory. *)
Whole(data) == data.rows \subseteq Complete(data.content)
Archive(j) ==
    [id |-> job[j].id, created |-> job[j].created,
     valid |-> job[j].data.content = job[j].data.manifest,
     whole |-> Whole(job[j].data)]

Publish(j) ==
    /\ At(j, "validate") /\ Valid(job[j].data)
    /\ archives' = archives \cup {Archive(j)}
    /\ job' = [job EXCEPT ![j].pc = IF Remote THEN "upload" ELSE "list archives",
                          ![j].attempt = 0, ![j].data = Nothing]
    /\ UNCHANGED <<remote, status, begun, faults>> /\ Outside

(* A file changed between its hash and its copy: no other attempt is made. *)
Refused(j) ==
    /\ At(j, "validate") /\ ~Valid(job[j].data)
    /\ Fails(j)
    /\ UNCHANGED <<begun, faults>> /\ Outside

(* What a pruning can remove from files: every archive of a day before the *)
(* cutoff's, and of that day those of an earlier hour.                     *)
Expired(files, cutoff) ==
    {gone \in SUBSET files : \A a \in files :
        /\ a.created < cutoff => a \in gone
        /\ a \in gone => a.created <= cutoff}

Own(j) == {a \in archives : a.id = job[j].id}

(* A PUT that succeeds is followed by the remote retention, best effort. *)
Upload(j) ==
    /\ At(j, "upload") /\ Own(j) # {}
    /\ LET there == remote \cup Own(j) IN
       \E gone \in Expired(there, now - Retention) :
          \/ remote' = there \ gone /\ UNCHANGED faults
          \/ (\E some \in SUBSET gone : remote' = there \ some) /\ Fault
    /\ Goes(j, "list archives")
    /\ UNCHANGED <<archives, status, begun>> /\ Outside

(* Another thread may have pruned the archive before it is read.  The error *)
(* of a failed PUT is kept even when a later one succeeds.                 *)
UploadFails(j) ==
    /\ At(j, "upload")
    /\ Fault \/ (Own(j) = {} /\ UNCHANGED faults)
    /\ IF job[j].attempt < Retries
       THEN /\ job' = [job EXCEPT ![j].attempt = @ + 1, ![j].error = TRUE]
            /\ UNCHANGED status
       ELSE /\ job' = [job EXCEPT ![j].pc = "list archives", ![j].error = TRUE]
            /\ status' = [status EXCEPT !.failure = TRUE]
    /\ UNCHANGED <<stores, begun>> /\ Outside

(* mutant: the retention is not taken off *)
ListArchivesOfToday(j) ==
    /\ At(j, "list archives")
    /\ job' = [job EXCEPT ![j].pc = "prune", ![j].seen = archives,
                          ![j].cutoff = now]
    /\ UNCHANGED <<stores, status, begun, faults>> /\ Outside

(* _prune_local: the directory is listed, then every file of the list is   *)
(* read; one that another thread has pruned before it is read raises.      *)
ListArchives(j) ==
    /\ At(j, "list archives")
    /\ job' = [job EXCEPT ![j].pc = "prune", ![j].seen = archives,
                          ![j].cutoff = now - Retention]
    /\ UNCHANGED <<stores, status, begun, faults>> /\ Outside

PruneRaises(j) ==
    /\ At(j, "prune") /\ ~(job[j].seen \subseteq archives)
    /\ Fails(j)
    /\ UNCHANGED <<begun, faults>> /\ Outside

Finish(j) ==
    /\ At(j, "prune")
    /\ \E gone \in Expired(job[j].seen, job[j].cutoff) : archives' = archives \ gone
    /\ status' = [last |-> job[j].id,
                  failure |-> IF job[j].error THEN status.failure ELSE FALSE]
    /\ job' = [job EXCEPT ![j] = IdleJob]
    /\ UNCHANGED <<remote, begun, faults>> /\ Outside
-----------------------------------------------------------------------------
TimePasses ==
    /\ now + 1 \in Day
    /\ now' = now + 1
    /\ UNCHANGED <<writers, stores, service, begun, faults>>

(* The process dies: threads and status are gone, files stay as they are. *)
Crash ==
    /\ Fault
    /\ job' = [j \in Job |-> IdleJob]
    /\ status' = NoStatus
    /\ UNCHANGED <<now, writers, stores, begun>>

(* The program has run before: there is a backup of the first day, and the *)
(* clock stands where that one is still kept.                              *)
Earlier == [id |-> 1, created |-> 0, valid |-> TRUE, whole |-> TRUE]

Init ==
    /\ now = Retention
    /\ disk = [f \in File |-> "none"] /\ rows = {}
    /\ archives = {Earlier} /\ remote = IF Remote THEN {Earlier} ELSE {}
    /\ job = [j \in Job |-> IdleJob]
    /\ status = NoStatus
    /\ begun = 1 /\ faults = 0

Works(j) ==
    \/ Snapshot(j) \/ ListFiles(j) \/ Zip(j) \/ ZipMisses(j) \/ Publish(j)
    \/ Refused(j) \/ Upload(j) \/ ListArchives(j) \/ PruneRaises(j) \/ Finish(j)

Next ==
    \/ \E f \in Import : WriteImport(f)
    \/ \E f \in Audio : InstallAudio(f)
    \/ \E f \in File : CommitRow(f)
    \/ \E j \in Job : Begin(j) \/ Works(j) \/ GatherFails(j) \/ UploadFails(j)
    \/ TimePasses \/ Crash

Spec == Init /\ [][Next]_vars
-----------------------------------------------------------------------------
(* Every variable has its type; a published archive has an id of its own. *)
TypeOK ==
    /\ now \in Day
    /\ \A f \in Import : disk[f] \in {"none", "partial", "full"}
    /\ \A f \in Audio : disk[f] \in {"none", "temporary", "full"}
    /\ rows \subseteq File
    /\ \A a \in archives \cup remote :
         /\ a.id \in Id /\ a.created \in Day
         /\ \A b \in archives \cup remote : a.id = b.id => a = b
    /\ \A j \in Job : job[j].attempt \in 0..Retries
    /\ status.last \in Id \cup {None} /\ status.failure \in BOOLEAN
    /\ begun \in 1..MaxBackups /\ faults \in 0..MaxFaults

(* What is restored is whole: from any archive, local or remote, comes     *)
(* every file, complete, that its rows refer to, whatever was written while *)
(* the backup was taken.                                                   *)
BackupIsWhole ==
    \A a \in archives \cup remote : a.whole

(* An archive under its final name is what its manifest says, although     *)
(* imports are written in place while they are hashed and copied.          *)
ManifestIsTrue == \A a \in archives \cup remote : a.valid

(* A backup has been at work since a day whose archives already expire: it *)
(* crossed the retention, which with a retention of 0 days every one does. *)
Outlived(j) == job[j].created <= now - Retention

(* A backup that is reported as the last one is there to be downloaded     *)
(* when it is reported (status.last_backup, main.admin_backup_create),     *)
(* whatever other threads have pruned, unless it took as long as archives  *)
(* are kept (backups.py:371 counts from the time of the pruning).          *)
ReportedBackupExists ==
    [][\A j \in Job : At(j, "prune") /\ status'.last # status.last /\ status'.last = job[j].id
          => Outlived(j) \/ \E a \in archives' : a.id = job[j].id]_vars

(* However long backups have failed, old archives are removed only by a    *)
(* backup that has succeeded, and then that one is left; none is left only *)
(* when the backup that prunes took as long as archives are kept.          *)
BackupsNeverRunOut ==
    [][/\ archives # {} /\ archives' = {} => \E j \in Job : At(j, "prune") /\ Outlived(j)
       /\ remote # {} /\ remote' = {} => \E j \in Job : At(j, "upload") /\ Outlived(j)]_vars
=============================================================================
