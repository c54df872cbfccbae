--------------------------- MODULE BackupsProofs ---------------------------
(***************************************************************************)
(* Theorems about Backups, for every set of files, every number of threads *)
(* and backups, and every retention.                                       *)
(***************************************************************************)
EXTENDS Backups, TLAPS

-----------------------------------------------------------------------------
(* The inductive invariant. *)

State == {"none", "partial", "temporary", "full"}
Reading == [file : File, state : State]
Data == [rows : SUBSET File, manifest : SUBSET Reading, content : SUBSET Reading]
ArchiveRow == [id : Id, created : Day, valid : BOOLEAN, whole : BOOLEAN]
Gathering == {"snapshot", "list", "zip", "validate"}
Publishing == {"upload", "list archives", "prune"}
JobRow == [pc : {"idle"} \cup Gathering \cup Publishing, id : Id \cup {None},
           created : Day, attempt : 0..Retries, data : Data,
           seen : SUBSET ArchiveRow, cutoff : Int, error : BOOLEAN]

Types ==
    /\ now \in Day
    /\ disk \in [File -> State]
    /\ \A f \in Import : disk[f] # "temporary"
    /\ \A f \in Audio : disk[f] # "partial"
    /\ rows \in SUBSET File
    /\ archives \in SUBSET ArchiveRow /\ remote \in SUBSET ArchiveRow
    /\ job \in [Job -> JobRow]
    /\ status \in [last : Id \cup {None}, failure : BOOLEAN]
    /\ begun \in Id /\ faults \in 0..MaxFaults

(* A file that rows refer to is complete, and stays so. *)
RowsComplete == \A f \in rows : disk[f] = "full"

(* So is every file of the rows a job has copied, when it is listed and    *)
(* when it is archived: the database is copied first.                      *)
Full(f) == [file |-> f, state |-> "full"]

SnapshotComplete == \A j \in Job : \A f \in job[j].data.rows :
    /\ job[j].pc \in {"list", "zip", "validate"} => disk[f] = "full"
    /\ job[j].pc \in {"zip", "validate"} => Full(f) \in job[j].data.manifest
    /\ job[j].pc = "validate" => Full(f) \in job[j].data.content

ArchivesGood == \A a \in archives \cup remote : a.valid /\ a.whole

(* The cutoff of a pruning is never ahead of the retention. *)
InTime == \A j \in Job : job[j].pc = "prune" => job[j].cutoff <= now - Retention

(* What a job has published is still there while it uploads and prunes,    *)
(* as long as the archives of its day do not expire.                       *)
OwnArchive(r) == {a \in archives : a.id = r.id /\ a.created = r.created}
OwnIsKept == \A j \in Job :
    job[j].pc \in Publishing => Outlived(j) \/ OwnArchive(job[j]) # {}

(* Ids are given away once. *)
IdsFresh ==
    /\ \A a \in archives \cup remote : a.id <= begun
    /\ \A a, b \in archives \cup remote : a.id = b.id => a = b
    /\ \A j \in Job : job[j].pc # "idle" => job[j].id \in 1..begun
    /\ \A j \in Job : job[j].pc \in Gathering =>
          \A a \in archives \cup remote : a.id # job[j].id
    /\ \A j, k \in Job : job[j].pc # "idle" /\ job[k].pc # "idle" /\ j # k =>
          job[j].id # job[k].id

IInv == /\ Types /\ RowsComplete /\ SnapshotComplete /\ ArchivesGood
        /\ InTime /\ OwnIsKept /\ IdsFresh
-----------------------------------------------------------------------------
(* Type correctness. *)

LEMMA IdleTyped == IdleJob \in JobRow
BY BackupsAssumption DEF IdleJob, JobRow, Data, Nothing, Day

(* Starting all over, or giving up, keeps jobs and stores well typed. *)
LEMMA AttemptsTypes ==
  ASSUME Types, NEW j \in Job, Attempts(j) \/ Fails(j)
  PROVE  /\ job' \in [Job -> JobRow]
         /\ archives' \in SUBSET ArchiveRow /\ remote' \in SUBSET ArchiveRow
         /\ status' \in [last : Id \cup {None}, failure : BOOLEAN]
<1> USE BackupsAssumption
<1>2. Fails(j) => job' \in [Job -> JobRow]
  BY IdleTyped DEF Fails, Types
<1>3. CASE job[j].attempt < Retries /\ Attempts(j)
  <2>1. job[j] \in JobRow
    BY DEF Types
  <2>2. job[j].attempt + 1 \in 0..Retries
    BY <1>3, <2>1 DEF JobRow
  <2>3. [job[j] EXCEPT !.pc = "snapshot", !.attempt = @ + 1, !.data = Nothing] \in JobRow
    BY <2>1, <2>2 DEF JobRow, Gathering, Data, Nothing
  <2> QED
    BY <1>3, <2>3 DEF Attempts, Types, stores
<1> QED
  BY <1>2, <1>3 DEF Attempts, Fails, Types, stores

LEMMA TypesInit == Init => Types
BY BackupsAssumption
   DEF Init, Types, Earlier, ArchiveRow, IdleJob, NoStatus, JobRow, Data, Nothing,
       Day, Id, State, File

LEMMA TypesStep ==
  ASSUME Types, IdsFresh, [Next]_vars
  PROVE  Types'
<1> USE BackupsAssumption
<1> USE DEF vars, writers, stores, service
<1>1. CASE UNCHANGED vars
  BY <1>1 DEF Types
<1>2. ASSUME NEW f \in Import, WriteImport(f) PROVE Types'
  BY <1>2 DEF WriteImport, Writes, Types, State, File
<1>3. ASSUME NEW f \in Audio, InstallAudio(f) PROVE Types'
  BY <1>3 DEF InstallAudio, Writes, Types, State, File
<1>4. ASSUME NEW f \in File, CommitRow(f) PROVE Types'
  BY <1>4 DEF CommitRow, Types
<1>5. ASSUME NEW j \in Job, NEW r \in JobRow, job' = [job EXCEPT ![j] = r],
             UNCHANGED <<now, writers, begun>>,
             archives' \in SUBSET ArchiveRow, remote' \in SUBSET ArchiveRow,
             status' \in [last : Id \cup {None}, failure : BOOLEAN],
             faults' = faults \/ Fault
      PROVE  Types'
  BY <1>5 DEF Types, Fault
<1>6. ASSUME NEW j \in Job, Attempts(j) \/ Fails(j), UNCHANGED begun,
             UNCHANGED faults \/ Fault, Outside
      PROVE  Types'
  <2>1. faults' \in 0..MaxFaults
    BY <1>6 DEF Types, Fault
  <2> QED
    BY <1>6, <2>1, AttemptsTypes DEF Types, Outside
<1>7. ASSUME NEW j \in Job, Begin(j) PROVE Types'
  <2>1. begun + 1 \in Id
    BY <1>7 DEF Begin, Types, Id
  <2>2. [IdleJob EXCEPT !.pc = "snapshot", !.id = begun + 1, !.created = now] \in JobRow
    BY <2>1, IdleTyped DEF Types, JobRow, Gathering
  <2> QED
    BY <1>7, <2>1, <2>2 DEF Begin, Types, Outside
<1>8. ASSUME NEW j \in Job,
             Snapshot(j) \/ ListFiles(j) \/ Zip(j) \/ Publish(j) \/ Upload(j)
                \/ UploadFails(j) \/ ListArchives(j) \/ Finish(j)
      PROVE  Types'
  <2>0. job[j] \in JobRow /\ job[j].data \in Data
    BY DEF Types, JobRow
  <2>1. CASE Snapshot(j)
    <3>1. [job[j] EXCEPT !.pc = "list", !.data.rows = rows] \in JobRow
      BY <2>0 DEF Types, JobRow, Gathering, Data
    <3> QED
      BY <2>1, <3>1, <1>5 DEF Snapshot, Outside, Types
  <2>2. CASE ListFiles(j)
    <3>1. {Read(f) : f \in {g \in File : disk[g] # "none"}} \in SUBSET Reading
      BY DEF Read, Reading, Types
    <3>2. [job[j] EXCEPT !.pc = "zip",
             !.data.manifest = {Read(f) : f \in {g \in File : disk[g] # "none"}}] \in JobRow
      BY <2>0, <3>1 DEF JobRow, Gathering, Data
    <3> QED
      BY <2>2, <3>2, <1>5 DEF ListFiles, Outside, Types
  <2>3. CASE Zip(j)
    <3>1. {Read(r.file) : r \in job[j].data.manifest} \in SUBSET Reading
      BY <2>0 DEF Read, Reading, Types, Data
    <3>2. [job[j] EXCEPT !.pc = "validate",
             !.data.content = {Read(r.file) : r \in job[j].data.manifest}] \in JobRow
      BY <2>0, <3>1 DEF JobRow, Gathering, Data
    <3> QED
      BY <2>3, <3>2, <1>5 DEF Zip, Outside, Types
  <2>4. CASE Publish(j)
    <3>1. job[j].id \in Id
      <4>1. job[j].id \in 1..begun
        BY <2>4 DEF Publish, At, IdsFresh
      <4> QED
        BY <4>1 DEF Types, Id
    <3>2. Archive(j) \in ArchiveRow
      BY <2>0, <3>1 DEF Archive, ArchiveRow, JobRow, Whole
    <3>3. ASSUME NEW p \in Publishing
          PROVE  [job[j] EXCEPT !.pc = p, !.attempt = 0, !.data = Nothing] \in JobRow
      <4>1. Nothing \in Data /\ 0 \in 0..Retries
        BY DEF Nothing, Data
      <4> QED
        BY <2>0, <4>1 DEF JobRow
    <3>4. (IF Remote THEN "upload" ELSE "list archives") \in Publishing
      BY DEF Publishing
    <3> QED
      BY <2>4, <3>2, <3>3, <3>4, <1>5 DEF Publish, Outside, Types
  <2>5. CASE Upload(j)
    <3>1. [job[j] EXCEPT !.pc = "list archives"] \in JobRow
      BY <2>0 DEF JobRow, Publishing
    <3>2. remote' \in SUBSET ArchiveRow
      <4>1. remote \cup Own(j) \in SUBSET ArchiveRow
        BY DEF Own, Types
      <4>2. remote' \subseteq remote \cup Own(j)
        BY <2>5 DEF Upload
      <4> QED
        BY <4>1, <4>2
    <3> QED
      BY <2>5, <3>1, <3>2, <1>5 DEF Upload, Goes, Outside, Types
  <2>6. CASE UploadFails(j)
    <3>1. CASE job[j].attempt < Retries
      <4>1. job[j].attempt + 1 \in 0..Retries
        BY <2>0, <3>1 DEF JobRow
      <4>2. [job[j] EXCEPT !.attempt = @ + 1, !.error = TRUE] \in JobRow
        BY <2>0, <4>1 DEF JobRow
      <4>3. job' = [job EXCEPT ![j] = [job[j] EXCEPT !.attempt = @ + 1, !.error = TRUE]]
        BY <2>6, <3>1 DEF UploadFails, Types
      <4>4. status' \in [last : Id \cup {None}, failure : BOOLEAN]
        BY <2>6, <3>1 DEF UploadFails, Types
      <4> QED
        BY <2>6, <4>2, <4>3, <4>4, <1>5 DEF UploadFails, Outside, Types
    <3>2. CASE ~(job[j].attempt < Retries)
      <4>1. [job[j] EXCEPT !.pc = "list archives", !.error = TRUE] \in JobRow
        BY <2>0 DEF JobRow, Publishing
      <4>2. job' = [job EXCEPT ![j] = [job[j] EXCEPT !.pc = "list archives", !.error = TRUE]]
        BY <2>6, <3>2 DEF UploadFails, Types
      <4>3. status' \in [last : Id \cup {None}, failure : BOOLEAN]
        BY <2>6, <3>2 DEF UploadFails, Types
      <4> QED
        BY <2>6, <4>1, <4>2, <4>3, <1>5 DEF UploadFails, Outside, Types
    <3> QED
      BY <3>1, <3>2
  <2>7. CASE ListArchives(j)
    <3>1. now - Retention \in Int
      BY DEF Types, Day
    <3>2. [job[j] EXCEPT !.pc = "prune", !.seen = archives, !.cutoff = now - Retention] \in JobRow
      BY <2>0, <3>1 DEF JobRow, Publishing, Types
    <3> QED
      BY <2>7, <3>2, <1>5 DEF ListArchives, Outside, Types
  <2>8. CASE Finish(j)
    <3>1. [last |-> job[j].id, failure |-> IF job[j].error THEN status.failure ELSE FALSE]
             \in [last : Id \cup {None}, failure : BOOLEAN]
      BY <2>0 DEF JobRow, Types
    <3> QED
      BY <2>8, <3>1, <1>5, IdleTyped DEF Finish, Outside, Types
  <2> QED
    BY <1>8, <2>1, <2>2, <2>3, <2>4, <2>5, <2>6, <2>7, <2>8
<1>9. ASSUME NEW j \in Job, ZipMisses(j) \/ GatherFails(j) \/ Refused(j) \/ PruneRaises(j)
      PROVE  Types'
  BY <1>6, <1>9 DEF ZipMisses, GatherFails, Refused, PruneRaises
<1>10. CASE TimePasses
  BY <1>10 DEF TimePasses, Types
<1>11. CASE Crash
  BY <1>11, IdleTyped DEF Crash, Fault, Types, NoStatus
<1> QED
  BY <1>1, <1>2, <1>3, <1>4, <1>7, <1>8, <1>9, <1>10, <1>11 DEF Next, Works
-----------------------------------------------------------------------------
(* Files and archives. *)

(* A complete file is never written again. *)
LEMMA FullStays ==
  ASSUME Types, [Next]_vars, NEW f \in File, disk[f] = "full"
  PROVE  disk'[f] = "full"
<1> USE DEF vars, writers, stores, service, Outside
<1>1. CASE UNCHANGED disk
  BY <1>1
<1>2. ASSUME NEW g \in Import, WriteImport(g) PROVE disk'[f] = "full"
  BY <1>2 DEF WriteImport, Writes, Types, File
<1>3. ASSUME NEW g \in Audio, InstallAudio(g) PROVE disk'[f] = "full"
  BY <1>3 DEF InstallAudio, Writes, Types, File
<1>4. CASE (\E g \in File : CommitRow(g)) \/ TimePasses \/ Crash
  BY <1>1, <1>4 DEF CommitRow, TimePasses, Crash
<1>5. ASSUME NEW j \in Job, Begin(j) \/ Works(j) \/ GatherFails(j) \/ UploadFails(j)
      PROVE  UNCHANGED disk
  BY <1>5 DEF Begin, Works, Snapshot, ListFiles, Zip, ZipMisses, Publish, Refused,
              Upload, ListArchives, PruneRaises, Finish, GatherFails, UploadFails
<1> QED
  BY <1>1, <1>2, <1>3, <1>4, <1>5 DEF Next

(* Rows are added for complete files only. *)
LEMMA RowsStep ==
  ASSUME Types, RowsComplete, [Next]_vars
  PROVE  RowsComplete'
<1> USE DEF vars, writers, stores, service, Outside
<1>1. CASE UNCHANGED rows
  BY <1>1, FullStays DEF RowsComplete, Types
<1>2. ASSUME NEW g \in File, CommitRow(g) PROVE RowsComplete'
  BY <1>2 DEF CommitRow, RowsComplete, Types
<1>3. (\E g \in Import : WriteImport(g)) \/ (\E g \in Audio : InstallAudio(g))
         \/ TimePasses \/ Crash => UNCHANGED rows
  BY DEF WriteImport, InstallAudio, Writes, TimePasses, Crash
<1>4. ASSUME NEW j \in Job, Begin(j) \/ Works(j) \/ GatherFails(j) \/ UploadFails(j)
      PROVE  UNCHANGED rows
  BY <1>4 DEF Begin, Works, Snapshot, ListFiles, Zip, ZipMisses, Publish, Refused,
              Upload, ListArchives, PruneRaises, Finish, GatherFails, UploadFails
<1> QED
  BY <1>1, <1>2, <1>3, <1>4 DEF Next

(* What a step of job j can do: it changes its own row, unless the process *)
(* dies, and other steps leave the jobs alone.                             *)
LEMMA JobStep ==
  ASSUME Types, [Next]_vars
  PROVE  \/ UNCHANGED job
         \/ job' = [j \in Job |-> IdleJob]
         \/ \E j \in Job : /\ Begin(j) \/ Works(j) \/ GatherFails(j) \/ UploadFails(j)
                           /\ \A k \in Job \ {j} : job'[k] = job[k]
<1> USE DEF vars, writers, stores, service, Outside
<1>1. CASE (\E g \in Import : WriteImport(g)) \/ (\E g \in Audio : InstallAudio(g))
              \/ (\E g \in File : CommitRow(g)) \/ TimePasses \/ UNCHANGED vars
  BY <1>1 DEF WriteImport, InstallAudio, Writes, CommitRow, TimePasses
<1>2. CASE Crash
  BY <1>2 DEF Crash
<1>3. ASSUME NEW j \in Job, Begin(j) \/ Works(j) \/ GatherFails(j) \/ UploadFails(j)
      PROVE  \A k \in Job \ {j} : job'[k] = job[k]
  <2>1. CASE Begin(j) \/ Snapshot(j) \/ ListFiles(j) \/ Zip(j)
    BY <2>1 DEF Begin, Snapshot, ListFiles, Zip, Types
  <2>2. CASE ZipMisses(j) \/ GatherFails(j) \/ Refused(j) \/ PruneRaises(j)
    BY <2>2 DEF ZipMisses, GatherFails, Refused, PruneRaises, Attempts, Fails, Types
  <2>3. CASE Publish(j) \/ Upload(j)
    BY <2>3 DEF Publish, Upload, Goes, Types
  <2>4. CASE UploadFails(j)
    BY <2>4 DEF UploadFails, Types
  <2>5. CASE ListArchives(j) \/ Finish(j)
    BY <2>5 DEF ListArchives, Finish, Types
  <2> QED
    BY <1>3, <2>1, <2>2, <2>3, <2>4, <2>5 DEF Works
<1> QED
  BY <1>1, <1>2, <1>3 DEF Next

(* Where the steps of create_backup lead, and what they keep of a job. *)
Keeps(j) == job'[j].id = job[j].id /\ job'[j].created = job[j].created
Becomes(j, r) == job' = [job EXCEPT ![j] = r]

LEMMA Moves ==
  ASSUME Types, NEW j \in Job
  PROVE  /\ Begin(j) => /\ job'[j].pc = "snapshot" /\ job'[j].id = begun + 1
                        /\ job'[j].created = now
         /\ Snapshot(j) \/ ListFiles(j) \/ Zip(j) =>
               Keeps(j) /\ job[j].pc \in Gathering /\ job'[j].pc \in Gathering
         /\ Attempts(j) => \/ job'[j] = IdleJob
                           \/ Keeps(j) /\ job'[j].pc = "snapshot"
         /\ Publish(j) => /\ Keeps(j) /\ job[j].pc \in Gathering
                          /\ job'[j].pc \in {"upload", "list archives"}
         /\ Upload(j) \/ UploadFails(j) =>
               /\ Keeps(j) /\ job[j].pc = "upload"
               /\ job'[j].pc \in {"upload", "list archives"}
         /\ ListArchives(j) =>
               /\ Keeps(j) /\ job[j].pc = "list archives" /\ job'[j].pc = "prune"
               /\ job'[j].cutoff = now - Retention
         /\ Fails(j) \/ Finish(j) => job'[j] = IdleJob
<1>0. job[j] \in JobRow
  BY DEF Types
<1>1. Begin(j) => /\ job'[j].pc = "snapshot" /\ job'[j].id = begun + 1
                  /\ job'[j].created = now
  BY DEF Begin, Types, IdleJob
<1>2. Snapshot(j) \/ ListFiles(j) \/ Zip(j) =>
         Keeps(j) /\ job[j].pc \in Gathering /\ job'[j].pc \in Gathering
  <2>1. Snapshot(j) => Keeps(j) /\ job'[j].pc = "list" /\ job[j].pc = "snapshot"
    BY <1>0 DEF Snapshot, At, Types, JobRow, Keeps
  <2>2. ListFiles(j) => Keeps(j) /\ job'[j].pc = "zip" /\ job[j].pc = "list"
    BY <1>0 DEF ListFiles, At, Types, JobRow, Keeps
  <2>3. Zip(j) => Keeps(j) /\ job'[j].pc = "validate" /\ job[j].pc = "zip"
    BY <1>0 DEF Zip, At, Types, JobRow, Keeps
  <2> QED
    BY <2>1, <2>2, <2>3 DEF Gathering
<1>3. Fails(j) \/ Finish(j) => job'[j] = IdleJob
  BY DEF Fails, Finish, Types
<1>4. Attempts(j) => job'[j] = IdleJob \/ (Keeps(j) /\ job'[j].pc = "snapshot")
  <2>1. CASE ~(job[j].attempt < Retries)
    BY <1>3, <2>1 DEF Attempts
  <2>2. CASE job[j].attempt < Retries
    <3> DEFINE r == [job[j] EXCEPT !.pc = "snapshot", !.attempt = @ + 1, !.data = Nothing]
    <3>1. Attempts(j) => Becomes(j, r)
      BY <2>2 DEF Attempts, Types, Becomes
    <3>2. r.id = job[j].id /\ r.created = job[j].created /\ r.pc = "snapshot"
      BY <1>0 DEF JobRow
    <3> HIDE DEF r
    <3> QED
      BY <3>1, <3>2 DEF Becomes, Types, Keeps
  <2> QED
    BY <2>1, <2>2
<1>5. Publish(j) => /\ Keeps(j) /\ job[j].pc \in Gathering
                    /\ job'[j].pc \in {"upload", "list archives"}
  <2> DEFINE p == IF Remote THEN "upload" ELSE "list archives"
             r == [job[j] EXCEPT !.pc = p, !.attempt = 0, !.data = Nothing]
  <2>1. Publish(j) => Becomes(j, r)
    BY DEF Publish, Types, Becomes
  <2>2. p \in {"upload", "list archives"}
    OBVIOUS
  <2> HIDE DEF p
  <2>3. r.id = job[j].id /\ r.created = job[j].created /\ r.pc = p
    BY <1>0 DEF JobRow
  <2> HIDE DEF r
  <2> QED
    BY <2>1, <2>2, <2>3 DEF Publish, At, Becomes, Types, Keeps, Gathering
<1>6. Upload(j) => /\ Keeps(j) /\ job[j].pc = "upload"
                   /\ job'[j].pc = "list archives"
  <2> DEFINE r == [job[j] EXCEPT !.pc = "list archives"]
  <2>1. Upload(j) => Becomes(j, r)
    BY DEF Upload, Goes, Types, Becomes
  <2>2. r.id = job[j].id /\ r.created = job[j].created /\ r.pc = "list archives"
    BY <1>0 DEF JobRow
  <2> HIDE DEF r
  <2> QED
    BY <2>1, <2>2 DEF Upload, At, Becomes, Types, Keeps
<1>7. UploadFails(j) => /\ Keeps(j) /\ job[j].pc = "upload"
                        /\ job'[j].pc \in {"upload", "list archives"}
  <2> DEFINE r == [job[j] EXCEPT !.attempt = @ + 1, !.error = TRUE]
             q == [job[j] EXCEPT !.pc = "list archives", !.error = TRUE]
  <2>1. UploadFails(j) => Becomes(j, r) \/ Becomes(j, q)
    BY DEF UploadFails, Types, Becomes
  <2>2. r.id = job[j].id /\ r.created = job[j].created /\ r.pc = job[j].pc
    BY <1>0 DEF JobRow
  <2>3. q.id = job[j].id /\ q.created = job[j].created /\ q.pc = "list archives"
    BY <1>0 DEF JobRow
  <2> HIDE DEF r, q
  <2> QED
    BY <2>1, <2>2, <2>3 DEF UploadFails, At, Becomes, Types, Keeps
<1>8. ListArchives(j) =>
         /\ Keeps(j) /\ job[j].pc = "list archives" /\ job'[j].pc = "prune"
         /\ job'[j].cutoff = now - Retention
  <2> DEFINE r == [job[j] EXCEPT !.pc = "prune", !.seen = archives, !.cutoff = now - Retention]
  <2>1. ListArchives(j) => Becomes(j, r)
    BY DEF ListArchives, Types, Becomes
  <2>2. /\ r.id = job[j].id /\ r.created = job[j].created /\ r.pc = "prune"
        /\ r.cutoff = now - Retention
    BY <1>0 DEF JobRow
  <2> HIDE DEF r
  <2> QED
    BY <2>1, <2>2 DEF ListArchives, At, Becomes, Types, Keeps
<1> QED
  BY <1>1, <1>2, <1>3, <1>4, <1>5, <1>6, <1>7, <1>8

(* The part of SnapshotComplete that is about one job. *)
CompleteFor(r) == \A f \in r.data.rows :
    /\ r.pc \in {"list", "zip", "validate"} => disk[f] = "full"
    /\ r.pc \in {"zip", "validate"} => Full(f) \in r.data.manifest
    /\ r.pc = "validate" => Full(f) \in r.data.content

LEMMA SnapshotStep ==
  ASSUME Types, RowsComplete, SnapshotComplete, [Next]_vars
  PROVE  SnapshotComplete'
<1>1. ASSUME NEW j \in Job, job'[j] = job[j] PROVE CompleteFor(job[j])'
  <2>1. job[j].data.rows \in SUBSET File
    BY DEF Types, JobRow, Data
  <2> QED
    BY <1>1, <2>1, FullStays DEF SnapshotComplete, CompleteFor
<1>2. CompleteFor(IdleJob)'
  BY DEF CompleteFor, IdleJob, Nothing
<1>3. ASSUME NEW j \in Job, Begin(j) \/ Works(j) \/ GatherFails(j) \/ UploadFails(j)
      PROVE  CompleteFor(job[j])'
  <2>0. job[j] \in JobRow /\ job[j].data \in Data /\ disk \in [File -> State]
    BY DEF Types, JobRow
  <2>1. CASE Begin(j)
    <3>1. job'[j].pc = "snapshot"
      BY <2>1, Moves
    <3> QED
      BY <3>1 DEF CompleteFor
  <2>2. CASE Snapshot(j)
    <3>1. job'[j].pc = "list" /\ job'[j].data.rows = rows /\ disk' = disk
      BY <2>0, <2>2 DEF Snapshot, Types, Outside, writers, JobRow, Data
    <3> QED
      BY <3>1 DEF CompleteFor, RowsComplete
  <2>3. CASE ListFiles(j)
    <3>1. /\ job'[j].pc = "zip" /\ job'[j].data.rows = job[j].data.rows
          /\ job'[j].data.manifest = {Read(f) : f \in {g \in File : disk[g] # "none"}}
          /\ job[j].pc = "list" /\ disk' = disk
      BY <2>0, <2>3 DEF ListFiles, At, Types, Outside, writers, JobRow, Data
    <3>2. \A f \in job[j].data.rows : disk[f] = "full" /\ f \in File
      BY <2>0, <3>1 DEF SnapshotComplete, Data
    <3>3. \A f \in job[j].data.rows : Full(f) = Read(f)
      BY <3>2 DEF Full, Read
    <3>4. \A f \in job[j].data.rows : Full(f) \in job'[j].data.manifest
      BY <3>1, <3>2, <3>3
    <3> QED
      BY <3>1, <3>2, <3>4 DEF CompleteFor
  <2>4. CASE Zip(j)
    <3>1. /\ job'[j].pc = "validate" /\ job'[j].data.rows = job[j].data.rows
          /\ job'[j].data.manifest = job[j].data.manifest
          /\ job'[j].data.content = {Read(r.file) : r \in job[j].data.manifest}
          /\ job[j].pc = "zip" /\ disk' = disk
      BY <2>0, <2>4 DEF Zip, At, Types, Outside, writers, JobRow, Data
    <3>2. \A f \in job[j].data.rows : disk[f] = "full" /\ Full(f) \in job[j].data.manifest
      BY <3>1 DEF SnapshotComplete
    <3>3. \A f \in job[j].data.rows : Full(f) = Read(Full(f).file)
      BY <3>2 DEF Full, Read
    <3>4. \A f \in job[j].data.rows : Full(f) \in job'[j].data.content
      BY <3>1, <3>2, <3>3
    <3> QED
      BY <3>1, <3>2, <3>4 DEF CompleteFor
  <2>5. CASE ZipMisses(j) \/ GatherFails(j) \/ Refused(j) \/ PruneRaises(j)
    <3>1. job'[j].pc = "snapshot" \/ job'[j] = IdleJob
      BY <2>5, Moves DEF ZipMisses, GatherFails, Refused, PruneRaises
    <3> QED
      BY <3>1 DEF CompleteFor, IdleJob
  <2>6. CASE Publish(j) \/ Upload(j) \/ UploadFails(j) \/ ListArchives(j) \/ Finish(j)
    <3>1. job'[j].pc \in Publishing \/ job'[j] = IdleJob
      BY <2>6, Moves DEF Publishing
    <3> QED
      <4>1. IdleJob.pc = "idle"
        BY DEF IdleJob
      <4>2. job'[j].pc \notin {"list", "zip", "validate"}
        BY <3>1, <4>1 DEF Publishing
      <4> QED
        BY <4>2 DEF CompleteFor
  <2> QED
    BY <1>3, <2>1, <2>2, <2>3, <2>4, <2>5, <2>6 DEF Works
<1>4. ASSUME NEW j \in Job PROVE CompleteFor(job[j])'
  BY <1>1, <1>2, <1>3, JobStep
<1> QED
  BY <1>4 DEF SnapshotComplete, CompleteFor

(* An archive is published from a validated job, so it is what its         *)
(* manifest says, and holds every file of its rows.                        *)
LEMMA ArchivesStep ==
  ASSUME Types, SnapshotComplete, ArchivesGood, [Next]_vars
  PROVE  ArchivesGood'
<1> USE DEF vars, writers, stores, service, Outside
<1>1. ASSUME archives' \subseteq archives, remote' \subseteq remote \cup archives
      PROVE  ArchivesGood'
  BY <1>1 DEF ArchivesGood
<1>2. CASE (\E g \in Import : WriteImport(g)) \/ (\E g \in Audio : InstallAudio(g))
              \/ (\E g \in File : CommitRow(g)) \/ TimePasses \/ Crash
  BY <1>1, <1>2 DEF WriteImport, InstallAudio, Writes, CommitRow, TimePasses, Crash
<1>3. ASSUME NEW j \in Job,
             Begin(j) \/ Snapshot(j) \/ ListFiles(j) \/ Zip(j) \/ ZipMisses(j)
                \/ GatherFails(j) \/ Refused(j) \/ Upload(j) \/ UploadFails(j)
                \/ ListArchives(j) \/ PruneRaises(j) \/ Finish(j)
      PROVE  archives' \subseteq archives /\ remote' \subseteq remote \cup archives
  BY <1>3 DEF Begin, Snapshot, ListFiles, Zip, ZipMisses, GatherFails, Refused, Upload,
              UploadFails, ListArchives, PruneRaises, Finish, Attempts, Fails, Own
<1>4. ASSUME NEW j \in Job, Publish(j) PROVE ArchivesGood'
  <2>1. Archive(j).valid
    BY <1>4 DEF Publish, Valid, Archive
  <2>2. \A f \in job[j].data.rows : Full(f) \in job[j].data.content
    BY <1>4 DEF Publish, At, SnapshotComplete
  <2>3. Archive(j).whole
    <3>1. ASSUME NEW f \in job[j].data.rows PROVE f \in Complete(job[j].data.content)
      <4>1. /\ Full(f) \in job[j].data.content
            /\ Full(f).state = "full" /\ Full(f).file = f
        BY <2>2, <3>1 DEF Full
      <4> QED
        BY <4>1 DEF Complete
    <3> QED
      BY <3>1 DEF Archive, Whole
  <2> QED
    BY <1>4, <2>1, <2>3 DEF Publish, ArchivesGood
<1> QED
  BY <1>1, <1>2, <1>3, <1>4 DEF Next, Works
-----------------------------------------------------------------------------
(* Time and retention. *)

(* The clock is moved by TimePasses only; begun by Begin only; archives    *)
(* are added by Publish and taken away by Finish only.                     *)
LEMMA StoreStep ==
  ASSUME [Next]_vars
  PROVE  /\ UNCHANGED now \/ (TimePasses /\ UNCHANGED job)
         /\ \/ archives \subseteq archives'
            \/ \E j \in Job : Finish(j)
         /\ \/ archives' \subseteq archives /\ remote' \subseteq remote \cup archives
            \/ \E j \in Job : Publish(j)
         /\ \/ UNCHANGED begun
            \/ \E j \in Job : Begin(j)
<1> USE DEF vars, writers, stores, service, Outside
<1>1. CASE (\E g \in Import : WriteImport(g)) \/ (\E g \in Audio : InstallAudio(g))
              \/ (\E g \in File : CommitRow(g)) \/ TimePasses \/ Crash \/ UNCHANGED vars
  BY <1>1 DEF WriteImport, InstallAudio, Writes, CommitRow, TimePasses, Crash
<1>2. ASSUME NEW j \in Job, Begin(j) \/ Works(j) \/ GatherFails(j) \/ UploadFails(j)
      PROVE  /\ UNCHANGED now
             /\ archives \subseteq archives' \/ Finish(j)
             /\ \/ archives' \subseteq archives /\ remote' \subseteq remote \cup archives
                \/ Publish(j)
             /\ UNCHANGED begun \/ Begin(j)
  BY <1>2 DEF Begin, Works, Snapshot, ListFiles, Zip, ZipMisses, GatherFails, Publish,
              Refused, Upload, UploadFails, ListArchives, PruneRaises, Finish,
              Attempts, Fails, Own
<1> QED
  BY <1>1, <1>2 DEF Next

(* The steps of a job, by where they lead. *)
LEMMA JobMoves ==
  ASSUME Types, NEW j \in Job, Begin(j) \/ Works(j) \/ GatherFails(j) \/ UploadFails(j)
  PROVE  \/ Begin(j)
         \/ job'[j] = IdleJob
         \/ Keeps(j) /\ job[j].pc \in Gathering /\ job'[j].pc \in Gathering
         \/ Publish(j)
         \/ Keeps(j) /\ job[j].pc \in Publishing
              /\ job'[j].pc \in {"upload", "list archives"}
         \/ Keeps(j) /\ job[j].pc \in Publishing /\ job'[j].pc = "prune"
              /\ job'[j].cutoff = now - Retention
<1>1. CASE Begin(j) \/ Snapshot(j) \/ ListFiles(j) \/ Zip(j) \/ Publish(j) \/ Finish(j)
  BY <1>1, Moves
<1>2. CASE Refused(j) \/ PruneRaises(j)
  BY <1>2, Moves DEF Refused, PruneRaises
<1>3. CASE ZipMisses(j) \/ GatherFails(j)
  BY <1>3, Moves DEF ZipMisses, GatherFails, At, Gathering
<1>4. CASE Upload(j) \/ UploadFails(j) \/ ListArchives(j)
  BY <1>4, Moves DEF Publishing
<1> QED
  BY <1>1, <1>2, <1>3, <1>4 DEF Works

TimelyAt(r, t) == r.pc = "prune" => r.cutoff <= t - Retention

LEMMA TimeStep ==
  ASSUME Types, InTime, [Next]_vars
  PROVE  InTime'
<1> USE BackupsAssumption DEF Day
<1>0. /\ now \in Int
      /\ \A k \in Job : job[k].created \in Int /\ job[k].cutoff \in Int
  BY DEF Types, JobRow
<1>1. IdleJob.pc = "idle"
  BY DEF IdleJob
<1>2. CASE TimePasses /\ UNCHANGED job
  <2>1. ASSUME NEW k \in Job PROVE TimelyAt(job[k], now + 1)
    BY <1>0, <1>2, <2>1 DEF TimePasses, At, InTime, TimelyAt
  <2>2. now' = now + 1
    BY <1>2 DEF TimePasses
  <2> QED
    BY <1>2, <2>1, <2>2 DEF InTime, TimelyAt
<1>3. CASE UNCHANGED now
  <2>1. ASSUME NEW k \in Job, job'[k] = job[k] PROVE TimelyAt(job'[k], now)
    BY <2>1 DEF InTime, TimelyAt
  <2>2. ASSUME NEW k \in Job, job'[k] = IdleJob PROVE TimelyAt(job'[k], now)
    BY <1>1, <2>2 DEF TimelyAt
  <2>3. ASSUME NEW k \in Job, Begin(k) \/ Works(k) \/ GatherFails(k) \/ UploadFails(k)
        PROVE  TimelyAt(job'[k], now)
    <3>1. CASE Begin(k)
      BY <3>1, Moves DEF TimelyAt
    <3>2. CASE Keeps(k) /\ job[k].pc \in Gathering /\ job'[k].pc \in Gathering
      BY <3>2 DEF Keeps, Gathering, InTime, TimelyAt
    <3>3. CASE Publish(k)
      BY <3>3, Moves DEF Keeps, Gathering, InTime, TimelyAt
    <3>4. CASE Keeps(k) /\ job[k].pc \in Publishing
                 /\ job'[k].pc \in {"upload", "list archives"}
      BY <3>4 DEF Keeps, Publishing, InTime, TimelyAt
    <3>5. CASE Keeps(k) /\ job[k].pc \in Publishing /\ job'[k].pc = "prune"
                 /\ job'[k].cutoff = now - Retention
      BY <1>0, <3>5 DEF TimelyAt
    <3> QED
      BY <2>2, <2>3, <3>1, <3>2, <3>3, <3>4, <3>5, JobMoves
  <2>4. ASSUME NEW k \in Job PROVE TimelyAt(job'[k], now)
    BY <2>1, <2>2, <2>3, JobStep
  <2> QED
    BY <1>3, <2>4 DEF InTime, TimelyAt
<1> QED
  BY <1>2, <1>3, StoreStep

(* No pruning takes an archive of a day that does not expire yet. *)
LEMMA YoungIsKept ==
  ASSUME Types, InTime, [Next]_vars, NEW a \in archives, ~(a.created <= now - Retention)
  PROVE  a \in archives'
<1>1. CASE archives \subseteq archives'
  BY <1>1
<1>2. ASSUME NEW j \in Job, Finish(j) PROVE a \in archives'
  <2>1. job[j].cutoff <= now - Retention
    BY <1>2 DEF Finish, At, InTime
  <2>2. /\ now - Retention \in Int /\ job[j].cutoff \in Int /\ a.created \in Int
    BY BackupsAssumption DEF Types, JobRow, ArchiveRow, Day
  <2>3. PICK gone \in Expired(job[j].seen, job[j].cutoff) : archives' = archives \ gone
    BY <1>2 DEF Finish
  <2>4. a \notin gone
    BY <2>1, <2>2, <2>3 DEF Expired
  <2> QED
    BY <2>3, <2>4
<1> QED
  BY <1>1, <1>2, StoreStep

(* Days only pass: what has outlived the retention goes on having done so. *)
LEMMA OutlivedStays ==
  ASSUME Types, [Next]_vars, NEW k \in Job, Outlived(k), Keeps(k)
  PROVE  Outlived(k)'
<1>1. now \in Int /\ Retention \in Int /\ job[k].created \in Int
  BY BackupsAssumption DEF Types, JobRow, Day
<1>2. now' = now \/ now' = now + 1
  BY StoreStep DEF TimePasses
<1> QED
  BY <1>1, <1>2 DEF Outlived, Keeps

LEMMA OwnStep ==
  ASSUME Types, InTime, OwnIsKept, [Next]_vars
  PROVE  OwnIsKept'
<1>1. ASSUME NEW k \in Job, job'[k].pc \in Publishing,
             job[k].pc \in Publishing, Keeps(k)
      PROVE  \/ Outlived(k)'
             \/ \E a \in archives' : a.id = job'[k].id /\ a.created = job'[k].created
  <2>1. CASE Outlived(k)
    BY <1>1, <2>1, OutlivedStays
  <2>2. CASE ~Outlived(k)
    <3>1. PICK a \in archives : a.id = job[k].id /\ a.created = job[k].created
      BY <1>1, <2>2 DEF OwnIsKept, OwnArchive
    <3>2. a \in archives'
      BY <2>2, <3>1, YoungIsKept DEF Outlived
    <3> QED
      BY <1>1, <3>1, <3>2 DEF Keeps
  <2> QED
    BY <2>1, <2>2
<1>2. ASSUME NEW k \in Job, Publish(k)
      PROVE  \E a \in archives' : a.id = job'[k].id /\ a.created = job'[k].created
  <2>1. Archive(k) \in archives'
    BY <1>2 DEF Publish
  <2>2. Archive(k).id = job[k].id /\ Archive(k).created = job[k].created
    BY DEF Archive
  <2> QED
    BY <1>2, <2>1, <2>2, Moves DEF Keeps
<1>3. ASSUME NEW k \in Job, job'[k].pc \in Publishing
      PROVE  Publish(k) \/ (job[k].pc \in Publishing /\ Keeps(k))
  <2>1. CASE job'[k] = job[k]
    BY <1>3, <2>1 DEF Keeps
  <2>2. job'[k] # IdleJob
    <3>1. IdleJob.pc = "idle"
      BY DEF IdleJob
    <3> QED
      BY <1>3, <3>1 DEF Publishing
  <2>3. CASE Begin(k) \/ Works(k) \/ GatherFails(k) \/ UploadFails(k)
    <3>1. ~Begin(k)
      BY <1>3, Moves DEF Publishing
    <3> QED
      BY <1>3, <2>2, <2>3, <3>1, JobMoves DEF Gathering, Publishing
  <2> QED
    BY <2>1, <2>2, <2>3, JobStep
<1>4. ASSUME NEW k \in Job, job'[k].pc \in Publishing
      PROVE  \/ Outlived(k)'
             \/ \E a \in archives' : a.id = job'[k].id /\ a.created = job'[k].created
  BY <1>1, <1>2, <1>3, <1>4
<1> QED
  BY <1>4 DEF OwnIsKept, OwnArchive

(* The remote retention follows the PUT of an archive it does not remove. *)
LEMMA RemoteStep ==
  ASSUME Types, InTime, OwnIsKept, [Next]_vars, remote # {}, remote' = {}
  PROVE  \E j \in Job : At(j, "upload") /\ Outlived(j)
<1> USE DEF vars, writers, stores, service, Outside
<1>1. ~UNCHANGED remote
  OBVIOUS
<1>2. CASE (\E g \in Import : WriteImport(g)) \/ (\E g \in Audio : InstallAudio(g))
              \/ (\E g \in File : CommitRow(g)) \/ TimePasses \/ Crash \/ UNCHANGED vars
  BY <1>1, <1>2 DEF WriteImport, InstallAudio, Writes, CommitRow, TimePasses, Crash
<1>3. ASSUME NEW j \in Job,
             Begin(j) \/ Snapshot(j) \/ ListFiles(j) \/ Zip(j) \/ ZipMisses(j)
                \/ GatherFails(j) \/ Publish(j) \/ Refused(j) \/ UploadFails(j)
                \/ ListArchives(j) \/ PruneRaises(j) \/ Finish(j)
      PROVE  UNCHANGED remote
  BY <1>3 DEF Begin, Snapshot, ListFiles, Zip, ZipMisses, GatherFails, Publish, Refused,
              UploadFails, ListArchives, PruneRaises, Finish, Attempts, Fails
<1>4. ASSUME NEW j \in Job, Upload(j), ~Outlived(j) PROVE FALSE
  <2>1. job[j].pc = "upload"
    BY <1>4 DEF Upload, At
  <2>2. PICK a \in archives : a.id = job[j].id /\ a.created = job[j].created
    BY <1>4, <2>1 DEF OwnIsKept, OwnArchive, Publishing
  <2>3. ~(a.created <= now - Retention)
    BY <1>4, <2>2 DEF Outlived
  <2>4. PICK gone \in Expired(remote \cup Own(j), now - Retention) :
           (remote \cup Own(j)) \ gone \subseteq remote'
    BY <1>4 DEF Upload
  <2>5. a \in Own(j) /\ a \notin gone
    BY <2>2, <2>3, <2>4 DEF Own, Expired
  <2> QED
    BY <2>4, <2>5
<1>5. ASSUME NEW j \in Job, Upload(j) PROVE At(j, "upload")
  BY <1>5 DEF Upload
<1> QED
  BY <1>1, <1>2, <1>3, <1>4, <1>5 DEF Next, Works
-----------------------------------------------------------------------------
(* Ids. *)

(* Once given, an id stays with its job and its archive. *)
LEMMA IdsStep ==
  ASSUME Types, IdsFresh, [Next]_vars
  PROVE  IdsFresh'
<1> USE DEF Gathering, Publishing
<1>0. /\ begun \in Nat /\ IdleJob.pc = "idle"
      /\ \A a \in archives \cup remote : a.id \in Nat
  BY BackupsAssumption DEF Types, Id, ArchiveRow, IdleJob
<1>1. \/ UNCHANGED begun /\ \A k \in Job : ~Begin(k)
      \/ \E j \in Job : Begin(j)
  BY StoreStep
<1>2. ASSUME NEW k \in Job, job'[k].pc # "idle", UNCHANGED begun
      PROVE  /\ job[k].pc # "idle" /\ job'[k].id = job[k].id
             /\ job'[k].pc \in Gathering => job[k].pc \in Gathering
  <2>1. CASE job'[k] = job[k]
    BY <1>2, <2>1
  <2>2. job'[k] # IdleJob
    BY <1>0, <1>2
  <2>3. CASE Begin(k) \/ Works(k) \/ GatherFails(k) \/ UploadFails(k)
    <3>1. ~Begin(k)
      BY <1>0, <1>2 DEF Begin
    <3> QED
      BY <1>2, <2>2, <2>3, <3>1, JobMoves, Moves DEF Keeps
  <2> QED
    BY <2>1, <2>2, <2>3, JobStep
<1>3. CASE UNCHANGED begun /\ archives' \subseteq archives /\ remote' \subseteq remote \cup archives
  BY <1>2, <1>3 DEF IdsFresh
<1>4. ASSUME NEW j \in Job, Publish(j) PROVE IdsFresh'
  <2>1. /\ archives' = archives \cup {Archive(j)} /\ UNCHANGED <<remote, begun>>
        /\ job[j].pc \in Gathering /\ job'[j].pc \in Publishing
    BY <1>4, Moves DEF Publish
  <2>2. Archive(j).id = job[j].id
    BY DEF Archive
  <2>3. \A a \in archives \cup remote : a.id # Archive(j).id
    BY <2>1, <2>2 DEF IdsFresh
  <2>4. \A k \in Job : job'[k].pc # "idle" /\ k # j => job'[k].id # job[j].id
    BY <1>2, <2>1 DEF IdsFresh
  <2>5. Archive(j).id <= begun
    <3>1. job[j].id \in 1..begun
      BY <2>1 DEF IdsFresh
    <3> QED
      BY <1>0, <2>2, <3>1
  <2>6. \A a, b \in archives' \cup remote' : a.id = b.id => a = b
    BY <2>1, <2>3 DEF IdsFresh
  <2>7. \A a \in archives' \cup remote' : a.id <= begun'
    BY <2>1, <2>5 DEF IdsFresh
  <2>8. \A k \in Job : job'[k].pc \in Gathering =>
          \A a \in archives' \cup remote' : a.id # job'[k].id
    <3>1. ASSUME NEW k \in Job, job'[k].pc \in Gathering
          PROVE  /\ \A a \in archives \cup remote : a.id # job'[k].id
                 /\ Archive(j).id # job'[k].id
      <4>1. job'[k].pc # "idle" /\ k # j
        BY <2>1, <3>1
      <4>2. job'[k].id = job[k].id /\ job[k].pc \in Gathering
        BY <1>2, <2>1, <3>1, <4>1
      <4> QED
        BY <2>2, <2>4, <4>1, <4>2 DEF IdsFresh
    <3> QED
      BY <2>1, <3>1
  <2>9. \A k \in Job : job'[k].pc # "idle" => job'[k].id \in 1..begun'
    BY <1>2, <2>1 DEF IdsFresh
  <2>10. ASSUME NEW k \in Job, NEW l \in Job,
                job'[k].pc # "idle", job'[l].pc # "idle", k # l
         PROVE  job'[k].id # job'[l].id
    <3>1. /\ job[k].pc # "idle" /\ job'[k].id = job[k].id
          /\ job[l].pc # "idle" /\ job'[l].id = job[l].id
      BY <1>2, <2>1, <2>10
    <3> QED
      BY <2>10, <3>1 DEF IdsFresh
  <2> QED
    BY <2>6, <2>7, <2>8, <2>9, <2>10 DEF IdsFresh
<1>5. ASSUME NEW j \in Job, Begin(j) PROVE IdsFresh'
  <2>1. /\ UNCHANGED stores /\ begun' = begun + 1
        /\ job'[j].pc = "snapshot" /\ job'[j].id = begun + 1
        /\ \A k \in Job \ {j} : job'[k] = job[k]
    BY <1>5, Moves DEF Begin, Types
  <2>2. \A a \in archives \cup remote : a.id <= begun + 1 /\ a.id # begun + 1
    <3>1. \A a \in archives \cup remote : a.id <= begun
      BY DEF IdsFresh
    <3> QED
      BY <1>0, <3>1
  <2>3. \A k \in Job : job[k].pc # "idle" => job[k].id \in 1..(begun + 1)
                                            /\ job[k].id # begun + 1
    <3>1. \A k \in Job : job[k].pc # "idle" => job[k].id \in 1..begun
      BY DEF IdsFresh
    <3> QED
      BY <1>0, <3>1
  <2>4. begun + 1 \in 1..(begun + 1)
    BY <1>0
  <2>5. \A a, b \in archives' \cup remote' : a.id = b.id => a = b
    BY <2>1 DEF IdsFresh, stores
  <2>6. \A a \in archives' \cup remote' : a.id <= begun'
    BY <2>1, <2>2 DEF stores
  <2>7. \A k \in Job : job'[k].pc \in Gathering =>
          \A a \in archives' \cup remote' : a.id # job'[k].id
    BY <2>1, <2>2 DEF IdsFresh, stores
  <2>8. \A k \in Job : job'[k].pc # "idle" => job'[k].id \in 1..begun'
    BY <2>1, <2>3, <2>4
  <2>9. \A k, l \in Job : job'[k].pc # "idle" /\ job'[l].pc # "idle" /\ k # l =>
              job'[k].id # job'[l].id
    <3>1. \A k, l \in Job \ {j} : job'[k].pc # "idle" /\ job'[l].pc # "idle" /\ k # l =>
              job'[k].id # job'[l].id
      BY <2>1 DEF IdsFresh
    <3>2. \A k \in Job \ {j} : job'[k].pc # "idle" => job'[k].id # begun + 1
      BY <2>1, <2>3
    <3> QED
      BY <2>1, <3>1, <3>2
  <2> QED
    BY <2>5, <2>6, <2>7, <2>8, <2>9 DEF IdsFresh
<1> QED
  BY <1>1, <1>3, <1>4, <1>5, StoreStep
-----------------------------------------------------------------------------
(* The invariant, and what follows from it. *)

LEMMA InitInv == Init => IInv
<1> USE BackupsAssumption
<1> SUFFICES ASSUME Init PROVE IInv
  OBVIOUS
<1>1. Types
  BY TypesInit
<1>2. /\ rows = {} /\ begun = 1
      /\ \A a \in archives \cup remote : a = Earlier
      /\ \A j \in Job : job[j] = IdleJob
  BY DEF Init
<1>3. /\ IdleJob.pc = "idle" /\ IdleJob.data.rows = {}
      /\ Earlier.id = 1 /\ Earlier.valid /\ Earlier.whole
  BY DEF IdleJob, Nothing, Earlier
<1>4. RowsComplete /\ SnapshotComplete /\ ArchivesGood
  BY <1>2, <1>3 DEF RowsComplete, SnapshotComplete, ArchivesGood
<1>5. InTime /\ OwnIsKept
  BY <1>2, <1>3 DEF InTime, OwnIsKept, Publishing
<1>6. IdsFresh
  <2>1. \A j \in Job : job[j].pc = "idle"
    BY <1>2, <1>3
  <2> QED
    BY <1>2, <1>3, <2>1 DEF IdsFresh, Gathering
<1> QED
  BY <1>1, <1>4, <1>5, <1>6 DEF IInv

LEMMA StepInv == IInv /\ [Next]_vars => IInv'
BY TypesStep, RowsStep, SnapshotStep, ArchivesStep, TimeStep, OwnStep, IdsStep DEF IInv

(* The files of committed rows are complete, so are those of the database  *)
(* a job has copied, and a published archive stays until the archives of   *)
(* its day expire.                                                         *)
THEOREM Invariant == Spec => []IInv
BY InitInv, StepInv, PTL DEF Spec

(* Every variable has its type, and no two archives share an id, local and *)
(* remote ones taken together.                                             *)
THEOREM TypeCorrect == Spec => []TypeOK
<1>1. IInv => TypeOK
  BY DEF IInv, Types, IdsFresh, TypeOK, ArchiveRow, JobRow, State, Id, File
<1> QED
  BY <1>1, Invariant, PTL

(* From every archive comes a whole directory: the rows it holds were      *)
(* committed before its files were listed, and each committed row's file   *)
(* was complete by then (create_backup against imports and write_wav_atomic). *)
THEOREM BackupsAreWhole == Spec => []BackupIsWhole
<1>1. IInv => BackupIsWhole
  BY DEF IInv, ArchivesGood, BackupIsWhole
<1> QED
  BY <1>1, Invariant, PTL

(* An archive gets its final name only when validate_backup has found in   *)
(* it what its manifest says.                                              *)
THEOREM ManifestsAreTrue == Spec => []ManifestIsTrue
<1>1. IInv => ManifestIsTrue
  BY DEF IInv, ArchivesGood, ManifestIsTrue
<1> QED
  BY <1>1, Invariant, PTL

(* No pruning, its own or another thread's, has taken a backup when it is  *)
(* reported, unless it has been at work since a day whose archives expire. *)
THEOREM ReportedExists == Spec => ReportedBackupExists
<1>1. IInv /\ [Next]_vars =>
        [\A j \in Job : At(j, "prune") /\ status'.last # status.last /\ status'.last = job[j].id
            => Outlived(j) \/ \E a \in archives' : a.id = job[j].id]_vars
  <2> SUFFICES ASSUME IInv, [Next]_vars, NEW j \in Job, At(j, "prune"), ~Outlived(j)
               PROVE  \E a \in archives' : a.id = job[j].id
    OBVIOUS
  <2>1. PICK a \in archives : a.id = job[j].id /\ a.created = job[j].created
    BY DEF IInv, OwnIsKept, OwnArchive, Publishing, At
  <2>2. a \in archives'
    BY <2>1, YoungIsKept DEF IInv, Outlived
  <2> QED
    BY <2>1, <2>2
<1> QED
  BY <1>1, Invariant, PTL DEF Spec, ReportedBackupExists

(* Only a backup that has succeeded removes old ones, and it is itself old *)
(* enough to be removed, locally or from the server, only when it took as  *)
(* long as archives are kept.                                              *)
THEOREM NeverRunOut == Spec => BackupsNeverRunOut
<1>1. IInv /\ [Next]_vars =>
        [/\ archives # {} /\ archives' = {} => \E j \in Job : At(j, "prune") /\ Outlived(j)
         /\ remote # {} /\ remote' = {} => \E j \in Job : At(j, "upload") /\ Outlived(j)]_vars
  <2> SUFFICES ASSUME IInv, [Next]_vars
               PROVE  /\ archives # {} /\ archives' = {}
                            => \E j \in Job : At(j, "prune") /\ Outlived(j)
                      /\ remote # {} /\ remote' = {}
                            => \E j \in Job : At(j, "upload") /\ Outlived(j)
    OBVIOUS
  <2>1. remote # {} /\ remote' = {} => \E j \in Job : At(j, "upload") /\ Outlived(j)
    BY RemoteStep DEF IInv
  <2>2. ASSUME NEW j \in Job, Finish(j), ~Outlived(j) PROVE archives' # {}
    <3>1. PICK a \in archives : a.id = job[j].id /\ a.created = job[j].created
      BY <2>2 DEF Finish, At, IInv, OwnIsKept, OwnArchive, Publishing
    <3>2. a \in archives'
      BY <2>2, <3>1, YoungIsKept DEF IInv, Outlived
    <3> QED
      BY <3>2
  <2>3. ASSUME NEW j \in Job, Finish(j) PROVE At(j, "prune")
    BY <2>3 DEF Finish
  <2> QED
    BY <2>1, <2>2, <2>3, StoreStep
<1> QED
  BY <1>1, Invariant, PTL DEF Spec, BackupsNeverRunOut
=============================================================================
