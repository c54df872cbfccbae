# Verification of the callback system

TLA+ models of the unicom-it-manager application (`src/app`), checked with TLC
and, where a result should hold for every size of the system, proved with TLAPS.
The application keeps a ledger of telecom services and network devices, scans it
every day for work that is due, and telephones the people responsible through a
single A7670E modem.

## 1. The system

| Part | Code | State | Operations | Models |
| --- | --- | --- | --- | --- |
| Call queue and worker | `services/call_worker.py` | `CallTask` rows; the thread, its stop event and recovery flag; the modem | claim, dial, play, settle, retry, recover, start, stop, runtime switch | `CallWorker`, `TaskLifecycle` |
| Manual requeue | `services/plans.py`, `main.task_requeue` | the same rows | reset a finished task | `CallWorker` |
| Modem dialogue | `modem/`, `services/sms.py`, the call lines of `call_worker.py` | serial line, `SmsNotification` rows | AT commands, URCs, text messages, classification of calls | `ModemSession` |
| Review center | `services/reviews.py`, `services/change_requests.py`, `main.review_*`, `main.due_work_*` | `ChangeSet`, `ChangeItem`, versions of services and devices | submit, decide, apply | `ReviewCenter`; with fields in `LedgerImport`, `Notifications` |
| Import and export | `services/imports.py`, `main.import_*`, `main.export_ledger` | `ImportBatch`, `StagingRow` | upload, validate, correct, submit for review, export | `LedgerImport`; races in `ReviewCenter` |
| Ledger and device forms | `main.service_*`, `main.device_*` | services and devices | create, edit | `ReviewCenter`, `LedgerImport`, `Notifications` |
| Scan scheduler | `scheduler.py`, `services/scans.py` | `ScanSchedule` rows, call tasks with their scripts | a tick per minute, three scans | `Notifications` |
| Work lists and dashboard | `services/change_requests.py`, `services/dashboard.py` | queries over the ledger | due services, devices to recycle | no; the applications made from them in `ReviewCenter`, `Notifications` |
| Backups | `services/backups.py` | archives, remote collection, status | create, validate, upload, prune, restore | `Backups` |
| Speech and audio | `tts/`, `audio.py`, `services/scripts.py` | audio files | synthesize, replace, play | file names and reuse in `Notifications`, replacement in `Backups`, playback in `CallWorker` |
| Users and roles | `auth.py`, `services/users.py`, `services/provisioning.py` | accounts | log in, manage | no |
| Dictionaries, forms, settings, other pages | the rest of `services/`, `templates/` | rows without a life cycle | queries and single-row edits | no |

How the parts interact. One process holds everything: the asyncio event loop
(routes declared `async def`), Starlette's thread pool (routes declared `def`),
the call-worker thread, the APScheduler thread and the backup thread. They share
an SQLite database in WAL mode through sessions without autoflush; SQLite admits
one writer at a time, so what happens from the first flush of a transaction to
its commit is one step, and what a session has read before it may be old. Scans
write call tasks and text messages, which the worker claims; people answer a call
by submitting a change set, whose application updates the ledger that the next
scan, the work lists and the dashboard read. A backup copies the database and
then the files its rows refer to while all of this goes on.

What is hard here:

- *concurrency*: `stop()` gives up on a thread that is busy; requests are
  suspended at `await request.form()` between reading a row and testing it;
  thread-pool routes interleave between read and commit; two backups prune the
  same directory;
- *failure*: the port, the modem or ffmpeg raises in the middle of a call, an
  `AT+CHUP` is lost, a commit fails, a scan fails inside a tick, a file changes
  while it is archived, the process dies at any point;
- *order*: a modem that answers late answers the wrong question; change sets of
  one import are applied in either order;
- *restart*: rows, calls and audio files left over by a dead process;
- *counting*: attempts are compared, incremented and reset in three places;
- *time*: retries become due later, ticks match a minute, an owner is called
  once a day, backups expire; no task may starve;
- *agreement*: export, validation, comparison and application treat one column in
  four places; what a scan announces and what a page lists are separate queries.

`PROJECT.json` lists every hazard with its line and the properties that cover it,
or the reason why none does.

What makes each part correct:

- queue and worker: one user of the modem, one call at a time, at most
  `max_attempts` dials per (re)queueing, no automatic redial of a person who was
  reached, no task stranded, every task settled. Several of these fail in the code
  under conditions that section 4 names, and the properties say how far they hold;
- modem dialogue: an outcome belongs to the call or message it is booked on, and
  no text carries anything but its message;
- review center: a verdict is final, a change set is applied only over the
  version it was made from, one pending application per record, devices never
  without their service;
- import: the batch is marked applied exactly when its last change set is; what
  validation accepts can be applied; what is exported comes back unchanged; a
  stale sheet never wins;
- scheduler: one call per owner, scan and day, with the right recording; one
  failing scan spares the others; an error stays visible;
- backups: an archive is whole, a reported backup exists, and the last one is
  never pruned.

## 2. Plan

Done, in this order:

1. `CallWorker` (detailed), `TaskLifecycle` (what it promises), and the proofs in
   `CallWorkerProofs` and `LifecycleProofs`.
2. `ReviewCenter`: change sets, imports and direct edits over shared versions;
   `ReviewProofs`.
3. `ModemSession`: the serial line at the level of lines and deadlines.
4. `Notifications`: ticks and scans over one ledger that people change meanwhile.
5. `Backups`, `BackupsProofs`.
6. `LedgerImport`: one sheet on its way from the export to the ledger.
7. The proofs about the last four: `NotificationsProofs`, `ModemProofs` with
   `ModemTextProofs`, `LedgerProofs`.

Left: an abstract specification of the review center (a record, its pending
application and its verdict) and `ReviewCenter` as its refinement.

## 3. Modules

### CallWorker

The variables are the rows (`status`, `attempt`, `due`), the service object
(`stop`, `thread`, `recovered`), the stored switch (`enabled`), the switch or
shutdown request that occupies the event loop (`admin`, `joining`, `switch`),
each worker thread (`pc`, `held`, `seen`, `verdict`, `found`), the modem's own
view of calls (`live`), the requeue requests (`req`), the bound on disturbances
(`upsets`) and histories that no action reads: `dials`, the ATD commands since the
last requeueing, and four sets that say what has gone wrong and for whom, so that
a property can hold for everything else instead of excluding the case:

| History | What is in it | How it gets there |
| --- | --- | --- |
| `abandoned` | running threads that nobody waits for any more | `join(timeout=15)` returns while the thread is alive (call_worker.py:488) |
| `shared` | tasks in two hands | an abandoned thread has or selects them, or a requeue that waited for its form overwrites a row that has moved on (main.py:2143) |
| `unsaved` | rows in progress that no thread handles | the commit of `connected`, or the last one of a call, failed; the next recovery pass takes them out |
| `unhung` | calls that are up and that nobody will hang up | an exception left the call without `AT+CHUP`, or the command was lost |

| Action | Code |
| --- | --- |
| `Enqueue` | a scan commits a task (`scans._task`) |
| `Boot`, `SwitchOn`, `Stop`, `SwitchOffJoined`, `SaveSwitch`, `ShutdownJoined` | `lifespan`, `worker_toggle`, `set_enabled`, `start`, `stop`, `shutdown` |
| `Crash` | the process dies; daemon threads and open requests with it |
| `LoopTop` | the while test of `_loop` and the runtime switch |
| `RecoverRead`, `RecoverCommit` | `recover_interrupted_tasks`: select, `AT+CHUP`, finalize, commit |
| `SmsBatchEnds` | `process_pending_sms`, as the time it holds the port |
| `ClaimRead`, `ClaimCommit` | `claim_next_task` and the early commit |
| `Dial`, `RingEnds`, `Answered`, `TalkEnds` | `handle_task` and `_dial_and_play` |
| `Settle` | `_schedule_retry` or `_finalize` with the last commit of `_tick` |
| `RequeueLoad`, `RequeueApply` | `task_requeue` before and after it awaits the form |
| `NetworkReleases`, `Tick` | the network and the clock |

A step ends where another actor can get in: at a read, a commit, or a blocking
wait. `seen` is the `attempt` the thread's session holds; the commit of
`connected` expires the row, so that the attempt is read again afterwards
(`EndsExpired`), while a failed commit of `connected` leaves a session that
refuses even the error handler, and the thread lets go of the row. Time is
relative: `due` is `due_at - now`. `SwitchOffJoined` and `ShutdownJoined` do not
ask whether the thread has ended, as `stop` does not; `start` takes the shared stop
event back for the threads that are still in their loop. The modem's report of an
end names no call, so with two calls up a thread may take the other's end for that
of its own (`EndReported`).
`Disturb(kind)` injects failures a bounded number of times; the runs choose
the kinds. `CallRecord` and `CallEvent` rows change in the same transaction as
their task and mirror it, so they are not modelled; neither is `missed`, a
status the models list and no code assigns.

`TaskLifecycle` is the abstract specification: statuses, attempts and who may move
them. `CallWorker!ImplementsLifecycle` states that the pipeline implements it with
`status` and `attempt` as they are, but for tasks in `shared`, which are mapped to
`contested`: `Contest` lets a task get there and nothing is promised of it any more.
An exception after the answer is the step `RetryReached`. Threads, modem, crashes
and requests are stutters.

### ModemSession

The serial line: `rx` holds the commands the modem has not handled yet, `tx` the
lines the program has not read, `entry` and `voice` are the modem's text entry
and its call, `pc`, `batch`, `cur`, `step`, `result` and `age` the one worker
thread, `sms` and `outcome` the rows. The modem handles commands in order and at
its own pace, so any wait of the program may run out first; the answer is then
read by whatever is asked next. Histories record which texts the network
accepted, from which call's line an outcome was read, which calls were dialled while
the modem had another call to end or to set up (`rushed`, `CallInModem`), and
whether a message was ever begun with the answers of a whole dialogue still to come:
an `OK`, a `+CPIN` and a prompt, in this order (`late`, `OldDialogueIn`).

| Action | Code |
| --- | --- |
| `BatchBegins` | `process_pending_sms`: select at most `SMS_BATCH_LIMIT` rows, open the port |
| `ReadAnswer`, `ReadFinal`, `WaitRunsOut` | `send_sms_text` with `_expect`: a line, or the deadline |
| `SaveResult`, `SaveFails` | the commit after each message, and its failure |
| `NothingToDial`, `Dial` | `claim_next_task`, opening the port, `ATD` |
| `RingReads`, `RingTimesOut`, `PlaybackEnds`, `LingerReads`, `LingerTimesOut` | `_dial_and_play` line by line, `_classify_unconnected` by the age of the call |
| `Recover`, `Crash` | `recover_interrupted_tasks`; the process dies |
| `ModemAnswers`, `ModemTakesAsText`, `ModemSubmits`, `ModemVoice`, `NetworkEvent` | the modem and the network (external) |

### ReviewCenter

A record is its `version` (0: not there). A change set has a `state`, the records
it has `items` for and their `base` versions; the batch has a status, staged rows
and the versions they were validated against. `pc`, `subject` and `seen` are what
each request in progress does and has read.

| Action | Code |
| --- | --- |
| `Upload`, `CorrectLoad`, `Correct` | `import_upload`, `import_row_correct`, `revalidate_staging_row` |
| `ImportSubmitRead`, `ImportSubmitCommit` | `build_import_change_sets` before and after its first flush; `Generates` is what it writes |
| `SubmitLoad`, `Submit` | `due_work_*`, `submit_business_update`, `submit_device_recovery` |
| `DecideLoad`, `DecideCommit` | `review_decision` |
| `ApplyRead`, `ApplyCommit` | `apply_change_set` up to its flush, and from there to the commit |
| `EditLoad`, `Edit`, `Create` | the ledger and device forms |
| `GiveUp` | a request ends without effect |

`LoopFree` separates the routes: those that await their form after loading
(`review_decision`, device recovery, the edit forms, row correction) interleave with
everything, as do the thread-pool routes (`import_submit`, `review_apply`); renewal
and retirement read the form first and then keep the event loop to their commit
(`KeepLoop`). `PendingFor`
is the query of `change_requests.py:408`: items of new records carry no
`entity_id` (reviews.py:168) and are not found by it. The history `disputed` has the
change sets decided while another decision on them was open.
What a patch contains, who is allowed to review what, self-review confirmation and
the accounts provisioned on application are abstracted away.

### LedgerImport

The same import with its contents and without its races: a service is a number, a
manager and a version, a device a code, its service, a keeper (the maintenance
columns, which may be blank), a recovery status and a version; manager, keeper and
recovery stand for all the columns of their kind. What the program does with a text
is given by constants, one for each conversion or check of the code:

| Constant | What the code does | Where |
| --- | --- | --- |
| `Stored` | a label outside the dictionary becomes empty, 是 becomes 已回收, a price is rounded | reviews.py:27-39, 265, 292 |
| `Shown` | the export writes a date without its time | main.py:197-203 |
| `Parts` | the text of the code column is split into codes | imports.py:134-135 |
| `Refused` | phones out of format, a missing name, codes with `/` or a bar are errors of a row | imports.py:180-184, 208-209 |
| `Unreadable` | a price or date that only the application (or, for a date, the submission) reads | reviews.py:262, 292-293 |
| `Entered` | what people write in forms and cells; `Held` is what a form can have stored | main.py:629-674 |

A sheet is a sequence of rows, exported (with ids and versions), altered by hand, or
typed (the technical columns are hidden, so a typed sheet has none: this, the unique
keys of the first ledger and the types of these constants are in
`LedgerAssumption`). One batch is followed; what other batches apply reaches the
ledger as the forms' edits do.

| Definition | Code |
| --- | --- |
| `Export`, `ExportLedger` | `build_ledger_export_workbook`, `export_ledger` |
| `Validate` with `Faulty`, `Stage` | `_validate_rows`: matching by id or key, each conflict it reports, the values it stages |
| `Upload`, `Correct` | `import_upload`, `revalidate_staging_row` (all rows are validated again) |
| `ItemsOf`, `Same`, `Submit` | `_business_changed`, `_device_changed`, `_group_batch_rows`, `build_import_change_sets` |
| `Decide` with `BatchAfter` | `review_decision` |
| `Applicable`, `Apply` | `_apply_business`, `_apply_device`, `_refresh_batch_status` |
| `CreateService`, `EditService`, `EditDevice` | the forms with their uniqueness checks |

### Notifications

Time is counted in slots, a slot being a minute some schedule may match. `tick` is
the running tick with the `lead_days` and the schedules it has read (as positions
in `Scans`, the order of their ids: the smallest one left has its turn), `plan`
what the running scan has read. Reading and writing are two steps: the sqlite driver
takes no snapshot for reads, and the first insert takes the write lock. Days are
those of the default zone, which a schedule has unless an administrator moves it.

| Action | Code |
| --- | --- |
| `StartTick`, `NotDue` | `SchedulerService.tick`, `cron_matches_now` |
| `ScanRead` | the queries of `run_due_renewal_scan`, `run_device_recycle_scan`, `run_review_stuck_scan` with `_existing_owner_phones` |
| `ScanCommit`, `ScanCommitMute` | `_make_scan_script`, audio installed or not, `_task`, the commit of the tick |
| `ScanRaises`, `CommitFails`, `HandlerFails`, `Crash` | the two error handlers, and the error that cannot be stored |
| `SubmitRenewal`, `SubmitRetirement`, `SubmitRecovery`, `Decide`, `Apply` | the applications of the work lists and the review center |
| `EditService`, `EditDevice`, `EditSchedule`, `ToggleSchedule`, `ToggleScheduler` | the forms and switches |

### Backups

`disk` and `rows` are the files other parts write and the committed rows that
refer to them; `job` holds the locals of each `create_backup`, `status` the
shared report. An archive records whether it is what its manifest says (`valid`)
and whether a restore gives every file of its rows complete (`whole`).

| Action | Code |
| --- | --- |
| `WriteImport`, `InstallAudio`, `CommitRow` | `import_upload` (in place), `write_wav_atomic` (beside, renamed), the commits after them |
| `Begin`, `Snapshot`, `ListFiles`, `Zip`, `ZipMisses`, `GatherFails` | `create_backup` up to the archive, with its retries |
| `Publish`, `Refused` | `validate_backup`, the rename to the final name |
| `Upload`, `UploadFails` | `_upload_webdav`, `_prune_webdav` |
| `ListArchives`, `PruneRaises`, `Finish` | `_prune_local`, the status |
| `TimePasses`, `Crash` | the clock in days, also while a backup runs; the process dies |

Times within a day are not told apart: `Expired` lets a pruning take any of the
archives of the cutoff's own day, so a retention of 0 days and a backup that crosses
the retention are in the model (`Outlived`).

### MC and proof modules

`MCCallWorker`, `MCReviewCenter`, `MCNotifications` and `MCLedgerImport` declare
model values, symmetry sets and initial ledgers; each `.cfg` gives one run its
constants. `CallWorkerProofs` and `LifecycleProofs` (which extends it),
`ReviewProofs`, `BackupsProofs`, `NotificationsProofs`, `ModemProofs` and
`ModemTextProofs` (which extends it) and `LedgerProofs` hold the theorems. Definitions marked as
mutants stand beside the definition they alter and are used by no
specification.

## 4. Runs, bounds and what they show

| Run | Instance | Result |
| --- | --- | --- |
| `CallWorkerSafety` | 1 task, 2 threads, 2 requests, joins that give up, all disturbances, at most 2 | `TypeOK`, `OnlyAbandonedIntrude`, `RedialBudget`, `HeldRowIsCurrent`, `InProgressIsOwned`, `OneCall`, `ImplementsLifecycle` hold |
| `CallWorkerLiveness` | 2 tasks, 1 thread, joins that give up, all disturbances, at most 2 | `InProgressIsOwned`, `ImplementsLifecycle`, `EveryTaskSettles`, `InProgressEnds`, `StopIsObeyed` hold |
| `ModemSession` | 2 messages in a batch, 2 calls, 1 failed commit or crash | `TypeOK`, `CleanTexts`, `SentWasAccepted`, `BoundedResends`, `OutcomeIsItsOwn`, `PortIsReleased` hold |
| `ReviewThreads` | 1 service with 1 device, 2 change sets, versions to 2, 2 requests at a time that wait for their forms, direct entry and editing of the service | `TypeOK`, `OneApplicationPerRecord`, `BatchFollowsItsSets`, `DeviceHasService`, `VerdictIsFinal` hold |
| `LedgerImport` | 1 service, 2 devices, 6 texts and 5 codes, one of each kind above, 5 typed sheets and the altered exports, 1 upload, 1 correction, 2 edits | `TypeOK`, `OneItemPerRecord`, `CleanBatchApplies`, `ExportIsUnchanged`, `ReimportIsQuiet`, `StaleExportNeverWins`, `NoDeviceMoves` hold |
| `Notifications` | 2 services, 1 device, 2 owners, 2 days of 2 slots, 1 act of a person, 1 failure of any kind | `TypeOK`, `OneTaskPerOwnerDay`, `AudioSaysTheTask`, `OthersStillRun` hold |
| `Backups` | 2 backup threads, 1 import, 1 audio file, 1 retry, retention of 2 days, 5 days, 3 backups with one from earlier, 1 fault | `TypeOK`, `BackupIsWhole`, `ManifestIsTrue`, `ReportedBackupExists`, `BackupsNeverRunOut` hold |
| `CallWorkerTwoThreads` | the switch, used twice | `SingleChannel` fails |
| `CallWorkerReached` | one serial error | `ReachedIsNotRequeued` fails |
| `ReviewLostUpdate` | two applications in the thread pool | `AppliedOnItsBase` fails |
| `ScanErrorErased` | one scan raises | `ErrorStaysVisible` fails |
| `RetiredStillNotified` | one act of a person, no failure | `RetiredLeftAlone` fails |

The violation runs are disagreements between the code and what its documents,
tests or comments say; `findings` in `PROJECT.json` quotes both sides.

Why the bounds suffice.

- *Queue.* The interesting cases of safety need one task and two threads (an old
  and a new one), those of liveness and recovery two tasks (ordering, two stale rows,
  a call left over by another task); `MaxAttempts = 2` is the default of the program
  and gives a first, a last and no further attempt. Two disturbances allow a failure
  and a restart after it, or a stop and a start; each requeue request counts beside
  them. Overdue tasks keep the order of their due times up to `MaxAge`, which is 0
  with one task. The liveness run has one thread object, which is given out again
  only when its thread has ended, so that a second thread beside an abandoned one is
  in the safety run and the proofs only: with two threads the search for cycles takes
  too long. What is proved (section 5) does not depend on these bounds.
- *Modem.* Two messages in a batch and a call before, between or after the batches;
  the second call can meet what the first left in the buffer or in the modem. The
  buffers have no bound of their own: they drain because the program opens the port a
  finite number of times.
- *Review center.* A service and a device of it are the two domains of an import;
  two change sets are the two of an import, or two applications; two requests give
  every race between one request's reads and another's commit, two decisions on one
  set among them.
- *Import.* The typed sheets create a service with a device, the same with a label
  outside the dictionary and an unreadable price, name two devices in one row and
  change them all, repeat a device with a contradiction, and give a device to a new
  number; the exports are altered in one cell (a business column in all rows of its
  service). Forms write a plain text or a phone that validation refuses, and codes
  with a separator or with two codes in one. Two edits are enough to give a number
  or code away and to give it to another record.
- *Notifications.* Two slots a day make a missed tick, a second tick and one that
  finds a schedule not due; two days make yesterday's call count no more; the
  two services end on different days, with one owner or two.
- *Backups.* Two threads and one file of each kind: every overlap of two
  `create_backup` calls and of a writer with them. The earlier archive is just
  old enough to be pruned once the clock moves; two days more let a backup that is
  under way expire.

No passing run switches off what the code can do: where the code breaks a promise,
the run contains the case and the property says what remains. What is excepted, and
why nothing smaller would do:

- `OnlyAbandonedIntrude`, instead of `SingleChannel`: `stop()` gives up its join
  after 15 s and `start()` takes the stop event back.
- `RedialBudget`, `HeldRowIsCurrent` and `ImplementsLifecycle` except tasks in
  `shared`: two threads that both have the row, or a requeue that decides on the
  status it loaded before its form arrived. Of two overlapping requeue requests the
  later one resets a row that is active again.
- `OneCall` excepts calls in `unhung` and those of tasks in `shared`: the exception
  path sends no `AT+CHUP`, and a lost one is not repeated.
- `InProgressIsOwned` and the liveness properties except tasks in `unsaved`: when
  the commit of `connected` or the last commit of a call fails, the row stays in
  progress until the worker is next started. Liveness also excepts a worker that is
  switched off, and `StopIsObeyed` a service that is started again, since `start()`
  clears the event of a thread that has not seen it yet.
- `ReachedIsNotRequeued` does not hold and is refuted (`CallWorkerReached`).
- `VerdictIsFinal` and `OneApplicationPerRecord` except change sets in `disputed`: a
  second decision that waited for its form while the first was given overwrites the
  first verdict, and may bring an application back beside a newer one.
- `OutcomeIsItsOwn` excepts calls in `rushed`: `AT+CHUP` is not waited for after a
  time-out, and in the recovery it may be followed at once by the next `ATD`, whose
  dialogue then reads the end of the old call.
- `CleanTexts` holds although no ESC is sent after a prompt that came too late
  (docs/product.md:176): later commands are then swallowed as text, but the text
  is never sent off.
- `CleanTexts` and `SentWasAccepted` except a session that is `late`. Each wait
  that runs out leaves the modem one answer further behind, and a message makes at
  most one such wait before it is given up. After five of them in one batch, the
  sixth message starts with a whole dialogue to come: every answer it reads belongs
  to a message before it, its prompt and its `+CMGS` included. Its row says sent,
  and its number stands over the text of another. Nothing in `send_sms_text`
  empties the input buffer, and `SMS_BATCH_LIMIT` is 10. The exception costs the
  run nothing: with five messages in one batch no session is ever `late` (checked
  as an invariant), so there the properties hold as they would without it. Six in
  one batch, without calls and faults, are `late` within seconds.
- `ReportedBackupExists` and `BackupsNeverRunOut` except a backup that is `Outlived`:
  retention is counted when the archives are listed (backups.py:371), so a backup
  that took as long as archives are kept, which with retention 0 is every one, may
  prune itself.
- `CleanBatchApplies` excepts sets with an unreadable price or date: nothing reads
  it before the application, which refuses the whole set after its approval.
- `ExportIsUnchanged` excepts, row by row, the values that forms accept and
  validation refuses (`Refusable`) and the rows that share a code with such a row,
  and dates that the export has cut short.
- `ReimportIsQuiet` excepts rows with a text that is not stored as it stands; such a
  row is compared as text and differs for ever.

Deadlock is checked except where the system may stop: the worker switched off, no
request left that the bounds admit, the clock or the people of a bounded instance
at their end.

Fairness. `CallWorker!Fairness` (liveness run): the clock runs, the service
manager starts the process again, a switch request that can go on does (the event
loop), every worker thread takes its enabled steps (the operating system; all
waits on the modem have deadlines) and loaded requests finish. `play_audio` runs
ffmpeg without a timeout, so weak fairness of a thread in `talking` assumes that
ffmpeg terminates. Nothing is assumed of `Enqueue`, of the administrator, or of
the network. The liveness properties exempt a worker that is switched off.
`ModemSession!FairSpec` is weak fairness of the program's own steps for the same
reason, and assumes nothing of the modem: `PortIsReleased` holds with a modem
that never answers.

Every property of a passing run has a mutant, a plausible bug in one definition,
that makes the same run fail.

## 5. Proofs

No theorem below has a bound on tasks, attempts, threads, requests, change sets,
records, files, days, messages, calls, rows of a sheet or lines on the serial port;
the bounds that appear in the models (disturbances, faults, versions, batch limits)
are arbitrary constants.

| Module | Theorem | Statement |
| --- | --- | --- |
| `CallWorkerProofs` | `TypeCorrect` | `Spec => []TypeOK` |
| | `CrewAlways` | a thread in its loop is the service's own, the one being joined, or abandoned |
| | `ModemIsIntrudedOnly` | `Spec => []OnlyAbandonedIntrude` |
| | `BudgetAlways` | the strengthening `Budget` |
| | `HeldRowStaysCurrent`, `RedialsAreBounded` | `HeldRowIsCurrent`, `RedialBudget` |
| `LifecycleProofs` | `PhasesAlways` | the strengthening `Phases` |
| | `LifecycleImplemented` | `Spec => ImplementsLifecycle` (refinement of `TaskLifecycle`) |
| | `CallsAreOwned` | `Spec => []InProgressIsOwned` |
| | `OneCallAlways` | `Spec => OneCall` |
| `ReviewProofs` | `TypeCorrect`, `DevicesHaveServices`, `BatchesFollow` | `TypeOK`, `DeviceHasService`, `BatchFollowsItsSets` |
| | `VerdictsAreFinal`, `OneApplication` | `VerdictIsFinal`, `OneApplicationPerRecord` |
| `BackupsProofs` | `TypeCorrect`, `BackupsAreWhole`, `ManifestsAreTrue` | `TypeOK`, `BackupIsWhole`, `ManifestIsTrue` |
| | `ReportedExists`, `NeverRunOut` | `ReportedBackupExists`, `BackupsNeverRunOut` |
| `NotificationsProofs` | `TypeCorrect`, `OthersRun`, `OneCallADay`, `AudioIsRight` | `TypeOK`, `OthersStillRun`, `OneTaskPerOwnerDay`, `AudioSaysTheTask` |
| `ModemProofs` | `TypeCorrect`, `OutcomesAreOwn` | `TypeOK`, `OutcomeIsItsOwn` |
| `ModemTextProofs` | `TextsAreClean`, `SentIsAccepted` | `CleanTexts`, `SentWasAccepted` |
| | `ResendsAreBounded` | `BoundedResends` |
| `LedgerProofs` | `TypeCorrect`, `OneItemAlways` | `TypeOK`, `OneItemPerRecord` |
| | `DevicesStay`, `StaleNeverWins` | `NoDeviceMoves`, `StaleExportNeverWins` (action properties) |
| | `CleanApplies`, `ExportComesBack`, `ReimportComesBack` | `CleanBatchApplies`, `ExportIsUnchanged`, `ReimportIsQuiet` |

No theorem has a hypothesis beyond the named ASSUME of its module, which types the
constants (for `LedgerImport` also the keys of the first ledger, and that what is
stored of a text is stored as it stands: labels of the dictionary stay there). Every
disturbance of the models is admitted; what is excepted is part of the property, as
section 4 says.

`CallWorkerProofs`. `TypeOK` is inductive with the parts it has: that `held` is a
task wherever a thread relies on it, and that a loaded request names one.
`OnlyAbandonedIntrude` is not inductive: a state with one thread in a call and
another one at the top of its loop satisfies it. `Crew` adds where a live thread can
be: it is `thread`, or it is `joining` while the request that stopped it waits, and
then `thread` is empty, or a join has given up on it. For `RedialBudget`, the count
has to be tied to the rows in every phase, for the tasks outside `shared`:
`RowsCounted` says that the attempt number in a row is never behind the dials, and
ahead of them while the task is absent or queued; `HeldIsCounted` that a thread
counts on from the attempt in the row and is ahead of the dials when it is about to
dial; `AbandonedShare` that what an abandoned thread has in hand is marked, so that
everything else is in one hand (`OneHand`). Their conjunction `Budget` is inductive
given `TypeOK` and `Crew`.

`LifecycleProofs`. The refinement needs to know what a thread will write over
which status: `Phases` says that a row is `dialing` until it is answered and
`connected` while the recording plays, that a verdict not to be retried is final
for the status it meets, and that a recovery pass has found exactly the rows in
progress. The lemmas sum up what everyone but a worker thread does (nothing the life
cycle sees, a start, a stop, a join that gives up, one more row in the queue), so
that each property needs one case per step of a thread and few for the rest.
`Owners` adds to `InProgressIsOwned` that a recovery pass under way misses no row
without a thread. `Calls` is the invariant behind `OneCall`: a call that somebody
will hang up is that of the thread in it, or what a dead process left, and then the
next pass of a thread is the recovery.

`ReviewProofs`. `IInv` adds to the properties that change sets are made in order and
a request that decides or applies has one (`Made`), that no record is deleted, so
what `ApplyRead` and `EditLoad` saw is still there (`Ledger`), and that a set of a
batch belongs to a batch that exists (`Batch`). `OneVerdict` says for the second
group that between the test and the write of a decision nobody else decides unless
the set is then disputed, and that applications from the work lists refer to records
that exist, which is why the query for pending ones finds them.

`BackupsProofs`. `IInv` follows an archive through its making: `RowsComplete` (a row
refers to a complete file), `SnapshotComplete` (so the files of the copied rows are
complete when they are listed and archived: the database is copied first),
`ArchivesGood`, `InTime` (the cutoff of a pruning is never ahead of the retention),
`OwnIsKept` (what a job has published is there until it has reported it, unless it
outlived the retention) and `IdsFresh`.

`NotificationsProofs`. `TypeOK` is inductive with the parts it has. For
`OthersStillRun`, `OwedToGo` says that a schedule still owed is among those the
tick has to go through, so a tick cannot end with one left. For
`OneTaskPerOwnerDay`, what matters is the time between reading and committing:
`PlanIsFresh` says that a plan names each owner once and nobody who was called on
the present day, although the day may change before the commit, because tasks lie
in the past (`TasksInThePast`) and no other tick runs meanwhile. `FilesSayTheirName`
and `AudioOfTasks` tie a recording to the digest of its script; that the ids of
rolled back scripts come again does not matter then.

`ModemProofs`. `Typed` adds to `TypeOK` who writes what: a text is for a message,
`ATD` and the lines of a call name a call, and the messages at hand and in the batch
are pending rows, different ones. `OutcomesAreOwn` rests on `OwnCall`: while a call
that is not `rushed` is made, all `ATD` commands, all events to be read and the
modem's own call are about it, since the modem had no other call when it was dialled
and opening the port had dropped what was buffered.

`ModemTextProofs`. The program may be several commands ahead of the modem, so the
invariant `Following` is about what is on its way. `Prompted`: a prompt that can be
read is that of the entry the modem is in, nothing the program waits for follows it,
and everything that was answered earlier lies before one. `Asking` follows one
message through its six commands: before `AT+CPIN?`, an older `+CPIN` with a prompt
behind it has no `OK` before it, so reading `OK` leaves it behind (`AheadOfOk`); once
`OK` was read no older `+CPIN` lies before a prompt (`AheadOfPin`); once `+CPIN` was
read the modem has handled every older `AT+CMGS` (`NoOlderPrompt`); so the prompt
that answers the last command is the message's own (`OwnPrompt`), and the text and
its `+CMGS` too (`OwnText`). Each step has its reason in the one before, and the
first is exactly what a session that is not `late` grants: the exception cannot be
smaller for this argument. `ResendsAreBounded` needs none of it: `PaidFor` counts, for each
message, the texts accepted, those on their way and the one still owed, and says that
together they are at most one and the faults.

`LedgerProofs`. Three invariants stand on each other. `IInv`: the tables stay keyed
(`Keyed`), rows and items name records that exist and are traced to what was exported
(`Matched`, `Copied`, `Traced`, `ItemsTraced`), and versions never fall (`Earlier`,
`Kept`); it gives the types, `OneItemPerRecord` and the two action properties.
`Foreseen`: as long as nobody else changed the ledger, every item still waiting fits
the tables as they are, or as they will be when the business set has been applied
(`StagedAs`, `BusinessFits`, `NetworkFits`), and a batch that passed can be applied
(`BatchFits`). `Said`: what the rows of the sheet say is what the tables hold, or will
hold once the waiting items are applied; with nothing waiting, a second upload has
nothing to change. The lemmas below them are about lookups in keyed tables, about
the grouping of rows into items, and about what applying items does to a table; of
the constants only a few facts are used (`TextsAre`, `PartsAre`): what is stored is
stored as it stands from then on, and a part of a code is not split again.

Each invariant was checked with TLC on the instances of section 4 before it was
proved. The proofs have one case per action and lemmas that separate what one
thread, another one and a request can disturb.

Only model-checked: liveness (`EveryTaskSettles`, `InProgressEnds`, `StopIsObeyed`,
`PortIsReleased`), which needs fairness and `ENABLED`. Every other property of a
passing run is stated by a theorem. `SingleChannel`, `ReachedIsNotRequeued`,
`AppliedOnItsBase`, `ErrorStaysVisible` and `RetiredLeftAlone` are refuted.

## 6. Not modelled

Inside the modelled parts:

- `ModemSession`: an empty number or text, exceptions of the serial driver in the
  middle of a message, a port that does not open (it is in `CallWorker`), the
  stop event, the attempt counter of the rows;
- `Notifications`: schedules moved to another zone than the default one (their day
  then differs from that of the pages), placeholders and wording, the text-message rows (`ModemSession` starts from them), waiting
  for SQLite's write lock while speech is synthesized;
- `Backups`: the start and stop of the periodic thread, the steps of a restore (the
  model says what it yields), archives damaged on disk, single WebDAV requests;
- `LedgerImport`: header mapping, a code repeated within one row (refused at once,
  imports.py:210-211), changes of the dictionary other than the labels forms add,
  text that a workbook takes for a formula, accounts provisioned on application; a
  form changes one field at a time; a date that cannot be read may end the
  submission with an error instead, and then nothing happens;
- `ReviewCenter`: permissions, self-review confirmation, the contents of patches.

Not at all: accounts, roles and sessions, dictionaries, form fields and settings,
the work lists, the dashboard and the other pages as queries, which are lookups, formatting or single-statement
updates without interleaving to speak of; migrations and configuration. Speech
synthesis and ffmpeg are external. The reasons are with each component in
`PROJECT.json`.
