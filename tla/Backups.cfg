CONSTANTS
    Job = {manual, periodic}
    Import = {ledger}
    Audio = {speech}
    Retries = 1
    Retention = 2
    Remote = TRUE
    LastDay = 4
    MaxBackups = 3
    MaxFaults = 1
SPECIFICATION Spec
\* the clock and the number of backups are bounded
CHECK_DEADLOCK FALSE
INVARIANTS TypeOK BackupIsWhole ManifestIsTrue
PROPERTIES ReportedBackupExists BackupsNeverRunOut
