\* Spec has no fairness; people may stop at any time.
SPECIFICATION Spec
CHECK_DEADLOCK FALSE
CONSTANTS
    n1 = n1  n2 = n2  c1 = c1  c2 = c2  c3 = c3  slashed = slashed  joined = joined
    t1 = t1  phone = phone  timed = timed  old = old  price = price
    Blank = Blank
    Numbers = {n1, n2}
    Codes = {c1, c2, c3, slashed, joined}
    Texts = {Blank, t1, phone, timed, old, price}
    Stored <- AsStored
    Shown <- AsShown
    Parts <- AsSplit
    Refused = {phone, slashed}
    Entered = {t1, phone}
    Unreadable = {price}
    Services0 <- OneService
    Devices0 <- TwoDevices
    TypedSheets <- Sheets
    MaxUploads = 1
    MaxCorrections = 1
    MaxEdits = 2
INVARIANTS
    TypeOK
    OneItemPerRecord
    CleanBatchApplies
    ExportIsUnchanged
    ReimportIsQuiet
PROPERTIES
    StaleExportNeverWins
    NoDeviceMoves
