CONSTANTS
    s1 = s1
    s2 = s2
    Service = {s1, s2}
    Device = {d1}
    NPhones = 2
    Reviewer = {1}
    SlotsPerDay = 2
    Days = 2
    MaxExpiry = 2
    DefaultLead = 1
    Leads = {0, 1}
    Cron <- SmallCron
    Ledgers <- SmallLedgers
    MaxActs = 1
    Faults = {}
    MaxFaults = 0
SPECIFICATION Spec
PROPERTIES RetiredLeftAlone
