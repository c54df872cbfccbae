SPECIFICATION FairSpec
CONSTANTS
    NSms = 2
    NCalls = 2
    BatchLimit = 2
    MaxFaults = 1
INVARIANTS
    TypeOK
    CleanTexts
    SentWasAccepted
    BoundedResends
    OutcomeIsItsOwn
PROPERTIES
    PortIsReleased
