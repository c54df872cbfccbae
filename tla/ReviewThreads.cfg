SPECIFICATION Spec
CONSTANTS
    s1 = s1
    d1 = d1
    c1 = c1
    c2 = c2
    Services = {s1}
    Devices = {d1}
    Parent <- OneParent
    NSets = 2
    MaxVersion = 2
    Clients = {c1, c2}
    NoSet = NoSet
    Edited = {s1}
SYMMETRY Symmetry
INVARIANTS
    TypeOK
    OneApplicationPerRecord
    BatchFollowsItsSets
    DeviceHasService
PROPERTIES
    VerdictIsFinal
CHECK_DEADLOCK FALSE
