SPECIFICATION Spec
CONSTANTS
    s1 = s1
    d1 = d1
    c1 = c1
    c2 = c2
    Services = {s1}
    Devices = {d1}
    Parent <- OneParent
    NSets = 4
    MaxVersion = 3
    Clients = {c1, c2}
    NoSet = NoSet
    Edited = {}
SYMMETRY Symmetry
PROPERTIES
    AppliedOnItsBase
CHECK_DEADLOCK FALSE
