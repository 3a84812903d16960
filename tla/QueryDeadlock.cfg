\* As many clients as slots
SPECIFICATION FairSpec
CONSTANTS
    Clients = {c1, c2}
    Versions = {1}
    States = {"pending"}
    Metas = {m1}
    RefVersions = {1}
    Slots = 2
    Serial = FALSE
PROPERTIES EveryQueryEnds
CHECK_DEADLOCK FALSE
