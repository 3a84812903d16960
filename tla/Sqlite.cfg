\* Two clients and three slots; operations on one row do not overlap
SPECIFICATION FairSpec
CONSTANTS
    Clients = {c1, c2}
    Versions = {1, 2}
    States = {"pending"}
    Metas = {m1}
    RefVersions = {2}
    Slots = 3
    Serial = TRUE
INVARIANTS DriverInv SlotsAccounted SlotInReach
PROPERTIES ImplementsInterface EveryQueryEnds
