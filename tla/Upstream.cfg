\* With upstream: exchanges, factory resets, locks, mget, headers that do not pair up
SPECIFICATION ServerSpec
CONSTANTS
    SubdocIds = {1, 2}
    m1 = m1
    m2 = m2
    Metas = {m1}
    NoMeta = NoMeta
    Supports <- AllSupported
    Blocked = {}
    Locks = TRUE
    Writers = {w1}
    MaxVersion = 2
    ReuseVersions = FALSE
    PostStates <- PendingOnly
    PostExpiries = {"nil"}
    Deletes = FALSE
    MaxEvents = 0
    DevicePolls = TRUE
    GetHandlers = {"device", "mget"}
    MismatchedHeaders = TRUE
    StateCorrectionEnabled = FALSE
    LockRootDocumentEnabled = TRUE
    FilterOutputByBitmapEnabled = FALSE
    UpstreamEnabled = TRUE
    Consumers = {}
    PrecookSubdocs = {}
    Pokers = {}
    MaxPokes = 0
    PokeRoutes = {}
    MaxDisturbances = 1
    FactoryResets = TRUE
    UpstreamDrops = FALSE
INVARIANTS ServerTypeOK HeadersNeverOverstate HeaderInv ExchangeInv UpstreamInv NoMissedUpstreamUpdate
PROPERTIES ExchangeStored
