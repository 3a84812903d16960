SPECIFICATION Spec
CONSTANTS
    SubdocIds = {1}
    m1 = m1
    m2 = m2
    Metas = {m1}
    NoMeta = NoMeta
    Supports <- AllSupported
    Blocked = {}
    Locks = FALSE
    Writers = {w1}
    MaxVersion = 3
    ReuseVersions = FALSE
    PostStates <- PendingOnly
    PostExpiries = {"nil"}
    Deletes = FALSE
    MaxEvents = 0
    DevicePolls = TRUE
    GetHandlers = {"device"}
    MismatchedHeaders = FALSE
    StateCorrectionEnabled = TRUE
    LockRootDocumentEnabled = FALSE
    FilterOutputByBitmapEnabled = FALSE
    UpstreamEnabled = FALSE
    Consumers = {}
    PrecookSubdocs = {}
    Pokers = {}
    MaxPokes = 0
    PokeRoutes = {}
    MaxDisturbances = 0
PROPERTIES StateUpdatesKeepVersions
