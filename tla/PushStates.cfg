\* Polls, pokes over both routes and reports race on the state of one row
SPECIFICATION FairSpec
CONSTANTS
    SubdocIds = {1}
    m1 = m1
    m2 = m2
    Metas = {m1}
    NoMeta = NoMeta
    Supports <- AllSupported
    Blocked = {}
    Locks = FALSE
    Writers = {w1}
    MaxVersion = 2
    ReuseVersions = FALSE
    PostStates <- PendingOnly
    PostExpiries = {"nil"}
    Deletes = FALSE
    MaxEvents = 1
    DevicePolls = TRUE
    GetHandlers = {"device"}
    MismatchedHeaders = FALSE
    StateCorrectionEnabled = FALSE
    LockRootDocumentEnabled = FALSE
    FilterOutputByBitmapEnabled = FALSE
    UpstreamEnabled = FALSE
    Consumers = {c1}
    PrecookSubdocs = {}
    Pokers = {p1}
    MaxPokes = 1
    PokeRoutes = {"mqtt", "webpa", "cpe_action"}
    MaxDisturbances = 1
INVARIANTS DeployedHasNoError
PROPERTIES StateUpdatesKeepVersions EventuallyDeployed
