\* Without upstream: state correction, reports, upgrades, factory resets
SPECIFICATION FairServerSpec
CONSTANTS
    SubdocIds = {1}
    m1 = m1
    m2 = m2
    Metas = {m1, m2}
    NoMeta = NoMeta
    Supports <- FromHeaders
    Blocked = {}
    Locks = FALSE
    Writers = {w1}
    MaxVersion = 2
    ReuseVersions = FALSE
    PostStates <- PendingOnly
    PostExpiries = {"nil"}
    Deletes = TRUE
    MaxEvents = 2
    DevicePolls = TRUE
    GetHandlers = {"device"}
    MismatchedHeaders = FALSE
    StateCorrectionEnabled = TRUE
    LockRootDocumentEnabled = FALSE
    FilterOutputByBitmapEnabled = TRUE
    UpstreamEnabled = FALSE
    Consumers = {c1}
    PrecookSubdocs = {}
    Pokers = {}
    MaxPokes = 0
    PokeRoutes = {}
    MaxDisturbances = 1
    FactoryResets = TRUE
    UpstreamDrops = FALSE
INVARIANTS DeployedHasNoError SentIsDeclared
PROPERTIES EventuallyDelivered EventuallyDeployed
