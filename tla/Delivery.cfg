\* One northbound writer and versions that never come back: downloads over HTTP
SPECIFICATION Spec
CONSTANTS
    SubdocIds = {1, 2}
    m1 = m1
    m2 = m2
    Metas = {m1}
    NoMeta = NoMeta
    Supports <- AllSupported
    Blocked = {}
    Locks = FALSE
    Writers = {w1}
    MaxVersion = 3
    ReuseVersions = FALSE
    PostStates <- PendingOnly
    PostExpiries = {"nil", "live"}
    Deletes = TRUE
    MaxEvents = 0
    DevicePolls = TRUE
    GetHandlers = {"device"}
    MismatchedHeaders = FALSE
    StateCorrectionEnabled = FALSE
    LockRootDocumentEnabled = FALSE
    FilterOutputByBitmapEnabled = FALSE
    UpstreamEnabled = FALSE
    Consumers = {}
    PrecookSubdocs = {}
    Pokers = {}
    MaxPokes = 0
    PokeRoutes = {}
    MaxDisturbances = 1
INVARIANTS TypeOK NoMissedUpdate DeliveryInv OfferInv
PROPERTIES ImplementsAtomicDelivery 
