\* One device with one request at a time, one consumer, two profiles
SPECIFICATION FairTelemetrySpec
CONSTANTS
    SubdocIds = {1}
    Metas = {m1}
    NoMeta = NoMeta
    Supports <- AllSupported
    Blocked = {}
    Locks = FALSE
    Writers = {w1}
    MaxVersion = 2
    ReuseVersions = FALSE
    PostStates <- PendingOnly
    PostExpiries = {"nil"}
    Deletes = FALSE
    MaxEvents = 1
    DevicePolls = TRUE
    Consumers = {c1}
    PrecookSubdocs = {1}
    SupRequests = {q1}
    Telemetry = 1
    UpstreamProfilesEnabled = TRUE
    DefaultEmptyProfileEnabled = FALSE
    MaxDisturbances = 1
INVARIANTS TelemetryTypeOK  GaugesAddUp 
  
