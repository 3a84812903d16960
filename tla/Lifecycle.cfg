\* Two consumer groups, a producer, failures and rebalances
SPECIFICATION FairSpec
CONSTANTS
    NumGroups = 2
    Requests = {r1}
    KafkaProducerEnabled = TRUE
    MetricsEnabled = TRUE
    MaxWork = 2
    MaxFaults = 2
INVARIANT LifecycleInv
PROPERTIES ShutdownCompletes ForwardingEnds
CHECK_DEADLOCK FALSE
