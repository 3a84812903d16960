\* One consumer group that may fail to join, no producer
SPECIFICATION FairSpec
CONSTANTS
    NumGroups = 1
    Requests = {r1}
    KafkaProducerEnabled = FALSE
    MetricsEnabled = TRUE
    MaxWork = 1
    MaxFaults = 1
PROPERTY CancelledExits
CHECK_DEADLOCK FALSE
