SPECIFICATION Spec
CONSTANTS
    c1 = c1
    c2 = c2
    Consumers = {c1, c2}
    MaxQueueSize = 2
    MaxProduced = 4
INVARIANTS
    Accounting
    ProductionOrder
    NoLostWakeup
PROPERTIES
    ShutdownReleasesConsumers
