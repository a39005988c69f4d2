SPECIFICATION Spec
CONSTANTS
    ann = ann  bob = bob
    Updates = {1, 2, 3, 4, 5}
    People = {ann, bob}
    None = None
    Sender <- MCSender
    Workers = {w1, w2}
    QueueDepth = 1
    PersonDepth = 1
    MaxRestarts = 1
INVARIANTS
    OneRunPerPerson
    ArrivalOrder
    RunsTwiceOnlyUnsaved
PROPERTIES
    EveryUpdateEnds
CHECK_DEADLOCK FALSE
