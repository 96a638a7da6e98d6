SPECIFICATION FairSpec
CONSTANTS
    t1 = t1
    Topic = {t1}
    BulkActions = 2
    MaxRetries = 1
    Poison <- OnePoison
    MaxRecords = 5
    MaxOutages = 1
    MaxCrashes = 1
INVARIANTS
    TypeOK
    InFlightContiguous
    UndeliveredNotCommitted
PROPERTIES
    ImplementsDelivery
    RecordSettles
CHECK_DEADLOCK FALSE
