SPECIFICATION FairSpec
CONSTANTS
    Mapped <- MCMapped
    Served <- MCServed
    Readings = {"cold", "warm"}
    MaxEvents = 1
    Nothing = Nothing
PROPERTIES LiveItemsStay ItemsSettle
CHECK_DEADLOCK FALSE
