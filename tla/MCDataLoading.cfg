CONSTANTS
    MaxLen = 2
    Uuids <- MCUuids
    NodeFiles <- MCNodeFiles
    Departures <- MCDepartures
    Arrivals <- MCArrivals
    Loads <- MCLoads
SPECIFICATION FairLoadSpec
INVARIANTS
    TypeOK
    ForwardBeginExact
    ReverseBeginExact
    ListsConverse
PROPERTY LoadEnds
CHECK_DEADLOCK FALSE
