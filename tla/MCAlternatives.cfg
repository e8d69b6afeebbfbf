CONSTANTS
    Offers <- MCOffers
    Requests <- MCRequests
SPECIFICATION SummarySpec
INVARIANTS
    EveryChoiceTried
    ReportedOnce
    BoundsKept
    CountAsDocumented
CHECK_DEADLOCK FALSE
