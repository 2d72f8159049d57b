SPECIFICATION Spec
CONSTANTS
    Slots = 2
    Fast = 1
    Flows <- MCFlows
    Step <- MCStep
    Lists <- MCLists
    AppFlows = {"review", "menu"}
    Dialogs = {"dialog"}
    KeepTicker = FALSE
INVARIANTS ArrowsTrue NoStrayTimeout
PROPERTIES PlacesKept BarrierHolds AllPagesRead
