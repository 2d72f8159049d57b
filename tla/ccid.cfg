SPECIFICATION FairSpec
CONSTANTS
    EpSize = 3
    HeaderLen = 2
    BufLen = 5
    ParamsLen = 1
    RateLen = 2
    Seqs = 2
    Commands <- MCCommands
    Replies = {3, 4}
    Recover <- MCRecover
    PinOffset <- MCPinOffset
    PinLen = 2
INVARIANTS MessagesWhole 
PROPERTIES ChangeNotified Answered
