SPECIFICATION FairSpec
CONSTANTS
    Interfaces = {"USB_HID"}
    EpLen = 8
    BufLen = 5
    Channels = {0, 1, 2, 3}
    Sessions = 3
    Commands <- MCCommands
    Answer <- MCAnswer
    Byte <- MCByte
    Zero <- MCZero
    Replies <- MCReplies
    Reports = {}
    MaxIn = 2
INVARIANTS DeliveredIntact AnswerMatches
PROPERTY Answered
