SPECIFICATION IoFairSpec
CONSTANTS
    Interfaces = {"USB_HID"}
    EpLen = 8
    BufLen = 5
    Channels = {"c"}
    Byte <- MCByte
    Zero = "zero"
    Replies <- MCReplies
    Reports <- WithPing
    MaxIn = 2
    TimeoutTicks = 3
    Kind <- MCKind
    AppReplies <- MCAppReplies
    VersionReply <- MCVersionReply
    ExitReply <- MCExitReply
    LockedReply <- MCLockedReply
    RawCommands = {}
    Malformed = TRUE
PROPERTIES CommandKept ReplyEnds
