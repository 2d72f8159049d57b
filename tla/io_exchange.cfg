SPECIFICATION IoSpec
CONSTANTS
    Interfaces = {"USB_HID"}
    EpLen = 8
    BufLen = 5
    Channels = {"c"}
    Byte <- MCByte
    Zero = "zero"
    Replies <- MCReplies
    Reports <- ApduReports
    MaxIn = 1
    TimeoutTicks = 3
    Kind <- MCKind
    AppReplies <- MCAppReplies
    VersionReply <- MCVersionReply
    ExitReply <- MCExitReply
    LockedReply <- MCLockedReply
    RawCommands <- MCRawCommands
    Malformed = FALSE
INVARIANTS ReplyPossible AnsweredWhereAsked ArmedMeansOutstanding
PROPERTIES CommandKept CommandResponseSpec
