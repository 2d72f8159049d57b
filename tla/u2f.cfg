SPECIFICATION FairSpec
CONSTANTS
    Builds = {"proxy", "plain"}
    Segment = 14
    BufLen = 24
    SignHeader = 1
    Channels = {"c1", "c2"}
    Packets <- AllPackets
    ReplyLengths = {3}
    Allocations = 1
    MaxIn <- Unread
INVARIANTS InBounds ReplyIntact
PROPERTIES CommandIntact ChannelExchange ReplyEnds
