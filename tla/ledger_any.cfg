SPECIFICATION FairSpec
CONSTANTS
    MaxLength = 5
    Mtu = 8
    ChunkSize = 9
    Byte <- MCByte
    Zero = "zero"
    Channels = {"c1", "c2"}
    Packets <- MCPackets
    Replies <- MCReplies
INVARIANTS RxBounds TxExact
PROPERTY ReplyLeaves
