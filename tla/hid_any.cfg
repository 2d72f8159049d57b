SPECIFICATION Spec
CONSTANTS
    Interfaces = {"USB_HID", "USB_WEBUSB"}
    EpLen = 8
    BufLen = 5
    Channels = {"c1", "c2"}
    Byte <- MCByte
    Zero = "zero"
    Replies <- MCReplies
    Reports <- AllReports
    MaxIn = 1
INVARIANT InBounds
PROPERTY CommandStable
