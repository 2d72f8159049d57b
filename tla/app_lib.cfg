SPECIFICATION Spec
CONSTANTS
    Word = 4096
    PcBuf = 16
    Base = 8
    MaxPath = 3
    MaxDecode = 5
    MaxEncode = 3
    SizeWord = 64
    Inputs <- MCInputs
    Sizes <- MCSizes
    Values <- MCValues
    Decimals <- MCDecimals
    Paths <- MCPaths
    Formats <- MCFormats
    Bytes58 <- MCBytes58
    Digits58 <- MCDigits58
    Commands <- MCCommands
    Configs <- MCConfigs
    KeySizes = {12, 13}
    DefaultE <- MCDefaultE
    Exponents <- MCExponents
    Primes = {5, 7, 13}
    Tags <- MCTags
    HashLen <- MCHashLen
    Oid <- MCOid
    Label <- MCLabel
    Line = 18
    XWord = 256
    Keys <- MCKeys
    Hashes <- MCHashes
    Messages <- MCMessages
    Seeds = {1, 2, 3}
    TlvLists <- MCTlvLists
    Texts <- MCTexts
    Scrolls <- MCScrolls
    Menus <- MCMenus
    Unchanged <- MCUnchanged
    QrCalls <- MCQrCalls
    Components <- MCComponents
    Labels <- MCLabels
    Ellipsis = TRUE
    DefaultGlyphs <- MCDefaultGlyphs
    CustomGlyphs <- MCCustomGlyphs
    IconIds = {1, 2, 3, 4}
    IconColors = {0, 8, 16, 64}
    Icons <- MCIcons
    SpiBuffer = 128
    ComponentSize = 28
    TouchArrays <- MCTouchArrays
    Points <- MCPoints
    Blocks <- MCBlocks
    ReviewElements = 3
    ReviewTag = 159
    ReviewVal = 1
    Events <- MCEvents
    Installed <- MCInstalled
    Turners <- MCTurners
    Elapsed = {500, 700, 1500}
INVARIANTS ReadsInOrder RoundTrips FormatExact SecretsWiped ScreenTrue
CHECK_DEADLOCK FALSE
