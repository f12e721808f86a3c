SPECIFICATION MCSpec
CONSTANTS
    Texts <- MCTexts
    Originals <- MCOriginals
    Withs <- MCWiths
    MaxEdits = 2
    MaxRewrites = 2
    MaxLen = 4
    MaxChars = 4
    MaxPluginText = 5
    PluginTexts <- MCPluginTexts
    Characters <- PluginCharacters
    Replacement <- Rules
    Ignored = {"A"}
    Lower <- MCLower
    Nfkc <- MCNfkc
    Marks = {"-"}
    Mark <- MCMark
    Left = {"("}
    Right = {")"}
    Kanji = {"K", "^"}
    Reading = {"k", "-", "^"}
    MaxReading = 1
INVARIANTS
    TypesOK
    MapSound
    KeptBytesMapHome
    NeverRejected
    LongestRules
    NothingPassedOver
    IndexesAgree
    BOWMatchesText
    CatRunSound
PROPERTY
    RewritesExactly
CHECK_DEADLOCK FALSE
