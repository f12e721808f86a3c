SPECIFICATION MCSpec
CONSTANTS
    Texts <- AllTexts
    FlagOrder <- MCFlagOrder
    CategoryInfo <- MCCategoryInfo
    Candidates <- MCCandidates
    SimpleParam <- MCSimpleParam
    MaxCost = 127
    ContextIds <- MCIds
    ProviderLists <- MCProviderLists
    Params <- MCParams
    Matrices <- MCMatrices
    MaxFound = 2
    Lexicon <- MCLexicon
    Ids <- WordIds
    Posses <- MCPosses
    OovPos = 1
    MaxOriginal = 2
    MaxJoins = 1
INVARIANTS
    TypeOK
    CandidatesAllowed
    DictionaryWordPreferred
    UnitsTile
    SurfacesCover
    JoinedStayWhole
PROPERTIES
    Answers
    NoLateArrival
    MinimalPath
