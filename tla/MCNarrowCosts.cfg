SPECIFICATION Spec
CONSTANTS
    Texts <- NarrowTexts
    FlagOrder <- MCFlagOrder
    CategoryInfo <- MCCategoryInfo
    Candidates <- MCCandidates
    SimpleParam <- MCSimpleParam
    MaxCost = 7
    ContextIds <- MCIds
    ProviderLists <- MCProviderLists
    Params <- TwoParams
    Matrices <- OnesBetweenWords
    MaxFound = 1
INVARIANT
    EntriesAccountFor
