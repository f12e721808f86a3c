SPECIFICATION Spec
CONSTANTS
    Texts <- LongTexts
    FlagOrder <- MCFlagOrder
    CategoryInfo <- MCCategoryInfo
    Candidates <- MCCandidates
    SimpleParam <- MCSimpleParam
    MaxCost = 7
    ContextIds <- MCIds
    ProviderLists <- Shipped
    Params <- TwoParams
    Matrices <- OnesBetweenWords
    MaxFound = 1
PROPERTY
    MinimalPath
