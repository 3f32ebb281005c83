SPECIFICATION JsonSpec
CONSTANTS
    kPrecision = 18
    kMantissa = 7
    kBias = 16
    kAlpha <- MCAlpha
    kGamma <- MCGamma
    kCachedPowers <- MCPowers
    kCachedPowersMinDecExp <- MCMinDecExp
    kCachedPowersDecStep = 1
    Floats <- MCFloatBits
    Filtered <- MCFiltered
    MaxInteger = 7
    MaxUnsigned = 15
    MaxPoint = 9
    MaxExp = 3
    MaxTokens = 8
    Alphabet <- MCAlphabet
    Documents <- MCDocuments
    Styles <- MCStyles
    Pairs <- MCPairs
    BinaryValues <- MCBinaryValues
    StringBytes <- MCStringBytes
    BinaryBytes <- MCBinaryBytes
    MaxBytes <- MCMaxBytes
INVARIANTS
    ParsesJson
    TextSurvives
    SameStrings
    BinarySurvives
    EditsReachTheTarget
CHECK_DEADLOCK FALSE
