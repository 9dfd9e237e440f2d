CONSTANTS
    Chars <- MCChars
    ShortOpts <- MCShortOpts
    LongTable <- MCLongTable
    Argvs <- MCArgvs
SPECIFICATION Spec
INVARIANTS IndicesInOrder VersionsAgree ReturnsOptions
CHECK_DEADLOCK FALSE
