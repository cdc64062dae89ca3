CONSTANTS
    broken = broken
    none = none
    Character <- MCCharacter
    Files <- MCFiles
    Broken = broken
    NoDb = none
    Signals <- MCSignals
    Now <- MCNow
    Tops <- MCTops
    InitTop <- MCInitTop
    Databases <- MCDatabases
    Folders <- MCFolders
    Texts <- MCTexts
    FileNames <- MCFileNames
    Names <- MCNames
    Scopes <- MCScopes
    Posted <- MCPosted
    MaxServed = 5
    Calls <- MCCalls
    Numerals <- MCNumerals
    Word <- MCWord
    Modulus = 32
SPECIFICATION Spec
CHECK_DEADLOCK FALSE
INVARIANT ConditionReadsItsFrame
