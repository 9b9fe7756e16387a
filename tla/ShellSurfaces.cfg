SPECIFICATION FairSpec
CONSTANTS
    Section <- MCSection
    Key <- MCKey
    Value <- MCValue
    Fits <- MCFits
    Default <- MCDefault
    Unreadable = Unreadable
    Files <- MCFiles
INVARIANTS
    TypeOK
    OneOfEach
    NewestIsServed
PROPERTY
    CommandsAreServed
