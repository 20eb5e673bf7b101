SPECIFICATION Spec
CONSTANTS
    Nesting = 1
    NameLength = 2
    TypeLength = 4
    LinkBytes = {0, 1, 2, 3, 4, 5, 6, 10, 12, 13, 17, 21}
    Files <- MCFiles
    Fragile <- MCFragile
    Lifted <- MCLifted
    Reworked <- MCReworked
    Texts <- MCTexts
    ClassFlags = {0, 1, 17, 1040, 1536, 1552, 8192, 32768}
    Damages = {0, 255}
    ListLengths = {255, 256}
INVARIANTS
    ReadIsWrittenBack
    PoolVerdictsAgree
    WrittenReadsBack
    NamesHaveOneForm
    DescriptorsAreSignatures
    VerifiersAgree
    LoweredSaysTheSame
PROPERTIES CleanClassesPass
CHECK_DEADLOCK FALSE
