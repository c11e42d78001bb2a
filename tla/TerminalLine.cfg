SPECIFICATION FairSpec
CONSTANTS
    SHELL_NUM = 2
    BUF_LENGTH = 2
    Letters = {"a"}
    Symbols = {}
    Special = {"F", "ALT", "NEW_LINE", "BACK_SPACE"}
INVARIANTS
    OneLinePerRead
    LineReady
    BufferKept
PROPERTY
    ReadReturns
CHECK_DEADLOCK FALSE
