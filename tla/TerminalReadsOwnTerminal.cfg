SPECIFICATION Spec
CONSTANTS
    SHELL_NUM = 2
    BUF_LENGTH = 2
    Letters = {"a"}
    Symbols = {}
    Special = {"F", "ALT", "NEW_LINE", "BACK_SPACE"}
INVARIANT
    ReadsOwnTerminal
CHECK_DEADLOCK FALSE
