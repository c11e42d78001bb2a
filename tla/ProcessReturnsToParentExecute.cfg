SPECIFICATION Spec
CONSTANTS
    SHELL_NUM = 2
    MAX_PROGS = 4
    MaxHits = 1
INVARIANT
    ReturnsToParentExecute
CHECK_DEADLOCK FALSE
