SPECIFICATION FairSpec
CONSTANTS
    SHELL_NUM = 2
    MAX_PROGS = 4
    MaxHits = 1
INVARIANTS
    CountExact
    SlotAvailable
    ControlKept
    OneChainPerTerminal
    UserContext
    IndInv
PROPERTY
    ImplementsFamilies
    EveryTerminalRuns
CHECK_DEADLOCK FALSE
