SPECIFICATION FairSpec
CONSTANTS
    SHELL_NUM = 3
    Lines <- MCLines
INVARIANTS
    OneHandler
    LinesRestored
    HandlersReady
PROPERTY
    DevicesServed
