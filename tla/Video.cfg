SPECIFICATION Spec
CONSTANTS
    SHELL_NUM = 3
    Marks = {"m1"}
    MaxDepth = 2
    AnySlice = FALSE
INVARIANTS
    PrintTarget
PROPERTY
    ImplementsScreens
