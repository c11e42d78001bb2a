SPECIFICATION Spec
CONSTANTS
    SHELL_NUM = 2
    Marks = {"m1"}
    MaxDepth = 2
    AnySlice = TRUE
INVARIANT
    OwnPictures
