SPECIFICATION Spec
CONSTANTS
    SHELL_NUM = 2
    NUM_ROWS = 2
    NUM_COLS = 3
    BUF_LENGTH = 3
    BYTE = 3
    Chars = {"a", "o"}
    Keys = {"a"}
    Typists = {0}
    Drawings <- MCDrawings
    Outputs <- MCOutputs
    Leftovers <- MCLeftovers
INVARIANTS
    OnPage
    TypedShown
    BlankAfterCursor
    CursorShown
CHECK_DEADLOCK FALSE
