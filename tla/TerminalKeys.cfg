SPECIFICATION Spec
CONSTANTS
    SHELL_NUM = 2
    BUF_LENGTH = 2
    Letters = {}
    Symbols = {}
    Special = {"F", "LEFT_SHIFT", "RIGHT_SHIFT", "CTRL", "ALT", "CAPS_LOCK"}
PROPERTIES
    SwitchNeedsAlt
    ShiftStuckOnlyBySwitch
CHECK_DEADLOCK FALSE
