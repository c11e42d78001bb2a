SPECIFICATION MCSpec
CONSTANTS
    BUFSIZE = 4
    MEM = 16
    BLOCK = 10
    Letters = {97, 98}
    STR = 3
    Values <- MCValues
    Words <- MCWords
    Pieces <- MCPieces
    LINE = 6
    FILE = 8
    Descriptors <- MCDescriptors
    FileNames <- MCFileNames
    SHELL_NUM = 2
    MAX_PROGS = 4
    Pages <- MCPages
INVARIANTS
    MemoryRight
    StringsRight
    PrintfRight
    ArgumentsRight
    CallsRefused
    GrepRight
    AddressesRight
