SPECIFICATION FairSpec
CONSTANTS
    MAX_FD_NUM = 3
    FOUR_KB = 2
    WORD = 16
    Dentries <- MCDentries
    Size <- MCSize
    Blocks <- MCBlocks
    Counts = {0, 1, 2, 3, 5, 14, 15}
INVARIANTS
    FileInOrder
    LoopInFile
    ZeroIsEnd
    ListedInOrder
PROPERTY
    ReadEnds
