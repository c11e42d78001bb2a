SPECIFICATION FairSpec
CONSTANTS
    SHELL_NUM = 2
    MAX_FREQ = 8
    Freqs = {2, 4, 8}
INVARIANTS
    WaitBounded
    NoStaleInterrupt
    RateExact
PROPERTY
    ReadReturns
