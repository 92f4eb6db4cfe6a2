SPECIFICATION FairSpec
CONSTANTS
    StackWords = 8
    Values <- MCValues
    Files <- MCFiles
    CalleeFiles <- MCCallee
    Stacks <- MCStacks
    Refused = {1, 4, 19}
    Word = 1073741824
    Rates <- MCRates
INVARIANTS TakenOnlyWhenReady DacConfigured ClockIsNearest
PROPERTIES ResumedAsLeft ShellReached
CHECK_DEADLOCK FALSE
