SPECIFICATION Spec
CONSTANTS
    MaxEntries = 2
    Lines <- AllLines
    Chars <- Letters
    Space = " "
    MaxLine = 4
    CommandNames <- Names
    Reboot <- RebootLine
    Local <- LocalLines
    KeyMax = 2
    One <- OneValue
INVARIANTS ScreenShowsLine RunIsNewest
PROPERTIES HistorySpec
CHECK_DEADLOCK FALSE
