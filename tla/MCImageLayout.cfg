SPECIFICATION Spec
CONSTANTS
    Fixed = 88
    MountPoint = 11
    Fields = 32
    Counted = 28
    ScriptPath = 8
    Paths <- MCPaths
    Sizes <- MCSizes
    Chars <- MCChars
    Words <- MCWords
    MaxFiles = 3
INVARIANTS DataWhereEntrySays ChecksumValidates
CHECK_DEADLOCK FALSE
