SPECIFICATION FairSpec
CONSTANTS
    Paths = {p}
    Modes <- AllModes
    Byte = {letter, newline}
    Writes <- ShortWrites
    Formats <- SomeFormats
    Buffers = {"full", "line"}
    Threshold = 1
    Risks = {}
    MaxFiles = 2
    MaxLen = 2
    MaxFaults = 1
    MaxHooks = 2
    NewLine = newline
    Letter = letter
    Nil = nil
CHECK_DEADLOCK FALSE
INVARIANTS TypeOK ClosedFilesAreWritten
PROPERTIES FilesAreStreams CloseEnds
