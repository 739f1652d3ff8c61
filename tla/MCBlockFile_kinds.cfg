SPECIFICATION Spec
CONSTANTS
    PartSize = 2
    NoFile = NoFile
    Newline = 9
    HighCommands = 2
    LowCommands = 1
    CmdBound = 3
    MakeOpts <- MCAllOpts
    Uses <- MCUses
    StaleOffsets = FALSE
INVARIANTS ReadsMatchContent
PROPERTIES ImplementsFileContent
