CONSTANTS
    MaxPipeSegments = 3
    MaxArgsPerSegment = 7
    DefaultTimeout = 30
    Bases <- MCBases
    Overlays <- MCOverlays
    BashFiles <- MCBashFiles
    PSPipelines <- MCPSPipelines
    ParseBash <- Parse
    ParsePS <- ParsePowerShell
    RenderPS <- ReconstructPowerShellCommand
    Printed <- MCPrinted
    Limits <- MCLimits
    Byte <- MCByte
    Separator <- MCSeparator
    DefaultMaxBytes = 16
    DefaultHeadBytes = 12
    DefaultTailBytes = 4
SPECIFICATION Spec
INVARIANTS
    FiltersAreSent
CHECK_DEADLOCK FALSE
