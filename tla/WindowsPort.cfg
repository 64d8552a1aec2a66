\* Both ports.  A buffer of five bytes: lines of up to three letters fit, a
\* line of four fills it, and of seven bytes written one line may overflow it.
\* On Windows, a probe may be with the system.  After end of file the program
\* exits.
SPECIFICATION PortsSpec
CONSTANTS
    Letters = {a}
    Newline = nl
    BufferSize = 5
    MaxBytes = 7
    Ports = {"unix", "windows"}
    WaitsElsewhere = TRUE
    MaxProbes = 1
INVARIANTS
    CommandsAreTheLines
    NoFalseEof
    AsleepIsReading
PROPERTIES
    EndsInTheEnd
CHECK_DEADLOCK FALSE
