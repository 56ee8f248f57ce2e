\* Three chunks: more than the pipe, the cap or the channel hold.
SPECIFICATION Spec
CONSTANTS
    PipeSize = 1
    OutputCap = 2
    ChannelSize = 2
    MaxChunks = 3
INVARIANTS
    EndsOnce
    CompleteOutput
    SignalsOwnGroup
PROPERTIES
    RunsEnd
    WriterNotStuck
CHECK_DEADLOCK FALSE
