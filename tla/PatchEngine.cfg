\* All texts of at most two lines, with and without tag characters and
\* carriage returns.
CONSTANTS
    Bodies = {"x"}
    Signs = {"none", "-", "+"}
    MaxLines = 2
SPECIFICATION PatchSpec
CHECK_DEADLOCK FALSE
PROPERTIES
    RoundTripsUnmarked
    AddedLinesKept
