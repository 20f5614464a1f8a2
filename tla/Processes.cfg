CONSTANTS
  Processors = {2, 3}
  Counts = {0, 1, 3, 7}
  Builds = {"keeps", "reloads"}
  Reloading = 2
  PageSize = 16
  PidsAhead = 1
  MaxProcs = 8
  Starts <- MCStarts
  threads_count = 2
  Inputs <- MCInputs
  Most = 9
  Lengths = {0, 1, 2, 3, 4}
  MaxForks = 4
  Writers = {"w"}
  Readers = {"r", "s"}
  MaxNumbers = 2

SPECIFICATION AllSpec

INVARIANTS
  MapIsComplete
  OutputIsRight

PROPERTIES
  ProgramsEnd

\* All of the programs end.
CHECK_DEADLOCK FALSE
