\* Liveness: two harts, every test runs twice.
CONSTANTS
  Harts = {h1, h2}
  NumTests = 2
  RepeatTimes = 2
  MaxTries = 3
  EotTimeout = 1
  Outcomes = {"pass", "fail", "end", "hang"}
SPECIFICATION FairSpec
PROPERTIES
  HardFailIsReported
  OneEndsAll
  TohostIsWritten
