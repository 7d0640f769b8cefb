\* Liveness: two harts, every test run twice.
CONSTANTS
  Harts = {h0, h1}
  Hart0 = h0
  SequenceLength = 2
  MaxTries = 4
  EotTimeout = 2
  Outcomes = {"pass", "fail", "end", "hang"}
SPECIFICATION FairSpec
PROPERTIES
  TohostIsWritten
  NominalEndHaltsAll
