\* A hard fail that races with the last poll of the winner of tohost_mutex.
CONSTANTS
  Harts = {h1, h2}
  NumTests = 1
  RepeatTimes = 1
  MaxTries = 3
  EotTimeout = 1
  Outcomes = {"pass", "fail"}
SPECIFICATION Spec
INVARIANTS
  PassMeansNoHardFail
