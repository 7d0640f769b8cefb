\* Safety: three harts, two tests, harts interchangeable.
CONSTANTS
  Harts = {h1, h2, h3}
  NumTests = 2
  RepeatTimes = 2
  MaxTries = 3
  EotTimeout = 1
  Outcomes = {"pass", "fail", "end", "hang"}
SPECIFICATION Spec
SYMMETRY Symmetry
INVARIANTS
  TypeOK
  SchedulerInv
  EotInv
  OneTohostWriter
  PassMeansAllEnded
  NoSharedTest
  RunAccounting
  PassCoversPlan
  DrawIsServed
PROPERTIES
  VerdictIsFinal
