\* Safety and refinement: three harts, test_setup, one test and test_cleanup.
CONSTANTS
  Harts = {h0, h1, h2}
  Hart0 = h0
  SequenceLength = 1
  MaxTries = 3
  EotTimeout = 1
  Outcomes = {"pass", "fail", "end", "hang"}
SPECIFICATION Spec
SYMMETRY Symmetry
INVARIANTS
  SchedulerInv
  SameTest
  ExecutesCurrent
  PassCoversPlan
PROPERTIES
  ImplementsBarrier
