\* An interrupt between the end of scheduling and the jump to the test.
CONSTANTS
  Configs <- InterruptConfigs
  NumTests = 1
  MaxIgnored = 1
  Causes = {0, 2}
  Points = {1, 2}
  Expectations <- MCExpectations
SPECIFICATION Spec
INVARIANT JumpsToTest
