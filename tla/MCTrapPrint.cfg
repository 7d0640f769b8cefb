\* Printing the name of a failed test.
CONSTANTS
  Configs <- PrintConfigs
  NumTests = 1
  MaxIgnored = 1
  Causes = {0, 2}
  Points = {1, 2}
  Expectations <- MCExpectations
SPECIFICATION Spec
INVARIANT PrintContext
