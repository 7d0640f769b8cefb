\* Safety and the reporting of failures: every configuration.
CONSTANTS
  Configs <- MCConfigs
  NumTests = 1
  MaxIgnored = 1
  Causes = {0, 2}
  Points = {1, 2}
  Expectations <- MCExpectations
SPECIFICATION FairSpec
INVARIANTS
  TypeOK
  RuntimeContext
  TestContext
  SingleUse
  NoPanic
  PassCoversPlan
  TrapInv
PROPERTIES
  FailIsReported
