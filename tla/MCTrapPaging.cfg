\* An interrupt of a machine-mode test with paging.
CONSTANTS
  Configs <- PagingInterruptConfigs
  NumTests = 1
  MaxIgnored = 1
  Causes = {0, 2}
  Points = {1, 2}
  Expectations <- MCExpectations
SPECIFICATION Spec
INVARIANT TranslatedAsSupervisor
