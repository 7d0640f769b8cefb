\* A hart in the depart spin while another one leaves without departing.
CONSTANTS
  Harts = {h0, h1, h2}
  Hart0 = h0
  SequenceLength = 0
  MaxTries = 2
  EotTimeout = 0
  Outcomes = {"pass", "end"}
SPECIFICATION FairSpec
PROPERTIES
  NominalEndHaltsAll
