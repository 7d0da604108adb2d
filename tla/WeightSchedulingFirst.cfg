CONSTANTS
  MaxCorpus = 3
  MaxIteration = 3
  None = None
SPECIFICATION Spec
INVARIANT TableCarriesPublished
