CONSTANTS
  Indexes = {k1, k2, k3}
  MaxCorpus = 3
  MaxScore = 2
  None = None
SPECIFICATION Spec
INVARIANTS
  TypeOK
  TopRatedCover
  RefcntCountsIndexes
  NeverFails
  FavoredCoverCorpus
