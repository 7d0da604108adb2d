CONSTANTS
  MaxCorpus = 3
  MaxIteration = 3
  None = None
SPECIFICATION FairSpec
INVARIANTS
  TypeOK
  TableHoldsCorpus
  PicksFollowPublication
  WeightsOfOnePublication
  FactorsAreCurrent
PROPERTY PublicationReachesTable
