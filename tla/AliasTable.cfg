CONSTANTS
  MaxCorpus = 3
  MaxWeight = 3
  MaxUlp = 1
  None = None
SPECIFICATION FairSpec
INVARIANTS
  TypeOK
  NoMissingAlias
  StacksHoldTheRest
  DrawsAreProportional
PROPERTY TableGetsRebuilt
