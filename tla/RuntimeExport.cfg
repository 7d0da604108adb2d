CONSTANTS
  MaxVersion = 3
  Interval = 2
  NoFile = NoFile
  Torn = Torn
SPECIFICATION FairSpec
INVARIANTS
  TypeOK
  NeverTorn
  ShutdownExportsLast
PROPERTY ExploreReachesFile
