SPECIFICATION FairSpec
CONSTANTS
  v1 = v1
  v2 = v2
  v3 = v3
  NoVec = NoVec
  None = None
  Vectors <- MCVectors2
  Cell <- MCCell2
  CandidateFiles <- MCCandidateFiles
  Samples = 1
  trials_threshold = 2
  GammaNum = 1
  GammaDen = 2
  MAX_TRIALS = 2
  ExploreTime = 1
  Period = 1
  ReTpeThreshold = 1
  MapSize = 2
  MaxIteration = 4
PROPERTY
  FeaturesEnabledAfterExplore
