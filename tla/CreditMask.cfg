CONSTANTS
  Sites <- MCSites
  SchemaDim = 3
  FeatureMaps <- MCFeatureMaps
  Acfgs <- MCAcfgs
  Scale = 60
SPECIFICATION Spec
INVARIANTS
  TypeOK
  FrontierReflectsCorpus
  NoEdgeCreditedTwice
  CommittedMaskIsTopK
  NeverInconsistent
  ExportCoordinatesMatch
PROPERTY MaskImmutable
