\* A day of one event after a few days of history, in either sport.
SPECIFICATION Spec
SYMMETRY Symmetry
CHECK_DEADLOCK FALSE
CONSTANTS
  None = None
  Live = {11}
  Starts = {120, 180}
  Past <- MCPast
  FeatureVersions = {"phase2_registry_v0", "phase2_registry_v1"}
  Syncs <- MCSyncs
  p = p
  q = q
  Tick = 60
  MaxClock = 180
  MaxRuns = 3
  ValidationFraction = 40
  TrainFraction = 40
  MinSamples = 3
  MinPartition = 1
  CvFolds = 2
  MinTrain = 2
  TestBlock = 1
  Promise <- MCPromise
INVARIANT TennisLearnsFromBefore
INVARIANT LabelsTrue
INVARIANT ResultsCounted
INVARIANT NothingTestedIsSeen
INVARIANT InputsSound
