\* One run of each sport over games and boards with one oddity each.
SPECIFICATION Spec
CONSTANTS
  None = None
  junk = junk
  Junk = junk
  Abbreviates <- MCAbbreviates
  Acronym <- MCAcronym
  Batches <- MCBatches
  Manifests <- MCManifests
  Calibrators <- MCCalibrators
  Probabilities <- MCProbabilities
  Odds <- MCOdds
  Limit = 2
  Delays <- MCDelays
  MaxDisturbances = 2
INVARIANT EvaluatedOnTheBestMatch
INVARIANT MarketsApart
INVARIANT DecisionsSound
INVARIANT ProbabilitiesCoherent
INVARIANT RunAccounted
