\* A base model is deployed; another and a calibrator are trained, the registry is edited
\* twice and one file is damaged.
SPECIFICATION RegistrySpec
CONSTANTS
  None = None
  Bases = {1, 2}
  Calibrators = {3}
  Deployed = {1}
  MaxEdits = 2
  MaxDamages = 1
INVARIANT ServedWasApproved
INVARIANT EvaluatesWhatWasTrained
INVARIANT NewestIsServed
INVARIANT ServedFits
