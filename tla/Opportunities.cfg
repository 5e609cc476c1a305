\* The job and a request on the same record, one of them on another as well.
SPECIFICATION FairSpec
CONSTANTS
  job = job  api = api  m1 = m1  m2 = m2
  Runners = {job, api}
  Records = {m1, m2}
  BatchOf <- Mixed
  MaxVersions = 2
  MaxFaults = 2
CHECK_DEADLOCK FALSE
INVARIANT HistoryConsistent
INVARIANT UniqueUnlessShared
INVARIANT VersionsAgree
PROPERTY EvaluatedUnlessFailed
