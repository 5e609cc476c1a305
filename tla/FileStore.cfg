\* Two publishers of the same bytes and a reader, every fault once.
SPECIFICATION Spec
CONSTANTS
  w1 = w1  w2 = w2  r1 = r1  b1 = b1  b2 = b2   s1 = s1 
  Procs = {w1, w2, r1}
  Writers = {w1, w2}
  Blobs = {b1}
  Shards = {s1}
  ShardOf <- OneBlob
  MaxFaults <- EachFaultOnce
INVARIANT NoPartialBlob
INVARIANT SettledSurvives
PROPERTY KeepsContract
