\* Two tasks share a store that holds two blocks; the bounds on uses and time end
\* a behaviour, where the program waits for the next use.
SPECIFICATION Spec
CONSTANTS
  d1 = d1  d2 = d2  d3 = d3  d4 = d4
  Digests = {d1, d2, d3, d4}
  Size <- OneLong
  Threads = {t1, t2}
  MaxBytes = 3
  MaxBlocks = 2
  MaxBlockBytes = 3
  Ttl = 1
  MaxSeq = 6
  MaxTime = 3
CHECK_DEADLOCK FALSE
INVARIANTS TypeOK TotalIsSum CountBounded BytesBounded Recency Conserved
PROPERTIES EvictsOldest EvictsToFit
