\* Managed storage alone: two entries, two requests, one cleanup run, one restart.
CONSTANTS
  e1 = e1
  e2 = e2
  f1 = f1
  f2 = f2
  b1 = b1
  Entries = {e1, e2}
  RomsOf <- MCRomsOf
  BlobsOf <- MCBlobsOf
  Runs = {q1}
  Requests = {r1, r2}
  MaxStamps = 2
  MaxSealed = 1
  MaxRestarts = 1
SYMMETRY StorageSymmetry
SPECIFICATION StorageSpec
INVARIANTS InterruptedRunsAreRecoverable
CHECK_DEADLOCK FALSE
