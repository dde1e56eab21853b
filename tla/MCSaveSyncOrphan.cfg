\* One device; two of its runs give up on requests the server goes on with.
CONSTANTS
  Streams = {s1}
  Devices = {d1}
  Hashes = {c1, c2}
  NoHash = NoHash
  EmptySave = EmptySave
  Handlers = {h1, h2}
  Keys = {k1, k2, k3}
  MaxRevisions = 4
  MaxSessions = 3
  MaxPlays = 1
  MaxCrashes = 1
  MaxOrphans = 2
  DirectoryStreams = {}
SYMMETRY Symmetry
SPECIFICATION AnySpec
INVARIANTS BaseIsStored PlanFitsRun
CHECK_DEADLOCK FALSE
