\* One device on its own with two saves, one of them a directory, played between
\* its runs; one run dies.
CONSTANTS
  Streams = {s1, s2}
  Devices = {d1}
  Hashes = {c1, c2}
  NoHash = NoHash
  EmptySave = EmptySave
  Handlers = {h1}
  Keys = {k1, k2, k3, k4, k5, k6}
  MaxRevisions = 6
  MaxSessions = 6
  MaxPlays = 2
  MaxCrashes = 1
  MaxOrphans = 0
  DirectoryStreams = {s1}
SPECIFICATION FairIdleSpec
PROPERTIES Settles PendingClears
CHECK_DEADLOCK FALSE
