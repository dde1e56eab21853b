\* One session with a plan of two streams, and two requests at a time.
CONSTANTS
  Streams = {s1, s2}
  Devices = {d1}
  Hashes = {c1, c2}
  NoHash = NoHash
  Handlers = {h1, h2}
  Keys = {k1}
  MaxRevisions = 2
  MaxSessions = 1
SYMMETRY Symmetry
SPECIFICATION SyncSpec
PROPERTIES TerminalStays
CHECK_DEADLOCK FALSE
