\* Two requests at a time on one stream: creations race for one key, uploads and
\* acknowledgements for one operation, with uploads outside the session.
CONSTANTS
  Streams = {s1}
  Devices = {d1}
  Hashes = {c1, c2}
  NoHash = NoHash
  Handlers = {h1, h2}
  Keys = {k1}
  MaxRevisions = 2
  MaxSessions = 2
SYMMETRY Symmetry
SPECIFICATION SyncSpec
INVARIANTS PlansLoseNothing CompleteMeansStored CreationIsIdempotent
PROPERTIES ImplementsStore
CHECK_DEADLOCK FALSE
