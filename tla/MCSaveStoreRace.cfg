\* Two uploads at a time on the same stream.
CONSTANTS
  Streams = {s1}
  Devices = {d1}
  Hashes = {c1, c2, c3}
  NoHash = NoHash
  Handlers = {h1, h2}
  MaxRevisions = 4
SYMMETRY Symmetry
SPECIFICATION Spec
INVARIANT PublishedRevisionsChain
CHECK_DEADLOCK FALSE
