\* Two concurrent uploads over two streams and two contents; two tabs, one
\* other device and one room; three editions, two items of one device and two
\* requests; one source with two files, one scan and two requests.
CONSTANTS
  Streams = {s1, s2}
  Devices = {pad, web}
  Hashes = {c1, c2}
  NoHash = NoHash
  Handlers = {h1, h2, agent}
  MaxRevisions = 4
  Pad = pad
  Tabs = {h1, h2}
  Agent = agent
  Web = web
  Rooms = {room}
  Roms = {m1, m2}
  MaxTabRevisions = 2
  MaxEvents = 4
  Editions = {e1, c1, c2}
  Platform = platform
  Platforms = {platform}
  Value = value
  Values = {value}
  NoValue = none
  Client = client
  Clients = {client}
  Tiers <- MCTiers
  Rows <- MCRows
  Reported <- MCReported
  Reporters = {d1}
  Matchers = {h1, h2}
  Items = {i1, i2}
  MaxSigned = 1
  MaxEdits = 1
  Sources = {src}
  Scans = {scan}
  q1 = q1
  q2 = q2
  Below <- MCBelow
  SourceRows <- MCSourceRows
  Contents = {c1, c2}
  Gone = NoHash
  Callers = {h1, h2}
  MaxChanges = 1
SYMMETRY Symmetry
SPECIFICATION StoreSpec
INVARIANTS ConfirmedMatchesAreConfirmed CurrentIsNewestPublished ParentIsOlderInStream ResultHoldsContent OneGamePerRoom
PROPERTIES ImportsWhatWasPreviewed AppendOnly SupersedesWhatItRead ImplementsHistory UnseenWorkSurvives
CHECK_DEADLOCK FALSE
