CONSTANTS
  SeedChoices <- MCSeeds
  Edits <- MCEdits
  Reports <- MCHardware
  HintOf <- MCHintOf
  Wanted <- MCWanted
  Rewrites <- MCRewrites
  Carried <- MCCarried
  LaunchEditions = {e1, e2}
  LaunchProfiles = {q1}
  LaunchDrivers = {v1}
  LaunchCores = {k1, k2, k3}
  DefaultCore = k1
  Hints = {h1, h2}
  Entries = {e1, e2}
  RomsOf <- MCRomsOf
  BlobsOf <- MCBlobsOf
  Machines <- MCMachines
  Inputs <- MCInputs
  Shapes <- MCShapes
  RuntimeCallers = {u1, u2}
  Releases = {1, 2}
  MaxWrites = 3
  q1 = q1
  v1 = v1
  k1 = k1
  k2 = k2
  k3 = k3
  e1 = e1
  e2 = e2
  h1 = h1
  h2 = h2
  Platform = Platform
  Nothing = Nothing
  Reviewers = {u1, u2}
  MaxTokens = 1
  MaxEdits = 3
  f1 = f1
  f2 = f2
  x1 = x1
  Runs = {run}
  Requests = {u1, u2}
  MaxStamps = 2
  MaxSealed = 1
  MaxRestarts = 1
  Profiles = {p1}
  NoProfile = NoProfile
  Devices = {u1, u2}
  Codes = {code}
  Callers = {c1, c2}
  c1 = c1
  c2 = c2
  CodeLife = 1
  TokenLife = 1
  MaxTime = 2
  p1 = p1
  s1 = s1
  Builds <- MCBuilds
  Contract <- MCContract
  Digest <- MCDigest
  DeviceReports <- MCReports
  BindingInputs <- MCBindingInputs
  MemberShape <- MCMember
  SaveStreams = {s1}
  Bindings = {b1}
  Web = Web
  Native = Native
  Core = Core
  NoCore = NoCore
SYMMETRY ServicesSymmetry
SPECIFICATION ServicesSpec
INVARIANTS ReadinessIsReviewed ReferencedIsKept RevokedStaysOut
PROPERTIES ImplementsCredentials LockedUntilAttested ClaimsComeFromReviews BatchAppliesWhatWasReviewed ImportDivergesByEditOnly CleanupSparesReferences RevivedByStaleUpdateOnly
CHECK_DEADLOCK FALSE
