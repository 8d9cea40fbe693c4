\* Nine hosts, each on small tables of its own.
SPECIFICATION MCSpec
CONSTANTS
  MaxProcesses = 4
  MaxBlocks = 3
  MaxLogs = 2
  SizeModulus = 16
  DefaultLimit = 2
  MaxTicks = 4
  MaxMessages = 3
  MaxSequence = 4
  MaxFiles = 3
  PathHeads = {"/recovery/plan.bfs", "/a", "b"}
  PathRests = {1}
  Relative = {"b"}
  PlanHead = "/recovery/plan.bfs"
  Contents = {"x", "y"}
  MaxPackages = 2
  MaxDrivers = 4
  MaxSockets = 2
  MaxWindows = 2
  CountModulus = 3
  DriverHeads = {"camera", "speaker"}
  DriverRests = {1}
  Units = {0, 1}
  Versions = {"1.1", "1.2"}
  SignatureOf <- MCSignatures
  PermissionSets = {{}, {"NET", "CAMERA"}}
  Limits = {0, 3}
  BlockSizes = {0, 1, 2}
  Manifests <- MCManifests
  CpuFamilies = {"ARMV7", "ARM64", "X86", "X86_64"}
  Generations = 6
  MaxRouted = 5
INVARIANTS SystemTypeOK TurnsShared BudgetsKept HealthCountsRoutes
PROPERTIES ReadsStable SystemImplementsMailbox
