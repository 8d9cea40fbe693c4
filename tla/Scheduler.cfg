\* Four slots, spawned, stopped and scheduled in every order; a small log.
SPECIFICATION TurnsSpec
CONSTANTS
  MaxLogEvents = 3
  LogSequenceModulus = 5
  MaxProcesses = 4
  TickModulus = 2
  SizeModulus = 16
  DefaultQuota = 2
  Quotas = {0}
  PermissionSets = {{}}
  MaxMemoryBlocks = 1
  TotalMemory = 4
  MaxIpcMessages = 1
  MaxTimers = 1
  MaxIpcSequence = 0
  Intervals = {}
  Elapsed = {}
  Calls = {"spawn_process", "schedule_next", "stop_process"}
  BlockSizes = {}
  RequiredPermissions = {{}}
INVARIANTS
  RunningAtCursor
  LogWindow
PROPERTIES
  NoStarvation
  BoundedBypass
  StoppedForGood
