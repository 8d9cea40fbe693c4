\* Two timers, uneven ticks, a queue that fills up.
SPECIFICATION TimedSpec
CONSTANTS
  MaxLogEvents = 2
  LogSequenceModulus = 4
  MaxProcesses = 2
  TickModulus = 2
  SizeModulus = 16
  DefaultQuota = 2
  Quotas = {0}
  PermissionSets = {{}}
  MaxMemoryBlocks = 1
  TotalMemory = 4
  MaxIpcMessages = 2
  MaxTimers = 2
  MaxIpcSequence = 4
  Intervals = {0, 2, 3}
  Elapsed = {0, 1, 3}
  Calls = {"spawn_process", "stop_process", "ipc_receive", "create_timer", "tick"}
  BlockSizes = {}
  RequiredPermissions = {{}}
INVARIANTS
  TypeOK
  TimersWaiting
  NeverEarly
  LostOnlyWhenFull
