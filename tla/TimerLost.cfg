\* One timer and one client message, a queue of one.
SPECIFICATION TimedSpec
CONSTANTS
  MaxLogEvents = 2
  LogSequenceModulus = 4
  MaxProcesses = 1
  TickModulus = 2
  SizeModulus = 16
  DefaultQuota = 2
  Quotas = {0}
  PermissionSets = {{}}
  MaxMemoryBlocks = 1
  TotalMemory = 4
  MaxIpcMessages = 1
  MaxTimers = 1
  MaxIpcSequence = 2
  Intervals = {1}
  Elapsed = {1}
  Calls = {"spawn_process", "ipc_send", "ipc_receive", "create_timer", "tick"}
  BlockSizes = {}
  RequiredPermissions = {{}}
INVARIANTS
  ExpiryDelivered
