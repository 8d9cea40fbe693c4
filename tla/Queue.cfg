\* Two processes, a queue of three, one timer, three messages; a fair host.
SPECIFICATION FairSpec
CONSTANTS
  MaxLogEvents = 2
  LogSequenceModulus = 4
  MaxProcesses = 2
  TickModulus = 2
  SizeModulus = 16
  DefaultQuota = 2
  Quotas = {0}
  PermissionSets = {{}}
  MaxMemoryBlocks = 1
  TotalMemory = 4
  MaxIpcMessages = 3
  MaxTimers = 1
  MaxIpcSequence = 3
  Intervals = {2}
  Elapsed = {0, 1}
  Calls = {"spawn_process", "stop_process", "ipc_send", "ipc_receive", "create_timer", "tick"}
  BlockSizes = {}
  RequiredPermissions = {{}}
INVARIANTS
  QueueOrdered
PROPERTIES
  ImplementsMailbox
  DeliveredEventually
  TimerEventuallyExpires
