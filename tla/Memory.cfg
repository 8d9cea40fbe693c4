\* Two processes whose quotas exceed the memory together, with turns, checks and system calls; three blocks, sizes that never wrap.
SPECIFICATION Spec
CONSTANTS
  MaxLogEvents = 2
  LogSequenceModulus = 4
  MaxProcesses = 2
  TickModulus = 2
  SizeModulus = 16
  DefaultQuota = 2
  Quotas = {3}
  PermissionSets = {{}}
  MaxMemoryBlocks = 3
  TotalMemory = 4
  MaxIpcMessages = 1
  MaxTimers = 1
  MaxIpcSequence = 0
  Intervals = {}
  Elapsed = {}
  Calls = {"spawn_process", "schedule_next", "stop_process", "allocate_memory", "free_memory", "security_check", "log", "syscall"}
  BlockSizes = {0, 1, 2}
  RequiredPermissions = {{}, {"CAMERA"}}
INVARIANTS
  BlocksOwnedByLive
  MemoryAccounting
  QuotaEnforced
  IdentifiersBySlot
