\* One allocation as large as size_t allows.
SPECIFICATION Spec
CONSTANTS
  MaxLogEvents = 2
  LogSequenceModulus = 4
  MaxProcesses = 1
  TickModulus = 2
  SizeModulus = 8
  DefaultQuota = 2
  Quotas = {3}
  PermissionSets = {{}}
  MaxMemoryBlocks = 2
  TotalMemory = 5
  MaxIpcMessages = 1
  MaxTimers = 1
  MaxIpcSequence = 0
  Intervals = {}
  Elapsed = {}
  Calls = {"spawn_process", "allocate_memory"}
  BlockSizes = {1, 7}
  RequiredPermissions = {{}}
INVARIANTS
  QuotaEnforced
