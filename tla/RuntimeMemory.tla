---------------------------- MODULE RuntimeMemory ----------------------------
(***************************************************************************)
(* The memory manager of the runtime (src/kernel/c/bolun_runtime.c): a      *)
(* table of blocks whose slots are never reused, a budget for the whole     *)
(* device and a quota for each process.  Sizes are size_t: sums wrap at     *)
(* SizeModulus, as the code's do.                                           *)
(***************************************************************************)
EXTENDS RuntimeProcess, TableSums

CONSTANTS MaxMemoryBlocks,   \* BOLUN_MAX_MEMORY_BLOCKS
          TotalMemory        \* config.total_memory_bytes, or its default

ASSUME MemoryAssumption ==
  /\ MaxMemoryBlocks \in Nat \ {0}
  /\ TotalMemory \in Size \ {0}

VARIABLES memory_blocks,     \* runtime->memory_blocks[0 .. memory_block_count-1]
          next_block_id

memoryVars == <<memory_blocks, next_block_id>>

BlockIds == 1..MaxMemoryBlocks

MemoryBlock == [block_id : BlockIds, owner_pid : Pids, bytes : Size, used : BOOLEAN]

MemoryTypeOK ==
  /\ memory_blocks \in Seq(MemoryBlock)
  /\ Len(memory_blocks) <= MaxMemoryBlocks
  /\ next_block_id \in 1..MaxMemoryBlocks + 1

MemoryInit ==
  /\ memory_blocks = <<>>
  /\ next_block_id = 1

-----------------------------------------------------------------------------
UsedBlocks == {b \in DOMAIN memory_blocks : memory_blocks[b].used}

UsedBlocksOf(pid) == {b \in UsedBlocks : memory_blocks[b].owner_pid = pid}

\* The bytes of a set of blocks, as an unbounded sum.
TotalBytes(blocks) == BytesIn(memory_blocks, blocks)

\* used_memory_bytes adds them up in a size_t.
UsedMemoryBytes == TotalBytes(UsedBlocks) % SizeModulus

-----------------------------------------------------------------------------
\* The three conditions of the one `if' that refuses an allocation.
BlockTableFull == Len(memory_blocks) >= MaxMemoryBlocks

ExceedsTotal(bytes) == (UsedMemoryBytes + bytes) % SizeModulus > TotalMemory

\* (mutant) the request itself is not counted
ExceedsQuotaAlready(slot, bytes) ==
  processes[slot].memory_used_bytes > processes[slot].memory_quota_bytes

ExceedsQuota(slot, bytes) ==
  (processes[slot].memory_used_bytes + bytes) % SizeModulus
    > processes[slot].memory_quota_bytes

\* (mutant) identifiers count the blocks in use, so that a freed one is reused
NewBlockReusesId(pid, bytes) ==
  [ block_id |-> Cardinality(UsedBlocks) + 1, owner_pid |-> pid, bytes |-> bytes,
    used |-> TRUE ]

NewBlock(pid, bytes) ==
  [block_id |-> next_block_id, owner_pid |-> pid, bytes |-> bytes, used |-> TRUE]

\* process->memory_used_bytes += bytes
Charge(slot, bytes) ==
  [processes EXCEPT ![slot].memory_used_bytes = (@ + bytes) % SizeModulus]

\* bolun_runtime_allocate_memory
AllocateMemory(pid, bytes) ==
  /\ UNCHANGED <<scheduler_cursor, next_pid, logVars>>
  /\ \/ /\ bytes = 0
        /\ FailWith("INVALID_ARGUMENT")
        /\ UNCHANGED <<processes, memoryVars>>
     \/ /\ bytes # 0
        /\ ~Live(pid)
        /\ FailWith("NOT_FOUND")
        /\ UNCHANGED <<processes, memoryVars>>
     \/ /\ bytes # 0
        /\ Live(pid)
        /\ BlockTableFull \/ ExceedsTotal(bytes) \/ ExceedsQuota(SlotOf(pid), bytes)
        /\ FailWith("FULL")
        /\ UNCHANGED <<processes, memoryVars>>
     \/ /\ bytes # 0
        /\ Live(pid)
        /\ ~BlockTableFull
        /\ ~ExceedsTotal(bytes)
        /\ ~ExceedsQuota(SlotOf(pid), bytes)
        /\ memory_blocks' = Append(memory_blocks, NewBlock(pid, bytes))
        /\ next_block_id' = next_block_id + 1
        /\ processes' = Charge(SlotOf(pid), bytes)
        /\ Succeed

-----------------------------------------------------------------------------
\* (mutant) the owner of the block is not checked
FreeableBlocksOfAnyone(pid, block_id) ==
  {b \in UsedBlocks : memory_blocks[b].block_id = block_id}

\* The blocks bolun_runtime_free_memory accepts: used, with this id and owner.
FreeableBlocks(pid, block_id) ==
  {b \in UsedBlocksOf(pid) : memory_blocks[b].block_id = block_id}

\* The counter saturates at 0 instead of wrapping.
Refund(slot, bytes) ==
  [processes EXCEPT ![slot].memory_used_bytes = IF @ >= bytes THEN @ - bytes ELSE 0]

\* bolun_runtime_free_memory
FreeMemory(pid, block_id) ==
  /\ UNCHANGED <<scheduler_cursor, next_pid, logVars, next_block_id>>
  /\ \/ /\ block_id = 0
        /\ FailWith("INVALID_ARGUMENT")
        /\ UNCHANGED <<processes, memory_blocks>>
     \/ /\ block_id # 0
        /\ ~Live(pid) \/ FreeableBlocks(pid, block_id) = {}
        /\ FailWith("NOT_FOUND")
        /\ UNCHANGED <<processes, memory_blocks>>
     \/ /\ block_id # 0
        /\ Live(pid)
        /\ \E b \in FreeableBlocks(pid, block_id) :
             /\ \A c \in FreeableBlocks(pid, block_id) : b <= c
             /\ memory_blocks' = [memory_blocks EXCEPT ![b].used = FALSE]
             /\ processes' = Refund(SlotOf(pid), memory_blocks[b].bytes)
        /\ Succeed

-----------------------------------------------------------------------------
\* (mutant) a stop forgets the blocks of the process
ReleasedBlocksNone(pid) == memory_blocks

\* The loop of bolun_runtime_stop_process over the block table.
ReleasedBlocks(pid) ==
  [b \in DOMAIN memory_blocks |->
     IF memory_blocks[b].owner_pid = pid
       THEN [memory_blocks[b] EXCEPT !.used = FALSE]
       ELSE memory_blocks[b]]

StoppedProcess(process) ==
  [process EXCEPT !.memory_used_bytes = 0, !.state = "STOPPED"]

\* bolun_runtime_stop_process: the process loses its memory and its life in
\* one call; its timers and its queued messages are left as they are.
StopProcess(pid) ==
  /\ UNCHANGED <<scheduler_cursor, next_pid, next_block_id>>
  /\ \/ /\ Live(pid)
        /\ memory_blocks' = ReleasedBlocks(pid)
        /\ processes' = [processes EXCEPT ![SlotOf(pid)] = StoppedProcess(@)]
        /\ AppendLog
        /\ Succeed
     \/ /\ ~Live(pid)
        /\ FailWith("NOT_FOUND")
        /\ UNCHANGED <<processes, memory_blocks, logVars>>
=============================================================================
