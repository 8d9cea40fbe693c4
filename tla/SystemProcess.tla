---------------------------- MODULE SystemProcess ----------------------------
(***************************************************************************)
(* Processes, the scheduler, memory and the log of Bolun Phone 1.0          *)
(* (bolun-phone-1.0/system/core/bolun_system.c).  No call ends a process or *)
(* takes a slot of a table back, so that the identifiers handed out in the  *)
(* order of the slots are written as the slots: 1 is pid 100.               *)
(*                                                                          *)
(* Names and log texts are payload, and a log of payload is its length.     *)
(* Sizes are size_t and wrap at SizeModulus.                                *)
(***************************************************************************)
EXTENDS Integers, SequencesExt, FiniteSetsExt

CONSTANTS MaxProcesses,     \* BOLUN10_MAX_PROCESSES
          MaxBlocks,        \* BOLUN10_MAX_BLOCKS
          MaxLogs,          \* BOLUN10_MAX_LOGS
          SizeModulus,      \* 2^w, the width of size_t
          DefaultLimit,     \* 4 MiB, the limit of a process spawned with limit 0
          MaxTicks          \* a bound of the model on the turns a process gets

ASSUME SystemProcessAssumption ==
  /\ {MaxProcesses, MaxBlocks, MaxLogs, MaxTicks} \subseteq Nat \ {0}
  /\ SizeModulus \in Nat \ {0}
  /\ DefaultLimit \in 1..SizeModulus - 1

VARIABLES processes,         \* system->processes[0 .. process_count-1]
          scheduler_cursor,  \* 0-based, as in the code
          memory,            \* system->memory[0 .. memory_count-1]
          log_count,
          returned           \* what the last call returned: 0 or -1

processVars == <<processes, scheduler_cursor>>

Pids == 1..MaxProcesses
Size == 0..SizeModulus - 1
Permission == {"NET", "CAMERA", "SYSTEM"}

Process ==
  [ state : {"READY", "RUNNING"},
    permissions : SUBSET Permission,
    memory_limit : Size,
    memory_used : Size,
    ticks : 0..MaxTicks ]

MemoryBlock ==
  [owner_pid : Pids, bytes : Size \ {0}, mapped : BOOLEAN, writable : BOOLEAN, used : BOOLEAN]

\* find_process
Known(pid) == pid \in DOMAIN processes

ProcessTypeOK ==
  /\ processes \in Seq(Process) /\ Len(processes) <= MaxProcesses
  /\ scheduler_cursor \in 0..MaxProcesses - 1
  /\ scheduler_cursor < Len(processes) \/ scheduler_cursor = 0
  /\ memory \in Seq(MemoryBlock) /\ Len(memory) <= MaxBlocks
  /\ \A b \in DOMAIN memory : Known(memory[b].owner_pid)
  /\ log_count \in 1..MaxLogs
  /\ returned \in {0, -1}

\* bolun10_system_init, which logs one line
ProcessInit ==
  /\ processes = <<>> /\ scheduler_cursor = 0
  /\ memory = <<>>
  /\ log_count = 1
  /\ returned = 0

-----------------------------------------------------------------------------
Return(code) == returned' = code

\* bolun10_log: at its capacity the log drops its oldest line.
Logged == log_count' = Min({log_count + 1, MaxLogs})

\* bolun10_process_spawn
NewProcess(permissions, limit) ==
  [ state |-> "READY", permissions |-> permissions,
    memory_limit |-> IF limit = 0 THEN DefaultLimit ELSE limit,
    memory_used |-> 0, ticks |-> 0 ]

ProcessSpawn(permissions, limit) ==
  /\ UNCHANGED <<scheduler_cursor, memory>>
  /\ \/ /\ Len(processes) < MaxProcesses
        /\ processes' = Append(processes, NewProcess(permissions, limit))
        /\ Logged
        /\ Return(0)
     \/ /\ Len(processes) = MaxProcesses
        /\ Return(-1)
        /\ UNCHANGED <<processes, log_count>>

\* (mutant) the cursor turns over all slots but the last
NextCursorShort == (scheduler_cursor + 1) % Max({Len(processes) - 1, 1})

NextCursor == (scheduler_cursor + 1) % Len(processes)

\* bolun10_process_schedule: each process is ready or running, so that the first
\* attempt of the search succeeds.
ProcessSchedule ==
  /\ UNCHANGED <<memory, log_count>>
  /\ \/ /\ processes = <<>>
        /\ Return(-1)
        /\ UNCHANGED processVars
     \/ /\ processes # <<>>
        /\ \A i \in DOMAIN processes : processes[i].ticks < MaxTicks
        /\ scheduler_cursor' = NextCursor
        /\ processes' =
             [i \in DOMAIN processes |->
                IF i = NextCursor + 1
                  THEN [processes[i] EXCEPT !.state = "RUNNING", !.ticks = @ + 1]
                  ELSE [processes[i] EXCEPT !.state = "READY"]]
        /\ Return(0)

\* bolun10_security_check
Permitted(pid, required) ==
  required # {} /\ Known(pid) /\ required \subseteq processes[pid].permissions

SecurityCheck(pid, required) ==
  /\ Return(IF Permitted(pid, required) THEN 0 ELSE -1)
  /\ UNCHANGED <<processVars, memory, log_count>>

-----------------------------------------------------------------------------
\* The conditions of bolun10_memory_alloc.  The total memory is not among them.
WithinLimit(pid, bytes) ==
  (processes[pid].memory_used + bytes) % SizeModulus <= processes[pid].memory_limit

Grantable(pid, bytes) ==
  bytes # 0 /\ Len(memory) < MaxBlocks /\ Known(pid) /\ WithinLimit(pid, bytes)

NewBlock(pid, bytes) ==
  [owner_pid |-> pid, bytes |-> bytes, mapped |-> FALSE, writable |-> TRUE, used |-> TRUE]

\* bolun10_memory_alloc
MemoryAlloc(pid, bytes) ==
  /\ UNCHANGED <<scheduler_cursor, log_count>>
  /\ \/ /\ Grantable(pid, bytes)
        /\ memory' = Append(memory, NewBlock(pid, bytes))
        /\ processes' = [processes EXCEPT ![pid].memory_used = (@ + bytes) % SizeModulus]
        /\ Return(0)
     \/ /\ ~Grantable(pid, bytes)
        /\ Return(-1)
        /\ UNCHANGED <<processes, memory>>

\* (mutant) a block that is freed already is found again
UsedBlockOnce(block_id) == block_id \in DOMAIN memory

UsedBlock(block_id) == block_id \in DOMAIN memory /\ memory[block_id].used

\* bolun10_memory_free, by whoever knows the block's identifier
MemoryFree(block_id) ==
  /\ UNCHANGED <<scheduler_cursor, log_count>>
  /\ \/ /\ UsedBlock(block_id)
        /\ memory' = [memory EXCEPT ![block_id].used = FALSE]
        /\ processes' = [processes EXCEPT ![memory[block_id].owner_pid].memory_used =
                           IF @ >= memory[block_id].bytes THEN @ - memory[block_id].bytes
                                                          ELSE @]
        /\ Return(0)
     \/ /\ ~UsedBlock(block_id)
        /\ Return(-1)
        /\ UNCHANGED <<processes, memory>>

\* bolun10_memory_map.  The address itself is payload; address 0 is refused.
MemoryMap(block_id, address_given, writable) ==
  /\ UNCHANGED <<processVars, log_count>>
  /\ \/ /\ address_given /\ UsedBlock(block_id)
        /\ memory' = [memory EXCEPT ![block_id].mapped = TRUE,
                                    ![block_id].writable = writable]
        /\ Return(0)
     \/ /\ ~(address_given /\ UsedBlock(block_id))
        /\ Return(-1)
        /\ UNCHANGED memory
=============================================================================
