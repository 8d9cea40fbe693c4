-------------------------- MODULE RuntimeTypeProofs --------------------------
(***************************************************************************)
(* The type invariant of the runtime and the numbering of its tables, for   *)
(* every capacity, quota, size, interval and set of calls.  TypeOK is not   *)
(* inductive alone: next_pid stays in range because it counts the slots,    *)
(* and the slot that find_process returns exists because pids number them.  *)
(***************************************************************************)
EXTENDS RuntimeProperties, OperatorLemmas

TypeInv == TypeOK /\ IdentifiersBySlot

-----------------------------------------------------------------------------
(* Helpers. *)

\* find_process returns the one slot that the pid numbers, and it is live.
LEMMA FindProcess ==
  ASSUME ProcessTypeOK, PidsBySlot, NEW pid, Live(pid)
  PROVE  /\ SlotOf(pid) \in DOMAIN processes
         /\ processes[SlotOf(pid)].pid = pid
         /\ processes[SlotOf(pid)].state # "STOPPED"
         /\ SlotOf(pid) = pid - FirstPid + 1
<1>1. PICK i \in DOMAIN processes : processes[i].pid = pid /\ processes[i].state # "STOPPED"
  BY DEF Live, LiveSlots
<1>2. i \in Nat /\ pid = FirstPid + i - 1
  BY <1>1 DEF PidsBySlot, ProcessTypeOK
<1>3. LiveSlots(pid) = {i}
  BY <1>1, <1>2 DEF LiveSlots, PidsBySlot, ProcessTypeOK, FirstPid
<1>4. Min({i}) = i
  BY <1>2 DEF Min
<1> QED
  BY <1>1, <1>2, <1>3, <1>4 DEF SlotOf, FirstPid

-----------------------------------------------------------------------------
(* The log. *)

LEMMA AppendLogTypes ==
  ASSUME LogTypeOK, AppendLog
  PROVE  LogTypeOK'
<1>1. RetainedLogs \in Seq(LogEvent) /\ Len(RetainedLogs) < MaxLogEvents
  BY LogAssumption DEF LogTypeOK, RetainedLogs
<1>2. next_log_sequence \in LogEvent
  BY DEF LogTypeOK
<1>3. NextLogSequence(next_log_sequence) \in LogEvent
  BY LogAssumption DEF LogTypeOK, LogEvent, NextLogSequence
<1> QED BY <1>1, <1>2, <1>3, LogAssumption DEF AppendLog, LogTypeOK

-----------------------------------------------------------------------------
(* Processes. *)

\* A table that is rewritten in place is a sequence of the same length.
LEMMA TableSeq ==
  ASSUME NEW S, NEW n \in Nat, NEW f \in [1..n -> S]
  PROVE  f \in Seq(S) /\ Len(f) = n /\ DOMAIN f = 1..n
OBVIOUS

LEMMA SpawnTypes ==
  ASSUME ProcessTypeOK, PidsBySlot, LogTypeOK,
         NEW permissions \in PermissionSets, NEW quota \in Quotas,
         SpawnProcess(permissions, quota)
  PROVE  ProcessTypeOK' /\ PidsBySlot' /\ LogTypeOK' /\ result' \in ResultCode
<1>1. CASE Len(processes) < MaxProcesses /\ result' = "OK"
           /\ processes' = Append(processes, NewProcess(permissions, quota))
           /\ next_pid' = next_pid + 1 /\ AppendLog /\ UNCHANGED scheduler_cursor
  <2>1. LogTypeOK'
    BY <1>1, AppendLogTypes
  <2>2. NewProcess(permissions, quota) \in Process
    BY <1>1, ProcessAssumption
    DEF NewProcess, Process, EffectiveQuota, ProcessTypeOK, PidsBySlot, Pids, FirstPid, Size
  <2>3. next_pid = FirstPid + Len(processes)
    BY DEF PidsBySlot
  <2>4. NewProcess(permissions, quota).pid = next_pid
    BY DEF NewProcess
  <2>5. ProcessTypeOK'
    BY <1>1, <2>2, <2>3, ProcessAssumption DEF ProcessTypeOK, FirstPid
  <2>6. PidsBySlot'
    BY <1>1, <2>2, <2>3, <2>4, ProcessAssumption DEF ProcessTypeOK, PidsBySlot, FirstPid
  <2> QED BY <1>1, <2>1, <2>5, <2>6 DEF ResultCode
<1>2. CASE result' = "FULL" /\ UNCHANGED <<processVars, logVars>>
  BY <1>2 DEF ProcessTypeOK, PidsBySlot, LogTypeOK, processVars, logVars, ResultCode
<1> QED BY <1>1, <1>2 DEF SpawnProcess, Succeed, FailWith

\* The search of the scheduler stays inside the table.
LEMMA CandidateInTable ==
  ASSUME ProcessTypeOK, NEW k \in 1..Len(processes)
  PROVE  Candidate(k) \in DOMAIN processes
<1> DEFINE n == Len(processes)
           x == scheduler_cursor + k
<1>1. n \in Nat /\ n > 0 /\ x \in Nat /\ DOMAIN processes = 1..n
  BY DEF ProcessTypeOK
<1>2. x % n \in 0..n - 1
  BY <1>1
<1> QED BY <1>1, <1>2 DEF Candidate

LEMMA ScheduleTypes ==
  ASSUME ProcessTypeOK, PidsBySlot, LogTypeOK, ScheduleNext
  PROVE  ProcessTypeOK' /\ PidsBySlot' /\ LogTypeOK' /\ result' \in ResultCode
<1>1. ASSUME NEW k \in 1..Len(processes),
             scheduler_cursor' = Candidate(k) - 1,
             processes' = [i \in DOMAIN processes |->
                             IF i = Candidate(k) THEN Dispatched(processes[i])
                                                 ELSE Demoted(processes[i])],
             result' = "OK", UNCHANGED <<next_pid, logVars>>
      PROVE  ProcessTypeOK' /\ PidsBySlot' /\ LogTypeOK' /\ result' \in ResultCode
  <2>1. ASSUME NEW p \in Process
        PROVE  /\ Dispatched(p) \in Process /\ Dispatched(p).pid = p.pid
               /\ Demoted(p) \in Process /\ Demoted(p).pid = p.pid
    <3>1. (p.cpu_ticks + 1) % TickModulus \in 0..TickModulus - 1
      BY ProcessAssumption DEF Process
    <3>2. Dispatched(p) \in Process /\ Dispatched(p).pid = p.pid
      BY <3>1 DEF Dispatched, Process
    <3>3. Demoted(p) \in Process /\ Demoted(p).pid = p.pid
      BY DEF Demoted, Process
    <3> QED BY <3>2, <3>3
  <2>2. DOMAIN processes = 1..Len(processes) /\ \A i \in DOMAIN processes : processes[i] \in Process
    BY DEF ProcessTypeOK
  <2>3. processes' \in [1..Len(processes) -> Process]
    BY <1>1, <2>1, <2>2
  <2>4. processes' \in Seq(Process) /\ Len(processes') = Len(processes)
        /\ DOMAIN processes' = DOMAIN processes
    BY <2>2, <2>3, TableSeq DEF ProcessTypeOK
  <2>5. ProcessTypeOK'
    BY <1>1, <2>2, <2>4, CandidateInTable, ProcessAssumption DEF ProcessTypeOK
  <2>6. PidsBySlot'
    <3>1. \A i \in DOMAIN processes : processes'[i].pid = processes[i].pid
      BY <1>1, <2>1, <2>2
    <3> QED BY <1>1, <2>4, <3>1 DEF PidsBySlot
  <2> QED BY <1>1, <2>5, <2>6 DEF LogTypeOK, logVars, ResultCode
<1>2. CASE result' = "NOT_FOUND" /\ UNCHANGED <<processVars, logVars>>
  BY <1>2 DEF ProcessTypeOK, PidsBySlot, LogTypeOK, processVars, logVars, ResultCode
<1> QED BY <1>1, <1>2 DEF ScheduleNext, Succeed, FailWith

LEMMA SecurityCheckTypes ==
  ASSUME ProcessTypeOK, PidsBySlot, LogTypeOK, NEW pid, NEW required,
         SecurityCheck(pid, required)
  PROVE  ProcessTypeOK' /\ PidsBySlot' /\ LogTypeOK' /\ result' \in ResultCode
<1>1. result' \in ResultCode /\ UNCHANGED <<processVars, logVars>>
  BY DEF SecurityCheck, Succeed, FailWith, ResultCode
<1> QED BY <1>1 DEF ProcessTypeOK, PidsBySlot, LogTypeOK, processVars, logVars

\* Rewriting one live slot with a descriptor of the same pid keeps the table.
LEMMA UpdateSlot ==
  ASSUME ProcessTypeOK, PidsBySlot, NEW i \in DOMAIN processes, NEW p \in Process,
         p.pid = processes[i].pid, processes' = [processes EXCEPT ![i] = p],
         UNCHANGED <<scheduler_cursor, next_pid>>
  PROVE  ProcessTypeOK' /\ PidsBySlot'
<1>1. /\ DOMAIN processes = 1..Len(processes) /\ Len(processes) \in Nat
      /\ \A j \in DOMAIN processes : processes[j] \in Process
  BY DEF ProcessTypeOK
<1>2. processes' \in [1..Len(processes) -> Process]
  BY <1>1
<1>3. processes' \in Seq(Process) /\ Len(processes') = Len(processes)
      /\ DOMAIN processes' = DOMAIN processes
  BY <1>1, <1>2, TableSeq
<1>4. \A j \in DOMAIN processes : processes'[j].pid = processes[j].pid
  BY <1>1
<1> QED BY <1>3, <1>4 DEF ProcessTypeOK, PidsBySlot

-----------------------------------------------------------------------------
(* Memory. *)

MemoryInv == MemoryTypeOK /\ BlockIdsBySlot

LEMMA AllocateTypes ==
  ASSUME ProcessTypeOK, PidsBySlot, LogTypeOK, MemoryInv,
         NEW pid \in Pids, NEW bytes \in BlockSizes, AllocateMemory(pid, bytes)
  PROVE  /\ ProcessTypeOK' /\ PidsBySlot' /\ LogTypeOK' /\ MemoryInv'
         /\ result' \in ResultCode
<1>1. LogTypeOK' /\ result' \in ResultCode
  BY DEF AllocateMemory, LogTypeOK, logVars, ResultCode, Succeed, FailWith
<1>2. CASE UNCHANGED <<processes, memoryVars>>
  BY <1>1, <1>2
  DEF AllocateMemory, ProcessTypeOK, PidsBySlot, MemoryInv, MemoryTypeOK, BlockIdsBySlot,
      memoryVars
<1>3. CASE /\ Live(pid) /\ ~BlockTableFull
           /\ memory_blocks' = Append(memory_blocks, NewBlock(pid, bytes))
           /\ next_block_id' = next_block_id + 1
           /\ processes' = Charge(SlotOf(pid), bytes)
  <2> DEFINE i == SlotOf(pid)
             p == [processes[i] EXCEPT !.memory_used_bytes = (@ + bytes) % SizeModulus]
  <2>1. i \in DOMAIN processes /\ processes[i] \in Process
    BY <1>3, FindProcess DEF ProcessTypeOK
  <2>2. bytes \in Size /\ (processes[i].memory_used_bytes + bytes) % SizeModulus \in Size
    BY <2>1, ProcessAssumption, CallsAssumption DEF Process, Size
  <2>3. p \in Process /\ p.pid = processes[i].pid
    BY <2>1, <2>2 DEF Process
  <2>4. processes' = [processes EXCEPT ![i] = p]
    BY <1>3, <2>1 DEF Charge
  <2>5. ProcessTypeOK' /\ PidsBySlot'
    <3> HIDE DEF p, i
    <3> QED BY <2>1, <2>3, <2>4, UpdateSlot DEF AllocateMemory
  <2>6. NewBlock(pid, bytes) \in MemoryBlock /\ NewBlock(pid, bytes).block_id = next_block_id
    BY <1>3, <2>2, MemoryAssumption
    DEF NewBlock, MemoryBlock, MemoryInv, MemoryTypeOK, BlockIdsBySlot, BlockIds, BlockTableFull
  <2>7. MemoryInv'
    BY <1>3, <2>6, MemoryAssumption DEF MemoryInv, MemoryTypeOK, BlockIdsBySlot, BlockTableFull
  <2> QED BY <1>1, <2>5, <2>7
<1> QED BY <1>2, <1>3 DEF AllocateMemory

\* A block table whose entries keep their identifiers keeps its type.
LEMMA UpdateBlocks ==
  ASSUME MemoryInv, NEW blocks, memory_blocks' = blocks, UNCHANGED next_block_id,
         blocks \in [1..Len(memory_blocks) -> MemoryBlock],
         \A b \in DOMAIN memory_blocks : blocks[b].block_id = memory_blocks[b].block_id
  PROVE  MemoryInv'
<1>1. Len(memory_blocks) \in Nat /\ DOMAIN memory_blocks = 1..Len(memory_blocks)
  BY DEF MemoryInv, MemoryTypeOK
<1>2. blocks \in Seq(MemoryBlock) /\ Len(blocks) = Len(memory_blocks)
      /\ DOMAIN blocks = DOMAIN memory_blocks
  BY <1>1, TableSeq
<1> QED BY <1>2 DEF MemoryInv, MemoryTypeOK, BlockIdsBySlot

LEMMA FreeTypes ==
  ASSUME ProcessTypeOK, PidsBySlot, LogTypeOK, MemoryInv,
         NEW pid \in Pids, NEW block_id, FreeMemory(pid, block_id)
  PROVE  /\ ProcessTypeOK' /\ PidsBySlot' /\ LogTypeOK' /\ MemoryInv'
         /\ result' \in ResultCode
<1>1. LogTypeOK' /\ result' \in ResultCode
  BY DEF FreeMemory, LogTypeOK, logVars, ResultCode, Succeed, FailWith
<1>2. CASE UNCHANGED <<processes, memory_blocks>>
  BY <1>1, <1>2
  DEF FreeMemory, ProcessTypeOK, PidsBySlot, MemoryInv, MemoryTypeOK, BlockIdsBySlot
<1>3. ASSUME Live(pid), NEW b \in FreeableBlocks(pid, block_id),
             memory_blocks' = [memory_blocks EXCEPT ![b].used = FALSE],
             processes' = Refund(SlotOf(pid), memory_blocks[b].bytes)
      PROVE  ProcessTypeOK' /\ PidsBySlot' /\ MemoryInv'
  <2> DEFINE i == SlotOf(pid)
             bytes == memory_blocks[b].bytes
             p == [processes[i] EXCEPT !.memory_used_bytes = IF @ >= bytes THEN @ - bytes ELSE 0]
  <2>1. i \in DOMAIN processes /\ processes[i] \in Process
    BY <1>3, FindProcess DEF ProcessTypeOK
  <2>2. /\ b \in DOMAIN memory_blocks /\ DOMAIN memory_blocks = 1..Len(memory_blocks)
        /\ \A c \in DOMAIN memory_blocks : memory_blocks[c] \in MemoryBlock
    BY DEF FreeableBlocks, UsedBlocksOf, UsedBlocks, MemoryInv, MemoryTypeOK
  <2>3. p \in Process /\ p.pid = processes[i].pid
    <3>1. bytes \in Size /\ processes[i].memory_used_bytes \in Size
      BY <2>1, <2>2 DEF Process, MemoryBlock
    <3>2. (IF processes[i].memory_used_bytes >= bytes
             THEN processes[i].memory_used_bytes - bytes ELSE 0) \in Size
      BY <3>1, ProcessAssumption DEF Size
    <3> QED BY <2>1, <3>2 DEF Process
  <2>4. processes' = [processes EXCEPT ![i] = p]
    BY <1>3, <2>1 DEF Refund
  <2>5. ProcessTypeOK' /\ PidsBySlot'
    <3> HIDE DEF p, i
    <3> QED BY <2>1, <2>3, <2>4, UpdateSlot DEF FreeMemory
  <2>6. MemoryInv'
    <3>1. [memory_blocks EXCEPT ![b].used = FALSE] \in [1..Len(memory_blocks) -> MemoryBlock]
      BY <2>2 DEF MemoryBlock
    <3>2. \A c \in DOMAIN memory_blocks :
            [memory_blocks EXCEPT ![b].used = FALSE][c].block_id = memory_blocks[c].block_id
      BY <2>2 DEF MemoryBlock
    <3> QED BY <1>3, <3>1, <3>2, UpdateBlocks DEF FreeMemory
  <2> QED BY <2>5, <2>6
<1> QED BY <1>1, <1>2, <1>3 DEF FreeMemory

LEMMA StopTypes ==
  ASSUME ProcessTypeOK, PidsBySlot, LogTypeOK, MemoryInv,
         NEW pid \in Pids, StopProcess(pid)
  PROVE  /\ ProcessTypeOK' /\ PidsBySlot' /\ LogTypeOK' /\ MemoryInv'
         /\ result' \in ResultCode
<1>1. CASE UNCHANGED <<processes, memory_blocks, logVars>> /\ result' = "NOT_FOUND"
  BY <1>1
  DEF StopProcess, ProcessTypeOK, PidsBySlot, MemoryInv, MemoryTypeOK, BlockIdsBySlot,
      LogTypeOK, logVars, ResultCode
<1>2. CASE /\ Live(pid) /\ memory_blocks' = ReleasedBlocks(pid)
           /\ processes' = [processes EXCEPT ![SlotOf(pid)] = StoppedProcess(@)]
           /\ AppendLog /\ result' = "OK"
  <2> DEFINE i == SlotOf(pid)
             p == StoppedProcess(processes[i])
  <2>1. i \in DOMAIN processes /\ processes[i] \in Process
    BY <1>2, FindProcess DEF ProcessTypeOK
  <2>2. p \in Process /\ p.pid = processes[i].pid
    <3>1. 0 \in Size
      BY ProcessAssumption DEF Size
    <3>2. [processes[i] EXCEPT !.memory_used_bytes = 0] \in Process
      BY <2>1, <3>1 DEF Process
    <3> QED BY <2>1, <3>2 DEF StoppedProcess, Process
  <2>3. processes' = [processes EXCEPT ![i] = p]
    BY <1>2, <2>1
  <2>4. ProcessTypeOK' /\ PidsBySlot'
    <3> HIDE DEF p, i
    <3> QED BY <2>1, <2>2, <2>3, UpdateSlot DEF StopProcess
  <2>5. LogTypeOK'
    BY <1>2, AppendLogTypes
  <2>6. DOMAIN memory_blocks = 1..Len(memory_blocks)
        /\ \A c \in DOMAIN memory_blocks : memory_blocks[c] \in MemoryBlock
    BY DEF MemoryInv, MemoryTypeOK
  <2>7. ReleasedBlocks(pid) \in [1..Len(memory_blocks) -> MemoryBlock]
    BY <2>6 DEF ReleasedBlocks, MemoryBlock
  <2>8. \A c \in DOMAIN memory_blocks :
          ReleasedBlocks(pid)[c].block_id = memory_blocks[c].block_id
    BY <2>6 DEF ReleasedBlocks, MemoryBlock
  <2>9. MemoryInv'
    BY <1>2, <2>7, <2>8, UpdateBlocks DEF StopProcess
  <2> QED BY <1>2, <2>4, <2>5, <2>9 DEF ResultCode
<1> QED BY <1>1, <1>2 DEF StopProcess, Succeed, FailWith

-----------------------------------------------------------------------------
(* Messages. *)

LEMMA SendTypes ==
  ASSUME ProcessTypeOK, PidsBySlot, IpcTypeOK,
         NEW from_pid \in Pids \cup {KernelPid}, NEW to_pid \in Pids,
         IpcSend(from_pid, to_pid)
  PROVE  IpcTypeOK' /\ result' \in ResultCode
<1>1. result' \in ResultCode
  BY DEF IpcSend, ResultCode, Succeed, FailWith
<1>2. CASE UNCHANGED ipcVars
  BY <1>1, <1>2 DEF IpcTypeOK, ipcVars
<1>3. CASE /\ IpcRoom > 0
           /\ ipc_messages' = Append(ipc_messages, ClientMessage(from_pid, to_pid))
           /\ next_ipc_sequence' = next_ipc_sequence + 1
  <2>1. ClientMessage(from_pid, to_pid) \in IpcMessage
    BY DEF ClientMessage, IpcMessage, IpcTypeOK
  <2> QED BY <1>1, <1>3, <2>1, IpcAssumption DEF IpcTypeOK, IpcRoom
<1> QED BY <1>2, <1>3 DEF IpcSend

LEMMA ReceiveTypes ==
  ASSUME IpcTypeOK, NEW pid, IpcReceive(pid)
  PROVE  IpcTypeOK' /\ result' \in ResultCode
<1>1. result' \in ResultCode
  BY DEF IpcReceive, ResultCode, Succeed, FailWith
<1>2. CASE UNCHANGED ipc_messages
  BY <1>1, <1>2 DEF IpcReceive, IpcTypeOK
<1>3. ASSUME NEW m \in MessagesFor(pid), ipc_messages' = WithoutMessage(m)
      PROVE  IpcTypeOK'
  <2>1. m \in 1..Len(ipc_messages)
    BY DEF MessagesFor, IpcTypeOK
  <2> QED
    BY <1>3, <2>1, RemoveAtSeq, IpcAssumption DEF IpcReceive, WithoutMessage, IpcTypeOK
<1> QED BY <1>1, <1>2, <1>3 DEF IpcReceive

-----------------------------------------------------------------------------
(* Timers. *)

TimerInv == TimerTypeOK /\ TimerIdsBySlot

LEMMA CreateTimerTypes ==
  ASSUME TimerInv, NEW owner \in Pids, NEW interval \in Intervals, NEW repeating \in BOOLEAN,
         CreateTimer(owner, interval, repeating)
  PROVE  TimerInv' /\ result' \in ResultCode
<1>1. result' \in ResultCode
  BY DEF CreateTimer, ResultCode, Succeed, FailWith
<1>2. CASE UNCHANGED timerVars
  BY <1>1, <1>2 DEF TimerInv, TimerTypeOK, TimerIdsBySlot, timerVars
<1>3. CASE /\ Len(timers) < MaxTimers
           /\ timers' = Append(timers, NewTimer(owner, interval, repeating))
           /\ next_timer_id' = next_timer_id + 1
  <2>1. /\ NewTimer(owner, interval, repeating) \in Timer
        /\ NewTimer(owner, interval, repeating).timer_id = next_timer_id
    BY <1>3, IpcAssumption, TimerAssumption
    DEF NewTimer, Timer, TimerIds, TimerInv, TimerTypeOK, TimerIdsBySlot
  <2> QED
    BY <1>1, <1>3, <2>1, IpcAssumption DEF TimerInv, TimerTypeOK, TimerIdsBySlot
<1> QED BY <1>2, <1>3 DEF CreateTimer

\* What one walk of the timer table posts: a bounded batch of well-formed
\* messages from the kernel to live owners, numbered on from the counter.
LEMMA PostedBatch ==
  ASSUME IpcTypeOK, TimerInv, NEW elapsed, NEW post \in Posts(elapsed)
  PROVE  /\ Len(post) \in Nat /\ DOMAIN post = 1..Len(post)
         /\ Len(post) <= IpcRoom
         /\ \A k \in 1..Len(post) :
              /\ post[k] \in Deliverable(elapsed)
              /\ ExpiryMessage(timers[post[k]], next_ipc_sequence + k - 1) \in IpcMessage
<1> DEFINE slots == Deliverable(elapsed)
<1>1. Len(timers) \in Nat /\ DOMAIN timers = 1..Len(timers)
      /\ \A t \in DOMAIN timers : timers[t] \in Timer
  BY DEF TimerInv, TimerTypeOK
<1>2. slots \subseteq 1..Len(timers)
  BY <1>1 DEF Deliverable, Due
<1>3. IsFiniteSet(slots)
  <2>1. IsFiniteSet(1..Len(timers))
    BY <1>1, FS_Interval
  <2> QED BY <1>2, <2>1, FS_Subset
<1>4. Cardinality(slots) \in Nat
  BY <1>3, FS_CardinalityType
<1>5. IpcRoom \in Nat
  BY IpcAssumption DEF IpcRoom, IpcTypeOK
<1>6. PostCount(elapsed) \in Nat /\ PostCount(elapsed) <= IpcRoom
  BY <1>4, <1>5 DEF PostCount
<1>7. post \in [1..PostCount(elapsed) -> slots]
  BY DEF Posts
<1>8. Len(post) = PostCount(elapsed) /\ DOMAIN post = 1..Len(post)
  BY <1>6, <1>7
<1>9. ASSUME NEW k \in 1..Len(post)
      PROVE  ExpiryMessage(timers[post[k]], next_ipc_sequence + k - 1) \in IpcMessage
  <2>1. timers[post[k]] \in Timer
    BY <1>1, <1>2, <1>7, <1>8
  <2>2. next_ipc_sequence + k - 1 \in Nat
    BY <1>6, <1>8 DEF IpcTypeOK
  <2> QED BY <2>1, <2>2 DEF ExpiryMessage, IpcMessage, Timer
<1> QED BY <1>6, <1>7, <1>8, <1>9

\* An advanced timer is the same timer with another time to wait.
LEMMA AdvancedTypes ==
  ASSUME NEW timer \in Timer, NEW elapsed \in Elapsed
  PROVE  /\ Advanced(timer, elapsed) \in Timer
         /\ Advanced(timer, elapsed).timer_id = timer.timer_id
<1>1. CASE ~timer.active
  BY <1>1 DEF Advanced
<1>2. CASE timer.active /\ elapsed >= timer.remaining_ms
  BY <1>2, TimerAssumption DEF Advanced, Expired, Timer
<1>3. CASE timer.active /\ ~(elapsed >= timer.remaining_ms)
  <2>1. timer.remaining_ms - elapsed \in Nat
    BY <1>3, TimerAssumption DEF Timer
  <2> QED BY <1>3, <2>1 DEF Advanced, Timer
<1> QED BY <1>1, <1>2, <1>3

LEMMA TickTypes ==
  ASSUME IpcTypeOK, TimerInv, NEW elapsed \in Elapsed, Tick(elapsed)
  PROVE  IpcTypeOK' /\ TimerInv' /\ result' \in ResultCode
<1>1. IpcTypeOK'
  <2>1. PICK post \in Posts(elapsed) :
          /\ ipc_messages' = ipc_messages \o
               [k \in DOMAIN post |-> ExpiryMessage(timers[post[k]], next_ipc_sequence + k - 1)]
          /\ next_ipc_sequence' = next_ipc_sequence + Len(post)
    BY DEF Tick
  <2> DEFINE batch == [k \in DOMAIN post |->
                         ExpiryMessage(timers[post[k]], next_ipc_sequence + k - 1)]
  <2>2. /\ Len(post) \in Nat /\ DOMAIN post = 1..Len(post) /\ Len(post) <= IpcRoom
        /\ \A k \in 1..Len(post) :
             ExpiryMessage(timers[post[k]], next_ipc_sequence + k - 1) \in IpcMessage
    BY PostedBatch
  <2>3. batch \in [1..Len(post) -> IpcMessage]
    BY <2>2
  <2>4. batch \in Seq(IpcMessage) /\ Len(batch) = Len(post)
    <3> HIDE DEF batch
    <3> QED BY <2>2, <2>3, TableSeq
  <2>5. ipc_messages' = ipc_messages \o batch
    BY <2>1
  <2> HIDE DEF batch
  <2>6. ipc_messages' \in Seq(IpcMessage) /\ Len(ipc_messages') = Len(ipc_messages) + Len(post)
    BY <2>4, <2>5 DEF IpcTypeOK
  <2> QED BY <2>1, <2>2, <2>6, IpcAssumption DEF IpcTypeOK, IpcRoom
<1>2. TimerInv'
  <2>1. /\ Len(timers) \in Nat /\ DOMAIN timers = 1..Len(timers)
        /\ \A t \in DOMAIN timers : timers[t] \in Timer
    BY DEF TimerInv, TimerTypeOK
  <2>2. timers' = [i \in DOMAIN timers |-> Advanced(timers[i], elapsed)]
    BY DEF Tick
  <2>3. timers' \in [1..Len(timers) -> Timer]
    BY <2>1, <2>2, AdvancedTypes
  <2>4. timers' \in Seq(Timer) /\ Len(timers') = Len(timers) /\ DOMAIN timers' = DOMAIN timers
    BY <2>1, <2>3, TableSeq
  <2>5. \A t \in DOMAIN timers : timers'[t].timer_id = timers[t].timer_id
    BY <2>1, <2>2, AdvancedTypes
  <2> QED BY <2>4, <2>5 DEF Tick, TimerInv, TimerTypeOK, TimerIdsBySlot
<1>3. result' \in ResultCode
  BY DEF Tick, Succeed, ResultCode
<1> QED BY <1>1, <1>2, <1>3

-----------------------------------------------------------------------------
(* The whole runtime. *)

\* A call that leaves a component alone keeps what is known of it.
LEMMA ProcessFrame ==
  ProcessTypeOK /\ PidsBySlot /\ UNCHANGED processVars => ProcessTypeOK' /\ PidsBySlot'
BY DEF ProcessTypeOK, PidsBySlot, processVars

LEMMA MemoryFrame == MemoryInv /\ UNCHANGED memoryVars => MemoryInv'
BY DEF MemoryInv, MemoryTypeOK, BlockIdsBySlot, memoryVars

LEMMA IpcFrame == IpcTypeOK /\ UNCHANGED ipcVars => IpcTypeOK'
BY DEF IpcTypeOK, ipcVars

LEMMA TimerFrame == TimerInv /\ UNCHANGED timerVars => TimerInv'
BY DEF TimerInv, TimerTypeOK, TimerIdsBySlot, timerVars

LEMMA LogFrame == LogTypeOK /\ UNCHANGED logVars => LogTypeOK'
BY DEF LogTypeOK, logVars

LEMMA TypeInvParts ==
  TypeInv <=> /\ ProcessTypeOK /\ PidsBySlot /\ MemoryInv /\ IpcTypeOK /\ TimerInv
              /\ LogTypeOK /\ result \in ResultCode
BY DEF TypeInv, TypeOK, IdentifiersBySlot, MemoryInv, TimerInv

LEMMA SyscallTypes ==
  ASSUME ProcessTypeOK, PidsBySlot, LogTypeOK, NEW pid, NEW number, NEW emptyText,
         NEW required, Syscall(pid, number, emptyText, required)
  PROVE  ProcessTypeOK' /\ PidsBySlot' /\ LogTypeOK' /\ result' \in ResultCode
<1>1. CASE UNCHANGED <<processVars, logVars>> /\ result' \in ResultCode
  BY <1>1, ProcessFrame, LogFrame
<1>2. CASE AppendLog /\ Succeed /\ UNCHANGED processVars
  BY <1>2, AppendLogTypes, ProcessFrame DEF Succeed, ResultCode
<1>3. CASE SecurityCheck(pid, required)
  BY <1>3, SecurityCheckTypes
<1> QED BY <1>1, <1>2, <1>3 DEF Syscall, Succeed, FailWith, ResultCode

LEMMA TypeInvInit == Init => TypeInv
<1> SUFFICES ASSUME Init PROVE TypeInv
  OBVIOUS
<1>1. ProcessTypeOK /\ PidsBySlot
  BY ProcessAssumption DEF Init, ProcessInit, ProcessTypeOK, PidsBySlot, FirstPid
<1>2. MemoryInv
  BY MemoryAssumption DEF Init, MemoryInit, MemoryInv, MemoryTypeOK, BlockIdsBySlot
<1>3. IpcTypeOK
  BY IpcAssumption DEF Init, IpcInit, IpcTypeOK
<1>4. TimerInv
  BY IpcAssumption DEF Init, TimerInit, TimerInv, TimerTypeOK, TimerIdsBySlot
<1>5. LogTypeOK
  <2>1. 1 \in LogEvent /\ 2 \in LogEvent /\ 3 \in LogEvent
    BY LogAssumption DEF LogEvent
  <2> QED BY <2>1, LogAssumption DEF Init, LogInit, LogTypeOK
<1>6. result \in ResultCode
  BY DEF Init, ResultCode
<1> QED BY <1>1, <1>2, <1>3, <1>4, <1>5, <1>6, TypeInvParts

LEMMA TypeInvStep == TypeInv /\ [Next]_vars => TypeInv'
<1> SUFFICES ASSUME TypeInv, [Next]_vars PROVE TypeInv'
  OBVIOUS
<1>0. /\ ProcessTypeOK /\ PidsBySlot /\ MemoryInv /\ IpcTypeOK /\ TimerInv
      /\ LogTypeOK /\ result \in ResultCode
  BY TypeInvParts
<1> SUFFICES /\ ProcessTypeOK' /\ PidsBySlot' /\ MemoryInv' /\ IpcTypeOK' /\ TimerInv'
             /\ LogTypeOK' /\ (result \in ResultCode)'
  BY DEF TypeInv, TypeOK, IdentifiersBySlot, MemoryInv, TimerInv
<1>1. CASE SpawnProcessCall
  BY <1>0, <1>1, SpawnTypes, MemoryFrame, IpcFrame, TimerFrame DEF SpawnProcessCall
<1>2. CASE ScheduleNextCall
  BY <1>0, <1>2, ScheduleTypes, MemoryFrame, IpcFrame, TimerFrame DEF ScheduleNextCall
<1>3. CASE StopProcessCall
  BY <1>0, <1>3, StopTypes, IpcFrame, TimerFrame DEF StopProcessCall
<1>4. CASE SecurityCheckCall
  BY <1>0, <1>4, SecurityCheckTypes, MemoryFrame, IpcFrame, TimerFrame DEF SecurityCheckCall
<1>5. CASE AllocateMemoryCall
  BY <1>0, <1>5, AllocateTypes, IpcFrame, TimerFrame DEF AllocateMemoryCall
<1>6. CASE FreeMemoryCall
  BY <1>0, <1>6, FreeTypes, IpcFrame, TimerFrame DEF FreeMemoryCall
<1>7. CASE IpcSendCall
  <2>1. UNCHANGED <<processVars, logVars>>
    BY <1>7 DEF IpcSendCall, IpcSend
  <2> QED
    BY <1>0, <1>7, <2>1, SendTypes, ProcessFrame, MemoryFrame, TimerFrame, LogFrame
    DEF IpcSendCall
<1>8. ASSUME NEW pid \in Pids, IpcReceiveCall(pid)
      PROVE  /\ ProcessTypeOK' /\ PidsBySlot' /\ MemoryInv' /\ IpcTypeOK' /\ TimerInv'
             /\ LogTypeOK' /\ (result \in ResultCode)'
  <2>1. UNCHANGED <<processVars, logVars>>
    BY <1>8 DEF IpcReceiveCall, IpcReceive
  <2> QED
    BY <1>0, <1>8, <2>1, ReceiveTypes, ProcessFrame, MemoryFrame, TimerFrame, LogFrame
    DEF IpcReceiveCall
<1>9. CASE CreateTimerCall
  <2>1. UNCHANGED <<processVars, logVars, ipcVars>>
    BY <1>9 DEF CreateTimerCall, CreateTimer
  <2> QED
    BY <1>0, <1>9, <2>1, CreateTimerTypes, ProcessFrame, MemoryFrame, IpcFrame, LogFrame
    DEF CreateTimerCall
<1>10. CASE TickCall
  <2>1. UNCHANGED <<processVars, logVars>>
    BY <1>10 DEF TickCall, Tick
  <2> QED
    BY <1>0, <1>10, <2>1, TickTypes, ProcessFrame, MemoryFrame, LogFrame DEF TickCall
<1>11. CASE LogCall
  BY <1>0, <1>11, AppendLogTypes, ProcessFrame, MemoryFrame, IpcFrame, TimerFrame
  DEF LogCall, Log, Succeed, ResultCode
<1>12. CASE SyscallCall
  BY <1>0, <1>12, SyscallTypes, MemoryFrame, IpcFrame, TimerFrame DEF SyscallCall
<1>13. CASE RejectArguments
  BY <1>0, <1>13, ProcessFrame, MemoryFrame, IpcFrame, TimerFrame, LogFrame
  DEF RejectArguments, FailWith, ResultCode
<1>14. CASE UNCHANGED vars
  BY <1>0, <1>14, ProcessFrame, MemoryFrame, IpcFrame, TimerFrame, LogFrame DEF vars
<1> QED
  BY <1>1, <1>2, <1>3, <1>4, <1>5, <1>6, <1>7, <1>8, <1>9, <1>10, <1>11, <1>12, <1>13, <1>14
  DEF Next, ClientCalls

(***************************************************************************)
(* Every variable of the runtime always has its type; in particular no      *)
(* table outgrows its array and the timer walk never posts    *)
(* past the end of the message queue.                                       *)
(***************************************************************************)
THEOREM TypeCorrect == Spec => []TypeOK
<1>1. TypeInv => TypeOK
  BY DEF TypeInv
<1> QED BY <1>1, TypeInvInit, TypeInvStep, PTL DEF Spec

(***************************************************************************)
(* The identifiers of processes, blocks and timers number the slots of      *)
(* their tables and are never reused.                                       *)
(***************************************************************************)
THEOREM IdentifiersStable == Spec => []IdentifiersBySlot
<1>1. TypeInv => IdentifiersBySlot
  BY DEF TypeInv
<1> QED BY <1>1, TypeInvInit, TypeInvStep, PTL DEF Spec

(* What the other proofs start from. *)
THEOREM TypeInvariant == Spec => []TypeInv
BY TypeInvInit, TypeInvStep, PTL DEF Spec
=============================================================================
