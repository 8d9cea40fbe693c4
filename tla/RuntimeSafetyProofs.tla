------------------------- MODULE RuntimeSafetyProofs -------------------------
(***************************************************************************)
(* The safety properties of the runtime that relate two of its tables, or a *)
(* table and its counter, for every value of the constants.  Each is        *)
(* inductive relative to TypeInv, which RuntimeTypeProofs proves.           *)
(***************************************************************************)
EXTENDS RuntimeTypeProofs, RuntimeMailbox

\* What TypeInv says of the tables, in the form the proofs below use it.
LEMMA Tables ==
  ASSUME TypeInv
  PROVE  /\ ProcessTypeOK /\ PidsBySlot /\ MemoryInv /\ IpcTypeOK /\ TimerInv /\ LogTypeOK
         /\ Len(processes) \in Nat /\ DOMAIN processes = 1..Len(processes)
         /\ \A i \in DOMAIN processes : processes[i] \in Process
         /\ Len(memory_blocks) \in Nat /\ DOMAIN memory_blocks = 1..Len(memory_blocks)
         /\ \A b \in DOMAIN memory_blocks : memory_blocks[b] \in MemoryBlock
         /\ Len(ipc_messages) \in Nat /\ DOMAIN ipc_messages = 1..Len(ipc_messages)
         /\ \A m \in DOMAIN ipc_messages : ipc_messages[m] \in IpcMessage
         /\ Len(timers) \in Nat /\ DOMAIN timers = 1..Len(timers)
         /\ \A t \in DOMAIN timers : timers[t] \in Timer
BY TypeInvParts DEF ProcessTypeOK, MemoryInv, MemoryTypeOK, IpcTypeOK, TimerInv, TimerTypeOK

-----------------------------------------------------------------------------
(* What a step does to the process table: it appends a process, dispatches  *)
(* a runnable one, updates the memory counter of a live one, stops a live   *)
(* one, or leaves the table alone.                                          *)

Appends ==
  \E p \in Process :
    /\ p.state = "READY"
    /\ p.memory_used_bytes = 0
    /\ processes' = Append(processes, p)
    /\ UNCHANGED <<scheduler_cursor, memoryVars>>

\* The search that starts after the cursor ends at slot i.
IsNextTurn(i) ==
  \E k \in 1..Len(processes) :
    /\ i = Candidate(k)
    /\ \A j \in 1..k - 1 : ~Runnable(Candidate(j))

Dispatches ==
  \E i \in DOMAIN processes :
    /\ processes[i].state # "STOPPED"
    /\ IsNextTurn(i)
    /\ scheduler_cursor' = i - 1
    /\ processes' = [j \in DOMAIN processes |-> IF j = i THEN Dispatched(processes[j])
                                                         ELSE Demoted(processes[j])]
    /\ UNCHANGED memoryVars

\* The counter follows the block: a new one that passed the three conditions,
\* or one of the process's own that goes out of use.
Accounts ==
  \E i \in DOMAIN processes, bytes \in Size :
    /\ processes[i].state # "STOPPED"
    /\ processes' = [processes EXCEPT ![i].memory_used_bytes = bytes]
    /\ UNCHANGED scheduler_cursor
    /\ \/ \E block \in MemoryBlock :
            /\ block.owner_pid = processes[i].pid
            /\ block.used
            /\ block.bytes \in BlockSizes
            /\ ~ExceedsTotal(block.bytes)
            /\ bytes = (processes[i].memory_used_bytes + block.bytes) % SizeModulus
            /\ bytes <= processes[i].memory_quota_bytes
            /\ memory_blocks' = Append(memory_blocks, block)
       \/ \E b \in UsedBlocksOf(processes[i].pid) :
            /\ bytes = IF processes[i].memory_used_bytes >= memory_blocks[b].bytes
                         THEN processes[i].memory_used_bytes - memory_blocks[b].bytes ELSE 0
            /\ memory_blocks' = [memory_blocks EXCEPT ![b].used = FALSE]

Stops ==
  \E i \in DOMAIN processes :
    /\ processes[i].state # "STOPPED"
    /\ processes' = [processes EXCEPT ![i] = StoppedProcess(@)]
    /\ memory_blocks' = ReleasedBlocks(processes[i].pid)
    /\ UNCHANGED scheduler_cursor

LEMMA ProcessSteps ==
  ASSUME TypeInv, [Next]_vars
  PROVE  \/ Appends
         \/ Dispatches
         \/ Accounts
         \/ Stops
         \/ UNCHANGED <<processes, scheduler_cursor, memory_blocks>>
<1>0. ProcessTypeOK /\ PidsBySlot /\ MemoryInv
  BY Tables
<1>1. ASSUME NEW permissions \in PermissionSets, NEW quota \in Quotas,
             SpawnProcess(permissions, quota), UNCHANGED memoryVars
      PROVE  Appends \/ UNCHANGED <<processes, scheduler_cursor, memory_blocks>>
  <2>1. CASE UNCHANGED processVars
    BY <1>1, <2>1 DEF processVars, memoryVars
  <2>2. CASE Len(processes) < MaxProcesses
             /\ processes' = Append(processes, NewProcess(permissions, quota))
             /\ UNCHANGED scheduler_cursor
    <3>1. NewProcess(permissions, quota) \in Process
      BY <1>0, <2>2, ProcessAssumption
      DEF NewProcess, Process, EffectiveQuota, ProcessTypeOK, PidsBySlot, Pids, FirstPid, Size
    <3>2. /\ NewProcess(permissions, quota).state = "READY"
          /\ NewProcess(permissions, quota).memory_used_bytes = 0
      BY DEF NewProcess
    <3> QED BY <1>1, <2>2, <3>1, <3>2 DEF Appends
  <2> QED BY <1>1, <2>1, <2>2 DEF SpawnProcess
<1>2. ASSUME ScheduleNext, UNCHANGED memoryVars
      PROVE  Dispatches \/ UNCHANGED <<processes, scheduler_cursor, memory_blocks>>
  <2>1. ASSUME NEW k \in 1..Len(processes), Runnable(Candidate(k)),
               \A j \in 1..k - 1 : ~Runnable(Candidate(j)),
               scheduler_cursor' = Candidate(k) - 1,
               processes' = [i \in DOMAIN processes |->
                               IF i = Candidate(k) THEN Dispatched(processes[i])
                                                   ELSE Demoted(processes[i])]
        PROVE  Dispatches
    <3>1. Candidate(k) \in DOMAIN processes /\ processes[Candidate(k)].state # "STOPPED"
      BY <1>0, <2>1, CandidateInTable DEF Runnable
    <3>2. IsNextTurn(Candidate(k))
      BY <2>1 DEF IsNextTurn
    <3> QED BY <1>2, <2>1, <3>1, <3>2 DEF Dispatches
  <2> QED BY <1>2, <2>1 DEF ScheduleNext, processVars, memoryVars
<1>3. ASSUME NEW pid \in Pids, StopProcess(pid)
      PROVE  Stops \/ UNCHANGED <<processes, scheduler_cursor, memory_blocks>>
  BY <1>0, <1>3, FindProcess DEF StopProcess, Stops
<1>4. ASSUME NEW pid \in Pids, NEW bytes \in BlockSizes, AllocateMemory(pid, bytes)
      PROVE  Accounts \/ UNCHANGED <<processes, scheduler_cursor, memory_blocks>>
  <2>1. CASE UNCHANGED <<processes, memoryVars>>
    BY <1>4, <2>1 DEF AllocateMemory, memoryVars
  <2>2. CASE /\ Live(pid) /\ ~BlockTableFull /\ ~ExceedsTotal(bytes)
             /\ ~ExceedsQuota(SlotOf(pid), bytes)
             /\ memory_blocks' = Append(memory_blocks, NewBlock(pid, bytes))
             /\ processes' = Charge(SlotOf(pid), bytes)
    <3> DEFINE i == SlotOf(pid)
               sum == (processes[i].memory_used_bytes + bytes) % SizeModulus
    <3>1. /\ i \in DOMAIN processes /\ processes[i].pid = pid
          /\ processes[i].state # "STOPPED" /\ processes[i] \in Process
      BY <1>0, <2>2, FindProcess DEF ProcessTypeOK
    <3>2. bytes \in Size /\ sum \in Size
      BY <3>1, ProcessAssumption, CallsAssumption DEF Process, Size
    <3>3. NewBlock(pid, bytes) \in MemoryBlock /\ NewBlock(pid, bytes).owner_pid = pid
      BY <1>0, <2>2, <3>2, MemoryAssumption
      DEF NewBlock, MemoryBlock, MemoryInv, MemoryTypeOK, BlockIdsBySlot, BlockIds,
          BlockTableFull
    <3>4. processes' = [processes EXCEPT ![i].memory_used_bytes = sum]
      BY <2>2, <3>1 DEF Charge
    <3> DEFINE block == NewBlock(pid, bytes)
    <3>5. block.used /\ block.bytes = bytes
      BY DEF NewBlock
    <3>6. sum <= processes[i].memory_quota_bytes
      <4>1. processes[i].memory_quota_bytes \in Int /\ sum \in Int
        BY <3>1, <3>2 DEF Process, Size
      <4> QED BY <2>2, <4>1 DEF ExceedsQuota
    <3> HIDE DEF i, block
    <3>7. sum = (processes[i].memory_used_bytes + block.bytes) % SizeModulus
      BY <3>5
    <3> HIDE DEF sum
    <3>8. /\ block \in MemoryBlock /\ block.owner_pid = processes[i].pid
          /\ ~ExceedsTotal(block.bytes) /\ block.bytes \in BlockSizes
          /\ memory_blocks' = Append(memory_blocks, block)
      BY <2>2, <3>1, <3>3, <3>5 DEF block
    <3>9. UNCHANGED scheduler_cursor
      BY <1>4 DEF AllocateMemory
    <3> QED BY <3>1, <3>2, <3>4, <3>5, <3>6, <3>7, <3>8, <3>9 DEF Accounts
  <2> QED BY <1>4, <2>1, <2>2 DEF AllocateMemory
<1>5. ASSUME NEW pid \in Pids, NEW block_id, FreeMemory(pid, block_id)
      PROVE  Accounts \/ UNCHANGED <<processes, scheduler_cursor, memory_blocks>>
  <2>1. ASSUME Live(pid), NEW b \in FreeableBlocks(pid, block_id),
               memory_blocks' = [memory_blocks EXCEPT ![b].used = FALSE],
               processes' = Refund(SlotOf(pid), memory_blocks[b].bytes)
        PROVE  Accounts
    <3> DEFINE i == SlotOf(pid)
               used == processes[i].memory_used_bytes
               bytes == memory_blocks[b].bytes
               left == IF used >= bytes THEN used - bytes ELSE 0
    <3>1. /\ i \in DOMAIN processes /\ processes[i].state # "STOPPED"
          /\ processes[i] \in Process
      BY <1>0, <2>1, FindProcess DEF ProcessTypeOK
    <3>2. b \in DOMAIN memory_blocks /\ memory_blocks[b] \in MemoryBlock
      BY <1>0 DEF FreeableBlocks, UsedBlocksOf, UsedBlocks, MemoryInv, MemoryTypeOK
    <3>3. used \in Size /\ bytes \in Size
      BY <3>1, <3>2 DEF Process, MemoryBlock
    <3>4. left \in Size
      BY <3>3, ProcessAssumption DEF Size
    <3>5. processes' = [processes EXCEPT ![i].memory_used_bytes = left]
      BY <2>1, <3>1 DEF Refund
    <3>6. b \in UsedBlocksOf(processes[i].pid)
      <4>1. processes[i].pid = pid
        BY <1>0, <2>1, FindProcess
      <4> QED BY <4>1 DEF FreeableBlocks
    <3>7. UNCHANGED scheduler_cursor
      BY <1>5 DEF FreeMemory
    <3> HIDE DEF i
    <3> QED BY <2>1, <3>1, <3>4, <3>5, <3>6, <3>7 DEF Accounts
  <2> QED BY <1>5, <2>1 DEF FreeMemory
<1>6. CASE UNCHANGED <<processVars, memoryVars>>
  BY <1>6 DEF processVars, memoryVars
<1>7. CASE SpawnProcessCall
  BY <1>1, <1>7 DEF SpawnProcessCall
<1>8. CASE ScheduleNextCall
  BY <1>2, <1>8 DEF ScheduleNextCall
<1>9. CASE StopProcessCall
  BY <1>3, <1>9 DEF StopProcessCall
<1>10. CASE AllocateMemoryCall
  BY <1>4, <1>10 DEF AllocateMemoryCall
<1>11. CASE FreeMemoryCall
  BY <1>5, <1>11 DEF FreeMemoryCall
<1>12. CASE SecurityCheckCall \/ SyscallCall
  BY <1>6, <1>12 DEF SecurityCheckCall, SecurityCheck, SyscallCall, Syscall
<1>13. CASE IpcSendCall \/ \E pid \in Pids : IpcReceiveCall(pid)
  BY <1>6, <1>13 DEF IpcSendCall, IpcSend, IpcReceiveCall, IpcReceive
<1>14. CASE CreateTimerCall \/ TickCall
  BY <1>6, <1>14 DEF CreateTimerCall, CreateTimer, TickCall, Tick
<1>15. CASE LogCall \/ RejectArguments \/ UNCHANGED vars
  BY <1>6, <1>15 DEF LogCall, Log, RejectArguments, vars
<1> QED
  BY <1>7, <1>8, <1>9, <1>10, <1>11, <1>12, <1>13, <1>14, <1>15 DEF Next, ClientCalls

\* Which slots exist afterwards, with which pids, and in which states.
LEMMA SlotsAfterStep ==
  ASSUME TypeInv, [Next]_vars
  PROVE  /\ DOMAIN processes \subseteq DOMAIN processes'
         /\ Len(processes') \in Nat /\ DOMAIN processes' = 1..Len(processes')
         /\ \A i \in DOMAIN processes : processes'[i].pid = processes[i].pid
         /\ \A i \in DOMAIN processes' \ DOMAIN processes : processes'[i].state = "READY"
         /\ \A i \in DOMAIN processes :
              processes[i].state = "STOPPED" => processes'[i] = processes[i]
<1>1. /\ Len(processes) \in Nat /\ DOMAIN processes = 1..Len(processes)
      /\ \A i \in DOMAIN processes : processes[i] \in Process
      /\ processes \in Seq(Process)
  BY Tables DEF ProcessTypeOK
<1>2. CASE Appends
  BY <1>1, <1>2 DEF Appends
<1>3. ASSUME NEW f, processes' = f, DOMAIN f = DOMAIN processes, f \in [1..Len(processes) -> Process],
             \A i \in DOMAIN processes : f[i].pid = processes[i].pid,
             \A i \in DOMAIN processes : processes[i].state = "STOPPED" => f[i] = processes[i]
      PROVE  /\ DOMAIN processes \subseteq DOMAIN processes'
             /\ Len(processes') \in Nat /\ DOMAIN processes' = 1..Len(processes')
             /\ \A i \in DOMAIN processes : processes'[i].pid = processes[i].pid
             /\ \A i \in DOMAIN processes' \ DOMAIN processes : processes'[i].state = "READY"
             /\ \A i \in DOMAIN processes :
                  processes[i].state = "STOPPED" => processes'[i] = processes[i]
  BY <1>1, <1>3, TableSeq
<1>4. CASE Dispatches
  <2>1. PICK i \in DOMAIN processes :
          /\ processes[i].state # "STOPPED"
          /\ processes' = [j \in DOMAIN processes |-> IF j = i THEN Dispatched(processes[j])
                                                               ELSE Demoted(processes[j])]
    BY <1>4 DEF Dispatches
  <2>2. ASSUME NEW p \in Process
        PROVE  /\ Dispatched(p) \in Process /\ Dispatched(p).pid = p.pid
               /\ Demoted(p) \in Process /\ Demoted(p).pid = p.pid
               /\ p.state = "STOPPED" => Demoted(p) = p
    <3>1. (p.cpu_ticks + 1) % TickModulus \in 0..TickModulus - 1
      BY ProcessAssumption DEF Process
    <3>2. Dispatched(p) \in Process /\ Dispatched(p).pid = p.pid
      BY <3>1 DEF Dispatched, Process
    <3> QED BY <3>2 DEF Demoted, Process
  <2> DEFINE f == [j \in DOMAIN processes |-> IF j = i THEN Dispatched(processes[j])
                                                      ELSE Demoted(processes[j])]
  <2>3. /\ DOMAIN f = DOMAIN processes /\ f \in [1..Len(processes) -> Process]
        /\ \A j \in DOMAIN processes : f[j].pid = processes[j].pid
        /\ \A j \in DOMAIN processes : processes[j].state = "STOPPED" => f[j] = processes[j]
    BY <1>1, <2>1, <2>2
  <2> HIDE DEF f
  <2> QED BY <1>3, <2>1, <2>3 DEF f
<1>5. CASE Accounts
  <2>1. PICK i \in DOMAIN processes, bytes \in Size :
          /\ processes[i].state # "STOPPED"
          /\ processes' = [processes EXCEPT ![i].memory_used_bytes = bytes]
    BY <1>5 DEF Accounts
  <2> DEFINE f == [processes EXCEPT ![i].memory_used_bytes = bytes]
  <2>2. /\ DOMAIN f = DOMAIN processes /\ f \in [1..Len(processes) -> Process]
        /\ \A j \in DOMAIN processes : f[j].pid = processes[j].pid
        /\ \A j \in DOMAIN processes : processes[j].state = "STOPPED" => f[j] = processes[j]
    BY <1>1, <2>1 DEF Process
  <2> HIDE DEF f
  <2> QED BY <1>3, <2>1, <2>2 DEF f
<1>6. CASE Stops
  <2>1. PICK i \in DOMAIN processes :
          /\ processes[i].state # "STOPPED"
          /\ processes' = [processes EXCEPT ![i] = StoppedProcess(@)]
    BY <1>6 DEF Stops
  <2>2. StoppedProcess(processes[i]) \in Process
        /\ StoppedProcess(processes[i]).pid = processes[i].pid
    <3>1. 0 \in Size
      BY ProcessAssumption DEF Size
    <3>2. [processes[i] EXCEPT !.memory_used_bytes = 0] \in Process
      BY <1>1, <3>1 DEF Process
    <3> QED BY <1>1, <3>2 DEF StoppedProcess, Process
  <2> DEFINE f == [processes EXCEPT ![i] = StoppedProcess(processes[i])]
  <2>3. /\ DOMAIN f = DOMAIN processes /\ f \in [1..Len(processes) -> Process]
        /\ \A j \in DOMAIN processes : f[j].pid = processes[j].pid
        /\ \A j \in DOMAIN processes : processes[j].state = "STOPPED" => f[j] = processes[j]
    BY <1>1, <2>1, <2>2
  <2> HIDE DEF f
  <2> QED BY <1>3, <2>1, <2>3 DEF f
<1>7. CASE UNCHANGED <<processes, scheduler_cursor, memory_blocks>>
  BY <1>1, <1>7
<1> QED BY <1>2, <1>4, <1>5, <1>6, <1>7, ProcessSteps

(***************************************************************************)
(* A stopped process is out of reach of every later call.                   *)
(***************************************************************************)
THEOREM StoppedStaysStopped == Spec => StoppedForGood
<1>1. TypeInv /\ [Next]_vars =>
        [\A i \in DOMAIN processes :
           processes[i].state = "STOPPED" => /\ i \in DOMAIN processes'
                                             /\ processes'[i] = processes[i]]_vars
  BY SlotsAfterStep
<1> QED BY <1>1, TypeInvariant, PTL DEF Spec, StoppedForGood

-----------------------------------------------------------------------------
(* The CPU. *)

LEMMA RunningStep ==
  ASSUME TypeInv, RunningAtCursor, [Next]_vars
  PROVE  RunningAtCursor'
<1>1. /\ Len(processes) \in Nat /\ DOMAIN processes = 1..Len(processes)
      /\ \A i \in DOMAIN processes : processes[i] \in Process
      /\ processes \in Seq(Process) /\ scheduler_cursor \in Nat
  BY Tables DEF ProcessTypeOK
<1>2. /\ Len(processes') \in Nat /\ DOMAIN processes' = 1..Len(processes')
      /\ DOMAIN processes \subseteq DOMAIN processes'
  BY SlotsAfterStep
<1>3. Len(processes') >= Len(processes)
  BY <1>1, <1>2
<1>4. CASE Appends
  BY <1>1, <1>4 DEF Appends, RunningAtCursor
<1>5. CASE Dispatches
  <2>1. PICK i \in DOMAIN processes :
          /\ scheduler_cursor' = i - 1
          /\ processes' = [j \in DOMAIN processes |-> IF j = i THEN Dispatched(processes[j])
                                                               ELSE Demoted(processes[j])]
    BY <1>5 DEF Dispatches
  <2>2. \A p \in Process : Demoted(p).state # "RUNNING"
    BY DEF Demoted, Process
  <2>3. \A j \in DOMAIN processes' : processes'[j].state = "RUNNING" => j = i
    BY <1>1, <2>1, <2>2
  <2> QED BY <1>1, <1>2, <1>3, <2>1, <2>3 DEF RunningAtCursor
<1>6. CASE Accounts \/ Stops
  <2>1. /\ UNCHANGED scheduler_cursor /\ DOMAIN processes' = DOMAIN processes
        /\ \A j \in DOMAIN processes :
             processes'[j].state = "RUNNING" => processes[j].state = "RUNNING"
    BY <1>1, <1>6 DEF Accounts, Stops, StoppedProcess, Process
  <2> QED BY <1>1, <1>2, <1>3, <2>1 DEF RunningAtCursor
<1>7. CASE UNCHANGED <<processes, scheduler_cursor, memory_blocks>>
  BY <1>7 DEF RunningAtCursor
<1> QED BY <1>4, <1>5, <1>6, <1>7, ProcessSteps

(***************************************************************************)
(* At most one process runs, the one under the cursor, and the cursor stays *)
(* inside the table.                                                        *)
(***************************************************************************)
THEOREM RunningIsAtCursor == Spec => []RunningAtCursor
<1>1. Init => RunningAtCursor
  BY DEF Init, ProcessInit, RunningAtCursor
<1>2. TypeInv /\ RunningAtCursor /\ [Next]_vars => RunningAtCursor'
  BY RunningStep
<1> QED BY <1>1, <1>2, TypeInvariant, PTL DEF Spec

-----------------------------------------------------------------------------
(* Memory. *)

LEMMA OwnersStep ==
  ASSUME TypeInv, BlocksOwnedByLive, [Next]_vars
  PROVE  BlocksOwnedByLive'
<1>1. /\ DOMAIN processes = 1..Len(processes)
      /\ \A i \in DOMAIN processes : processes[i] \in Process
      /\ DOMAIN memory_blocks = 1..Len(memory_blocks) /\ Len(memory_blocks) \in Nat
      /\ \A b \in DOMAIN memory_blocks : memory_blocks[b] \in MemoryBlock
      /\ memory_blocks \in Seq(MemoryBlock) /\ PidsBySlot /\ processes \in Seq(Process)
  BY Tables DEF MemoryInv, MemoryTypeOK, ProcessTypeOK
<1> DEFINE LivesOn(pid) ==
      \E j \in DOMAIN processes' : processes'[j].pid = pid /\ processes'[j].state # "STOPPED"
<1>2. SUFFICES ASSUME NEW b \in UsedBlocks' PROVE LivesOn(memory_blocks'[b].owner_pid)
  BY DEF BlocksOwnedByLive, Live, LiveSlots
<1>3. ASSUME \A i \in DOMAIN processes :
               processes[i].state # "STOPPED" => processes'[i].state # "STOPPED",
             NEW pid, Live(pid)
      PROVE  LivesOn(pid)
  <2>1. PICK i \in DOMAIN processes : processes[i].pid = pid /\ processes[i].state # "STOPPED"
    BY <1>3 DEF Live, LiveSlots
  <2>2. i \in DOMAIN processes' /\ processes'[i].pid = pid /\ processes'[i].state # "STOPPED"
    BY <1>3, <2>1, SlotsAfterStep
  <2> QED BY <2>2
<1>4. ASSUME b \in UsedBlocks, memory_blocks'[b].owner_pid = memory_blocks[b].owner_pid,
             \A i \in DOMAIN processes :
               processes[i].state # "STOPPED" => processes'[i].state # "STOPPED"
      PROVE  LivesOn(memory_blocks'[b].owner_pid)
  <2>1. Live(memory_blocks[b].owner_pid)
    BY <1>4 DEF BlocksOwnedByLive
  <2> HIDE DEF LivesOn
  <2> QED BY <1>3, <1>4, <2>1
<1>5. CASE Appends
  <2>1. \A i \in DOMAIN processes : processes'[i] = processes[i]
    BY <1>1, <1>5 DEF Appends
  <2> QED BY <1>4, <1>5, <2>1 DEF Appends, memoryVars, UsedBlocks
<1>6. CASE Dispatches
  <2>1. \A p \in Process : Dispatched(p).state # "STOPPED"
                           /\ (p.state # "STOPPED" => Demoted(p).state # "STOPPED")
    BY DEF Dispatched, Demoted, Process
  <2>2. \A i \in DOMAIN processes :
          processes[i].state # "STOPPED" => processes'[i].state # "STOPPED"
    BY <1>1, <1>6, <2>1 DEF Dispatches
  <2> QED BY <1>4, <1>6, <2>2 DEF Dispatches, memoryVars, UsedBlocks
<1>7. CASE Accounts
  <2>0. \A pid : UsedBlocksOf(pid) \subseteq DOMAIN memory_blocks
    BY DEF UsedBlocksOf, UsedBlocks
  <2>1. PICK i \in DOMAIN processes, bytes \in Size :
          /\ processes[i].state # "STOPPED"
          /\ processes' = [processes EXCEPT ![i].memory_used_bytes = bytes]
          /\ \/ \E block \in MemoryBlock : /\ block.owner_pid = processes[i].pid
                                           /\ memory_blocks' = Append(memory_blocks, block)
             \/ \E c \in DOMAIN memory_blocks :
                  memory_blocks' = [memory_blocks EXCEPT ![c].used = FALSE]
    BY <1>7, <2>0 DEF Accounts
  <2>2. \A j \in DOMAIN processes : processes'[j].state = processes[j].state
    BY <1>1, <2>1 DEF Process
  <2>3. ASSUME NEW block \in MemoryBlock, block.owner_pid = processes[i].pid,
               memory_blocks' = Append(memory_blocks, block)
        PROVE  LivesOn(memory_blocks'[b].owner_pid)
    <3>1. CASE b \in DOMAIN memory_blocks
      <4>1. memory_blocks'[b] = memory_blocks[b]
        BY <1>1, <2>3, <3>1
      <4> QED BY <1>4, <2>2, <3>1, <4>1, <1>2 DEF UsedBlocks
    <3>2. CASE b \notin DOMAIN memory_blocks
      <4>1. memory_blocks'[b].owner_pid = processes[i].pid
        BY <1>1, <1>2, <2>3, <3>2 DEF UsedBlocks
      <4>2. Live(processes[i].pid)
        BY <2>1 DEF Live, LiveSlots
      <4> HIDE DEF LivesOn
      <4> QED BY <1>3, <2>2, <4>1, <4>2
    <3> QED BY <3>1, <3>2
  <2>4. ASSUME NEW c \in DOMAIN memory_blocks,
               memory_blocks' = [memory_blocks EXCEPT ![c].used = FALSE]
        PROVE  LivesOn(memory_blocks'[b].owner_pid)
    <3>1. b \in UsedBlocks /\ memory_blocks'[b].owner_pid = memory_blocks[b].owner_pid
      BY <1>1, <1>2, <2>4 DEF UsedBlocks, MemoryBlock
    <3> QED BY <1>4, <2>2, <3>1
  <2> QED BY <2>1, <2>3, <2>4
<1>8. CASE Stops
  <2>1. PICK i \in DOMAIN processes :
          /\ processes' = [processes EXCEPT ![i] = StoppedProcess(@)]
          /\ memory_blocks' = ReleasedBlocks(processes[i].pid)
    BY <1>8 DEF Stops
  <2>2. /\ b \in UsedBlocks /\ memory_blocks'[b].owner_pid = memory_blocks[b].owner_pid
        /\ memory_blocks[b].owner_pid # processes[i].pid
    BY <1>1, <1>2, <2>1 DEF UsedBlocks, ReleasedBlocks, MemoryBlock
  <2>3. PICK j \in DOMAIN processes : /\ processes[j].pid = memory_blocks[b].owner_pid
                                     /\ processes[j].state # "STOPPED"
    BY <2>2 DEF BlocksOwnedByLive, Live, LiveSlots
  <2>4. processes'[j] = processes[j]
    BY <2>1, <2>2, <2>3
  <2>5. j \in DOMAIN processes'
    BY <2>3, SlotsAfterStep
  <2> QED BY <2>2, <2>3, <2>4, <2>5
<1>9. CASE UNCHANGED <<processes, scheduler_cursor, memory_blocks>>
  BY <1>4, <1>9, <1>2 DEF UsedBlocks
<1> QED BY <1>5, <1>6, <1>7, <1>8, <1>9, ProcessSteps

(***************************************************************************)
(* No memory outlives its owner: every used block belongs to a live process *)
(* (also where the size arithmetic of allocate_memory wraps).               *)
(***************************************************************************)
THEOREM NoOrphanBlocks == Spec => []BlocksOwnedByLive
<1>1. Init => BlocksOwnedByLive
  BY DEF Init, MemoryInit, BlocksOwnedByLive, UsedBlocks
<1>2. TypeInv /\ BlocksOwnedByLive /\ [Next]_vars => BlocksOwnedByLive'
  BY OwnersStep
<1> QED BY <1>1, <1>2, TypeInvariant, PTL DEF Spec

-----------------------------------------------------------------------------
(* The books of the memory manager, where sums of sizes do not wrap. *)

UsedIn(table) == {b \in DOMAIN table : table[b].used}

HeldIn(table, pid) == {b \in UsedIn(table) : table[b].owner_pid = pid}

\* The entry of one process: it is charged for what it holds, and within its quota.
InBalance(process, table) ==
  /\ process.memory_used_bytes = BytesIn(table, HeldIn(table, process.pid))
  /\ process.memory_used_bytes <= process.memory_quota_bytes

WithinBudget(table) == BytesIn(table, UsedIn(table)) <= TotalMemory

Balanced == WithinBudget(memory_blocks) /\ \A i \in DOMAIN processes :
                                             InBalance(processes[i], memory_blocks)

LEMMA BalanceMeans == Balanced <=> MemoryAccounting /\ QuotaEnforced
BY DEF Balanced, WithinBudget, InBalance, UsedIn, HeldIn, MemoryAccounting, QuotaEnforced,
       TotalBytes, UsedBlocksOf, UsedBlocks

LEMMA NoWrap ==
  ASSUME NEW x \in 0..SizeModulus - 1
  PROVE  x % SizeModulus = x
<1>1. SizeModulus \in Nat /\ SizeModulus >= 2
  BY ProcessAssumption
<1>2. (SizeModulus * 0 + x) % SizeModulus = x
  BY <1>1, Remainder
<1>3. SizeModulus * 0 + x = x
  BY <1>1
<1> QED BY <1>2, <1>3

\* The tables as the lemmas about sums see them.
LEMMA Books ==
  ASSUME TypeInv
  PROVE  /\ BlockTable(memory_blocks, Len(memory_blocks)) /\ Len(memory_blocks) \in Nat
         /\ memory_blocks \in Seq(MemoryBlock) /\ DOMAIN memory_blocks = 1..Len(memory_blocks)
         /\ \A b \in DOMAIN memory_blocks : /\ memory_blocks[b] \in MemoryBlock
                                            /\ memory_blocks[b].bytes \in Nat
         /\ processes \in Seq(Process) /\ Len(processes) \in Nat
         /\ DOMAIN processes = 1..Len(processes)
         /\ \A i \in DOMAIN processes : /\ processes[i] \in Process
                                        /\ processes[i].memory_used_bytes \in Nat
                                        /\ processes[i].memory_quota_bytes \in Nat
         /\ \A i, j \in DOMAIN processes : processes[i].pid = processes[j].pid => i = j
         /\ TotalMemory \in Nat /\ SizeModulus \in Nat
<1>1. SizeModulus \in Nat /\ TotalMemory \in Nat /\ Size \subseteq Nat
  BY ProcessAssumption, MemoryAssumption DEF Size
<1>2. /\ memory_blocks \in Seq(MemoryBlock) /\ DOMAIN memory_blocks = 1..Len(memory_blocks)
      /\ Len(memory_blocks) \in Nat
      /\ \A b \in DOMAIN memory_blocks : memory_blocks[b] \in MemoryBlock
  BY Tables DEF MemoryInv, MemoryTypeOK
<1>3. \A b \in DOMAIN memory_blocks : memory_blocks[b].bytes \in Nat
  BY <1>1, <1>2 DEF MemoryBlock
<1>4. BlockTable(memory_blocks, Len(memory_blocks))
  BY <1>2, <1>3 DEF BlockTable
<1>5. /\ processes \in Seq(Process) /\ Len(processes) \in Nat
      /\ DOMAIN processes = 1..Len(processes)
      /\ \A i \in DOMAIN processes : processes[i] \in Process
  BY Tables DEF ProcessTypeOK
<1>6. \A i \in DOMAIN processes : /\ processes[i].memory_used_bytes \in Nat
                                  /\ processes[i].memory_quota_bytes \in Nat
  BY <1>1, <1>5 DEF Process
<1>7. \A i, j \in DOMAIN processes : processes[i].pid = processes[j].pid => i = j
  BY <1>5, Tables DEF PidsBySlot, FirstPid
<1> QED BY <1>1, <1>2, <1>3, <1>4, <1>5, <1>6, <1>7

\* What a process holds is part of what all hold.
LEMMA HeldWithinBudget ==
  ASSUME TypeInv, Balanced, NEW pid
  PROVE  /\ BytesIn(memory_blocks, HeldIn(memory_blocks, pid)) \in Nat
         /\ BytesIn(memory_blocks, UsedIn(memory_blocks)) \in Nat
         /\ BytesIn(memory_blocks, HeldIn(memory_blocks, pid)) <= TotalMemory
<1>1. BlockTable(memory_blocks, Len(memory_blocks)) /\ TotalMemory \in Nat
  BY Books
<1>2. /\ BytesIn(memory_blocks, HeldIn(memory_blocks, pid)) \in Nat
      /\ BytesIn(memory_blocks, UsedIn(memory_blocks)) \in Nat
  BY <1>1, BytesAreNatural
<1>3. BytesIn(memory_blocks, HeldIn(memory_blocks, pid))
        <= BytesIn(memory_blocks, UsedIn(memory_blocks))
  BY <1>1, BytesOfFewer DEF HeldIn
<1> QED BY <1>1, <1>2, <1>3 DEF Balanced, WithinBudget

\* A new block that passed the three conditions of allocate_memory.
LEMMA AllocationBalances ==
  ASSUME SizesFit, TypeInv, Balanced,
         NEW i \in DOMAIN processes, NEW block \in MemoryBlock,
         block.owner_pid = processes[i].pid, block.used, block.bytes \in BlockSizes,
         ~ExceedsTotal(block.bytes),
         (processes[i].memory_used_bytes + block.bytes) % SizeModulus
           <= processes[i].memory_quota_bytes,
         processes' = [processes EXCEPT ![i].memory_used_bytes =
                         (processes[i].memory_used_bytes + block.bytes) % SizeModulus],
         memory_blocks' = Append(memory_blocks, block)
  PROVE  Balanced'
<1> DEFINE n == Len(memory_blocks)
           used == processes[i].memory_used_bytes
           all == BytesIn(memory_blocks, UsedIn(memory_blocks))
<1>1. /\ block.bytes \in Nat /\ TotalMemory + block.bytes < SizeModulus
      /\ SizeModulus \in Nat /\ TotalMemory \in Nat
  BY Books DEF SizesFit, MemoryBlock, Size
<1>2. /\ used \in Nat /\ used <= TotalMemory /\ all \in Nat /\ all <= TotalMemory
      /\ used = BytesIn(memory_blocks, HeldIn(memory_blocks, processes[i].pid))
  BY HeldWithinBudget DEF Balanced, InBalance, WithinBudget
<1>3. (used + block.bytes) % SizeModulus = used + block.bytes
  <2>1. used + block.bytes \in 0..SizeModulus - 1
    <3> HIDE DEF used
    <3> QED BY <1>1, <1>2
  <2> QED BY <2>1, NoWrap
<1>4. all + block.bytes <= TotalMemory
  <2>1. UsedMemoryBytes = all % SizeModulus
    BY DEF UsedMemoryBytes, TotalBytes, UsedBlocks, UsedIn
  <2> HIDE DEF all
  <2>2. all \in 0..SizeModulus - 1 /\ all + block.bytes \in 0..SizeModulus - 1
    BY <1>1, <1>2
  <2>3. all % SizeModulus = all /\ (all + block.bytes) % SizeModulus = all + block.bytes
    BY <2>2, NoWrap
  <2>4. ~((all + block.bytes) % SizeModulus > TotalMemory)
    BY <2>1, <2>3 DEF ExceedsTotal
  <2> QED BY <1>1, <1>2, <2>3, <2>4
<1>5. /\ DOMAIN memory_blocks' = 1..n + 1 /\ memory_blocks'[n + 1] = block
      /\ \A b \in 1..n : memory_blocks'[b] = memory_blocks[b]
      /\ DOMAIN memory_blocks = 1..n /\ n \in Nat
  BY Books
<1> HIDE DEF n
<1>6. ASSUME NEW blocks, NEW more, \A b \in 1..n : b \in more <=> b \in blocks
      PROVE  BytesIn(memory_blocks', more) =
               BytesIn(memory_blocks, blocks) + (IF n + 1 \in more THEN block.bytes ELSE 0)
  <2>1. BlockTable(memory_blocks, n)
    BY Books DEF n
  <2>2. PICK longer : longer = memory_blocks'
    OBVIOUS
  <2>3. /\ DOMAIN longer = 1..n + 1 /\ longer[n + 1].bytes \in Nat
        /\ \A b \in 1..n : longer[b] = memory_blocks[b]
    BY <1>1, <1>5, <2>2
  <2>4. BytesIn(longer, more) = BytesIn(memory_blocks, blocks)
          + (IF n + 1 \in more THEN longer[n + 1].bytes ELSE 0)
    <3>1. \A b \in 1..n : b \in more <=> b \in blocks
      BY <1>6
    <3>2. n \in Nat
      BY <1>5
    <3> QED BY ONLY <3>1, <3>2, <2>1, <2>3, BytesOfLonger
  <2> QED BY <1>5, <2>2, <2>4
<1>7. /\ \A b \in 1..n : b \in UsedIn(memory_blocks') <=> b \in UsedIn(memory_blocks)
      /\ n + 1 \in UsedIn(memory_blocks')
      /\ \A pid : /\ \A b \in 1..n : b \in HeldIn(memory_blocks', pid)
                                       <=> b \in HeldIn(memory_blocks, pid)
                  /\ n + 1 \in HeldIn(memory_blocks', pid) <=> block.owner_pid = pid
  <2>1. n + 1 \in DOMAIN memory_blocks' /\ \A b \in 1..n : b \in DOMAIN memory_blocks'
    BY <1>5
  <2> QED BY <1>5, <2>1 DEF UsedIn, HeldIn
<1>8. WithinBudget(memory_blocks')
  <2>1. BytesIn(memory_blocks', UsedIn(memory_blocks')) = all + block.bytes
    BY <1>6, <1>7
  <2> QED BY <1>4, <2>1 DEF WithinBudget
<1>9. ASSUME NEW j \in DOMAIN processes'
      PROVE  InBalance(processes'[j], memory_blocks')
  <2>1. j \in DOMAIN processes /\ processes[j] \in Process
    BY <1>9, Books
  <2>2. InBalance(processes[j], memory_blocks)
    BY <2>1 DEF Balanced
  <2>3. CASE j = i
    <3>1. /\ processes'[j].pid = processes[i].pid
          /\ processes'[j].memory_quota_bytes = processes[i].memory_quota_bytes
          /\ processes'[j].memory_used_bytes = used + block.bytes
      BY <1>3, <2>1, <2>3 DEF Process
    <3>2. BytesIn(memory_blocks', HeldIn(memory_blocks', processes[i].pid)) = used + block.bytes
      <4> HIDE DEF used
      <4> QED BY <1>2, <1>6, <1>7
    <3> QED BY <1>3, <3>1, <3>2 DEF InBalance
  <2>4. CASE j # i
    <3>1. processes'[j] = processes[j] /\ block.owner_pid # processes[j].pid
      BY <2>1, <2>4, Books
    <3>2. BytesIn(memory_blocks', HeldIn(memory_blocks', processes[j].pid)) =
            BytesIn(memory_blocks, HeldIn(memory_blocks, processes[j].pid)) + 0
      BY <1>6, <1>7, <3>1
    <3>3. BytesIn(memory_blocks, HeldIn(memory_blocks, processes[j].pid)) \in Nat
      BY HeldWithinBudget
    <3> QED BY <2>2, <3>1, <3>2, <3>3 DEF InBalance
  <2> QED BY <2>3, <2>4
<1> QED BY <1>8, <1>9 DEF Balanced

\* A change of the block table that gives no new memory and keeps the sizes:
\* the slots in `gone' go out of use.
LEMMA ReleaseBalances ==
  ASSUME TypeInv, Balanced, NEW blocks, NEW gone, gone \subseteq UsedIn(memory_blocks),
         DOMAIN blocks = DOMAIN memory_blocks,
         \A b \in DOMAIN memory_blocks :
           /\ blocks[b].bytes = memory_blocks[b].bytes
           /\ blocks[b].owner_pid = memory_blocks[b].owner_pid
           /\ blocks[b].used <=> memory_blocks[b].used /\ b \notin gone
  PROVE  /\ WithinBudget(blocks)
         /\ \A pid : HeldIn(blocks, pid) = HeldIn(memory_blocks, pid) \ gone
         /\ \A some : BytesIn(blocks, some) = BytesIn(memory_blocks, some)
<1>1. /\ BlockTable(memory_blocks, Len(memory_blocks)) /\ TotalMemory \in Nat
      /\ DOMAIN memory_blocks = 1..Len(memory_blocks)
  BY Books
<1>2. UsedIn(blocks) = UsedIn(memory_blocks) \ gone
  BY DEF UsedIn
<1>3. \A pid : HeldIn(blocks, pid) = HeldIn(memory_blocks, pid) \ gone
  BY <1>2 DEF HeldIn, UsedIn
<1>4. \A some : BytesIn(blocks, some) = BytesIn(memory_blocks, some)
  BY <1>1, BytesKept
<1>5. BytesIn(blocks, UsedIn(blocks)) <= BytesIn(memory_blocks, UsedIn(memory_blocks))
  <2>1. BytesIn(memory_blocks, UsedIn(blocks)) <= BytesIn(memory_blocks, UsedIn(memory_blocks))
    BY <1>1, <1>2, BytesOfFewer
  <2> QED BY <1>4, <2>1
<1>6. BytesIn(blocks, UsedIn(blocks)) \in Nat /\ BytesIn(memory_blocks, UsedIn(memory_blocks)) \in Nat
  BY <1>1, <1>4, BytesAreNatural
<1>7. WithinBudget(blocks)
  BY <1>1, <1>5, <1>6 DEF WithinBudget, Balanced
<1> QED BY <1>3, <1>4, <1>7

LEMMA FreeBalances ==
  ASSUME TypeInv, Balanced, NEW i \in DOMAIN processes, NEW b \in UsedBlocksOf(processes[i].pid),
         NEW bytes,
         bytes = IF processes[i].memory_used_bytes >= memory_blocks[b].bytes
                   THEN processes[i].memory_used_bytes - memory_blocks[b].bytes ELSE 0,
         processes' = [processes EXCEPT ![i].memory_used_bytes = bytes],
         memory_blocks' = [memory_blocks EXCEPT ![b].used = FALSE]
  PROVE  Balanced'
<1> DEFINE pid == processes[i].pid
           held == HeldIn(memory_blocks, pid)
<1>1. b \in held /\ b \in UsedIn(memory_blocks) /\ b \in DOMAIN memory_blocks
  BY DEF UsedBlocksOf, UsedBlocks, HeldIn, UsedIn
<1>2. /\ DOMAIN memory_blocks' = DOMAIN memory_blocks
      /\ \A c \in DOMAIN memory_blocks :
           /\ memory_blocks'[c].bytes = memory_blocks[c].bytes
           /\ memory_blocks'[c].owner_pid = memory_blocks[c].owner_pid
           /\ memory_blocks'[c].used <=> memory_blocks[c].used /\ c \notin {b}
  BY Books, <1>1 DEF MemoryBlock
<1>3. /\ WithinBudget(memory_blocks')
      /\ \A p : HeldIn(memory_blocks', p) = HeldIn(memory_blocks, p) \ {b}
      /\ \A some : BytesIn(memory_blocks', some) = BytesIn(memory_blocks, some)
  <2>1. PICK gone : gone = {b}
    OBVIOUS
  <2>2. gone \subseteq UsedIn(memory_blocks)
    BY <1>1, <2>1
  <2>3. PICK blocks : blocks = memory_blocks'
    OBVIOUS
  <2>4. /\ DOMAIN blocks = DOMAIN memory_blocks
        /\ \A c \in DOMAIN memory_blocks :
             /\ blocks[c].bytes = memory_blocks[c].bytes
             /\ blocks[c].owner_pid = memory_blocks[c].owner_pid
             /\ blocks[c].used <=> memory_blocks[c].used /\ c \notin gone
    BY <1>2, <2>1, <2>3
  <2>5. /\ WithinBudget(blocks)
        /\ \A p : HeldIn(blocks, p) = HeldIn(memory_blocks, p) \ gone
        /\ \A some : BytesIn(blocks, some) = BytesIn(memory_blocks, some)
    BY <2>2, <2>4, ReleaseBalances
  <2> QED BY <2>1, <2>3, <2>5
<1>4. /\ BytesIn(memory_blocks, held \ {b}) + memory_blocks[b].bytes = processes[i].memory_used_bytes
      /\ BytesIn(memory_blocks, held \ {b}) \in Nat /\ memory_blocks[b].bytes \in Nat
  <2>1. BlockTable(memory_blocks, Len(memory_blocks)) /\ b \in 1..Len(memory_blocks)
        /\ memory_blocks[b].bytes \in Nat
    BY <1>1, Books
  <2>2. BytesIn(memory_blocks, held \ {b}) + memory_blocks[b].bytes = BytesIn(memory_blocks, held)
    BY <1>1, <2>1, BytesWithout
  <2>3. processes[i].memory_used_bytes = BytesIn(memory_blocks, held)
    BY DEF Balanced, InBalance
  <2> QED BY <2>1, <2>2, <2>3, BytesAreNatural
<1>5. bytes = BytesIn(memory_blocks, held \ {b}) /\ bytes <= processes[i].memory_used_bytes
      /\ bytes \in Nat
  <2> HIDE DEF held
  <2> QED BY <1>4
<1>6. ASSUME NEW j \in DOMAIN processes'
      PROVE  InBalance(processes'[j], memory_blocks')
  <2>1. j \in DOMAIN processes /\ processes[j] \in Process
    BY Books
  <2>2. InBalance(processes[j], memory_blocks)
    BY <2>1 DEF Balanced
  <2>3. CASE j = i
    <3>1. /\ processes'[j].pid = pid
          /\ processes'[j].memory_quota_bytes = processes[i].memory_quota_bytes
          /\ processes'[j].memory_used_bytes = bytes
      BY <2>1, <2>3 DEF Process
    <3>2. /\ processes[i].memory_quota_bytes \in Nat /\ processes[i].memory_used_bytes \in Nat
          /\ processes[i].memory_used_bytes <= processes[i].memory_quota_bytes
      BY <2>2, <2>3, Books DEF InBalance
    <3>3. BytesIn(memory_blocks', HeldIn(memory_blocks', pid)) = bytes
      BY <1>3, <1>5
    <3>4. bytes <= processes[i].memory_quota_bytes
      BY <1>5, <3>2
    <3> QED BY <3>1, <3>3, <3>4 DEF InBalance
  <2>4. CASE j # i
    <3>1. processes'[j] = processes[j]
      BY <2>1, <2>4
    <3>2. b \notin HeldIn(memory_blocks, processes[j].pid)
      BY <1>1, <2>1, <2>4, Books DEF HeldIn
    <3>3. HeldIn(memory_blocks', processes[j].pid) = HeldIn(memory_blocks, processes[j].pid)
      BY <1>3, <3>2
    <3> QED BY <1>3, <2>2, <3>1, <3>3 DEF InBalance
  <2> QED BY <2>3, <2>4
<1> QED BY <1>3, <1>6 DEF Balanced

LEMMA StopBalances ==
  ASSUME TypeInv, Balanced, NEW i \in DOMAIN processes,
         processes' = [processes EXCEPT ![i] = StoppedProcess(@)],
         memory_blocks' = ReleasedBlocks(processes[i].pid)
  PROVE  Balanced'
<1> DEFINE pid == processes[i].pid
           gone == HeldIn(memory_blocks, pid)
<1>1. gone \subseteq UsedIn(memory_blocks)
  BY DEF HeldIn
<1>2. /\ DOMAIN memory_blocks' = DOMAIN memory_blocks
      /\ \A c \in DOMAIN memory_blocks :
           /\ memory_blocks'[c].bytes = memory_blocks[c].bytes
           /\ memory_blocks'[c].owner_pid = memory_blocks[c].owner_pid
           /\ memory_blocks'[c].used <=> memory_blocks[c].used /\ c \notin gone
  BY Books DEF ReleasedBlocks, MemoryBlock, HeldIn, UsedIn
<1>3. /\ WithinBudget(memory_blocks')
      /\ \A p : HeldIn(memory_blocks', p) = HeldIn(memory_blocks, p) \ gone
      /\ \A some : BytesIn(memory_blocks', some) = BytesIn(memory_blocks, some)
  <2> HIDE DEF gone
  <2> QED BY <1>1, <1>2, ReleaseBalances
<1>4. ASSUME NEW j \in DOMAIN processes'
      PROVE  InBalance(processes'[j], memory_blocks')
  <2>1. j \in DOMAIN processes /\ processes[j] \in Process
    BY Books
  <2>2. InBalance(processes[j], memory_blocks)
    BY <2>1 DEF Balanced
  <2>3. CASE j = i
    <3>1. processes'[j].memory_used_bytes = 0 /\ processes'[j].pid = pid
          /\ processes'[j].memory_quota_bytes = processes[i].memory_quota_bytes
      BY <2>1, <2>3 DEF StoppedProcess, Process
    <3>2. HeldIn(memory_blocks', pid) = {}
      BY <1>3
    <3>3. BytesIn(memory_blocks, {}) = 0
      BY Books, NoBytes
    <3>4. processes[i].memory_quota_bytes \in Nat
      BY Books
    <3> QED BY <1>3, <3>1, <3>2, <3>3, <3>4 DEF InBalance
  <2>4. CASE j # i
    <3>1. processes'[j] = processes[j] /\ processes[j].pid # pid
      BY <2>1, <2>4, Books
    <3>2. HeldIn(memory_blocks', processes[j].pid) = HeldIn(memory_blocks, processes[j].pid)
      BY <1>3, <3>1 DEF HeldIn
    <3> QED BY <1>3, <2>2, <3>1, <3>2 DEF InBalance
  <2> QED BY <2>3, <2>4
<1> QED BY <1>3, <1>4 DEF Balanced

LEMMA BalanceStep ==
  ASSUME SizesFit, TypeInv, BlocksOwnedByLive, Balanced, [Next]_vars
  PROVE  Balanced'
<1>1. CASE Appends
  <2>1. PICK p \in Process : /\ p.memory_used_bytes = 0
                             /\ processes' = Append(processes, p)
                             /\ memory_blocks' = memory_blocks
    BY <1>1 DEF Appends, memoryVars
  <2> DEFINE n == Len(processes)
  <2>2. /\ n \in Nat /\ DOMAIN processes' = 1..n + 1 /\ DOMAIN processes = 1..n
        /\ processes'[n + 1] = p /\ \A j \in 1..n : processes'[j] = processes[j]
    BY <2>1, Books
  <2>3. \A j \in DOMAIN processes : processes[j].pid # p.pid
    <3>1. PidsBySlot'
      BY TypeInvStep DEF TypeInv, IdentifiersBySlot
    <3>2. p.pid = FirstPid + (n + 1) - 1
      BY <2>2, <3>1 DEF PidsBySlot
    <3>3. PidsBySlot
      BY Tables
    <3> QED BY <2>2, <3>2, <3>3 DEF PidsBySlot, FirstPid
  <2>4. HeldIn(memory_blocks, p.pid) = {}
    <3>1. ~Live(p.pid)
      BY <2>3 DEF Live, LiveSlots
    <3> QED BY <3>1 DEF HeldIn, UsedIn, BlocksOwnedByLive, UsedBlocks
  <2>5. InBalance(p, memory_blocks)
    <3>1. BytesIn(memory_blocks, {}) = 0
      BY Books, NoBytes
    <3>2. p.memory_quota_bytes \in Nat
      BY ProcessAssumption DEF Process, Size
    <3> QED BY <2>1, <2>4, <3>1, <3>2 DEF InBalance
  <2>6. ASSUME NEW j \in DOMAIN processes' PROVE InBalance(processes'[j], memory_blocks')
    <3>1. j \in DOMAIN processes \/ processes'[j] = p
      BY <2>2
    <3> QED BY <2>1, <2>2, <2>5, <3>1 DEF Balanced
  <2> QED BY <2>1, <2>6 DEF Balanced
<1>2. CASE Dispatches
  <2>1. PICK i \in DOMAIN processes :
          /\ processes' = [j \in DOMAIN processes |-> IF j = i THEN Dispatched(processes[j])
                                                               ELSE Demoted(processes[j])]
          /\ memory_blocks' = memory_blocks
    BY <1>2 DEF Dispatches, memoryVars
  <2>2. \A p \in Process :
          /\ Dispatched(p).pid = p.pid /\ Demoted(p).pid = p.pid
          /\ Dispatched(p).memory_used_bytes = p.memory_used_bytes
          /\ Demoted(p).memory_used_bytes = p.memory_used_bytes
          /\ Dispatched(p).memory_quota_bytes = p.memory_quota_bytes
          /\ Demoted(p).memory_quota_bytes = p.memory_quota_bytes
    BY DEF Dispatched, Demoted, Process
  <2>3. DOMAIN processes' = DOMAIN processes
        /\ \A j \in DOMAIN processes :
             /\ processes'[j].pid = processes[j].pid
             /\ processes'[j].memory_used_bytes = processes[j].memory_used_bytes
             /\ processes'[j].memory_quota_bytes = processes[j].memory_quota_bytes
    BY <2>1, <2>2, Books
  <2> QED BY <2>1, <2>3 DEF Balanced, InBalance
<1>3. CASE Accounts
  BY <1>3, AllocationBalances, FreeBalances DEF Accounts
<1>4. CASE Stops
  BY <1>4, StopBalances DEF Stops
<1>5. CASE UNCHANGED <<processes, scheduler_cursor, memory_blocks>>
  BY <1>5 DEF Balanced
<1> QED BY <1>1, <1>2, <1>3, <1>4, <1>5, ProcessSteps

MemoryBooksInv == TypeInv /\ BlocksOwnedByLive /\ Balanced

LEMMA BooksBalance == SizesFit /\ Spec => []MemoryBooksInv
<1>1. Init => MemoryBooksInv
  <2>1. Init => BlocksOwnedByLive
    BY DEF Init, MemoryInit, BlocksOwnedByLive, UsedBlocks
  <2>2. ASSUME Init PROVE Balanced
    <3>1. memory_blocks = <<>> /\ processes = <<>> /\ TypeInv
      BY <2>2, TypeInvInit DEF Init, MemoryInit, ProcessInit
    <3>2. UsedIn(memory_blocks) = {}
      BY <3>1 DEF UsedIn
    <3>3. BytesIn(memory_blocks, {}) = 0 /\ TotalMemory \in Nat
      BY <3>1, Books, NoBytes
    <3>4. WithinBudget(memory_blocks)
      BY <3>2, <3>3 DEF WithinBudget
    <3>5. DOMAIN processes = {}
      BY <3>1
    <3> QED BY <3>4, <3>5 DEF Balanced
  <2> QED BY <2>1, <2>2, TypeInvInit DEF MemoryBooksInv
<1>2. SizesFit /\ MemoryBooksInv /\ [Next]_vars => MemoryBooksInv'
  BY TypeInvStep, OwnersStep, BalanceStep DEF MemoryBooksInv
<1>3. SizesFit => []SizesFit
  <2>1. SizesFit => SizesFit'
    BY DEF SizesFit
  <2> QED BY <2>1, PTL
<1> QED BY <1>1, <1>2, <1>3, PTL DEF Spec

(***************************************************************************)
(* The counter that allocate_memory checks is the sum of the blocks that    *)
(* the process really holds, where the sizes asked for do not wrap.         *)
(***************************************************************************)
THEOREM MemoryAccounted == SizesFit /\ Spec => []MemoryAccounting
<1>1. MemoryBooksInv => MemoryAccounting
  BY BalanceMeans DEF MemoryBooksInv
<1> QED BY <1>1, BooksBalance, PTL

(***************************************************************************)
(* No process ever holds more than its quota, nor all of them more than the *)
(* device has, where the sizes asked for do not wrap.  The hypothesis is    *)
(* needed: the run MemoryWrap breaks the quota with a size that does wrap.  *)
(***************************************************************************)
THEOREM QuotasEnforced == SizesFit /\ Spec => []QuotaEnforced
<1>1. MemoryBooksInv => QuotaEnforced
  BY BalanceMeans DEF MemoryBooksInv
<1> QED BY <1>1, BooksBalance, PTL

-----------------------------------------------------------------------------
(* Messages. *)

\* What a step does to the queue: it appends a batch of messages for live
\* processes, numbered on from the counter, takes the first message of a live
\* process out, or leaves the queue alone.
AppendsBatch ==
  \E batch \in Seq(IpcMessage) :
    /\ \A k \in 1..Len(batch) : /\ batch[k].sequence = next_ipc_sequence + k - 1
                                /\ Live(batch[k].to_pid)
    /\ Len(batch) <= IpcRoom
    /\ next_ipc_sequence + Len(batch) <= MaxIpcSequence + 1
    /\ ipc_messages' = ipc_messages \o batch
    /\ next_ipc_sequence' = next_ipc_sequence + Len(batch)
    /\ UNCHANGED processes

TakesOne ==
  /\ \E m \in DOMAIN ipc_messages :
       /\ Live(ipc_messages[m].to_pid)
       /\ IsFirstFor(m, ipc_messages[m].to_pid)
       /\ ipc_messages' = RemoveAt(ipc_messages, m)
  /\ UNCHANGED <<next_ipc_sequence, processes>>

LEMMA QueueSteps ==
  ASSUME TypeInv, [Next]_vars
  PROVE  AppendsBatch \/ TakesOne \/ UNCHANGED ipcVars
<1>0. IpcTypeOK /\ TimerInv /\ DOMAIN ipc_messages = 1..Len(ipc_messages)
  BY Tables
<1>1. CASE IpcSendCall
  <2>1. PICK from_pid \in Pids \cup {KernelPid}, to_pid \in Pids : IpcSend(from_pid, to_pid)
    BY <1>1 DEF IpcSendCall
  <2>2. CASE UNCHANGED ipcVars
    BY <2>2
  <2>3. CASE /\ Reachable(from_pid, to_pid)
             /\ IpcRoom > 0
             /\ next_ipc_sequence <= MaxIpcSequence
             /\ ipc_messages' = Append(ipc_messages, ClientMessage(from_pid, to_pid))
             /\ next_ipc_sequence' = next_ipc_sequence + 1
    <3> DEFINE message == ClientMessage(from_pid, to_pid)
    <3>1. message \in IpcMessage /\ message.sequence = next_ipc_sequence /\ Live(message.to_pid)
      BY <1>0, <2>3 DEF ClientMessage, IpcMessage, IpcTypeOK, Reachable
    <3> HIDE DEF message
    <3>2. /\ <<message>> \in Seq(IpcMessage) /\ Len(<<message>>) = 1
          /\ <<message>>[1] = message
      BY <3>1
    <3>3. ipc_messages' = ipc_messages \o <<message>>
      BY <1>0, <2>3, <3>1 DEF message, IpcTypeOK
    <3>4. \A k \in 1..Len(<<message>>) : /\ <<message>>[k].sequence = next_ipc_sequence + k - 1
                                          /\ Live(<<message>>[k].to_pid)
      BY <1>0, <3>1, <3>2 DEF IpcTypeOK
    <3>5. /\ Len(<<message>>) <= IpcRoom
          /\ next_ipc_sequence + Len(<<message>>) <= MaxIpcSequence + 1
      BY <1>0, <2>3, <3>2, IpcAssumption DEF IpcRoom, IpcTypeOK
    <3>6. UNCHANGED processes
      BY <2>1 DEF IpcSend, processVars
    <3> QED BY <2>3, <3>2, <3>3, <3>4, <3>5, <3>6 DEF AppendsBatch
  <2> QED BY <2>1, <2>2, <2>3 DEF IpcSend
<1>2. ASSUME NEW pid \in Pids, IpcReceiveCall(pid)
      PROVE  TakesOne \/ UNCHANGED ipcVars
  BY <1>0, <1>2
  DEF IpcReceiveCall, IpcReceive, MessagesFor, WithoutMessage, TakesOne, ipcVars, processVars
<1>3. CASE TickCall
  <2>1. PICK elapsed \in Elapsed : Tick(elapsed)
    BY <1>3 DEF TickCall
  <2>2. PICK post \in Posts(elapsed) :
          /\ next_ipc_sequence + Len(post) <= MaxIpcSequence + 1
          /\ ipc_messages' = ipc_messages \o
               [k \in DOMAIN post |-> ExpiryMessage(timers[post[k]], next_ipc_sequence + k - 1)]
          /\ next_ipc_sequence' = next_ipc_sequence + Len(post)
    BY <2>1 DEF Tick
  <2> DEFINE batch == [k \in DOMAIN post |->
                         ExpiryMessage(timers[post[k]], next_ipc_sequence + k - 1)]
  <2>3. /\ Len(post) \in Nat /\ DOMAIN post = 1..Len(post) /\ Len(post) <= IpcRoom
        /\ \A k \in 1..Len(post) :
             /\ Live(timers[post[k]].owner_pid)
             /\ ExpiryMessage(timers[post[k]], next_ipc_sequence + k - 1) \in IpcMessage
    BY <1>0, PostedBatch DEF Deliverable
  <2>4. /\ batch \in [1..Len(post) -> IpcMessage]
        /\ \A k \in 1..Len(post) : /\ batch[k].sequence = next_ipc_sequence + k - 1
                                   /\ Live(batch[k].to_pid)
    BY <2>3 DEF ExpiryMessage
  <2>5. ipc_messages' = ipc_messages \o batch
    BY <2>2
  <2> HIDE DEF batch
  <2>6. batch \in Seq(IpcMessage) /\ Len(batch) = Len(post)
    BY <2>3, <2>4, TableSeq
  <2>7. UNCHANGED processes
    BY <2>1 DEF Tick, processVars
  <2> QED BY <2>2, <2>3, <2>4, <2>5, <2>6, <2>7 DEF AppendsBatch
<1>4. CASE SpawnProcessCall \/ ScheduleNextCall \/ StopProcessCall \/ SecurityCheckCall
  BY <1>4 DEF SpawnProcessCall, ScheduleNextCall, StopProcessCall, SecurityCheckCall
<1>5. CASE AllocateMemoryCall \/ FreeMemoryCall \/ LogCall \/ SyscallCall
  BY <1>5 DEF AllocateMemoryCall, FreeMemoryCall, LogCall, SyscallCall
<1>6. CASE CreateTimerCall \/ RejectArguments \/ UNCHANGED vars
  BY <1>6 DEF CreateTimerCall, CreateTimer, RejectArguments, vars
<1> QED BY <1>1, <1>2, <1>3, <1>4, <1>5, <1>6 DEF Next, ClientCalls

LEMMA QueueOrderStep ==
  ASSUME TypeInv, QueueOrdered, [Next]_vars
  PROVE  QueueOrdered'
<1>1. /\ ipc_messages \in Seq(IpcMessage) /\ next_ipc_sequence \in Nat
      /\ Len(ipc_messages) \in Nat /\ DOMAIN ipc_messages = 1..Len(ipc_messages)
      /\ \A m \in DOMAIN ipc_messages : ipc_messages[m].sequence \in Nat
  BY Tables DEF IpcTypeOK, IpcMessage
<1>2. CASE AppendsBatch
  <2>1. PICK batch \in Seq(IpcMessage) :
          /\ \A k \in 1..Len(batch) : batch[k].sequence = next_ipc_sequence + k - 1
          /\ ipc_messages' = ipc_messages \o batch
          /\ next_ipc_sequence' = next_ipc_sequence + Len(batch)
    BY <1>2 DEF AppendsBatch
  <2>2. /\ DOMAIN ipc_messages' = 1..Len(ipc_messages) + Len(batch) /\ Len(batch) \in Nat
        /\ \A m \in 1..Len(ipc_messages) : ipc_messages'[m] = ipc_messages[m]
        /\ \A m \in Len(ipc_messages) + 1..Len(ipc_messages) + Len(batch) :
             ipc_messages'[m] = batch[m - Len(ipc_messages)]
    BY <1>1, <2>1
  <2>3. \A m \in Len(ipc_messages) + 1..Len(ipc_messages) + Len(batch) :
          ipc_messages'[m].sequence = next_ipc_sequence + (m - Len(ipc_messages)) - 1
    BY <1>1, <2>1, <2>2
  <2>4. \A m \in 1..Len(ipc_messages) :
          /\ ipc_messages'[m].sequence = ipc_messages[m].sequence
          /\ ipc_messages[m].sequence \in Nat
          /\ ipc_messages[m].sequence < next_ipc_sequence
    <3>1. \A m \in 1..Len(ipc_messages) : ipc_messages[m].sequence < next_ipc_sequence
      BY <1>1 DEF QueueOrdered
    <3> QED BY <1>1, <2>2, <3>1
  <2>5. ASSUME NEW m \in DOMAIN ipc_messages', NEW n \in DOMAIN ipc_messages', m < n
        PROVE  ipc_messages'[m].sequence < ipc_messages'[n].sequence
    <3>1. CASE n <= Len(ipc_messages)
      BY <1>1, <2>2, <2>4, <2>5, <3>1 DEF QueueOrdered
    <3>2. CASE m <= Len(ipc_messages) /\ n > Len(ipc_messages)
      <4>1. n - Len(ipc_messages) >= 1
        BY <1>1, <2>2, <3>2
      <4>2. ipc_messages'[n].sequence >= next_ipc_sequence
        BY <1>1, <2>2, <2>3, <3>2, <4>1
      <4>3. /\ m \in 1..Len(ipc_messages)
            /\ n \in Len(ipc_messages) + 1..Len(ipc_messages) + Len(batch)
        BY <1>1, <2>2, <3>2
      <4>4. ipc_messages'[n].sequence \in Int
        BY <1>1, <2>2, <2>3, <4>3
      <4> QED BY <1>1, <2>4, <4>2, <4>3, <4>4
    <3>3. CASE m > Len(ipc_messages)
      BY <1>1, <2>2, <2>3, <2>5, <3>3
    <3> QED BY <1>1, <2>2, <3>1, <3>2, <3>3
  <2>6. ASSUME NEW m \in DOMAIN ipc_messages'
        PROVE  ipc_messages'[m].sequence < next_ipc_sequence'
    <3>1. CASE m <= Len(ipc_messages)
      BY <1>1, <2>1, <2>2, <2>4, <3>1
    <3>2. CASE m > Len(ipc_messages)
      BY <1>1, <2>1, <2>2, <2>3, <3>2
    <3> QED BY <1>1, <2>2, <3>1, <3>2
  <2> QED BY <2>5, <2>6 DEF QueueOrdered
<1>3. CASE TakesOne
  <2>1. PICK m \in DOMAIN ipc_messages : ipc_messages' = RemoveAt(ipc_messages, m)
    BY <1>3 DEF TakesOne
  <2>2. /\ ipc_messages' \in Seq(IpcMessage) /\ Len(ipc_messages') = Len(ipc_messages) - 1
        /\ \A j \in 1..Len(ipc_messages) - 1 :
             ipc_messages'[j] = IF j < m THEN ipc_messages[j] ELSE ipc_messages[j + 1]
    BY <1>1, <2>1, RemoveAtSeq
  <2>3. DOMAIN ipc_messages' = 1..Len(ipc_messages) - 1
    BY <1>1, <2>2
  <2> DEFINE from(j) == IF j < m THEN j ELSE j + 1
  <2>4. \A j \in DOMAIN ipc_messages' :
          from(j) \in DOMAIN ipc_messages /\ ipc_messages'[j] = ipc_messages[from(j)]
    BY <1>1, <2>1, <2>2, <2>3
  <2>5. \A i, j \in DOMAIN ipc_messages' : i < j => from(i) < from(j)
    BY <1>1, <2>1, <2>3
  <2> HIDE DEF from
  <2> QED BY <1>3, <2>4, <2>5 DEF QueueOrdered, TakesOne
<1>4. CASE UNCHANGED ipcVars
  BY <1>4 DEF QueueOrdered, ipcVars
<1> QED BY <1>2, <1>3, <1>4, QueueSteps

(***************************************************************************)
(* The message queue is always in sending order.                            *)
(***************************************************************************)
THEOREM QueueInOrder == Spec => []QueueOrdered
<1>1. Init => QueueOrdered
  BY DEF Init, IpcInit, QueueOrdered
<1>2. TypeInv /\ QueueOrdered /\ [Next]_vars => QueueOrdered'
  BY QueueOrderStep
<1> QED BY <1>1, <1>2, TypeInvariant, PTL DEF Spec

-----------------------------------------------------------------------------
(* The refinement: a step on the queue is a step on the mailboxes. *)

\* The status of the process with the i-th pid, from the process table.
SlotStatus(table, i) ==
  IF i \notin DOMAIN table THEN "new"
  ELSE IF table[i].state = "STOPPED" THEN "closed" ELSE "open"

SlotNumber(pid) == pid - FirstPid + 1

\* In a table whose pids are numbered by the slots, find_process looks at one slot.
LEMMA OneSlot ==
  ASSUME NEW table, NEW n \in Nat, DOMAIN table = 1..n,
         \A i \in 1..n : table[i].pid = FirstPid + i - 1,
         NEW pid \in Pids
  PROVE  /\ SlotNumber(pid) \in 1..MaxProcesses
         /\ {i \in DOMAIN table : table[i].pid = pid /\ table[i].state # "STOPPED"} # {}
              <=> SlotStatus(table, SlotNumber(pid)) = "open"
         /\ (\E i \in DOMAIN table : table[i].pid = pid)
              <=> SlotStatus(table, SlotNumber(pid)) # "new"
<1>1. pid \in Int /\ SlotNumber(pid) \in 1..MaxProcesses
  BY ProcessAssumption DEF Pids, FirstPid, SlotNumber
<1>2. \A i \in DOMAIN table : table[i].pid = pid <=> i = SlotNumber(pid)
  BY <1>1 DEF SlotNumber, FirstPid
<1> QED BY <1>1, <1>2 DEF SlotStatus

LEMMA StatusBySlot ==
  ASSUME TypeInv, TypeInv', NEW pid \in Pids
  PROVE  /\ StatusOf(pid) = SlotStatus(processes, SlotNumber(pid))
         /\ StatusOf(pid)' = SlotStatus(processes', SlotNumber(pid))
         /\ SlotNumber(pid) \in 1..MaxProcesses
<1> DEFINE number == SlotNumber(pid)
<1>1. /\ Len(processes) \in Nat /\ DOMAIN processes = 1..Len(processes)
      /\ \A i \in 1..Len(processes) : processes[i].pid = FirstPid + i - 1
  BY Tables DEF PidsBySlot
<1>2. /\ Len(processes') \in Nat /\ DOMAIN processes' = 1..Len(processes')
      /\ \A i \in 1..Len(processes') : processes'[i].pid = FirstPid + i - 1
  <2>1. processes' \in Seq(Process)
    BY DEF TypeInv, TypeOK, ProcessTypeOK
  <2>2. PidsBySlot'
    BY DEF TypeInv, IdentifiersBySlot
  <2> QED BY <2>1, <2>2 DEF PidsBySlot
<1>3. /\ number \in 1..MaxProcesses
      /\ Live(pid) <=> SlotStatus(processes, number) = "open"
      /\ (\E i \in DOMAIN processes : processes[i].pid = pid)
           <=> SlotStatus(processes, number) # "new"
  BY <1>1, OneSlot DEF Live, LiveSlots
<1>4. /\ Live(pid)' <=> SlotStatus(processes', number) = "open"
      /\ (\E i \in DOMAIN processes' : processes'[i].pid = pid)
           <=> SlotStatus(processes', number) # "new"
  <2>1. PICK table, n : table = processes' /\ n = Len(processes')
    OBVIOUS
  <2>2. /\ n \in Nat /\ DOMAIN table = 1..n
        /\ \A i \in 1..n : table[i].pid = FirstPid + i - 1
    BY <1>2, <2>1
  <2>3. /\ {i \in DOMAIN table : table[i].pid = pid /\ table[i].state # "STOPPED"} # {}
             <=> SlotStatus(table, number) = "open"
        /\ (\E i \in DOMAIN table : table[i].pid = pid)
             <=> SlotStatus(table, number) # "new"
    BY <2>2, OneSlot
  <2> QED BY <2>1, <2>3 DEF Live, LiveSlots
<1>5. \A table : SlotStatus(table, number) \in {"new", "open", "closed"}
  BY DEF SlotStatus
<1> HIDE DEF number
<1>6. StatusOf(pid) = SlotStatus(processes, number)
  BY <1>3, <1>5 DEF StatusOf
<1>7. StatusOf(pid)' = SlotStatus(processes', number)
  BY <1>4, <1>5 DEF StatusOf
<1> QED BY <1>3, <1>6, <1>7 DEF number

Statuses == [pid \in Pids |-> StatusOf(pid)]
Mailboxes == [pid \in Pids |-> MailOf(pid)]

LEMMA MailboxesOfQueue ==
  /\ Mailboxes = [pid \in Pids |-> NumbersFor(ipc_messages, pid)]
  /\ Mailboxes' = [pid \in Pids |-> NumbersFor(ipc_messages', pid)]
BY DEF Mailboxes, MailOf, MessagesFor, NumbersFor

\* The processes and their mailboxes: one opens, one closes, or none does either.
OneOpens ==
  \E pid \in Pids : StatusOf(pid) = "new" /\ Statuses' = [Statuses EXCEPT ![pid] = "open"]

OneCloses ==
  \E pid \in Pids : StatusOf(pid) = "open" /\ Statuses' = [Statuses EXCEPT ![pid] = "closed"]

LEMMA StatusSteps ==
  ASSUME TypeInv, [Next]_vars
  PROVE  OneOpens \/ OneCloses \/ UNCHANGED Statuses
<1>0. /\ DOMAIN processes = 1..Len(processes) /\ Len(processes) \in Nat
      /\ \A i \in DOMAIN processes : processes[i] \in Process /\ processes[i].pid = FirstPid + i - 1
  BY Tables DEF PidsBySlot
<1>1. TypeInv'
  BY TypeInvStep
<1>2. \A pid \in Pids : /\ StatusOf(pid) = SlotStatus(processes, SlotNumber(pid))
                        /\ StatusOf(pid)' = SlotStatus(processes', SlotNumber(pid))
                        /\ SlotNumber(pid) \in 1..MaxProcesses
  BY <1>1, StatusBySlot
<1>3. \A i \in 1..MaxProcesses : /\ FirstPid + i - 1 \in Pids
                                 /\ SlotNumber(FirstPid + i - 1) = i
                                 /\ \A pid \in Pids : SlotNumber(pid) = i => pid = FirstPid + i - 1
  BY ProcessAssumption DEF Pids, FirstPid, SlotNumber
<1>4. CASE \A i \in 1..MaxProcesses : SlotStatus(processes', i) = SlotStatus(processes, i)
  BY <1>2, <1>4 DEF Statuses
<1>5. ASSUME NEW i \in 1..MaxProcesses, NEW status,
             SlotStatus(processes', i) = status,
             \A j \in 1..MaxProcesses : j # i => SlotStatus(processes', j) = SlotStatus(processes, j)
      PROVE  /\ Statuses' = [Statuses EXCEPT ![FirstPid + i - 1] = status]
             /\ StatusOf(FirstPid + i - 1) = SlotStatus(processes, i)
  <2> DEFINE mine == FirstPid + i - 1
  <2>1. mine \in Pids /\ SlotNumber(mine) = i
    BY <1>3
  <2>2. \A pid \in Pids : pid # mine => SlotNumber(pid) # i
    BY <1>3
  <2> HIDE DEF mine
  <2>3. \A pid \in Pids : StatusOf(pid)' = IF pid = mine THEN status ELSE StatusOf(pid)
    BY <1>2, <1>5, <2>1, <2>2
  <2>4. Statuses' = [Statuses EXCEPT ![mine] = status]
    BY <2>1, <2>3 DEF Statuses
  <2>5. StatusOf(mine) = SlotStatus(processes, i)
    BY <1>2, <2>1
  <2> QED BY <2>4, <2>5 DEF mine
<1>6. CASE Appends
  <2>1. PICK p \in Process : p.state = "READY" /\ processes' = Append(processes, p)
    BY <1>6 DEF Appends
  <2> DEFINE n == Len(processes)
  <2>2. /\ n \in Nat /\ DOMAIN processes' = 1..n + 1 /\ DOMAIN processes = 1..n
        /\ processes'[n + 1] = p /\ \A j \in 1..n : processes'[j] = processes[j]
    BY <1>0, <2>1, Tables DEF ProcessTypeOK
  <2>3. n + 1 \in 1..MaxProcesses
    <3>1. Len(processes') <= MaxProcesses /\ Len(processes') = n + 1
      BY <1>1, <2>1, Tables DEF TypeInv, TypeOK, ProcessTypeOK
    <3> QED BY <2>2, <3>1, ProcessAssumption
  <2> HIDE DEF n
  <2>4. SlotStatus(processes', n + 1) = "open" /\ SlotStatus(processes, n + 1) = "new"
    BY <2>1, <2>2 DEF SlotStatus
  <2>5. \A j \in 1..MaxProcesses : j # n + 1 => SlotStatus(processes', j) = SlotStatus(processes, j)
    <3> SUFFICES ASSUME NEW j \in 1..MaxProcesses, j # n + 1
                 PROVE  SlotStatus(processes', j) = SlotStatus(processes, j)
      OBVIOUS
    <3>1. j \in 1..n + 1 <=> j \in 1..n
      BY <2>2
    <3> QED BY <2>2, <3>1 DEF SlotStatus
  <2>6. OneOpens
    BY <1>3, <1>5, <2>3, <2>4, <2>5 DEF OneOpens
  <2> QED BY <2>6
<1>7. CASE Stops
  <2>1. PICK i \in DOMAIN processes :
          processes[i].state # "STOPPED" /\ processes' = [processes EXCEPT ![i] = StoppedProcess(@)]
    BY <1>7 DEF Stops
  <2>2. i \in 1..MaxProcesses
    BY <1>0, <2>1, Tables, ProcessAssumption DEF ProcessTypeOK
  <2>3. StoppedProcess(processes[i]).state = "STOPPED"
    BY <1>0 DEF StoppedProcess, Process
  <2>4. SlotStatus(processes', i) = "closed" /\ SlotStatus(processes, i) = "open"
    BY <2>1, <2>3 DEF SlotStatus
  <2>5. \A j \in 1..MaxProcesses : j # i => SlotStatus(processes', j) = SlotStatus(processes, j)
    BY <2>1 DEF SlotStatus
  <2>6. OneCloses
    BY <1>3, <1>5, <2>2, <2>4, <2>5 DEF OneCloses
  <2> QED BY <2>6
<1>8. ASSUME DOMAIN processes' = DOMAIN processes,
             \A j \in DOMAIN processes :
               processes'[j].state = "STOPPED" <=> processes[j].state = "STOPPED"
      PROVE  UNCHANGED Statuses
  <2>1. \A i \in 1..MaxProcesses : SlotStatus(processes', i) = SlotStatus(processes, i)
    BY <1>8 DEF SlotStatus
  <2> QED BY <1>2, <2>1 DEF Statuses
<1>9. CASE Dispatches
  <2>1. PICK i \in DOMAIN processes :
          /\ processes[i].state # "STOPPED"
          /\ processes' = [j \in DOMAIN processes |-> IF j = i THEN Dispatched(processes[j])
                                                               ELSE Demoted(processes[j])]
    BY <1>9 DEF Dispatches
  <2>2. \A p \in Process : /\ Dispatched(p).state = "RUNNING"
                           /\ Demoted(p).state = "STOPPED" <=> p.state = "STOPPED"
    BY DEF Dispatched, Demoted, Process
  <2> QED BY <1>0, <1>8, <2>1, <2>2
<1>10. CASE Accounts
  <2>1. PICK i \in DOMAIN processes, bytes \in Size :
          processes' = [processes EXCEPT ![i].memory_used_bytes = bytes]
    BY <1>10 DEF Accounts
  <2>2. \A j \in DOMAIN processes : processes'[j].state = processes[j].state
    BY <1>0, <2>1 DEF Process
  <2>3. DOMAIN processes' = DOMAIN processes
    BY <2>1
  <2> QED BY <1>8, <2>2, <2>3
<1>11. CASE UNCHANGED processes
  BY <1>8, <1>11
<1> QED BY <1>6, <1>7, <1>9, <1>10, <1>11, ProcessSteps

LEMMA QueueChangesMailboxes ==
  ASSUME TypeInv, QueueOrdered, [Next]_vars
  PROVE  [Mail!MNext]_(Mail!mailboxVars)
<1>0. /\ ipc_messages \in Seq(IpcMessage) /\ Len(ipc_messages) \in Nat
      /\ DOMAIN ipc_messages = 1..Len(ipc_messages) /\ Len(ipc_messages) <= MaxIpcMessages
      /\ next_ipc_sequence \in Nat /\ MaxIpcMessages \in Nat
      /\ \A m \in DOMAIN ipc_messages : ipc_messages[m] \in IpcMessage
  BY Tables, IpcAssumption DEF IpcTypeOK
<1>1. CASE AppendsBatch
  <2>1. PICK batch \in Seq(IpcMessage) :
          /\ \A k \in 1..Len(batch) : /\ batch[k].sequence = next_ipc_sequence + k - 1
                                      /\ Live(batch[k].to_pid)
          /\ Len(batch) <= IpcRoom
          /\ next_ipc_sequence + Len(batch) <= MaxIpcSequence + 1
          /\ ipc_messages' = ipc_messages \o batch
          /\ next_ipc_sequence' = next_ipc_sequence + Len(batch)
          /\ UNCHANGED processes
    BY <1>1 DEF AppendsBatch
  <2> DEFINE targets == [k \in 1..Len(batch) |-> batch[k].to_pid]
  <2>2. /\ Len(batch) \in Nat /\ DOMAIN batch = 1..Len(batch)
        /\ \A k \in 1..Len(batch) : batch[k].to_pid \in Pids
    <3>1. /\ Len(batch) \in Nat /\ DOMAIN batch = 1..Len(batch)
          /\ \A k \in 1..Len(batch) : batch[k] \in IpcMessage
      OBVIOUS
    <3> QED BY <3>1 DEF IpcMessage
  <2>3. /\ targets \in Seq(Pids) /\ Len(targets) = Len(batch) /\ DOMAIN targets = 1..Len(batch)
    <3>1. targets \in [1..Len(batch) -> Pids]
      BY <2>2
    <3> HIDE DEF targets
    <3>2. DOMAIN targets = 1..Len(batch)
      BY <3>1
    <3> QED BY <2>2, <3>1, <3>2, TableSeq
  <2>4. \A k \in 1..Len(batch) : targets[k] = batch[k].to_pid
    OBVIOUS
  <2> HIDE DEF targets
  <2>5. targets \in Mail!BoundedSeq(Pids, MaxIpcMessages)
    <3>1. Len(batch) \in 0..MaxIpcMessages
      BY <1>0, <2>1, <2>2 DEF IpcRoom
    <3>2. targets \in [1..Len(batch) -> Pids]
      BY <2>3
    <3> QED BY <3>1, <3>2 DEF Mail!BoundedSeq, Mail!SeqOf
  <2>6. \A k \in DOMAIN targets : Statuses[targets[k]] = "open"
    BY <2>1, <2>2, <2>3, <2>4 DEF Statuses, StatusOf
  <2>7. Len(ipc_messages') = Len(ipc_messages) + Len(targets)
        /\ Len(ipc_messages) + Len(targets) <= MaxIpcMessages
    BY <1>0, <2>1, <2>2, <2>3 DEF IpcRoom
  <2>8. \A pid \in Pids : NumbersFor(ipc_messages', pid) = NumbersFor(ipc_messages, pid) \cup
          {next_ipc_sequence + k - 1 : k \in {j \in DOMAIN targets : targets[j] = pid}}
    <3> TAKE pid \in Pids
    <3>1. NumbersFor(ipc_messages \o batch, pid) =
            NumbersFor(ipc_messages, pid) \cup NumbersFor(batch, pid)
      BY <1>0, NumbersTogether
    <3>2. NumbersFor(batch, pid) =
            {next_ipc_sequence + k - 1 : k \in {j \in DOMAIN targets : targets[j] = pid}}
      BY <2>1, <2>2, <2>3, <2>4 DEF NumbersFor
    <3> QED BY <2>1, <3>1, <3>2
  <2>9. Mailboxes' = [pid \in Pids |-> Mailboxes[pid] \cup
          {next_ipc_sequence + k - 1 : k \in {j \in DOMAIN targets : targets[j] = pid}}]
    BY <2>8, MailboxesOfQueue
  <2>10. UNCHANGED Statuses
    BY <2>1 DEF Statuses, StatusOf, Live, LiveSlots
  <2>11. Mail!Put(targets)
    BY <2>1, <2>3, <2>6, <2>7, <2>9, <2>10 DEF Mail!Put, Statuses, Mailboxes
  <2> QED BY <2>5, <2>11 DEF Mail!MNext
<1>2. CASE TakesOne
  <2>1. PICK m \in DOMAIN ipc_messages :
          /\ Live(ipc_messages[m].to_pid)
          /\ IsFirstFor(m, ipc_messages[m].to_pid)
          /\ ipc_messages' = RemoveAt(ipc_messages, m)
          /\ UNCHANGED <<next_ipc_sequence, processes>>
    BY <1>2 DEF TakesOne
  <2> DEFINE to == ipc_messages[m].to_pid
  <2>2. to \in Pids
    BY <1>0 DEF IpcMessage
  <2>3. NumberedInOrder(ipc_messages, next_ipc_sequence)
    BY <1>0 DEF QueueOrdered, NumberedInOrder, IpcMessage
  <2>4. \A n \in DOMAIN ipc_messages : ipc_messages[n].to_pid = to => m <= n
    BY <2>1 DEF IsFirstFor, MessagesFor
  <2>5. /\ NumbersFor(ipc_messages, to) # {}
        /\ NumbersFor(ipc_messages', to) =
             NumbersFor(ipc_messages, to) \ {Min(NumbersFor(ipc_messages, to))}
        /\ \A p : p # to => NumbersFor(ipc_messages', p) = NumbersFor(ipc_messages, p)
    BY <1>0, <2>1, <2>3, <2>4, NumbersWithoutFirst
  <2>6. Len(ipc_messages') = Len(ipc_messages) - 1
    BY <1>0, <2>1, RemoveAtSeq
  <2>7. Statuses[to] = "open" /\ UNCHANGED Statuses
    BY <2>1, <2>2 DEF Statuses, StatusOf, Live, LiveSlots
  <2> HIDE DEF to
  <2>8. /\ Mailboxes[to] # {}
        /\ Mailboxes' = [Mailboxes EXCEPT ![to] = Mailboxes[to] \ {Min(Mailboxes[to])}]
    BY <2>2, <2>5, MailboxesOfQueue
  <2>9. \A numbers : Mail!Min(numbers) = Min(numbers)
    BY DEF Mail!Min, Min
  <2>10. Mail!Take(to)
    BY <2>1, <2>6, <2>7, <2>8, <2>9 DEF Mail!Take, Statuses, Mailboxes
  <2> QED BY <2>2, <2>10 DEF Mail!MNext
<1>3. CASE UNCHANGED ipcVars
  <2>1. UNCHANGED <<Mailboxes, Len(ipc_messages), next_ipc_sequence>>
    BY <1>3, MailboxesOfQueue DEF ipcVars
  <2>2. CASE OneOpens
    <3>1. PICK pid \in Pids :
            StatusOf(pid) = "new" /\ Statuses' = [Statuses EXCEPT ![pid] = "open"]
      BY <2>2 DEF OneOpens
    <3>2. Mail!Open(pid)
      BY <2>1, <3>1 DEF Mail!Open, Statuses, Mailboxes
    <3> QED BY <3>2 DEF Mail!MNext
  <2>3. CASE OneCloses
    <3>1. PICK pid \in Pids :
            StatusOf(pid) = "open" /\ Statuses' = [Statuses EXCEPT ![pid] = "closed"]
      BY <2>3 DEF OneCloses
    <3>2. Mail!Close(pid)
      BY <2>1, <3>1 DEF Mail!Close, Statuses, Mailboxes
    <3> QED BY <3>2 DEF Mail!MNext
  <2>4. CASE UNCHANGED Statuses
    BY <2>1, <2>4 DEF Mail!mailboxVars, Statuses, Mailboxes
  <2> QED BY <2>2, <2>3, <2>4, StatusSteps
<1> QED BY <1>1, <1>2, <1>3, QueueSteps

(***************************************************************************)
(* The one queue of the runtime implements a mailbox for each process, for  *)
(* any number of processes, messages and timers: every message is received  *)
(* at most once, by the process it was sent to and in the order of sending, *)
(* and only live processes get and receive any.  The order of the queue is  *)
(* what makes the first message for a process the one with its least number.*)
(***************************************************************************)
THEOREM QueueImplementsMailbox == Spec => ImplementsMailbox
<1>1. Init => Mail!MInit
  <2> SUFFICES ASSUME Init PROVE Mail!MInit
    OBVIOUS
  <2>1. ipc_messages = <<>> /\ next_ipc_sequence = 1 /\ processes = <<>>
    BY DEF Init, IpcInit, ProcessInit
  <2>2. \A pid \in Pids : MailOf(pid) = {} /\ StatusOf(pid) = "new"
    BY <2>1 DEF MailOf, MessagesFor, StatusOf, Live, LiveSlots
  <2> QED BY <2>1, <2>2 DEF Mail!MInit
<1>2. TypeInv /\ QueueOrdered /\ [Next]_vars => [Mail!MNext]_(Mail!mailboxVars)
  BY QueueChangesMailboxes
<1> QED BY <1>1, <1>2, QueueInOrder, TypeInvariant, PTL DEF Spec, ImplementsMailbox, Mail!MSpec

-----------------------------------------------------------------------------
(* The timers. *)

LEMMA WaitingStep ==
  ASSUME TypeInv, TimersWaiting, [Next]_vars
  PROVE  TimersWaiting'
<1>1. /\ timers \in Seq(Timer) /\ DOMAIN timers = 1..Len(timers) /\ Len(timers) \in Nat
      /\ \A t \in DOMAIN timers : timers[t] \in Timer
  BY Tables DEF TimerInv, TimerTypeOK
<1>2. CASE UNCHANGED timers
  BY <1>2 DEF TimersWaiting
<1>3. CASE CreateTimerCall
  <2>1. PICK owner \in Pids, interval \in Intervals, repeating \in BOOLEAN :
          CreateTimer(owner, interval, repeating)
    BY <1>3 DEF CreateTimerCall
  <2>2. CASE interval # 0 /\ timers' = Append(timers, NewTimer(owner, interval, repeating))
    <3> DEFINE timer == NewTimer(owner, interval, repeating)
    <3>1. timer.remaining_ms = interval /\ timer.interval_ms = interval
      BY DEF NewTimer
    <3>2. interval \in 1..interval
      BY <2>2, TimerAssumption
    <3> HIDE DEF timer
    <3>3. /\ DOMAIN timers' = 1..Len(timers) + 1 /\ timers'[Len(timers) + 1] = timer
          /\ \A t \in DOMAIN timers : timers'[t] = timers[t]
      BY <1>1, <2>2 DEF timer
    <3> QED BY <1>1, <3>1, <3>2, <3>3 DEF TimersWaiting
  <2> QED BY <1>2, <2>1, <2>2 DEF CreateTimer, timerVars
<1>4. CASE TickCall
  <2>1. PICK elapsed \in Elapsed : Tick(elapsed)
    BY <1>4 DEF TickCall
  <2>2. timers' = [i \in DOMAIN timers |-> Advanced(timers[i], elapsed)]
    BY <2>1 DEF Tick
  <2>3. ASSUME NEW timer \in Timer,
               timer.active => timer.remaining_ms \in 1..timer.interval_ms
        PROVE  Advanced(timer, elapsed).active =>
                 Advanced(timer, elapsed).remaining_ms \in 1..Advanced(timer, elapsed).interval_ms
    <3>1. elapsed \in Nat /\ timer.remaining_ms \in Nat /\ timer.interval_ms \in Nat
      BY TimerAssumption DEF Timer
    <3>2. CASE ~timer.active
      BY <3>2 DEF Advanced
    <3>3. CASE timer.active /\ elapsed >= timer.remaining_ms
      <4>1. timer.interval_ms \in 1..timer.interval_ms
        BY <2>3, <3>1, <3>3
      <4> QED BY <3>3, <4>1 DEF Advanced, Expired, Timer
    <3>4. CASE timer.active /\ ~(elapsed >= timer.remaining_ms)
      <4>1. timer.remaining_ms - elapsed \in 1..timer.interval_ms
        BY <2>3, <3>1, <3>4
      <4> QED BY <3>4, <4>1 DEF Advanced, Timer
    <3> QED BY <3>2, <3>3, <3>4
  <2> QED BY <1>1, <2>2, <2>3 DEF TimersWaiting
<1>5. CASE SpawnProcessCall \/ ScheduleNextCall \/ StopProcessCall \/ SecurityCheckCall
  BY <1>2, <1>5
  DEF SpawnProcessCall, ScheduleNextCall, StopProcessCall, SecurityCheckCall, timerVars
<1>6. CASE AllocateMemoryCall \/ FreeMemoryCall \/ LogCall \/ SyscallCall
  BY <1>2, <1>6 DEF AllocateMemoryCall, FreeMemoryCall, LogCall, SyscallCall, timerVars
<1>7. CASE IpcSendCall \/ (\E pid \in Pids : IpcReceiveCall(pid)) \/ RejectArguments
           \/ UNCHANGED vars
  BY <1>2, <1>7 DEF IpcSendCall, IpcReceiveCall, RejectArguments, vars, timerVars
<1> QED BY <1>3, <1>4, <1>5, <1>6, <1>7 DEF Next, ClientCalls

(***************************************************************************)
(* An active timer always waits between 1 ms and one interval: the unsigned *)
(* subtraction of bolun_runtime_tick never wraps.                           *)
(***************************************************************************)
THEOREM TimersAlwaysWaiting == Spec => []TimersWaiting
<1>1. Init => TimersWaiting
  BY DEF Init, TimerInit, TimersWaiting
<1>2. TypeInv /\ TimersWaiting /\ [Next]_vars => TimersWaiting'
  BY WaitingStep
<1> QED BY <1>1, <1>2, TypeInvariant, PTL DEF Spec

-----------------------------------------------------------------------------
(* The log. *)

LEMMA WindowStep ==
  ASSUME TypeInv, LogWindow, [Next]_vars
  PROVE  LogWindow'
<1>1. /\ logs \in Seq(LogEvent) /\ Len(logs) \in Nat /\ Len(logs) <= MaxLogEvents
      /\ Len(logs) >= 2
  BY Tables DEF LogTypeOK, LogWindow
<1>2. CASE UNCHANGED logVars
  BY <1>2 DEF LogWindow, logVars, NextLogSequence
<1>3. CASE AppendLog
  <2> DEFINE kept == RetainedLogs
  <2>1. /\ kept \in Seq(LogEvent) /\ Len(kept) \in Nat /\ Len(kept) >= 1
        /\ \A i \in 1..Len(kept) - 1 : kept[i + 1] = NextLogSequence(kept[i])
        /\ kept[Len(kept)] = logs[Len(logs)]
    <3>1. CASE Len(logs) = MaxLogEvents
      <4>1. kept = Tail(logs) /\ logs # <<>>
        BY <1>1, <3>1 DEF RetainedLogs
      <4>2. /\ Tail(logs) \in Seq(LogEvent) /\ Len(Tail(logs)) = Len(logs) - 1
            /\ \A i \in 1..Len(logs) - 1 : Tail(logs)[i] = logs[i + 1]
        BY <1>1, <4>1
      <4> HIDE DEF kept
      <4> QED BY <1>1, <4>1, <4>2 DEF LogWindow
    <3>2. CASE Len(logs) # MaxLogEvents
      BY <1>1, <3>2 DEF RetainedLogs, LogWindow
    <3> QED BY <3>1, <3>2
  <2>2. next_log_sequence \in LogEvent
    BY Tables DEF LogTypeOK
  <2>3. logs' = Append(kept, next_log_sequence) /\ next_log_sequence' = NextLogSequence(next_log_sequence)
    BY <1>3 DEF AppendLog
  <2> HIDE DEF kept
  <2>5. /\ Len(logs') = Len(kept) + 1 /\ logs'[Len(kept) + 1] = next_log_sequence
        /\ \A i \in 1..Len(kept) : logs'[i] = kept[i]
    BY <2>1, <2>2, <2>3
  <2>6. next_log_sequence = NextLogSequence(logs[Len(logs)])
    BY DEF LogWindow
  <2>7. \A i \in 1..Len(logs') - 1 :
          logs'[i + 1] = NextLogSequence(logs'[i])
    <3>1. SUFFICES ASSUME NEW i \in 1..Len(kept)
                   PROVE  logs'[i + 1] = NextLogSequence(logs'[i])
      BY <2>1, <2>5
    <3>2. CASE i = Len(kept)
      BY <2>1, <2>5, <2>6, <3>2
    <3>3. CASE i # Len(kept)
      <4>1. i \in 1..Len(kept) - 1 /\ i + 1 \in 1..Len(kept)
        BY <2>1, <3>3
      <4> QED BY <2>1, <2>5, <4>1
    <3> QED BY <3>2, <3>3
  <2> QED BY <2>1, <2>3, <2>5, <2>7 DEF LogWindow, NextLogSequence
<1>4. CASE SpawnProcessCall
  BY <1>2, <1>3, <1>4 DEF SpawnProcessCall, SpawnProcess
<1>5. CASE StopProcessCall
  BY <1>2, <1>3, <1>5 DEF StopProcessCall, StopProcess
<1>6. CASE LogCall
  BY <1>3, <1>6 DEF LogCall, Log
<1>7. CASE SyscallCall
  BY <1>2, <1>3, <1>7 DEF SyscallCall, Syscall, SecurityCheck
<1>8. CASE ScheduleNextCall \/ SecurityCheckCall
  BY <1>2, <1>8 DEF ScheduleNextCall, ScheduleNext, SecurityCheckCall, SecurityCheck, logVars
<1>9. CASE AllocateMemoryCall \/ FreeMemoryCall
  BY <1>2, <1>9 DEF AllocateMemoryCall, AllocateMemory, FreeMemoryCall, FreeMemory
<1>10. CASE IpcSendCall \/ \E pid \in Pids : IpcReceiveCall(pid)
  BY <1>2, <1>10 DEF IpcSendCall, IpcSend, IpcReceiveCall, IpcReceive
<1>11. CASE CreateTimerCall \/ TickCall
  BY <1>2, <1>11 DEF CreateTimerCall, CreateTimer, TickCall, Tick
<1>12. CASE RejectArguments \/ UNCHANGED vars
  BY <1>2, <1>12 DEF RejectArguments, vars
<1> QED
  BY <1>4, <1>5, <1>6, <1>7, <1>8, <1>9, <1>10, <1>11, <1>12 DEF Next, ClientCalls

(***************************************************************************)
(* The log array always holds the most recent events without a gap.         *)
(***************************************************************************)
THEOREM LogHasNoGaps == Spec => []LogWindow
<1>1. Init => LogWindow
  BY LogAssumption DEF Init, LogInit, LogWindow, NextLogSequence
<1>2. TypeInv /\ LogWindow /\ [Next]_vars => LogWindow'
  BY WindowStep
<1> QED BY <1>1, <1>2, TypeInvariant, PTL DEF Spec
=============================================================================
