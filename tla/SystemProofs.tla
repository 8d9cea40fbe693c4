----------------------------- MODULE SystemProofs -----------------------------
(***************************************************************************)
(* Bolun Phone 1.0, for every capacity, limit, size, path, name, manifest   *)
(* and number of processes: the types of its tables, the turns its          *)
(* scheduler gives, the memory it charges, its mailboxes and its files; and *)
(* the count that the health of a platform module is, for every number of   *)
(* generations.                                                             *)
(***************************************************************************)
EXTENDS MCPhone10, OperatorLemmas

-----------------------------------------------------------------------------
(* Processes, memory and the log.  Processes are never taken away and keep    *)
(* their permissions: what named one yesterday names it today.                *)

Grown ==
  \A pid \in DOMAIN processes :
    /\ pid \in DOMAIN processes'
    /\ processes'[pid].permissions = processes[pid].permissions

\* The calls that leave the processes and the memory alone.
Quiet ==
  /\ UNCHANGED <<processVars, memory>>
  /\ UNCHANGED log_count \/ Logged
  /\ returned' \in {0, -1}

LEMMA LoggedTypes ==
  ASSUME log_count \in 1..MaxLogs, UNCHANGED log_count \/ Logged
  PROVE  log_count' \in 1..MaxLogs
<1>1. MaxLogs \in Nat /\ MaxLogs >= 1
  BY SystemProcessAssumption
<1>2. CASE Logged
  <2>1. Min({log_count + 1, MaxLogs}) = IF log_count + 1 <= MaxLogs THEN log_count + 1 ELSE MaxLogs
    BY <1>1, MinOfTwo
  <2> QED BY <1>1, <1>2, <2>1 DEF Logged
<1> QED BY <1>2

LEMMA QuietTypes ==
  ASSUME ProcessTypeOK, Quiet
  PROVE  ProcessTypeOK' /\ Grown
<1>1. UNCHANGED <<processes, scheduler_cursor, memory>>
  BY DEF Quiet, processVars
<1>2. log_count' \in 1..MaxLogs /\ returned' \in {0, -1}
  BY LoggedTypes DEF ProcessTypeOK, Quiet
<1> QED BY <1>1, <1>2 DEF ProcessTypeOK, Grown, Known

LEMMA QuietCalls ==
  ASSUME \/ SecurityCheckCall \/ IpcCall \/ FileCall \/ PackageCall \/ DriverCall
         \/ SocketCall \/ WindowCall \/ ModeCall \/ LogCall \/ RejectArguments
         \/ UNCHANGED systemVars /\ returned \in {0, -1}
  PROVE  Quiet
<1>1. CASE SecurityCheckCall
  BY <1>1 DEF SecurityCheckCall, SecurityCheck, Quiet, Return, processVars
<1>2. CASE IpcCall
  BY <1>2 DEF IpcCall, IpcSend, IpcReceive, Quiet, Return, processVars
<1>3. CASE FileCall
  BY <1>3 DEF FileCall, BfsCreate, RecoveryPlan, BfsRead, Quiet, Return, processVars
<1>4. CASE PackageCall
  BY <1>4 DEF PackageCall, BappInstall, Quiet, Return, processVars
<1>5. CASE DriverCall
  BY <1>5 DEF DriverCall, DriverRegister, DriverPower, Quiet, Return, processVars
<1>6. CASE SocketCall
  BY <1>6 DEF SocketCall, SocketOpen, SocketSend, Quiet, Return, processVars
<1>7. CASE WindowCall
  BY <1>7 DEF WindowCall, WindowCreate, Quiet, Return, processVars
<1>8. CASE ModeCall
  BY <1>8 DEF ModeCall, BootPrepare, SetLowPower, UpdateApply, Quiet, Return, processVars
<1>9. CASE LogCall
  BY <1>9 DEF LogCall, Quiet, Return, processVars
<1>10. CASE RejectArguments
  BY <1>10 DEF RejectArguments, Quiet, Return, processPart, processVars
<1>11. CASE UNCHANGED systemVars /\ returned \in {0, -1}
  BY <1>11 DEF systemVars, Quiet, processPart, processVars
<1> QED
  BY <1>1, <1>2, <1>3, <1>4, <1>5, <1>6, <1>7, <1>8, <1>9, <1>10, <1>11

LEMMA SpawnTypes ==
  ASSUME ProcessTypeOK,
         NEW permissions \in SUBSET Permission, NEW limit \in Size,
         ProcessSpawn(permissions, limit)
  PROVE  ProcessTypeOK' /\ Grown
<1>1. CASE UNCHANGED <<processes, log_count>> /\ Return(-1)
  BY <1>1 DEF ProcessSpawn, ProcessTypeOK, Grown, Known, Return
<1>2. CASE /\ Len(processes) < MaxProcesses
           /\ processes' = Append(processes, NewProcess(permissions, limit))
           /\ Logged
           /\ Return(0)
  <2>1. NewProcess(permissions, limit) \in Process
    BY SystemProcessAssumption DEF NewProcess, Process, Size
  <2>2. /\ processes' \in Seq(Process) /\ Len(processes') = Len(processes) + 1
        /\ \A pid \in DOMAIN processes : processes'[pid] = processes[pid]
    BY <1>2, <2>1 DEF ProcessTypeOK
  <2>3. log_count' \in 1..MaxLogs
    BY <1>2, LoggedTypes DEF ProcessTypeOK
  <2>4. MaxProcesses \in Nat /\ Len(processes) \in Nat
    BY SystemProcessAssumption DEF ProcessTypeOK
  <2>5. UNCHANGED <<scheduler_cursor, memory>> /\ returned' = 0
    BY <1>2 DEF ProcessSpawn, Return
  <2>6. \A pid \in DOMAIN processes : pid \in DOMAIN processes'
    BY <2>2, <2>4 DEF ProcessTypeOK
  <2>7. scheduler_cursor' < Len(processes') \/ scheduler_cursor' = 0
    BY <2>2, <2>4, <2>5 DEF ProcessTypeOK
  <2> QED BY <1>2, <2>2, <2>3, <2>4, <2>5, <2>6, <2>7 DEF ProcessTypeOK, Grown, Known
<1> QED BY <1>1, <1>2 DEF ProcessSpawn

\* The slot that has the next turn.
LEMMA NextCursorInTable ==
  ASSUME ProcessTypeOK, processes # <<>>
  PROVE  /\ NextCursor \in 0..Len(processes) - 1
         /\ NextCursor = IF scheduler_cursor + 1 < Len(processes)
                           THEN scheduler_cursor + 1 ELSE 0
<1>1. Len(processes) \in Nat \ {0} /\ scheduler_cursor \in Nat
  BY SystemProcessAssumption DEF ProcessTypeOK
<1>2. scheduler_cursor + 1 < Len(processes) \/ scheduler_cursor + 1 = Len(processes)
  BY <1>1 DEF ProcessTypeOK
<1>3. CASE scheduler_cursor + 1 < Len(processes)
  BY <1>1, <1>3 DEF NextCursor
<1>4. CASE scheduler_cursor + 1 = Len(processes)
  <2>1. Len(processes) % Len(processes) = 0
    BY <1>1
  <2> QED BY <1>1, <1>4, <2>1 DEF NextCursor
<1> QED BY <1>2, <1>3, <1>4

LEMMA ScheduleTypes ==
  ASSUME ProcessTypeOK, ProcessSchedule
  PROVE  ProcessTypeOK' /\ Grown
<1>1. CASE Return(-1) /\ UNCHANGED processVars
  BY <1>1 DEF ProcessSchedule, ProcessTypeOK, Grown, Known, Return, processVars
<1>2. CASE /\ processes # <<>>
           /\ \A i \in DOMAIN processes : processes[i].ticks < MaxTicks
           /\ scheduler_cursor' = NextCursor
           /\ processes' =
                [i \in DOMAIN processes |->
                   IF i = NextCursor + 1
                     THEN [processes[i] EXCEPT !.state = "RUNNING", !.ticks = @ + 1]
                     ELSE [processes[i] EXCEPT !.state = "READY"]]
           /\ Return(0)
  <2>1. /\ NextCursor \in 0..Len(processes) - 1
        /\ Len(processes) \in Nat /\ DOMAIN processes = 1..Len(processes)
        /\ MaxTicks \in Nat /\ MaxProcesses \in Nat
        /\ \A i \in DOMAIN processes : processes[i] \in Process
    <3>1. processes # <<>>
      BY <1>2
    <3> QED BY <3>1, NextCursorInTable, SystemProcessAssumption DEF ProcessTypeOK
  <2>2. ASSUME NEW i \in DOMAIN processes
        PROVE  processes'[i] \in Process /\ processes'[i].permissions = processes[i].permissions
    <3>1. processes[i] \in Process /\ processes[i].ticks + 1 \in 0..MaxTicks
      <4>1. processes[i] \in Process /\ processes[i].ticks < MaxTicks
        BY <1>2, <2>1
      <4> QED BY <2>1, <4>1 DEF Process
    <3>2. [processes[i] EXCEPT !.state = "RUNNING", !.ticks = @ + 1] \in Process
      BY <3>1 DEF Process
    <3>3. [processes[i] EXCEPT !.state = "READY"] \in Process
      BY <3>1 DEF Process
    <3> QED BY <1>2, <3>1, <3>2, <3>3 DEF Process
  <2>3. processes' \in [1..Len(processes) -> Process]
    BY <1>2, <2>1, <2>2
  <2>4. processes' \in Seq(Process) /\ Len(processes') = Len(processes)
    BY <2>1, <2>3
  <2>5. UNCHANGED <<memory, log_count>> /\ returned' = 0
    BY <1>2 DEF ProcessSchedule, Return
  <2>6. DOMAIN processes' = DOMAIN processes
    BY <2>1, <2>3
  <2>7. Grown
    BY <2>2, <2>6 DEF Grown
  <2>8. scheduler_cursor' \in 0..MaxProcesses - 1 /\ scheduler_cursor' < Len(processes')
    <3>1. scheduler_cursor' = NextCursor /\ Len(processes) <= MaxProcesses
      BY <1>2 DEF ProcessTypeOK
    <3> QED BY <2>1, <2>4, <3>1
  <2> QED BY <2>4, <2>5, <2>6, <2>7, <2>8 DEF ProcessTypeOK, Known
<1> QED BY <1>1, <1>2 DEF ProcessSchedule

\* A change of what one process is charged.
LEMMA Charged ==
  ASSUME ProcessTypeOK, NEW pid \in DOMAIN processes, NEW used \in Size,
         processes' = [processes EXCEPT ![pid].memory_used = used]
  PROVE  /\ processes' \in Seq(Process) /\ Len(processes') = Len(processes)
         /\ DOMAIN processes' = DOMAIN processes
         /\ Grown
<1>1. processes[pid] \in Process
  BY DEF ProcessTypeOK
<1>2. [processes[pid] EXCEPT !.memory_used = used] \in Process
  BY <1>1 DEF Process
<1>3. processes' = [processes EXCEPT ![pid] = [processes[pid] EXCEPT !.memory_used = used]]
  OBVIOUS
<1>4. processes' \in Seq(Process) /\ Len(processes') = Len(processes)
  BY <1>2, <1>3 DEF ProcessTypeOK
<1>5. DOMAIN processes' = DOMAIN processes
  BY <1>3
<1>6. Grown
  BY <1>1, <1>3, <1>5 DEF Grown, ProcessTypeOK, Process
<1> QED BY <1>4, <1>5, <1>6

LEMMA AllocTypes ==
  ASSUME ProcessTypeOK, NEW pid, NEW bytes \in Size, MemoryAlloc(pid, bytes)
  PROVE  ProcessTypeOK' /\ Grown
<1>1. CASE Return(-1) /\ UNCHANGED <<processes, memory>>
  BY <1>1 DEF MemoryAlloc, ProcessTypeOK, Grown, Known, Return
<1>2. CASE /\ Grantable(pid, bytes)
           /\ memory' = Append(memory, NewBlock(pid, bytes))
           /\ processes' = [processes EXCEPT ![pid].memory_used = (@ + bytes) % SizeModulus]
           /\ Return(0)
  <2>1. pid \in DOMAIN processes /\ processes[pid].memory_used \in Size
    <3>1. pid \in DOMAIN processes
      BY <1>2 DEF Grantable, Known
    <3>2. processes[pid] \in Process
      BY <3>1 DEF ProcessTypeOK
    <3> QED BY <3>1, <3>2 DEF Process
  <2>2. (processes[pid].memory_used + bytes) % SizeModulus \in Size
    BY <2>1, SystemProcessAssumption DEF Size
  <2>3. processes' = [processes EXCEPT ![pid].memory_used =
                        (processes[pid].memory_used + bytes) % SizeModulus]
    BY <1>2
  <2>4. /\ processes' \in Seq(Process) /\ Len(processes') = Len(processes)
        /\ DOMAIN processes' = DOMAIN processes
        /\ Grown
    BY <2>1, <2>2, <2>3, Charged
  <2>5. pid \in Pids
    BY <2>1, SystemProcessAssumption DEF ProcessTypeOK, Pids
  <2>6. NewBlock(pid, bytes) \in MemoryBlock
    BY <1>2, <2>5 DEF NewBlock, MemoryBlock, Grantable
  <2>7. /\ memory' \in Seq(MemoryBlock) /\ Len(memory') <= MaxBlocks
        /\ \A b \in DOMAIN memory' : memory'[b].owner_pid \in DOMAIN processes
    <3>1. /\ memory \in Seq(MemoryBlock) /\ Len(memory) \in Nat /\ MaxBlocks \in Nat
          /\ Len(memory) < MaxBlocks
      BY <1>2, SystemProcessAssumption DEF ProcessTypeOK, Grantable
    <3>2. memory' \in Seq(MemoryBlock) /\ Len(memory') <= MaxBlocks
      BY <1>2, <2>6, <3>1
    <3>3. ASSUME NEW b \in DOMAIN memory' PROVE memory'[b].owner_pid \in DOMAIN processes
      <4>1. CASE b \in DOMAIN memory
        BY <1>2, <4>1, <3>1 DEF ProcessTypeOK, Known
      <4>2. CASE b = Len(memory) + 1
        BY <1>2, <2>1, <4>2, <3>1 DEF NewBlock
      <4> QED BY <1>2, <3>1, <4>1, <4>2
    <3> QED BY <3>2, <3>3
  <2>8. UNCHANGED <<scheduler_cursor, log_count>> /\ returned' = 0
    BY <1>2 DEF MemoryAlloc, Return
  <2> QED BY <2>4, <2>7, <2>8 DEF ProcessTypeOK, Known
<1> QED BY <1>1, <1>2 DEF MemoryAlloc

\* A change of one block that leaves its owner.
LEMMA BlockChanged ==
  ASSUME ProcessTypeOK, NEW b \in DOMAIN memory, NEW block \in MemoryBlock,
         block.owner_pid = memory[b].owner_pid,
         memory' = [memory EXCEPT ![b] = block]
  PROVE  /\ memory' \in Seq(MemoryBlock) /\ Len(memory') <= MaxBlocks
         /\ \A c \in DOMAIN memory' : Known(memory'[c].owner_pid)
BY SystemProcessAssumption DEF ProcessTypeOK

LEMMA FreeTypes ==
  ASSUME ProcessTypeOK, NEW block_id, MemoryFree(block_id)
  PROVE  ProcessTypeOK' /\ Grown
<1>1. CASE Return(-1) /\ UNCHANGED <<processes, memory>>
  BY <1>1 DEF MemoryFree, ProcessTypeOK, Grown, Known, Return
<1>2. CASE UsedBlock(block_id) /\ Return(0)
           /\ memory' = [memory EXCEPT ![block_id].used = FALSE]
           /\ processes' = [processes EXCEPT ![memory[block_id].owner_pid].memory_used =
                              IF @ >= memory[block_id].bytes THEN @ - memory[block_id].bytes
                                                             ELSE @]
  <2> DEFINE pid == memory[block_id].owner_pid
             bytes == memory[block_id].bytes
             used == IF processes[pid].memory_used >= bytes
                       THEN processes[pid].memory_used - bytes ELSE processes[pid].memory_used
  <2>1. block_id \in DOMAIN memory /\ memory[block_id] \in MemoryBlock
    BY <1>2 DEF UsedBlock, ProcessTypeOK
  <2>2. pid \in DOMAIN processes /\ processes[pid] \in Process /\ bytes \in Size
    BY <2>1 DEF ProcessTypeOK, Known, MemoryBlock
  <2>3. used \in Size
    BY <2>2, SystemProcessAssumption DEF Process, Size
  <2>4. processes' = [processes EXCEPT ![pid].memory_used = used]
    BY <1>2
  <2> HIDE DEF used
  <2>5. /\ processes' \in Seq(Process) /\ Len(processes') = Len(processes)
        /\ DOMAIN processes' = DOMAIN processes
        /\ Grown
    BY <2>2, <2>3, <2>4, Charged
  <2>6. [memory[block_id] EXCEPT !.used = FALSE] \in MemoryBlock
    BY <2>1 DEF MemoryBlock
  <2>7. /\ memory' \in Seq(MemoryBlock) /\ Len(memory') <= MaxBlocks
        /\ \A c \in DOMAIN memory' : Known(memory'[c].owner_pid)
    BY <1>2, <2>1, <2>6, BlockChanged DEF MemoryBlock
  <2>8. UNCHANGED <<scheduler_cursor, log_count>> /\ returned' = 0
    BY <1>2 DEF MemoryFree, Return
  <2> QED BY <2>5, <2>7, <2>8 DEF ProcessTypeOK, Known
<1> QED BY <1>1, <1>2 DEF MemoryFree

LEMMA MapTypes ==
  ASSUME ProcessTypeOK, NEW block_id, NEW given, NEW writable \in BOOLEAN,
         MemoryMap(block_id, given, writable)
  PROVE  ProcessTypeOK' /\ Grown
<1>1. UNCHANGED <<processes, scheduler_cursor, log_count>> /\ returned' \in {0, -1}
  BY DEF MemoryMap, Return, processVars
<1>2. CASE UNCHANGED memory
  BY <1>1, <1>2 DEF ProcessTypeOK, Grown, Known
<1>3. CASE UsedBlock(block_id)
           /\ memory' = [memory EXCEPT ![block_id].mapped = TRUE,
                                       ![block_id].writable = writable]
  <2> DEFINE block == [memory[block_id] EXCEPT !.mapped = TRUE, !.writable = writable]
  <2>1. block_id \in DOMAIN memory /\ memory[block_id] \in MemoryBlock
    BY <1>3 DEF UsedBlock, ProcessTypeOK
  <2>2. block \in MemoryBlock /\ block.owner_pid = memory[block_id].owner_pid
    BY <2>1 DEF MemoryBlock
  <2>3. memory' = [memory EXCEPT ![block_id] = block]
    BY <1>3, <2>1 DEF ProcessTypeOK
  <2> HIDE DEF block
  <2>4. /\ memory' \in Seq(MemoryBlock) /\ Len(memory') <= MaxBlocks
        /\ \A c \in DOMAIN memory' : Known(memory'[c].owner_pid)
    BY <2>1, <2>2, <2>3, BlockChanged
  <2> QED BY <1>1, <2>4 DEF ProcessTypeOK, Grown, Known
<1> QED BY <1>2, <1>3 DEF MemoryMap

LEMMA ProcessTypes ==
  ASSUME ProcessTypeOK, [SystemNext]_systemVars
  PROVE  ProcessTypeOK' /\ Grown
<1>1. CASE \E permissions \in PermissionSets, limit \in Limits : SpawnCall(permissions, limit)
  BY <1>1, SpawnTypes, SystemInputsAssumption DEF SpawnCall
<1>2. CASE ScheduleCall
  BY <1>2, ScheduleTypes DEF ScheduleCall
<1>3. CASE MemoryCall
  <2>1. CASE \E pid \in AnyPid, bytes \in BlockSizes : MemoryAlloc(pid, bytes)
    BY <2>1, AllocTypes, SystemInputsAssumption
  <2>2. CASE \E block_id \in 0..MaxBlocks : MemoryFree(block_id)
    BY <2>2, FreeTypes
  <2>3. CASE \E block_id \in 0..MaxBlocks, given \in BOOLEAN, writable \in BOOLEAN :
               MemoryMap(block_id, given, writable)
    BY <2>3, MapTypes
  <2> QED BY <1>3, <2>1, <2>2, <2>3 DEF MemoryCall
<1>4. CASE \/ SecurityCheckCall \/ IpcCall \/ FileCall \/ PackageCall \/ DriverCall
           \/ SocketCall \/ WindowCall \/ ModeCall \/ LogCall \/ RejectArguments
           \/ UNCHANGED systemVars
  <2>1. returned \in {0, -1}
    BY DEF ProcessTypeOK
  <2>2. Quiet
    BY <1>4, <2>1, QuietCalls
  <2> QED BY <2>2, QuietTypes
<1> QED BY <1>1, <1>2, <1>3, <1>4 DEF SystemNext

-----------------------------------------------------------------------------
(* Messages. *)

LEMMA SendTypes ==
  ASSUME IpcTypeOK, Grown, NEW from_pid, NEW to_pid \in AnyPid, IpcSend(from_pid, to_pid),
         ProcessTypeOK
  PROVE  IpcTypeOK'
<1>1. CASE UNCHANGED ipcVars
  BY <1>1 DEF IpcTypeOK, Grown, Known, ipcVars
<1>2. CASE /\ Sendable(from_pid, to_pid)
           /\ next_message <= MaxSequence
           /\ messages' = Append(messages, [to_pid |-> to_pid, sequence |-> next_message])
           /\ next_message' = next_message + 1
  <2> DEFINE message == [to_pid |-> to_pid, sequence |-> next_message]
  <2>1. to_pid \in DOMAIN processes /\ to_pid \in Pids
    BY <1>2, SystemProcessAssumption DEF Sendable, Known, Pids, ProcessTypeOK
  <2>2. message \in Message /\ next_message' \in 1..MaxSequence + 1
    BY <1>2, <2>1, SystemIpcAssumption DEF Message, IpcTypeOK
  <2>3. messages \in Seq(Message) /\ Len(messages) \in Nat /\ Len(messages) < MaxMessages
        /\ MaxMessages \in Nat /\ message.to_pid = to_pid
    BY <1>2, SystemIpcAssumption DEF IpcTypeOK, Sendable
  <2> HIDE DEF message
  <2>4. messages' = Append(messages, message)
    BY <1>2 DEF message
  <2>5. messages' \in Seq(Message) /\ Len(messages') <= MaxMessages
    BY <2>2, <2>3, <2>4
  <2>6. ASSUME NEW m \in DOMAIN messages' PROVE messages'[m].to_pid \in DOMAIN processes
    <3>1. m \in DOMAIN messages \/ messages'[m] = message
      BY <2>2, <2>3, <2>4
    <3>2. m \in DOMAIN messages => messages'[m] = messages[m]
      BY <2>2, <2>3, <2>4
    <3> QED BY <2>1, <2>3, <3>1, <3>2 DEF IpcTypeOK, Known
  <2> QED BY <2>2, <2>5, <2>6 DEF IpcTypeOK, Grown, Known
<1> QED BY <1>1, <1>2 DEF IpcSend

LEMMA ReceiveTypes ==
  ASSUME IpcTypeOK, Grown, NEW pid, IpcReceive(pid)
  PROVE  IpcTypeOK'
<1>1. CASE UNCHANGED messages
  BY <1>1 DEF IpcReceive, IpcTypeOK, Grown, Known
<1>2. CASE MessagesFor(pid) # {} /\ messages' = WithoutMessage(Min(MessagesFor(pid)))
  <2> DEFINE first == Min(MessagesFor(pid))
  <2>1. messages \in Seq(Message) /\ Len(messages) \in Nat
    BY DEF IpcTypeOK
  <2>2. first \in 1..Len(messages)
    <3>1. MessagesFor(pid) \subseteq 1..Len(messages)
      BY <2>1 DEF MessagesFor
    <3> QED BY <1>2, <3>1, MinOfNaturals
  <2> HIDE DEF first
  <2>3. /\ messages' \in Seq(Message) /\ Len(messages') = Len(messages) - 1
        /\ \A m \in 1..Len(messages) - 1 :
             messages'[m] = IF m < first THEN messages[m] ELSE messages[m + 1]
    BY <1>2, <2>1, <2>2, RemoveAtSeq DEF WithoutMessage, first
  <2>4. ASSUME NEW m \in DOMAIN messages' PROVE messages'[m].to_pid \in DOMAIN processes
    BY <2>1, <2>3 DEF IpcTypeOK, Known
  <2>5. UNCHANGED next_message /\ MaxMessages \in Nat
    BY SystemIpcAssumption DEF IpcReceive
  <2> QED BY <2>1, <2>3, <2>4, <2>5 DEF IpcTypeOK, Grown, Known
<1> QED BY <1>1, <1>2 DEF IpcReceive

LEMMA IpcTypes ==
  ASSUME SystemTypeOK, Grown, [SystemNext]_systemVars
  PROVE  IpcTypeOK'
<1>1. CASE IpcCall
  BY <1>1, SendTypes, ReceiveTypes DEF IpcCall, SystemTypeOK
<1>2. CASE UNCHANGED ipcVars
  BY <1>2 DEF SystemTypeOK, IpcTypeOK, Grown, Known, ipcVars
<1>3. ~IpcCall => UNCHANGED ipcVars
  BY DEF SystemNext, SpawnCall, ScheduleCall, SecurityCheckCall, MemoryCall, FileCall,
         BfsCreate, RecoveryPlan, BfsRead, PackageCall, DriverCall, SocketCall, WindowCall,
         ModeCall, LogCall, RejectArguments, systemVars
<1> QED BY <1>1, <1>2, <1>3

-----------------------------------------------------------------------------
(* Files.  Nothing removes or changes a file: the table only grows at its end. *)

LEMMA CreateTypes ==
  ASSUME FilesTypeOK, Grown, ProcessTypeOK,
         NEW path \in Path, NEW pid, NEW checksum \in Checksummed,
         BfsCreate(path, pid, checksum)
  PROVE  FilesTypeOK' /\ \A f \in DOMAIN files : f \in DOMAIN files' /\ files'[f] = files[f]
<1>1. CASE UNCHANGED files
  BY <1>1 DEF FilesTypeOK, Grown, Known
<1>2. CASE /\ Creatable(path, pid)
           /\ files' = Append(files, [path |-> Kept(path), owner_pid |-> pid,
                                      checksum |-> checksum])
  <2> DEFINE file == [path |-> Kept(path), owner_pid |-> pid, checksum |-> checksum]
  <2>1. pid \in DOMAIN processes /\ pid \in Pids
    BY <1>2, SystemProcessAssumption DEF Creatable, Known, Pids, ProcessTypeOK
  <2>2. file \in File /\ file.owner_pid = pid
    BY <2>1 DEF File
  <2>3. files \in Seq(File) /\ Len(files) \in Nat /\ Len(files) < MaxFiles /\ MaxFiles \in Nat
    BY <1>2, SystemFilesAssumption DEF FilesTypeOK, Creatable
  <2> HIDE DEF file
  <2>4. files' = Append(files, file)
    BY <1>2 DEF file
  <2>5. /\ files' \in Seq(File) /\ Len(files') <= MaxFiles
        /\ \A f \in DOMAIN files : f \in DOMAIN files' /\ files'[f] = files[f]
        /\ \A f \in DOMAIN files' : f \in DOMAIN files \/ files'[f] = file
    BY <2>2, <2>3, <2>4
  <2> QED BY <2>1, <2>2, <2>5 DEF FilesTypeOK, Grown, Known
<1> QED BY <1>1, <1>2 DEF BfsCreate

LEMMA FilesTypes ==
  ASSUME SystemTypeOK, Grown, [SystemNext]_systemVars
  PROVE  FilesTypeOK' /\ \A f \in DOMAIN files : f \in DOMAIN files' /\ files'[f] = files[f]
<1> USE DEF SystemTypeOK
<1>1. CASE \E path \in Path, pid \in AnyPid, checksum \in Checksummed :
             BfsCreate(path, pid, checksum)
  BY <1>1, CreateTypes
<1>2. CASE \E reason \in Contents : RecoveryPlan(reason)
  <2>1. [head |-> PlanHead, rest |-> 0] \in Path
    BY SystemFilesAssumption DEF Path, Text
  <2>2. \A reason \in Contents : [of |-> "contents", text |-> reason] \in Checksummed
    BY DEF Checksummed
  <2> QED BY <1>2, <2>1, <2>2, CreateTypes DEF RecoveryPlan
<1>3. CASE UNCHANGED files
  BY <1>3 DEF FilesTypeOK, Grown, Known
<1>4. CASE FileCall
  BY <1>1, <1>2, <1>3, <1>4 DEF FileCall, BfsRead
<1>5. ~FileCall => UNCHANGED files
  BY DEF SystemNext, SpawnCall, ScheduleCall, SecurityCheckCall, MemoryCall, IpcCall,
         PackageCall, DriverCall, SocketCall, WindowCall, ModeCall, LogCall,
         RejectArguments, systemVars
<1> QED BY <1>3, <1>4, <1>5

-----------------------------------------------------------------------------
(* Packages, drivers, sockets, windows and modes. *)

LEMMA ManifestTypes ==
  ASSUME NEW manifest \in Manifests, Complete(manifest)
  PROVE  ManifestValue(manifest, "id") \in STRING /\ Grants(manifest) \subseteq Permission
<1>1. /\ DOMAIN manifest \subseteq Nat
      /\ \A l \in DOMAIN manifest : manifest[l] \in [key : STRING, value : STRING]
  <2> DEFINE Line == [key : STRING, value : STRING]
  <2>1. manifest \in Seq(Line)
    BY SystemInputsAssumption
  <2> HIDE DEF Line
  <2>2. DOMAIN manifest \subseteq Nat /\ \A l \in DOMAIN manifest : manifest[l] \in Line
    BY <2>1
  <2> QED BY <2>2 DEF Line
<1>2. ManifestValue(manifest, "id") \in STRING
  <2> DEFINE lines == LinesOf(manifest, "id")
  <2>1. lines # {}
    BY DEF Complete, ManifestValue
  <2>2. Min(lines) \in DOMAIN manifest
    <3>1. lines \subseteq DOMAIN manifest /\ lines \subseteq Nat
      BY <1>1 DEF LinesOf
    <3> QED BY <2>1, <3>1, MinOfNaturals
  <2>3. ManifestValue(manifest, "id") = manifest[Min(lines)].value
    BY <2>1 DEF ManifestValue
  <2> HIDE DEF lines
  <2> QED BY <1>1, <2>2, <2>3
<1>3. ASSUME NEW l \in LinesOf(manifest, "permission")
      PROVE  [net |-> {"NET"}, network |-> {"NET"}, camera |-> {"CAMERA"}, none |-> {}]
               [manifest[l].value] \subseteq Permission
  BY SystemInputsAssumption DEF Permission
<1> QED BY <1>2, <1>3 DEF Grants

LEMMA PackagesTypes ==
  ASSUME ResourcesTypeOK, [SystemNext]_systemVars
  PROVE  /\ packages' \in Seq([id : STRING, permissions : SUBSET Permission])
         /\ Len(packages') <= MaxPackages
<1>1. CASE UNCHANGED packages
  BY <1>1 DEF ResourcesTypeOK
<1>2. CASE PackageCall
  <2>1. PICK manifest \in Manifests : BappInstall(manifest)
    BY <1>2 DEF PackageCall
  <2>2. CASE /\ Len(packages) < MaxPackages /\ Complete(manifest)
             /\ packages' = Append(packages, [id |-> ManifestValue(manifest, "id"),
                                              permissions |-> Grants(manifest)])
    <3>1. [id |-> ManifestValue(manifest, "id"), permissions |-> Grants(manifest)]
            \in [id : STRING, permissions : SUBSET Permission]
      BY <2>2, ManifestTypes
    <3>2. /\ packages \in Seq([id : STRING, permissions : SUBSET Permission])
          /\ MaxPackages \in Nat
      BY SystemResourcesAssumption DEF ResourcesTypeOK
    <3> QED BY <2>2, <3>1, <3>2, Appended
  <2> QED BY <1>1, <2>1, <2>2 DEF BappInstall
<1>3. ~PackageCall => UNCHANGED packages
  BY DEF SystemNext, SpawnCall, ScheduleCall, SecurityCheckCall, MemoryCall, IpcCall,
         FileCall, DriverCall, DriverRegister, DriverPower, SocketCall, SocketOpen,
         SocketSend, WindowCall, WindowCreate, ModeCall, BootPrepare, SetLowPower,
         UpdateApply, LogCall, RejectArguments, systemVars, resourcePart, tableVars
<1> QED BY <1>1, <1>2, <1>3

LEMMA DriversTypes ==
  ASSUME ResourcesTypeOK, [SystemNext]_systemVars
  PROVE  drivers' \in Seq(Driver) /\ Len(drivers') <= MaxDrivers
<1>0. drivers \in Seq(Driver) /\ MaxDrivers \in Nat
  BY SystemResourcesAssumption DEF ResourcesTypeOK
<1>1. CASE UNCHANGED drivers
  BY <1>1 DEF ResourcesTypeOK
<1>2. CASE \E class \in {"AUDIO", "invalid"}, name \in DriverName, unit \in Units :
             DriverRegister(class, name, unit)
  <2>1. PICK class \in {"AUDIO", "invalid"}, name \in DriverName, unit \in Units :
          DriverRegister(class, name, unit)
    BY <1>2
  <2> DEFINE driver == [name |-> Kept(name), unit |-> unit, powered |-> TRUE]
  <2>2. driver \in Driver
    BY DEF Driver
  <2> HIDE DEF driver
  <2>3. CASE Len(drivers) < MaxDrivers /\ drivers' = Append(drivers, driver)
    BY <1>0, <2>2, <2>3, Appended
  <2> QED BY <1>1, <2>1, <2>3 DEF DriverRegister, driver
<1>3. CASE \E name \in DriverName, powered \in BOOLEAN : DriverPower(name, powered)
  <2>1. PICK name \in DriverName, powered \in BOOLEAN : DriverPower(name, powered)
    BY <1>3
  <2>2. CASE /\ DriversNamed(name) # {}
             /\ drivers' = [drivers EXCEPT ![Switched(name)].powered = powered]
    <3>1. Switched(name) \in DOMAIN drivers
      <4>1. DriversNamed(name) \subseteq Nat /\ DriversNamed(name) \subseteq DOMAIN drivers
        BY <1>0 DEF DriversNamed
      <4> QED BY <2>2, <4>1, MinOfNaturals DEF Switched
    <3>2. drivers[Switched(name)] \in Driver
      BY <1>0, <3>1
    <3>3. [drivers[Switched(name)] EXCEPT !.powered = powered] \in Driver
      BY <3>2 DEF Driver
    <3>4. drivers' = [drivers EXCEPT ![Switched(name)] =
                        [drivers[Switched(name)] EXCEPT !.powered = powered]]
      BY <2>2
    <3>5. Len(drivers) <= MaxDrivers
      BY DEF ResourcesTypeOK
    <3> QED BY <1>0, <3>1, <3>3, <3>4, <3>5
  <2> QED BY <1>1, <2>1, <2>2 DEF DriverPower
<1>4. DriverCall => \/ \E class \in {"AUDIO", "invalid"}, name \in DriverName, unit \in Units :
                         DriverRegister(class, name, unit)
                    \/ \E name \in DriverName, powered \in BOOLEAN : DriverPower(name, powered)
  BY DEF DriverCall
<1>5. ~DriverCall => UNCHANGED drivers
  BY DEF SystemNext, SpawnCall, ScheduleCall, SecurityCheckCall, MemoryCall, IpcCall,
         FileCall, PackageCall, BappInstall, SocketCall, SocketOpen,
         SocketSend, WindowCall, WindowCreate, ModeCall, BootPrepare, SetLowPower,
         UpdateApply, LogCall, RejectArguments, systemVars, resourcePart, tableVars
<1> QED BY <1>1, <1>2, <1>3, <1>4, <1>5

\* A socket's owner still has the permission to have it.
LEMMA SocketsTypes ==
  ASSUME ResourcesTypeOK, ProcessTypeOK, Grown, [SystemNext]_systemVars
  PROVE  /\ sockets' \in Seq(Socket) /\ Len(sockets') <= MaxSockets
         /\ \A s \in DOMAIN sockets' : Permitted(sockets[s].owner_pid, {"NET"})'
<1>0. sockets \in Seq(Socket) /\ Len(sockets) <= MaxSockets /\ MaxSockets \in Nat
  BY SystemResourcesAssumption DEF ResourcesTypeOK
<1>1. \A pid : Permitted(pid, {"NET"}) =>
        pid \in DOMAIN processes' /\ {"NET"} \subseteq processes'[pid].permissions
  BY DEF Permitted, Grown, Known
<1>2. SUFFICES /\ sockets' \in Seq(Socket) /\ Len(sockets') <= MaxSockets
               /\ \A s \in DOMAIN sockets' : Permitted(sockets'[s].owner_pid, {"NET"})
  BY <1>1 DEF Permitted, Known
<1>3. CASE UNCHANGED sockets
  BY <1>3 DEF ResourcesTypeOK
<1>4. CASE \E pid \in AnyPid : SocketOpen(pid)
  <2>1. PICK pid \in AnyPid : SocketOpen(pid)
    BY <1>4
  <2> DEFINE socket == [owner_pid |-> pid, tx_packets |-> 0, rx_packets |-> 0]
  <2>2. CASE /\ Len(sockets) < MaxSockets /\ Permitted(pid, {"NET"})
             /\ sockets' = Append(sockets, socket)
    <3>1. pid \in Pids
      BY <2>2, SystemProcessAssumption DEF Permitted, Known, Pids, ProcessTypeOK
    <3>2. socket \in Socket /\ socket.owner_pid = pid
      BY <3>1, SystemResourcesAssumption DEF Socket, Count
    <3> HIDE DEF socket
    <3>3. /\ sockets' \in Seq(Socket) /\ Len(sockets') <= MaxSockets
          /\ \A s \in DOMAIN sockets : sockets'[s] = sockets[s]
          /\ \A s \in DOMAIN sockets' : s \in DOMAIN sockets \/ sockets'[s] = socket
      BY <1>0, <2>2, <3>2, Appended
    <3> QED BY <2>2, <3>2, <3>3 DEF ResourcesTypeOK
  <2> QED BY <1>3, <2>1, <2>2 DEF SocketOpen
<1>5. CASE \E socket_id \in 0..MaxSockets, ping \in BOOLEAN : SocketSend(socket_id, ping)
  <2>1. PICK socket_id \in 0..MaxSockets, ping \in BOOLEAN : SocketSend(socket_id, ping)
    BY <1>5
  <2>2. CASE /\ socket_id \in DOMAIN sockets
             /\ sockets' =
                  [sockets EXCEPT
                     ![socket_id].tx_packets = (@ + 1) % CountModulus,
                     ![socket_id].rx_packets = (@ + IF ping THEN 1 ELSE 0) % CountModulus]
    <3> DEFINE tx == (sockets[socket_id].tx_packets + 1) % CountModulus
               rx == (sockets[socket_id].rx_packets + IF ping THEN 1 ELSE 0) % CountModulus
               socket == [sockets[socket_id] EXCEPT !.tx_packets = tx, !.rx_packets = rx]
    <3>1. socket_id \in DOMAIN sockets /\ sockets[socket_id] \in Socket
      BY <1>0, <2>2
    <3>2. tx \in Count /\ rx \in Count
      BY <3>1, SystemResourcesAssumption DEF Socket, Count
    <3>3. sockets' = [sockets EXCEPT ![socket_id] = socket]
      BY <1>0, <2>2, <3>1 DEF Socket
    <3> HIDE DEF tx, rx
    <3>4. socket \in Socket /\ socket.owner_pid = sockets[socket_id].owner_pid
      BY <3>1, <3>2 DEF Socket
    <3> HIDE DEF socket
    <3>5. /\ sockets' \in Seq(Socket) /\ Len(sockets') = Len(sockets)
          /\ DOMAIN sockets' = DOMAIN sockets
          /\ \A s \in DOMAIN sockets : sockets'[s].owner_pid = sockets[s].owner_pid
      BY <1>0, <3>1, <3>3, <3>4
    <3> QED BY <1>0, <3>5 DEF ResourcesTypeOK
  <2> QED BY <1>3, <2>1, <2>2 DEF SocketSend
<1>6. SocketCall => \/ \E pid \in AnyPid : SocketOpen(pid)
                    \/ \E socket_id \in 0..MaxSockets, ping \in BOOLEAN : SocketSend(socket_id, ping)
  BY DEF SocketCall
<1>7. ~SocketCall => UNCHANGED sockets
  BY DEF SystemNext, SpawnCall, ScheduleCall, SecurityCheckCall, MemoryCall, IpcCall,
         FileCall, PackageCall, BappInstall, DriverCall, DriverRegister, DriverPower,
         WindowCall, WindowCreate, ModeCall, BootPrepare, SetLowPower,
         UpdateApply, LogCall, RejectArguments, systemVars, resourcePart, tableVars
<1> QED BY <1>3, <1>4, <1>5, <1>6, <1>7

LEMMA WindowsTypes ==
  ASSUME ResourcesTypeOK, ProcessTypeOK, Grown, [SystemNext]_systemVars
  PROVE  /\ windows' \in Seq(Window) /\ Len(windows') <= MaxWindows
         /\ \A w \in DOMAIN windows' : Known(windows[w].owner_pid)'
<1>0. windows \in Seq(Window) /\ MaxWindows \in Nat
  BY SystemResourcesAssumption DEF ResourcesTypeOK
<1>1. SUFFICES /\ windows' \in Seq(Window) /\ Len(windows') <= MaxWindows
               /\ \A w \in DOMAIN windows' : windows'[w].owner_pid \in DOMAIN processes
  BY DEF Grown, Known
<1>2. CASE UNCHANGED windows
  BY <1>2 DEF ResourcesTypeOK, Known
<1>3. CASE WindowCall
  <2>1. PICK pid \in AnyPid, sized \in BOOLEAN : WindowCreate(pid, sized)
    BY <1>3 DEF WindowCall
  <2> DEFINE window == [owner_pid |-> pid]
  <2>2. CASE Len(windows) < MaxWindows /\ Known(pid) /\ windows' = Append(windows, window)
    <3>1. pid \in DOMAIN processes /\ pid \in Pids
      BY <2>2, SystemProcessAssumption DEF Known, Pids, ProcessTypeOK
    <3>2. window \in Window /\ window.owner_pid = pid
      BY <3>1 DEF Window
    <3> HIDE DEF window
    <3>3. /\ windows' \in Seq(Window) /\ Len(windows') <= MaxWindows
          /\ \A w \in DOMAIN windows : windows'[w] = windows[w]
          /\ \A w \in DOMAIN windows' : w \in DOMAIN windows \/ windows'[w] = window
      BY <1>0, <2>2, <3>2, Appended
    <3> QED BY <3>1, <3>2, <3>3 DEF ResourcesTypeOK, Known
  <2> QED BY <1>2, <2>1, <2>2 DEF WindowCreate
<1>4. ~WindowCall => UNCHANGED windows
  BY DEF SystemNext, SpawnCall, ScheduleCall, SecurityCheckCall, MemoryCall, IpcCall,
         FileCall, PackageCall, BappInstall, DriverCall, DriverRegister, DriverPower,
         SocketCall, SocketOpen, SocketSend, ModeCall, BootPrepare, SetLowPower,
         UpdateApply, LogCall, RejectArguments, systemVars, resourcePart, tableVars
<1> QED BY <1>2, <1>3, <1>4

LEMMA ModesTypes ==
  ASSUME ResourcesTypeOK, [SystemNext]_systemVars
  PROVE  boot' \in BOOLEAN /\ low_power_mode' \in BOOLEAN /\ update_generation' \in Count
<1>1. CASE UNCHANGED modeVars
  BY <1>1 DEF ResourcesTypeOK, modeVars
<1>2. CASE ModeCall
  <2>1. (update_generation + 1) % CountModulus \in Count
    BY SystemResourcesAssumption DEF ResourcesTypeOK, Count
  <2> QED
    BY <1>2, <2>1 DEF ModeCall, BootPrepare, SetLowPower, UpdateApply, ResourcesTypeOK
<1>3. ~ModeCall => UNCHANGED modeVars
  BY DEF SystemNext, SpawnCall, ScheduleCall, SecurityCheckCall, MemoryCall, IpcCall,
         FileCall, PackageCall, BappInstall, DriverCall, DriverRegister, DriverPower,
         SocketCall, SocketOpen, SocketSend, WindowCall, WindowCreate, LogCall,
         RejectArguments, systemVars, resourcePart
<1> QED BY <1>1, <1>2, <1>3

LEMMA SystemTypesStep ==
  ASSUME SystemTypeOK, [SystemNext]_systemVars
  PROVE  SystemTypeOK' /\ Grown
<1>1. ProcessTypeOK' /\ Grown
  BY ProcessTypes DEF SystemTypeOK
<1>2. IpcTypeOK' /\ FilesTypeOK'
  BY <1>1, IpcTypes, FilesTypes
<1>3. ResourcesTypeOK'
  BY <1>1, PackagesTypes, DriversTypes, SocketsTypes, WindowsTypes, ModesTypes
  DEF SystemTypeOK, ResourcesTypeOK
<1> QED BY <1>1, <1>2, <1>3 DEF SystemTypeOK

LEMMA SystemTypesInit ==
  ASSUME SystemInit
  PROVE  SystemTypeOK
<1>1. ProcessTypeOK
  BY SystemProcessAssumption DEF SystemInit, ProcessInit, ProcessTypeOK
<1>2. IpcTypeOK
  BY SystemIpcAssumption DEF SystemInit, IpcInit, IpcTypeOK
<1>3. FilesTypeOK
  BY SystemFilesAssumption DEF SystemInit, FilesInit, FilesTypeOK
<1>4. ResourcesTypeOK
  <2>1. 0 \in Count /\ {MaxPackages, MaxDrivers, MaxSockets, MaxWindows} \subseteq Nat
    BY SystemResourcesAssumption DEF Count
  <2>2. /\ packages = <<>> /\ drivers = <<>> /\ sockets = <<>> /\ windows = <<>>
        /\ boot = FALSE /\ low_power_mode = FALSE /\ update_generation = 0
    BY DEF SystemInit, ResourcesInit
  <2>3. /\ packages \in Seq([id : STRING, permissions : SUBSET Permission])
        /\ Len(packages) <= MaxPackages
    BY <2>1, <2>2
  <2>4. /\ drivers \in Seq(Driver) /\ Len(drivers) <= MaxDrivers
        /\ sockets \in Seq(Socket) /\ Len(sockets) <= MaxSockets
        /\ windows \in Seq(Window) /\ Len(windows) <= MaxWindows
    BY <2>1, <2>2
  <2>5. DOMAIN sockets = {} /\ DOMAIN windows = {}
    BY <2>2
  <2> QED BY <2>1, <2>2, <2>3, <2>4, <2>5 DEF ResourcesTypeOK
<1> QED BY <1>1, <1>2, <1>3, <1>4 DEF SystemTypeOK

(***************************************************************************)
(* The tables of bolun_system.c keep within their capacities, and every     *)
(* process that a block, a message, a file, a socket or a window names is   *)
(* there, whatever is called in whichever order.                            *)
(***************************************************************************)
THEOREM SystemTypeCorrect == SystemSpec => []SystemTypeOK
<1>1. SystemInit => SystemTypeOK
  BY SystemTypesInit
<1>2. SystemTypeOK /\ [SystemNext]_systemVars => SystemTypeOK'
  BY SystemTypesStep
<1> QED BY <1>1, <1>2, PTL DEF SystemSpec

-----------------------------------------------------------------------------
(* The scheduler.  While the cursor stands between an older and a younger     *)
(* process, the older one is level with the younger one or a turn ahead;      *)
(* otherwise it is level with it or a turn behind.                            *)

Ahead(i, j) == TurnsSince(i, j) - processes[j].ticks

TurnsInv ==
  /\ before \in Seq(Seq(Nat)) /\ Len(before) = Len(processes)
  /\ \A i, j \in DOMAIN processes :
       i < j => /\ before[j][i] \in Nat
                /\ Ahead(i, j) \in IF i <= scheduler_cursor + 1 /\ scheduler_cursor + 1 < j
                                     THEN 0..1 ELSE -1..0
  /\ \A i \in DOMAIN processes :
       processes[i].state = "RUNNING" => i = scheduler_cursor + 1

LEMMA TicksTypes ==
  ASSUME ProcessTypeOK
  PROVE  /\ scheduler_cursor \in Nat
         /\ Len(processes) \in Nat /\ DOMAIN processes = 1..Len(processes)
         /\ \A i \in DOMAIN processes : processes[i] \in Process /\ processes[i].ticks \in Nat
<1>1. \A i \in DOMAIN processes : processes[i] \in Process
  BY DEF ProcessTypeOK
<1>2. \A i \in DOMAIN processes : processes[i].ticks \in Nat
  BY <1>1, SystemProcessAssumption DEF Process
<1> QED BY <1>1, <1>2 DEF ProcessTypeOK

\* The calls that are no turn and start no process.
LEMMA SameTurns ==
  ASSUME TurnsInv, UNCHANGED scheduler_cursor, RecordSpawns,
         DOMAIN processes' = DOMAIN processes, ProcessTypeOK, processes' \in Seq(Process),
         \A i \in DOMAIN processes : /\ processes'[i].ticks = processes[i].ticks
                                     /\ processes'[i].state = processes[i].state
  PROVE  TurnsInv'
<1>1. Len(processes') = Len(processes)
  BY TicksTypes
<1>2. Len(processes) \in Nat /\ UNCHANGED before
  BY <1>1, TicksTypes DEF RecordSpawns
<1> QED BY <1>1, <1>2 DEF TurnsInv, Ahead, TurnsSince

LEMMA SpawnTurns ==
  ASSUME ProcessTypeOK, TurnsInv, NEW permissions, NEW limit,
         ProcessSpawn(permissions, limit), RecordSpawns
  PROVE  TurnsInv'
<1>1. CASE UNCHANGED processes
  BY <1>1, SameTurns DEF ProcessSpawn, ProcessTypeOK
<1>2. CASE processes' = Append(processes, NewProcess(permissions, limit))
  <2> DEFINE new == NewProcess(permissions, limit)
             seen == [i \in DOMAIN processes |-> processes[i].ticks]
             n == Len(processes)
  <2>1. new.ticks = 0 /\ new.state = "READY"
    BY DEF NewProcess
  <2> HIDE DEF new
  <2>2. /\ DOMAIN processes' = 1..n + 1 /\ Len(processes') = n + 1 /\ processes'[n + 1] = new
        /\ \A i \in 1..n : processes'[i] = processes[i]
        /\ n \in Nat /\ DOMAIN processes = 1..n
        /\ UNCHANGED scheduler_cursor /\ scheduler_cursor \in Nat
    BY <1>2 DEF ProcessTypeOK, ProcessSpawn, new
  <2>3. \A i \in 1..n : processes[i].ticks \in Nat
    BY <2>2, TicksTypes
  <2>4. before' = Append(before, seen)
    BY <2>2 DEF RecordSpawns
  <2>5. seen \in Seq(Nat) /\ \A i \in 1..n : seen[i] = processes[i].ticks
    BY <2>2, <2>3
  <2> HIDE DEF n, seen
  <2>6. /\ before' \in Seq(Seq(Nat)) /\ Len(before') = n + 1
        /\ before'[n + 1] = seen /\ \A j \in 1..n : before'[j] = before[j]
    <3>1. before \in Seq(Seq(Nat)) /\ Len(before) = n
      BY DEF TurnsInv, n
    <3> QED BY <2>2, <2>4, <2>5, <3>1
  <2>7. \A i \in DOMAIN processes' : processes'[i].state = "RUNNING" => i = scheduler_cursor' + 1
    BY <2>1, <2>2 DEF TurnsInv
  <2>8. ASSUME NEW i \in DOMAIN processes', NEW j \in DOMAIN processes', i < j
        PROVE  /\ before'[j][i] \in Nat
               /\ Ahead(i, j)' \in IF i <= scheduler_cursor' + 1 /\ scheduler_cursor' + 1 < j
                                     THEN 0..1 ELSE -1..0
    <3>1. i \in 1..n /\ processes'[i].ticks = processes[i].ticks
      BY <2>2, <2>8
    <3>2. CASE j = n + 1
      <4>1. processes'[j].ticks = 0 /\ before'[j][i] = processes[i].ticks
        BY <2>1, <2>2, <2>5, <2>6, <3>1, <3>2
      <4>2. Ahead(i, j)' = 0
        BY <2>3, <3>1, <4>1 DEF Ahead, TurnsSince
      <4> QED BY <2>3, <3>1, <4>1, <4>2
    <3>3. CASE j \in 1..n
      <4>1. processes'[j].ticks = processes[j].ticks /\ before'[j][i] = before[j][i]
        BY <2>2, <2>6, <3>3
      <4>2. Ahead(i, j)' = Ahead(i, j)
        BY <3>1, <4>1 DEF Ahead, TurnsSince
      <4>3. /\ before[j][i] \in Nat
            /\ Ahead(i, j) \in IF i <= scheduler_cursor + 1 /\ scheduler_cursor + 1 < j
                                 THEN 0..1 ELSE -1..0
        BY <2>2, <2>8, <3>1, <3>3 DEF TurnsInv
      <4> QED BY <2>2, <4>1, <4>2, <4>3
    <3> QED BY <2>2, <3>2, <3>3
  <2>9. Len(before') = Len(processes')
    BY <2>2, <2>6
  <2> QED BY <2>6, <2>7, <2>8, <2>9 DEF TurnsInv
<1> QED BY <1>1, <1>2 DEF ProcessSpawn

\* One turn, seen by the two processes i < j of a table of n slots: the cursor
\* goes from slot c to slot d.
LEMMA TurnOfTwo ==
  ASSUME NEW n \in Nat, NEW c \in 1..n, NEW d \in 1..n, d = IF c < n THEN c + 1 ELSE 1,
         NEW i \in 1..n, NEW j \in 1..n, i < j, NEW ahead \in Int,
         ahead \in IF i <= c /\ c < j THEN 0..1 ELSE -1..0
  PROVE  ahead + (IF i = d THEN 1 ELSE 0) - (IF j = d THEN 1 ELSE 0)
           \in IF i <= d /\ d < j THEN 0..1 ELSE -1..0
<1>1. CASE c < n
  BY <1>1
<1>2. CASE c = n
  BY <1>2
<1> QED BY <1>1, <1>2

LEMMA ScheduleTurns ==
  ASSUME ProcessTypeOK, TurnsInv, ProcessSchedule, RecordSpawns
  PROVE  TurnsInv'
<1>0. processes' \in Seq(Process)
  BY ScheduleTypes DEF ProcessTypeOK
<1>1. CASE UNCHANGED processVars
  BY <1>1, SameTurns DEF processVars, ProcessTypeOK
<1>2. CASE /\ processes # <<>>
           /\ scheduler_cursor' = NextCursor
           /\ processes' =
                [i \in DOMAIN processes |->
                   IF i = NextCursor + 1
                     THEN [processes[i] EXCEPT !.state = "RUNNING", !.ticks = @ + 1]
                     ELSE [processes[i] EXCEPT !.state = "READY"]]
  <2> DEFINE n == Len(processes)
             c == scheduler_cursor + 1
             d == NextCursor + 1
  <2>1. /\ n \in Nat /\ DOMAIN processes = 1..n /\ scheduler_cursor \in Nat
        /\ \A i \in 1..n : processes[i] \in Process /\ processes[i].ticks \in Nat
    BY TicksTypes
  <2>2. /\ NextCursor \in 0..n - 1
        /\ NextCursor = IF scheduler_cursor + 1 < n THEN scheduler_cursor + 1 ELSE 0
    BY <1>2, NextCursorInTable
  <2>3. scheduler_cursor < n
    BY <2>1, <2>2 DEF ProcessTypeOK
  <2>4. c \in 1..n /\ d \in 1..n /\ d = IF c < n THEN c + 1 ELSE 1
    BY <2>1, <2>2, <2>3
  <2>5. DOMAIN processes' = 1..n /\ scheduler_cursor' + 1 = d /\ Len(processes') = n
    <3>1. scheduler_cursor' + 1 = d
      BY <1>2
    <3>2. DOMAIN processes' = DOMAIN processes
      BY <1>2
    <3>3. DOMAIN processes' = 1..n
      BY <2>1, <3>2
    <3>4. Len(processes') = n
      BY <1>0, <2>1, <3>3
    <3> QED BY <3>1, <3>3, <3>4
  <2>6. UNCHANGED before
    BY <2>1, <2>5 DEF RecordSpawns
  <2>7. ASSUME NEW i \in 1..n
        PROVE  /\ processes'[i].ticks = processes[i].ticks + IF i = d THEN 1 ELSE 0
               /\ processes'[i].state = "RUNNING" => i = d
    <3>1. processes[i] \in Process /\ processes[i].ticks \in Nat
      BY <2>1
    <3>2. CASE i = d
      <4>1. processes'[i] = [processes[i] EXCEPT !.state = "RUNNING",
                                                 !.ticks = processes[i].ticks + 1]
        BY <1>2, <2>1, <3>2
      <4> QED BY <3>1, <3>2, <4>1 DEF Process
    <3>3. CASE i # d
      <4>1. processes'[i] = [processes[i] EXCEPT !.state = "READY"]
        BY <1>2, <2>1, <3>3
      <4> QED BY <3>1, <3>3, <4>1 DEF Process
    <3> QED BY <3>2, <3>3
  <2> HIDE DEF n, d
  <2>8. ASSUME NEW i \in 1..n, NEW j \in 1..n, i < j
        PROVE  /\ before'[j][i] \in Nat
               /\ Ahead(i, j)' \in IF i <= d /\ d < j THEN 0..1 ELSE -1..0
    <3>1. /\ before[j][i] \in Nat
          /\ Ahead(i, j) \in IF i <= c /\ c < j THEN 0..1 ELSE -1..0
      BY <2>1, <2>8 DEF TurnsInv
    <3>2. Ahead(i, j) \in Int
      BY <2>1, <3>1 DEF Ahead, TurnsSince
    <3>3. Ahead(i, j)' = Ahead(i, j) + (IF i = d THEN 1 ELSE 0) - (IF j = d THEN 1 ELSE 0)
      BY <2>1, <2>6, <2>7, <3>1 DEF Ahead, TurnsSince
    <3> HIDE DEF c
    <3>4. PICK ahead \in Int : ahead = Ahead(i, j)
      BY <3>2
    <3>5. ahead \in IF i <= c /\ c < j THEN 0..1 ELSE -1..0
      BY <3>1, <3>4
    <3>6. ahead + (IF i = d THEN 1 ELSE 0) - (IF j = d THEN 1 ELSE 0)
            \in IF i <= d /\ d < j THEN 0..1 ELSE -1..0
      BY ONLY <2>1, <2>4, <2>8, <3>5, TurnOfTwo
    <3> QED BY <2>6, <3>1, <3>3, <3>4, <3>6
  <2>9. before' \in Seq(Seq(Nat)) /\ Len(before') = Len(processes')
    BY <2>5, <2>6 DEF TurnsInv, n
  <2> QED BY <2>5, <2>7, <2>8, <2>9 DEF TurnsInv
<1> QED BY <1>1, <1>2 DEF ProcessSchedule

LEMMA MemoryTurns ==
  ASSUME ProcessTypeOK, TurnsInv, MemoryCall, RecordSpawns,
         processes' \in Seq(Process)
  PROVE  TurnsInv'
<1>1. UNCHANGED scheduler_cursor
  BY DEF MemoryCall, MemoryAlloc, MemoryFree, MemoryMap, processVars
<1>2. CASE UNCHANGED processes
  BY <1>1, <1>2, SameTurns DEF ProcessTypeOK
<1>3. CASE \E pid \in DOMAIN processes : \E used :
             processes' = [processes EXCEPT ![pid].memory_used = used]
  <2>0. PICK pid \in DOMAIN processes :
          \E used : processes' = [processes EXCEPT ![pid].memory_used = used]
    BY <1>3
  <2>1. PICK used : processes' = [processes EXCEPT ![pid].memory_used = used]
    BY <2>0
  <2>2. processes[pid] \in Process
    BY TicksTypes
  <2>3. DOMAIN processes' = DOMAIN processes
    BY <2>1
  <2>4. \A i \in DOMAIN processes : /\ processes'[i].ticks = processes[i].ticks
                                    /\ processes'[i].state = processes[i].state
    BY <2>1, <2>2 DEF Process
  <2> QED BY <1>1, <2>3, <2>4, SameTurns
<1>4. UNCHANGED processes \/ \E pid \in DOMAIN processes : \E used :
                               processes' = [processes EXCEPT ![pid].memory_used = used]
  <2>1. ASSUME NEW pid, NEW bytes, MemoryAlloc(pid, bytes)
        PROVE  UNCHANGED processes \/ \E p \in DOMAIN processes : \E used :
                                        processes' = [processes EXCEPT ![p].memory_used = used]
    BY <2>1 DEF MemoryAlloc, Grantable, Known
  <2>2. ASSUME NEW block_id, MemoryFree(block_id)
        PROVE  UNCHANGED processes \/ \E p \in DOMAIN processes : \E used :
                                        processes' = [processes EXCEPT ![p].memory_used = used]
    BY <2>2 DEF MemoryFree, UsedBlock, ProcessTypeOK, Known
  <2> QED BY <2>1, <2>2 DEF MemoryCall, MemoryMap, processVars
<1> QED BY <1>2, <1>3, <1>4

LEMMA TurnsStep ==
  ASSUME SystemTypeOK, TurnsInv, [SharedNext]_<<systemVars, before>>
  PROVE  TurnsInv'
<1>0. ProcessTypeOK /\ processes \in Seq(Process) /\ TurnsInv
  BY DEF SystemTypeOK, ProcessTypeOK
<1>1. CASE UNCHANGED <<systemVars, before>>
  <2>1. processes' = processes /\ scheduler_cursor' = scheduler_cursor /\ before' = before
    BY <1>1 DEF systemVars, processPart, processVars
  <2>2. \A i, j \in DOMAIN processes : Ahead(i, j)' = Ahead(i, j)
    BY <2>1 DEF Ahead, TurnsSince
  <2> QED BY <2>1, <2>2 DEF TurnsInv
<1>2. CASE RecordSpawns /\ \E permissions \in PermissionSets, limit \in Limits :
                             SpawnCall(permissions, limit)
  <2>1. PICK permissions \in PermissionSets, limit \in Limits : SpawnCall(permissions, limit)
    BY <1>2
  <2>2. ProcessSpawn(permissions, limit)
    BY <2>1 DEF SpawnCall
  <2>3. RecordSpawns
    BY <1>2
  <2> QED BY ONLY <1>0, <2>2, <2>3, SpawnTurns
<1>3. CASE RecordSpawns /\ ScheduleCall
  BY <1>0, <1>3, ScheduleTurns DEF ScheduleCall
<1>4. CASE RecordSpawns /\ MemoryCall
  <2>1. processes' \in Seq(Process)
    BY <1>4, SystemTypesStep DEF SystemNext, SystemTypeOK, ProcessTypeOK
  <2> QED BY <1>0, <1>4, <2>1, MemoryTurns
<1>5. CASE /\ RecordSpawns
           /\ \/ SecurityCheckCall \/ IpcCall \/ FileCall \/ PackageCall \/ DriverCall
              \/ SocketCall \/ WindowCall \/ ModeCall \/ LogCall \/ RejectArguments
  <2>1. Quiet
    BY <1>0, <1>5, QuietCalls DEF ProcessTypeOK
  <2> QED BY <1>0, <1>5, <2>1, SameTurns DEF Quiet, processVars
<1> QED BY <1>1, <1>2, <1>3, <1>4, <1>5 DEF SharedNext, SystemNext

(***************************************************************************)
(* bolun10_process_schedule shares the turns, for any number of processes   *)
(* and however spawns and turns alternate: of any two processes, neither    *)
(* gets ahead of the other by more than a turn since both are there, and    *)
(* only the last one that had a turn is running.                            *)
(***************************************************************************)
THEOREM TurnsAlwaysShared == SharedSpec => []TurnsShared
<1>1. SharedInit => SystemTypeOK /\ TurnsInv
  <2>1. SharedInit => TurnsInv
    BY DEF SharedInit, SystemInit, ProcessInit, TurnsInv
  <2> QED BY <2>1, SystemTypesInit DEF SharedInit
<1>2. [SharedNext]_<<systemVars, before>> => [SystemNext]_systemVars
  BY DEF SharedNext
<1>3. SystemTypeOK /\ TurnsInv /\ [SharedNext]_<<systemVars, before>>
        => (SystemTypeOK /\ TurnsInv)'
  BY <1>2, SystemTypesStep, TurnsStep
<1>4. SystemTypeOK /\ TurnsInv => TurnsShared
  <2> SUFFICES ASSUME TurnsInv PROVE TurnsShared
    OBVIOUS
  <2>1. ASSUME NEW i \in DOMAIN processes, NEW j \in DOMAIN processes, i < j
        PROVE  Ahead(i, j) \in -1..1
    <3>1. Ahead(i, j) \in IF i <= scheduler_cursor + 1 /\ scheduler_cursor + 1 < j
                            THEN 0..1 ELSE -1..0
      BY <2>1 DEF TurnsInv
    <3> QED BY <3>1
  <2> QED BY <2>1 DEF TurnsShared, TurnsInv, Ahead
<1> QED BY <1>1, <1>3, <1>4, PTL DEF SharedSpec

-----------------------------------------------------------------------------
(* The memory of the processes.  A process is charged for what it holds, and   *)
(* the sum that bolun10_memory_alloc compares with the limit does not wrap.     *)

HeldBlocks(table, pid) ==
  {b \in DOMAIN table : table[b].owner_pid = pid /\ table[b].used}

InBudget(process, pid, table) ==
  /\ process.memory_limit \in Limits \cup {DefaultLimit}
  /\ process.memory_used = BytesIn(table, HeldBlocks(table, pid))
  /\ process.memory_used <= process.memory_limit

BudgetsInv == \A pid \in DOMAIN processes : InBudget(processes[pid], pid, memory)

\* The tables as the lemmas about sums see them.
LEMMA SystemBooks ==
  ASSUME ProcessTypeOK
  PROVE  /\ BlockTable(memory, Len(memory)) /\ Len(memory) \in Nat
         /\ memory \in Seq(MemoryBlock) /\ DOMAIN memory = 1..Len(memory)
         /\ \A b \in DOMAIN memory : /\ memory[b] \in MemoryBlock
                                     /\ memory[b].bytes \in Nat
                                     /\ memory[b].owner_pid \in DOMAIN processes
         /\ processes \in Seq(Process) /\ Len(processes) \in Nat
         /\ DOMAIN processes = 1..Len(processes)
         /\ \A pid \in DOMAIN processes : processes[pid] \in Process
         /\ SizeModulus \in Nat \ {0} /\ Size \subseteq Nat /\ DefaultLimit \in Size
<1>1. /\ SizeModulus \in Nat \ {0} /\ Size \subseteq Nat /\ DefaultLimit \in Size
  BY SystemProcessAssumption DEF Size
<1>2. /\ memory \in Seq(MemoryBlock) /\ DOMAIN memory = 1..Len(memory) /\ Len(memory) \in Nat
      /\ \A b \in DOMAIN memory : /\ memory[b] \in MemoryBlock
                                  /\ memory[b].owner_pid \in DOMAIN processes
  BY DEF ProcessTypeOK, Known
<1>3. \A b \in DOMAIN memory : memory[b].bytes \in Nat
  BY <1>1, <1>2 DEF MemoryBlock
<1>4. BlockTable(memory, Len(memory))
  BY <1>2, <1>3 DEF BlockTable
<1>5. /\ processes \in Seq(Process) /\ Len(processes) \in Nat
      /\ DOMAIN processes = 1..Len(processes)
      /\ \A pid \in DOMAIN processes : processes[pid] \in Process
  BY DEF ProcessTypeOK
<1> QED BY <1>1, <1>2, <1>3, <1>4, <1>5

\* The calls that change neither what is held nor what is charged for it.
LEMMA SameBudgets ==
  ASSUME BudgetsInv, UNCHANGED memory, DOMAIN processes' = DOMAIN processes,
         \A pid \in DOMAIN processes :
           /\ processes'[pid].memory_limit = processes[pid].memory_limit
           /\ processes'[pid].memory_used = processes[pid].memory_used
  PROVE  BudgetsInv'
BY DEF BudgetsInv, InBudget

LEMMA SpawnBudgets ==
  ASSUME ProcessTypeOK, BudgetsInv, NEW permissions, NEW limit \in Limits,
         ProcessSpawn(permissions, limit)
  PROVE  BudgetsInv'
<1>1. CASE UNCHANGED processes
  BY <1>1, SameBudgets DEF ProcessSpawn
<1>2. CASE processes' = Append(processes, NewProcess(permissions, limit))
  <2> DEFINE n == Len(processes)
             p == NewProcess(permissions, limit)
  <2>1. /\ n \in Nat /\ DOMAIN processes' = 1..n + 1 /\ DOMAIN processes = 1..n
        /\ processes'[n + 1] = p /\ \A pid \in 1..n : processes'[pid] = processes[pid]
    BY <1>2, SystemBooks
  <2>2. HeldBlocks(memory, n + 1) = {}
    BY <2>1, SystemBooks DEF HeldBlocks
  <2>3. p.memory_used = 0 /\ p.memory_limit \in Limits \cup {DefaultLimit} /\ p.memory_limit \in Nat
    BY SystemBooks, SystemInputsAssumption DEF NewProcess
  <2>4. BytesIn(memory, {}) = 0
    BY SystemBooks, NoBytes
  <2>5. InBudget(p, n + 1, memory)
    <3> HIDE DEF p, n
    <3> QED BY <2>2, <2>3, <2>4 DEF InBudget
  <2>6. UNCHANGED memory
    BY DEF ProcessSpawn
  <2>7. ASSUME NEW pid \in DOMAIN processes' PROVE InBudget(processes'[pid], pid, memory)
    <3> HIDE DEF p, n
    <3>1. pid \in 1..n \/ pid = n + 1
      BY <2>1
    <3> QED BY <2>1, <2>5, <3>1 DEF BudgetsInv
  <2> QED BY <2>6, <2>7 DEF BudgetsInv
<1> QED BY <1>1, <1>2 DEF ProcessSpawn

LEMMA ScheduleBudgets ==
  ASSUME ProcessTypeOK, BudgetsInv, ProcessSchedule
  PROVE  BudgetsInv'
<1>1. CASE UNCHANGED processVars
  BY <1>1, SameBudgets DEF ProcessSchedule, processVars
<1>2. CASE processes' =
             [i \in DOMAIN processes |->
                IF i = NextCursor + 1
                  THEN [processes[i] EXCEPT !.state = "RUNNING", !.ticks = @ + 1]
                  ELSE [processes[i] EXCEPT !.state = "READY"]]
  <2>1. ASSUME NEW pid \in DOMAIN processes
        PROVE  /\ processes'[pid].memory_limit = processes[pid].memory_limit
               /\ processes'[pid].memory_used = processes[pid].memory_used
    <3>1. processes[pid] \in Process
      BY SystemBooks
    <3> QED BY <1>2, <3>1 DEF Process
  <2>2. DOMAIN processes' = DOMAIN processes /\ UNCHANGED memory
    BY <1>2 DEF ProcessSchedule
  <2> QED BY <2>1, <2>2, SameBudgets
<1> QED BY <1>1, <1>2 DEF ProcessSchedule

LEMMA AllocBudgets ==
  ASSUME LimitsFit, ProcessTypeOK, BudgetsInv, NEW pid, NEW bytes \in BlockSizes,
         MemoryAlloc(pid, bytes)
  PROVE  BudgetsInv'
<1>1. CASE UNCHANGED <<processes, memory>>
  BY <1>1, SameBudgets
<1>2. CASE /\ Grantable(pid, bytes)
           /\ memory' = Append(memory, NewBlock(pid, bytes))
           /\ processes' = [processes EXCEPT ![pid].memory_used = (@ + bytes) % SizeModulus]
  <2> DEFINE n == Len(memory)
             used == processes[pid].memory_used
             limit == processes[pid].memory_limit
  <2>1. pid \in DOMAIN processes /\ processes[pid] \in Process
    BY <1>2, SystemBooks DEF Grantable, Known
  <2>2. bytes \in Nat /\ used \in Nat /\ limit \in Nat /\ SizeModulus \in Nat \ {0}
    BY <2>1, SystemBooks, SystemInputsAssumption DEF Process
  <2>3. used = BytesIn(memory, HeldBlocks(memory, pid)) /\ used <= limit
        /\ limit + bytes < SizeModulus
    BY <2>1 DEF BudgetsInv, InBudget, LimitsFit
  <2>4. (used + bytes) % SizeModulus = used + bytes
    <3> HIDE DEF used, limit
    <3>1. used + bytes \in 0..SizeModulus - 1
      BY <2>2, <2>3
    <3> QED BY <2>2, <3>1
  <2>5. used + bytes <= limit
    BY <1>2, <2>4 DEF Grantable, WithinLimit
  <2>6. /\ n \in Nat /\ DOMAIN memory = 1..n /\ DOMAIN memory' = 1..n + 1
        /\ memory'[n + 1] = NewBlock(pid, bytes)
        /\ \A b \in 1..n : memory'[b] = memory[b]
    BY <1>2, SystemBooks
  <2>7. NewBlock(pid, bytes).bytes = bytes /\ NewBlock(pid, bytes).owner_pid = pid
        /\ NewBlock(pid, bytes).used = TRUE
    BY DEF NewBlock
  <2>8. ASSUME NEW p
        PROVE  BytesIn(memory', HeldBlocks(memory', p)) =
                 BytesIn(memory, HeldBlocks(memory, p)) + (IF p = pid THEN bytes ELSE 0)
    <3> HIDE DEF n
    <3>1. PICK longer : longer = memory'
      OBVIOUS
    <3>2. BlockTable(memory, n)
      BY SystemBooks DEF n
    <3>3. /\ DOMAIN longer = 1..n + 1 /\ longer[n + 1].bytes \in Nat
          /\ \A b \in 1..n : longer[b] = memory[b]
      BY <2>2, <2>6, <2>7, <3>1
    <3>4. n + 1 \in DOMAIN longer /\ \A b \in 1..n : b \in DOMAIN longer
      BY <2>6, <3>3
    <3>5. \A b \in 1..n : b \in HeldBlocks(longer, p) <=> b \in HeldBlocks(memory, p)
      BY <2>6, <3>3, <3>4 DEF HeldBlocks
    <3>6. BytesIn(longer, HeldBlocks(longer, p)) = BytesIn(memory, HeldBlocks(memory, p))
            + (IF n + 1 \in HeldBlocks(longer, p) THEN longer[n + 1].bytes ELSE 0)
      <4>1. n \in Nat
        BY <2>6
      <4>2. PICK blocks, more : blocks = HeldBlocks(memory, p) /\ more = HeldBlocks(longer, p)
        OBVIOUS
      <4>3. \A b \in 1..n : b \in more <=> b \in blocks
        BY <3>5, <4>2
      <4>4. BytesIn(longer, more) = BytesIn(memory, blocks)
              + (IF n + 1 \in more THEN longer[n + 1].bytes ELSE 0)
        BY ONLY <3>2, <3>3, <4>1, <4>3, BytesOfLonger
      <4> QED BY <4>2, <4>4
    <3>7. longer[n + 1].bytes = bytes
      BY <2>6, <2>7, <3>1
    <3>8. n + 1 \in HeldBlocks(longer, p) <=> p = pid
      BY <2>6, <2>7, <3>1, <3>4 DEF HeldBlocks
    <3> QED BY <3>1, <3>6, <3>7, <3>8
  <2>9. ASSUME NEW p \in DOMAIN processes' PROVE InBudget(processes'[p], p, memory')
    <3>1. p \in DOMAIN processes /\ InBudget(processes[p], p, memory)
      BY <1>2 DEF BudgetsInv
    <3>2. CASE p = pid
      <4>1. processes'[p].memory_used = used + bytes /\ processes'[p].memory_limit = limit
        BY <1>2, <2>1, <2>4, <3>2 DEF Process
      <4> HIDE DEF used, limit
      <4>2. BytesIn(memory', HeldBlocks(memory', p)) = used + bytes
        BY <2>3, <2>8, <3>2
      <4>3. limit \in Limits \cup {DefaultLimit}
        BY <3>1, <3>2 DEF InBudget, limit
      <4> QED BY <2>5, <4>1, <4>2, <4>3 DEF InBudget
    <3>3. CASE p # pid
      <4>1. processes'[p] = processes[p]
        BY <1>2, <3>1, <3>3
      <4>2. BytesIn(memory, HeldBlocks(memory, p)) \in Nat
        BY SystemBooks, BytesAreNatural
      <4>3. BytesIn(memory', HeldBlocks(memory', p)) = BytesIn(memory, HeldBlocks(memory, p))
        BY <2>8, <3>3, <4>2
      <4> QED BY <3>1, <4>1, <4>3 DEF InBudget
    <3> QED BY <3>2, <3>3
  <2> QED BY <2>9 DEF BudgetsInv
<1> QED BY <1>1, <1>2 DEF MemoryAlloc

LEMMA FreeBudgets ==
  ASSUME ProcessTypeOK, BudgetsInv, NEW block_id, MemoryFree(block_id)
  PROVE  BudgetsInv'
<1>1. CASE UNCHANGED <<processes, memory>>
  BY <1>1, SameBudgets
<1>2. CASE UsedBlock(block_id)
           /\ memory' = [memory EXCEPT ![block_id].used = FALSE]
           /\ processes' = [processes EXCEPT ![memory[block_id].owner_pid].memory_used =
                              IF @ >= memory[block_id].bytes THEN @ - memory[block_id].bytes
                                                             ELSE @]
  <2> DEFINE pid == memory[block_id].owner_pid
             bytes == memory[block_id].bytes
             used == processes[pid].memory_used
             held == HeldBlocks(memory, pid)
  <2>1. block_id \in DOMAIN memory /\ memory[block_id].used
    BY <1>2 DEF UsedBlock
  <2>2. pid \in DOMAIN processes /\ processes[pid] \in Process /\ bytes \in Nat
        /\ block_id \in held
    BY <2>1, SystemBooks DEF HeldBlocks
  <2>3. BytesIn(memory, held \ {block_id}) \in Nat
        /\ BytesIn(memory, held \ {block_id}) + bytes = used
    <3>1. BlockTable(memory, Len(memory)) /\ block_id \in 1..Len(memory)
      BY <2>1, SystemBooks
    <3>2. used = BytesIn(memory, held)
      BY <2>2 DEF BudgetsInv, InBudget
    <3>3. BytesIn(memory, held \ {block_id}) \in Nat
      BY <3>1, BytesAreNatural
    <3>4. BytesIn(memory, held \ {block_id}) + memory[block_id].bytes = BytesIn(memory, held)
      BY <2>2, <3>1, BytesWithout
    <3> QED BY <3>2, <3>3, <3>4
  <2>4. /\ DOMAIN memory' = DOMAIN memory
        /\ \A b \in DOMAIN memory :
             /\ memory'[b].bytes = memory[b].bytes
             /\ memory'[b].owner_pid = memory[b].owner_pid
             /\ memory'[b].used <=> memory[b].used /\ b # block_id
    BY <1>2, <2>1, SystemBooks DEF MemoryBlock
  <2>5. \A p : HeldBlocks(memory', p) = HeldBlocks(memory, p) \ {block_id}
    BY <2>4 DEF HeldBlocks
  <2>6. \A some : BytesIn(memory', some) = BytesIn(memory, some)
    <3>1. PICK n : n = Len(memory)
      OBVIOUS
    <3>2. PICK other : other = memory'
      OBVIOUS
    <3>3. BlockTable(memory, n) /\ DOMAIN other = 1..n /\ n \in Nat
          /\ \A b \in 1..n : other[b].bytes = memory[b].bytes
      BY <2>4, <3>1, <3>2, SystemBooks
    <3>4. \A some : BytesIn(other, some) = BytesIn(memory, some)
      BY ONLY <3>3, BytesKept
    <3> QED BY <3>2, <3>4
  <2>7. processes' = [processes EXCEPT ![pid].memory_used = BytesIn(memory, held \ {block_id})]
    <3> DEFINE rest == BytesIn(memory, held \ {block_id})
    <3>1. processes' = [processes EXCEPT ![pid].memory_used =
                          IF used >= bytes THEN used - bytes ELSE used]
      BY <1>2
    <3>2. (IF used >= bytes THEN used - bytes ELSE used) = rest
      <4> HIDE DEF used, bytes, rest
      <4> QED BY <2>2, <2>3 DEF rest
    <3> QED BY <3>1, <3>2
  <2>8. ASSUME NEW p \in DOMAIN processes' PROVE InBudget(processes'[p], p, memory')
    <3>1. p \in DOMAIN processes /\ InBudget(processes[p], p, memory)
      BY <1>2 DEF BudgetsInv
    <3>2. CASE p = pid
      <4>1. /\ processes'[p].memory_used = BytesIn(memory, held \ {block_id})
            /\ processes'[p].memory_limit = processes[pid].memory_limit
        BY <2>2, <2>7, <3>2 DEF Process
      <4>2. processes[pid].memory_limit \in Nat
        BY <2>2, SystemBooks DEF Process
      <4>3. used <= processes[pid].memory_limit
            /\ processes[pid].memory_limit \in Limits \cup {DefaultLimit}
        BY <3>1, <3>2 DEF InBudget
      <4>4. BytesIn(memory', HeldBlocks(memory', p)) = BytesIn(memory, held \ {block_id})
        BY <2>5, <2>6, <3>2
      <4>5. BytesIn(memory, held \ {block_id}) <= processes[pid].memory_limit
        <5>1. used \in Nat
          BY <2>2, SystemBooks DEF Process
        <5> HIDE DEF used, held, bytes
        <5> QED BY <2>2, <2>3, <4>2, <4>3, <5>1
      <4> QED BY <4>1, <4>3, <4>4, <4>5 DEF InBudget
    <3>3. CASE p # pid
      <4>1. processes'[p] = processes[p]
        BY <2>7, <3>1, <3>3
      <4>2. HeldBlocks(memory', p) = HeldBlocks(memory, p)
        BY <2>5, <3>3 DEF HeldBlocks
      <4> QED BY <2>6, <3>1, <4>1, <4>2 DEF InBudget
    <3> QED BY <3>2, <3>3
  <2> QED BY <2>8 DEF BudgetsInv
<1> QED BY <1>1, <1>2 DEF MemoryFree

LEMMA MapBudgets ==
  ASSUME ProcessTypeOK, BudgetsInv, NEW block_id, NEW given, NEW writable,
         MemoryMap(block_id, given, writable)
  PROVE  BudgetsInv'
<1>1. UNCHANGED processes
  BY DEF MemoryMap, processVars
<1>2. CASE UNCHANGED memory
  BY <1>1, <1>2, SameBudgets
<1>3. CASE UsedBlock(block_id)
           /\ memory' = [memory EXCEPT ![block_id].mapped = TRUE,
                                       ![block_id].writable = writable]
  <2>1. /\ DOMAIN memory' = DOMAIN memory
        /\ \A b \in DOMAIN memory :
             /\ memory'[b].bytes = memory[b].bytes
             /\ memory'[b].owner_pid = memory[b].owner_pid
             /\ memory'[b].used <=> memory[b].used
    BY <1>3, SystemBooks DEF MemoryBlock, UsedBlock
  <2>2. \A p : HeldBlocks(memory', p) = HeldBlocks(memory, p)
    BY <2>1 DEF HeldBlocks
  <2>3. \A some : BytesIn(memory', some) = BytesIn(memory, some)
    <3>1. PICK n : n = Len(memory)
      OBVIOUS
    <3>2. PICK other : other = memory'
      OBVIOUS
    <3>3. BlockTable(memory, n) /\ DOMAIN other = 1..n /\ n \in Nat
          /\ \A b \in 1..n : other[b].bytes = memory[b].bytes
      BY <2>1, <3>1, <3>2, SystemBooks
    <3>4. \A some : BytesIn(other, some) = BytesIn(memory, some)
      BY ONLY <3>3, BytesKept
    <3> QED BY <3>2, <3>4
  <2> QED BY <1>1, <2>2, <2>3 DEF BudgetsInv, InBudget
<1> QED BY <1>2, <1>3 DEF MemoryMap

LEMMA BudgetsStep ==
  ASSUME LimitsFit, SystemTypeOK, BudgetsInv, [SystemNext]_systemVars
  PROVE  BudgetsInv'
<1>0. ProcessTypeOK
  BY DEF SystemTypeOK
<1>1. CASE \E permissions \in PermissionSets, limit \in Limits : SpawnCall(permissions, limit)
  BY <1>0, <1>1, SpawnBudgets DEF SpawnCall
<1>2. CASE ScheduleCall
  BY <1>0, <1>2, ScheduleBudgets DEF ScheduleCall
<1>3. CASE MemoryCall
  <2>1. CASE \E pid \in AnyPid, bytes \in BlockSizes : MemoryAlloc(pid, bytes)
    BY <1>0, <2>1, AllocBudgets
  <2>2. CASE \E block_id \in 0..MaxBlocks : MemoryFree(block_id)
    BY <1>0, <2>2, FreeBudgets
  <2>3. CASE \E block_id \in 0..MaxBlocks, given \in BOOLEAN, writable \in BOOLEAN :
               MemoryMap(block_id, given, writable)
    BY <1>0, <2>3, MapBudgets
  <2> QED BY <1>3, <2>1, <2>2, <2>3 DEF MemoryCall
<1>4. CASE \/ SecurityCheckCall \/ IpcCall \/ FileCall \/ PackageCall \/ DriverCall
           \/ SocketCall \/ WindowCall \/ ModeCall \/ LogCall \/ RejectArguments
           \/ UNCHANGED systemVars
  <2>1. Quiet
    BY <1>0, <1>4, QuietCalls DEF ProcessTypeOK
  <2> QED BY <2>1, SameBudgets DEF Quiet, processVars
<1> QED BY <1>1, <1>2, <1>3, <1>4 DEF SystemNext

(***************************************************************************)
(* A process of Bolun Phone 1.0 is charged for exactly the blocks it holds  *)
(* and never holds more than its limit, whoever frees them and when they    *)
(* are freed twice: for any tables and any limits and sizes whose sums do   *)
(* not wrap.                                                                *)
(***************************************************************************)
THEOREM BudgetsAlwaysKept == LimitsFit /\ SystemSpec => []BudgetsKept
<1>1. SystemInit => SystemTypeOK /\ BudgetsInv
  <2>1. SystemInit => BudgetsInv
    BY DEF SystemInit, ProcessInit, BudgetsInv
  <2> QED BY <2>1, SystemTypesInit
<1>2. LimitsFit /\ (SystemTypeOK /\ BudgetsInv) /\ [SystemNext]_systemVars
        => (SystemTypeOK /\ BudgetsInv)'
  BY SystemTypesStep, BudgetsStep
<1>3. LimitsFit => []LimitsFit
  <2>1. LimitsFit => LimitsFit'
    BY DEF LimitsFit
  <2> QED BY <2>1, PTL
<1>4. BudgetsInv => BudgetsKept
  BY DEF BudgetsInv, InBudget, BudgetsKept, BytesHeld, HeldBlocks
<1> QED BY <1>1, <1>2, <1>3, <1>4, PTL DEF SystemSpec

-----------------------------------------------------------------------------
(* Mail.  The queue is in the order of sending, so that the first message for  *)
(* a process is the one with its least number.                                 *)

MailInv == NumberedInOrder(messages, next_message)

Mailboxes == [pid \in Pids |-> MailOf(pid)]
Statuses == [pid \in Pids |-> IF Known(pid) THEN "open" ELSE "new"]

LEMMA QueueTypes ==
  ASSUME SystemTypeOK
  PROVE  /\ messages \in Seq(Message) /\ Len(messages) \in Nat /\ Len(messages) <= MaxMessages
         /\ DOMAIN messages = 1..Len(messages)
         /\ \A m \in DOMAIN messages : messages[m] \in Message
         /\ \A m \in DOMAIN messages : Known(messages[m].to_pid)
         /\ next_message \in Nat /\ next_message >= 1 /\ MaxMessages \in Nat /\ MaxSequence \in Nat
         /\ \A pid : Known(pid) => pid \in Pids
<1>1. \A pid : Known(pid) => pid \in Pids
  BY SystemProcessAssumption DEF SystemTypeOK, ProcessTypeOK, Known, Pids
<1> QED BY <1>1, SystemIpcAssumption DEF SystemTypeOK, IpcTypeOK

LEMMA MailboxesOfQueue ==
  /\ Mailboxes = [pid \in Pids |-> NumbersFor(messages, pid)]
  /\ Mailboxes' = [pid \in Pids |-> NumbersFor(messages', pid)]
BY DEF Mailboxes, MailOf, MessagesFor, NumbersFor

LEMMA SendMail ==
  ASSUME SystemTypeOK, MailInv, NEW from_pid, NEW to_pid,
         Sendable(from_pid, to_pid), next_message <= MaxSequence,
         messages' = Append(messages, [to_pid |-> to_pid, sequence |-> next_message]),
         next_message' = next_message + 1, UNCHANGED processes
  PROVE  MailInv' /\ Mail!MNext
<1> DEFINE message == [to_pid |-> to_pid, sequence |-> next_message]
           n == Len(messages)
<1>0. /\ messages \in Seq(Message) /\ n \in Nat /\ DOMAIN messages = 1..n
      /\ next_message \in Nat /\ next_message >= 1 /\ MaxMessages \in Nat /\ MaxSequence \in Nat
  BY QueueTypes
<1>1. to_pid \in Pids /\ Known(to_pid) /\ n < MaxMessages
  BY QueueTypes DEF Sendable
<1>2. message \in Message /\ message.to_pid = to_pid /\ message.sequence = next_message
  BY <1>0, <1>1 DEF Message
<1> HIDE DEF message
<1>3. messages' = Append(messages, message)
  BY DEF message
<1>4. /\ DOMAIN messages' = 1..n + 1 /\ messages'[n + 1] = message /\ Len(messages') = n + 1
      /\ \A m \in 1..n : messages'[m] = messages[m]
  BY <1>0, <1>2, <1>3
<1> HIDE DEF n
<1>5. MailInv'
  <2>1. ASSUME NEW m \in DOMAIN messages'
        PROVE  messages'[m].sequence \in Nat /\ messages'[m].sequence < next_message'
    <3>1. CASE m = n + 1
      BY <1>0, <1>2, <1>4, <3>1
    <3>2. CASE m # n + 1
      <4>1. m \in DOMAIN messages /\ messages'[m] = messages[m]
        BY <1>0, <1>4, <3>2
      <4>2. messages[m].sequence \in Nat /\ messages[m].sequence < next_message
        BY <4>1 DEF MailInv, NumberedInOrder
      <4> QED BY <1>0, <4>1, <4>2
    <3> QED BY <3>1, <3>2
  <2>2. ASSUME NEW l \in DOMAIN messages', NEW m \in DOMAIN messages', l < m
        PROVE  messages'[l].sequence < messages'[m].sequence
    <3>1. l \in DOMAIN messages /\ messages'[l] = messages[l]
      BY <1>0, <1>4, <2>2
    <3>2. CASE m = n + 1
      <4>1. messages[l].sequence < next_message
        BY <3>1 DEF MailInv, NumberedInOrder
      <4> QED BY <1>2, <1>4, <3>1, <3>2, <4>1
    <3>3. CASE m # n + 1
      <4>1. m \in DOMAIN messages /\ messages'[m] = messages[m]
        BY <1>0, <1>4, <3>3
      <4> QED BY <2>2, <3>1, <4>1 DEF MailInv, NumberedInOrder
    <3> QED BY <3>2, <3>3
  <2> QED BY <2>1, <2>2 DEF MailInv, NumberedInOrder
<1>6. Mail!Put(<<to_pid>>)
  <2>1. /\ <<to_pid>> \in Seq(Pids) /\ Len(<<to_pid>>) = 1 /\ DOMAIN <<to_pid>> = {1}
        /\ <<to_pid>>[1] = to_pid
    BY <1>1
  <2>2. \A pid \in Pids : NumbersFor(messages', pid) = NumbersFor(messages, pid) \cup
          {next_message + k - 1 : k \in {j \in DOMAIN <<to_pid>> : <<to_pid>>[j] = pid}}
    <3> TAKE pid \in Pids
    <3>1. {next_message + k - 1 : k \in {j \in DOMAIN <<to_pid>> : <<to_pid>>[j] = pid}}
            = IF to_pid = pid THEN {next_message} ELSE {}
      <4>1. next_message + 1 - 1 = next_message
        BY <1>0
      <4> QED BY <2>1, <4>1
    <3>2. NumbersFor(messages', pid) = NumbersFor(messages, pid) \cup
            (IF to_pid = pid THEN {next_message} ELSE {})
      <4>1. \A m \in DOMAIN messages' : m \in DOMAIN messages \/ m = n + 1
        BY <1>0, <1>4
      <4>2. \A m \in DOMAIN messages : m \in DOMAIN messages' /\ messages'[m] = messages[m]
        BY <1>0, <1>4
      <4>3. n + 1 \in DOMAIN messages'
        BY <1>0, <1>4
      <4> QED BY <1>2, <1>4, <4>1, <4>2, <4>3 DEF NumbersFor
    <3> QED BY <3>1, <3>2
  <2>3. Mailboxes' = [pid \in Pids |-> Mailboxes[pid] \cup
          {next_message + k - 1 : k \in {j \in DOMAIN <<to_pid>> : <<to_pid>>[j] = pid}}]
    BY <2>2, MailboxesOfQueue
  <2>4. \A k \in DOMAIN <<to_pid>> : Statuses[<<to_pid>>[k]] = "open"
    BY <1>1, <2>1 DEF Statuses
  <2>5. UNCHANGED Statuses
    BY DEF Statuses, Known
  <2>6. /\ Len(messages) + Len(<<to_pid>>) <= MaxMessages
        /\ next_message + Len(<<to_pid>>) <= MaxSequence + 1
        /\ Len(messages') = Len(messages) + Len(<<to_pid>>)
        /\ next_message' = next_message + Len(<<to_pid>>)
    BY <1>0, <1>1, <1>4, <2>1 DEF n
  <2> QED BY <2>3, <2>4, <2>5, <2>6 DEF Mail!Put, Statuses, Mailboxes
<1>7. <<to_pid>> \in Mail!BoundedSeq(Pids, MaxMessages)
  <2>1. <<to_pid>> \in [1..1 -> Pids]
    BY <1>1
  <2>2. 1 \in 0..MaxMessages
    BY <1>0, <1>1
  <2> QED BY <2>1, <2>2 DEF Mail!BoundedSeq, Mail!SeqOf
<1> QED BY <1>5, <1>6, <1>7 DEF Mail!MNext

LEMMA ReceiveMail ==
  ASSUME SystemTypeOK, MailInv, NEW pid, Known(pid), MessagesFor(pid) # {},
         messages' = WithoutMessage(Min(MessagesFor(pid))), UNCHANGED <<next_message, processes>>
  PROVE  MailInv' /\ Mail!MNext
<1>0. /\ messages \in Seq(Message) /\ Len(messages) \in Nat /\ DOMAIN messages = 1..Len(messages)
      /\ pid \in Pids
  BY QueueTypes
<1>1. PICK m : m = Min(MessagesFor(pid))
  OBVIOUS
<1>2. /\ m \in DOMAIN messages /\ messages[m].to_pid = pid
      /\ \A n \in DOMAIN messages : messages[n].to_pid = pid => m <= n
  <2>1. MessagesFor(pid) \subseteq Nat
    BY <1>0 DEF MessagesFor
  <2>2. Min(MessagesFor(pid)) \in MessagesFor(pid)
        /\ \A n \in MessagesFor(pid) : Min(MessagesFor(pid)) <= n
    BY <2>1, MinOfNaturals
  <2> QED BY <1>1, <2>2 DEF MessagesFor
<1>3. messages' = RemoveAt(messages, m)
  BY <1>1 DEF WithoutMessage
<1>4. /\ NumbersFor(messages, pid) # {}
      /\ NumbersFor(messages', pid) = NumbersFor(messages, pid) \ {Min(NumbersFor(messages, pid))}
      /\ \A p : p # pid => NumbersFor(messages', p) = NumbersFor(messages, p)
  <2>1. NumberedInOrder(messages, next_message)
    BY DEF MailInv
  <2>2. PICK queue, less, p : queue = messages /\ less = messages' /\ p = pid
    OBVIOUS
  <2>3. /\ queue \in Seq(Message) /\ NumberedInOrder(queue, next_message) /\ m \in DOMAIN queue
        /\ p = queue[m].to_pid
        /\ \A n \in DOMAIN queue : queue[n].to_pid = queue[m].to_pid => m <= n
    BY <1>0, <1>2, <2>1, <2>2
  <2>4. /\ NumbersFor(queue, p) # {}
        /\ NumbersFor(RemoveAt(queue, m), p) = NumbersFor(queue, p) \ {Min(NumbersFor(queue, p))}
        /\ \A q : q # p => NumbersFor(RemoveAt(queue, m), q) = NumbersFor(queue, q)
    BY ONLY <2>3, NumbersWithoutFirst
  <2> QED BY <1>3, <2>2, <2>4
<1>5. /\ Len(messages') = Len(messages) - 1 /\ DOMAIN messages' = 1..Len(messages) - 1
      /\ \A j \in 1..Len(messages) - 1 :
           messages'[j] = IF j < m THEN messages[j] ELSE messages[j + 1]
  <2>1. m \in 1..Len(messages)
    BY <1>0, <1>2
  <2>2. /\ messages' \in Seq(Message) /\ Len(messages') = Len(messages) - 1
        /\ \A j \in 1..Len(messages) - 1 :
             messages'[j] = IF j < m THEN messages[j] ELSE messages[j + 1]
    BY <1>0, <1>3, <2>1, RemoveAtSeq
  <2> QED BY <2>2
<1>6. MailInv'
  <2> DEFINE from(j) == IF j < m THEN j ELSE j + 1
  <2>1. \A j \in DOMAIN messages' : from(j) \in DOMAIN messages /\ messages'[j] = messages[from(j)]
    BY <1>0, <1>2, <1>5
  <2>2. \A i, j \in DOMAIN messages' : i < j => from(i) < from(j)
    BY <1>0, <1>2, <1>5
  <2> HIDE DEF from
  <2> QED BY <2>1, <2>2 DEF MailInv, NumberedInOrder
<1>7. /\ Mailboxes[pid] # {}
      /\ Mailboxes' = [Mailboxes EXCEPT ![pid] = Mailboxes[pid] \ {Min(Mailboxes[pid])}]
  BY <1>0, <1>4, MailboxesOfQueue
<1>8. Statuses[pid] = "open" /\ UNCHANGED Statuses
  BY <1>0 DEF Statuses, Known
<1>9. \A numbers : Mail!Min(numbers) = Min(numbers)
  BY DEF Mail!Min, Min
<1>10. Mail!Take(pid)
  BY <1>5, <1>7, <1>8, <1>9 DEF Mail!Take, Statuses, Mailboxes
<1> QED BY <1>0, <1>6, <1>10 DEF Mail!MNext

LEMMA SpawnMail ==
  ASSUME SystemTypeOK, UNCHANGED ipcVars,
         NEW process, processes' = Append(processes, process), Len(processes) < MaxProcesses
  PROVE  Mail!MNext
<1> DEFINE n == Len(processes)
<1>1. n \in Nat /\ DOMAIN processes = 1..n /\ DOMAIN processes' = 1..n + 1
  BY DEF SystemTypeOK, ProcessTypeOK
<1>2. n + 1 \in Pids
  BY <1>1, SystemProcessAssumption DEF Pids
<1> HIDE DEF n
<1>3. \A pid \in Pids : (pid \in 1..n + 1 <=> pid \in 1..n \/ pid = n + 1) /\ n + 1 \notin 1..n
  BY <1>1 DEF Pids
<1>4. Statuses[n + 1] = "new" /\ Statuses' = [Statuses EXCEPT ![n + 1] = "open"]
  BY <1>1, <1>2, <1>3 DEF Statuses, Known
<1>5. UNCHANGED <<Mailboxes, Len(messages), next_message>>
  BY MailboxesOfQueue DEF ipcVars
<1>6. Mail!Open(n + 1)
  BY <1>4, <1>5 DEF Mail!Open, Statuses, Mailboxes
<1> QED BY <1>2, <1>6 DEF Mail!MNext

LEMMA SameMail ==
  ASSUME UNCHANGED ipcVars, DOMAIN processes' = DOMAIN processes
  PROVE  UNCHANGED Mail!mailboxVars
<1>1. UNCHANGED <<Mailboxes, Len(messages), next_message>>
  BY MailboxesOfQueue DEF ipcVars
<1>2. UNCHANGED Statuses
  BY DEF Statuses, Known
<1> QED BY <1>1, <1>2 DEF Mail!mailboxVars, Statuses, Mailboxes

LEMMA MailStep ==
  ASSUME SystemTypeOK, MailInv, [SystemNext]_systemVars
  PROVE  MailInv' /\ [Mail!MNext]_(Mail!mailboxVars)
<1>1. CASE \E permissions \in PermissionSets, limit \in Limits : SpawnCall(permissions, limit)
  <2>1. PICK permissions \in PermissionSets, limit \in Limits : SpawnCall(permissions, limit)
    BY <1>1
  <2>2. UNCHANGED ipcVars
    BY <2>1 DEF SpawnCall
  <2>3. MailInv'
    BY <2>2 DEF MailInv, ipcVars
  <2>4. Mail!MNext \/ UNCHANGED processes
    BY <2>1, <2>2, SpawnMail DEF SpawnCall, ProcessSpawn
  <2> QED BY <2>2, <2>3, <2>4, SameMail
<1>2. CASE IpcCall
  <2>1. UNCHANGED processes
    BY <1>2 DEF IpcCall, IpcSend, IpcReceive, processVars
  <2>2. ASSUME NEW from_pid \in AnyPid, NEW to_pid \in AnyPid, IpcSend(from_pid, to_pid)
        PROVE  (MailInv' /\ Mail!MNext) \/ UNCHANGED ipcVars
    BY <2>1, <2>2, SendMail DEF IpcSend
  <2>3. ASSUME NEW pid \in AnyPid, IpcReceive(pid)
        PROVE  (MailInv' /\ Mail!MNext) \/ UNCHANGED ipcVars
    BY <2>1, <2>3, ReceiveMail DEF IpcReceive, ipcVars
  <2>4. CASE UNCHANGED ipcVars
    <3>1. MailInv'
      BY <2>4 DEF MailInv, ipcVars
    <3> QED BY <2>1, <2>4, <3>1, SameMail
  <2> QED BY <1>2, <2>2, <2>3, <2>4 DEF IpcCall
<1>3. CASE UNCHANGED ipcVars /\ DOMAIN processes' = DOMAIN processes
  <2>1. MailInv'
    BY <1>3 DEF MailInv, ipcVars
  <2> QED BY <1>3, <2>1, SameMail
<1>4. CASE ScheduleCall
  BY <1>3, <1>4 DEF ScheduleCall, ProcessSchedule, processVars
<1>5. CASE MemoryCall
  <2>1. UNCHANGED ipcVars
    BY <1>5 DEF MemoryCall
  <2>2. DOMAIN processes' = DOMAIN processes
    BY <1>5 DEF MemoryCall, MemoryAlloc, MemoryFree, MemoryMap, processVars
  <2> QED BY <1>3, <2>1, <2>2
<1>6. CASE SecurityCheckCall \/ FileCall \/ PackageCall \/ DriverCall \/ SocketCall
           \/ WindowCall \/ ModeCall \/ LogCall \/ RejectArguments \/ UNCHANGED systemVars
  <2>1. Quiet
    BY <1>6, QuietCalls DEF SystemTypeOK, ProcessTypeOK
  <2>2. UNCHANGED ipcVars
    BY <1>6 DEF SecurityCheckCall, FileCall, PackageCall, DriverCall, SocketCall, WindowCall,
                ModeCall, LogCall, RejectArguments, systemVars
  <2> QED BY <1>3, <2>1, <2>2 DEF Quiet, processVars
<1> QED BY <1>1, <1>2, <1>4, <1>5, <1>6 DEF SystemNext

(***************************************************************************)
(* The one queue of Bolun Phone 1.0 implements the same mailboxes, for any  *)
(* number of processes and messages: nothing is lost, doubled or received   *)
(* out of order when a message is taken out of the middle.                  *)
(***************************************************************************)
THEOREM SystemQueueImplementsMailbox == SystemSpec => SystemImplementsMailbox
<1>1. SystemInit => MailInv /\ Mail!MInit
  <2> SUFFICES ASSUME SystemInit PROVE MailInv /\ Mail!MInit
    OBVIOUS
  <2>1. messages = <<>> /\ next_message = 1 /\ processes = <<>>
    BY DEF SystemInit, IpcInit, ProcessInit
  <2>2. \A pid \in Pids : MailOf(pid) = {} /\ ~Known(pid)
    BY <2>1 DEF MailOf, MessagesFor, Known
  <2>3. MailInv
    BY <2>1 DEF MailInv, NumberedInOrder
  <2> QED BY <2>1, <2>2, <2>3 DEF Mail!MInit
<1>2. SystemInit => SystemTypeOK
  BY SystemTypesInit
<1>3. (SystemTypeOK /\ MailInv) /\ [SystemNext]_systemVars => (SystemTypeOK /\ MailInv)'
  BY SystemTypesStep, MailStep
<1>4. (SystemTypeOK /\ MailInv) /\ [SystemNext]_systemVars => [Mail!MNext]_(Mail!mailboxVars)
  BY MailStep
<1> QED BY <1>1, <1>2, <1>3, <1>4, PTL DEF SystemSpec, SystemImplementsMailbox, Mail!MSpec

-----------------------------------------------------------------------------
(* Files. *)

LEMMA ReadStep ==
  ASSUME SystemTypeOK, [SystemNext]_systemVars, NEW path \in Path, FilesAt(path) # {}
  PROVE  FilesAt(path)' # {} /\ Found(path)' = Found(path)
<1> DEFINE first == Min(FilesAt(path))
           firstThen == Min(FilesAt(path)')
<1>1. /\ files \in Seq(File) /\ DOMAIN files = 1..Len(files) /\ Len(files) \in Nat
      /\ files' \in Seq(File) /\ DOMAIN files' = 1..Len(files') /\ Len(files') \in Nat
      /\ \A f \in DOMAIN files : f \in DOMAIN files' /\ files'[f] = files[f]
  BY SystemTypesStep, FilesTypes DEF SystemTypeOK, FilesTypeOK
<1>2. /\ FilesAt(path) = {f \in DOMAIN files : files[f].path = path}
      /\ FilesAt(path)' = {f \in DOMAIN files' : files'[f].path = path}
  BY DEF FilesAt
<1>3. FilesAt(path) \subseteq FilesAt(path)' /\ FilesAt(path)' \subseteq Nat
  BY <1>1, <1>2
<1>4. first \in FilesAt(path) /\ \A f \in FilesAt(path) : first <= f
  BY <1>3, MinOfNaturals
<1>5. firstThen \in FilesAt(path)' /\ \A f \in FilesAt(path)' : firstThen <= f
  BY <1>3, MinOfNaturals
<1> HIDE DEF first, firstThen
<1>6. firstThen <= first
  BY <1>3, <1>4, <1>5
<1>7. firstThen \in FilesAt(path)
  BY <1>1, <1>2, <1>4, <1>5, <1>6
<1>8. firstThen = first
  BY <1>3, <1>4, <1>6, <1>7
<1>9. Found(path) = files[first] /\ Found(path)' = files'[firstThen]
  BY DEF Found, first, firstThen
<1> QED BY <1>1, <1>2, <1>3, <1>4, <1>8, <1>9

(***************************************************************************)
(* What bolun10_bfs_read answers for a path never changes once it answers,  *)
(* whatever files come later and whether or not they fit.                   *)
(***************************************************************************)
THEOREM ReadsAlwaysStable == SystemSpec => ReadsStable
<1>1. SystemTypeOK /\ [SystemNext]_systemVars
        => [\A path \in Path : FilesAt(path) # {} =>
              FilesAt(path)' # {} /\ Found(path)' = Found(path)]_systemVars
  BY ReadStep
<1> QED BY <1>1, SystemTypeCorrect, PTL DEF SystemSpec, ReadsStable

-----------------------------------------------------------------------------
(* The health of a platform module.  The generation stays in the lower half    *)
(* and one behind the commands counted, unless it stands at the sign bit.       *)

HealthInv ==
  /\ routed \in Nat
  /\ initialized \in BOOLEAN
  /\ initialized => /\ cpu \in CpuFamilies
                    /\ generation = IF routed + 1 <= Generations \div 2
                                      THEN routed + 1 ELSE Generations \div 2

LEMMA HalfOfGenerations ==
  /\ Generations \in Nat /\ Generations \div 2 \in Nat
  /\ Generations \div 2 >= 2 /\ Generations \div 2 < Generations - 1
BY PlatformAssumption

LEMMA HealthStep ==
  ASSUME HealthInv, [MCNext]_<<host, systemVars, before, allModuleVars>>
  PROVE  HealthInv'
<1> USE HalfOfGenerations
<1>1. CASE UNCHANGED allModuleVars
  BY <1>1 DEF HealthInv, allModuleVars, moduleVars
<1>2. CASE ModuleStep
  <2>1. CASE \E length \in 0..2 : CountedRoute(length)
    <3>1. PICK length \in 0..2 : CountedRoute(length)
      BY <2>1
    <3>2. CASE Routable(length)
      <4>1. /\ generation' = (generation + 1) % Generations
            /\ UNCHANGED <<cpu, initialized>>
        BY <3>1, <3>2 DEF CountedRoute, Route
      <4>2. length > 0 /\ (initialized => generation < Generations \div 2)
        BY <3>2 DEF Routable, Health, Signed, HealthInv
      <4>3. initialized => generation' = generation + 1 /\ routed' = routed + 1
        <5>1. initialized => (generation + 1) % Generations = generation + 1
          BY <4>2 DEF HealthInv
        <5> QED BY <3>1, <4>1, <4>2, <5>1 DEF CountedRoute
      <4>4. routed' \in Nat
        BY <3>1 DEF CountedRoute, HealthInv
      <4>5. initialized' = initialized /\ cpu' = cpu
        BY <4>1
      <4>6. initialized => routed + 2 <= Generations \div 2
        BY <4>2 DEF HealthInv
      <4>7. initialized => routed' + 1 = routed + 2 /\ generation' = routed + 2
        BY <4>2, <4>3 DEF HealthInv
      <4> HIDE DEF HealthInv
      <4>8. initialized => generation' = IF routed' + 1 <= Generations \div 2
                                           THEN routed' + 1 ELSE Generations \div 2
        BY <4>6, <4>7
      <4> QED BY <4>4, <4>5, <4>8 DEF HealthInv
    <3>3. CASE ~Routable(length)
      <4>1. UNCHANGED <<cpu, initialized, generation>>
        BY <3>1, <3>3 DEF CountedRoute, Route, moduleVars
      <4>2. routed' = IF initialized /\ length > 0 THEN routed + 1 ELSE routed
        BY <3>1 DEF CountedRoute
      <4>3. initialized /\ length > 0 => generation >= Generations \div 2
        BY <3>3 DEF Routable, Health, Signed, HealthInv
      <4> QED BY <4>1, <4>2, <4>3 DEF HealthInv
    <3> QED BY <3>2, <3>3
  <2>2. CASE \E family \in CpuFamilies \cup {"other"} : CountedInit(family)
    <3>1. PICK family \in CpuFamilies \cup {"other"} : CountedInit(family)
      BY <2>2
    <3>2. CASE UNCHANGED moduleVars /\ answered' = -1
      <4>1. UNCHANGED <<cpu, initialized, generation, routed>>
        BY <3>1, <3>2 DEF CountedInit, moduleVars
      <4> QED BY <4>1 DEF HealthInv
    <3>3. CASE /\ cpu' \in CpuFamilies /\ initialized' = TRUE
               /\ generation' = 1 /\ answered' = 0
      <4>1. routed' = 0
        BY <3>1, <3>3 DEF CountedInit
      <4> QED BY <3>3, <4>1 DEF HealthInv
    <3> QED BY <3>1, <3>2, <3>3 DEF CountedInit, InitModule
  <2>3. CASE HealthCall /\ UNCHANGED routed
    BY <2>3 DEF HealthCall, HealthInv, moduleVars
  <2> QED BY <1>2, <2>1, <2>2, <2>3 DEF ModuleStep
<1> QED BY <1>1, <1>2 DEF MCNext, SystemStep

(***************************************************************************)
(* The health of a platform module counts the commands a host tried to      *)
(* route to it since it initialised it, and stands still at the sign bit:   *)
(* for every width of the generation and however many commands come.        *)
(***************************************************************************)
THEOREM HealthAlwaysCounts == MCSpec => []HealthCountsRoutes
<1>1. ASSUME MCInit PROVE HealthInv
  <2>1. routed = 0 /\ initialized = FALSE
    BY <1>1 DEF MCInit, ModuleInit
  <2> QED BY <2>1 DEF HealthInv
<1>2. HealthInv /\ [MCNext]_<<host, systemVars, before, allModuleVars>> => HealthInv'
  BY HealthStep
<1>3. HealthInv => HealthCountsRoutes
  BY MinOfTwo, HalfOfGenerations DEF HealthInv, HealthCountsRoutes
<1> QED BY <1>1, <1>2, <1>3, PTL DEF MCSpec
=============================================================================
