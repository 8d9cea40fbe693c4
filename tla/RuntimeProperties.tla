-------------------------- MODULE RuntimeProperties --------------------------
(***************************************************************************)
(* What must hold of every behaviour of the runtime: the invariants, the    *)
(* action properties and the liveness properties that need no history.      *)
(***************************************************************************)
EXTENDS BolunRuntime

(***************************************************************************)
(* Identifiers are never reused: the table position of a process, a block   *)
(* or a timer determines its identifier, also after stops and frees, so a   *)
(* stale identifier held by a client cannot come to mean another object.    *)
(***************************************************************************)
PidsBySlot ==
  /\ \A i \in DOMAIN processes : processes[i].pid = FirstPid + i - 1
  /\ next_pid = FirstPid + Len(processes)

BlockIdsBySlot ==
  /\ \A b \in DOMAIN memory_blocks : memory_blocks[b].block_id = b
  /\ next_block_id = Len(memory_blocks) + 1

TimerIdsBySlot ==
  /\ \A t \in DOMAIN timers : timers[t].timer_id = t
  /\ next_timer_id = Len(timers) + 1

IdentifiersBySlot == PidsBySlot /\ BlockIdsBySlot /\ TimerIdsBySlot

(***************************************************************************)
(* The CPU belongs to one process at most, the one under the scheduler's    *)
(* cursor, whatever was spawned and stopped since it was dispatched; and    *)
(* the cursor never leaves the table, so that a search that finds nobody    *)
(* ends where it began (bolun_runtime_schedule_next).                       *)
(***************************************************************************)
RunningAtCursor ==
  /\ scheduler_cursor < Len(processes) \/ scheduler_cursor = 0
  /\ \A i \in DOMAIN processes :
       processes[i].state = "RUNNING" => i = scheduler_cursor + 1

(***************************************************************************)
(* No memory outlives its owner and none is charged to the dead: each used  *)
(* block belongs to a live process (bolun_runtime_stop_process releases     *)
(* what allocate_memory gave out).                                          *)
(***************************************************************************)
BlocksOwnedByLive ==
  \A b \in UsedBlocks : Live(memory_blocks[b].owner_pid)

(***************************************************************************)
(* The counter that allocate_memory checks against the quota is the sum of  *)
(* the blocks the process really holds: no sequence of allocations, frees   *)
(* (of one's own or of another's identifiers, once or twice) and stops      *)
(* makes them differ.                                                       *)
(***************************************************************************)
MemoryAccounting ==
  \A i \in DOMAIN processes :
    processes[i].memory_used_bytes = TotalBytes(UsedBlocksOf(processes[i].pid))

\* No request is so large that the whole budget and it together wrap in a size_t.
\* Nothing in the code sees to it.
SizesFit == \A bytes \in BlockSizes : TotalMemory + bytes < SizeModulus

(***************************************************************************)
(* "Enforces memory quotas" (README.md): a process never holds more bytes   *)
(* than its quota, nor all processes together more than the device has.     *)
(***************************************************************************)
QuotaEnforced ==
  /\ TotalBytes(UsedBlocks) <= TotalMemory
  /\ \A i \in DOMAIN processes :
       TotalBytes(UsedBlocksOf(processes[i].pid)) <= processes[i].memory_quota_bytes

(***************************************************************************)
(* The queue is in sending order, also when messages of clients and of      *)
(* timers mix and messages are taken out of its middle: sequence numbers    *)
(* grow along it and stay below the next number.                            *)
(***************************************************************************)
QueueOrdered ==
  /\ \A m, n \in DOMAIN ipc_messages :
       m < n => ipc_messages[m].sequence < ipc_messages[n].sequence
  /\ \A m \in DOMAIN ipc_messages : ipc_messages[m].sequence < next_ipc_sequence

(***************************************************************************)
(* An active timer always has time to wait, and never more than one whole   *)
(* interval: bolun_runtime_tick neither leaves a timer at 0 nor lets the    *)
(* unsigned subtraction wrap.                                               *)
(***************************************************************************)
TimersWaiting ==
  \A t \in DOMAIN timers :
    timers[t].active => timers[t].remaining_ms \in 1..timers[t].interval_ms

-----------------------------------------------------------------------------
(***************************************************************************)
(* A stopped process is out of reach of every later call: nothing revives,  *)
(* schedules, charges or refunds it, and its slot is not given away.        *)
(***************************************************************************)
StoppedForGood ==
  [][\A i \in DOMAIN processes :
       processes[i].state = "STOPPED" => /\ i \in DOMAIN processes'
                                         /\ processes'[i] = processes[i]]_vars

-----------------------------------------------------------------------------
(***************************************************************************)
(* Under a host that keeps scheduling, every process that stays alive gets  *)
(* the CPU again and again, however many others are spawned and stopped.    *)
(***************************************************************************)
NoStarvation ==
  \A i \in 1..MaxProcesses :
    []<>(i \in DOMAIN processes => processes[i].state \in {"RUNNING", "STOPPED"})

(***************************************************************************)
(* Under a host that keeps receiving for every process, each message is     *)
(* taken out of the queue or its receiver has stopped: messages for others  *)
(* in front of it, those of the dead among them, do not block it.           *)
(***************************************************************************)
Queued(sequence) ==
  \E m \in DOMAIN ipc_messages :
    ipc_messages[m].sequence = sequence /\ Live(ipc_messages[m].to_pid)

DeliveredEventually ==
  \A sequence \in 1..MaxIpcSequence : Queued(sequence) ~> ~Queued(sequence)

(***************************************************************************)
(* Under a host whose clock advances, a one-shot timer goes off, whether or *)
(* not its owner lives or its message finds room.  (The bound of the model  *)
(* on sequence numbers also ends the wait.)                                 *)
(***************************************************************************)
Armed(t) == t \in DOMAIN timers /\ timers[t].active /\ ~timers[t].repeating

TimerEventuallyExpires ==
  \A t \in 1..MaxTimers :
    Armed(t) ~> (~Armed(t) \/ next_ipc_sequence + MaxTimers > MaxIpcSequence)
=============================================================================
