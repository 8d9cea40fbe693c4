--------------------------- MODULE RuntimeProcess ---------------------------
(***************************************************************************)
(* The process table and the round-robin scheduler of the runtime           *)
(* (src/kernel/c/bolun_runtime.c).  A slot of the table is never reused: a  *)
(* stopped process keeps its slot, so slots, and the process identifiers    *)
(* handed out in their order, are numbered for the life of the runtime.     *)
(*                                                                          *)
(* app_id and title are payload; priority and sandboxed are functions of    *)
(* the permissions that no operation reads.  No code of the runtime sets    *)
(* the states CREATED and WAITING.                                          *)
(***************************************************************************)
EXTENDS RuntimeLog, FiniteSetsExt

CONSTANTS MaxProcesses,    \* BOLUN_MAX_PROCESSES
          TickModulus,     \* 2^64, the width of cpu_ticks
          SizeModulus,     \* 2^w, the width of size_t
          DefaultQuota,    \* 4 MiB, the quota of a process spawned with quota 0
          Quotas,          \* the quotas the clients ask for, 0 included
          PermissionSets   \* the permission sets the clients ask for

ASSUME ProcessAssumption ==
  /\ MaxProcesses \in Nat \ {0}
  /\ TickModulus \in Nat /\ TickModulus >= 2
  /\ SizeModulus \in Nat \ {0}
  /\ DefaultQuota \in 1..SizeModulus - 1
  /\ Quotas \subseteq 0..SizeModulus - 1

VARIABLES processes,         \* runtime->processes[0 .. process_count-1]
          scheduler_cursor,  \* 0-based, as in the code
          next_pid

processVars == <<processes, scheduler_cursor, next_pid>>

FirstPid == 100
Pids == FirstPid..FirstPid + MaxProcesses - 1
Size == 0..SizeModulus - 1

Process ==
  [ pid : Pids,
    state : {"READY", "RUNNING", "STOPPED"},
    permissions : PermissionSets,
    memory_quota_bytes : Size,
    memory_used_bytes : Size,
    cpu_ticks : 0..TickModulus - 1 ]

ProcessTypeOK ==
  /\ processes \in Seq(Process)
  /\ Len(processes) <= MaxProcesses
  /\ scheduler_cursor \in 0..MaxProcesses - 1
  /\ next_pid \in FirstPid..FirstPid + MaxProcesses

ProcessInit ==
  /\ processes = <<>>
  /\ scheduler_cursor = 0
  /\ next_pid = FirstPid

-----------------------------------------------------------------------------
(* find_process: the first slot that holds pid and is not stopped. *)

LiveSlots(pid) ==
  {i \in DOMAIN processes : processes[i].pid = pid /\ processes[i].state # "STOPPED"}

Live(pid) == LiveSlots(pid) # {}

SlotOf(pid) == Min(LiveSlots(pid))

-----------------------------------------------------------------------------
EffectiveQuota(quota) == IF quota = 0 THEN DefaultQuota ELSE quota

NewProcess(permissions, quota) ==
  [ pid |-> next_pid,
    state |-> "READY",
    permissions |-> permissions,
    memory_quota_bytes |-> EffectiveQuota(quota),
    memory_used_bytes |-> 0,
    cpu_ticks |-> 0 ]

\* bolun_runtime_spawn_process
SpawnProcess(permissions, quota) ==
  \/ /\ Len(processes) < MaxProcesses
     /\ processes' = Append(processes, NewProcess(permissions, quota))
     /\ next_pid' = next_pid + 1
     /\ AppendLog
     /\ Succeed
     /\ UNCHANGED scheduler_cursor
  \/ /\ Len(processes) >= MaxProcesses
     /\ FailWith("FULL")
     /\ UNCHANGED <<processVars, logVars>>

-----------------------------------------------------------------------------
\* (mutant) a stopped process is scheduled
RunnableOnceStopped(i) == processes[i].state # "CREATED"

Runnable(i) == processes[i].state \in {"READY", "RUNNING"}

\* (mutant) the search always starts at the top of the table
CandidateFromTop(k) == k

\* (mutant) the search starts at the cursor instead of after it
CandidateAtCursor(k) == ((scheduler_cursor + k - 1) % Len(processes)) + 1

\* The slot (1-based) that the k-th attempt of the search loop looks at.
Candidate(k) == ((scheduler_cursor + k) % Len(processes)) + 1

\* (mutant) the previous process is left RUNNING
DemotedNever(process) == process

Demoted(process) ==
  IF process.state = "RUNNING" THEN [process EXCEPT !.state = "READY"] ELSE process

Dispatched(process) ==
  [process EXCEPT !.state = "RUNNING", !.cpu_ticks = (@ + 1) % TickModulus]

\* bolun_runtime_schedule_next: the search starts after the cursor, makes at
\* most one turn of the table, and gives the CPU to the first runnable slot.
\* A search that finds none has moved the cursor all the way round.
ScheduleNext ==
  \/ \E k \in 1..Len(processes) :
       /\ Runnable(Candidate(k))
       /\ \A j \in 1..k - 1 : ~Runnable(Candidate(j))
       /\ scheduler_cursor' = Candidate(k) - 1
       /\ processes' = [i \in DOMAIN processes |->
                          IF i = Candidate(k) THEN Dispatched(processes[i])
                                              ELSE Demoted(processes[i])]
       /\ Succeed
       /\ UNCHANGED <<next_pid, logVars>>
  \/ /\ \A i \in DOMAIN processes : ~Runnable(i)
     /\ FailWith("NOT_FOUND")
     /\ UNCHANGED <<processVars, logVars>>

-----------------------------------------------------------------------------
\* bolun_runtime_security_check, which reads the process table only.
SecurityCheck(pid, required) ==
  /\ \/ /\ Live(pid)
        /\ required \subseteq processes[SlotOf(pid)].permissions
        /\ Succeed
     \/ /\ Live(pid)
        /\ ~ (required \subseteq processes[SlotOf(pid)].permissions)
        /\ FailWith("INVALID_ARGUMENT")
     \/ /\ ~Live(pid)
        /\ FailWith("NOT_FOUND")
  /\ UNCHANGED <<processVars, logVars>>
=============================================================================
