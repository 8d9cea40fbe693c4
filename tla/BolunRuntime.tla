---------------------------- MODULE BolunRuntime ----------------------------
(***************************************************************************)
(* The runtime object of src/kernel/c/bolun_runtime.c as its clients see    *)
(* it: one action per entry point of include/bolun/bolun_runtime.h that can *)
(* change a process, memory, message, timer or log table.  The library has  *)
(* no threads; a behaviour is a sequence of calls that a host program makes *)
(* in any order, on behalf of any process.                                  *)
(***************************************************************************)
EXTENDS RuntimeMemory, RuntimeTimer

CONSTANTS Calls,               \* the entry points the host program uses
          BlockSizes,          \* the sizes it allocates, 0 included
          RequiredPermissions  \* the permissions it asks security_check about

ASSUME CallsAssumption ==
  /\ Calls \subseteq {"spawn_process", "schedule_next", "stop_process", "security_check",
                      "allocate_memory", "free_memory", "ipc_send", "ipc_receive",
                      "create_timer", "tick", "log", "syscall"}
  /\ BlockSizes \subseteq Size

vars == <<processVars, memoryVars, ipcVars, timerVars, logVars, result>>

\* Every table keeps within its capacity, every counter within its width.
TypeOK ==
  /\ ProcessTypeOK
  /\ MemoryTypeOK
  /\ IpcTypeOK
  /\ TimerTypeOK
  /\ LogTypeOK
  /\ result \in ResultCode

\* bolun_runtime_create
Init ==
  /\ ProcessInit
  /\ MemoryInit
  /\ IpcInit
  /\ TimerInit
  /\ LogInit
  /\ result = "OK"

-----------------------------------------------------------------------------
\* A null pointer or an empty text: the first `if' of every entry point.
RejectArguments ==
  /\ FailWith("INVALID_ARGUMENT")
  /\ UNCHANGED <<processVars, memoryVars, ipcVars, timerVars, logVars>>

\* bolun_runtime_log with an area and a message
Log ==
  /\ AppendLog
  /\ Succeed
  /\ UNCHANGED processVars

\* bolun_runtime_syscall.  The kernel itself calls as process 0.
KnownCaller(pid) == pid = KernelPid \/ Live(pid)

SyscallNumber == {"LOG", "MEMORY_STATUS", "HAL_STATUS", "SECURITY_CHECK", "other"}

\* The input of a system call: a text to log ("" is refused) or the permissions to check.
SyscallInput ==
  [number : {"LOG"}, emptyText : BOOLEAN, required : {{}}]
    \cup [number : {"SECURITY_CHECK"}, emptyText : {TRUE}, required : RequiredPermissions]
    \cup [number : SyscallNumber \ {"LOG", "SECURITY_CHECK"}, emptyText : {TRUE},
          required : {{}}]

Syscall(pid, number, emptyText, required) ==
  \/ /\ ~KnownCaller(pid)
     /\ FailWith("NOT_FOUND")
     /\ UNCHANGED <<processVars, logVars>>
  \/ /\ KnownCaller(pid)
     /\ number = "LOG"
     /\ ~emptyText
     /\ AppendLog
     /\ Succeed
     /\ UNCHANGED processVars
  \/ /\ KnownCaller(pid)
     /\ number = "LOG"
     /\ emptyText
     /\ FailWith("INVALID_ARGUMENT")
     /\ UNCHANGED <<processVars, logVars>>
  \/ /\ KnownCaller(pid)
     /\ number \in {"MEMORY_STATUS", "HAL_STATUS"}
     /\ Succeed
     /\ UNCHANGED <<processVars, logVars>>
  \/ /\ KnownCaller(pid)
     /\ number = "SECURITY_CHECK"
     /\ SecurityCheck(pid, required)
  \/ /\ KnownCaller(pid)
     /\ number = "other"
     /\ FailWith("NOT_FOUND")
     /\ UNCHANGED <<processVars, logVars>>

-----------------------------------------------------------------------------
SpawnProcessCall ==
  /\ "spawn_process" \in Calls
  /\ \E permissions \in PermissionSets, quota \in Quotas : SpawnProcess(permissions, quota)
  /\ UNCHANGED <<memoryVars, ipcVars, timerVars>>

ScheduleNextCall ==
  /\ "schedule_next" \in Calls
  /\ ScheduleNext
  /\ UNCHANGED <<memoryVars, ipcVars, timerVars>>

StopProcessCall ==
  /\ "stop_process" \in Calls
  /\ \E pid \in Pids : StopProcess(pid)
  /\ UNCHANGED <<ipcVars, timerVars>>

SecurityCheckCall ==
  /\ "security_check" \in Calls
  /\ \E pid \in Pids, required \in RequiredPermissions : SecurityCheck(pid, required)
  /\ UNCHANGED <<memoryVars, ipcVars, timerVars>>

AllocateMemoryCall ==
  /\ "allocate_memory" \in Calls
  /\ \E pid \in Pids, bytes \in BlockSizes : AllocateMemory(pid, bytes)
  /\ UNCHANGED <<ipcVars, timerVars>>

FreeMemoryCall ==
  /\ "free_memory" \in Calls
  /\ \E pid \in Pids, block_id \in BlockIds \cup {0} : FreeMemory(pid, block_id)
  /\ UNCHANGED <<ipcVars, timerVars>>

IpcSendCall ==
  /\ "ipc_send" \in Calls
  /\ \E from_pid \in Pids \cup {KernelPid}, to_pid \in Pids : IpcSend(from_pid, to_pid)
  /\ UNCHANGED <<memoryVars, timerVars>>

IpcReceiveCall(pid) ==
  /\ "ipc_receive" \in Calls
  /\ IpcReceive(pid)
  /\ UNCHANGED <<memoryVars, timerVars>>

CreateTimerCall ==
  /\ "create_timer" \in Calls
  /\ \E owner \in Pids, interval \in Intervals, repeating \in BOOLEAN :
       CreateTimer(owner, interval, repeating)
  /\ UNCHANGED memoryVars

TickCall ==
  /\ "tick" \in Calls
  /\ \E elapsed \in Elapsed : Tick(elapsed)
  /\ UNCHANGED memoryVars

LogCall ==
  /\ "log" \in Calls
  /\ Log
  /\ UNCHANGED <<memoryVars, ipcVars, timerVars>>

SyscallCall ==
  /\ "syscall" \in Calls
  /\ \E pid \in Pids \cup {KernelPid}, input \in SyscallInput :
       Syscall(pid, input.number, input.emptyText, input.required)
  /\ UNCHANGED <<memoryVars, ipcVars, timerVars>>

\* Every call but the one that lets time pass.
ClientCalls ==
  \/ SpawnProcessCall
  \/ ScheduleNextCall
  \/ StopProcessCall
  \/ SecurityCheckCall
  \/ AllocateMemoryCall
  \/ FreeMemoryCall
  \/ IpcSendCall
  \/ \E pid \in Pids : IpcReceiveCall(pid)
  \/ CreateTimerCall
  \/ LogCall
  \/ SyscallCall
  \/ RejectArguments

Next == ClientCalls \/ TickCall

Spec == Init /\ [][Next]_vars

(***************************************************************************)
(* The host program's main loop keeps asking for the next process, keeps    *)
(* receiving for every process and keeps advancing the clock by a positive  *)
(* amount.  The library itself promises nothing of the kind: it is passive. *)
(***************************************************************************)
TimePasses ==
  /\ "tick" \in Calls
  /\ \E elapsed \in Elapsed \ {0} : Tick(elapsed)
  /\ UNCHANGED memoryVars

FairScheduling == WF_vars(ScheduleNextCall)
FairReceiving == \A pid \in Pids : WF_vars(IpcReceiveCall(pid))
FairClock == WF_vars(TimePasses)

FairSpec == Spec /\ FairScheduling /\ FairReceiving /\ FairClock
=============================================================================
