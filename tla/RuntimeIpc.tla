----------------------------- MODULE RuntimeIpc -----------------------------
(***************************************************************************)
(* The one message queue of the runtime (src/kernel/c/bolun_runtime.c),     *)
(* shared by every pair of processes.  The channel and the body of a        *)
(* message are payload; what is kept of them is the timer an expiry message *)
(* names (0 in a message of a client).                                      *)
(***************************************************************************)
EXTENDS RuntimeProcess, SequencesExt

CONSTANTS MaxIpcMessages,  \* BOLUN_MAX_IPC_MESSAGES
          MaxTimers,       \* BOLUN_MAX_TIMERS
          MaxIpcSequence   \* a bound of the model on the 64-bit message counter

ASSUME IpcAssumption ==
  /\ MaxIpcMessages \in Nat \ {0}
  /\ MaxTimers \in Nat \ {0}
  /\ MaxIpcSequence \in Nat

VARIABLES ipc_messages,       \* runtime->ipc_messages[0 .. ipc_count-1]
          next_ipc_sequence

ipcVars == <<ipc_messages, next_ipc_sequence>>

KernelPid == 0   \* the from_pid of a message the runtime sends itself

TimerIds == 1..MaxTimers

IpcMessage ==
  [ from_pid : Pids \cup {KernelPid},
    to_pid : Pids,
    timer_id : TimerIds \cup {0},
    sequence : Nat ]

IpcTypeOK ==
  /\ ipc_messages \in Seq(IpcMessage)
  /\ Len(ipc_messages) <= MaxIpcMessages
  /\ next_ipc_sequence \in Nat

IpcInit ==
  /\ ipc_messages = <<>>
  /\ next_ipc_sequence = 1

-----------------------------------------------------------------------------
\* The endpoints bolun_runtime_ipc_send accepts.
Reachable(from_pid, to_pid) == (from_pid = KernelPid \/ Live(from_pid)) /\ Live(to_pid)

IpcRoom == MaxIpcMessages - Len(ipc_messages)

ClientMessage(from_pid, to_pid) ==
  [ from_pid |-> from_pid, to_pid |-> to_pid, timer_id |-> 0,
    sequence |-> next_ipc_sequence ]

\* bolun_runtime_ipc_send, called by a client with a channel and a body
IpcSend(from_pid, to_pid) ==
  /\ UNCHANGED <<processVars, logVars>>
  /\ \/ /\ ~Reachable(from_pid, to_pid)
        /\ FailWith("NOT_FOUND")
        /\ UNCHANGED ipcVars
     \/ /\ Reachable(from_pid, to_pid)
        /\ IpcRoom <= 0
        /\ FailWith("FULL")
        /\ UNCHANGED ipcVars
     \/ /\ Reachable(from_pid, to_pid)
        /\ IpcRoom > 0
        /\ next_ipc_sequence <= MaxIpcSequence
        /\ ipc_messages' = Append(ipc_messages, ClientMessage(from_pid, to_pid))
        /\ next_ipc_sequence' = next_ipc_sequence + 1
        /\ Succeed

-----------------------------------------------------------------------------
\* (mutant) only the head of the queue is looked at
MessagesAtHeadFor(pid) == {m \in DOMAIN ipc_messages : m = 1 /\ ipc_messages[m].to_pid = pid}

MessagesFor(pid) == {m \in DOMAIN ipc_messages : ipc_messages[m].to_pid = pid}

\* (mutant) the search runs backwards
IsLastFor(m, pid) == \A n \in MessagesFor(pid) : m >= n

\* The message the search of bolun_runtime_ipc_receive stops at.
IsFirstFor(m, pid) == \A n \in MessagesFor(pid) : m <= n

\* (mutant) the last message fills the gap
WithoutMessageSwapped(m) ==
  SubSeq([ipc_messages EXCEPT ![m] = Last(ipc_messages)], 1, Len(ipc_messages) - 1)

\* The memmove that closes the gap.
WithoutMessage(m) == RemoveAt(ipc_messages, m)

\* bolun_runtime_ipc_receive
IpcReceive(pid) ==
  /\ UNCHANGED <<processVars, logVars, next_ipc_sequence>>
  /\ \/ /\ ~Live(pid) \/ MessagesFor(pid) = {}
        /\ FailWith("NOT_FOUND")
        /\ UNCHANGED ipc_messages
     \/ /\ Live(pid)
        /\ \E m \in MessagesFor(pid) :
             /\ IsFirstFor(m, pid)
             /\ ipc_messages' = WithoutMessage(m)
        /\ Succeed
=============================================================================
