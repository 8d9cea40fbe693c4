------------------------------ MODULE SystemIpc ------------------------------
(***************************************************************************)
(* The message queue of Bolun Phone 1.0 (bolun_system.c).  Channel, body    *)
(* and sender are payload of a message.                                     *)
(***************************************************************************)
EXTENDS SystemProcess

CONSTANTS MaxMessages,   \* BOLUN10_MAX_MESSAGES
          MaxSequence    \* a bound of the model on the numbers of messages

ASSUME SystemIpcAssumption == MaxMessages \in Nat \ {0} /\ MaxSequence \in Nat

VARIABLES messages,      \* system->messages[0 .. message_count-1]
          next_message

ipcVars == <<messages, next_message>>

Message == [to_pid : Pids, sequence : 1..MaxSequence]

IpcTypeOK ==
  /\ messages \in Seq(Message) /\ Len(messages) <= MaxMessages
  /\ \A m \in DOMAIN messages : Known(messages[m].to_pid)
  /\ next_message \in 1..MaxSequence + 1

IpcInit == messages = <<>> /\ next_message = 1

-----------------------------------------------------------------------------
Sendable(from_pid, to_pid) ==
  Len(messages) < MaxMessages /\ Known(from_pid) /\ Known(to_pid)

\* bolun10_ipc_send
IpcSend(from_pid, to_pid) ==
  /\ UNCHANGED <<processVars, memory, log_count>>
  /\ \/ /\ Sendable(from_pid, to_pid)
        /\ next_message <= MaxSequence
        /\ messages' = Append(messages, [to_pid |-> to_pid, sequence |-> next_message])
        /\ next_message' = next_message + 1
        /\ Return(0)
     \/ /\ ~Sendable(from_pid, to_pid)
        /\ Return(-1)
        /\ UNCHANGED ipcVars

MessagesFor(pid) == {m \in DOMAIN messages : messages[m].to_pid = pid}

\* (mutant) the memmove is replaced by a move of the last message into the gap
WithoutMessageSwapped(m) ==
  Front([messages EXCEPT ![m] = messages[Len(messages)]])

WithoutMessage(m) == RemoveAt(messages, m)

\* bolun10_ipc_receive: the first message for pid is taken out of the queue.
IpcReceive(pid) ==
  /\ UNCHANGED <<processVars, memory, log_count, next_message>>
  /\ \/ /\ Known(pid)
        /\ MessagesFor(pid) # {}
        /\ messages' = WithoutMessage(Min(MessagesFor(pid)))
        /\ Return(0)
     \/ /\ ~Known(pid) \/ MessagesFor(pid) = {}
        /\ Return(-1)
        /\ UNCHANGED messages
=============================================================================
