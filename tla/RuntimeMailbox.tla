--------------------------- MODULE RuntimeMailbox ---------------------------
(***************************************************************************)
(* The shared queue of the runtime implements one mailbox per process.      *)
(***************************************************************************)
EXTENDS RuntimeProperties

\* The numbers of the queued messages of one process.
MailOf(pid) == {ipc_messages[m].sequence : m \in MessagesFor(pid)}

StatusOf(pid) ==
  IF Live(pid) THEN "open"
  ELSE IF \E i \in DOMAIN processes : processes[i].pid = pid THEN "closed"
  ELSE "new"

Mail == INSTANCE Mailbox WITH
          Owners <- Pids,
          Capacity <- MaxIpcMessages,
          LastNumber <- MaxIpcSequence,
          mailbox <- [pid \in Pids |-> MailOf(pid)],
          waiting <- Len(ipc_messages),
          status <- [pid \in Pids |-> StatusOf(pid)],
          next_number <- next_ipc_sequence

(***************************************************************************)
(* Refinement: whatever clients, timers, spawns and stops do, each process  *)
(* receives its messages once, in the order they were accepted, nothing is  *)
(* accepted for a process that does not live, and the mail of a stopped     *)
(* process is neither delivered nor discarded.                              *)
(***************************************************************************)
ImplementsMailbox == Mail!MSpec
=============================================================================
