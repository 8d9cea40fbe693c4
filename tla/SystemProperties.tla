--------------------------- MODULE SystemProperties ---------------------------
(***************************************************************************)
(* What must hold of the system object of Bolun Phone 1.0, beyond its type  *)
(* invariant SystemTypeOK.                                                  *)
(***************************************************************************)
EXTENDS Bolun10System, TableSums

\* No limit and size asked for together reach the width of size_t.
LimitsFit ==
  \A limit \in Limits \cup {DefaultLimit}, bytes \in BlockSizes :
    limit + bytes < SizeModulus

(***************************************************************************)
(* "Accounts memory against per-process budgets" and "returns the budget"   *)
(* (docs/subsystems.md): a process is charged for exactly the blocks it     *)
(* holds and never holds more than its limit, whoever frees them, and when  *)
(* they are freed twice.  (For sizes whose sums do not wrap.)               *)
(***************************************************************************)
BytesHeld(pid) ==
  BytesIn(memory, {b \in DOMAIN memory : memory[b].owner_pid = pid /\ memory[b].used})

BudgetsKept ==
  \A pid \in DOMAIN processes :
    /\ processes[pid].memory_used = BytesHeld(pid)
    /\ BytesHeld(pid) <= processes[pid].memory_limit

(***************************************************************************)
(* What bolun10_bfs_read answers for a path never changes once it answers:  *)
(* later files of that path, recovery plans, files whose path is cut off to *)
(* it, and refusals of a full table come behind it.                         *)
(***************************************************************************)
ReadsStable ==
  [][\A path \in Path :
       FilesAt(path) # {} => FilesAt(path)' # {} /\ Found(path)' = Found(path)]_systemVars

-----------------------------------------------------------------------------
MailOf(pid) == {messages[m].sequence : m \in MessagesFor(pid)}

Mail == INSTANCE Mailbox WITH
          Owners <- Pids,
          Capacity <- MaxMessages,
          LastNumber <- MaxSequence,
          mailbox <- [pid \in Pids |-> MailOf(pid)],
          waiting <- Len(messages),
          status <- [pid \in Pids |-> IF Known(pid) THEN "open" ELSE "new"],
          next_number <- next_message

(***************************************************************************)
(* Refinement: the one queue of the system is a mailbox for each process,   *)
(* as that of the runtime is: first in, first out, nothing lost or doubled  *)
(* when a message is taken out of the middle or the queue is full.          *)
(***************************************************************************)
SystemImplementsMailbox == Mail!MSpec
=============================================================================
