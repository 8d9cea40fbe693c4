------------------------------ MODULE Mailbox ------------------------------
(***************************************************************************)
(* What inter-process communication promises, without a shared queue: each  *)
(* process has a mailbox of its own.  Messages are numbered in the order    *)
(* they are accepted; a mailbox is read in that order; only an open mailbox *)
(* accepts or gives out messages; what is in a mailbox when it closes stays *)
(* there and keeps counting against the capacity all mailboxes share.       *)
(***************************************************************************)
EXTENDS Integers, SequencesExt

CONSTANTS Owners,     \* the processes that may ever exist
          Capacity,   \* the number of messages that may wait at a time
          LastNumber  \* a bound of the model on the numbers of messages

VARIABLES mailbox,    \* mailbox[p]: the numbers of the messages waiting for p
          waiting,    \* how many messages wait, in all the mailboxes
          status,     \* "new" before p exists, then "open", then "closed"
          next_number

mailboxVars == <<mailbox, waiting, status, next_number>>

MInit ==
  /\ mailbox = [p \in Owners |-> {}]
  /\ waiting = 0
  /\ status = [p \in Owners |-> "new"]
  /\ next_number = 1

Open(p) ==
  /\ status[p] = "new"
  /\ status' = [status EXCEPT ![p] = "open"]
  /\ UNCHANGED <<mailbox, waiting, next_number>>

Close(p) ==
  /\ status[p] = "open"
  /\ status' = [status EXCEPT ![p] = "closed"]
  /\ UNCHANGED <<mailbox, waiting, next_number>>

\* One call accepts a batch of messages: targets[k] is the receiver of the k-th.
Put(targets) ==
  /\ \A k \in DOMAIN targets : status[targets[k]] = "open"
  /\ waiting + Len(targets) <= Capacity
  /\ next_number + Len(targets) <= LastNumber + 1
  /\ mailbox' = [p \in Owners |->
       mailbox[p] \cup
       {next_number + k - 1 : k \in {j \in DOMAIN targets : targets[j] = p}}]
  /\ waiting' = waiting + Len(targets)
  /\ next_number' = next_number + Len(targets)
  /\ UNCHANGED status

\* The message that was accepted first is given out, once.
Take(p) ==
  /\ status[p] = "open"
  /\ mailbox[p] # {}
  /\ mailbox' = [mailbox EXCEPT ![p] = @ \ {Min(@)}]
  /\ waiting' = waiting - 1
  /\ UNCHANGED <<status, next_number>>

MNext ==
  \/ \E p \in Owners : Open(p) \/ Close(p) \/ Take(p)
  \/ \E targets \in BoundedSeq(Owners, Capacity) : Put(targets)

MSpec == MInit /\ [][MNext]_mailboxVars
=============================================================================
