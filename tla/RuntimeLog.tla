----------------------------- MODULE RuntimeLog -----------------------------
(***************************************************************************)
(* The event log of the runtime (src/kernel/c/bolun_runtime.c): an array of *)
(* MaxLogEvents entries that drops its oldest entry when a new one arrives, *)
(* and a 64-bit sequence counter.  The severity, area and message of an     *)
(* event are payload: an event is its sequence number.                      *)
(***************************************************************************)
EXTENDS Integers, Sequences, BolunResult

CONSTANTS MaxLogEvents,        \* BOLUN_MAX_LOG_EVENTS
          LogSequenceModulus   \* 2^64, the width of next_log_sequence

\* bolun_runtime_create writes two events, numbered 1 and 2, and neither may
\* be dropped or its number reused while it is still in the array.
ASSUME LogAssumption ==
  /\ MaxLogEvents \in Nat /\ MaxLogEvents >= 2
  /\ LogSequenceModulus \in Nat
  /\ LogSequenceModulus > 3 /\ LogSequenceModulus > MaxLogEvents

VARIABLES logs,               \* runtime->logs[0 .. log_count-1], oldest first
          next_log_sequence

logVars == <<logs, next_log_sequence>>

LogEvent == 0..LogSequenceModulus - 1

LogTypeOK ==
  /\ logs \in Seq(LogEvent)
  /\ Len(logs) <= MaxLogEvents
  /\ next_log_sequence \in LogEvent

\* bolun_runtime_create logs its own creation and the installed HAL profile.
LogInit ==
  /\ logs = <<1, 2>>
  /\ next_log_sequence = 3

\* uint64_t ++ wraps to 0 after 2^64 - 1.
NextLogSequence(n) == IF n + 1 = LogSequenceModulus THEN 0 ELSE n + 1

\* (mutant) a full array overwrites its newest entry
RetainedLogsDropsNewest ==
  IF Len(logs) = MaxLogEvents THEN SubSeq(logs, 1, Len(logs) - 1) ELSE logs

\* The entries that are kept when one more is about to be written.
RetainedLogs == IF Len(logs) = MaxLogEvents THEN Tail(logs) ELSE logs

AppendLog ==
  /\ logs' = Append(RetainedLogs, next_log_sequence)
  /\ next_log_sequence' = NextLogSequence(next_log_sequence)
-----------------------------------------------------------------------------
(***************************************************************************)
(* A reader of the log sees the most recent events with no gap, no         *)
(* duplicate and no reordering: the sequence numbers of the array are       *)
(* consecutive (across the 64-bit wrap too) and the newest entry is the     *)
(* last number handed out.  append_log's memmove and counter are what keep  *)
(* this true.                                                               *)
(***************************************************************************)
LogWindow ==
  /\ \A i \in 1..Len(logs) - 1 : logs[i + 1] = NextLogSequence(logs[i])
  /\ Len(logs) >= 2
  /\ next_log_sequence = NextLogSequence(logs[Len(logs)])

=============================================================================
