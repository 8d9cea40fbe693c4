---------------------------- MODULE SystemHistory ----------------------------
(***************************************************************************)
(* The system object of Bolun Phone 1.0 watched by a history variable that  *)
(* no call reads: before[j][i] is the number of turns that process i had    *)
(* taken when process j, the younger one, was spawned.                      *)
(***************************************************************************)
EXTENDS SystemProperties

VARIABLE before

SharedInit == SystemInit /\ before = <<>>

RecordSpawns ==
  before' = IF Len(processes') > Len(processes)
              THEN Append(before, [i \in DOMAIN processes |-> processes[i].ticks])
              ELSE before

SharedNext == SystemNext /\ RecordSpawns

SharedSpec == SharedInit /\ [][SharedNext]_<<systemVars, before>>

\* How many turns process i has taken since process j was spawned.
TurnsSince(i, j) == processes[i].ticks - before[j][i]

(***************************************************************************)
(* "Deterministic round-robin scheduling" that "records CPU ticks"          *)
(* (docs/subsystems.md), over a table that grows between two turns: of any  *)
(* two processes neither gets ahead of the other by more than one turn from *)
(* the moment both are there, and only the one that had the last turn runs. *)
(***************************************************************************)
TurnsShared ==
  /\ \A i, j \in DOMAIN processes :
       i < j => TurnsSince(i, j) - processes[j].ticks \in -1..1
  /\ \A i \in DOMAIN processes :
       processes[i].state = "RUNNING" => i = scheduler_cursor + 1
=============================================================================
