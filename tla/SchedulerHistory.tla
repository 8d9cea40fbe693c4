-------------------------- MODULE SchedulerHistory --------------------------
(***************************************************************************)
(* The runtime watched by a history variable that no call reads:            *)
(*   ran_since[i]  the slots that were given the CPU since slot i had it    *)
(*                 last, or since its process was spawned                   *)
(***************************************************************************)
EXTENDS RuntimeProperties

VARIABLE ran_since

Slots == 1..MaxProcesses

\* This step gives the CPU to slot i (bolun_runtime_schedule_next counts it).
GotCpu(i) ==
  /\ i \in DOMAIN processes
  /\ processes'[i].cpu_ticks # processes[i].cpu_ticks

TurnsInit == Init /\ ran_since = [i \in Slots |-> {}]

TurnsNext ==
  /\ Next
  /\ ran_since' = [i \in Slots |->
       IF i \notin DOMAIN processes \/ GotCpu(i) THEN {}
       ELSE ran_since[i] \cup {j \in Slots : GotCpu(j)}]

\* The host keeps scheduling.
TurnsSpec == TurnsInit /\ [][TurnsNext]_<<vars, ran_since>> /\ FairScheduling

(***************************************************************************)
(* "Schedules them round-robin" (README.md), as a bound on the wait: while  *)
(* a live process waits for its turn, no other process is given the CPU     *)
(* twice, although processes are spawned and stopped in between and the     *)
(* table, over which the cursor turns, grows.                               *)
(***************************************************************************)
BoundedBypass ==
  [][\A i, j \in Slots :
       /\ i \in DOMAIN processes
       /\ processes[i].state # "STOPPED"
       /\ GotCpu(j)
       /\ j # i
       => j \notin ran_since[i]]_<<vars, ran_since>>
=============================================================================
