---------------------------- MODULE PlatformModule ----------------------------
(***************************************************************************)
(* One of the 24 modules of the platform (scheduler/scheduler.c and those   *)
(* like it, which differ in their names only): a state that is initialised, *)
(* asked for its health and routed commands to.  The generation is a        *)
(* uint32_t that callers get as an int, so that its upper half is negative. *)
(***************************************************************************)
EXTENDS Integers

CONSTANTS CpuFamilies,   \* BolunCpuFamily
          Generations    \* 2^32, the width of the generation; even

ASSUME PlatformAssumption ==
  /\ CpuFamilies # {}
  /\ Generations \in Nat /\ Generations % 2 = 0 /\ Generations >= 4

VARIABLES cpu, initialized, generation,
          answered       \* what the last call returned

moduleVars == <<cpu, initialized, generation>>

\* The state before the first call, zeroed as a static object is.
ModuleInit == cpu = "none" /\ initialized = FALSE /\ generation = 0 /\ answered = 0

\* bolun_scheduler_init, also of a state that is in use
InitModule(family) ==
  \/ /\ family \in CpuFamilies
     /\ cpu' = family /\ initialized' = TRUE /\ generation' = 1
     /\ answered' = 0
  \/ /\ family \notin CpuFamilies
     /\ answered' = -1
     /\ UNCHANGED moduleVars

\* The conversion of a uint32_t to int.
Signed(n) == IF n < Generations \div 2 THEN n ELSE n - Generations

\* bolun_scheduler_health
Health == IF initialized /\ cpu \in CpuFamilies THEN Signed(generation) ELSE -1

HealthCall == answered' = Health /\ UNCHANGED moduleVars

\* (mutant) a command is routed whatever the health of the module
RoutableAlways(length) == initialized /\ length > 0

Routable(length) == Health >= 0 /\ length > 0

\* bolun_scheduler_route, with a command of a given length
Route(length) ==
  \/ /\ Routable(length)
     /\ generation' = (generation + 1) % Generations
     /\ answered' = Signed((generation' + length) % Generations)
     /\ UNCHANGED <<cpu, initialized>>
  \/ /\ ~Routable(length)
     /\ answered' = -1
     /\ UNCHANGED moduleVars

ModuleNext ==
  \/ \E family \in CpuFamilies \cup {"other"} : InitModule(family)
  \/ HealthCall
  \/ \E length \in 0..2 : Route(length)

ModuleSpec == ModuleInit /\ [][ModuleNext]_<<moduleVars, answered>>
=============================================================================
