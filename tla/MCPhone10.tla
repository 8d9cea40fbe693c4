------------------------------ MODULE MCPhone10 ------------------------------
(***************************************************************************)
(* Bolun Phone 1.0 for the model checker: its system object and one of its  *)
(* platform modules, which call nothing of each other, used by host         *)
(* programs that each keep to some of the entry points.  `routed' counts    *)
(* the commands a host tried to route since it initialised the module, up   *)
(* to MaxRouted, a bound of the model.                                      *)
(***************************************************************************)
EXTENDS SystemHistory, PlatformModule

Hosts == {"scheduling", "memory", "mail", "files", "packages", "drivers", "network",
          "desktop", "modules"}

CONSTANT MaxRouted

VARIABLES host, routed

allModuleVars == <<moduleVars, answered, routed>>

MCInit ==
  /\ host \in Hosts
  /\ SharedInit
  /\ ModuleInit
  /\ routed = 0

On(hosts) == host \in hosts

\* How many processes the hosts spawn, and which: what they have to tell apart.
Spawns ==
  [ scheduling |-> [upto |-> MaxProcesses, permissions |-> {{}}, limits |-> {0}],
    memory |-> [upto |-> 2, permissions |-> {{}}, limits |-> Limits],
    mail |-> [upto |-> 3, permissions |-> {{}}, limits |-> {0}],
    files |-> [upto |-> 2, permissions |-> {{}}, limits |-> {0}],
    network |-> [upto |-> 2, permissions |-> PermissionSets, limits |-> {0}],
    desktop |-> [upto |-> 2, permissions |-> {{}}, limits |-> {0}] ]

HostSpawns ==
  /\ host \in DOMAIN Spawns
  /\ Len(processes) < Spawns[host].upto \/ Spawns[host].upto = MaxProcesses
  /\ \E permissions \in Spawns[host].permissions, limit \in Spawns[host].limits :
       SpawnCall(permissions, limit)

SystemStep ==
  /\ UNCHANGED allModuleVars
  /\ \/ HostSpawns
     \/ On({"scheduling"}) /\ ScheduleCall
     \/ On({"network"}) /\ SecurityCheckCall
     \/ On({"memory"}) /\ MemoryCall
     \/ On({"mail"}) /\ IpcCall
     \/ On({"files"}) /\ FileCall
     \/ On({"packages"}) /\ PackageCall
     \/ On({"drivers"}) /\ DriverCall
     \/ On({"network"}) /\ SocketCall
     \/ On({"desktop"}) /\ WindowCall
     \/ On({"desktop"}) /\ ModeCall
     \/ On({"packages"}) /\ LogCall
     \/ RejectArguments
  /\ RecordSpawns

CountedRoute(length) ==
  /\ routed < MaxRouted
  /\ Route(length)
  /\ routed' = IF initialized /\ length > 0 THEN routed + 1 ELSE routed

CountedInit(family) ==
  /\ InitModule(family)
  /\ routed' = IF answered' = 0 THEN 0 ELSE routed

ModuleStep ==
  /\ On({"modules"})
  /\ UNCHANGED <<systemVars, before>>
  /\ \/ \E length \in 0..2 : CountedRoute(length)
     \/ \E family \in CpuFamilies \cup {"other"} : CountedInit(family)
     \/ HealthCall /\ UNCHANGED routed

MCNext == UNCHANGED host /\ (SystemStep \/ ModuleStep)

MCSpec == MCInit /\ [][MCNext]_<<host, systemVars, before, allModuleVars>>

(***************************************************************************)
(* The test routes a command and finds the health advanced from 1 to 2:     *)
(* the health of a module counts the commands routed since it was           *)
(* initialised, until the count reaches the sign bit.  There it stays, and  *)
(* the module refuses every command, until it is initialised again.         *)
(***************************************************************************)
HealthCountsRoutes ==
  initialized => generation = Min({routed + 1, Generations \div 2})

-----------------------------------------------------------------------------
\* Lines in every order, with lines missing, doubled, empty and of a look-alike key.
MCLine == {[key |-> "id", value |-> "notes"], [key |-> "id", value |-> ""],
           [key |-> "title", value |-> "any"], [key |-> "version", value |-> "1"],
           [key |-> "guid", value |-> "maps"], [key |-> "permission", value |-> "network"]}

MCManifests == UNION {[1..n -> MCLine] : n \in {0, 3, 4}}

MCSignatures == [version \in {"1.1", "1.2"} |-> IF version = "1.1" THEN 7 ELSE 9]
=============================================================================
