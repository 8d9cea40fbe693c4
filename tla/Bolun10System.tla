---------------------------- MODULE Bolun10System ----------------------------
(***************************************************************************)
(* The system object of Bolun Phone 1.0 (bolun-phone-1.0/system/core/       *)
(* bolun_system.c): one action per entry point of bolun_system.h that can   *)
(* change it or answer from it; the three reports (home screen, frame,      *)
(* diagnostics) print counts and are left out.  The object is passive: a    *)
(* behaviour is a sequence of calls of a host program that has initialised  *)
(* it once.                                                                 *)
(***************************************************************************)
EXTENDS SystemIpc, SystemFiles, SystemResources

CONSTANTS PermissionSets, Limits,  \* what processes are spawned with
          BlockSizes,              \* the sizes allocated, 0 included
          Manifests                \* the manifests packages are installed from

ASSUME SystemInputsAssumption ==
  /\ PermissionSets \subseteq SUBSET Permission
  /\ Limits \cup BlockSizes \subseteq Size
  /\ Manifests \subseteq Seq([key : STRING, value : STRING])
  /\ \A manifest \in Manifests : \A l \in LinesOf(manifest, "permission") :
       manifest[l].value \in {"net", "network", "camera", "none"}

processPart == <<processVars, memory, log_count>>
resourcePart == <<tableVars, modeVars>>
systemVars == <<processPart, ipcVars, files, resourcePart, returned>>

\* Tables keep within their capacities, and whatever names a process names one that
\* exists; a socket's has the network permission.
SystemTypeOK ==
  /\ ProcessTypeOK
  /\ IpcTypeOK
  /\ FilesTypeOK
  /\ ResourcesTypeOK

\* bolun10_system_init
SystemInit ==
  /\ ProcessInit
  /\ IpcInit
  /\ FilesInit
  /\ ResourcesInit

-----------------------------------------------------------------------------
\* Identifiers that are in use and one that is not, 0.
AnyPid == Pids \cup {0}

\* A null pointer or an empty text: the first `if' of every entry point.
RejectArguments ==
  /\ Return(-1)
  /\ UNCHANGED <<processPart, ipcVars, files, resourcePart>>

\* bolun10_log, called by the host
LogCall ==
  /\ Logged
  /\ Return(0)
  /\ UNCHANGED <<processVars, memory, ipcVars, files, resourcePart>>

SpawnCall(permissions, limit) ==
  /\ ProcessSpawn(permissions, limit)
  /\ UNCHANGED <<ipcVars, files, resourcePart>>

ScheduleCall == ProcessSchedule /\ UNCHANGED <<ipcVars, files, resourcePart>>

SecurityCheckCall ==
  /\ \E pid \in AnyPid, required \in SUBSET Permission : SecurityCheck(pid, required)
  /\ UNCHANGED <<ipcVars, files, resourcePart>>

MemoryCall ==
  /\ \/ \E pid \in AnyPid, bytes \in BlockSizes : MemoryAlloc(pid, bytes)
     \/ \E block_id \in 0..MaxBlocks : MemoryFree(block_id)
     \/ \E block_id \in 0..MaxBlocks, address_given \in BOOLEAN, writable \in BOOLEAN :
          MemoryMap(block_id, address_given, writable)
  /\ UNCHANGED <<ipcVars, files, resourcePart>>

IpcCall ==
  /\ \/ \E from_pid, to_pid \in AnyPid : IpcSend(from_pid, to_pid)
     \/ \E pid \in AnyPid : IpcReceive(pid)
  /\ UNCHANGED <<files, resourcePart>>

FileCall ==
  /\ \/ \E path \in Path, pid \in AnyPid, checksum \in Checksummed :
          /\ checksum.of = "path" => checksum.text = path
          /\ BfsCreate(path, pid, checksum)
     \/ \E reason \in Contents : RecoveryPlan(reason)
     \/ \E path \in Path : BfsRead(path)
  /\ UNCHANGED <<ipcVars, resourcePart>>

PackageCall ==
  /\ \E manifest \in Manifests : BappInstall(manifest)
  /\ UNCHANGED <<ipcVars, files>>

DriverCall ==
  /\ \/ \E class \in {"AUDIO", "invalid"}, name \in DriverName, unit \in Units :
          DriverRegister(class, name, unit)
     \/ \E name \in DriverName, powered \in BOOLEAN : DriverPower(name, powered)
  /\ UNCHANGED <<ipcVars, files>>

SocketCall ==
  /\ \/ \E pid \in AnyPid : SocketOpen(pid)
     \/ \E socket_id \in 0..MaxSockets, ping \in BOOLEAN : SocketSend(socket_id, ping)
  /\ UNCHANGED <<ipcVars, files>>

WindowCall ==
  /\ \E pid \in AnyPid, sized \in BOOLEAN : WindowCreate(pid, sized)
  /\ UNCHANGED <<ipcVars, files>>

ModeCall ==
  /\ \/ \E components \in {0, 1} : BootPrepare(components)
     \/ \E enabled \in BOOLEAN : SetLowPower(enabled)
     \/ \E version \in Versions, signature \in Range(SignatureOf) :
          UpdateApply(version, signature)
  /\ UNCHANGED <<ipcVars, files>>

SystemNext ==
  \/ \E permissions \in PermissionSets, limit \in Limits : SpawnCall(permissions, limit)
  \/ ScheduleCall
  \/ SecurityCheckCall
  \/ MemoryCall
  \/ IpcCall
  \/ FileCall
  \/ PackageCall
  \/ DriverCall
  \/ SocketCall
  \/ WindowCall
  \/ ModeCall
  \/ LogCall
  \/ RejectArguments

SystemSpec == SystemInit /\ [][SystemNext]_systemVars
=============================================================================
