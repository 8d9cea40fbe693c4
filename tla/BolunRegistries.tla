--------------------------- MODULE BolunRegistries ---------------------------
(***************************************************************************)
(* The other half of the runtime object of src/kernel/c/bolun_runtime.c:    *)
(* the interrupt, device, file and package tables.  They share nothing with *)
(* the tables of BolunRuntime but the event log, and none of them looks at  *)
(* a process.  One action per entry point that can change one of them or    *)
(* answer from it; Calls chooses the entry points the host program uses.    *)
(***************************************************************************)
EXTENDS RuntimeDevices, RuntimeFiles, RuntimePackages

CONSTANTS Calls,
          ClientDevices   \* the devices a client registers itself

ASSUME RegistryCallsAssumption ==
  Calls \subseteq {"register_interrupt", "raise_interrupt", "hal_register", "hal_write",
                   "install_lumia_hal", "add_file", "move_file_to_trash", "archive_file",
                   "check_file_integrity", "install_bapp"}

ASSUME ClientDevicesAssumption == ClientDevices \subseteq HalDevice

vars == <<deviceVars, files, packages, logVars, result>>

\* The four tables keep within their capacities and the widths of their counters.
TypeOK ==
  /\ DevicesTypeOK
  /\ FilesTypeOK
  /\ PackagesTypeOK
  /\ LogTypeOK
  /\ result \in ResultCode

\* bolun_runtime_create installs the profile of the device it is created for.
InitFor(codename) ==
  /\ DevicesInit(codename)
  /\ FilesInit
  /\ PackagesInit
  /\ LogInit
  /\ result = "OK"

Init == \E codename \in Codenames : InitFor(codename)

-----------------------------------------------------------------------------
RejectArguments ==
  /\ FailWith("INVALID_ARGUMENT")
  /\ UNCHANGED <<deviceVars, files, packages, logVars>>

RegisterInterruptCall ==
  /\ "register_interrupt" \in Calls
  /\ \E irq \in Irqs : RegisterInterrupt(irq)
  /\ UNCHANGED <<hal_devices, files, packages, logVars>>

RaiseInterruptCall(irq) ==
  /\ "raise_interrupt" \in Calls
  /\ RaiseInterrupt(irq)
  /\ UNCHANGED <<hal_devices, files, packages>>

HalRegisterCall ==
  /\ "hal_register" \in Calls
  /\ \E device \in ClientDevices : HalRegister(device)
  /\ UNCHANGED <<interrupts, files, packages, logVars>>

HalWriteCall ==
  /\ "hal_write" \in Calls
  /\ \E class \in DeviceClasses : HalWrite(class)
  /\ UNCHANGED <<interrupts, files, packages, logVars>>

InstallLumiaHalCall(codename) ==
  /\ "install_lumia_hal" \in Calls
  /\ InstallLumiaHal(codename)
  /\ UNCHANGED <<interrupts, files, packages>>

AddFileCall(path, hash) ==
  /\ "add_file" \in Calls
  /\ AddFile(path, hash)
  /\ UNCHANGED <<deviceVars, packages, logVars>>

TrashFileCall(path) ==
  /\ "move_file_to_trash" \in Calls
  /\ TrashFile(path)
  /\ UNCHANGED <<deviceVars, packages, logVars>>

ArchiveFileCall ==
  /\ "archive_file" \in Calls
  /\ \E path \in Path : ArchiveFile(path)
  /\ UNCHANGED <<deviceVars, packages, logVars>>

CheckFileIntegrityCall ==
  /\ "check_file_integrity" \in Calls
  /\ \E path \in Path, hash \in Hash : CheckFileIntegrity(path, hash)
  /\ UNCHANGED <<deviceVars, packages, logVars>>

InstallBappCall(manifest) ==
  /\ "install_bapp" \in Calls
  /\ InstallBapp(manifest)
  /\ UNCHANGED <<deviceVars, files>>

Next ==
  \/ \E irq \in Irqs : RaiseInterruptCall(irq)
  \/ \E codename \in Codenames : InstallLumiaHalCall(codename)
  \/ \E path \in Path, hash \in Hash : AddFileCall(path, hash)
  \/ \E path \in Path : TrashFileCall(path)
  \/ \E manifest \in Manifests : InstallBappCall(manifest)
  \/ RegisterInterruptCall
  \/ HalRegisterCall
  \/ HalWriteCall
  \/ ArchiveFileCall
  \/ CheckFileIntegrityCall
  \/ RejectArguments

Spec == Init /\ [][Next]_vars
=============================================================================
