--------------------------- MODULE SystemResources ---------------------------
(***************************************************************************)
(* The other tables of Bolun Phone 1.0 (bolun_system.c): packages, drivers, *)
(* sockets and windows, and the boot image, the power mode and the update   *)
(* generation.  Titles, versions, endpoints, sizes and colours are payload. *)
(***************************************************************************)
EXTENDS SystemProcess, BolunText

CONSTANTS MaxPackages,     \* BOLUN10_MAX_PACKAGES
          MaxDrivers,      \* BOLUN10_MAX_DRIVERS
          MaxSockets,      \* BOLUN10_MAX_SOCKETS
          MaxWindows,      \* BOLUN10_MAX_WINDOWS
          CountModulus,    \* 2^32, the width of packets and generations
          DriverHeads, DriverRests, Units,
          Versions,        \* the versions updates have
          SignatureOf      \* the signature of a version: its checksum, masked

ASSUME SystemResourcesAssumption ==
  /\ {MaxPackages, MaxDrivers, MaxSockets, MaxWindows} \subseteq Nat \ {0}
  /\ CountModulus \in Nat \ {0}
  /\ Versions \subseteq DOMAIN SignatureOf

VARIABLES packages, drivers, sockets, windows,   \* the tables up to their counts
          boot,               \* an image is prepared
          low_power_mode,
          update_generation

tableVars == <<packages, drivers, sockets, windows>>
modeVars == <<boot, low_power_mode, update_generation>>

DriverName == Text(DriverHeads, DriverRests \cup {0})
DriverClass == {"DISPLAY", "AUDIO", "CAMERA", "NET", "USB", "POWER", "STORAGE"}
Count == 0..CountModulus - 1

Driver == [name : {Kept(name) : name \in DriverName}, unit : Units, powered : BOOLEAN]
Socket == [owner_pid : Pids, tx_packets : Count, rx_packets : Count]
Window == [owner_pid : Pids]

ResourcesTypeOK ==
  /\ packages \in Seq([id : STRING, permissions : SUBSET Permission])
  /\ Len(packages) <= MaxPackages
  /\ drivers \in Seq(Driver) /\ Len(drivers) <= MaxDrivers
  /\ sockets \in Seq(Socket) /\ Len(sockets) <= MaxSockets
  /\ \A s \in DOMAIN sockets : Permitted(sockets[s].owner_pid, {"NET"})
  /\ windows \in Seq(Window) /\ Len(windows) <= MaxWindows
  /\ \A w \in DOMAIN windows : Known(windows[w].owner_pid)
  /\ boot \in BOOLEAN /\ low_power_mode \in BOOLEAN
  /\ update_generation \in Count

ResourcesInit ==
  /\ packages = <<>> /\ drivers = <<>> /\ sockets = <<>> /\ windows = <<>>
  /\ boot = FALSE /\ low_power_mode = FALSE /\ update_generation = 0

-----------------------------------------------------------------------------
(* A manifest is a sequence of lines, each a key and a value.  (The text of a *)
(* permission inside another value is one more line here.)                    *)

\* manifest_value: the first line with the key, unless its value is empty.
LinesOf(manifest, key) == {l \in DOMAIN manifest : manifest[l].key = key}

ManifestValue(manifest, key) ==
  IF LinesOf(manifest, key) = {} THEN "" ELSE manifest[Min(LinesOf(manifest, key))].value

Complete(manifest) ==
  \A key \in {"id", "title", "version"} : ManifestValue(manifest, key) # ""

\* "permission=net" is looked for anywhere, also in "permission=network".
Grants(manifest) ==
  UNION {[net |-> {"NET"}, network |-> {"NET"}, camera |-> {"CAMERA"}, none |-> {}]
           [manifest[l].value] : l \in LinesOf(manifest, "permission")}

\* bolun10_bapp_install: a package that is installed is not looked for.
BappInstall(manifest) ==
  /\ UNCHANGED <<processVars, memory, drivers, sockets, windows, modeVars>>
  /\ \/ /\ Len(packages) < MaxPackages /\ Complete(manifest)
        /\ packages' = Append(packages, [id |-> ManifestValue(manifest, "id"),
                                         permissions |-> Grants(manifest)])
        /\ Logged
        /\ Return(0)
     \/ /\ ~(Len(packages) < MaxPackages /\ Complete(manifest))
        /\ Return(-1)
        /\ UNCHANGED <<packages, log_count>>

-----------------------------------------------------------------------------
\* The entries a driver's name is compared equal to.
DriversNamed(name) == {d \in DOMAIN drivers : drivers[d].name = name}

Registered(name, unit) == \E d \in DriversNamed(name) : drivers[d].unit = unit

\* bolun10_driver_register.  A full table refuses a driver it holds as well.
DriverRegister(class, name, unit) ==
  /\ UNCHANGED <<processVars, memory, packages, sockets, windows, modeVars>>
  /\ \/ /\ Len(drivers) = MaxDrivers \/ class \notin DriverClass
        /\ Return(-1)
        /\ UNCHANGED <<drivers, log_count>>
     \/ /\ Len(drivers) < MaxDrivers /\ class \in DriverClass
        /\ Registered(name, unit)
        /\ Return(0)
        /\ UNCHANGED <<drivers, log_count>>
     \/ /\ Len(drivers) < MaxDrivers /\ class \in DriverClass
        /\ ~Registered(name, unit)
        /\ drivers' = Append(drivers, [name |-> Kept(name), unit |-> unit, powered |-> TRUE])
        /\ Logged
        /\ Return(0)

Switched(name) == Min(DriversNamed(name))

\* bolun10_driver_power, which does not ask for the unit
DriverPower(name, powered) ==
  /\ UNCHANGED <<processVars, memory, log_count, packages, sockets, windows, modeVars>>
  /\ \/ /\ DriversNamed(name) # {}
        /\ drivers' = [drivers EXCEPT ![Switched(name)].powered = powered]
        /\ Return(0)
     \/ /\ DriversNamed(name) = {}
        /\ Return(-1)
        /\ UNCHANGED drivers

-----------------------------------------------------------------------------
\* bolun10_socket_open
SocketOpen(pid) ==
  /\ UNCHANGED <<processVars, memory, log_count, packages, drivers, windows, modeVars>>
  /\ \/ /\ Len(sockets) < MaxSockets /\ Permitted(pid, {"NET"})
        /\ sockets' = Append(sockets, [owner_pid |-> pid, tx_packets |-> 0, rx_packets |-> 0])
        /\ Return(0)
     \/ /\ ~(Len(sockets) < MaxSockets /\ Permitted(pid, {"NET"}))
        /\ Return(-1)
        /\ UNCHANGED sockets

\* bolun10_socket_send: a payload with "ping" in it is answered.  No socket closes.
SocketSend(socket_id, ping) ==
  /\ UNCHANGED <<processVars, memory, log_count, packages, drivers, windows, modeVars>>
  /\ \/ /\ socket_id \in DOMAIN sockets
        /\ sockets' =
             [sockets EXCEPT
                ![socket_id].tx_packets = (@ + 1) % CountModulus,
                ![socket_id].rx_packets = (@ + IF ping THEN 1 ELSE 0) % CountModulus]
        /\ Return(0)
     \/ /\ socket_id \notin DOMAIN sockets
        /\ Return(-1)
        /\ UNCHANGED sockets

\* bolun10_window_create; a width or a height of 0 or less is refused.
WindowCreate(pid, sized) ==
  /\ UNCHANGED <<processVars, memory, log_count, packages, drivers, sockets, modeVars>>
  /\ \/ /\ sized /\ Len(windows) < MaxWindows /\ Known(pid)
        /\ windows' = Append(windows, [owner_pid |-> pid])
        /\ Return(0)
     \/ /\ ~(sized /\ Len(windows) < MaxWindows /\ Known(pid))
        /\ Return(-1)
        /\ UNCHANGED windows

-----------------------------------------------------------------------------
\* bolun10_boot_prepare; an image without components is refused.
BootPrepare(components) ==
  /\ UNCHANGED <<processVars, memory, tableVars, low_power_mode, update_generation>>
  /\ \/ components # 0 /\ boot' = TRUE /\ Logged /\ Return(0)
     \/ components = 0 /\ Return(-1) /\ UNCHANGED <<boot, log_count>>

\* bolun10_power_set_low_power
SetLowPower(enabled) ==
  /\ low_power_mode' = enabled
  /\ Logged
  /\ Return(0)
  /\ UNCHANGED <<processVars, memory, tableVars, boot, update_generation>>

\* bolun10_update_apply.  What was applied before is not asked.
UpdateApply(version, signature) ==
  /\ UNCHANGED <<processVars, memory, tableVars, boot, low_power_mode>>
  /\ \/ /\ signature = SignatureOf[version]
        /\ update_generation' = (update_generation + 1) % CountModulus
        /\ Logged
        /\ Return(0)
     \/ /\ signature # SignatureOf[version]
        /\ Return(-1)
        /\ UNCHANGED <<update_generation, log_count>>
=============================================================================
