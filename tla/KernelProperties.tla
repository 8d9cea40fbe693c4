--------------------------- MODULE KernelProperties ---------------------------
(***************************************************************************)
(* What must hold of the kernel of src/kernel/c/bolun_kernel.c.             *)
(***************************************************************************)
EXTENDS BolunKernel

-----------------------------------------------------------------------------
(***************************************************************************)
(* A booted kernel shows its whole catalog, once: each feature exactly as   *)
(* in the table of install_default_features and every default app of the    *)
(* device, although a boot that fails part of the way leaves what it had    *)
(* installed and the next boot starts from there.                           *)
(***************************************************************************)
CatalogWholeWhenBooted ==
  booted => /\ features = DefaultFeatures
            /\ Range(DefaultsOfDevice) \subseteq Range(apps)

(***************************************************************************)
(* An app is installed once, whether a boot or a client installs it and in  *)
(* whichever order they come, and it has the tile at its own position.      *)
(***************************************************************************)
AppsInstalledOnce ==
  /\ tiles = apps
  /\ \A i, j \in DOMAIN apps : apps[i] = apps[j] => i = j

(***************************************************************************)
(* Notifications and messages are numbered in the order they are accepted,  *)
(* with no gap: neither a call refused at the capacity of the table nor a   *)
(* boot whose welcome is refused uses up a number.                          *)
(***************************************************************************)
RecordsNumbered ==
  /\ \A n \in DOMAIN notifications : notifications[n] = n
  /\ next_notification_sequence = Len(notifications) + 1
  /\ \A m \in DOMAIN messages : messages[m] = m
  /\ next_message_sequence = Len(messages) + 1

(***************************************************************************)
(* The test that boots a kernel expects BOLUN_OK and a status that says it  *)
(* is booted: so does a boot that follows a shutdown.                       *)
(***************************************************************************)
BootEndsBooted == [][BootCall => booted' /\ result' = "OK"]_vars
=============================================================================
