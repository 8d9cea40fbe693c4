----------------------------- MODULE BolunKernel -----------------------------
(***************************************************************************)
(* The kernel object of src/kernel/c/bolun_kernel.c: boot and shutdown, the *)
(* catalog of features and apps that a boot installs, the apps clients      *)
(* install and launch, and the notification, contact and message records.   *)
(* All tables have a fixed capacity and only ever grow.                     *)
(*                                                                          *)
(* An app and its tile are kept as the app's identifier, a feature and a    *)
(* contact as an element of a set; the texts of notifications and messages  *)
(* are payload.                                                             *)
(***************************************************************************)
EXTENDS BolunTypes, Integers, SequencesExt, BolunResult

CONSTANTS DefaultFeatures,   \* the feature table of install_default_features
          DefaultApps,       \* the app table of install_default_apps
          DeveloperTools,    \* those that are installed in developer mode only
          DeveloperMode,     \* config.developer_mode_enabled
          ClientApps,        \* the apps the clients install, default ones among them
          Contacts,          \* the contacts the clients add
          Calls              \* the entry points the clients use

VARIABLES booted,
          features,          \* kernel->features[0 .. feature_count-1]
          apps,              \* kernel->apps[0 .. app_count-1]
          tiles,             \* kernel->tiles[0 .. tile_count-1]
          notifications,     \* the sequence numbers of kernel->notifications
          next_notification_sequence,
          contacts,
          messages,          \* the sequence numbers of kernel->messages
          next_message_sequence

catalogVars == <<features, apps, tiles>>
notificationVars == <<notifications, next_notification_sequence>>
recordVars == <<contacts, messages, next_message_sequence>>
vars == <<booted, catalogVars, notificationVars, recordVars, result>>

AppId == Range(DefaultApps) \cup ClientApps

ASSUME KernelAssumption ==
  /\ DefaultFeatures \in Seq(Range(DefaultFeatures))
  /\ 2 * Len(DefaultFeatures) > MaxFeatures   \* 183 of 320, so that none is there twice
  /\ DefaultApps \in Seq(Range(DefaultApps))
  /\ DeveloperTools \subseteq Range(DefaultApps)
  /\ DeveloperMode \in BOOLEAN
  /\ Calls \subseteq {"boot", "shutdown", "install_app", "launch_app",
                      "evaluate_store_removal", "push_notification", "add_contact",
                      "send_message"}

\* Every table keeps within its capacity, whatever was refused part of the way.
TypeOK ==
  /\ booted \in BOOLEAN
  /\ features \in Seq(Range(DefaultFeatures)) /\ Len(features) <= MaxFeatures
  /\ apps \in Seq(AppId) /\ Len(apps) <= MaxApps
  /\ tiles \in Seq(AppId) /\ Len(tiles) <= MaxTiles
  /\ notifications \in Seq(Nat) /\ Len(notifications) <= MaxNotifications
  /\ next_notification_sequence \in Nat
  /\ contacts \in Seq(Contacts) /\ Len(contacts) <= MaxContacts
  /\ messages \in Seq(Nat) /\ Len(messages) <= MaxMessages
  /\ next_message_sequence \in Nat
  /\ result \in ResultCode

\* bolun_kernel_create: nothing is installed before the first boot.
Init ==
  /\ booted = FALSE
  /\ features = <<>> /\ apps = <<>> /\ tiles = <<>>
  /\ notifications = <<>> /\ next_notification_sequence = 1
  /\ contacts = <<>>
  /\ messages = <<>> /\ next_message_sequence = 1
  /\ result = "OK"

-----------------------------------------------------------------------------
\* How many more features and apps the tables take.
FeatureRoom == MaxFeatures - Len(features)

AppRoom == Min({MaxApps - Len(apps), MaxTiles - Len(tiles)})

\* (mutant) an app that is installed already is installed again
InstalledNever(app_id) == FALSE

Installed(app_id) == app_id \in Range(apps)

OnDevice(app_id) == DeveloperMode \/ app_id \notin DeveloperTools

\* What the loop of install_default_apps takes of the first n apps of its table.
DefaultsUpTo[n \in 0..Len(DefaultApps)] ==
  IF n = 0 THEN <<>>
  ELSE DefaultsUpTo[n - 1] \o (IF OnDevice(DefaultApps[n]) THEN <<DefaultApps[n]>> ELSE <<>>)

\* The default apps of this device.
DefaultsOfDevice == DefaultsUpTo[Len(DefaultApps)]

\* The first n of them can be installed one after the other.
CanInstall(n) ==
  /\ n <= AppRoom
  /\ \A k \in 1..n : ~Installed(DefaultsOfDevice[k])
  /\ \A j, k \in 1..n : DefaultsOfDevice[j] = DefaultsOfDevice[k] => j = k

\* How many are, until the loop of install_default_apps meets an error.
InstalledDefaults ==
  Max({n \in 0..Len(DefaultsOfDevice) : CanInstall(n)})

\* (mutant) add_feature does not check the capacity
FeaturesFitUnchecked == TRUE

FeaturesFit == Len(DefaultFeatures) <= FeatureRoom

\* install_default_features adds its table, or what there is room for.
InstallFeatures ==
  features' = features \o (IF FeaturesFit THEN DefaultFeatures
                           ELSE SubSeq(DefaultFeatures, 1, FeatureRoom))

\* (mutant) the result of install_default_apps is not looked at
AppsGoInIgnored == TRUE

AppsGoIn == InstalledDefaults = Len(DefaultsOfDevice)

\* (mutant) a refused notification uses up its number
NextNotificationNumberAlways == next_notification_sequence + 1

\* next_notification_sequence after a call that is accepted or refused
NextNotificationNumber ==
  IF Len(notifications) < MaxNotifications
    THEN next_notification_sequence + 1 ELSE next_notification_sequence

\* What bolun_kernel_push_notification stores; a full table takes nothing.
StoreNotification ==
  /\ next_notification_sequence' = NextNotificationNumber
  /\ notifications' = IF Len(notifications) < MaxNotifications
                        THEN Append(notifications, next_notification_sequence)
                        ELSE notifications

InstallDefaults ==
  /\ apps' = apps \o SubSeq(DefaultsOfDevice, 1, InstalledDefaults)
  /\ tiles' = tiles \o SubSeq(DefaultsOfDevice, 1, InstalledDefaults)

\* bolun_kernel_boot.  An error part of the way leaves what is installed.
Boot ==
  /\ UNCHANGED recordVars
  /\ \/ /\ booted
        /\ Succeed
        /\ UNCHANGED <<booted, catalogVars, notificationVars>>
     \/ /\ ~booted
        /\ ~FeaturesFit
        /\ InstallFeatures
        /\ FailWith("FULL")
        /\ UNCHANGED <<booted, apps, tiles, notificationVars>>
     \/ /\ ~booted
        /\ FeaturesFit
        /\ ~AppsGoIn
        /\ InstallFeatures
        /\ InstallDefaults
        /\ FailWith(IF InstalledDefaults = AppRoom THEN "FULL" ELSE "INVALID_ARGUMENT")
        /\ UNCHANGED <<booted, notificationVars>>
     \/ /\ ~booted
        /\ FeaturesFit
        /\ AppsGoIn
        /\ InstallFeatures
        /\ InstallDefaults
        /\ StoreNotification   \* the welcome, whose result is ignored
        /\ booted' = TRUE
        /\ Succeed

\* bolun_kernel_shutdown: the catalog stays.
Shutdown ==
  /\ booted' = FALSE
  /\ Succeed
  /\ UNCHANGED <<catalogVars, notificationVars, recordVars>>

-----------------------------------------------------------------------------
\* bolun_kernel_install_app, which does not ask whether the kernel is booted
InstallApp(app_id) ==
  /\ UNCHANGED <<booted, features, notificationVars, recordVars>>
  /\ \/ /\ AppRoom <= 0
        /\ FailWith("FULL")
        /\ UNCHANGED <<apps, tiles>>
     \/ /\ AppRoom > 0
        /\ Installed(app_id)
        /\ FailWith("INVALID_ARGUMENT")
        /\ UNCHANGED <<apps, tiles>>
     \/ /\ AppRoom > 0
        /\ ~Installed(app_id)
        /\ apps' = Append(apps, app_id)
        /\ tiles' = Append(tiles, app_id)
        /\ Succeed

\* bolun_kernel_launch_app
LaunchApp(app_id) ==
  /\ UNCHANGED <<booted, catalogVars, notificationVars, recordVars>>
  /\ \/ ~booted /\ FailWith("NOT_BOOTED")
     \/ booted /\ Installed(app_id) /\ Succeed
     \/ booted /\ ~Installed(app_id) /\ FailWith("NOT_FOUND")

\* bolun_kernel_evaluate_store_removal answers from its arguments and records nothing.
EvaluateStoreRemoval ==
  /\ Succeed
  /\ UNCHANGED <<booted, catalogVars, notificationVars, recordVars>>

-----------------------------------------------------------------------------
\* bolun_kernel_push_notification
PushNotification ==
  /\ StoreNotification
  /\ IF Len(notifications) < MaxNotifications THEN Succeed ELSE FailWith("FULL")
  /\ UNCHANGED <<booted, catalogVars, recordVars>>

\* bolun_kernel_add_contact: the same contact may be added twice.
AddContact(contact) ==
  /\ UNCHANGED <<booted, catalogVars, notificationVars, messages, next_message_sequence>>
  /\ \/ /\ Len(contacts) >= MaxContacts
        /\ FailWith("FULL")
        /\ UNCHANGED contacts
     \/ /\ Len(contacts) < MaxContacts
        /\ contacts' = Append(contacts, contact)
        /\ Succeed

\* bolun_kernel_send_message
SendMessage ==
  /\ UNCHANGED <<booted, catalogVars, notificationVars, contacts>>
  /\ \/ /\ Len(messages) >= MaxMessages
        /\ FailWith("FULL")
        /\ UNCHANGED <<messages, next_message_sequence>>
     \/ /\ Len(messages) < MaxMessages
        /\ messages' = Append(messages, next_message_sequence)
        /\ next_message_sequence' = next_message_sequence + 1
        /\ Succeed

\* A null pointer or an empty text: the first `if' of every entry point.
RejectArguments ==
  /\ FailWith("INVALID_ARGUMENT")
  /\ UNCHANGED <<booted, catalogVars, notificationVars, recordVars>>

-----------------------------------------------------------------------------
BootCall == "boot" \in Calls /\ Boot

ShutdownCall == "shutdown" \in Calls /\ Shutdown

InstallAppCall == "install_app" \in Calls /\ \E app_id \in ClientApps : InstallApp(app_id)

LaunchAppCall(app_id) == "launch_app" \in Calls /\ LaunchApp(app_id)

EvaluateStoreRemovalCall == "evaluate_store_removal" \in Calls /\ EvaluateStoreRemoval

PushNotificationCall == "push_notification" \in Calls /\ PushNotification

AddContactCall == "add_contact" \in Calls /\ \E contact \in Contacts : AddContact(contact)

SendMessageCall == "send_message" \in Calls /\ SendMessage

Next ==
  \/ BootCall
  \/ ShutdownCall
  \/ InstallAppCall
  \/ \E app_id \in AppId : LaunchAppCall(app_id)
  \/ EvaluateStoreRemovalCall
  \/ PushNotificationCall
  \/ AddContactCall
  \/ SendMessageCall
  \/ RejectArguments

Spec == Init /\ [][Next]_vars
=============================================================================
