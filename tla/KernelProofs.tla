----------------------------- MODULE KernelProofs -----------------------------
(***************************************************************************)
(* The kernel, for every capacity, catalog, device and set of calls: its    *)
(* tables keep within their capacities, its apps are installed once, its    *)
(* catalog is whole when it is booted, and its records are numbered without *)
(* gaps.                                                                    *)
(***************************************************************************)
EXTENDS KernelProperties, OperatorLemmas

-----------------------------------------------------------------------------
(* The default apps of the device. *)

LEMMA DefaultsAreApps == DefaultsOfDevice \in Seq(AppId)
<1> DEFINE N == Len(DefaultApps)
           S == Seq(Range(DefaultApps))
           none == <<>>
           new(n) == IF OnDevice(DefaultApps[n]) THEN <<DefaultApps[n]>> ELSE <<>>
           step == [n \in 1..N |-> [taken \in S |-> taken \o new(n)]]
           Upto(f, n) == IF n = 0 THEN none ELSE f[n - 1] \o new(n)
           IsLoop(f) == f = [n \in 0..N |-> Upto(f, n)]
<1>1. N \in Nat /\ \A n \in 1..N : DefaultApps[n] \in Range(DefaultApps)
  BY KernelAssumption DEF Range
<1>2. \A n \in 1..N : new(n) \in S
  BY <1>1
<1>3. none \in S /\ \A n \in 1..N, taken \in S : taken \o new(n) \in S
  <2> HIDE DEF new, N
  <2> QED BY <1>2
<1>4. DefaultsUpTo = CHOOSE f : IsLoop(f)
  BY DEF DefaultsUpTo
<1> HIDE DEF N, S, none, new
<1>5. step \in [1..N -> [S -> S]]
  BY <1>3
<1> HIDE DEF step
<1>6. PICK f : /\ f \in [0..N -> S] /\ f[0] = none
               /\ \A n \in 1..N : f[n] = step[n][f[n - 1]]
  <2>1. PICK f : Recursion(f, N, S, none, step)
    BY <1>1, <1>3, <1>5, RecursionUpTo
  <2> QED BY <2>1 DEF Recursion
<1>7. IsLoop(f)
  <2>1. ASSUME NEW n \in 0..N PROVE f[n] = Upto(f, n)
    <3>1. CASE n = 0
      BY <1>6, <3>1
    <3>2. CASE n # 0
      <4>1. n \in 1..N /\ n - 1 \in 0..N
        BY <1>1, <3>2
      <4>2. f[n - 1] \in S /\ f[n] = step[n][f[n - 1]]
        BY <1>6, <4>1
      <4> QED BY <3>2, <4>1, <4>2 DEF step
    <3> QED BY <3>1, <3>2
  <2> HIDE DEF Upto
  <2> QED BY <1>6, <2>1
<1>8. IsLoop(DefaultsUpTo)
  <2> HIDE DEF IsLoop
  <2> QED BY <1>4, <1>7
<1>9. \A n \in 0..N : DefaultsUpTo[n] = Upto(DefaultsUpTo, n)
  <2> HIDE DEF Upto
  <2> QED BY <1>8
<1>10. \A n \in 0..N : DefaultsUpTo[n] \in S
  <2> DEFINE T == {n \in 0..N : DefaultsUpTo[n] \in S}
  <2>1. 0 \in T
    BY <1>1, <1>3, <1>9
  <2>2. ASSUME NEW n \in 1..N, n - 1 \in T PROVE n \in T
    <3>1. n \in 0..N /\ n # 0 /\ DefaultsUpTo[n - 1] \in S
      BY <1>1, <2>2
    <3> QED BY <1>3, <1>9, <3>1
  <2> HIDE DEF T
  <2>3. 0..N \subseteq T
    BY <1>1, <2>1, <2>2, InductionUpTo
  <2> QED BY <2>3 DEF T
<1>11. DefaultsUpTo[N] \in Seq(Range(DefaultApps))
  BY <1>1, <1>10 DEF S
<1> QED BY <1>11 DEF DefaultsOfDevice, AppId, N

-----------------------------------------------------------------------------
(* The type invariant.  The room for apps and the number of default apps that  *)
(* go in are numbers, so that what boot installs fits.                          *)

LEMMA Capacities ==
  {MaxApps, MaxTiles, MaxFeatures, MaxNotifications, MaxContacts, MaxMessages} \subseteq Nat \ {0}
BY CapacityAssumption

LEMMA Rooms ==
  ASSUME TypeOK
  PROVE  /\ FeatureRoom \in Nat /\ FeatureRoom + Len(features) = MaxFeatures
         /\ AppRoom \in Nat
         /\ AppRoom + Len(apps) <= MaxApps /\ AppRoom + Len(tiles) <= MaxTiles
<1>1. /\ Len(features) \in Nat /\ Len(features) <= MaxFeatures
      /\ Len(apps) \in Nat /\ Len(apps) <= MaxApps
      /\ Len(tiles) \in Nat /\ Len(tiles) <= MaxTiles
  BY DEF TypeOK
<1>2. AppRoom = IF MaxApps - Len(apps) <= MaxTiles - Len(tiles)
                  THEN MaxApps - Len(apps) ELSE MaxTiles - Len(tiles)
  <2>1. MaxApps - Len(apps) \in Int /\ MaxTiles - Len(tiles) \in Int
    BY <1>1, Capacities
  <2> QED BY <2>1, MinOfTwo DEF AppRoom
<1>3. MaxApps \in Nat /\ MaxTiles \in Nat /\ MaxFeatures \in Nat
  BY Capacities
<1>4. FeatureRoom \in Nat /\ FeatureRoom + Len(features) = MaxFeatures
  BY <1>1, <1>3 DEF FeatureRoom
<1>5. /\ AppRoom \in Nat
      /\ AppRoom + Len(apps) <= MaxApps /\ AppRoom + Len(tiles) <= MaxTiles
  BY ONLY <1>1, <1>2, <1>3
<1> QED BY <1>4, <1>5

LEMMA InstalledDefaultsFit ==
  ASSUME TypeOK
  PROVE  InstalledDefaults \in 0..Len(DefaultsOfDevice) /\ CanInstall(InstalledDefaults)
<1> DEFINE counts == {n \in 0..Len(DefaultsOfDevice) : CanInstall(n)}
<1>1. Len(DefaultsOfDevice) \in Nat
  BY DefaultsAreApps
<1>2. 0 \in counts
  BY <1>1, Rooms DEF CanInstall
<1>3. counts \subseteq 0..Len(DefaultsOfDevice)
  OBVIOUS
<1>4. Max(counts) \in counts
  <2> HIDE DEF counts
  <2> QED BY <1>1, <1>2, <1>3, MaxOfNaturals
<1> QED BY <1>4 DEF InstalledDefaults

\* The apps that a boot appends, whether or not it ends booted.
LEMMA DefaultsInstalled ==
  ASSUME TypeOK, InstallDefaults
  PROVE  LET n == InstalledDefaults IN
         /\ n \in 0..Len(DefaultsOfDevice) /\ CanInstall(n)
         /\ apps' \in Seq(AppId) /\ Len(apps') = Len(apps) + n /\ Len(apps') <= MaxApps
         /\ tiles' \in Seq(AppId) /\ Len(tiles') <= MaxTiles
         /\ \A i \in 1..Len(apps) : apps'[i] = apps[i]
         /\ \A i \in 1..n : apps'[Len(apps) + i] = DefaultsOfDevice[i]
<1> DEFINE n == InstalledDefaults
           news == SubSeq(DefaultsOfDevice, 1, n)
<1>1. n \in 0..Len(DefaultsOfDevice) /\ CanInstall(n)
  BY InstalledDefaultsFit
<1>2. DefaultsOfDevice \in Seq(AppId)
  BY DefaultsAreApps
<1>3. apps' = apps \o news /\ tiles' = tiles \o news
  BY DEF InstallDefaults
<1> HIDE DEF n
<1>4. /\ news \in Seq(AppId) /\ Len(news) = n
      /\ \A i \in 1..n : news[i] = DefaultsOfDevice[i]
  BY <1>1, <1>2
<1>5. /\ apps \in Seq(AppId) /\ tiles \in Seq(AppId)
      /\ Len(apps) + n <= MaxApps /\ Len(tiles) + n <= MaxTiles
  <2>1. n <= AppRoom
    BY <1>1 DEF CanInstall
  <2>2. n \in Nat /\ AppRoom \in Nat
    BY <1>1, <1>2, Rooms
  <2>3. apps \in Seq(AppId) /\ tiles \in Seq(AppId) /\ Len(apps) \in Nat /\ Len(tiles) \in Nat
    BY DEF TypeOK
  <2> QED BY <2>1, <2>2, <2>3, Rooms, Capacities
<1> HIDE DEF news
<1>6. /\ apps' \in Seq(AppId) /\ Len(apps') = Len(apps) + n
      /\ tiles' \in Seq(AppId) /\ Len(tiles') = Len(tiles) + n
  BY <1>3, <1>4, <1>5, Concatenated
<1>7. /\ \A i \in 1..Len(apps) : apps'[i] = apps[i]
      /\ \A i \in 1..n : apps'[Len(apps) + i] = DefaultsOfDevice[i]
  BY <1>3, <1>4, <1>5
<1> QED BY <1>1, <1>5, <1>6, <1>7 DEF n

\* Of the features a boot appends all, or as many as make the table full.
LEMMA FeaturesInstalled ==
  ASSUME TypeOK, InstallFeatures
  PROVE  /\ features' \in Seq(Range(DefaultFeatures))
         /\ FeaturesFit => /\ Len(features') = Len(features) + Len(DefaultFeatures)
                           /\ Len(features') <= MaxFeatures
         /\ ~FeaturesFit => Len(features') = MaxFeatures
<1>1. /\ DefaultFeatures \in Seq(Range(DefaultFeatures)) /\ Len(DefaultFeatures) \in Nat
      /\ features \in Seq(Range(DefaultFeatures)) /\ Len(features) \in Nat
  BY KernelAssumption DEF TypeOK
<1>2. CASE FeaturesFit
  <2>1. features' = features \o DefaultFeatures
    BY <1>2 DEF InstallFeatures
  <2>2. Len(features) + Len(DefaultFeatures) <= MaxFeatures
    BY <1>1, <1>2, Rooms, Capacities DEF FeaturesFit
  <2> QED BY <1>1, <1>2, <2>1, <2>2
<1>3. CASE ~FeaturesFit
  <2> DEFINE part == SubSeq(DefaultFeatures, 1, FeatureRoom)
  <2>1. features' = features \o part
    BY <1>3 DEF InstallFeatures
  <2>2. FeatureRoom \in Nat /\ FeatureRoom < Len(DefaultFeatures)
    BY <1>1, <1>3, Rooms DEF FeaturesFit
  <2>3. part \in Seq(Range(DefaultFeatures)) /\ Len(part) = FeatureRoom
    BY <1>1, <2>2
  <2> HIDE DEF part
  <2>4. /\ features' \in Seq(Range(DefaultFeatures))
        /\ Len(features') = Len(features) + FeatureRoom
    BY <1>1, <2>1, <2>3, Concatenated
  <2> QED BY <1>1, <1>3, <2>2, <2>4, Rooms
<1> QED BY <1>2, <1>3

LEMMA StoreTypes ==
  ASSUME TypeOK, StoreNotification
  PROVE  /\ notifications' \in Seq(Nat) /\ Len(notifications') <= MaxNotifications
         /\ next_notification_sequence' \in Nat
<1>1. notifications \in Seq(Nat) /\ Len(notifications) \in Nat /\ MaxNotifications \in Nat
      /\ Len(notifications) <= MaxNotifications /\ next_notification_sequence \in Nat
  BY Capacities DEF TypeOK
<1>2. CASE Len(notifications) < MaxNotifications
  <2>1. notifications' = Append(notifications, next_notification_sequence)
        /\ next_notification_sequence' = next_notification_sequence + 1
    BY <1>2 DEF StoreNotification, NextNotificationNumber
  <2> QED BY <1>1, <1>2, <2>1
<1>3. CASE ~(Len(notifications) < MaxNotifications)
  BY <1>1, <1>3 DEF StoreNotification, NextNotificationNumber
<1> QED BY <1>2, <1>3

LEMMA BootTypes ==
  ASSUME TypeOK, Boot
  PROVE  TypeOK'
<1>1. UNCHANGED <<contacts, messages, next_message_sequence>>
  BY DEF Boot, recordVars
<1>2. result' \in ResultCode /\ booted' \in BOOLEAN
  BY DEF Boot, Succeed, FailWith, ResultCode, TypeOK
<1>3. features' \in Seq(Range(DefaultFeatures)) /\ Len(features') <= MaxFeatures
  <2>1. CASE UNCHANGED features
    BY <2>1 DEF TypeOK
  <2>2. CASE InstallFeatures
    <3>1. Len(features') <= MaxFeatures
      BY <2>2, FeaturesInstalled, Capacities
    <3> QED BY <2>2, <3>1, FeaturesInstalled
  <2> QED BY <2>1, <2>2 DEF Boot, catalogVars
<1>4. /\ apps' \in Seq(AppId) /\ Len(apps') <= MaxApps
      /\ tiles' \in Seq(AppId) /\ Len(tiles') <= MaxTiles
  <2>1. CASE UNCHANGED <<apps, tiles>>
    BY <2>1 DEF TypeOK
  <2>2. CASE InstallDefaults
    BY <2>2, DefaultsInstalled
  <2> QED BY <2>1, <2>2 DEF Boot, catalogVars
<1>5. /\ notifications' \in Seq(Nat) /\ Len(notifications') <= MaxNotifications
      /\ next_notification_sequence' \in Nat
  <2>1. CASE UNCHANGED notificationVars
    BY <2>1 DEF TypeOK, notificationVars
  <2>2. CASE StoreNotification
    BY <2>2, StoreTypes
  <2> QED BY <2>1, <2>2 DEF Boot
<1> QED BY <1>1, <1>2, <1>3, <1>4, <1>5 DEF TypeOK

LEMMA InstallAppTypes ==
  ASSUME TypeOK, NEW app_id \in ClientApps, InstallApp(app_id)
  PROVE  TypeOK'
<1>1. UNCHANGED <<booted, features, notificationVars, recordVars>> /\ result' \in ResultCode
  BY DEF InstallApp, Succeed, FailWith, ResultCode
<1>2. CASE UNCHANGED <<apps, tiles>>
  BY <1>1, <1>2 DEF TypeOK, notificationVars, recordVars
<1>3. CASE AppRoom > 0 /\ apps' = Append(apps, app_id) /\ tiles' = Append(tiles, app_id)
  <2>1. /\ apps \in Seq(AppId) /\ Len(apps) + 1 <= MaxApps /\ app_id \in AppId
        /\ tiles \in Seq(AppId) /\ Len(tiles) + 1 <= MaxTiles
    <3>1. /\ apps \in Seq(AppId) /\ tiles \in Seq(AppId)
          /\ Len(apps) \in Nat /\ Len(tiles) \in Nat
      BY DEF TypeOK
    <3>2. app_id \in AppId
      BY DEF AppId
    <3>3. /\ AppRoom \in Nat
          /\ AppRoom + Len(apps) <= MaxApps /\ AppRoom + Len(tiles) <= MaxTiles
      BY Rooms
    <3>4. MaxApps \in Nat /\ MaxTiles \in Nat
      BY Capacities
    <3> QED BY <1>3, <3>1, <3>2, <3>3, <3>4
  <2>2. /\ apps' \in Seq(AppId) /\ Len(apps') <= MaxApps
        /\ tiles' \in Seq(AppId) /\ Len(tiles') <= MaxTiles
    BY <1>3, <2>1
  <2> QED BY <1>1, <2>2 DEF TypeOK, notificationVars, recordVars
<1> QED BY <1>1, <1>2, <1>3 DEF InstallApp

LEMMA RecordTypes ==
  ASSUME TypeOK, PushNotification \/ SendMessage \/ \E contact \in Contacts : AddContact(contact)
  PROVE  TypeOK'
<1>1. CASE PushNotification
  <2>1. result' \in ResultCode
    BY <1>1 DEF PushNotification, Succeed, FailWith, ResultCode
  <2> QED BY <1>1, <2>1, StoreTypes DEF PushNotification, TypeOK, catalogVars, recordVars
<1>2. CASE SendMessage
  <2>1. UNCHANGED <<booted, catalogVars, notificationVars, contacts>> /\ result' \in ResultCode
    BY <1>2 DEF SendMessage, Succeed, FailWith, ResultCode
  <2>2. messages \in Seq(Nat) /\ Len(messages) <= MaxMessages /\ next_message_sequence \in Nat
        /\ MaxMessages \in Nat
    BY Capacities DEF TypeOK
  <2>3. /\ messages' \in Seq(Nat) /\ Len(messages') <= MaxMessages
        /\ next_message_sequence' \in Nat
    <3>1. CASE UNCHANGED <<messages, next_message_sequence>>
      BY <2>2, <3>1
    <3>2. CASE /\ Len(messages) < MaxMessages
               /\ messages' = Append(messages, next_message_sequence)
               /\ next_message_sequence' = next_message_sequence + 1
      BY <2>2, <3>2, Appended
    <3> QED BY <1>2, <3>1, <3>2 DEF SendMessage
  <2> QED BY <2>1, <2>3 DEF TypeOK, catalogVars, notificationVars
<1>3. CASE \E contact \in Contacts : AddContact(contact)
  <2>1. PICK contact \in Contacts : AddContact(contact)
    BY <1>3
  <2>2. UNCHANGED <<booted, catalogVars, notificationVars, messages, next_message_sequence>>
        /\ result' \in ResultCode
    BY <2>1 DEF AddContact, Succeed, FailWith, ResultCode
  <2>3. contacts \in Seq(Contacts) /\ Len(contacts) <= MaxContacts /\ MaxContacts \in Nat
    BY Capacities DEF TypeOK
  <2>4. contacts' \in Seq(Contacts) /\ Len(contacts') <= MaxContacts
    BY <2>1, <2>3 DEF AddContact
  <2> QED BY <2>2, <2>4 DEF TypeOK, catalogVars, notificationVars
<1> QED BY <1>1, <1>2, <1>3

LEMMA TypeStep ==
  ASSUME TypeOK, [Next]_vars
  PROVE  TypeOK'
<1>1. CASE BootCall
  BY <1>1, BootTypes DEF BootCall
<1>2. CASE ShutdownCall
  BY <1>2 DEF ShutdownCall, Shutdown, Succeed, ResultCode, TypeOK, catalogVars,
              notificationVars, recordVars
<1>3. CASE InstallAppCall
  BY <1>3, InstallAppTypes DEF InstallAppCall
<1>4. CASE \E app_id \in AppId : LaunchAppCall(app_id)
  BY <1>4 DEF LaunchAppCall, LaunchApp, Succeed, FailWith, ResultCode, TypeOK, catalogVars,
              notificationVars, recordVars
<1>5. CASE EvaluateStoreRemovalCall
  BY <1>5 DEF EvaluateStoreRemovalCall, EvaluateStoreRemoval, Succeed, ResultCode, TypeOK,
              catalogVars, notificationVars, recordVars
<1>6. CASE PushNotificationCall \/ AddContactCall \/ SendMessageCall
  BY <1>6, RecordTypes DEF PushNotificationCall, AddContactCall, SendMessageCall
<1>7. CASE RejectArguments
  BY <1>7 DEF RejectArguments, FailWith, ResultCode, TypeOK, catalogVars,
              notificationVars, recordVars
<1>8. CASE UNCHANGED vars
  BY <1>8 DEF vars, TypeOK, catalogVars, notificationVars, recordVars
<1> QED BY <1>1, <1>2, <1>3, <1>4, <1>5, <1>6, <1>7, <1>8 DEF Next

LEMMA TypeInit ==
  ASSUME Init
  PROVE  TypeOK
<1>1. features \in Seq(Range(DefaultFeatures)) /\ Len(features) <= MaxFeatures
  BY Capacities DEF Init
<1>2. /\ apps \in Seq(AppId) /\ Len(apps) <= MaxApps
      /\ tiles \in Seq(AppId) /\ Len(tiles) <= MaxTiles
  BY Capacities DEF Init
<1>3. /\ notifications \in Seq(Nat) /\ Len(notifications) <= MaxNotifications
      /\ contacts \in Seq(Contacts) /\ Len(contacts) <= MaxContacts
      /\ messages \in Seq(Nat) /\ Len(messages) <= MaxMessages
  BY Capacities DEF Init
<1>4. booted \in BOOLEAN /\ result \in ResultCode
      /\ next_notification_sequence \in Nat /\ next_message_sequence \in Nat
  BY DEF Init, ResultCode
<1> QED BY <1>1, <1>2, <1>3, <1>4 DEF TypeOK

(***************************************************************************)
(* Every table of bolun_kernel.c keeps within its capacity, also through    *)
(* boots that fail part of the way.                                         *)
(***************************************************************************)
THEOREM KernelTypeCorrect == Spec => []TypeOK
<1>1. TypeOK /\ [Next]_vars => TypeOK'
  BY TypeStep
<1> QED BY <1>1, TypeInit, PTL DEF Spec

-----------------------------------------------------------------------------
(* Apps. *)

LEMMA BootInstallsOnce ==
  ASSUME TypeOK, AppsInstalledOnce, InstallDefaults
  PROVE  AppsInstalledOnce'
<1> DEFINE m == Len(apps)
           n == InstalledDefaults
<1>1. tiles' = apps'
  BY DEF InstallDefaults, AppsInstalledOnce
<1>2. /\ m \in Nat /\ n \in Nat /\ DOMAIN apps' = 1..m + n /\ DOMAIN apps = 1..m
      /\ \A i \in 1..m : apps'[i] = apps[i]
      /\ \A i \in 1..n : apps'[m + i] = DefaultsOfDevice[i]
  <2>1. /\ n \in 0..Len(DefaultsOfDevice)
        /\ apps' \in Seq(AppId) /\ Len(apps') = m + n
        /\ \A i \in 1..m : apps'[i] = apps[i]
        /\ \A i \in 1..n : apps'[m + i] = DefaultsOfDevice[i]
    BY DefaultsInstalled
  <2>2. apps \in Seq(AppId) /\ DefaultsOfDevice \in Seq(AppId)
    BY DefaultsAreApps DEF TypeOK
  <2> HIDE DEF n
  <2> QED BY <2>1, <2>2
<1>3. /\ \A k \in 1..n : \A i \in 1..m : DefaultsOfDevice[k] # apps[i]
      /\ \A j, k \in 1..n : DefaultsOfDevice[j] = DefaultsOfDevice[k] => j = k
  <2>1. CanInstall(n)
    BY InstalledDefaultsFit
  <2> HIDE DEF n, m
  <2>2. /\ \A k \in 1..n : DefaultsOfDevice[k] \notin Range(apps)
        /\ \A j, k \in 1..n : DefaultsOfDevice[j] = DefaultsOfDevice[k] => j = k
    BY <2>1 DEF CanInstall, Installed
  <2>3. \A i \in 1..m : apps[i] \in Range(apps)
    BY <1>2 DEF Range
  <2> QED BY <2>2, <2>3
<1>4. \A i, j \in 1..m : apps[i] = apps[j] => i = j
  BY <1>2 DEF AppsInstalledOnce
<1> HIDE DEF m, n
<1>5. ASSUME NEW i \in DOMAIN apps', NEW j \in DOMAIN apps', apps'[i] = apps'[j]
      PROVE  i = j
  <2>1. \A k \in DOMAIN apps' : k \in 1..m \/ (k - m \in 1..n /\ apps'[k] = DefaultsOfDevice[k - m])
    <3>1. SUFFICES ASSUME NEW k \in DOMAIN apps', k \notin 1..m
                   PROVE  k - m \in 1..n /\ apps'[k] = DefaultsOfDevice[k - m]
      OBVIOUS
    <3>2. k - m \in 1..n /\ k = m + (k - m)
      BY <1>2, <3>1
    <3> QED BY <1>2, <3>2
  <2>2. CASE i \in 1..m /\ j \in 1..m
    BY <1>2, <1>4, <1>5, <2>2
  <2>3. CASE i \in 1..m /\ j \notin 1..m
    BY <1>2, <1>3, <1>5, <2>1, <2>3
  <2>4. CASE i \notin 1..m /\ j \in 1..m
    BY <1>2, <1>3, <1>5, <2>1, <2>4
  <2>5. CASE i \notin 1..m /\ j \notin 1..m
    <3>1. i - m = j - m
      BY <1>3, <1>5, <2>1, <2>5
    <3> QED BY <1>2, <3>1
  <2> QED BY <2>2, <2>3, <2>4, <2>5
<1> QED BY <1>1, <1>5 DEF AppsInstalledOnce

LEMMA AppsOnceStep ==
  ASSUME TypeOK, AppsInstalledOnce, [Next]_vars
  PROVE  AppsInstalledOnce'
<1>1. CASE UNCHANGED <<apps, tiles>>
  BY <1>1 DEF AppsInstalledOnce
<1>2. CASE BootCall
  BY <1>1, <1>2, BootInstallsOnce DEF BootCall, Boot, catalogVars
<1>3. CASE InstallAppCall
  <2>1. PICK app_id \in ClientApps : InstallApp(app_id)
    BY <1>3 DEF InstallAppCall
  <2>2. CASE /\ ~Installed(app_id)
             /\ apps' = Append(apps, app_id) /\ tiles' = Append(tiles, app_id)
    <3>1. apps \in Seq(AppId) /\ app_id \in AppId /\ Len(apps) \in Nat
          /\ DOMAIN apps = 1..Len(apps)
      BY DEF TypeOK, AppId
    <3>2. /\ DOMAIN apps' = 1..Len(apps) + 1 /\ apps'[Len(apps) + 1] = app_id
          /\ \A i \in 1..Len(apps) : apps'[i] = apps[i]
      BY <2>2, <3>1
    <3>3. \A i \in DOMAIN apps : apps[i] # app_id
      BY <2>2 DEF Installed, Range
    <3> QED BY <2>2, <3>1, <3>2, <3>3 DEF AppsInstalledOnce
  <2> QED BY <1>1, <2>1, <2>2 DEF InstallApp
<1>4. ~(BootCall \/ InstallAppCall) => UNCHANGED <<apps, tiles>>
  BY DEF Next, ShutdownCall, Shutdown, LaunchAppCall, LaunchApp, EvaluateStoreRemovalCall,
         EvaluateStoreRemoval, PushNotificationCall, PushNotification, AddContactCall,
         AddContact, SendMessageCall, SendMessage, RejectArguments, vars, catalogVars
<1> QED BY <1>1, <1>2, <1>3, <1>4

(***************************************************************************)
(* No app is ever installed twice by bolun_kernel.c, whether clients or     *)
(* boots, also boots that are repeated or fail, install it, and its tile is *)
(* at its own position.                                                     *)
(***************************************************************************)
THEOREM AppsAlwaysInstalledOnce == Spec => []AppsInstalledOnce
<1>1. Init => TypeOK /\ AppsInstalledOnce
  <2>1. Init => AppsInstalledOnce
    BY DEF Init, AppsInstalledOnce
  <2> QED BY <2>1, TypeInit
<1>2. (TypeOK /\ AppsInstalledOnce) /\ [Next]_vars => (TypeOK /\ AppsInstalledOnce)'
  BY TypeStep, AppsOnceStep
<1> QED BY <1>1, <1>2, PTL DEF Spec

-----------------------------------------------------------------------------
(* The catalog.  Before the first boot there is no feature; after a boot there *)
(* is one whole table of them, or the table is full: in either case no second  *)
(* one fits, so that no boot succeeds any more.                                 *)

CatalogInv ==
  /\ features = <<>> \/ Len(features) >= Len(DefaultFeatures) \/ Len(features) = MaxFeatures
  /\ CatalogWholeWhenBooted

LEMMA SecondTableNeverFits ==
  ASSUME TypeOK, CatalogInv, FeaturesFit
  PROVE  features = <<>>
<1>1. Len(DefaultFeatures) \in Nat /\ 2 * Len(DefaultFeatures) > MaxFeatures
  BY KernelAssumption
<1>2. Len(features) + Len(DefaultFeatures) <= MaxFeatures /\ Len(features) \in Nat
  <2>1. FeatureRoom \in Nat /\ FeatureRoom + Len(features) = MaxFeatures /\ Len(features) \in Nat
    BY Rooms DEF TypeOK
  <2> QED BY <1>1, <2>1 DEF FeaturesFit
<1>3. MaxFeatures \in Nat
  BY Capacities
<1> QED BY <1>1, <1>2, <1>3 DEF CatalogInv

LEMMA BootKeepsCatalog ==
  ASSUME TypeOK, CatalogInv, Boot
  PROVE  CatalogInv'
<1>1. CASE booted
  BY <1>1 DEF Boot, CatalogInv, CatalogWholeWhenBooted, catalogVars
<1>2. CASE ~booted /\ ~FeaturesFit
  <2>1. InstallFeatures /\ UNCHANGED booted
    BY <1>2 DEF Boot
  <2>2. Len(features') = MaxFeatures
    BY <1>2, <2>1, FeaturesInstalled
  <2> QED BY <1>2, <2>1, <2>2 DEF CatalogInv, CatalogWholeWhenBooted
<1>3. CASE ~booted /\ FeaturesFit
  <2>1. features' = DefaultFeatures
    <3>1. features' = features \o DefaultFeatures
      BY <1>3 DEF Boot, InstallFeatures
    <3>2. features = <<>> /\ DefaultFeatures \in Seq(Range(DefaultFeatures))
      BY <1>3, SecondTableNeverFits, KernelAssumption
    <3> QED BY <3>1, <3>2
  <2>2. Len(features') >= Len(DefaultFeatures)
    BY <2>1, KernelAssumption
  <2>3. CASE UNCHANGED booted
    BY <1>3, <2>2, <2>3 DEF CatalogInv, CatalogWholeWhenBooted
  <2>4. CASE AppsGoIn /\ InstallDefaults
    <3> DEFINE n == InstalledDefaults
    <3>1. /\ n = Len(DefaultsOfDevice) /\ Len(apps) \in Nat /\ n \in Nat
          /\ apps' \in Seq(AppId) /\ Len(apps') = Len(apps) + n
          /\ \A i \in 1..n : apps'[Len(apps) + i] = DefaultsOfDevice[i]
      BY <2>4, DefaultsInstalled, DefaultsAreApps DEF AppsGoIn, TypeOK
    <3> HIDE DEF n
    <3>2. ASSUME NEW i \in DOMAIN DefaultsOfDevice
          PROVE  \E j \in DOMAIN apps' : DefaultsOfDevice[i] = apps'[j]
      <4>1. i \in 1..n
        BY <3>1, DefaultsAreApps
      <4>2. Len(apps) + i \in DOMAIN apps'
        BY <3>1, <4>1
      <4> QED BY <3>1, <4>1, <4>2
    <3>3. Range(DefaultsOfDevice) \subseteq Range(apps')
      BY <3>2 DEF Range
    <3> QED BY <2>1, <2>2, <3>3 DEF CatalogInv, CatalogWholeWhenBooted
  <2> QED BY <1>3, <2>3, <2>4 DEF Boot
<1> QED BY <1>1, <1>2, <1>3

LEMMA CatalogStep ==
  ASSUME TypeOK, CatalogInv, [Next]_vars
  PROVE  CatalogInv'
<1>1. CASE BootCall
  BY <1>1, BootKeepsCatalog DEF BootCall
<1>2. CASE ShutdownCall
  BY <1>2 DEF ShutdownCall, Shutdown, CatalogInv, CatalogWholeWhenBooted, catalogVars
<1>3. CASE InstallAppCall
  <2>1. PICK app_id \in ClientApps : InstallApp(app_id)
    BY <1>3 DEF InstallAppCall
  <2>2. UNCHANGED <<booted, features>>
    BY <2>1 DEF InstallApp
  <2>3. Range(apps) \subseteq Range(apps')
    <3>1. CASE apps' = Append(apps, app_id)
      <4>1. apps \in Seq(AppId) /\ app_id \in AppId
        BY DEF TypeOK, AppId
      <4>2. \A i \in DOMAIN apps : i \in DOMAIN apps' /\ apps'[i] = apps[i]
        BY <3>1, <4>1
      <4> QED BY <4>2 DEF Range
    <3> QED BY <2>1, <3>1 DEF InstallApp
  <2> QED BY <2>2, <2>3 DEF CatalogInv, CatalogWholeWhenBooted
<1>4. CASE UNCHANGED <<booted, features, apps>>
  BY <1>4 DEF CatalogInv, CatalogWholeWhenBooted
<1>5. ~(BootCall \/ ShutdownCall \/ InstallAppCall) => UNCHANGED <<booted, features, apps>>
  BY DEF Next, LaunchAppCall, LaunchApp, EvaluateStoreRemovalCall,
         EvaluateStoreRemoval, PushNotificationCall, PushNotification, AddContactCall,
         AddContact, SendMessageCall, SendMessage, RejectArguments, vars, catalogVars
<1> QED BY <1>1, <1>2, <1>3, <1>4, <1>5

(***************************************************************************)
(* A kernel that says it is booted shows its whole catalog, each feature    *)
(* once and in the order of the table, and every default app of the device: *)
(* for every catalog of which the feature table holds one copy but not two. *)
(***************************************************************************)
THEOREM CatalogAlwaysWhole == Spec => []CatalogWholeWhenBooted
<1>1. Init => TypeOK /\ CatalogInv
  BY TypeInit DEF Init, CatalogInv, CatalogWholeWhenBooted
<1>2. (TypeOK /\ CatalogInv) /\ [Next]_vars => (TypeOK /\ CatalogInv)'
  BY TypeStep, CatalogStep
<1>3. CatalogInv => CatalogWholeWhenBooted
  BY DEF CatalogInv
<1> QED BY <1>1, <1>2, <1>3, PTL DEF Spec

(***************************************************************************)
(* What CatalogWholeWhenBooted owes to the capacity has a price: a kernel   *)
(* that holds features already and is not booted, as every one that was     *)
(* shut down or failed to boot, is never booted again.                      *)
(***************************************************************************)
THEOREM SecondBootNeverSucceeds ==
  Spec => [][features # <<>> /\ ~booted => ~booted']_vars
<1>1. TypeOK /\ CatalogInv /\ [Next]_vars => [features # <<>> /\ ~booted => ~booted']_vars
  <2> SUFFICES ASSUME TypeOK, CatalogInv, [Next]_vars, features # <<>>, ~booted
               PROVE  ~booted'
    OBVIOUS
  <2>1. ~FeaturesFit
    BY SecondTableNeverFits
  <2>2. CASE BootCall
    BY <2>1, <2>2 DEF BootCall, Boot
  <2>3. CASE ShutdownCall
    BY <2>3 DEF ShutdownCall, Shutdown
  <2>4. ~(BootCall \/ ShutdownCall) => UNCHANGED booted
    BY DEF Next, InstallAppCall, InstallApp, LaunchAppCall, LaunchApp,
           EvaluateStoreRemovalCall, EvaluateStoreRemoval, PushNotificationCall,
           PushNotification, AddContactCall, AddContact, SendMessageCall, SendMessage,
           RejectArguments, vars
  <2> QED BY <2>2, <2>3, <2>4
<1>2. Init => TypeOK /\ CatalogInv
  BY TypeInit DEF Init, CatalogInv, CatalogWholeWhenBooted
<1>3. (TypeOK /\ CatalogInv) /\ [Next]_vars => (TypeOK /\ CatalogInv)'
  BY TypeStep, CatalogStep
<1> QED BY <1>1, <1>2, <1>3, PTL DEF Spec

-----------------------------------------------------------------------------
(* The records. *)

RecordsTypeOK ==
  /\ notifications \in Seq(Nat) /\ next_notification_sequence \in Nat
  /\ messages \in Seq(Nat) /\ next_message_sequence \in Nat

\* RecordsNumbered is inductive once the records are known to be sequences.
RecordsInv == RecordsTypeOK /\ RecordsNumbered

NotificationsNumbered ==
  /\ notifications \in Seq(Nat) /\ next_notification_sequence \in Nat
  /\ \A n \in DOMAIN notifications : notifications[n] = n
  /\ next_notification_sequence = Len(notifications) + 1

\* Storing a notification, accepted or refused, keeps the numbering.
LEMMA StoreKeepsNumbers ==
  ASSUME NotificationsNumbered, StoreNotification
  PROVE  NotificationsNumbered'
<1>1. CASE Len(notifications) < MaxNotifications
  <2>1. /\ notifications' = Append(notifications, next_notification_sequence)
        /\ next_notification_sequence' = next_notification_sequence + 1
    BY <1>1 DEF StoreNotification, NextNotificationNumber
  <2> QED BY <2>1 DEF NotificationsNumbered
<1>2. CASE ~(Len(notifications) < MaxNotifications)
  BY <1>2 DEF StoreNotification, NextNotificationNumber, NotificationsNumbered
<1> QED BY <1>1, <1>2

\* The calls that leave the notifications and the messages alone.
LEMMA UntouchedRecords ==
  ASSUME RecordsInv, UNCHANGED <<notificationVars, messages, next_message_sequence>>
  PROVE  RecordsInv'
BY DEF RecordsInv, RecordsTypeOK, RecordsNumbered, notificationVars

LEMMA BootKeepsNumbers ==
  ASSUME RecordsInv, Boot
  PROVE  RecordsInv'
<1>1. UNCHANGED <<messages, next_message_sequence>>
  BY DEF Boot, recordVars
<1>2. CASE UNCHANGED notificationVars
  BY <1>1, <1>2, UntouchedRecords
<1>3. CASE StoreNotification
  <2>1. NotificationsNumbered
    BY DEF RecordsInv, RecordsTypeOK, RecordsNumbered, NotificationsNumbered
  <2>2. NotificationsNumbered'
    BY <1>3, <2>1, StoreKeepsNumbers
  <2> QED
    BY <1>1, <2>2 DEF RecordsInv, RecordsTypeOK, RecordsNumbered, NotificationsNumbered
<1> QED BY <1>2, <1>3 DEF Boot, notificationVars

LEMMA SendMessageKeepsNumbers ==
  ASSUME RecordsInv, SendMessage
  PROVE  RecordsInv'
<1>1. UNCHANGED notificationVars
  BY DEF SendMessage
<1>2. CASE UNCHANGED <<messages, next_message_sequence>>
  BY <1>1, <1>2, UntouchedRecords
<1>3. CASE /\ messages' = Append(messages, next_message_sequence)
           /\ next_message_sequence' = next_message_sequence + 1
  BY <1>1, <1>3 DEF RecordsInv, RecordsTypeOK, RecordsNumbered, notificationVars
<1> QED BY <1>2, <1>3 DEF SendMessage

LEMMA RecordsStep ==
  ASSUME RecordsInv, [Next]_vars
  PROVE  RecordsInv'
<1>1. CASE BootCall
  BY <1>1, BootKeepsNumbers DEF BootCall
<1>2. CASE ShutdownCall
  BY <1>2, UntouchedRecords DEF ShutdownCall, Shutdown, recordVars
<1>3. CASE InstallAppCall
  BY <1>3, UntouchedRecords DEF InstallAppCall, InstallApp, recordVars
<1>4. CASE \E app_id \in AppId : LaunchAppCall(app_id)
  BY <1>4, UntouchedRecords DEF LaunchAppCall, LaunchApp, recordVars
<1>5. CASE EvaluateStoreRemovalCall
  BY <1>5, UntouchedRecords DEF EvaluateStoreRemovalCall, EvaluateStoreRemoval, recordVars
<1>6. CASE PushNotificationCall
  <2>1. StoreNotification /\ UNCHANGED <<messages, next_message_sequence>>
    BY <1>6 DEF PushNotificationCall, PushNotification, recordVars
  <2>2. NotificationsNumbered
    BY DEF RecordsInv, RecordsTypeOK, RecordsNumbered, NotificationsNumbered
  <2>3. NotificationsNumbered'
    BY <2>1, <2>2, StoreKeepsNumbers
  <2> QED
    BY <2>1, <2>3 DEF RecordsInv, RecordsTypeOK, RecordsNumbered, NotificationsNumbered
<1>7. CASE AddContactCall
  BY <1>7, UntouchedRecords DEF AddContactCall, AddContact
<1>8. CASE SendMessageCall
  BY <1>8, SendMessageKeepsNumbers DEF SendMessageCall
<1>9. CASE RejectArguments
  BY <1>9, UntouchedRecords DEF RejectArguments, recordVars
<1>10. CASE UNCHANGED vars
  BY <1>10, UntouchedRecords DEF vars, recordVars
<1> QED
  BY <1>1, <1>2, <1>3, <1>4, <1>5, <1>6, <1>7, <1>8, <1>9, <1>10
  DEF Next

(***************************************************************************)
(* The notifications and messages of bolun_kernel.c are numbered in the     *)
(* order they are accepted, with no gap, through every sequence of boots,   *)
(* shutdowns and refused calls.                                             *)
(***************************************************************************)
THEOREM RecordsAlwaysNumbered == Spec => []RecordsNumbered
<1>1. Init => RecordsInv
  BY DEF Init, RecordsInv, RecordsTypeOK, RecordsNumbered
<1>2. RecordsInv /\ [Next]_vars => RecordsInv'
  BY RecordsStep
<1>3. RecordsInv => RecordsNumbered
  BY DEF RecordsInv
<1> QED BY <1>1, <1>2, <1>3, PTL DEF Spec
=============================================================================
