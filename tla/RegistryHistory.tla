--------------------------- MODULE RegistryHistory ---------------------------
(***************************************************************************)
(* The registries watched by history variables that no call reads:          *)
(*   content   for each path that fits its buffer, the hash that was added  *)
(*             last, as the client wrote it, or NoHash (also in the trash)  *)
(*   clashed   the heads of the paths that were cut when they were stored   *)
(*   raised    how often each interrupt was raised and counted              *)
(*   profile   for each family of devices, the code name installed last;    *)
(*             "none" when no profile of the family was                     *)
(*   original  the family of the profile the runtime was created with       *)
(* and used by one of four host programs.  The tables share nothing but the *)
(* log, so that each host keeps to the calls of one of them; the host named *)
(* "profiles" is the one that leaves the devices to the profiles.           *)
(***************************************************************************)
EXTENDS BolunRegistries

Hosts == {"files", "devices", "profiles", "packages"}

CONSTANTS MaxRaised,   \* a bound of the model on how often an interrupt is raised
          MayInstall   \* the code names each host installs

\* "none" is no code name: it stands for a family without a profile.
ASSUME HostAssumption ==
  MayInstall \in [Hosts -> SUBSET Codenames] /\ "none" \notin Codenames

VARIABLES host, content, clashed, raised, profile, original

fileHistory == <<content, clashed>>
history == <<fileHistory, raised, profile>>

NoHash == [head |-> "", rest |-> 0]

NoProfile == [family \in {"lumia710", "lumia"} |-> "none"]

WatchedInit ==
  /\ host \in Hosts
  /\ content = [head \in PathHeads |-> NoHash]
  /\ clashed = {}
  /\ raised = [irq \in Irqs |-> 0]
  /\ \E codename \in MayInstall[host] :
       /\ InitFor(codename)
       /\ profile = [NoProfile EXCEPT ![Family(codename)] = codename]
       /\ original = Family(codename)

WatchedAdd(path, hash) ==
  /\ AddFileCall(path, hash)
  /\ content' = IF result' = "OK" /\ Fits(path)
                  THEN [content EXCEPT ![path.head] = hash] ELSE content
  /\ clashed' = IF result' = "OK" /\ ~Fits(path)
                  THEN clashed \cup {path.head} ELSE clashed
  /\ UNCHANGED <<raised, profile>>

WatchedTrash(path) ==
  /\ TrashFileCall(path)
  /\ content' = IF result' = "OK" THEN [content EXCEPT ![path.head] = NoHash] ELSE content
  /\ UNCHANGED <<clashed, raised, profile>>

WatchedRaise(irq) ==
  /\ raised[irq] < MaxRaised
  /\ RaiseInterruptCall(irq)
  /\ raised' = IF result' = "OK" THEN [raised EXCEPT ![irq] = @ + 1] ELSE raised
  /\ UNCHANGED <<fileHistory, profile>>

WatchedInstall(codename) ==
  /\ InstallLumiaHalCall(codename)
  /\ profile' = [profile EXCEPT ![Family(codename)] = codename]
  /\ UNCHANGED <<fileHistory, raised>>

\* The calls that are not watched.
Unwatched(Call) == Call /\ UNCHANGED history

FilesHost ==
  \/ \E path \in Path, hash \in Hash : WatchedAdd(path, hash)
  \/ \E path \in Path : WatchedTrash(path)
  \/ Unwatched(ArchiveFileCall)
  \/ Unwatched(CheckFileIntegrityCall)

ProfilesHost ==
  \/ \E codename \in MayInstall[host] : WatchedInstall(codename)
  \/ Unwatched(HalWriteCall)

DevicesHost ==
  \/ ProfilesHost
  \/ \E irq \in Irqs : WatchedRaise(irq)
  \/ Unwatched(RegisterInterruptCall)
  \/ Unwatched(HalRegisterCall)

PackagesHost == \E manifest \in Manifests : Unwatched(InstallBappCall(manifest))

WatchedNext ==
  /\ UNCHANGED <<host, original>>
  /\ \/ host = "files" /\ FilesHost
     \/ host = "profiles" /\ ProfilesHost
     \/ host = "devices" /\ DevicesHost
     \/ host = "packages" /\ PackagesHost
     \/ Unwatched(RejectArguments)

WatchedSpec == WatchedInit /\ [][WatchedNext]_<<vars, host, original, history>>

-----------------------------------------------------------------------------
(***************************************************************************)
(* The record array is a map from paths to contents: whatever was added,    *)
(* replaced, archived, trashed and added again, and however full the table  *)
(* is, a path is known exactly while it is added and not in the trash, and  *)
(* exactly the content added last (as far as the buffer held it) is intact. *)
(* Paths under which a longer path was cut off are the exception.           *)
(***************************************************************************)
ExpectedIntegrity(head, hash) ==
  IF content[head] = NoHash THEN "NOT_FOUND"
  ELSE IF hash = Kept(content[head]) THEN "OK"
  ELSE "INTERNAL"

FilesAsAdded ==
  \A head \in PathHeads \ clashed, hash \in Hash :
    IntegrityOf([head |-> head, rest |-> 0], hash) = ExpectedIntegrity(head, hash)

(***************************************************************************)
(* "Validates integrity hashes" (README.md), and the test that adds a file  *)
(* and checks it with the same hash: a file is intact under the very hash   *)
(* it was added with.                                                       *)
(***************************************************************************)
AddedContentValidates ==
  \A head \in PathHeads \ clashed :
    content[head] # NoHash =>
      IntegrityOf([head |-> head, rest |-> 0], content[head]) = "OK"

(***************************************************************************)
(* The table counts every interrupt that was raised on a registered line,   *)
(* modulo the width of the counter, also when the line is registered again  *)
(* (to rename it) and when the table is full.                               *)
(***************************************************************************)
InterruptsCounted ==
  \A i \in DOMAIN interrupts :
    interrupts[i].handled_count = raised[interrupts[i].irq] % CountModulus

(***************************************************************************)
(* The registry holds one entry for each device, also when profiles are     *)
(* installed over each other and clients register devices of their own, so  *)
(* that a replaced device cannot go on answering.                           *)
(***************************************************************************)
DevicesUnique ==
  \A d, e \in DOMAIN hal_devices :
    SameDevice(hal_devices[d], hal_devices[e]) => d = e

(***************************************************************************)
(* Installing profiles over each other brings the presence of devices up to *)
(* date: a class answers if and only if the profile that was installed last *)
(* in one of the two families has it.  In particular a modem disappears     *)
(* when a profile without LTE replaces one of its own family.  Where both   *)
(* families have the class, the device of the family the runtime was        *)
(* created with answers, however often and in whatever order profiles of    *)
(* both were installed since.  (A client that registers devices of its own  *)
(* may switch one of these off.)                                            *)
(***************************************************************************)
HasClass(codename, class) ==
  codename # "none" /\ (class = "LTE" => codename \notin WithoutLte)

Having(class) == {family \in DOMAIN profile : HasClass(profile[family], class)}

ProfilesAnswer ==
  host = "profiles" =>
    \A class \in DeviceClasses :
      /\ Answering(class) # {} <=> Having(class) # {}
      /\ Having(class) # {} =>
           /\ Answerer(class).driver \in Having(class)
           /\ original \in Having(class) => Answerer(class).driver = original

(***************************************************************************)
(* Installing a profile ignores the results of its registrations and        *)
(* answers BOLUN_OK.  What it may leave out is no more than this: a device  *)
(* that was not registered before, of a registry that is full now.  Every   *)
(* other device of the profile is as the profile has it, also those that    *)
(* come after a refused one.                                                *)
(***************************************************************************)
ProfileWholeUnlessFull ==
  [][\A codename \in MayInstall[host] :
       host \in {"profiles", "devices"} /\ WatchedInstall(codename) =>
         \A class \in DeviceClasses :
           \/ \E d \in DOMAIN hal_devices' :
                hal_devices'[d] = ProfileDevice(codename, class)
           \/ /\ Known(hal_devices, ProfileDevice(codename, class)) = {}
              /\ Len(hal_devices') = MaxHalDevices]_<<vars, history>>

-----------------------------------------------------------------------------
InstalledIds == {packages[p].package_id : p \in DOMAIN packages}

PackageOfId ==
  [id \in InstalledIds |->
     packages[Min({p \in DOMAIN packages : packages[p].package_id = id})]]

PackageTable == INSTANCE KeyedTable WITH
                  Keys <- ManifestTexts, Capacity <- MaxPackages,
                  entries <- PackageOfId, size <- Len(packages)

(***************************************************************************)
(* Refinement: the packages are a table with one entry for each identifier. *)
(* An install replaces the record of its own package and no other, also     *)
(* when long identifiers are cut and when versions coincide; a package once *)
(* installed stays; and a full table takes neither a package nor a newer    *)
(* version of one it holds.                                                 *)
(***************************************************************************)
PackagesAreTable == PackageTable!TSpec

(***************************************************************************)
(* "Parsing Ben_open.txt keys (id, ...)" (README.md): a package is          *)
(* installed under the identifier that the key id of its manifest gives.    *)
(***************************************************************************)
IdLines(manifest) == {l \in DOMAIN manifest : manifest[l].key = "id"}

InstalledUnderItsId ==
  [][\A manifest \in Manifests :
       /\ IdLines(manifest) # {}
       /\ InstallBappCall(manifest)
       /\ result' = "OK"
       => Kept(manifest[Min(IdLines(manifest))].value) \in InstalledIds']_vars
=============================================================================
