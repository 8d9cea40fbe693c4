--------------------------- MODULE RuntimePackages ---------------------------
(***************************************************************************)
(* The package table of the runtime (src/kernel/c/bolun_runtime.c) and the  *)
(* manifest, Ben_open.txt, a package is installed from.  A manifest is a    *)
(* sequence of lines, each a key and a value; what a key's text ends in     *)
(* matters, since the parser looks for the text of a key anywhere.  (A key  *)
(* in the middle of a value is found in the same way, and is one more line  *)
(* here.)  The title is only checked for being there; the signature is      *)
(* stored and never looked at.                                              *)
(***************************************************************************)
EXTENDS RuntimeLog, FiniteSetsExt, BolunText

CONSTANTS MaxPackages,   \* BOLUN_MAX_PACKAGES
          Manifests      \* the manifests the clients install from

VARIABLE packages        \* runtime->packages[0 .. package_count-1]

EmptyText == [head |-> "", rest |-> 0]

\* The keys of a line, and those whose text ends in the text of a wanted key.
LineKey ==
  {"id", "guid", "title", "subtitle", "version", "sdk_version",
   "auto_update", "no_auto_update"}

ASSUME PackagesAssumption ==
  /\ MaxPackages \in Nat \ {0}
  /\ Manifests \subseteq Seq([key : LineKey, value : Text(STRING, Nat)])

EndingIn ==
  [ id |-> {"id", "guid"},
    title |-> {"title", "subtitle"},
    version |-> {"version", "sdk_version"},
    auto_update |-> {"auto_update", "no_auto_update"} ]

ManifestTexts ==
  UNION {{Kept(manifest[l].value) : l \in DOMAIN manifest} : manifest \in Manifests}

Package ==
  [ package_id : ManifestTexts,
    version : ManifestTexts,
    auto_update : BOOLEAN ]

PackagesTypeOK == packages \in Seq(Package) /\ Len(packages) <= MaxPackages

PackagesInit == packages = <<>>

-----------------------------------------------------------------------------
ValueAt(manifest, lines) ==
  IF lines = {} THEN EmptyText ELSE Kept(manifest[Min(lines)].value)

\* parse_ben_open_value: what follows the first place where "<name>=" is found.
Parsed(manifest, name) ==
  ValueAt(manifest, {l \in DOMAIN manifest : manifest[l].key \in EndingIn[name]})

\* The test of the text for "auto_update=true".
AsksForUpdates(manifest) ==
  \E l \in DOMAIN manifest : /\ manifest[l].key \in EndingIn["auto_update"]
                             /\ manifest[l].value.head = "true"

Complete(manifest) ==
  \A name \in {"id", "title", "version"} : Parsed(manifest, name) # EmptyText

PackageOf(manifest) ==
  [ package_id |-> Parsed(manifest, "id"),
    version |-> Parsed(manifest, "version"),
    auto_update |-> AsksForUpdates(manifest) ]

\* (mutant) a record is taken for the same package when its version is the same
SlotsOfPackageByVersion(package) ==
  {p \in DOMAIN packages : packages[p].version = package.version}

\* (mutant) only the newest record is compared
SlotsOfPackageNewest(package) ==
  {p \in DOMAIN packages :
     p = Len(packages) /\ packages[p].package_id = package.package_id}

SlotsOfPackage(package) ==
  {p \in DOMAIN packages : packages[p].package_id = package.package_id}

\* bolun_runtime_install_bapp.  The table is checked for room first, also when
\* the package is only replaced; only a new package is logged.
InstallBapp(manifest) ==
  \/ /\ manifest = <<>>
     /\ FailWith("INVALID_ARGUMENT")
     /\ UNCHANGED <<packages, logVars>>
  \/ /\ manifest # <<>>
     /\ Len(packages) >= MaxPackages
     /\ FailWith("FULL")
     /\ UNCHANGED <<packages, logVars>>
  \/ /\ manifest # <<>>
     /\ Len(packages) < MaxPackages
     /\ ~Complete(manifest)
     /\ FailWith("INVALID_ARGUMENT")
     /\ UNCHANGED <<packages, logVars>>
  \/ /\ manifest # <<>>
     /\ Len(packages) < MaxPackages
     /\ Complete(manifest)
     /\ SlotsOfPackage(PackageOf(manifest)) # {}
     /\ packages' =
          [packages EXCEPT ![Min(SlotsOfPackage(PackageOf(manifest)))] = PackageOf(manifest)]
     /\ Succeed
     /\ UNCHANGED logVars
  \/ /\ manifest # <<>>
     /\ Len(packages) < MaxPackages
     /\ Complete(manifest)
     /\ SlotsOfPackage(PackageOf(manifest)) = {}
     /\ packages' = Append(packages, PackageOf(manifest))
     /\ AppendLog
     /\ Succeed
=============================================================================
