---------------------------- MODULE RegistryProofs ----------------------------
(***************************************************************************)
(* The registries of the runtime, for every capacity, counter width and     *)
(* input: the packages implement KeyedTable, interrupts are counted, a file  *)
(* is what was added last, and profiles leave one device of each kind.       *)
(***************************************************************************)
EXTENDS RegistryHistory, OperatorLemmas

-----------------------------------------------------------------------------
(* Packages.  The table has different identifiers, since the record of a      *)
(* package is searched for before it is stored.                               *)

PackageIds(table) == {table[p].package_id : p \in DOMAIN table}

OneForEach(table) ==
  \A p, q \in DOMAIN table : table[p].package_id = table[q].package_id => p = q

SlotsIn(table, id) == {p \in DOMAIN table : table[p].package_id = id}

TableOf(table) == [id \in PackageIds(table) |-> table[Min(SlotsIn(table, id))]]

LEMMA PackageLookup ==
  ASSUME NEW S, NEW table \in Seq(S), OneForEach(table)
  PROVE  /\ DOMAIN TableOf(table) = PackageIds(table)
         /\ \A p \in DOMAIN table :
              /\ Min(SlotsIn(table, table[p].package_id)) = p
              /\ TableOf(table)[table[p].package_id] = table[p]
<1>1. \A p \in DOMAIN table : p \in Nat
  OBVIOUS
<1>2. ASSUME NEW p \in DOMAIN table
      PROVE  Min(SlotsIn(table, table[p].package_id)) = p
  <2>1. SlotsIn(table, table[p].package_id) = {p}
    BY DEF OneForEach, SlotsIn
  <2>2. Min({p}) = p
    BY <1>1 DEF Min
  <2> QED BY <2>1, <2>2
<1>3. ASSUME NEW p \in DOMAIN table
      PROVE  TableOf(table)[table[p].package_id] = table[p]
  <2>1. table[p].package_id \in PackageIds(table)
    BY DEF PackageIds
  <2> QED BY <1>2, <2>1 DEF TableOf, PackageIds
<1> QED BY <1>2, <1>3 DEF TableOf, PackageIds

LEMMA PackagesCounted ==
  ASSUME NEW S, NEW table \in Seq(S), OneForEach(table)
  PROVE  Cardinality(PackageIds(table)) = Len(table)
<1> DEFINE f == [p \in 1..Len(table) |-> table[p].package_id]
<1>1. Len(table) \in Nat /\ DOMAIN table = 1..Len(table)
  OBVIOUS
<1>2. f \in Bijection(1..Len(table), PackageIds(table))
  BY <1>1 DEF Bijection, Injection, Surjection, IsInjective, PackageIds, OneForEach
<1> QED BY <1>1, <1>2, FS_CountingElements DEF ExistsBijection

Stored(table, package) ==
  IF SlotsIn(table, package.package_id) = {} THEN Append(table, package)
  ELSE [table EXCEPT ![Min(SlotsIn(table, package.package_id))] = package]

PutInto(new, table, id) ==
  /\ PackageIds(new) = PackageIds(table) \cup {id}
  /\ \A other \in PackageIds(table) \ {id} : TableOf(new)[other] = TableOf(table)[other]

\* A package that is not there is added, and the others stay what they are.
LEMMA PackageAppended ==
  ASSUME NEW S, NEW table \in Seq(S), NEW package \in S, OneForEach(table),
         SlotsIn(table, package.package_id) = {}
  PROVE  /\ Stored(table, package) \in Seq(S) /\ Len(Stored(table, package)) = Len(table) + 1
         /\ OneForEach(Stored(table, package))
         /\ PutInto(Stored(table, package), table, package.package_id)
<1> DEFINE new == Stored(table, package)
           n == Len(table)
<1>0. new = Append(table, package)
  BY DEF Stored
<1>1. n \in Nat /\ DOMAIN table = 1..n
  OBVIOUS
<1>2. /\ new \in Seq(S) /\ Len(new) = n + 1 /\ DOMAIN new = 1..n + 1 /\ new[n + 1] = package
      /\ \A p \in 1..n : new[p] = table[p]
  BY <1>0, <1>1
<1> HIDE DEF new, n
<1>3. \A p \in 1..n : table[p].package_id # package.package_id
  BY <1>1 DEF SlotsIn
<1>4. OneForEach(new)
  BY <1>1, <1>2, <1>3 DEF OneForEach
<1>5. PackageIds(new) = PackageIds(table) \cup {package.package_id}
  BY <1>1, <1>2 DEF PackageIds
<1>6. ASSUME NEW other \in PackageIds(table) PROVE TableOf(new)[other] = TableOf(table)[other]
  <2>1. PICK p \in 1..n : other = table[p].package_id
    BY <1>1 DEF PackageIds
  <2>2. p \in DOMAIN new /\ p \in DOMAIN table /\ new[p] = table[p]
    BY <1>1, <1>2
  <2>3. TableOf(table)[other] = table[p]
    BY <2>1, <2>2, PackageLookup
  <2>4. TableOf(new)[other] = new[p]
    BY <1>2, <1>4, <2>1, <2>2, PackageLookup
  <2> QED BY <2>2, <2>3, <2>4
<1> QED BY <1>2, <1>4, <1>5, <1>6 DEF new, n, PutInto

\* A package that is there is replaced where it is.
LEMMA PackageReplaced ==
  ASSUME NEW S, NEW table \in Seq(S), NEW package \in S, OneForEach(table),
         SlotsIn(table, package.package_id) # {}
  PROVE  /\ Stored(table, package) \in Seq(S) /\ Len(Stored(table, package)) = Len(table)
         /\ OneForEach(Stored(table, package))
         /\ PutInto(Stored(table, package), table, package.package_id)
<1>1. PICK p \in DOMAIN table : table[p].package_id = package.package_id
  BY DEF SlotsIn
<1>2. Min(SlotsIn(table, package.package_id)) = p
  BY <1>1, PackageLookup
<1> DEFINE new == Stored(table, package)
<1>0. new = [table EXCEPT ![p] = package]
  BY <1>2 DEF Stored
<1>3. /\ new \in Seq(S) /\ Len(new) = Len(table) /\ DOMAIN new = DOMAIN table /\ new[p] = package
      /\ \A q \in DOMAIN table : /\ q # p => new[q] = table[q]
                                 /\ new[q].package_id = table[q].package_id
  BY <1>0, <1>1
<1> HIDE DEF new
<1>4. OneForEach(new)
  BY <1>3 DEF OneForEach
<1>5. PackageIds(new) = PackageIds(table) \cup {package.package_id}
  BY <1>1, <1>3 DEF PackageIds
<1>6. ASSUME NEW other \in PackageIds(table), other # package.package_id
      PROVE  TableOf(new)[other] = TableOf(table)[other]
  <2>1. PICK q \in DOMAIN table : other = table[q].package_id
    BY DEF PackageIds
  <2>2. q # p /\ new[q] = table[q]
    BY <1>1, <1>3, <1>6, <2>1
  <2>3. TableOf(table)[other] = table[q]
    BY <2>1, PackageLookup
  <2>4. TableOf(new)[other] = new[q]
    BY <1>3, <1>4, <2>1, PackageLookup
  <2> QED BY <2>2, <2>3, <2>4
<1> QED BY <1>3, <1>4, <1>5, <1>6 DEF new, PutInto

-----------------------------------------------------------------------------
\* What the parser finds in a complete manifest is among the texts in use.
LEMMA ParsedTexts ==
  ASSUME NEW manifest \in Manifests, Complete(manifest)
  PROVE  PackageOf(manifest) \in Package
<1>1. manifest \in Seq([key : LineKey, value : Text(STRING, Nat)])
  BY PackagesAssumption
<1>2. ASSUME NEW name \in {"id", "title", "version"}
      PROVE  Parsed(manifest, name) \in ManifestTexts
  <2> DEFINE lines == {l \in DOMAIN manifest : manifest[l].key \in EndingIn[name]}
  <2>1. lines # {}
    BY DEF Complete, Parsed, ValueAt
  <2>2. lines \subseteq Nat /\ lines \subseteq DOMAIN manifest
    BY <1>1
  <2>3. Min(lines) \in DOMAIN manifest
    BY <2>1, <2>2, MinOfNaturals
  <2>4. Parsed(manifest, name) = Kept(manifest[Min(lines)].value)
    BY <2>1 DEF Parsed, ValueAt
  <2>5. Parsed(manifest, name) \in {Kept(manifest[l].value) : l \in DOMAIN manifest}
    BY <2>3, <2>4
  <2> QED BY <2>5 DEF ManifestTexts
<1>3. AsksForUpdates(manifest) \in BOOLEAN
  BY DEF AsksForUpdates
<1> QED BY <1>2, <1>3 DEF PackageOf, Package

PackagesInv ==
  /\ packages \in Seq(Package) /\ Len(packages) <= MaxPackages
  /\ OneForEach(packages)

\* What an install may do to the table.
PackagesPut(id) ==
  /\ Len(packages) < MaxPackages
  /\ PutInto(packages', packages, id)

LEMMA InstallStep ==
  ASSUME PackagesInv, NEW manifest \in Manifests, InstallBapp(manifest)
  PROVE  /\ PackagesInv'
         /\ UNCHANGED packages \/ \E id \in ManifestTexts : PackagesPut(id)
<1>1. CASE UNCHANGED packages
  BY <1>1 DEF PackagesInv
<1> DEFINE package == PackageOf(manifest)
<1>2. ASSUME Len(packages) < MaxPackages, Complete(manifest),
             \/ /\ SlotsOfPackage(package) # {}
                /\ packages' = [packages EXCEPT ![Min(SlotsOfPackage(package))] = package]
             \/ /\ SlotsOfPackage(package) = {}
                /\ packages' = Append(packages, package)
      PROVE  PackagesInv' /\ PackagesPut(package.package_id)
  <2>1. package \in Package
    BY <1>2, ParsedTexts
  <2>2. SlotsOfPackage(package) = SlotsIn(packages, package.package_id)
    BY DEF SlotsOfPackage, SlotsIn
  <2>3. MaxPackages \in Nat
    BY PackagesAssumption
  <2>4. packages \in Seq(Package) /\ OneForEach(packages) /\ Len(packages) <= MaxPackages
    BY DEF PackagesInv
  <2> HIDE DEF package
  <2>5. packages' = Stored(packages, package)
    BY <1>2, <2>2 DEF Stored
  <2>6. /\ Stored(packages, package) \in Seq(Package)
        /\ Len(Stored(packages, package)) \in {Len(packages), Len(packages) + 1}
        /\ OneForEach(Stored(packages, package))
        /\ PutInto(Stored(packages, package), packages, package.package_id)
    <3>1. CASE SlotsIn(packages, package.package_id) = {}
      BY <2>1, <2>4, <3>1, PackageAppended
    <3>2. CASE SlotsIn(packages, package.package_id) # {}
      BY <2>1, <2>4, <3>2, PackageReplaced
    <3> QED BY <3>1, <3>2
  <2>7. /\ packages' \in Seq(Package) /\ OneForEach(packages')
        /\ Len(packages') \in {Len(packages), Len(packages) + 1}
        /\ PutInto(packages', packages, package.package_id)
    BY <2>5, <2>6
  <2> QED BY <1>2, <2>3, <2>4, <2>7 DEF PackagesInv, PackagesPut
<1>3. Complete(manifest) => package.package_id \in ManifestTexts
  BY ParsedTexts DEF Package
<1> HIDE DEF package
<1> QED BY <1>1, <1>2, <1>3 DEF InstallBapp, package

LEMMA PackagesStep ==
  ASSUME PackagesInv, [WatchedNext]_<<vars, host, original, history>>
  PROVE  /\ PackagesInv'
         /\ UNCHANGED packages \/ \E id \in ManifestTexts : PackagesPut(id)
<1>1. CASE UNCHANGED packages
  BY <1>1 DEF PackagesInv
<1>2. \/ UNCHANGED packages
      \/ \E manifest \in Manifests : InstallBapp(manifest)
  BY DEF WatchedNext, FilesHost, ProfilesHost, DevicesHost, PackagesHost, Unwatched,
         WatchedAdd, WatchedTrash, WatchedRaise, WatchedInstall, AddFileCall, TrashFileCall,
         ArchiveFileCall, CheckFileIntegrityCall, RegisterInterruptCall, RaiseInterruptCall,
         HalRegisterCall, HalWriteCall, InstallLumiaHalCall, InstallBappCall, RejectArguments,
         vars
<1> QED BY <1>1, <1>2, InstallStep

LEMMA PackageTableStep ==
  ASSUME PackagesInv, [WatchedNext]_<<vars, host, original, history>>
  PROVE  [\E key \in ManifestTexts : PackageTable!Put(key)]_(PackageTable!tableVars)
<1>1. PackageOfId = TableOf(packages) /\ PackageOfId' = TableOf(packages')
  BY DEF PackageOfId, InstalledIds, TableOf, PackageIds, SlotsIn
<1>2. CASE UNCHANGED packages
  BY <1>1, <1>2 DEF PackageTable!tableVars
<1>3. ASSUME NEW id \in ManifestTexts, PackagesPut(id)
      PROVE  PackageTable!Put(id)
  <2>1. DOMAIN PackageOfId = PackageIds(packages)
    BY <1>1, PackageLookup DEF PackagesInv
  <2>2. PackagesInv'
    BY PackagesStep
  <2>3. DOMAIN PackageOfId' = PackageIds(packages')
    BY <1>1, <2>2, PackageLookup DEF PackagesInv
  <2>4. Cardinality(PackageIds(packages')) = Len(packages')
    BY <2>2, PackagesCounted DEF PackagesInv
  <2>5. DOMAIN PackageOfId' = DOMAIN PackageOfId \cup {id}
    BY <1>3, <2>1, <2>3 DEF PackagesPut, PutInto
  <2>6. \A other \in DOMAIN PackageOfId \ {id} : PackageOfId'[other] = PackageOfId[other]
    BY <1>1, <1>3, <2>1 DEF PackagesPut, PutInto
  <2>7. Len(packages)' = Cardinality(DOMAIN PackageOfId')
    BY <2>3, <2>4
  <2> QED
    BY <1>3, <2>5, <2>6, <2>7
    DEF PackagesPut, PackageTable!Put, PackageTable!OthersKept, PackageTable!Cardinality,
        Cardinality
<1> QED BY <1>2, <1>3, PackagesStep

LEMMA PackagesStart ==
  ASSUME WatchedInit
  PROVE  PackagesInv /\ PackageTable!TInit
<1>1. packages = <<>>
  BY DEF WatchedInit, InitFor, PackagesInit
<1>2. <<>> \in Seq(Package) /\ DOMAIN <<>> = {} /\ Len(<<>>) = 0 /\ MaxPackages \in Nat
  BY PackagesAssumption
<1>3. OneForEach(<<>>) /\ DOMAIN TableOf(<<>>) = {}
  BY DEF OneForEach, TableOf, PackageIds
<1>4. PackageOfId = TableOf(packages)
  BY DEF PackageOfId, InstalledIds, TableOf, PackageIds, SlotsIn
<1> QED BY <1>1, <1>2, <1>3, <1>4 DEF PackagesInv, PackageTable!TInit

\* bolun_runtime_install_bapp keeps one record for each identifier: the package
\* table implements KeyedTable (PackagesAreTable), whatever the manifests are.
THEOREM PackagesImplementTable == WatchedSpec => PackagesAreTable
<1>1. WatchedInit => PackagesInv /\ PackageTable!TInit
  BY PackagesStart
<1>2. PackagesInv /\ [WatchedNext]_<<vars, host, original, history>> => PackagesInv'
  BY PackagesStep
<1>3. PackagesInv /\ [WatchedNext]_<<vars, host, original, history>>
        => [\E key \in ManifestTexts : PackageTable!Put(key)]_(PackageTable!tableVars)
  BY PackageTableStep
<1> QED BY <1>1, <1>2, <1>3, PTL DEF WatchedSpec, PackagesAreTable, PackageTable!TSpec

-----------------------------------------------------------------------------
(* Interrupts.  A line that was ever raised and counted is in the table, and   *)
(* it is there once.                                                           *)

InterruptsInv ==
  /\ interrupts \in Seq(Interrupt) /\ Len(interrupts) <= MaxInterrupts
  /\ \A i, j \in DOMAIN interrupts : interrupts[i].irq = interrupts[j].irq => i = j
  /\ raised \in [Irqs -> Nat]
  /\ \A irq \in Irqs : raised[irq] # 0 => InterruptSlots(irq) # {}
  /\ InterruptsCounted

LEMMA SlotOfInterrupt ==
  ASSUME InterruptsInv, NEW irq \in Irqs, InterruptSlots(irq) # {}
  PROVE  \E i \in DOMAIN interrupts : /\ interrupts[i].irq = irq /\ InterruptSlots(irq) = {i}
                                      /\ Min({i}) = i
<1>1. PICK i \in DOMAIN interrupts : interrupts[i].irq = irq
  BY DEF InterruptSlots
<1>2. i \in Nat
  BY DEF InterruptsInv
<1>3. Min({i}) = i
  BY <1>2 DEF Min
<1>4. InterruptSlots(irq) = {i}
  BY <1>1 DEF InterruptsInv, InterruptSlots
<1> QED BY <1>1, <1>3, <1>4

\* Registering a line again keeps its count.
LEMMA RegisterInterruptStep ==
  ASSUME InterruptsInv, NEW irq \in Irqs, RegisterInterrupt(irq), UNCHANGED raised
  PROVE  InterruptsInv'
<1>1. CASE UNCHANGED interrupts
  BY <1>1 DEF InterruptsInv, InterruptsCounted, InterruptSlots
<1>2. CASE /\ InterruptSlots(irq) # {}
           /\ interrupts' = [interrupts EXCEPT ![Min(InterruptSlots(irq))] = Renamed(@)]
  <2>1. PICK i \in DOMAIN interrupts : interrupts' = [interrupts EXCEPT ![i] = Renamed(@)]
    BY <1>2, SlotOfInterrupt
  <2>2. Renamed(interrupts[i]) \in Interrupt
        /\ Renamed(interrupts[i]).irq = interrupts[i].irq
        /\ Renamed(interrupts[i]).handled_count = interrupts[i].handled_count
    <3>1. interrupts[i] \in Interrupt
      BY <2>1 DEF InterruptsInv
    <3> QED BY <3>1 DEF Interrupt, Renamed
  <2>3. /\ interrupts' \in Seq(Interrupt) /\ Len(interrupts') = Len(interrupts)
        /\ DOMAIN interrupts' = DOMAIN interrupts
        /\ \A j \in DOMAIN interrupts :
             /\ interrupts'[j].irq = interrupts[j].irq
             /\ interrupts'[j].handled_count = interrupts[j].handled_count
    BY <2>1, <2>2 DEF InterruptsInv
  <2>4. InterruptsCounted'
    BY <2>3 DEF InterruptsInv, InterruptsCounted
  <2>5. \A other \in Irqs : InterruptSlots(other)' = InterruptSlots(other)
    BY <2>3 DEF InterruptSlots
  <2>6. /\ \A j, k \in DOMAIN interrupts' : interrupts'[j].irq = interrupts'[k].irq => j = k
        /\ \A other \in Irqs : raised[other] # 0 => InterruptSlots(other)' # {}
    BY <2>3, <2>5 DEF InterruptsInv
  <2>7. Len(interrupts) <= MaxInterrupts /\ raised \in [Irqs -> Nat]
    BY DEF InterruptsInv
  <2> QED BY <2>3, <2>4, <2>6, <2>7 DEF InterruptsInv
<1>3. CASE /\ InterruptSlots(irq) = {} /\ Len(interrupts) < MaxInterrupts
           /\ interrupts' = Append(interrupts, [irq |-> irq, handled_count |-> 0, enabled |-> TRUE])
  <2> DEFINE new == [irq |-> irq, handled_count |-> 0, enabled |-> TRUE]
             n == Len(interrupts)
  <2>1. new \in Interrupt /\ new.irq = irq /\ new.handled_count = 0
    BY DevicesAssumption DEF Interrupt
  <2>2. interrupts \in Seq(Interrupt) /\ interrupts' = Append(interrupts, new)
    BY <1>3 DEF InterruptsInv
  <2> HIDE DEF new
  <2>3. /\ n \in Nat /\ DOMAIN interrupts = 1..n
        /\ interrupts' \in Seq(Interrupt) /\ Len(interrupts') = n + 1
        /\ DOMAIN interrupts' = 1..n + 1 /\ interrupts'[n + 1] = new
        /\ \A j \in 1..n : interrupts'[j] = interrupts[j]
    BY <2>1, <2>2
  <2>4. n + 1 <= MaxInterrupts
    BY <1>3, <2>3, DevicesAssumption
  <2> HIDE DEF n
  <2>5. \A j \in 1..n : interrupts[j].irq # irq
    BY <1>3, <2>3 DEF InterruptSlots
  <2>6. \A i, j \in DOMAIN interrupts' : interrupts'[i].irq = interrupts'[j].irq => i = j
    BY <2>1, <2>3, <2>5 DEF InterruptsInv
  <2>7. \A other \in Irqs : InterruptSlots(other) \subseteq InterruptSlots(other)'
    BY <2>3 DEF InterruptSlots
  <2>8. raised[irq] = 0 /\ 0 % CountModulus = 0
    BY <1>3, DevicesAssumption DEF InterruptsInv
  <2>9. ASSUME NEW j \in DOMAIN interrupts'
        PROVE  interrupts'[j].handled_count = raised'[interrupts'[j].irq] % CountModulus
    <3>1. CASE j = n + 1
      BY <2>1, <2>3, <2>8, <3>1
    <3>2. CASE j \in 1..n
      BY <2>3, <3>2 DEF InterruptsInv, InterruptsCounted
    <3> QED BY <2>3, <3>1, <3>2
  <2>10. \A other \in Irqs : raised'[other] # 0 => InterruptSlots(other)' # {}
    BY <2>7 DEF InterruptsInv
  <2> QED BY <2>3, <2>4, <2>6, <2>9, <2>10 DEF InterruptsInv, InterruptsCounted
<1> QED BY <1>1, <1>2, <1>3 DEF RegisterInterrupt

\* Raising one counts it, in its own entry and in no other.
LEMMA RaiseInterruptStep ==
  ASSUME InterruptsInv, NEW irq \in Irqs, RaiseInterrupt(irq),
         raised' = IF result' = "OK" THEN [raised EXCEPT ![irq] = @ + 1] ELSE raised
  PROVE  InterruptsInv'
<1>1. CASE EnabledSlots(irq) = {}
  <2>1. UNCHANGED <<interrupts, raised>>
    BY <1>1 DEF RaiseInterrupt, FailWith
  <2> QED BY <2>1 DEF InterruptsInv, InterruptsCounted, InterruptSlots
<1>2. CASE EnabledSlots(irq) # {}
  <2>1. PICK i \in DOMAIN interrupts : /\ interrupts[i].irq = irq /\ InterruptSlots(irq) = {i}
                                       /\ Min({i}) = i
    BY <1>2, SlotOfInterrupt DEF EnabledSlots
  <2>2. EnabledSlots(irq) = {i}
    BY <1>2, <2>1 DEF EnabledSlots
  <2>3. /\ interrupts' = [interrupts EXCEPT ![i].handled_count = (@ + 1) % CountModulus]
        /\ raised' = [raised EXCEPT ![irq] = @ + 1]
    BY <1>2, <2>1, <2>2 DEF RaiseInterrupt, Succeed
  <2>4. interrupts[i] \in Interrupt /\ raised[irq] \in Nat /\ CountModulus \in Nat
    BY DevicesAssumption DEF InterruptsInv
  <2> DEFINE count == (interrupts[i].handled_count + 1) % CountModulus
             new == [interrupts[i] EXCEPT !.handled_count = count]
  <2>5. interrupts[i].handled_count \in 0..CountModulus - 1 /\ count \in 0..CountModulus - 1
    <3>1. interrupts[i].handled_count \in 0..CountModulus - 1
      BY <2>4 DEF Interrupt
    <3>2. interrupts[i].handled_count + 1 \in Nat /\ CountModulus >= 2
      BY <2>4, <3>1, DevicesAssumption
    <3> QED BY <2>4, <3>1, <3>2, Division
  <2>6. count = (raised[irq] + 1) % CountModulus
    <3>1. interrupts[i].handled_count = raised[irq] % CountModulus
      BY <2>1 DEF InterruptsInv, InterruptsCounted
    <3> QED BY <2>4, <3>1, SuccessorWraps, DevicesAssumption
  <2>7. interrupts' = [interrupts EXCEPT ![i] = new]
    BY <2>3
  <2> HIDE DEF count
  <2>8. new \in Interrupt /\ new.irq = irq /\ new.handled_count = count
    BY <2>1, <2>4, <2>5 DEF Interrupt
  <2> HIDE DEF new
  <2>9. /\ interrupts' \in Seq(Interrupt) /\ Len(interrupts') = Len(interrupts)
        /\ DOMAIN interrupts' = DOMAIN interrupts
        /\ interrupts'[i] = new
        /\ \A j \in DOMAIN interrupts : /\ j # i => interrupts'[j] = interrupts[j]
                                        /\ interrupts'[j].irq = interrupts[j].irq
    BY <2>1, <2>7, <2>8 DEF InterruptsInv
  <2>10. /\ raised' \in [Irqs -> Nat] /\ raised'[irq] = raised[irq] + 1
         /\ \A other \in Irqs \ {irq} : raised'[other] = raised[other]
    BY <2>3, <2>4 DEF InterruptsInv
  <2>11. InterruptsCounted'
    <3>1. ASSUME NEW j \in DOMAIN interrupts, j # i
          PROVE  interrupts'[j].handled_count = raised'[interrupts'[j].irq] % CountModulus
      <4>1. interrupts[j].irq \in Irqs /\ interrupts[j].irq # irq
        <5>1. interrupts[j] \in Interrupt
          BY DEF InterruptsInv
        <5>2. interrupts[j].irq # interrupts[i].irq
          BY <2>1, <3>1 DEF InterruptsInv
        <5> QED BY <2>1, <5>1, <5>2 DEF Interrupt
      <4> QED BY <2>9, <2>10, <3>1, <4>1 DEF InterruptsInv, InterruptsCounted
    <3>2. interrupts'[i].handled_count = raised'[interrupts'[i].irq] % CountModulus
      BY <2>1, <2>6, <2>8, <2>9, <2>10
    <3> QED BY <2>9, <3>1, <3>2 DEF InterruptsCounted
  <2>12. \A other \in Irqs : InterruptSlots(other)' = InterruptSlots(other)
    BY <2>9 DEF InterruptSlots
  <2>13. \A other \in Irqs : raised'[other] # 0 => InterruptSlots(other)' # {}
    <3>1. \A other \in Irqs : raised[other] # 0 => InterruptSlots(other) # {}
      BY DEF InterruptsInv
    <3>2. InterruptSlots(irq) # {}
      BY <2>1
    <3> HIDE DEF InterruptSlots
    <3> QED BY <2>10, <2>12, <3>1, <3>2
  <2> QED BY <2>9, <2>10, <2>11, <2>13 DEF InterruptsInv
<1> QED BY <1>1, <1>2

LEMMA InterruptsStep ==
  ASSUME InterruptsInv, [WatchedNext]_<<vars, host, original, history>>
  PROVE  InterruptsInv'
<1>1. CASE UNCHANGED <<interrupts, raised>>
  BY <1>1 DEF InterruptsInv, InterruptsCounted, InterruptSlots
<1>2. ASSUME NEW irq \in Irqs, WatchedRaise(irq) PROVE InterruptsInv'
  BY <1>2, RaiseInterruptStep DEF WatchedRaise, RaiseInterruptCall
<1>3. ASSUME NEW irq \in Irqs, RegisterInterrupt(irq), UNCHANGED raised PROVE InterruptsInv'
  BY <1>3, RegisterInterruptStep
<1>4. \/ UNCHANGED <<interrupts, raised>>
      \/ \E irq \in Irqs : WatchedRaise(irq)
      \/ \E irq \in Irqs : RegisterInterrupt(irq) /\ UNCHANGED raised
  BY DEF WatchedNext, FilesHost, ProfilesHost, DevicesHost, PackagesHost, Unwatched,
         WatchedAdd, WatchedTrash, WatchedInstall, AddFileCall, TrashFileCall,
         ArchiveFileCall, CheckFileIntegrityCall, RegisterInterruptCall,
         HalRegisterCall, HalWriteCall, InstallLumiaHalCall, InstallBappCall, RejectArguments,
         HalRegister, HalWrite, InstallLumiaHal, vars, deviceVars, history
<1> QED BY <1>1, <1>2, <1>3, <1>4

LEMMA InterruptsStart ==
  ASSUME WatchedInit
  PROVE  InterruptsInv
<1>1. interrupts = <<>> /\ raised = [irq \in Irqs |-> 0]
  BY DEF WatchedInit, InitFor, DevicesInit
<1>2. <<>> \in Seq(Interrupt) /\ DOMAIN <<>> = {} /\ Len(<<>>) = 0 /\ MaxInterrupts \in Nat
  BY DevicesAssumption
<1>3. raised \in [Irqs -> Nat] /\ \A irq \in Irqs : raised[irq] = 0
  BY <1>1
<1> QED BY <1>1, <1>2, <1>3 DEF InterruptsInv, InterruptsCounted

\* The table counts every interrupt raised on a registered line, modulo the
\* width of handled_count, for every number of lines and every width.
THEOREM InterruptsAlwaysCounted == WatchedSpec => []InterruptsCounted
<1>1. InterruptsInv => InterruptsCounted
  BY DEF InterruptsInv
<1>2. InterruptsInv /\ [WatchedNext]_<<vars, host, original, history>> => InterruptsInv'
  BY InterruptsStep
<1>3. WatchedInit => InterruptsInv
  BY InterruptsStart
<1> QED BY <1>1, <1>2, <1>3, PTL DEF WatchedSpec

-----------------------------------------------------------------------------
(* Files.  A path that fits, and under which none was cut off, has at most one  *)
(* record, which is in the trash or holds the content added last.              *)

OneRecordFor(head) ==
  \A f, g \in DOMAIN files :
    files[f].path.head = head /\ files[g].path.head = head => f = g

RecordAsAdded(f, head) ==
  IF content[head] = NoHash THEN files[f].deleted
  ELSE ~files[f].deleted /\ files[f].content_hash = Kept(content[head])

HeadAsAdded(head) ==
  /\ OneRecordFor(head)
  /\ \A f \in DOMAIN files : files[f].path.head = head => RecordAsAdded(f, head)
  /\ content[head] # NoHash => \E f \in DOMAIN files : files[f].path.head = head

FilesInv ==
  /\ files \in Seq(FileRecord) /\ Len(files) <= MaxFiles
  /\ \A f \in DOMAIN files : files[f].path.rest = 0
  /\ content \in [PathHeads -> Hash \cup {NoHash}]
  /\ \A head \in PathHeads \ clashed : HeadAsAdded(head)

LEMMA Paths ==
  ASSUME NEW a \in Path, NEW b \in Path, a.head = b.head, a.rest = b.rest
  PROVE  a = b
BY DEF Path, Text

LEMMA NoContent == NoHash.head = ""
BY DEF NoHash

LEMMA KeptTexts ==
  /\ \A path \in Path : /\ Kept(path) \in Path /\ path.head \in PathHeads
                        /\ Kept(path).head = path.head /\ Kept(path).rest = 0
  /\ \A hash \in Hash : Kept(hash) \in Hash /\ hash # NoHash
<1>1. 0 \in Rests /\ "" \notin HashHeads
  BY FilesAssumption
<1>2. ASSUME NEW path \in Path
      PROVE  /\ Kept(path) \in Path /\ path.head \in PathHeads
             /\ Kept(path).head = path.head /\ Kept(path).rest = 0
  BY <1>1 DEF Path, Text, Kept
<1>3. ASSUME NEW hash \in Hash PROVE Kept(hash) \in Hash
  BY <1>1 DEF Hash, Text, Kept
<1>4. ASSUME NEW hash \in Hash PROVE hash # NoHash
  <2>1. hash.head # ""
    BY <1>1 DEF Hash, Text
  <2> QED BY <2>1, NoContent
<1> QED BY <1>2, <1>3, <1>4

\* What a call that finds a record changes: that record, but not its path.
LEMMA RecordChanged ==
  ASSUME FilesInv, NEW f \in DOMAIN files, NEW record \in FileRecord,
         record.path = files[f].path, files' = [files EXCEPT ![f] = record]
  PROVE  /\ files' \in Seq(FileRecord) /\ Len(files') = Len(files)
         /\ DOMAIN files' = DOMAIN files /\ files'[f] = record
         /\ \A g \in DOMAIN files : /\ files'[g].path = files[g].path
                                    /\ g # f => files'[g] = files[g]
BY DEF FilesInv

LEMMA RecordFound ==
  ASSUME FilesInv, NEW path \in Path, RecordsOf(path) # {}
  PROVE  LET f == Min(RecordsOf(path))
         IN  /\ f \in DOMAIN files /\ files[f] \in FileRecord /\ files[f].path = path
             /\ path.rest = 0
<1>1. RecordsOf(path) \subseteq Nat
  BY DEF FilesInv, RecordsOf
<1>2. Min(RecordsOf(path)) \in RecordsOf(path)
  BY <1>1, MinOfNaturals
<1>3. Min(RecordsOf(path)) \in DOMAIN files /\ files[Min(RecordsOf(path))].path = path
  BY <1>2 DEF RecordsOf
<1> QED BY <1>3 DEF FilesInv

\* No record has the head of a path that fits and is not found.
LEMMA HeadNotFound ==
  ASSUME FilesInv, NEW path \in Path, Fits(path), RecordsOf(path) = {}
  PROVE  \A f \in DOMAIN files : files[f].path.head # path.head
<1> SUFFICES ASSUME NEW f \in DOMAIN files, files[f].path.head = path.head PROVE FALSE
  OBVIOUS
<1>1. files[f] \in FileRecord /\ files[f].path.rest = 0
  BY DEF FilesInv
<1>2. files[f].path \in Path
  BY <1>1 DEF FileRecord
<1>3. files[f].path = path
  BY <1>1, <1>2, Paths DEF Fits
<1> QED BY <1>3 DEF RecordsOf

\* The heads whose records and contents a step leaves alone stay as they are.
LEMMA HeadKept ==
  ASSUME NEW head, HeadAsAdded(head),
         content'[head] = content[head],
         DOMAIN files \subseteq DOMAIN files',
         \A f \in DOMAIN files : files'[f].path.head = files[f].path.head,
         \A f \in DOMAIN files : files[f].path.head = head =>
           /\ files'[f].deleted = files[f].deleted
           /\ files'[f].content_hash = files[f].content_hash,
         \A f \in DOMAIN files' \ DOMAIN files : files'[f].path.head # head
  PROVE  HeadAsAdded(head)'
<1>1. \A f \in DOMAIN files' : files'[f].path.head = head =>
        f \in DOMAIN files /\ files[f].path.head = head
  OBVIOUS
<1>2. OneRecordFor(head)'
  BY <1>1 DEF HeadAsAdded, OneRecordFor
<1>3. ASSUME NEW f \in DOMAIN files', files'[f].path.head = head
      PROVE  RecordAsAdded(f, head)'
  <2>1. RecordAsAdded(f, head) /\ f \in DOMAIN files
    BY <1>1, <1>3 DEF HeadAsAdded
  <2> QED BY <1>1, <1>3, <2>1 DEF RecordAsAdded
<1>4. content'[head] # NoHash => \E f \in DOMAIN files' : files'[f].path.head = head
  BY DEF HeadAsAdded
<1> QED BY <1>2, <1>3, <1>4 DEF HeadAsAdded

LEMMA AddFileStep ==
  ASSUME FilesInv, NEW path \in Path, NEW hash \in Hash, WatchedAdd(path, hash)
  PROVE  FilesInv'
<1>0. Kept(path) \in Path /\ path.head \in PathHeads /\ Kept(path).head = path.head
      /\ Kept(path).rest = 0 /\ Kept(hash) \in Hash /\ hash # NoHash
  BY KeptTexts
<1>4. Len(files) \in Nat /\ MaxFiles \in Nat
  <2>1. files \in Seq(FileRecord)
    BY DEF FilesInv
  <2>2. Len(files) \in Nat
    BY <2>1
  <2> QED BY <2>2, FilesAssumption
<1>1. CASE RecordsOf(path) # {}
  <2> DEFINE f == Min(RecordsOf(path))
             record == Rewritten(files[f], hash)
  <2>1. f \in DOMAIN files /\ files[f] \in FileRecord /\ files[f].path = path /\ Fits(path)
    BY <1>1, RecordFound DEF Fits
  <2>2. files' = [files EXCEPT ![f] = record]
    BY <1>1 DEF WatchedAdd, AddFileCall, AddFile
  <2>3. content' = [content EXCEPT ![path.head] = hash] /\ clashed' = clashed
    BY <1>1, <2>1 DEF WatchedAdd, AddFileCall, AddFile, Succeed
  <2> HIDE DEF f
  <2>4. /\ record \in FileRecord /\ record.path = path
        /\ record.content_hash = Kept(hash) /\ ~record.deleted
    BY <1>0, <2>1 DEF FileRecord, Rewritten
  <2> HIDE DEF record
  <2>5. /\ files' \in Seq(FileRecord) /\ Len(files') = Len(files)
        /\ DOMAIN files' = DOMAIN files /\ files'[f] = record
        /\ \A g \in DOMAIN files : /\ files'[g].path = files[g].path
                                   /\ g # f => files'[g] = files[g]
    BY <2>1, <2>2, <2>4, RecordChanged
  <2>6. /\ content' \in [PathHeads -> Hash \cup {NoHash}] /\ content'[path.head] = hash
        /\ \A other \in PathHeads \ {path.head} : content'[other] = content[other]
    BY <1>0, <2>3 DEF FilesInv
  <2>7. ASSUME NEW head \in PathHeads \ clashed PROVE HeadAsAdded(head)'
    <3>0. HeadAsAdded(head)
      BY DEF FilesInv
    <3>1. CASE head = path.head
      <4>1. \A g \in DOMAIN files : files[g].path.head = head => g = f
        BY <2>1, <3>0, <3>1 DEF HeadAsAdded, OneRecordFor
      <4>2. OneRecordFor(head)'
        BY <2>5, <4>1 DEF OneRecordFor
      <4>3. ASSUME NEW g \in DOMAIN files', g = f PROVE RecordAsAdded(g, head)'
        BY <1>0, <2>4, <2>5, <2>6, <3>1, <4>3 DEF RecordAsAdded
      <4>4. \A g \in DOMAIN files' : files'[g].path.head = head => RecordAsAdded(g, head)'
        BY <2>5, <4>1, <4>3
      <4>5. f \in DOMAIN files' /\ files'[f].path.head = head
        BY <2>1, <2>5, <3>1
      <4> QED BY <4>2, <4>4, <4>5 DEF HeadAsAdded
    <3>2. CASE head # path.head
      BY <2>1, <2>5, <2>6, <3>0, <3>2, HeadKept
    <3> QED BY <3>1, <3>2
  <2>8. /\ \A g \in DOMAIN files' : files'[g].path.rest = 0
        /\ Len(files') <= MaxFiles
    BY <2>5 DEF FilesInv
  <2> QED BY <2>3, <2>5, <2>6, <2>7, <2>8 DEF FilesInv
<1>2. CASE RecordsOf(path) = {} /\ Len(files) >= MaxFiles
  <2>1. UNCHANGED <<files, content, clashed>>
    BY <1>2, <1>4 DEF WatchedAdd, AddFileCall, AddFile, FailWith
  <2> QED BY <2>1 DEF FilesInv, HeadAsAdded, OneRecordFor, RecordAsAdded
<1>3. CASE RecordsOf(path) = {} /\ Len(files) < MaxFiles
  <2> DEFINE record == NewFile(path, hash)
             n == Len(files)
  <2>1. files' = Append(files, record) /\ result' = "OK"
    BY <1>3, <1>4 DEF WatchedAdd, AddFileCall, AddFile, Succeed
  <2>2. /\ content' = IF Fits(path) THEN [content EXCEPT ![path.head] = hash] ELSE content
        /\ clashed' = IF Fits(path) THEN clashed ELSE clashed \cup {path.head}
    BY <2>1 DEF WatchedAdd
  <2>3. /\ record \in FileRecord /\ record.path = Kept(path)
        /\ record.content_hash = Kept(hash) /\ ~record.deleted
    BY <1>0 DEF FileRecord, NewFile
  <2> HIDE DEF record
  <2>4. files \in Seq(FileRecord)
    BY DEF FilesInv
  <2>5. /\ n \in Nat /\ DOMAIN files = 1..n
        /\ files' \in Seq(FileRecord) /\ Len(files') = n + 1
        /\ DOMAIN files' = 1..n + 1 /\ files'[n + 1] = record
        /\ \A f \in 1..n : files'[f] = files[f]
    BY <2>1, <2>3, <2>4
  <2>6. n + 1 <= MaxFiles
    BY <1>3, <1>4, <2>5
  <2> HIDE DEF n
  <2>7. /\ content' \in [PathHeads -> Hash \cup {NoHash}]
        /\ Fits(path) => content'[path.head] = hash
        /\ \A other \in PathHeads \ {path.head} : content'[other] = content[other]
    BY <1>0, <2>2 DEF FilesInv
  <2>8. \A f \in DOMAIN files' : files'[f].path.rest = 0
    <3>1. \A f \in 1..n : files[f].path.rest = 0
      BY <2>5 DEF FilesInv
    <3> QED BY <1>0, <2>3, <2>5, <3>1
  <2>9. ASSUME NEW head \in PathHeads \ clashed' PROVE HeadAsAdded(head)'
    <3>0. HeadAsAdded(head)
      BY <2>2 DEF FilesInv
    <3>1. CASE head = path.head
      <4>0. Fits(path)
        BY <2>2, <3>1
      <4>1. \A f \in 1..n : files[f].path.head # head
        BY <1>3, <2>5, <3>1, <4>0, HeadNotFound
      <4>2. \A f \in DOMAIN files' : files'[f].path.head = head => f = n + 1
        BY <2>5, <4>1
      <4>3. OneRecordFor(head)'
        BY <4>2 DEF OneRecordFor
      <4>4. ASSUME NEW f \in DOMAIN files', f = n + 1 PROVE RecordAsAdded(f, head)'
        BY <1>0, <2>3, <2>5, <2>7, <3>1, <4>0, <4>4 DEF RecordAsAdded
      <4>5. n + 1 \in DOMAIN files' /\ files'[n + 1].path.head = head
        BY <1>0, <2>3, <2>5, <3>1
      <4>6. \A f \in DOMAIN files' : files'[f].path.head = head => RecordAsAdded(f, head)'
        BY <4>2, <4>4
      <4> QED BY <4>3, <4>5, <4>6 DEF HeadAsAdded
    <3>2. CASE head # path.head
      <4>1. /\ DOMAIN files \subseteq DOMAIN files'
            /\ \A f \in DOMAIN files : files'[f] = files[f]
            /\ \A f \in DOMAIN files' \ DOMAIN files : f = n + 1
        BY <2>5
      <4>2. \A f \in DOMAIN files' \ DOMAIN files : files'[f].path.head # head
        BY <1>0, <2>3, <2>5, <3>2, <4>1
      <4> QED BY <2>7, <3>0, <3>2, <4>1, <4>2, HeadKept
    <3> QED BY <3>1, <3>2
  <2> QED BY <2>5, <2>6, <2>7, <2>8, <2>9 DEF FilesInv
<1> QED BY <1>1, <1>2, <1>3, <1>4

LEMMA TrashFileStep ==
  ASSUME FilesInv, NEW path \in Path, WatchedTrash(path)
  PROVE  FilesInv'
<1>1. CASE RecordsOf(path) # {}
  <2> DEFINE f == Min(RecordsOf(path))
             record == [files[f] EXCEPT !.deleted = TRUE]
  <2>1. f \in DOMAIN files /\ files[f] \in FileRecord /\ files[f].path = path
    BY <1>1, RecordFound
  <2>2. files' = [files EXCEPT ![f].deleted = TRUE] /\ result' = "OK"
    BY <1>1 DEF WatchedTrash, TrashFileCall, TrashFile, Succeed
  <2>3. content' = [content EXCEPT ![path.head] = NoHash] /\ clashed' = clashed
    BY <2>2 DEF WatchedTrash
  <2> HIDE DEF f
  <2>4. files' = [files EXCEPT ![f] = record]
    BY <2>2
  <2>5. record \in FileRecord /\ record.path = path /\ record.deleted
    BY <2>1 DEF FileRecord
  <2> HIDE DEF record
  <2>6. /\ files' \in Seq(FileRecord) /\ Len(files') = Len(files)
        /\ DOMAIN files' = DOMAIN files /\ files'[f] = record
        /\ \A g \in DOMAIN files : /\ files'[g].path = files[g].path
                                   /\ g # f => files'[g] = files[g]
    BY <2>1, <2>4, <2>5, RecordChanged
  <2>7. /\ content' \in [PathHeads -> Hash \cup {NoHash}] /\ content'[path.head] = NoHash
        /\ \A other \in PathHeads \ {path.head} : content'[other] = content[other]
    BY <2>3, KeptTexts DEF FilesInv
  <2>8. ASSUME NEW head \in PathHeads \ clashed PROVE HeadAsAdded(head)'
    <3>0. HeadAsAdded(head)
      BY DEF FilesInv
    <3>1. CASE head = path.head
      <4>1. \A g \in DOMAIN files : files[g].path.head = head => g = f
        BY <2>1, <3>0, <3>1 DEF HeadAsAdded, OneRecordFor
      <4>2. OneRecordFor(head)'
        BY <2>6, <4>1 DEF OneRecordFor
      <4>3. ASSUME NEW g \in DOMAIN files', g = f PROVE RecordAsAdded(g, head)'
        BY <2>5, <2>6, <2>7, <3>1, <4>3 DEF RecordAsAdded
      <4>4. \A g \in DOMAIN files' : files'[g].path.head = head => RecordAsAdded(g, head)'
        BY <2>6, <4>1, <4>3
      <4> QED BY <2>7, <3>1, <4>2, <4>4 DEF HeadAsAdded
    <3>2. CASE head # path.head
      BY <2>1, <2>6, <2>7, <3>0, <3>2, HeadKept
    <3> QED BY <3>1, <3>2
  <2>9. /\ \A g \in DOMAIN files' : files'[g].path.rest = 0
        /\ Len(files') <= MaxFiles
    BY <2>6 DEF FilesInv
  <2> QED BY <2>3, <2>6, <2>7, <2>8, <2>9 DEF FilesInv
<1>2. CASE RecordsOf(path) = {}
  <2>1. UNCHANGED <<files, content, clashed>>
    BY <1>2 DEF WatchedTrash, TrashFileCall, TrashFile, FailWith
  <2> QED BY <2>1 DEF FilesInv, HeadAsAdded, OneRecordFor, RecordAsAdded
<1> QED BY <1>1, <1>2

LEMMA ArchiveFileStep ==
  ASSUME FilesInv, NEW path \in Path, ArchiveFile(path), UNCHANGED <<content, clashed>>
  PROVE  FilesInv'
<1>1. CASE VisibleRecordsOf(path) # {}
  <2> DEFINE f == Min(VisibleRecordsOf(path))
             record == [files[f] EXCEPT !.archived = TRUE]
  <2>1. f \in DOMAIN files /\ files[f] \in FileRecord
    <3>1. VisibleRecordsOf(path) \subseteq DOMAIN files
      BY DEF VisibleRecordsOf, RecordsOf
    <3>2. DOMAIN files \subseteq Nat
      BY DEF FilesInv
    <3>3. f \in VisibleRecordsOf(path)
      BY <1>1, <3>1, <3>2, MinOfNaturals
    <3> QED BY <3>1, <3>3 DEF FilesInv
  <2>2. files' = [files EXCEPT ![f].archived = TRUE]
    BY <1>1 DEF ArchiveFile
  <2> HIDE DEF f
  <2>3. files' = [files EXCEPT ![f] = record]
    BY <2>2
  <2>4. /\ record \in FileRecord /\ record.path = files[f].path
        /\ record.deleted = files[f].deleted
        /\ record.content_hash = files[f].content_hash
    BY <2>1 DEF FileRecord
  <2> HIDE DEF record
  <2>5. /\ files' \in Seq(FileRecord) /\ Len(files') = Len(files)
        /\ DOMAIN files' = DOMAIN files /\ files'[f] = record
        /\ \A g \in DOMAIN files : /\ files'[g].path = files[g].path
                                   /\ g # f => files'[g] = files[g]
    BY <2>1, <2>3, <2>4, RecordChanged
  <2>6. \A g \in DOMAIN files : /\ files'[g].deleted = files[g].deleted
                                /\ files'[g].content_hash = files[g].content_hash
    BY <2>4, <2>5
  <2>7. ASSUME NEW head \in PathHeads \ clashed PROVE HeadAsAdded(head)'
    <3>1. HeadAsAdded(head)
      BY DEF FilesInv
    <3> QED BY <2>5, <2>6, <3>1, HeadKept
  <2>8. /\ \A g \in DOMAIN files' : files'[g].path.rest = 0
        /\ Len(files') <= MaxFiles
    BY <2>5 DEF FilesInv
  <2> QED BY <2>5, <2>7, <2>8 DEF FilesInv
<1>2. CASE VisibleRecordsOf(path) = {}
  <2>1. UNCHANGED <<files, content, clashed>>
    BY <1>2 DEF ArchiveFile
  <2> QED BY <2>1 DEF FilesInv, HeadAsAdded, OneRecordFor, RecordAsAdded
<1> QED BY <1>1, <1>2

LEMMA FilesStep ==
  ASSUME FilesInv, [WatchedNext]_<<vars, host, original, history>>
  PROVE  FilesInv'
<1>1. CASE UNCHANGED <<files, content, clashed>>
  BY <1>1 DEF FilesInv, HeadAsAdded, OneRecordFor, RecordAsAdded
<1>2. ASSUME NEW path \in Path, NEW hash \in Hash, WatchedAdd(path, hash) PROVE FilesInv'
  BY <1>2, AddFileStep
<1>3. ASSUME NEW path \in Path, WatchedTrash(path) PROVE FilesInv'
  BY <1>3, TrashFileStep
<1>4. ASSUME NEW path \in Path, ArchiveFile(path), UNCHANGED <<content, clashed>>
      PROVE  FilesInv'
  BY <1>4, ArchiveFileStep
<1>5. \/ UNCHANGED <<files, content, clashed>>
      \/ \E path \in Path, hash \in Hash : WatchedAdd(path, hash)
      \/ \E path \in Path : WatchedTrash(path)
      \/ \E path \in Path : ArchiveFile(path) /\ UNCHANGED <<content, clashed>>
  BY DEF WatchedNext, FilesHost, ProfilesHost, DevicesHost, PackagesHost, Unwatched,
         WatchedRaise, WatchedInstall, ArchiveFileCall, CheckFileIntegrityCall,
         CheckFileIntegrity, RegisterInterruptCall, RaiseInterruptCall, HalRegisterCall,
         HalWriteCall, InstallLumiaHalCall, InstallBappCall, RejectArguments,
         vars, history, fileHistory
<1> QED BY <1>1, <1>2, <1>3, <1>4, <1>5

LEMMA FilesStart ==
  ASSUME WatchedInit
  PROVE  FilesInv
<1>1. files = <<>> /\ content = [head \in PathHeads |-> NoHash]
  BY DEF WatchedInit, InitFor, FilesInit
<1>2. <<>> \in Seq(FileRecord) /\ DOMAIN <<>> = {} /\ Len(<<>>) = 0
  OBVIOUS
<1>3. MaxFiles \in Nat
  BY FilesAssumption
<1>4. content \in [PathHeads -> Hash \cup {NoHash}]
      /\ \A head \in PathHeads : content[head] = NoHash
  BY <1>1
<1>5. \A head \in PathHeads : HeadAsAdded(head)
  BY <1>1, <1>2, <1>4 DEF HeadAsAdded, OneRecordFor
<1> QED BY <1>1, <1>2, <1>3, <1>4, <1>5 DEF FilesInv

\* What the invariant says of the answers of bolun_runtime_check_file_integrity.
LEMMA FilesAnswer == FilesInv => FilesAsAdded
<1> SUFFICES ASSUME FilesInv, NEW head \in PathHeads \ clashed, NEW hash \in Hash
             PROVE  IntegrityOf([head |-> head, rest |-> 0], hash) = ExpectedIntegrity(head, hash)
  BY DEF FilesAsAdded
<1> DEFINE path == [head |-> head, rest |-> 0]
<1>0. HeadAsAdded(head) /\ path \in Path
  BY FilesAssumption DEF FilesInv, Path, Text
<1>1. \A f \in RecordsOf(path) : f \in DOMAIN files /\ files[f].path.head = head
  BY DEF RecordsOf
<1>2. CASE content[head] = NoHash
  <2>1. VisibleRecordsOf(path) = {}
    BY <1>0, <1>1, <1>2 DEF VisibleRecordsOf, HeadAsAdded, RecordAsAdded
  <2> QED BY <1>2, <2>1 DEF IntegrityOf, ExpectedIntegrity
<1>3. CASE content[head] # NoHash
  <2>1. PICK f \in DOMAIN files : files[f].path.head = head
    BY <1>0, <1>3 DEF HeadAsAdded
  <2>2. files[f].path = path
    <3>1. files[f] \in FileRecord /\ files[f].path.rest = 0
      BY DEF FilesInv
    <3>2. files[f].path \in Path
      BY <3>1 DEF FileRecord
    <3> QED BY <1>0, <2>1, <3>1, <3>2, Paths
  <2>3. ~files[f].deleted /\ files[f].content_hash = Kept(content[head])
    BY <1>0, <1>3, <2>1 DEF HeadAsAdded, RecordAsAdded
  <2>4. \A g \in RecordsOf(path) : g = f
    BY <1>0, <1>1, <2>1 DEF HeadAsAdded, OneRecordFor
  <2> HIDE DEF path
  <2>5. VisibleRecordsOf(path) = {f}
    BY <2>2, <2>3, <2>4 DEF VisibleRecordsOf, RecordsOf
  <2>6. Min({f}) = f
    <3>1. f \in Nat
      BY DEF FilesInv
    <3> QED BY <3>1 DEF Min
  <2>7. IntegrityOf(path, hash) = IF files[f].content_hash = hash THEN "OK" ELSE "INTERNAL"
    BY <2>5, <2>6 DEF IntegrityOf
  <2> QED BY <1>3, <2>3, <2>7 DEF ExpectedIntegrity, path
<1> QED BY <1>2, <1>3

\* The file records are a map from paths to contents: a path is known exactly
\* while it is added and not in the trash, and exactly the content added last is
\* intact (FilesAsAdded), for every capacity, path and hash.
THEOREM FilesAlwaysAsAdded == WatchedSpec => []FilesAsAdded
<1>1. WatchedInit => FilesInv
  BY FilesStart
<1>2. FilesInv /\ [WatchedNext]_<<vars, host, original, history>> => FilesInv'
  BY FilesStep
<1> QED BY <1>1, <1>2, FilesAnswer, PTL DEF WatchedSpec

-----------------------------------------------------------------------------
(* Devices.  The tables without two entries for one device are closed under    *)
(* registration, and so under the calls of a whole profile.                    *)

NoTwice(table) ==
  \A d, e \in DOMAIN table : SameDevice(table[d], table[e]) => d = e

DeviceTables ==
  {table \in Seq(HalDevice) : Len(table) <= MaxHalDevices /\ NoTwice(table)}

DevicesIn(table) == {table[d] : d \in DOMAIN table}

\* The devices that are there when a device is registered and there is room.
WithDevice(devices, device) == {e \in devices : ~SameDevice(e, device)} \cup {device}

LEMMA DeviceReplaced ==
  ASSUME NEW table \in DeviceTables, NEW device \in HalDevice, Known(table, device) # {}
  PROVE  /\ Registered(table, device) \in DeviceTables
         /\ DevicesIn(Registered(table, device)) = WithDevice(DevicesIn(table), device)
<1> DEFINE new == Registered(table, device)
<1>1. /\ table \in Seq(HalDevice) /\ Len(table) <= MaxHalDevices /\ NoTwice(table)
      /\ \A e \in DOMAIN table : table[e] \in HalDevice /\ e \in Nat
  BY DEF DeviceTables
<1>2. PICK d \in DOMAIN table : SameDevice(table[d], device)
  BY DEF Known
<1>3. \A e \in DOMAIN table : SameDevice(table[e], device) => e = d
  BY <1>1, <1>2 DEF NoTwice, SameDevice
<1>4. Known(table, device) = {d} /\ Min({d}) = d
  BY <1>1, <1>2, <1>3 DEF Known, Min
<1>5. new = [table EXCEPT ![d] = device]
  BY <1>4 DEF Registered
<1> HIDE DEF new
<1>6. /\ new \in Seq(HalDevice) /\ Len(new) = Len(table) /\ DOMAIN new = DOMAIN table
      /\ new[d] = device /\ \A e \in DOMAIN table : e # d => new[e] = table[e]
  BY <1>1, <1>2, <1>5
<1>7. NoTwice(new)
  <2>1. \A e \in DOMAIN table : /\ new[e].device_class = table[e].device_class
                                /\ new[e].device_id = table[e].device_id
    BY <1>2, <1>6 DEF SameDevice
  <2> QED BY <1>1, <1>6, <2>1 DEF NoTwice, SameDevice
<1>8. DevicesIn(new) = WithDevice(DevicesIn(table), device)
  <2>1. \A e \in DOMAIN table : ~SameDevice(table[e], device) <=> e # d
    BY <1>2, <1>3
  <2> QED BY <1>2, <1>6, <2>1 DEF DevicesIn, WithDevice
<1> QED BY <1>1, <1>6, <1>7, <1>8 DEF DeviceTables, new

LEMMA DeviceAppended ==
  ASSUME NEW table \in DeviceTables, NEW device \in HalDevice, Known(table, device) = {},
         Len(table) < MaxHalDevices
  PROVE  /\ Registered(table, device) \in DeviceTables
         /\ DevicesIn(Registered(table, device)) = WithDevice(DevicesIn(table), device)
<1> DEFINE new == Registered(table, device)
           n == Len(table)
<1>1. table \in Seq(HalDevice) /\ NoTwice(table) /\ n \in Nat /\ DOMAIN table = 1..n
  BY DEF DeviceTables
<1>2. new = Append(table, device)
  BY DEF Registered
<1> HIDE DEF new
<1>3. /\ new \in Seq(HalDevice) /\ Len(new) = n + 1 /\ DOMAIN new = 1..n + 1
      /\ new[n + 1] = device /\ \A e \in 1..n : new[e] = table[e]
  BY <1>1, <1>2
<1>4. n + 1 <= MaxHalDevices
  BY <1>1, DevicesAssumption
<1> HIDE DEF n
<1>5. \A e \in 1..n : ~SameDevice(table[e], device) /\ ~SameDevice(device, table[e])
  BY <1>1 DEF Known, SameDevice
<1>6. NoTwice(new)
  <2> SUFFICES ASSUME NEW d \in 1..n + 1, NEW e \in 1..n + 1, SameDevice(new[d], new[e])
               PROVE  d = e
    BY <1>3 DEF NoTwice
  <2>1. CASE d \in 1..n /\ e \in 1..n
    BY <1>1, <1>3, <2>1 DEF NoTwice
  <2>2. CASE d = n + 1 /\ e \in 1..n
    BY <1>3, <1>5, <2>2
  <2>3. CASE d \in 1..n /\ e = n + 1
    BY <1>3, <1>5, <2>3
  <2> QED BY <1>1, <2>1, <2>2, <2>3
<1>7. DevicesIn(new) = WithDevice(DevicesIn(table), device)
  BY <1>1, <1>3, <1>5 DEF DevicesIn, WithDevice
<1> QED BY <1>3, <1>4, <1>6, <1>7 DEF DeviceTables, new

\* What one registration leaves: devices keep their places, the others keep what
\* they are, and the new one is there unless it was unknown and there is no room.
LEMMA RegistrationLeaves ==
  ASSUME NEW table \in DeviceTables, NEW device \in HalDevice,
         NEW new, new = Registered(table, device)
  PROVE  /\ Len(table) \in Nat /\ Len(new) \in Nat
         /\ Len(table) <= Len(new) /\ Len(new) <= MaxHalDevices
         /\ DOMAIN table = 1..Len(table) /\ DOMAIN new = 1..Len(new)
         /\ \A d \in DOMAIN table : d \in DOMAIN new /\ SameDevice(new[d], table[d])
         /\ \A e \in DevicesIn(table) : ~SameDevice(e, device) => e \in DevicesIn(new)
         /\ device \in DevicesIn(new) \/ (Known(table, device) = {} /\ Len(new) = MaxHalDevices)
<1>1. /\ table \in Seq(HalDevice) /\ Len(table) \in Nat /\ Len(table) <= MaxHalDevices
      /\ DOMAIN table = 1..Len(table) /\ MaxHalDevices \in Nat
  BY DevicesAssumption DEF DeviceTables
<1>2. CASE Known(table, device) # {}
  <2>1. new \in DeviceTables /\ DevicesIn(new) = WithDevice(DevicesIn(table), device)
    BY <1>2, DeviceReplaced
  <2>2. new = [table EXCEPT ![Min(Known(table, device))] = device]
    BY <1>2 DEF Registered
  <2>3. Min(Known(table, device)) \in Known(table, device)
    <3>1. Known(table, device) \subseteq Nat
      BY <1>1 DEF Known
    <3> QED BY <1>2, <3>1, MinOfNaturals
  <2>4. PICK m \in DOMAIN table : SameDevice(table[m], device) /\ new = [table EXCEPT ![m] = device]
    BY <2>2, <2>3 DEF Known
  <2>5. DOMAIN new = DOMAIN table /\ \A d \in DOMAIN table : SameDevice(new[d], table[d])
    BY <2>4 DEF SameDevice
  <2>6. Len(new) = Len(table)
    BY <1>1, <2>1, <2>5 DEF DeviceTables
  <2>7. device \in DevicesIn(new)
        /\ \A e \in DevicesIn(table) : ~SameDevice(e, device) => e \in DevicesIn(new)
    BY <2>1 DEF WithDevice
  <2>8. DOMAIN new = 1..Len(new) /\ Len(new) \in Nat
    BY <1>1, <2>5, <2>6
  <2>9. \A d \in DOMAIN table : d \in DOMAIN new /\ SameDevice(new[d], table[d])
    BY <2>5
  <2>10. Len(table) <= Len(new) /\ Len(new) <= MaxHalDevices
    <3>1. Len(table) \in Nat /\ Len(table) <= MaxHalDevices /\ MaxHalDevices \in Nat
      BY <1>1
    <3> QED BY ONLY <2>6, <3>1
  <2>11. DOMAIN table = 1..Len(table) /\ Len(table) \in Nat
    BY <1>1
  <2>12. device \in DevicesIn(new) \/ (Known(table, device) = {} /\ Len(new) = MaxHalDevices)
    BY <2>7, Zenon
  <2> QED BY ONLY <2>7, <2>8, <2>9, <2>10, <2>11, <2>12, Zenon
<1>3. CASE Known(table, device) = {} /\ Len(table) < MaxHalDevices
  <2>1. new \in DeviceTables /\ DevicesIn(new) = WithDevice(DevicesIn(table), device)
    BY <1>3, DeviceAppended
  <2>2. new = Append(table, device)
    BY <1>3 DEF Registered
  <2>3. /\ Len(new) = Len(table) + 1 /\ DOMAIN new = 1..Len(new)
        /\ \A d \in DOMAIN table : d \in DOMAIN new /\ new[d] = table[d]
    BY <1>1, <2>2
  <2>4. device \in DevicesIn(new)
        /\ \A e \in DevicesIn(table) : ~SameDevice(e, device) => e \in DevicesIn(new)
    BY <2>1 DEF WithDevice
  <2> QED BY <1>1, <1>3, <2>3, <2>4 DEF SameDevice
<1>4. CASE Known(table, device) = {} /\ ~(Len(table) < MaxHalDevices)
  <2>1. new = table
    BY <1>4 DEF Registered
  <2>2. Len(new) = MaxHalDevices
    <3>1. ~(Len(table) < MaxHalDevices)
      BY <1>4, Zenon
    <3>2. Len(table) \in Nat /\ Len(table) <= MaxHalDevices /\ MaxHalDevices \in Nat
      BY <1>1
    <3>3. Len(table) = MaxHalDevices
      BY ONLY <3>1, <3>2
    <3> QED BY ONLY <2>1, <3>3
  <2> QED BY <1>1, <1>4, <2>1, <2>2 DEF SameDevice
<1> QED BY <1>2, <1>3, <1>4

LEMMA RegisteredOnceOnly ==
  ASSUME NEW table \in DeviceTables, NEW device \in HalDevice
  PROVE  Registered(table, device) \in DeviceTables
<1>1. CASE Known(table, device) # {}
  BY <1>1, DeviceReplaced
<1>2. CASE Known(table, device) = {} /\ Len(table) < MaxHalDevices
  BY <1>2, DeviceAppended
<1>3. CASE Known(table, device) = {} /\ ~(Len(table) < MaxHalDevices)
  BY <1>3 DEF Registered
<1> QED BY <1>1, <1>2, <1>3

-----------------------------------------------------------------------------
(* The loop over the classes of a profile. *)

Families == {"lumia710", "lumia"}

LEMMA ProfileDeviceTypes ==
  ASSUME NEW codename, NEW class \in DeviceClasses
  PROVE  /\ ProfileDevice(codename, class) \in HalDevice
         /\ ProfileDevice(codename, class).device_class = class
         /\ ProfileDevice(codename, class).device_id = <<Family(codename), class>>
         /\ Family(codename) \in Families
<1>1. Family(codename) \in Families
  BY DEF Family, Families
<1>2. (class # "LTE" \/ codename \notin WithoutLte) \in BOOLEAN
  OBVIOUS
<1> QED BY <1>1, <1>2 DEF ProfileDevice, HalDevice, Families

\* The profile names every class, and each of them once.
LEMMA ProfileClasses ==
  /\ ClassSeq \in Seq(DeviceClasses) /\ Len(ClassSeq) \in Nat
  /\ \A n \in 1..Len(ClassSeq) : ClassSeq[n] \in DeviceClasses
  /\ \A m, n \in 1..Len(ClassSeq) : ClassSeq[m] = ClassSeq[n] => m = n
  /\ \A class \in DeviceClasses : \E n \in 1..Len(ClassSeq) : ClassSeq[n] = class
<1> DEFINE N == Cardinality(DeviceClasses)
<1>0. IsFiniteSet(DeviceClasses)
  BY DevicesAssumption
<1>1. N \in Nat /\ ExistsBijection(1..N, DeviceClasses)
  BY <1>0, FS_CardinalityType
<1>2. \E f \in [1..N -> DeviceClasses] : IsInjective(f)
  BY <1>1 DEF ExistsBijection, Bijection, Injection, IsInjective
<1>3. ClassSeq \in [1..N -> DeviceClasses] /\ IsInjective(ClassSeq)
  BY <1>2 DEF ClassSeq, SetToSeq
<1>4. IsFiniteSet(1..N) /\ Cardinality(1..N) = N
  BY <1>1, FS_Interval
<1>5. ClassSeq \in Injection(1..N, DeviceClasses)
  BY <1>3 DEF Injection, IsInjective
<1>6. ClassSeq \in Surjection(1..N, DeviceClasses)
  BY <1>0, <1>4, <1>5, FS_Injection
<1>7. ClassSeq \in Seq(DeviceClasses) /\ Len(ClassSeq) = N
  BY <1>1, <1>3
<1> QED BY <1>1, <1>3, <1>6, <1>7 DEF Surjection, IsInjective

LEMMA ProfileLoop ==
  ASSUME NEW table \in DeviceTables, NEW codename
  PROVE  Recursion(ProfileTables(table, codename), Len(ClassSeq), DeviceTables, table,
                   [n \in 1..Len(ClassSeq) |->
                      [t \in DeviceTables |-> Registered(t, ProfileDevice(codename, ClassSeq[n]))]])
<1> DEFINE N == Len(ClassSeq)
           After(t, n) == Registered(t, ProfileDevice(codename, ClassSeq[n]))
           step == [n \in 1..N |-> [t \in DeviceTables |-> After(t, n)]]
           Upto(f, n) == IF n = 0 THEN table ELSE After(f[n - 1], n)
           IsLoop(f) == f = [n \in 0..N |-> Upto(f, n)]
<1>1. N \in Nat
  BY ProfileClasses
<1>2. \A t \in DeviceTables, n \in 1..N : After(t, n) \in DeviceTables
  BY ProfileClasses, ProfileDeviceTypes, RegisteredOnceOnly
<1>3. ProfileTables(table, codename) = CHOOSE f : IsLoop(f)
  BY DEF ProfileTables
<1> HIDE DEF N, After
<1>4. step \in [1..N -> [DeviceTables -> DeviceTables]]
  BY <1>2
<1> HIDE DEF step
<1>5. PICK f : Recursion(f, N, DeviceTables, table, step)
  BY <1>1, <1>4, RecursionUpTo
<1>6. IsLoop(f)
  <2>0. /\ f \in [0..N -> DeviceTables] /\ f[0] = table
        /\ \A n \in 1..N : f[n] = step[n][f[n - 1]]
    BY <1>5 DEF Recursion
  <2>1. ASSUME NEW n \in 0..N PROVE f[n] = Upto(f, n)
    <3>1. CASE n = 0
      BY <2>0, <3>1
    <3>2. CASE n # 0
      <4>1. n \in 1..N /\ n - 1 \in 0..N
        BY <1>1, <3>2
      <4>2. f[n - 1] \in DeviceTables /\ f[n] = step[n][f[n - 1]]
        BY <2>0, <4>1
      <4> QED BY <3>2, <4>1, <4>2 DEF step
    <3> QED BY <3>1, <3>2
  <2> HIDE DEF Upto
  <2> QED BY <2>0, <2>1
<1> DEFINE g == ProfileTables(table, codename)
<1>7. IsLoop(g)
  <2> HIDE DEF IsLoop
  <2> QED BY <1>3, <1>6
<1> HIDE DEF g
<1>8. \A n \in 0..N : g[n] = Upto(g, n)
  <2> HIDE DEF Upto
  <2> QED BY <1>7
<1>9. \A n \in 0..N : g[n] \in DeviceTables
  <2> DEFINE T == {n \in 0..N : g[n] \in DeviceTables}
  <2>1. 0 \in T
    BY <1>1, <1>8
  <2>2. ASSUME NEW n \in 1..N, n - 1 \in T PROVE n \in T
    <3>1. n \in 0..N /\ n # 0 /\ g[n - 1] \in DeviceTables
      BY <1>1, <2>2
    <3> QED BY <1>2, <1>8, <2>2, <3>1
  <2> HIDE DEF T
  <2>3. 0..N \subseteq T
    BY <1>1, <2>1, <2>2, InductionUpTo
  <2> QED BY <2>3 DEF T
<1>10. g \in [0..N -> DeviceTables]
  <2>1. DOMAIN g = 0..N /\ g = [n \in 0..N |-> g[n]]
    BY <1>7
  <2> QED BY <1>9, <2>1
<1>11. g[0] = table
  BY <1>1, <1>8
<1>12. ASSUME NEW n \in 1..N PROVE g[n] = step[n][g[n - 1]]
  <2>1. n \in 0..N /\ n # 0 /\ n - 1 \in 0..N
    BY <1>1
  <2>2. g[n] = After(g[n - 1], n) /\ g[n - 1] \in DeviceTables
    BY <1>8, <1>9, <2>1
  <2> QED BY <2>2 DEF step
<1>13. Recursion(g, N, DeviceTables, table, step)
  BY <1>10, <1>11, <1>12 DEF Recursion
<1> QED BY <1>13 DEF g, step, After, N

\* Installing a profile keeps one entry for each device.
LEMMA ProfileTable ==
  ASSUME NEW table \in DeviceTables, NEW codename
  PROVE  WithProfile(table, codename) \in DeviceTables
BY ProfileLoop, ProfileClasses DEF WithProfile, Recursion

\* The tables between the calls, one after the other.
LEMMA ProfileCalls ==
  ASSUME NEW table \in DeviceTables, NEW codename
  PROVE  /\ ProfileTables(table, codename) \in [0..Len(ClassSeq) -> DeviceTables]
         /\ ProfileTables(table, codename)[0] = table
         /\ \A n \in 1..Len(ClassSeq) :
              ProfileTables(table, codename)[n] =
                Registered(ProfileTables(table, codename)[n - 1],
                           ProfileDevice(codename, ClassSeq[n]))
<1> DEFINE N == Len(ClassSeq)
           tables == ProfileTables(table, codename)
           device(n) == ProfileDevice(codename, ClassSeq[n])
           step == [n \in 1..N |-> [t \in DeviceTables |-> Registered(t, device(n))]]
<1>1. N \in Nat
  BY ProfileClasses
<1>2. Recursion(tables, N, DeviceTables, table, step)
  BY ProfileLoop
<1>3. /\ tables \in [0..N -> DeviceTables] /\ tables[0] = table
      /\ \A n \in 1..N : tables[n] = step[n][tables[n - 1]]
  <2> HIDE DEF tables, step, N
  <2> QED BY <1>2 DEF Recursion
<1>4. /\ tables \in [0..N -> DeviceTables] /\ tables[0] = table
      /\ \A n \in 1..N : tables[n] = Registered(tables[n - 1], device(n))
  <2> HIDE DEF tables, device, N
  <2>1. \A n \in 1..N : n - 1 \in 0..N
    BY <1>1
  <2> QED BY <1>3, <2>1
<1> QED BY <1>4

\* What a whole profile leaves, also of a table in which it does not find room.
LEMMA ProfileLeaves ==
  ASSUME NEW table \in DeviceTables, NEW codename,
         NEW new, new = WithProfile(table, codename)
  PROVE  /\ \A d \in DOMAIN table : d \in DOMAIN new /\ SameDevice(new[d], table[d])
         /\ \A class \in DeviceClasses :
              \/ ProfileDevice(codename, class) \in DevicesIn(new)
              \/ /\ Known(table, ProfileDevice(codename, class)) = {}
                 /\ Len(new) = MaxHalDevices
<1> DEFINE N == Len(ClassSeq)
           tables == ProfileTables(table, codename)
           device(n) == ProfileDevice(codename, ClassSeq[n])
           InPlace(n) == \A d \in DOMAIN table :
                           d \in DOMAIN tables[n] /\ SameDevice(tables[n][d], table[d])
           Left(n, k) == \/ device(k) \in DevicesIn(tables[n])
                         \/ Known(table, device(k)) = {} /\ Len(tables[n]) = MaxHalDevices
           T == {n \in 0..N : InPlace(n) /\ \A k \in 1..n : Left(n, k)}
<1>1. N \in Nat
  BY ProfileClasses
<1>2. /\ tables \in [0..N -> DeviceTables] /\ tables[0] = table
      /\ \A n \in 1..N : tables[n] = Registered(tables[n - 1], device(n))
  BY ProfileCalls
<1>3. /\ \A n \in 1..N : device(n) \in HalDevice
      /\ \A m, n \in 1..N : m # n => ~SameDevice(device(m), device(n))
  <2>1. \A n \in 1..N : device(n) \in HalDevice /\ device(n).device_class = ClassSeq[n]
    BY ProfileClasses, ProfileDeviceTypes
  <2>2. \A m, n \in 1..N : ClassSeq[m] = ClassSeq[n] => m = n
    BY ProfileClasses
  <2> HIDE DEF device, N
  <2> QED BY <2>1, <2>2 DEF SameDevice
<1> HIDE DEF tables, device, N
<1>4. 0 \in T
  BY <1>1, <1>2 DEF SameDevice
<1>5. ASSUME NEW n \in 1..N, n - 1 \in T PROVE n \in T
  <2>1. n \in 0..N /\ n - 1 \in 0..N /\ 1..n = (1..n - 1) \cup {n} /\ 1..n - 1 \subseteq 1..N
        /\ n \notin 1..n - 1
    BY <1>1
  <2>2. InPlace(n - 1) /\ \A k \in 1..n - 1 : Left(n - 1, k)
    BY <1>5
  <2>3. PICK old \in DeviceTables : old = tables[n - 1]
    BY <1>2, <2>1
  <2>4. PICK now : now = tables[n] /\ now = Registered(old, device(n))
    BY <1>2, <2>3
  <2>5. /\ Len(old) \in Nat /\ Len(now) \in Nat
        /\ Len(old) <= Len(now) /\ Len(now) <= MaxHalDevices
        /\ \A d \in DOMAIN old : d \in DOMAIN now /\ SameDevice(now[d], old[d])
        /\ \A e \in DevicesIn(old) : ~SameDevice(e, device(n)) => e \in DevicesIn(now)
        /\ device(n) \in DevicesIn(now) \/ (Known(old, device(n)) = {} /\ Len(now) = MaxHalDevices)
    BY <1>3, <2>4, RegistrationLeaves
  <2>6. \A d \in DOMAIN table : d \in DOMAIN old /\ SameDevice(old[d], table[d])
    BY <2>2, <2>3
  <2>7. InPlace(n)
    BY <2>4, <2>5, <2>6 DEF SameDevice
  <2>8. ASSUME NEW k \in 1..n - 1 PROVE Left(n, k)
    <3>1. CASE device(k) \in DevicesIn(tables[n - 1])
      <4>1. ~SameDevice(device(k), device(n))
        BY <1>3, <2>1
      <4>2. device(k) \in DevicesIn(now)
        BY <2>3, <2>5, <3>1, <4>1
      <4> QED BY <2>4, <4>2
    <3>2. CASE Known(table, device(k)) = {} /\ Len(tables[n - 1]) = MaxHalDevices
      <4>1. Len(now) = MaxHalDevices
        BY <2>3, <2>5, <3>2, DevicesAssumption
      <4> QED BY <2>4, <3>2, <4>1
    <3> QED BY <2>2, <3>1, <3>2
  <2>9. Left(n, n)
    <3>1. CASE device(n) \in DevicesIn(now)
      BY <2>4, <3>1
    <3>2. CASE Known(old, device(n)) = {} /\ Len(now) = MaxHalDevices
      <4>1. Known(table, device(n)) = {}
        BY <2>6, <3>2 DEF Known, SameDevice
      <4> QED BY <2>4, <3>2, <4>1
    <3> QED BY <2>5, <3>1, <3>2
  <2> HIDE DEF InPlace, Left
  <2> QED BY <2>1, <2>7, <2>8, <2>9
<1>6. N \in T
  <2> HIDE DEF T
  <2>1. 0..N \subseteq T
    BY <1>1, <1>4, <1>5, InductionUpTo
  <2> QED BY <1>1, <2>1
<1>7. new = tables[N]
  BY DEF WithProfile, tables, N
<1>8. ASSUME NEW class \in DeviceClasses PROVE \E k \in 1..N : ProfileDevice(codename, class) = device(k)
  BY ProfileClasses DEF device, N
<1> QED BY <1>6, <1>7, <1>8

-----------------------------------------------------------------------------
(* What the profiles leave, when nothing but profiles was installed: there is  *)
(* room for two families.                                                      *)

OfFamilies(devices) ==
  \A e \in devices : \E family \in Families : e.device_id = <<family, e.device_class>>

LEMMA RoomForProfiles ==
  ASSUME NEW table \in DeviceTables, OfFamilies(DevicesIn(table)),
         NEW device \in HalDevice, OfFamilies({device}), Known(table, device) = {}
  PROVE  Len(table) < MaxHalDevices
<1> DEFINE n == Len(table)
           ids == Families \X DeviceClasses
           rest == ids \ {device.device_id}
           id == [d \in 1..n |-> table[d].device_id]
<1>1. n \in Nat /\ DOMAIN table = 1..n /\ \A d \in 1..n : table[d] \in HalDevice
  <2>1. table \in Seq(HalDevice)
    BY DEF DeviceTables
  <2> QED BY <2>1
<1>2. \A d \in 1..n : \E family \in Families :
        table[d].device_id = <<family, table[d].device_class>>
  BY <1>1 DEF OfFamilies, DevicesIn
<1>3. \A d \in 1..n : table[d].device_class \in DeviceClasses
  BY <1>1 DEF HalDevice
<1>4. /\ device.device_class \in DeviceClasses
      /\ \E family \in Families : device.device_id = <<family, device.device_class>>
  BY DEF HalDevice, OfFamilies
<1>5. \A d, e \in 1..n : table[d].device_id = table[e].device_id => d = e
  <2> SUFFICES ASSUME NEW d \in 1..n, NEW e \in 1..n, table[d].device_id = table[e].device_id
               PROVE  d = e
    OBVIOUS
  <2>1. table[d].device_class = table[e].device_class
    BY <1>2
  <2> QED BY <1>1, <2>1 DEF DeviceTables, NoTwice, SameDevice
<1>6. \A d \in 1..n : table[d].device_id # device.device_id
  <2> SUFFICES ASSUME NEW d \in 1..n, table[d].device_id = device.device_id PROVE FALSE
    OBVIOUS
  <2>1. table[d].device_class = device.device_class
    BY <1>2, <1>4
  <2> QED BY <1>1, <2>1 DEF Known, SameDevice
<1>7. \A d \in 1..n : table[d].device_id \in rest
  <2> SUFFICES ASSUME NEW d \in 1..n PROVE table[d].device_id \in rest
    OBVIOUS
  <2>1. PICK family \in Families : table[d].device_id = <<family, table[d].device_class>>
    BY <1>2
  <2>2. table[d].device_id \in ids
    BY <1>3, <2>1
  <2> QED BY <1>6, <2>2
<1>8. id \in Injection(1..n, rest)
  BY <1>5, <1>7 DEF Injection, IsInjective
<1>9. /\ IsFiniteSet(ids) /\ Cardinality(ids) = 2 * Cardinality(DeviceClasses)
      /\ Cardinality(DeviceClasses) \in Nat
  <2>1. IsFiniteSet(DeviceClasses)
    BY DevicesAssumption
  <2>2. IsFiniteSet(Families) /\ Cardinality(Families) = 2
    <3>1. IsFiniteSet({"lumia710"}) /\ Cardinality({"lumia710"}) = 1
      BY FS_Singleton
    <3>2. Families = {"lumia710"} \cup {"lumia"} /\ "lumia" \notin {"lumia710"}
      BY DEF Families
    <3>3. /\ IsFiniteSet({"lumia710"} \cup {"lumia"})
          /\ Cardinality({"lumia710"} \cup {"lumia"}) = 1 + 1
      BY <3>1, <3>2, FS_AddElement
    <3> QED BY <3>2, <3>3
  <2> QED BY <2>1, <2>2, FS_Product, FS_CardinalityType
<1>10. device.device_id \in ids
  BY <1>4
<1>11. IsFiniteSet(rest) /\ Cardinality(rest) = Cardinality(ids) - 1
  BY <1>9, <1>10, FS_RemoveElement
<1>12. Cardinality(1..n) <= Cardinality(rest)
  BY <1>8, <1>11, FS_Injection
<1>13. Cardinality(1..n) = n
  <2> HIDE DEF n
  <2>1. n \in Nat
    BY <1>1
  <2> QED BY ONLY <2>1, FS_Interval
<1> HIDE DEF n, ids, rest
<1>14. n < MaxHalDevices
  BY <1>1, <1>9, <1>11, <1>12, <1>13, DevicesAssumption
<1> QED BY <1>14 DEF n

\* Every class of the profile is as the profile has it, and nothing else changed.
ProfileDevices(codename) == {ProfileDevice(codename, class) : class \in DeviceClasses}

AfterProfile(devices, codename) ==
  {e \in devices : \A class \in DeviceClasses : ~SameDevice(e, ProfileDevice(codename, class))}
    \cup ProfileDevices(codename)

LEMMA ProfileResult ==
  ASSUME NEW table \in DeviceTables, OfFamilies(DevicesIn(table)), NEW codename
  PROVE  DevicesIn(WithProfile(table, codename)) = AfterProfile(DevicesIn(table), codename)
<1> DEFINE N == Len(ClassSeq)
           tables == ProfileTables(table, codename)
           device(n) == ProfileDevice(codename, ClassSeq[n])
           old == DevicesIn(table)
           Reached(n) == {e \in old : \A k \in 1..n : ~SameDevice(e, device(k))}
                           \cup {device(k) : k \in 1..n}
           T == {n \in 0..N : DevicesIn(tables[n]) = Reached(n)}
<1>1. N \in Nat
  BY ProfileClasses
<1>2. /\ tables \in [0..N -> DeviceTables] /\ tables[0] = table
      /\ \A n \in 1..N : tables[n] = Registered(tables[n - 1], device(n))
  BY ProfileCalls
<1>3. \A n \in 1..N : /\ device(n) \in HalDevice /\ OfFamilies({device(n)})
                      /\ device(n).device_class = ClassSeq[n]
  BY ProfileClasses, ProfileDeviceTypes DEF OfFamilies
<1>4. \A m, n \in 1..N : m # n => ~SameDevice(device(m), device(n))
  <2>1. \A m, n \in 1..N : ClassSeq[m] = ClassSeq[n] => m = n
    BY ProfileClasses
  <2> HIDE DEF device, N
  <2> QED BY <1>3, <2>1 DEF SameDevice
<1> HIDE DEF tables, device, N, old
<1>5. 0 \in T
  <2>1. Reached(0) = old
    OBVIOUS
  <2> QED BY <1>1, <1>2, <2>1 DEF old
<1>6. ASSUME NEW n \in 1..N, n - 1 \in T PROVE n \in T
  <2> DEFINE before == tables[n - 1]
  <2>1. /\ before \in DeviceTables /\ DevicesIn(before) = Reached(n - 1)
        /\ tables[n] = Registered(before, device(n))
    BY <1>1, <1>2, <1>6
  <2> HIDE DEF before
  <2>2. OfFamilies(DevicesIn(before))
    <3>1. OfFamilies(old)
      BY DEF old
    <3>2. \A k \in 1..n - 1 : k \in 1..N
      BY <1>1
    <3> QED BY <1>3, <2>1, <3>1, <3>2 DEF OfFamilies
  <2>3. DevicesIn(tables[n]) = WithDevice(DevicesIn(before), device(n))
    <3>1. device(n) \in HalDevice /\ OfFamilies({device(n)})
      BY <1>3
    <3>2. CASE Known(before, device(n)) # {}
      BY <2>1, <3>1, <3>2, DeviceReplaced
    <3>3. CASE Known(before, device(n)) = {}
      BY <2>1, <2>2, <3>1, <3>3, RoomForProfiles, DeviceAppended
    <3> QED BY <3>2, <3>3
  <2>4. WithDevice(Reached(n - 1), device(n)) = Reached(n)
    <3>1. 1..n = (1..n - 1) \cup {n} /\ 1..n - 1 \subseteq 1..N /\ n \notin 1..n - 1
      BY <1>1
    <3>2. \A k \in 1..n - 1 : ~SameDevice(device(k), device(n))
      BY <1>4, <3>1
    <3> QED BY <3>1, <3>2 DEF WithDevice
  <2>5. n \in 0..N
    BY <1>1
  <2> HIDE DEF Reached
  <2> QED BY <2>1, <2>3, <2>4, <2>5
<1>7. N \in T
  <2> HIDE DEF T
  <2>1. 0..N \subseteq T
    BY <1>1, <1>5, <1>6, InductionUpTo
  <2> QED BY <1>1, <2>1
<1>8. DevicesIn(tables[N]) = Reached(N)
  BY <1>7
<1>9. Reached(N) = AfterProfile(old, codename)
  <2>1. {device(k) : k \in 1..N} = ProfileDevices(codename)
    BY ProfileClasses DEF device, ProfileDevices, N
  <2>2. \A e \in old : (\A k \in 1..N : ~SameDevice(e, device(k)))
                         <=> (\A class \in DeviceClasses : ~SameDevice(e, ProfileDevice(codename, class)))
    BY ProfileClasses DEF device, N
  <2> QED BY <2>1, <2>2 DEF AfterProfile
<1> QED BY <1>8, <1>9 DEF WithProfile, tables, N, old

-----------------------------------------------------------------------------
(* The invariant of the devices: one entry for each device, and in a host that *)
(* installs nothing but profiles, the devices of the last one of each family,  *)
(* those of the family the runtime was created with first.                     *)

Installed(prof) == {family \in Families : prof[family] # "none"}

AllProfiles(prof) == UNION {ProfileDevices(prof[family]) : family \in Installed(prof)}

\* The devices of a family, and the tables in which they come before all others.
IsOf(device, family) == device.device_id = <<family, device.device_class>>

ComesFirst(family, table) ==
  \A d, e \in DOMAIN table : IsOf(table[d], family) /\ ~IsOf(table[e], family) => d < e

ProfilesTypeOK(prof) ==
  /\ prof \in [Families -> Codenames \cup {"none"}]
  /\ \A family \in Installed(prof) : Family(prof[family]) = family

DevicesInv ==
  /\ hal_devices \in DeviceTables
  /\ ProfilesTypeOK(profile)
  /\ host \in Hosts
  /\ host = "profiles" => /\ DevicesIn(hal_devices) = AllProfiles(profile)
                          /\ original \in Installed(profile)
                          /\ ComesFirst(original, hal_devices)

LEMMA MayInstallCodenames ==
  ASSUME host \in Hosts, NEW codename \in MayInstall[host]
  PROVE  codename \in Codenames /\ codename # "none" /\ Family(codename) \in Families
<1>1. MayInstall[host] \subseteq Codenames /\ "none" \notin Codenames
  BY HostAssumption
<1> QED BY <1>1 DEF Family, Families

LEMMA DeviceOfProfiles ==
  ASSUME NEW prof, NEW e
  PROVE  e \in AllProfiles(prof) <=>
           \E family \in Installed(prof), class \in DeviceClasses :
             e = ProfileDevice(prof[family], class)
BY DEF AllProfiles, ProfileDevices

LEMMA ProfilesOfFamilies ==
  ASSUME NEW prof, ProfilesTypeOK(prof)
  PROVE  OfFamilies(AllProfiles(prof))
<1> SUFFICES ASSUME NEW e \in AllProfiles(prof)
             PROVE  \E family \in Families : e.device_id = <<family, e.device_class>>
  BY DEF OfFamilies
<1>1. PICK family \in Installed(prof), class \in DeviceClasses :
        e = ProfileDevice(prof[family], class)
  BY DeviceOfProfiles
<1> QED BY <1>1, ProfileDeviceTypes

\* A profile takes the place of the one of its own family.
LEMMA ProfileSupersedes ==
  ASSUME NEW prof, ProfilesTypeOK(prof), NEW codename \in Codenames, codename # "none",
         Family(codename) \in Families
  PROVE  LET new == [prof EXCEPT ![Family(codename)] = codename]
         IN  /\ ProfilesTypeOK(new)
             /\ AfterProfile(AllProfiles(prof), codename) = AllProfiles(new)
<1> DEFINE f == Family(codename)
           new == [prof EXCEPT ![f] = codename]
<1>1. /\ new \in [Families -> Codenames \cup {"none"}] /\ new[f] = codename
      /\ \A g \in Families \ {f} : new[g] = prof[g]
  BY DEF ProfilesTypeOK
<1> HIDE DEF new
<1>2. Installed(new) = Installed(prof) \cup {f}
  BY <1>1 DEF Installed
<1>3. ProfilesTypeOK(new)
  BY <1>1 DEF ProfilesTypeOK, Installed
<1>4. \A g \in Installed(prof) : Family(prof[g]) = g /\ g \in Families
  BY DEF ProfilesTypeOK, Installed
<1>5. ASSUME NEW g \in Installed(prof), NEW class \in DeviceClasses, NEW other \in DeviceClasses
      PROVE  SameDevice(ProfileDevice(prof[g], class), ProfileDevice(codename, other))
               <=> g = f /\ class = other
  BY <1>4, ProfileDeviceTypes DEF SameDevice
<1>6. ASSUME NEW e \in AfterProfile(AllProfiles(prof), codename) PROVE e \in AllProfiles(new)
  <2>1. CASE e \in ProfileDevices(codename)
    <3>1. PICK class \in DeviceClasses : e = ProfileDevice(new[f], class)
      BY <1>1, <2>1 DEF ProfileDevices
    <3>2. f \in Installed(new)
      BY <1>2
    <3> QED BY <3>1, <3>2, DeviceOfProfiles
  <2>2. CASE /\ e \in AllProfiles(prof)
             /\ \A class \in DeviceClasses : ~SameDevice(e, ProfileDevice(codename, class))
    <3>1. PICK g \in Installed(prof), class \in DeviceClasses : e = ProfileDevice(prof[g], class)
      BY <2>2, DeviceOfProfiles
    <3>2. g # f
      BY <1>5, <2>2, <3>1
    <3>3. g \in Installed(new) /\ new[g] = prof[g]
      BY <1>1, <1>2, <1>4, <3>2
    <3> QED BY <3>1, <3>3, DeviceOfProfiles
  <2> QED BY <2>1, <2>2 DEF AfterProfile
<1>7. ASSUME NEW e \in AllProfiles(new) PROVE e \in AfterProfile(AllProfiles(prof), codename)
  <2>1. PICK g \in Installed(new), class \in DeviceClasses : e = ProfileDevice(new[g], class)
    BY DeviceOfProfiles
  <2>2. CASE g = f
    <3>1. e \in ProfileDevices(codename)
      BY <1>1, <2>1, <2>2 DEF ProfileDevices
    <3> QED BY <3>1 DEF AfterProfile
  <2>3. CASE g # f
    <3>1. g \in Installed(prof) /\ new[g] = prof[g]
      BY <1>1, <1>2, <1>4, <2>3
    <3>2. e \in AllProfiles(prof)
      BY <2>1, <3>1, DeviceOfProfiles
    <3>3. \A other \in DeviceClasses : ~SameDevice(e, ProfileDevice(codename, other))
      BY <1>5, <2>1, <2>3, <3>1
    <3> QED BY <3>2, <3>3 DEF AfterProfile
  <2> QED BY <2>2, <2>3
<1> QED BY <1>3, <1>6, <1>7 DEF new

\* A family whose devices are all there, before all others, stays before them.
LEMMA StaysFirst ==
  ASSUME NEW table \in DeviceTables, NEW codename, NEW family,
         ComesFirst(family, table),
         \A class \in DeviceClasses : \E d \in DOMAIN table :
           table[d].device_class = class /\ IsOf(table[d], family),
         NEW new \in DeviceTables, new = WithProfile(table, codename)
  PROVE  ComesFirst(family, new)
<1>1. \A d \in DOMAIN table : d \in DOMAIN new /\ SameDevice(new[d], table[d])
  BY ProfileLeaves
<1>2. /\ NoTwice(new) /\ Len(table) \in Nat /\ DOMAIN table = 1..Len(table)
      /\ DOMAIN new = 1..Len(new) /\ Len(new) \in Nat
      /\ \A d \in DOMAIN new : new[d].device_class \in DeviceClasses
  <2>1. table \in Seq(HalDevice) /\ new \in Seq(HalDevice) /\ NoTwice(new)
    BY DEF DeviceTables
  <2>2. \A device \in HalDevice : device.device_class \in DeviceClasses
    BY DEF HalDevice
  <2>3. \A d \in DOMAIN new : new[d] \in HalDevice
    BY <2>1
  <2> QED BY <2>1, <2>2, <2>3
<1> SUFFICES ASSUME NEW d \in DOMAIN new, NEW e \in DOMAIN new,
                    IsOf(new[d], family), ~IsOf(new[e], family)
             PROVE  d < e
  BY DEF ComesFirst
<1>3. d \in DOMAIN table
  <2>1. PICK c \in DOMAIN table :
          table[c].device_class = new[d].device_class /\ IsOf(table[c], family)
    BY <1>2
  <2>2. c \in DOMAIN new /\ SameDevice(new[c], new[d])
    BY <1>1, <2>1 DEF SameDevice, IsOf
  <2> QED BY <1>2, <2>1, <2>2 DEF NoTwice
<1>4. CASE e \in DOMAIN table
  BY <1>1, <1>3, <1>4 DEF ComesFirst, IsOf, SameDevice
<1>5. CASE e \notin DOMAIN table
  BY <1>2, <1>3, <1>5
<1> QED BY <1>4, <1>5

LEMMA InstallProfileStep ==
  ASSUME DevicesInv, UNCHANGED <<host, original>>,
         NEW codename \in MayInstall[host], WatchedInstall(codename)
  PROVE  DevicesInv'
<1>1. /\ hal_devices' = WithProfile(hal_devices, codename)
      /\ profile' = [profile EXCEPT ![Family(codename)] = codename]
  BY DEF WatchedInstall, InstallLumiaHalCall, InstallLumiaHal
<1>2. hal_devices \in DeviceTables /\ ProfilesTypeOK(profile) /\ host \in Hosts
  BY DEF DevicesInv
<1>3. codename \in Codenames /\ codename # "none" /\ Family(codename) \in Families
  BY <1>2, MayInstallCodenames
<1>4. hal_devices' \in DeviceTables
  BY <1>1, <1>2, ProfileTable
<1>5. /\ ProfilesTypeOK(profile')
      /\ AfterProfile(AllProfiles(profile), codename) = AllProfiles(profile')
  BY <1>1, <1>2, <1>3, ProfileSupersedes
<1>6. host = "profiles" => DevicesIn(hal_devices') = AllProfiles(profile')
  <2>1. ASSUME host = "profiles"
        PROVE  DevicesIn(hal_devices') = AfterProfile(DevicesIn(hal_devices), codename)
    <3>1. OfFamilies(DevicesIn(hal_devices))
      BY <1>2, <2>1, ProfilesOfFamilies DEF DevicesInv
    <3>2. DevicesIn(WithProfile(hal_devices, codename))
            = AfterProfile(DevicesIn(hal_devices), codename)
      BY <1>2, <3>1, ProfileResult
    <3> QED BY <1>1, <3>2
  <2> QED BY <1>5, <2>1 DEF DevicesInv
<1>7. (host \in Hosts)' /\ host' = host /\ original' = original
  BY <1>2
<1>8. ASSUME host = "profiles"
      PROVE  original \in Installed(profile') /\ ComesFirst(original, hal_devices')
  <2>1. /\ DevicesIn(hal_devices) = AllProfiles(profile) /\ original \in Installed(profile)
        /\ ComesFirst(original, hal_devices)
    BY <1>8 DEF DevicesInv
  <2>2. original \in Installed(profile')
    BY <1>1, <1>2, <1>3, <2>1 DEF Installed, ProfilesTypeOK
  <2>3. ASSUME NEW class \in DeviceClasses
        PROVE  \E d \in DOMAIN hal_devices :
                 hal_devices[d].device_class = class /\ IsOf(hal_devices[d], original)
    <3>1. ProfileDevice(profile[original], class) \in DevicesIn(hal_devices)
      BY <2>1, DeviceOfProfiles
    <3>2. PICK d \in DOMAIN hal_devices : hal_devices[d] = ProfileDevice(profile[original], class)
      BY <3>1 DEF DevicesIn
    <3>3. Family(profile[original]) = original
      BY <1>2, <2>1 DEF ProfilesTypeOK
    <3> QED BY <3>2, <3>3, ProfileDeviceTypes DEF IsOf
  <2> QED BY <1>1, <1>2, <1>4, <2>1, <2>2, <2>3, StaysFirst
<1> QED BY <1>4, <1>5, <1>6, <1>7, <1>8 DEF DevicesInv

LEMMA DevicesStep ==
  ASSUME DevicesInv, [WatchedNext]_<<vars, host, original, history>>
  PROVE  DevicesInv'
<1>1. CASE UNCHANGED <<hal_devices, profile, host, original>>
  BY <1>1 DEF DevicesInv
<1>2. ASSUME UNCHANGED <<host, original>>,
             NEW codename \in MayInstall[host], WatchedInstall(codename)
      PROVE  DevicesInv'
  BY <1>2, InstallProfileStep
<1>3. ASSUME UNCHANGED <<host, original, profile>>, host = "devices",
             NEW device \in ClientDevices, HalRegister(device)
      PROVE  DevicesInv'
  <2>1. device \in HalDevice /\ hal_devices \in DeviceTables
    BY ClientDevicesAssumption DEF DevicesInv
  <2>2. hal_devices' = Registered(hal_devices, device)
    BY <1>3 DEF HalRegister
  <2>3. hal_devices' \in DeviceTables
    BY <2>1, <2>2, RegisteredOnceOnly
  <2> QED BY <1>3, <2>3 DEF DevicesInv
<1>4. \/ UNCHANGED <<hal_devices, profile, host, original>>
      \/ /\ UNCHANGED <<host, original>>
         /\ \E codename \in MayInstall[host] : WatchedInstall(codename)
      \/ /\ UNCHANGED <<host, original, profile>> /\ host = "devices"
         /\ \E device \in ClientDevices : HalRegister(device)
  BY DEF WatchedNext, FilesHost, ProfilesHost, DevicesHost, PackagesHost, Unwatched,
         WatchedAdd, WatchedTrash, WatchedRaise, AddFileCall, TrashFileCall,
         ArchiveFileCall, CheckFileIntegrityCall, RegisterInterruptCall, RaiseInterruptCall,
         HalRegisterCall, HalWriteCall, HalWrite, InstallBappCall, RejectArguments,
         vars, deviceVars, history
<1> QED BY <1>1, <1>2, <1>3, <1>4

LEMMA DevicesStart ==
  ASSUME WatchedInit
  PROVE  DevicesInv
<1>1. PICK codename \in MayInstall[host] :
        /\ hal_devices = WithProfile(<<>>, codename)
        /\ profile = [NoProfile EXCEPT ![Family(codename)] = codename]
        /\ original = Family(codename)
  BY DEF WatchedInit, InitFor, DevicesInit
<1>2. host \in Hosts
  BY DEF WatchedInit
<1>3. codename \in Codenames /\ codename # "none" /\ Family(codename) \in Families
  BY <1>2, MayInstallCodenames
<1>4. ProfilesTypeOK(NoProfile) /\ Installed(NoProfile) = {}
  BY DEF ProfilesTypeOK, NoProfile, Families, Installed
<1>5. <<>> \in DeviceTables /\ DevicesIn(<<>>) = {}
  <2>1. <<>> \in Seq(HalDevice) /\ DOMAIN <<>> = {} /\ Len(<<>>) = 0
    OBVIOUS
  <2> QED BY <2>1, DevicesAssumption DEF DeviceTables, NoTwice, DevicesIn
<1>6. AllProfiles(NoProfile) = {}
  BY <1>4 DEF AllProfiles
<1>7. hal_devices \in DeviceTables
  BY <1>1, <1>5, ProfileTable
<1>8. DevicesIn(hal_devices) = AfterProfile({}, codename)
  <2>1. OfFamilies(DevicesIn(<<>>))
    BY <1>5 DEF OfFamilies
  <2>2. DevicesIn(WithProfile(<<>>, codename)) = AfterProfile(DevicesIn(<<>>), codename)
    BY <1>5, <2>1, ProfileResult
  <2> QED BY <1>1, <1>5, <2>2
<1>9. ProfilesTypeOK(profile) /\ AfterProfile({}, codename) = AllProfiles(profile)
  BY <1>1, <1>3, <1>4, <1>6, ProfileSupersedes
<1>10. original \in Installed(profile)
  BY <1>1, <1>3 DEF Installed, NoProfile, Families
<1>11. ComesFirst(original, hal_devices)
  <2>1. ASSUME NEW d \in DOMAIN hal_devices PROVE IsOf(hal_devices[d], original)
    <3>1. hal_devices[d] \in ProfileDevices(codename)
      BY <1>8 DEF DevicesIn, AfterProfile
    <3>2. PICK class \in DeviceClasses : hal_devices[d] = ProfileDevice(codename, class)
      BY <3>1 DEF ProfileDevices
    <3> QED BY <1>1, <3>2, ProfileDeviceTypes DEF IsOf
  <2> QED BY <2>1 DEF ComesFirst
<1> QED BY <1>2, <1>7, <1>8, <1>9, <1>10, <1>11 DEF DevicesInv

\* bolun_runtime_hal_register and the profiles never leave two entries for one
\* device (DevicesUnique), for every capacity and whatever the clients register.
THEOREM DevicesAlwaysUnique == WatchedSpec => []DevicesUnique
<1>1. WatchedInit => DevicesInv
  BY DevicesStart
<1>2. DevicesInv /\ [WatchedNext]_<<vars, host, original, history>> => DevicesInv'
  BY DevicesStep
<1>3. DevicesInv => DevicesUnique
  BY DEF DevicesInv, DeviceTables, NoTwice, DevicesUnique
<1> QED BY <1>1, <1>2, <1>3, PTL DEF WatchedSpec

LEMMA ProfileDevicesAnswer ==
  ASSUME DevicesInv, host = "profiles", NEW class \in DeviceClasses
  PROVE  /\ Answering(class) # {} <=> Having(class) # {}
         /\ Having(class) # {} =>
              /\ Answerer(class).driver \in Having(class)
              /\ original \in Having(class) => Answerer(class).driver = original
<1>0. /\ DevicesIn(hal_devices) = AllProfiles(profile) /\ ProfilesTypeOK(profile)
      /\ DOMAIN profile = Families /\ ComesFirst(original, hal_devices)
      /\ hal_devices \in Seq(HalDevice)
  BY DEF DevicesInv, ProfilesTypeOK, DeviceTables
<1>1. ASSUME NEW family \in Families, profile[family] # "none", NEW other \in DeviceClasses
      PROVE  /\ ProfileDevice(profile[family], other).device_class = other
             /\ (ProfileDevice(profile[family], other).present
                  /\ ProfileDevice(profile[family], other).powered)
                 <=> HasClass(profile[family], other)
  BY <1>1 DEF ProfileDevice, HasClass
<1>2. ASSUME NEW d \in Answering(class)
      PROVE  \E family \in Having(class) :
               /\ Family(profile[family]) = family
               /\ hal_devices[d] = ProfileDevice(profile[family], class)
  <2>1. /\ hal_devices[d] \in DevicesIn(hal_devices)
        /\ hal_devices[d].device_class = class
        /\ hal_devices[d].present /\ hal_devices[d].powered
    BY DEF Answering, DevicesIn
  <2>2. PICK family \in Installed(profile), other \in DeviceClasses :
          hal_devices[d] = ProfileDevice(profile[family], other)
    BY <1>0, <2>1, DeviceOfProfiles
  <2>3. other = class /\ Family(profile[family]) = family
    BY <1>0, <1>1, <2>1, <2>2 DEF Installed, ProfilesTypeOK
  <2> QED BY <1>0, <1>1, <2>1, <2>2, <2>3 DEF Installed, Having
<1>3. ASSUME NEW family \in Having(class)
      PROVE  \E d \in Answering(class) : hal_devices[d] = ProfileDevice(profile[family], class)
  <2>1. family \in Installed(profile)
    BY <1>0, <1>3 DEF Having, Installed, HasClass
  <2>2. ProfileDevice(profile[family], class) \in DevicesIn(hal_devices)
    BY <1>0, <2>1, DeviceOfProfiles
  <2>3. PICK d \in DOMAIN hal_devices : hal_devices[d] = ProfileDevice(profile[family], class)
    BY <2>2 DEF DevicesIn
  <2>4. d \in Answering(class)
    BY <1>1, <1>3, <2>1, <2>3 DEF Answering, Installed, Having
  <2> QED BY <2>3, <2>4
<1>4. Answering(class) # {} <=> Having(class) # {}
  BY <1>2, <1>3
<1>5. ASSUME Having(class) # {}
      PROVE  /\ Answerer(class).driver \in Having(class)
             /\ original \in Having(class) => Answerer(class).driver = original
  <2> DEFINE first == Min(Answering(class))
  <2>1. Answering(class) \subseteq Nat
    BY <1>0 DEF Answering
  <2>2. first \in Answering(class) /\ \A d \in Answering(class) : first <= d
    BY <1>4, <1>5, <2>1, MinOfNaturals
  <2>3. first \in DOMAIN hal_devices /\ first \in Nat
    BY <2>1, <2>2 DEF Answering
  <2> HIDE DEF first
  <2>4. PICK family \in Having(class) :
          /\ Family(profile[family]) = family
          /\ hal_devices[first] = ProfileDevice(profile[family], class)
    BY <1>2, <2>2
  <2>5. hal_devices[first].driver = family
    BY <2>4 DEF ProfileDevice
  <2>6. ASSUME original \in Having(class) PROVE family = original
    <3>1. PICK d \in Answering(class) : hal_devices[d] = ProfileDevice(profile[original], class)
      BY <1>3, <2>6
    <3>2. Family(profile[original]) = original
      BY <1>0, <2>6 DEF Having, HasClass, Installed, ProfilesTypeOK
    <3>3. d \in DOMAIN hal_devices /\ d \in Nat /\ first <= d
      BY <2>1, <2>2, <3>1 DEF Answering
    <3>4. IsOf(hal_devices[d], original)
      BY <3>1, <3>2, ProfileDeviceTypes DEF IsOf
    <3>5. hal_devices[first].device_class = class /\ hal_devices[first].device_id = <<family, class>>
      BY <2>4, ProfileDeviceTypes
    <3>6. IsOf(hal_devices[first], original) => family = original
      BY <3>5 DEF IsOf
    <3>7. ~IsOf(hal_devices[first], original) => d < first
      BY <1>0, <2>3, <3>3, <3>4 DEF ComesFirst
    <3> QED BY <2>3, <3>3, <3>6, <3>7
  <2>7. Answerer(class) = hal_devices[first]
    BY DEF Answerer, first
  <2> QED BY <2>4, <2>5, <2>6, <2>7
<1> QED BY <1>4, <1>5

\* Where nothing but profiles is installed, a class answers a write if and only if
\* the profile installed last in one of the two families has it, and the family the
\* runtime was created with answers before the other one (ProfilesAnswer), for every
\* set of classes that fits the registry twice.
THEOREM ProfilesAlwaysAnswer == WatchedSpec => []ProfilesAnswer
<1>1. WatchedInit => DevicesInv
  BY DevicesStart
<1>2. DevicesInv /\ [WatchedNext]_<<vars, host, original, history>> => DevicesInv'
  BY DevicesStep
<1>3. DevicesInv => ProfilesAnswer
  BY ProfileDevicesAnswer DEF ProfilesAnswer
<1> QED BY <1>1, <1>2, <1>3, PTL DEF WatchedSpec

\* A profile leaves out no device but one that was unknown to a registry that is full
\* in the end (ProfileWholeUnlessFull), whatever clients and profiles registered.
THEOREM ProfilesLeaveOutNoKnownDevice == WatchedSpec => ProfileWholeUnlessFull
<1>1. WatchedInit => DevicesInv
  BY DevicesStart
<1>2. DevicesInv /\ [WatchedNext]_<<vars, host, original, history>> => DevicesInv'
  BY DevicesStep
<1>3. ASSUME DevicesInv, NEW codename \in MayInstall[host], WatchedInstall(codename),
             NEW class \in DeviceClasses
      PROVE  \/ \E d \in DOMAIN hal_devices' : hal_devices'[d] = ProfileDevice(codename, class)
             \/ /\ Known(hal_devices, ProfileDevice(codename, class)) = {}
                /\ Len(hal_devices') = MaxHalDevices
  <2>1. hal_devices \in DeviceTables /\ hal_devices' = WithProfile(hal_devices, codename)
    BY <1>3 DEF DevicesInv, WatchedInstall, InstallLumiaHalCall, InstallLumiaHal
  <2>2. \/ ProfileDevice(codename, class) \in DevicesIn(hal_devices')
        \/ /\ Known(hal_devices, ProfileDevice(codename, class)) = {}
           /\ Len(hal_devices') = MaxHalDevices
    BY <2>1, ProfileLeaves
  <2> QED BY <2>2 DEF DevicesIn
<1>4. DevicesInv =>
        [\A codename \in MayInstall[host] :
           host \in {"profiles", "devices"} /\ WatchedInstall(codename) =>
             \A class \in DeviceClasses :
               \/ \E d \in DOMAIN hal_devices' :
                    hal_devices'[d] = ProfileDevice(codename, class)
               \/ /\ Known(hal_devices, ProfileDevice(codename, class)) = {}
                  /\ Len(hal_devices') = MaxHalDevices]_<<vars, history>>
  BY <1>3
<1> QED BY <1>1, <1>2, <1>4, PTL DEF WatchedSpec, ProfileWholeUnlessFull
-----------------------------------------------------------------------------
(* The types of all four tables, of the log and of the answers. *)

AnswersInv == LogTypeOK /\ result \in ResultCode

LEMMA LogEventTypes ==
  ASSUME LogTypeOK, AppendLog
  PROVE  LogTypeOK'
<1>1. RetainedLogs \in Seq(LogEvent) /\ Len(RetainedLogs) < MaxLogEvents
  BY LogAssumption DEF LogTypeOK, RetainedLogs
<1>2. next_log_sequence \in LogEvent
  BY DEF LogTypeOK
<1>3. NextLogSequence(next_log_sequence) \in LogEvent
  BY LogAssumption DEF LogTypeOK, LogEvent, NextLogSequence
<1> QED BY <1>1, <1>2, <1>3, LogAssumption DEF AppendLog, LogTypeOK

LEMMA AnswersStep ==
  ASSUME AnswersInv, [WatchedNext]_<<vars, host, original, history>>
  PROVE  AnswersInv'
<1>1. LogTypeOK /\ result \in ResultCode
  BY DEF AnswersInv
<1>2. UNCHANGED logVars \/ AppendLog
  BY DEF WatchedNext, FilesHost, ProfilesHost, DevicesHost, PackagesHost, Unwatched,
         WatchedAdd, WatchedTrash, WatchedRaise, WatchedInstall, AddFileCall, TrashFileCall,
         ArchiveFileCall, CheckFileIntegrityCall, RegisterInterruptCall, RaiseInterruptCall,
         RaiseInterrupt, HalRegisterCall, HalWriteCall, InstallLumiaHalCall, InstallLumiaHal,
         InstallBappCall, InstallBapp, RejectArguments, vars
<1>3. LogTypeOK'
  <2>1. CASE UNCHANGED logVars
    BY <1>1, <2>1 DEF LogTypeOK, logVars
  <2> QED BY <1>1, <1>2, <2>1, LogEventTypes
<1>4. UNCHANGED result \/ result' \in ResultCode
  BY DEF WatchedNext, FilesHost, ProfilesHost, DevicesHost, PackagesHost, Unwatched,
         WatchedAdd, WatchedTrash, WatchedRaise, WatchedInstall, AddFileCall, AddFile,
         TrashFileCall, TrashFile, ArchiveFileCall, ArchiveFile, CheckFileIntegrityCall,
         CheckFileIntegrity, IntegrityOf, RegisterInterruptCall, RegisterInterrupt,
         RaiseInterruptCall, RaiseInterrupt, HalRegisterCall, HalRegister, HalWriteCall,
         HalWrite, InstallLumiaHalCall, InstallLumiaHal, InstallBappCall, InstallBapp,
         RejectArguments, Succeed, FailWith, ResultCode, vars
<1> QED BY <1>1, <1>3, <1>4 DEF AnswersInv

LEMMA AnswersStart == WatchedInit => AnswersInv
<1> SUFFICES ASSUME WatchedInit PROVE AnswersInv
  OBVIOUS
<1>1. logs = <<1, 2>> /\ next_log_sequence = 3 /\ result = "OK"
  BY DEF WatchedInit, InitFor, LogInit
<1>2. 1 \in LogEvent /\ 2 \in LogEvent /\ 3 \in LogEvent
  BY LogAssumption DEF LogEvent
<1>3. <<1, 2>> \in Seq(LogEvent) /\ Len(<<1, 2>>) = 2
  BY <1>2
<1>4. logs \in Seq(LogEvent) /\ Len(logs) <= MaxLogEvents /\ next_log_sequence \in LogEvent
  BY <1>1, <1>2, <1>3, LogAssumption
<1> QED BY <1>1, <1>4 DEF AnswersInv, LogTypeOK, ResultCode

\* The four tables keep within their capacities and their counters within their
\* widths, and every call answers with one of the result codes (TypeOK).
THEOREM RegistryTypeCorrect == WatchedSpec => []TypeOK
<1> DEFINE Inv == InterruptsInv /\ DevicesInv /\ FilesInv /\ PackagesInv /\ AnswersInv
<1>1. WatchedInit => Inv
  BY InterruptsStart, DevicesStart, FilesStart, PackagesStart, AnswersStart
<1>2. Inv /\ [WatchedNext]_<<vars, host, original, history>> => Inv'
  BY InterruptsStep, DevicesStep, FilesStep, PackagesStep, AnswersStep
<1>3. Inv => TypeOK
  BY DEF InterruptsInv, DevicesInv, DeviceTables, FilesInv, PackagesInv, AnswersInv,
         TypeOK, DevicesTypeOK, FilesTypeOK, PackagesTypeOK
<1> QED BY <1>1, <1>2, <1>3, PTL DEF WatchedSpec
=============================================================================
