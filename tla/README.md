# BolunPhoneOS in TLA+

A verification development kept beside BolunPhoneOS: TLA+ modules translated from the C
sources, TLC configurations that check them on small instances, and TLAPS proofs for
every value of the constants. Paths below are relative to the repository, which appears
here as `src/`.

## 1. The system

BolunPhoneOS is an educational phone operating system that runs as a library inside a
host program. Its logic lives in passive C and C++ objects (four that share nothing: the
runtime, the kernel, the C++ services and the system object of Bolun Phone 1.0; and the
platform modules): a host creates an object and calls
its functions, nothing runs on its own, there are no threads, no locks and nothing is
persisted (the runtime's structure, `src/src/kernel/c/bolun_runtime.c:26-54`, holds only
tables and counters). The hard behaviour is therefore in *sequences of calls*: what is
left behind by stops, frees, refusals half-way and full tables, what a call that comes
later does with it, and what a host that keeps calling can rely on.

| Component | State | Operations | Interacts with | Hard behaviour | What makes it correct |
|---|---|---|---|---|---|
| Runtime processes and scheduler (`bolun_runtime.c`) | process table, next pid, cursor | spawn, schedule_next, stop, security_check | memory released on stop, receivers and timer owners looked up by pid, log | cursor survives spawns and stops; slots never reused | one process runs, at the cursor; round-robin without starvation; the stopped stay stopped |
| Runtime memory manager | block table, next block id, per-process counter | allocate, free (and release on stop) | processes | counter kept beside the table by three calls; `size_t` sums | blocks belong to the living; counter equals the blocks held; quotas hold |
| Runtime IPC queue | one shared queue, next sequence number | send, receive | processes, timers | removal from the middle; mail of the dead | per-process first-in first-out, nothing lost or doubled |
| Runtime timers | timer table, next timer id | create_timer, tick | queue, processes | coarse, uneven, empty ticks; full queue; dead owners | never early, never stuck, lost only when the queue is full |
| Runtime log and system calls | last events, sequence number | log, syscall, append by other calls | every component | drops the oldest; counter wraps | a gapless window that ends with the newest event |
| Interrupts and HAL devices | interrupt table, device registry | register/raise interrupt, hal_register, install_lumia_hal, hal_write | log | profiles over profiles; ignored results | no device twice, no interrupt uncounted, the installed profile answers and goes in whole while there is room |
| File records | record table | add, trash, archive, check integrity, search | – | trash and revival; cut-off texts; full table | a map from paths to contents |
| Packages and manifests | package table | install_bapp | log | substring parser; replacement; cut-off identifiers | one record for each package, for good |
| Kernel (`bolun_kernel.c`) | booted flag, features, apps, tiles, notifications, contacts, messages | boot, shutdown, install, launch, store removal, push, add, send | – | a boot that fails part of the way, boot after shutdown, clients before boot | catalog whole and once; records numbered |
| C++ services (`src/src/kernel/cpp/`) | five vectors, two sequence numbers | install, find, pin, set_badge, push, add, send | nothing: each has the kernel's capacities (`bolun_types.h`) and tables of its own | replacement, refused in a full table; badges set in a full table | apps and tiles are tables with one record for each app; records numbered |
| Bolun Phone 1.0 core (`src/bolun-phone-1.0/system/core/`) | processes, blocks, messages, files, packages, drivers, sockets, windows, log, boot image, power mode, update generation | 22 calls besides the three reports | pids own blocks, files, sockets and windows; the recovery plan writes a file | turns over a growing table, frees by others, removal from the middle of the queue, duplicates of files and units | turns shared; budgets kept; reads stable; a mailbox for each process |
| Platform modules (24 directories such as `src/scheduler/`, equal but for their names) | init flag, CPU, generation | init, health, route | nothing | 32-bit generation returned as an `int` | the health counts the routed commands |
| HAL validation of Bolun Phone 1.0 | none | one predicate | – | – | not modelled |
| Boot assembler, C# shell, `mkmainos.py` | none, or fixed demo data | – | – | – | not modelled |

The hazards, each at its line with the properties that would catch it going wrong, are
listed in `PROJECT.json`.

## 2. The modules

| Module | Models | State and actions |
|---|---|---|
| `BolunResult` | `bolun_result.h` | the result of the last call, `Succeed`, `FailWith` |
| `RuntimeLog` | `append_log` | `logs`, `next_log_sequence`; `AppendLog` is part of the calls that log |
| `RuntimeProcess` | process table and scheduler | `processes`, `next_pid`, `scheduler_cursor`; `SpawnProcess`, `ScheduleNext`, `SecurityCheck` |
| `TableSums` | the loop of `used_memory_bytes` | the sum of a field over a table, for both memory managers |
| `RuntimeMemory` | memory manager | `memory_blocks`, `next_block_id`; `AllocateMemory`, `FreeMemory`, `StopProcess` (which releases blocks) |
| `RuntimeIpc` | message queue | `ipc_messages`, `next_ipc_sequence`; `IpcSend`, `IpcReceive` |
| `RuntimeTimer` | timers | `timers`, `next_timer_id`; `CreateTimer`, `Tick` (one action: it advances every timer and posts every message) |
| `BolunRuntime` | the runtime object | composes the five; one action per entry point, the specifications `Spec` and `FairSpec` |
| `RuntimeProperties` | – | invariants, action and liveness properties of the runtime |
| `SchedulerHistory`, `TimerHistory` | – | the runtime with history variables: who ran since; how old a timer is, which were announced early, and how full the queue was when an expiry was lost |
| `Mailbox` | abstract specification of IPC | one mailbox per process, the set of the numbers of its messages, and a count of all that wait; opened, closed, written in batches, read from the least number on |
| `RuntimeMailbox` | – | the refinement mapping from the queue to `Mailbox` |
| `BolunText` | `copy_text` | a text is a head that fits its buffer and a rest that is cut off |
| `RuntimeDevices`, `RuntimeFiles`, `RuntimePackages` | the four registries | `interrupts`, `hal_devices`, `files`, `packages` and one operation per entry point |
| `BolunRegistries` | the other half of the runtime object | composes the registries; shares only the log with `BolunRuntime` |
| `KeyedTable` | abstract specification of a table with identifiers | `Put` adds or replaces one entry while there is room, `Amend` changes one also in a full table |
| `RegistryHistory` | – | the registries with history variables (what was added last, how often a line was raised, which profiles are in place, which family came first), used by one of four hosts, their properties, and the refinement mapping from packages to `KeyedTable` |
| `BolunTypes` | `bolun_types.h` | the capacities that the kernel and the services share |
| `BolunKernel` | `bolun_kernel.c` | one action per entry point |
| `KernelProperties` | – | the properties of the kernel |
| `BolunServices` | `src/src/kernel/cpp/*.cpp` | `apps_`, `tiles_`, `items_`, `contacts_`, `messages_`; one action per method, and the refinement mappings from apps and tiles to `KeyedTable` |
| `SystemProcess` | processes, scheduler, memory and log of `bolun_system.c` | `processes`, `scheduler_cursor`, `memory`, `log_count`; `ProcessSpawn`, `ProcessSchedule`, `SecurityCheck`, `MemoryAlloc`, `MemoryFree`, `MemoryMap` |
| `SystemIpc` | its message queue | `messages`, `next_message`; `IpcSend`, `IpcReceive` |
| `SystemFiles` | its file table and recovery plan | `files`; `BfsCreate`, `BfsRead`, `RecoveryPlan` |
| `SystemResources` | its other tables and modes | `packages`, `drivers`, `sockets`, `windows`, `boot`, `low_power_mode`, `update_generation`; one operation per entry point |
| `Bolun10System` | the system object | composes the four; the calls, the specification `SystemSpec` |
| `SystemProperties` | – | the properties of the system object, and the refinement mapping from its queue to `Mailbox` |
| `SystemHistory` | – | the system object with a history variable, the turns each process had when another was spawned; the property of its scheduler |
| `PlatformModule` | `scheduler/scheduler.c`, for all 24 modules | `cpu`, `initialized`, `generation`; `InitModule`, `HealthCall`, `Route` |
| `MCRegistries`, `MCKernel`, `MCNative`, `MCPhone10` | – | values and hosts for TLC: `MCNative` has a host for the kernel and hosts for the services, `MCPhone10` hosts for the parts of the system object and for a platform module |
| `OperatorLemmas` | – | lemmas about the operators the models use, without a state |
| `RuntimeTypeProofs`, `RuntimeSafetyProofs`, `RuntimeHistoryProofs`, `RegistryProofs`, `KernelProofs`, `ServicesProofs`, `SystemProofs` | – | theorems and proofs |

Conventions. An action is a whole C function: its early returns are disjuncts with a
result and `UNCHANGED`, the effects on several tables are one step, as the caller sees
them. The names of the code are kept. Behaviours are the sequences of calls a host can
make; `Calls` chooses the entry points a run's host uses, so that each run explores one
slice deeply. A call refused for a null pointer or an empty text is `RejectArguments`.
Queries that change nothing (status, list and search functions) are left out, except
where their answer is the subject (`security_check`, `check_file_integrity`,
`hal_write`, `launch_app`, `AppManager::find`, `bolun10_bfs_read`).

Hosts. Where the parts of an object share nothing that a property is about, a variable
`host` of the run picks one part for the whole behaviour (`RegistryHistory`, `MCNative`,
`MCPhone10`), so that the state spaces of the parts add up instead of multiplying. The
operations of the composed modules are not changed by it.

What calls answer. The runtime and the kernel keep the result code of the last call
(`result`); `bolun_system.c` answers 0 or an identifier for success and -1 for refusal, and
`returned` keeps 0 or -1; a method of the services answers a boolean, `accepted`. In
`bolun_system.c` no slot is ever given back and identifiers are handed out in slot order
from a fixed first one, so the `System` modules write an identifier as its slot.

Widths and bounds. `LogSequenceModulus`, `TickModulus`, `SizeModulus` and `CountModulus`
stand for 2^64 in the runtime, the registries and the kernel; in the `System` modules
`SizeModulus` is the width of `size_t` and `CountModulus` 2^32, and `Generations` is 2^32
in `PlatformModule`. All wrap. Five bounds exist in the model only, each a guard named in a comment:
`MaxIpcSequence` and `MaxSequence` end sending (sequence numbers would otherwise grow
for ever), `MaxRaised` ends the raising of an interrupt, `MaxTicks` the turns of a
process of Bolun Phone 1.0, and `MaxRouted` the commands routed to a platform module. All other constants are capacities of the code or inputs of
clients. Inputs include the values that take the special paths (size 0, quota 0 for the
default, interval 0, elapsed 0).

Abstractions. Bodies, names, models, titles, colours, severities and log texts are
payload and left out: a logged event is its sequence number. The feature and app tables of the kernel are constants (`DefaultFeatures`,
`DefaultApps`). A manifest is a sequence of lines, each a key and a value; the parser's
substring search is kept by `EndingIn`, which says which keys end in the text of which.
(The manifests of Bolun Phone 1.0 are lines too; a `permission` line of the value
`network` is there because the code finds `permission=net` in it.) A checksum stands for
the contents it is computed from, a signature for the version it belongs to.

## 3. The runs

| Run | Properties | Instance | What it shows |
|---|---|---|---|
| `Scheduler` | `RunningAtCursor`, `LogWindow`, `NoStarvation`, `BoundedBypass`, `StoppedForGood` | 4 slots, a log of 3 with width 5, a host that keeps scheduling | every live process runs again and again, and while it waits no other gets the CPU twice, although the table grows and members stop; the log is gapless across drops and the wrap of its counter |
| `Memory` | `BlocksOwnedByLive`, `MemoryAccounting`, `QuotaEnforced`, `IdentifiersBySlot` | 2 processes with quotas of 3 of the 4 bytes there are, 3 blocks, sums below the width; also turns, system calls, checks and log calls | ownership, accounting and quotas over wrong and double frees and stops; no identifier is used twice |
| `MemoryWrap` | `QuotaEnforced`, violated | width 8, a request of 7 | finding 1 |
| `Queue` | `QueueOrdered`, `ImplementsMailbox`, `DeliveredEventually`, `TimerEventuallyExpires` | 2 processes, queue of 3, 1 timer, a host that keeps receiving and ticking | the shared queue implements `Mailbox`; messages for others do not block a receiver; one-shot timers go off |
| `Timers` | `TypeOK`, `TimersWaiting`, `NeverEarly`, `LostOnlyWhenFull` | 2 timers, intervals 0, 2, 3, ticks 0, 1, 3, a queue of 2 | no timer is early, stuck or silently lost while there is room, and none goes into a full queue; a tick of 3 finds a repeating timer of 2 or 3 due from its whole interval |
| `TimerLost` | `ExpiryDelivered`, violated | queue of 1 | finding 2 |
| `Registries` | `TypeOK`, `FilesAsAdded`, `DevicesUnique`, `InterruptsCounted`, `ProfilesAnswer`, `ProfileWholeUnlessFull`, `PackagesAreTable` | 3 paths, 2 records, 2 hashes, cut-off texts; 2 families × 2 classes, client devices, 3 lines on 2 slots; 4 code names; 9 kinds of lines, up to 4 of them, 3 packages | the record table is a map from paths to contents, also when full; no device twice, no interrupt uncounted, a class answers exactly when a profile in place has it, and from the family the runtime began with if that has it; a profile that clients left no room for lacks no device that was known; packages implement `KeyedTable`: recorded once, replaced by their own identifier only, never displaced |
| `FilesCut` | `AddedContentValidates`, violated | 1 path | finding 3 |
| `ManifestKeys` | `InstalledUnderItsId`, violated | as in `Registries` | finding 4 |
| `Kernel` | `TypeOK`, `CatalogWholeWhenBooted`, `AppsInstalledOnce`, `RecordsNumbered`, `ServicesAreTables` | 3 features in 5 slots, 4 apps, 3 notifications, 3 messages; 5 app identifiers on the 4 places of the services, 2 titles, 2 badges | a booted kernel shows its whole catalog once, whatever failed before; no gap in the numbering, at and beyond the capacities; the services' apps and tiles implement `KeyedTable` and their records are numbered |
| `KernelReboot` | `BootEndsBooted`, violated | boot and shutdown | finding 5 |
| `Phone10` | `SystemTypeOK`, `TurnsShared`, `BudgetsKept`, `ReadsStable`, `SystemImplementsMailbox`, `HealthCountsRoutes` | 4 processes with 4 turns each; 3 blocks, 3 messages, 3 files under 3 paths with a cut-off form, 4 drivers of 2 names and 2 units, a generation of width 6 | of two processes in a growing table neither gets more than a turn ahead of the other from the moment both are there, what a process is charged is what it holds, a path that answers always answers the same, the queue implements `Mailbox`, a module refuses commands from the sign bit on until it is initialised again |

The four hosts of `Registries` each use one of the registries, which share nothing but
the log; their state spaces add up instead of multiplying. `ProfilesAnswer` is about the
host that registers no devices of its own: a client may switch a profile's device off.
`ProfileWholeUnlessFull` is about the other as well, whose devices can fill the registry.

Why the bounds are enough. The tables are arrays searched from the front; what can go
wrong needs a first, a last and one in between, a full table, and one call more. Four
slots let the scheduler's cursor pass a stopped slot, wrap and meet a slot added during
the turn. Three queued messages of two receivers let a removal take the first, the
middle and the last. Two timers (in `Timers`) let one expire for the
last free place and the other find the queue full within one tick. In the registries the ratio of the code is kept:
`MaxHalDevices` has room for both families of devices (36 in 96), `MaxFeatures` has room
for one copy of the feature table and not for two (183 in 320), and `MaxApps` equals
`MaxTiles`. In `Phone10` the recovery plan's path and one that a client uses leave a third
file for the full table; `Generations = 6` puts the sign bit two commands after the
initialisation, and `MaxRouted = 5` goes beyond it.

Each property of a passing run has a mutant: a definition, marked `(mutant)` next to the
one it replaces, that stands for a plausible bug in the code and violates the property.

Fairness. The library is passive, so nothing in it is fair. The liveness properties (in `Scheduler` and `Queue`) assume a
host whose main loop keeps calling: `schedule_next` (`FairScheduling`), `ipc_receive` for
every process (`FairReceiving`), `tick` with a positive time (`FairClock`); each is weak
fairness on one entry point, which is what a loop that calls it in every round gives.
Spawns, stops, sends and allocations are not assumed to happen.

## 4. What is proved

Every safety property and every refinement that a passing run checks is also a theorem,
for all capacities, widths, tables of defaults and sets of inputs that the assumptions
allow. All proofs are about the specifications that TLC runs (`Spec`, `TimedSpec`,
`TurnsSpec`, `WatchedSpec`, `ServicesSpec`, `SystemSpec`, `SharedSpec`, `MCSpec`), without fairness.

The assumptions are those named `...Assumption` in the modules, and TLC evaluates each of
them in a run: capacities and widths are positive (a width is at least 2), inputs are sets
of values of their types, and the relations of the code's own tables where a proof needs
one: twice the feature table exceeds `MaxFeatures` (183 of 320 in `bolun_kernel.c`), both
families of devices fit the registry (36 of 96 in `bolun_runtime.c`), no path and no hash is
empty (every call refuses those). Two theorems have a hypothesis about sizes besides, see below.

### Lemmas about operators (`OperatorLemmas`)

What the least and the greatest of a set of numbers is (by well-foundedness), what a
sequence without one of its entries is, how a counter wraps, and what the sum of a table
is. `TableSum` is a recursive function over the positions of one table; `RecursionUpTo`
says that the recursion equation holds for it and `InductionUpTo` is induction over the
positions of a given table for a given set, so that no operator has to be instantiated. From them follow `SumOfLonger` (an
entry appended), `SumOfChanged` (one entry changed), `SumsCompared` and `EntryInSum`, and
for the blocks of a memory manager `BytesOfLonger`, `BytesWithout`, `BytesKept` and
`BytesOfFewer`.

### The runtime

`RuntimeTypeProofs` proves `TypeCorrect` and `IdentifiersStable`. `TypeOK` is not
inductive alone: `next_pid` stays in its type because it counts the slots, and the slot
that `find_process` returns exists and is unique because pids number the slots. The
inductive invariant is `TypeInv == TypeOK /\ IdentifiersBySlot`; one lemma per operation
shows that it keeps its own tables' part, frame lemmas cover the calls that leave a
table alone, and `TypeInvStep` combines them.

`RuntimeSafetyProofs` uses `TypeInv` as an invariant known already. The lemma
`ProcessSteps` classifies what a step may do to the process table (append one, reschedule,
stop one, change a memory counter, nothing), `QueueSteps` does the same for the queue,
and each safety invariant is inductive relative to `TypeInv`: `StoppedStaysStopped`,
`RunningIsAtCursor`, `NoOrphanBlocks`, `QueueInOrder`, `TimersAlwaysWaiting` and
`LogHasNoGaps`.

- `MemoryAccounted` and `QuotasEnforced`: accounting is needed for the quota (the code
  compares the counter, the property speaks of the blocks) and the quota for the accounting
  (the counter must not wrap), so `Balanced` says both, and `BlocksOwnedByLive` is needed
  with it since a stop releases the blocks of its process only. The hypothesis `SizesFit`
  says that no request and `TotalMemory` together reach the width of `size_t`. Without it the
  theorems are false: finding 1 is the counterexample. `Memory.cfg` satisfies it, `MemoryWrap.cfg`
  does not.
- `QueueImplementsMailbox`: the refinement mapping is that of `RuntimeMailbox`. A spawn is `Open`,
  a stop `Close`, a send and a tick `Put` (a tick of several messages, or of none, which
  is a stutter), a receive `Take`. `QueueOrdered` makes the first message found for a
  process the one with the least number of its mailbox; that pids are slots
  (`TypeInv`) makes a mailbox open exactly while its process is in the table and not stopped.

`RuntimeHistoryProofs` proves what is said with history variables.

- `ExpiryLostOnlyWhenFull`: `lost` holds the length of the queue after each tick that lost the
  expiry of a timer that was due (`Expires`: active, of a live owner, and with no more to wait than
  has passed). A tick posts in the order of the timers, so that one is lost only behind the last place.
- `NeverAnnouncedEarly`: `early = {}` is not inductive; `AgeInv` adds that the age of an active
  timer and what it still has to wait for make up its interval at least. `QueueOrdered` is needed because a
  message is recognised as a new one by its number.
- `NobodyPassedTwice`: `BypassInv` says that the slots that ran since a live process ran are
  among those the cursor has passed on its way from it, in the cyclic order of the slots.
  The next slot the scheduler picks is not among those unless it passes the waiting one.

### The registries (`RegistryProofs`)

- `PackagesImplementTable`: the package table has different identifiers (`OneForEach`), so
  that the mapping to `KeyedTable` is a function and a replaced slot is that of the key.
- `InterruptsAlwaysCounted`: a line that was raised and counted is in the table once; the counter
  wraps as the remainder does (`SuccessorWraps`).
- `FilesAlwaysAsAdded`: `FilesInv` says of every path that fits and under which none was cut off that
  it has at most one record, which is in the trash or holds the content last added.
- `DevicesAlwaysUnique`, `ProfilesAlwaysAnswer`: installing a profile is a loop of
  registrations, whose results the code ignores. Induction along the loop shows that it ends with the old devices, less those it
  replaces, and all of the profile's. That none is refused needs that both families fit,
  and `DevicesInv`, that a host of profiles has no other devices. Which family answers is a matter of
  places: a device keeps its place when it is registered again (`StaysFirst`), so that those of the
  first family stay before those of the other.
- `ProfilesLeaveOutNoKnownDevice`: along the same loop, for any devices of clients: a
  registration finds its device, or finds room, or leaves a registry that is full and stays full.
- `RegistryTypeCorrect`: the type invariants come out of the invariants above.

### The kernel and the services

`KernelProofs` proves `KernelTypeCorrect` (a boot or an install that is refused half-way stays within
the capacities), `AppsAlwaysInstalledOnce`, `RecordsAlwaysNumbered` and `CatalogAlwaysWhole`. The last
needs `CatalogInv`: before and after every call there are no features, or a whole table of them, or the
table is full, so that a second copy never fits (`SecondTableNeverFits`). The same fact proves
`SecondBootNeverSucceeds`, which is finding 5 for every catalog of that size.

`ServicesProofs` proves `ServicesImplementTables`: apps and tiles implement `KeyedTable`, and the
records are numbered.

### Bolun Phone 1.0 (`SystemProofs`)

- `SystemTypeCorrect`, and on top of it:
- `TurnsAlwaysShared`: while the cursor stands between an older and a younger process, the older one is
  level with the younger one or a turn ahead of it, otherwise level or a turn behind. `TurnsInv` says so;
  which of the two it is depends on where the cursor was when the younger one was spawned.
- `BudgetsAlwaysKept`, under `LimitsFit` (a limit and a request together stay below the width,
  as in `Phone10.cfg`), along the argument for the runtime's quota. No total is compared, as in the code.
- `SystemQueueImplementsMailbox`: as for the runtime; a mailbox is never closed, for a process is never stopped.
- `ReadsAlwaysStable`: appended records come behind the one that answers.
- `HealthAlwaysCounts`: the generation of an initialised module is one more than the commands
  counted, until the sign bit.

### Only model-checked

Liveness: `NoStarvation`, `DeliveredEventually` and `TimerEventuallyExpires` rest on fairness
and `ENABLED`, which are outside the prover. (`NobodyPassedTwice` is the safety half of the
first, and `TimersAlwaysWaiting` with `ExpiryLostOnlyWhenFull` that of the third.) The five violated
properties are counterexamples of TLC's, of which `SecondBootNeverSucceeds` generalises one.

## 5. Findings

1. *A huge request passes the quota* (`bolun_runtime.c:269`, run `MemoryWrap`): the sums
   of the admission test wrap in `size_t`. `QuotaEnforced` and `MemoryAccounting` hold
   while sums stay below the width, which is how the run `Memory` is bounded.
2. *A timer's expiry is dropped when the queue is full* (`:384`, run `TimerLost`): the
   result of the send is ignored and a one-shot timer is switched off all the same. It, like
   the expiry of a repeating timer, is dropped in no other case (`LostOnlyWhenFull`).
3. *A long hash never validates* (`:663`, run `FilesCut`): the stored copy is cut to 95
   characters, the expected hash is not.
4. *A key is found inside another* (`:672`, run `ManifestKeys`): `guid=` is taken for `id=`.
5. *A kernel boots once* (`bolun_kernel.c:469`, run `KernelReboot`): a boot after a
   shutdown appends the feature table again, exceeds 320 rows and fails, for ever.

Things that the model shows and no run is spent on, since nothing in the repository says
otherwise:

- After a profile of the other family is installed, `bolun_runtime_hal_write` still finds
  the first family's devices first (`bolun_runtime.c:513`; `ProfilesAnswer` counts both
  families as in place and says which answers).
- A profile goes in partly when the registry is full, and the call answers `BOLUN_OK`
  (`bolun_runtime.c:557`; `ProfileWholeUnlessFull` says what may be missing).
- A path that was cut off when it was stored is found under its head, which nobody added
  (`bolun_runtime.c:596`; `FilesAsAdded` leaves such heads out).
- `bolun_kernel_evaluate_store_removal` records its answer nowhere
  (`EvaluateStoreRemoval` changes nothing), so that `bolun_kernel_launch_app` cannot
  consult it (`bolun_kernel.c:548`).
- A full table refuses the replacement of what it holds, in the kernel, the runtime's
  packages and the services (`KeyedTable`: `Put` needs room; `app_manager.cpp:6`,
  `bolun_runtime.c:691`).
- Of two recovery plans the reader gets the first (`bolun_system.c:338` appends, `:210`
  reads the oldest; `ReadsStable`).
- `permission=network` in a manifest grants the network permission, as `permission=net`
  does (`bolun_system.c:174`, `Grants`).
- The allocation test of Bolun Phone 1.0 sums in `size_t` as the runtime's does
  (`bolun_system.c:109`), and compares nothing with the total memory. `BudgetsKept` holds
  while the sums stay below the width.
- An update that was applied may be applied again, a package installed again is one more
  record, and of several units of a driver the first is switched (`:332`, `:176`, `:264`;
  the drivers have no property besides their type).
- A platform module refuses every command after 2^31 - 1 of them (`scheduler.c:33`).

## 6. Not modelled, and the plan

Not modelled for good: the boot assembler's banner and probe, the C# shell (fixed demo
data), `mkmainos.py` (a one-pass packer), the generated directory READMEs, the HAL
validation of Bolun Phone 1.0 (one predicate over its argument, no state), and the
queries and reports named above. Of the 24 platform modules one is mapped; the others
differ from it in their names.

Done: the runtime's processes, memory, queue, timers and log with their proofs; the
registries; the kernel; the C++ services; the system object of Bolun Phone 1.0; the
platform modules.

Proved: every safety property and refinement of the runs (section 4).

Next are theorems that say where the findings end:

1. content added under a hash that fits its buffer validates (the half of
   `AddedContentValidates` that finding 3 leaves);
2. a package is installed under its `id` where no look-alike key stands before it
   (`InstalledUnderItsId`, finding 4);
3. a first boot of a kernel whose catalog fits always succeeds (`BootEndsBooted`, finding 5).
